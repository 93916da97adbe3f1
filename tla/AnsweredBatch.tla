--------------------------- MODULE AnsweredBatch ----------------------------
(***************************************************************************)
(* What a request level rollout promises its caller: every request is      *)
(* answered once, by its own conversation or by padding, and padding is    *)
(* given only when enough requests have answers of their own.              *)
(***************************************************************************)
EXTENDS Integers, FiniteSets

CONSTANT Requests
VARIABLES
  needed,    \* number of requests that must have answers of their own
  answers,   \* the kind of answer each request has
  result     \* "open", "returned" to the caller, or "raised"

vars == <<needed, answers, result>>

Own == {r \in Requests : answers[r] = "own"}
Enough == Cardinality(Own) >= needed

Init ==
  /\ needed \in 0 .. Cardinality(Requests)
  /\ answers = [r \in Requests |-> "none"] /\ result = "open"

Answer(r) ==
  /\ answers[r] = "none" /\ result # "returned"
  /\ answers' = [answers EXCEPT ![r] = "own"]
  /\ UNCHANGED <<needed, result>>

(* Padding also answers what is left over of a batch that has failed.      *)
Pad(r) ==
  /\ answers[r] = "none" /\ ((Enough /\ result = "open") \/ result = "raised")
  /\ answers' = [answers EXCEPT ![r] = "padding"]
  /\ UNCHANGED <<needed, result>>

Return ==
  /\ result = "open" /\ Enough /\ \A r \in Requests : answers[r] # "none"
  /\ result' = "returned" /\ UNCHANGED <<needed, answers>>

Raise == result = "open" /\ result' = "raised" /\ UNCHANGED <<needed, answers>>

Next == (\E r \in Requests : Answer(r) \/ Pad(r)) \/ Return \/ Raise

Spec == Init /\ [][Next]_vars
=============================================================================
