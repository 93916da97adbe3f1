------------------------- MODULE OverSampling_proofs -------------------------
(***************************************************************************)
(* Proofs about OverSampling for every number of requests, every target,   *)
(* every turn and length limit: what an answer of the batch looks like,    *)
(* and that cancelling the rest of a batch implements AnsweredBatch.       *)
(***************************************************************************)
EXTENDS OverSampling, SequenceTheorems, FiniteSetTheorems, TLAPS

-----------------------------------------------------------------------------
(* The requests and their tasks. *)

RequestType ==
  [state : {"PENDING", "RUNNING", "TOOL_CALLING", "INTERACTING", "LEFT", "COMPLETED"},
   len : Nat, genPrompt : BOOLEAN, current_turns : Nat, user_turns : Nat, room : Nat,
   response : Nat, reason : {"none", "stop", "length", "tool_calls"},
   task : {"running", "failed", "done", "cancelled"}, answer : {"none", "own", "padding"}]

TypeInv ==
  /\ cfg \in Configs
  /\ req \in [Requests -> RequestType]
  /\ tools \in [Requests -> {"none", "created", "released"}]
  /\ engine \subseteq Requests
  /\ finished \in Seq(Requests) /\ completed \in Nat
  /\ main \in {"waiting", "gathering", "done"} /\ result \in {"open", "returned", "raised"}

(* What a conversation is while its task runs: the turn limits are met, a  *)
(* generation has room for a token, an interaction is one the limits       *)
(* allow, and who left the loop without reaching the limit has a reason    *)
(* that finalize accepts.                                                  *)
Conversing(r) ==
  LET q == req[r]
  IN  /\ q.current_turns <= MaxAssistantTurns /\ q.user_turns <= MaxUserTurns
      /\ q.genPrompt => q.len >= GenPrompt
      /\ q.state # "COMPLETED"
      /\ q.state = "LEFT" => q.reason \in {"stop", "length"}
      /\ q.state = "INTERACTING" => q.user_turns < MaxUserTurns
      /\ r \in engine => q.state = "RUNNING" /\ q.room >= 1 /\ q.current_turns < MaxAssistantTurns

(* What an answer of its own is once the task is done.                     *)
Answered(r) ==
  LET q == req[r]
  IN  /\ q.state = "COMPLETED" /\ q.reason \in {"stop", "length"}
      /\ q.len <= MaxModelLen /\ q.response <= ResponseLen
      /\ q.current_turns <= MaxAssistantTurns /\ q.user_turns <= MaxUserTurns
      /\ tools[r] = "released"

RequestOK(r) ==
  /\ Running(r) => Conversing(r)
  /\ req[r].answer = "own" => Answered(r)
  /\ req[r].task = "done" <=> req[r].answer # "none"

RequestInv == \A r \in Requests : RequestOK(r)

-----------------------------------------------------------------------------
(* The count of completed requests. *)

Ended == {finished[i] : i \in 1 .. Len(finished)}
OwnAnswers == {r \in Requests : req[r].answer = "own"}

(* Each task ends once, and what was counted is answered and not in the    *)
(* queue of ended tasks any more.                                          *)
CountInv ==
  /\ \A i, j \in 1 .. Len(finished) : finished[i] = finished[j] => i = j
  /\ \A r \in Ended : req[r].task = "failed" \/ req[r].answer = "own"
  /\ completed <= Cardinality(OwnAnswers \ Ended)

(* The caller waits until it cancels, and cancels when enough completed or *)
(* one raised.                                                             *)
MainInv ==
  /\ main = "waiting" => result = "open" /\ \A r \in Requests : req[r].task # "cancelled"
  /\ main = "gathering" =>
       /\ ~ cfg.validate /\ \A r \in Requests : ~ Running(r)
       /\ \/ result = "open" /\ completed >= 1 /\ completed >= cfg.target
          \/ result = "raised" /\ \E r \in Requests : req[r].task = "failed"
  /\ cfg.validate => \A r \in Requests : req[r].answer # "padding" /\ req[r].task # "cancelled"

OverInv == TypeInv /\ RequestInv /\ CountInv /\ MainInv

-----------------------------------------------------------------------------
(* What the operators of a conversation return. *)

LEMMA Lengths ==
  /\ PromptLen \in Nat /\ ResponseLen \in Nat \ {0} /\ MaxModelLen \in Nat /\ GenPrompt \in Nat
  /\ MaxAssistantTurns \in Nat /\ MaxUserTurns \in Nat /\ MaxObservation \in Nat
  /\ Retokenized \in Nat /\ PromptLen >= GenPrompt
BY LengthsAssumption

LEMMA SmallerBounds ==
  ASSUME NEW a \in Nat, NEW b \in Nat
  PROVE  Smaller(a, b) \in Nat /\ Smaller(a, b) <= a /\ Smaller(a, b) <= b
         /\ (a >= 1 /\ b >= 1 => Smaller(a, b) >= 1)
BY DEF Smaller

LEMMA NewRequestType ==
  /\ NewRequest \in RequestType
  /\ NewRequest.answer = "none" /\ NewRequest.task = "running" /\ NewRequest.state = "PENDING"
  /\ NewRequest.len >= GenPrompt /\ NewRequest.current_turns = 0 /\ NewRequest.user_turns = 0
BY Lengths DEF NewRequest, RequestType

LEMMA LeaveFacts ==
  ASSUME NEW q \in RequestType, NEW why \in {"stop", "length"}
  PROVE  /\ Leave(q, why) \in RequestType
         /\ Leave(q, why).state = "LEFT" /\ Leave(q, why).reason = why
         /\ Leave(q, why).current_turns = q.current_turns /\ Leave(q, why).user_turns = q.user_turns
         /\ Leave(q, why).len = q.len /\ Leave(q, why).genPrompt = q.genPrompt
         /\ Leave(q, why).task = q.task /\ Leave(q, why).answer = q.answer
BY DEF Leave, RequestType

LEMMA GenPromptFacts ==
  ASSUME NEW q \in RequestType, q.genPrompt => q.len >= GenPrompt
  PROVE  LET g == WithGenPrompt(q)
         IN  /\ g \in RequestType /\ g.genPrompt /\ g.len >= GenPrompt
             /\ g.current_turns = q.current_turns /\ g.user_turns = q.user_turns
             /\ g.state = q.state /\ g.task = q.task /\ g.answer = q.answer
<1> DEFINE l == q.len + GenPrompt
           e == [q EXCEPT !.len = l, !.genPrompt = TRUE]
<1>1. l \in Nat /\ l >= GenPrompt
  BY Lengths DEF RequestType
<1>2. WithGenPrompt(q) = IF q.genPrompt THEN q ELSE e
  BY DEF WithGenPrompt
<1> HIDE DEF l
<1>3. e \in RequestType
  BY <1>1 DEF RequestType
<1>4. /\ e.genPrompt /\ e.len = l
      /\ e.current_turns = q.current_turns /\ e.user_turns = q.user_turns
      /\ e.state = q.state /\ e.task = q.task /\ e.answer = q.answer
  BY DEF RequestType
<1> HIDE DEF e
<1> QED
  BY <1>1, <1>2, <1>3, <1>4

LEMMA AssistantFacts ==
  ASSUME NEW q \in RequestType, NEW n \in Nat
  PROVE  LET a == Assistant(q, n)
         IN  /\ a \in RequestType /\ ~ a.genPrompt
             /\ a.current_turns = q.current_turns + 1 /\ a.user_turns = q.user_turns
             /\ a.state = q.state /\ a.task = q.task /\ a.answer = q.answer
<1> DEFINE l == q.len + n
           t == q.current_turns + 1
<1>1. l \in Nat /\ t \in Nat
  BY DEF RequestType
<1>2. Assistant(q, n) = [q EXCEPT !.len = l, !.genPrompt = FALSE, !.current_turns = t, !.room = 0]
  BY DEF Assistant
<1> HIDE DEF l, t
<1>3. Assistant(q, n) \in RequestType
  <2>1. ASSUME NEW z \in Nat PROVE [q EXCEPT !.len = l, !.genPrompt = FALSE, !.current_turns = t, !.room = z] \in RequestType
    BY <1>1 DEF RequestType
  <2> QED
    BY <1>2, <2>1
<1>4. /\ ~ Assistant(q, n).genPrompt /\ Assistant(q, n).current_turns = t
      /\ Assistant(q, n).user_turns = q.user_turns /\ Assistant(q, n).state = q.state
      /\ Assistant(q, n).task = q.task /\ Assistant(q, n).answer = q.answer
  BY <1>2 DEF RequestType
<1> QED
  BY <1>3, <1>4 DEF t

LEMMA ObserveFacts ==
  ASSUME NEW q \in RequestType, NEW n \in Nat
  PROVE  LET o == Observe(q, n)
         IN  /\ o \in RequestType /\ ~ o.genPrompt /\ o.state = "RUNNING"
             /\ o.current_turns = q.current_turns /\ o.user_turns = q.user_turns
             /\ o.task = q.task /\ o.answer = q.answer
<1> DEFINE l == q.len + n
<1>1. l \in Nat
  BY DEF RequestType
<1>2. Observe(q, n) = [q EXCEPT !.len = l, !.genPrompt = FALSE, !.state = "RUNNING"]
  BY DEF Observe
<1> HIDE DEF l
<1>3. Observe(q, n) \in RequestType
  BY <1>1, <1>2 DEF RequestType
<1>4. /\ ~ Observe(q, n).genPrompt /\ Observe(q, n).state = "RUNNING"
      /\ Observe(q, n).current_turns = q.current_turns
      /\ Observe(q, n).user_turns = q.user_turns
      /\ Observe(q, n).task = q.task /\ Observe(q, n).answer = q.answer
  BY <1>2 DEF RequestType
<1> QED
  BY <1>3, <1>4

\* finalize cuts whatever was gathered to the model's and the response's length, and
\* accepts who left for a reason or ran into the turn limit.
LEMMA FinalizedFacts ==
  ASSUME NEW q \in RequestType, q.genPrompt => q.len >= GenPrompt,
         \/ q.state = "LEFT" /\ q.reason \in {"stop", "length"}
         \/ q.current_turns >= MaxAssistantTurns
  PROVE  LET f == Finalized(q)
         IN  /\ f \in RequestType /\ f.state = "COMPLETED" /\ f.reason \in {"stop", "length"}
             /\ f.len <= MaxModelLen /\ f.response <= ResponseLen
             /\ f.current_turns = q.current_turns /\ f.user_turns = q.user_turns
<1> DEFINE all == IF q.genPrompt THEN q.len - GenPrompt ELSE q.len
           cap == Smaller(MaxModelLen, PromptLen + ResponseLen)
           len == Smaller(all, cap)
           resp == IF len < PromptLen THEN 0 ELSE Smaller(len - PromptLen, ResponseLen)
           why == IF q.current_turns >= MaxAssistantTurns THEN "stop" ELSE q.reason
<1>1. all \in Nat
  BY Lengths DEF RequestType
<1>2. cap \in Nat /\ cap <= MaxModelLen
  BY Lengths, SmallerBounds
<1>3. len \in Nat /\ len <= cap
  BY <1>1, <1>2, SmallerBounds
<1>4. resp \in Nat /\ resp <= ResponseLen
  <2> DEFINE cut == len - PromptLen
  <2> HIDE DEF len, cap, all
  <2>1. CASE len < PromptLen
    BY <2>1, Lengths
  <2>2. CASE ~ (len < PromptLen)
    <3>1. cut \in Nat
      BY <1>3, <2>2, Lengths
    <3>2. resp = Smaller(cut, ResponseLen)
      BY <2>2
    <3> HIDE DEF cut, resp
    <3> QED
      BY <3>1, <3>2, Lengths, SmallerBounds
  <2> QED
    BY <2>1, <2>2
<1>5. len <= MaxModelLen
  <2> HIDE DEF len, cap
  <2> QED
    BY <1>2, <1>3, Lengths
<1>6. why \in {"stop", "length"}
  OBVIOUS
<1>7. Finalized(q) = [q EXCEPT !.state = "COMPLETED", !.len = len, !.reason = why, !.response = resp]
  BY DEF Finalized
<1> HIDE DEF len, resp, why
<1> QED
  BY <1>3, <1>4, <1>5, <1>6, <1>7 DEF RequestType

LEMMA AfterEngineFacts ==
  ASSUME NEW r \in Requests, NEW q \in RequestType, NEW x \in AfterEngine(r, q)
  PROVE  /\ x \in RequestType /\ ~ x.genPrompt
         /\ x.current_turns = q.current_turns + 1 /\ x.user_turns = q.user_turns
         /\ x.task = q.task /\ x.answer = q.answer
         /\ \/ x.state = "LEFT" /\ x.reason \in {"stop", "length"}
            \/ x.state = "TOOL_CALLING"
            \/ x.state = "INTERACTING" /\ q.user_turns < MaxUserTurns
<1>1. PICK n \in 1 .. (q.room + Retokenized) :
        \/ x = Leave(Assistant(q, n), "stop")
        \/ x = [Assistant(q, n) EXCEPT !.state = "TOOL_CALLING", !.reason = "tool_calls"]
        \/ x = Leave(Assistant(q, n), "length")
        \/ Interacts(r, Assistant(q, n))
             /\ x = [Assistant(q, n) EXCEPT !.state = "INTERACTING", !.reason = "stop"]
  <2>1. 1 .. q.room \subseteq 1 .. (q.room + Retokenized)
    BY Lengths DEF RequestType
  <2>2. \/ \E n \in 1 .. q.room :
               \/ x = Leave(Assistant(q, n), "stop")
               \/ x = Leave(Assistant(q, n), "length")
               \/ Interacts(r, Assistant(q, n))
                    /\ x = [Assistant(q, n) EXCEPT !.state = "INTERACTING", !.reason = "stop"]
        \/ \E n \in 1 .. (q.room + Retokenized) :
               x = [Assistant(q, n) EXCEPT !.state = "TOOL_CALLING", !.reason = "tool_calls"]
    BY Zenon DEF AfterEngine
  <2>3. ASSUME NEW n \in 1 .. q.room PROVE n \in 1 .. (q.room + Retokenized)
    BY <2>1, Zenon
  <2> QED
    BY <2>2, <2>3, Zenon
<1> DEFINE a == Assistant(q, n)
<1>2. n \in Nat
  BY <1>1, Lengths DEF RequestType
<1>3. /\ a \in RequestType /\ ~ a.genPrompt
      /\ a.current_turns = q.current_turns + 1 /\ a.user_turns = q.user_turns
      /\ a.task = q.task /\ a.answer = q.answer
  BY <1>2, AssistantFacts
<1> HIDE DEF a
<1>4. CASE x = Leave(a, "stop") \/ x = Leave(a, "length")
  BY <1>3, <1>4, LeaveFacts
<1>5. CASE x = [a EXCEPT !.state = "TOOL_CALLING", !.reason = "tool_calls"]
  <2>1. x \in RequestType
    BY <1>3, <1>5 DEF RequestType
  <2>2. /\ x.state = "TOOL_CALLING" /\ x.reason = "tool_calls" /\ x.genPrompt = a.genPrompt
        /\ x.current_turns = a.current_turns /\ x.user_turns = a.user_turns
        /\ x.task = a.task /\ x.answer = a.answer
    BY <1>3, <1>5 DEF RequestType
  <2> QED
    BY <1>3, <1>5, <2>1, <2>2
<1>6. CASE Interacts(r, a) /\ x = [a EXCEPT !.state = "INTERACTING", !.reason = "stop"]
  <2>1. q.user_turns < MaxUserTurns
    BY <1>3, <1>6 DEF Interacts
  <2> QED
    BY <1>3, <1>6, <2>1 DEF RequestType
<1> QED
  BY <1>1, <1>4, <1>5, <1>6 DEF a

-----------------------------------------------------------------------------
(* The steps of one request: it is left in order, and no other request is  *)
(* touched.                                                                *)

Untouched(r) ==
  \A s \in Requests \ {r} :
    req'[s] = req[s] /\ tools'[s] = tools[s] /\ (s \in engine' <=> s \in engine)

Typed ==
  /\ req' \in [Requests -> RequestType]
  /\ tools' \in [Requests -> {"none", "created", "released"}]
  /\ engine' \subseteq Requests

LEMMA HandlePendingOK ==
  ASSUME NEW r \in Requests, TypeInv, RequestInv, HandlePending(r)
  PROVE  Typed /\ Untouched(r) /\ RequestOK(r)' /\ req'[r].answer = req[r].answer
         /\ req'[r].task = "running"
<1> DEFINE q == req[r]
           x == [q EXCEPT !.state = "RUNNING"]
<1>1. req' = [req EXCEPT ![r] = x] /\ q \in RequestType /\ RequestOK(r)
  BY DEF HandlePending, TypeInv, RequestInv
<1>2. x \in RequestType /\ x.state = "RUNNING" /\ x.current_turns = q.current_turns
      /\ x.user_turns = q.user_turns /\ x.genPrompt = q.genPrompt /\ x.len = q.len
      /\ x.task = q.task /\ x.answer = q.answer
  BY <1>1 DEF RequestType
<1> HIDE DEF x
<1>3. r \notin engine /\ Running(r) /\ engine' = engine
  BY DEF HandlePending, WithState
<1>4. Typed /\ Untouched(r) /\ req'[r] = x
  BY <1>1, <1>2 DEF TypeInv, HandlePending, Typed, Untouched
<1>5. Conversing(r)'
  BY <1>1, <1>2, <1>3, <1>4 DEF Conversing, RequestOK
<1> QED
  BY <1>1, <1>2, <1>3, <1>4, <1>5 DEF RequestOK, Running

LEMMA CallEngineOK ==
  ASSUME NEW r \in Requests, TypeInv, RequestInv, CallEngine(r)
  PROVE  Typed /\ Untouched(r) /\ RequestOK(r)' /\ req'[r].answer = req[r].answer
         /\ req'[r].task = "running"
<1> DEFINE q == WithGenPrompt(req[r])
           room == Smaller(ResponseLen, MaxModelLen - q.len - 1)
           x == [q EXCEPT !.room = room]
<1>1. req[r] \in RequestType /\ RequestOK(r) /\ Running(r) /\ r \notin engine /\ Conversing(r)
  BY DEF CallEngine, WithState, TypeInv, RequestInv, RequestOK
<1>2. /\ q \in RequestType /\ q.genPrompt /\ q.len >= GenPrompt
      /\ q.current_turns = req[r].current_turns /\ q.user_turns = req[r].user_turns
      /\ q.state = "RUNNING" /\ q.task = req[r].task /\ q.answer = req[r].answer
  <2>1. req[r].genPrompt => req[r].len >= GenPrompt
    BY <1>1 DEF Conversing
  <2>2. req[r].state = "RUNNING"
    BY DEF CallEngine, WithState
  <2> QED
    BY <1>1, <2>1, <2>2, GenPromptFacts
<1> HIDE DEF q
<1>3. CASE TooLong(q)
  <2>1. req' = [req EXCEPT ![r] = Leave(q, "length")] /\ engine' = engine /\ tools' = tools
    BY <1>3 DEF CallEngine, q
  <2>2. Typed /\ Untouched(r) /\ req'[r] = Leave(q, "length")
    BY <1>2, <2>1, LeaveFacts DEF TypeInv, Typed, Untouched
  <2>3. Conversing(r)'
    BY <1>1, <1>2, <2>1, <2>2, LeaveFacts DEF Conversing
  <2> QED
    BY <1>1, <1>2, <2>2, <2>3, LeaveFacts DEF RequestOK, Running
<1>4. CASE ~ TooLong(q)
  <2>1. req' = [req EXCEPT ![r] = x] /\ engine' = engine \cup {r} /\ tools' = tools
    BY <1>4 DEF CallEngine, q
  <2>2. room \in Nat /\ room >= 1
    <3> DEFINE left == MaxModelLen - q.len - 1
    <3>1. left \in Nat /\ left >= 1
      <4>1. q.len \in Nat /\ ~ (q.len + 1 >= MaxModelLen)
        BY <1>2, <1>4 DEF TooLong, RequestType
      <4> QED
        BY <4>1, Lengths
    <3>2. room = Smaller(ResponseLen, left)
      OBVIOUS
    <3> HIDE DEF left, room
    <3>3. ResponseLen \in Nat /\ ResponseLen >= 1
      BY Lengths
    <3> QED
      BY <3>1, <3>2, <3>3, SmallerBounds
  <2> HIDE DEF room
  <2>3. /\ x \in RequestType /\ x.genPrompt /\ x.len = q.len /\ x.room = room
        /\ x.current_turns = q.current_turns /\ x.user_turns = q.user_turns
        /\ x.state = "RUNNING" /\ x.task = q.task /\ x.answer = q.answer
    BY <1>2, <2>2 DEF RequestType
  <2> HIDE DEF x
  <2>4. Typed /\ Untouched(r) /\ req'[r] = x
    BY <2>1, <2>3 DEF TypeInv, Typed, Untouched
  <2>5. req[r].current_turns < MaxAssistantTurns
    BY DEF CallEngine, WithState, InLoop
  <2>6. Conversing(r)'
    BY <1>1, <1>2, <2>2, <2>3, <2>4, <2>5 DEF Conversing
  <2> QED
    BY <1>1, <1>2, <2>3, <2>4, <2>6 DEF RequestOK, Running
<1> QED
  BY <1>3, <1>4

LEMMA EngineReturnsOK ==
  ASSUME NEW r \in Requests, TypeInv, RequestInv, EngineReturns(r)
  PROVE  Typed /\ Untouched(r) /\ RequestOK(r)' /\ req'[r].answer = req[r].answer
         /\ req'[r].task = "running"
<1>1. req[r] \in RequestType /\ RequestOK(r) /\ Running(r) /\ r \in engine /\ Conversing(r)
  BY DEF EngineReturns, TypeInv, RequestInv, RequestOK
<1>2. PICK x \in AfterEngine(r, req[r]) : req' = [req EXCEPT ![r] = x]
  BY DEF EngineReturns
<1>3. /\ x \in RequestType /\ ~ x.genPrompt
      /\ x.current_turns = req[r].current_turns + 1 /\ x.user_turns = req[r].user_turns
      /\ x.task = req[r].task /\ x.answer = req[r].answer
      /\ \/ x.state = "LEFT" /\ x.reason \in {"stop", "length"}
         \/ x.state = "TOOL_CALLING"
         \/ x.state = "INTERACTING" /\ req[r].user_turns < MaxUserTurns
  BY <1>1, <1>2, AfterEngineFacts
<1>4. Typed /\ Untouched(r) /\ req'[r] = x /\ r \notin engine'
  BY <1>2, <1>3 DEF TypeInv, Typed, Untouched, EngineReturns
<1>5. x.current_turns <= MaxAssistantTurns /\ x.user_turns <= MaxUserTurns
  BY <1>1, <1>3, Lengths DEF Conversing, RequestType
<1>6. Conversing(r)'
  BY <1>3, <1>4, <1>5 DEF Conversing
<1> QED
  BY <1>1, <1>3, <1>4, <1>6 DEF RequestOK, Running

LEMMA CallToolsOK ==
  ASSUME NEW r \in Requests, TypeInv, RequestInv, CallTools(r)
  PROVE  Typed /\ Untouched(r) /\ RequestOK(r)' /\ req'[r].answer = req[r].answer
         /\ req'[r].task = "running"
<1>1. req[r] \in RequestType /\ RequestOK(r) /\ Running(r) /\ r \notin engine /\ Conversing(r)
  BY DEF CallTools, WithState, TypeInv, RequestInv, RequestOK
<1>2. PICK n \in 1 .. MaxObservation : req' = [req EXCEPT ![r] = Observe(req[r], n)]
  BY DEF CallTools
<1> DEFINE x == Observe(req[r], n)
<1>3. /\ x \in RequestType /\ ~ x.genPrompt /\ x.state = "RUNNING"
      /\ x.current_turns = req[r].current_turns /\ x.user_turns = req[r].user_turns
      /\ x.task = req[r].task /\ x.answer = req[r].answer
  BY <1>1, <1>2, ObserveFacts, Lengths
<1> HIDE DEF x
<1>4. Typed /\ Untouched(r) /\ req'[r] = x /\ r \notin engine'
  BY <1>1, <1>2, <1>3 DEF TypeInv, Typed, Untouched, CallTools, x
<1>5. Conversing(r)'
  BY <1>1, <1>3, <1>4 DEF Conversing
<1> QED
  BY <1>1, <1>3, <1>4, <1>5 DEF RequestOK, Running

LEMMA InteractOK ==
  ASSUME NEW r \in Requests, TypeInv, RequestInv, Interact(r)
  PROVE  Typed /\ Untouched(r) /\ RequestOK(r)' /\ req'[r].answer = req[r].answer
         /\ req'[r].task = "running"
<1>1. req[r] \in RequestType /\ RequestOK(r) /\ Running(r) /\ r \notin engine /\ Conversing(r)
      /\ req[r].state = "INTERACTING"
  BY DEF Interact, WithState, TypeInv, RequestInv, RequestOK
<1> DEFINE t == req[r].user_turns + 1
<1>2. t \in Nat /\ t <= MaxUserTurns
  BY <1>1, Lengths DEF Conversing, RequestType
<1>3. PICK y \in RequestType :
        /\ req' = [req EXCEPT ![r] = [y EXCEPT !.user_turns = @ + 1]]
        /\ y.user_turns = req[r].user_turns /\ y.current_turns = req[r].current_turns
        /\ y.task = req[r].task /\ y.answer = req[r].answer
        /\ \/ ~ y.genPrompt /\ y.state = "RUNNING"
           \/ y.state = "LEFT" /\ y.reason = "stop" /\ (y.genPrompt => y.len >= GenPrompt)
  <2>1. CASE \E n \in 1 .. MaxObservation :
               req' = [req EXCEPT ![r] = [Observe(req[r], n) EXCEPT !.user_turns = @ + 1]]
    <3>1. PICK n \in 1 .. MaxObservation :
            req' = [req EXCEPT ![r] = [Observe(req[r], n) EXCEPT !.user_turns = @ + 1]]
      BY <2>1
    <3>2. n \in Nat
      BY Lengths
    <3> DEFINE o == Observe(req[r], n)
    <3>3. /\ o \in RequestType /\ ~ o.genPrompt /\ o.state = "RUNNING"
          /\ o.current_turns = req[r].current_turns /\ o.user_turns = req[r].user_turns
          /\ o.task = req[r].task /\ o.answer = req[r].answer
      BY <1>1, <3>2, ObserveFacts
    <3>4. req' = [req EXCEPT ![r] = [o EXCEPT !.user_turns = @ + 1]]
      BY <3>1
    <3> HIDE DEF o
    <3> QED
      BY <3>3, <3>4
  <2>2. CASE req' = [req EXCEPT ![r] = [Leave(req[r], "stop") EXCEPT !.user_turns = @ + 1]]
    <3> DEFINE o == Leave(req[r], "stop")
    <3>1. /\ o \in RequestType /\ o.state = "LEFT" /\ o.reason = "stop"
          /\ (o.genPrompt => o.len >= GenPrompt)
          /\ o.current_turns = req[r].current_turns /\ o.user_turns = req[r].user_turns
          /\ o.task = req[r].task /\ o.answer = req[r].answer
      BY <1>1, LeaveFacts DEF Conversing
    <3>2. req' = [req EXCEPT ![r] = [o EXCEPT !.user_turns = @ + 1]]
      BY <2>2
    <3> HIDE DEF o
    <3> QED
      BY <3>1, <3>2
  <2> QED
    BY <2>1, <2>2 DEF Interact
<1> DEFINE x == [y EXCEPT !.user_turns = t]
<1>4. req' = [req EXCEPT ![r] = x]
  BY <1>3
<1> HIDE DEF t
<1>5. /\ x \in RequestType /\ x.user_turns = t /\ x.current_turns = y.current_turns
      /\ x.state = y.state /\ x.reason = y.reason /\ x.genPrompt = y.genPrompt /\ x.len = y.len
      /\ x.task = y.task /\ x.answer = y.answer
  BY <1>2 DEF RequestType
<1> HIDE DEF x
<1>6. Typed /\ Untouched(r) /\ req'[r] = x /\ r \notin engine'
  BY <1>1, <1>4, <1>5 DEF TypeInv, Typed, Untouched, Interact
<1>7. Conversing(r)'
  BY <1>1, <1>2, <1>3, <1>5, <1>6 DEF Conversing
<1> QED
  BY <1>1, <1>3, <1>5, <1>6, <1>7 DEF RequestOK, Running

LEMMA ReleaseToolsOK ==
  ASSUME NEW r \in Requests, TypeInv, RequestInv, ReleaseTools(r)
  PROVE  Typed /\ Untouched(r) /\ RequestOK(r)' /\ req'[r].answer = req[r].answer
         /\ req'[r].task = "running"
<1>1. RequestOK(r) /\ Running(r) /\ req' = req /\ engine' = engine
      /\ tools' = [tools EXCEPT ![r] = "released"]
  BY DEF ReleaseTools, RequestInv
<1>2. Typed /\ Untouched(r)
  BY <1>1 DEF TypeInv, Typed, Untouched
<1>3. Conversing(r)'
  BY <1>1 DEF Conversing, RequestOK
<1>4. req[r].answer # "own"
  BY <1>1 DEF RequestOK, Running
<1> QED
  BY <1>1, <1>2, <1>3, <1>4 DEF RequestOK, Running

LEMMA FinalizeOK ==
  ASSUME NEW r \in Requests, TypeInv, RequestInv, Finalize(r)
  PROVE  Typed /\ Untouched(r) /\ RequestOK(r)' /\ req'[r].answer = "own"
         /\ req'[r].task = "done"
<1>1. req[r] \in RequestType /\ RequestOK(r) /\ Running(r) /\ Conversing(r) /\ ~ InLoop(r)
      /\ tools[r] = "released" /\ UNCHANGED <<tools, engine>>
  BY DEF Finalize, TypeInv, RequestInv, RequestOK
<1> DEFINE f == Finalized(req[r])
           x == [f EXCEPT !.task = "done", !.answer = "own"]
<1>2. req[r].current_turns \in Nat
  BY <1>1 DEF RequestType
<1>3. /\ f \in RequestType /\ f.state = "COMPLETED" /\ f.reason \in {"stop", "length"}
      /\ f.len <= MaxModelLen /\ f.response <= ResponseLen
      /\ f.current_turns = req[r].current_turns /\ f.user_turns = req[r].user_turns
  <2>1. req[r].genPrompt => req[r].len >= GenPrompt
    BY <1>1 DEF Conversing
  <2>2. \/ req[r].state = "LEFT" /\ req[r].reason \in {"stop", "length"}
        \/ req[r].current_turns >= MaxAssistantTurns
    BY <1>1, <1>2, Lengths DEF InLoop, Conversing
  <2> QED
    BY <1>1, <2>1, <2>2, FinalizedFacts
<1>4. req' = [req EXCEPT ![r] = x]
  BY DEF Finalize
<1> HIDE DEF f
<1>5. /\ x \in RequestType /\ x.state = f.state /\ x.reason = f.reason /\ x.len = f.len
      /\ x.response = f.response /\ x.current_turns = f.current_turns /\ x.user_turns = f.user_turns
      /\ x.task = "done" /\ x.answer = "own"
  BY <1>3 DEF RequestType
<1> HIDE DEF x
<1>6. Typed /\ Untouched(r) /\ req'[r] = x
  BY <1>1, <1>4, <1>5 DEF TypeInv, Typed, Untouched
<1>7. Answered(r)'
  BY <1>1, <1>3, <1>5, <1>6 DEF Answered, Conversing
<1> QED
  BY <1>5, <1>6, <1>7 DEF RequestOK, Running

LEMMA RequestFailsOK ==
  ASSUME NEW r \in Requests, TypeInv, RequestInv, RequestFails(r)
  PROVE  Typed /\ Untouched(r) /\ RequestOK(r)' /\ req'[r].answer = req[r].answer
         /\ req'[r].task = "failed"
<1> DEFINE x == [NewRequest EXCEPT !.task = "failed"]
<1>1. req' = [req EXCEPT ![r] = x] /\ engine' = engine \ {r} /\ tools' = tools
      /\ RequestOK(r) /\ req[r] \in RequestType /\ Running(r)
  BY DEF RequestFails, RequestInv, TypeInv
<1>2. x \in RequestType /\ x.task = "failed" /\ x.answer = "none"
  BY NewRequestType DEF RequestType
<1> HIDE DEF x
<1>3. Typed /\ Untouched(r) /\ req'[r] = x
  BY <1>1, <1>2 DEF TypeInv, Typed, Untouched
<1>4. req[r].answer = "none"
  BY <1>1 DEF RequestOK, Running
<1> QED
  BY <1>2, <1>3, <1>4 DEF RequestOK, Running

LEMMA ReturnPaddingOK ==
  ASSUME NEW r \in Requests, TypeInv, RequestInv, ReturnPadding(r)
  PROVE  Typed /\ Untouched(r) /\ RequestOK(r)' /\ req'[r].answer = "padding"
         /\ req'[r].task = "done"
<1> DEFINE x == [NewRequest EXCEPT !.state = "COMPLETED", !.response = ResponseLen,
                                   !.task = "done", !.answer = "padding"]
<1>1. req' = [req EXCEPT ![r] = x] /\ engine' = engine /\ tools' = tools
  BY DEF ReturnPadding
<1>2. x \in RequestType /\ x.task = "done" /\ x.answer = "padding"
  BY NewRequestType, Lengths DEF RequestType
<1> HIDE DEF x
<1>3. Typed /\ Untouched(r) /\ req'[r] = x
  BY <1>1, <1>2 DEF TypeInv, Typed, Untouched
<1> QED
  BY <1>2, <1>3 DEF RequestOK, Running

\* Whatever a running request does, it stays in order.
LEMMA RequestStepOK ==
  ASSUME NEW r \in Requests, TypeInv, RequestInv, RequestStep(r)
  PROVE  /\ Typed /\ Untouched(r) /\ RequestOK(r)'
         /\ \/ /\ Running(r) /\ req'[r].task = "running" /\ req'[r].answer = req[r].answer
               /\ finished' = finished
            \/ /\ Running(r) /\ req'[r].task = "failed" /\ req'[r].answer = req[r].answer
               /\ finished' = Append(finished, r)
            \/ /\ Running(r) /\ req'[r].task = "done" /\ req'[r].answer = "own"
               /\ finished' = Append(finished, r)
            \/ /\ req[r].task = "cancelled" /\ req'[r].task = "done" /\ req'[r].answer = "padding"
               /\ finished' = finished
         /\ main # "done" /\ UNCHANGED mainVars
<1>1. CASE HandlePending(r)
  BY <1>1, HandlePendingOK DEF HandlePending, WithState, LoopRuns, mainVars
<1>2. CASE CallEngine(r)
  BY <1>2, CallEngineOK DEF CallEngine, WithState, LoopRuns, mainVars
<1>3. CASE EngineReturns(r)
  BY <1>3, EngineReturnsOK DEF EngineReturns, LoopRuns, mainVars
<1>4. CASE CallTools(r)
  BY <1>4, CallToolsOK DEF CallTools, WithState, LoopRuns, mainVars
<1>5. CASE Interact(r)
  BY <1>5, InteractOK DEF Interact, WithState, LoopRuns, mainVars
<1>6. CASE ReleaseTools(r)
  BY <1>6, ReleaseToolsOK DEF ReleaseTools, LoopRuns, mainVars
<1>7. CASE Finalize(r)
  BY <1>7, FinalizeOK DEF Finalize, LoopRuns, mainVars
<1>8. CASE RequestFails(r)
  BY <1>8, RequestFailsOK DEF RequestFails, LoopRuns, mainVars
<1>9. CASE ReturnPadding(r)
  BY <1>9, ReturnPaddingOK DEF ReturnPadding, LoopRuns, mainVars
<1> QED
  BY <1>1, <1>2, <1>3, <1>4, <1>5, <1>6, <1>7, <1>8, <1>9 DEF RequestStep

\* A request nobody touches stays in order.
LEMMA UntouchedOK ==
  ASSUME NEW s \in Requests, req'[s] = req[s], tools'[s] = tools[s], s \in engine' <=> s \in engine,
         RequestOK(s)
  PROVE  RequestOK(s)'
BY DEF RequestOK, Running, Conversing, Answered

-----------------------------------------------------------------------------
(* Cancelling a batch touches the tasks that run and nothing else.         *)

LEMMA CancelledFacts ==
  ASSUME TypeInv, NEW r \in Requests
  PROVE  /\ Cancelled \in [Requests -> RequestType]
         /\ ~ Running(r) => Cancelled[r] = req[r]
         /\ Running(r) => Cancelled[r].task = "cancelled"
         /\ Cancelled[r].answer = req[r].answer
<1> DEFINE C(x) == [x EXCEPT !.task = "cancelled"]
<1>1. ASSUME NEW x \in RequestType
      PROVE  C(x) \in RequestType /\ C(x).task = "cancelled" /\ C(x).answer = x.answer
  BY DEF RequestType
<1>2. Cancelled = [s \in Requests |-> IF Running(s) THEN C(req[s]) ELSE req[s]]
  BY DEF Cancelled
<1>3. \A s \in Requests : req[s] \in RequestType
  BY DEF TypeInv
<1> HIDE DEF C
<1> QED
  BY <1>1, <1>2, <1>3

LEMMA AwaitOK ==
  ASSUME TypeInv, RequestInv, AwaitNext
  PROVE  /\ TypeInv' /\ RequestInv'
         /\ \A r \in Requests : req'[r].answer = req[r].answer
         /\ \A r \in Requests : ~ Running(r) => req'[r] = req[r]
<1>1. finished' \in Seq(Requests) /\ completed' \in Nat
      /\ main' \in {"waiting", "gathering", "done"} /\ result' \in {"open", "returned", "raised"}
  BY HeadTailProperties DEF AwaitNext, TypeInv
<1>2. UNCHANGED <<cfg, tools, engine>> /\ (req' = Cancelled \/ req' = req)
  BY DEF AwaitNext
<1>3. /\ req' \in [Requests -> RequestType]
      /\ \A r \in Requests : req'[r].answer = req[r].answer
      /\ \A r \in Requests : ~ Running(r) => req'[r] = req[r]
      /\ \A r \in Requests : Running(r) => req'[r] = req[r] \/ req'[r].task = "cancelled"
  <2>1. CASE req' = req
    BY <2>1 DEF TypeInv
  <2>2. CASE req' = Cancelled
    <3>1. \A r \in Requests :
            /\ req' \in [Requests -> RequestType] /\ req'[r].answer = req[r].answer
            /\ ~ Running(r) => req'[r] = req[r]
            /\ Running(r) => req'[r].task = "cancelled"
      BY <2>2, CancelledFacts
    <3> QED
      BY <3>1, RequestsAssumption
  <2> QED
    BY <1>2, <2>1, <2>2
<1>4. TypeInv'
  BY <1>1, <1>2, <1>3 DEF TypeInv
<1>5. ASSUME NEW r \in Requests
      PROVE  RequestOK(r)'
  <2>1. RequestOK(r) /\ tools'[r] = tools[r] /\ (r \in engine' <=> r \in engine)
    BY <1>2 DEF RequestInv
  <2>2. CASE req'[r] = req[r]
    BY <2>1, <2>2, UntouchedOK
  <2>3. CASE Running(r) /\ req'[r].task = "cancelled"
    BY <1>3, <2>1, <2>3 DEF RequestOK, Running
  <2> QED
    BY <1>3, <2>2, <2>3
<1> QED
  BY <1>3, <1>4, <1>5 DEF RequestInv

-----------------------------------------------------------------------------
(* The queue of ended tasks. *)

LEMMA EndsAdded ==
  ASSUME finished \in Seq(Requests), NEW r \in Requests, finished' = Append(finished, r),
         r \notin Ended, \A i, j \in 1 .. Len(finished) : finished[i] = finished[j] => i = j
  PROVE  /\ Ended' = Ended \cup {r}
         /\ (\A i, j \in 1 .. Len(finished) : finished[i] = finished[j] => i = j)'
<1> DEFINE n == Len(finished)
<1>1. n \in Nat /\ Len(finished') = n + 1 /\ finished'[n + 1] = r
      /\ \A i \in 1 .. n : finished'[i] = finished[i]
  BY AppendProperties, LenProperties
<1>2. \A i \in 1 .. n + 1 : i \in 1 .. n \/ i = n + 1
  BY <1>1
<1>3. Ended' = {finished'[i] : i \in 1 .. n + 1} /\ Ended = {finished[i] : i \in 1 .. n}
  BY <1>1 DEF Ended
<1>4. 1 .. n \subseteq 1 .. n + 1 /\ n + 1 \in 1 .. n + 1
  BY <1>1
<1>5. \A i \in 1 .. n : finished[i] # r
  BY DEF Ended
<1> HIDE DEF n
<1>6. Ended' = Ended \cup {r}
  BY <1>1, <1>2, <1>3, <1>4
<1>7. ASSUME NEW i \in 1 .. n + 1, NEW j \in 1 .. n + 1, finished'[i] = finished'[j]
      PROVE  i = j
  BY <1>1, <1>2, <1>5, <1>7 DEF n
<1> QED
  BY <1>1, <1>6, <1>7

LEMMA EndTaken ==
  ASSUME finished \in Seq(Requests), finished # << >>, finished' = Tail(finished),
         \A i, j \in 1 .. Len(finished) : finished[i] = finished[j] => i = j
  PROVE  /\ Head(finished) \in Ended /\ Head(finished) \in Requests
         /\ Ended' = Ended \ {Head(finished)}
         /\ (\A i, j \in 1 .. Len(finished) : finished[i] = finished[j] => i = j)'
<1> DEFINE n == Len(finished) - 1
<1>1. /\ n \in Nat /\ Len(finished) = n + 1 /\ Len(finished') = n
      /\ \A i \in 1 .. n : finished'[i] = finished[i + 1]
      /\ Head(finished) = finished[1] /\ Head(finished) \in Requests
  BY HeadTailProperties, LenProperties, EmptySeq
<1> HIDE DEF n
<1>2. Ended' = {finished'[i] : i \in 1 .. n} /\ Ended = {finished[i] : i \in 1 .. n + 1}
  BY <1>1 DEF Ended
<1>3. 1 \in 1 .. n + 1 /\ \A i \in 1 .. n : i + 1 \in 1 .. n + 1 /\ i + 1 # 1
  BY <1>1
<1>4. \A i \in 1 .. n + 1 : i = 1 \/ (i - 1 \in 1 .. n /\ (i - 1) + 1 = i)
  BY <1>1
<1>5. ASSUME NEW x \in Ended, x # Head(finished) PROVE x \in Ended'
  <2>1. PICK i \in 1 .. n + 1 : x = finished[i]
    BY <1>2, <1>5
  <2>2. i - 1 \in 1 .. n /\ finished'[i - 1] = x
    BY <1>1, <1>4, <1>5, <2>1
  <2> QED
    BY <1>2, <2>2
<1>6. ASSUME NEW x \in Ended' PROVE x \in Ended /\ x # Head(finished)
  <2>1. PICK i \in 1 .. n : x = finished[i + 1]
    BY <1>1, <1>2, <1>6
  <2> QED
    BY <1>1, <1>2, <1>3, <2>1
<1>7. ASSUME NEW i \in 1 .. n, NEW j \in 1 .. n, finished'[i] = finished'[j]
      PROVE  i = j
  <2>1. i + 1 = j + 1
    BY <1>1, <1>3, <1>7
  <2> QED
    BY <1>1, <2>1
<1>8. Head(finished) \in Ended
  BY <1>1, <1>2, <1>3
<1> QED
  BY <1>1, <1>5, <1>6, <1>7, <1>8

-----------------------------------------------------------------------------
(* The inductive invariant. *)

LEMMA InitOver == Init => OverInv
<1> SUFFICES ASSUME Init PROVE OverInv
  OBVIOUS
<1>1. TypeInv
  BY NewRequestType, EmptySeq DEF Init, TypeInv
<1>2. RequestInv
  <2>1. ASSUME NEW r \in Requests PROVE RequestOK(r)
    <3>1. req[r] = NewRequest /\ r \notin engine
      BY DEF Init
    <3> QED
      BY <3>1, NewRequestType, Lengths DEF RequestOK, Running, Conversing
  <2> QED
    BY <2>1 DEF RequestInv
<1>3. Ended = {} /\ Len(finished) = 0
  BY DEF Init, Ended
<1>4. completed <= Cardinality(OwnAnswers \ Ended)
  <2>1. IsFiniteSet(OwnAnswers \ Ended)
    BY RequestsAssumption, FS_Subset DEF OwnAnswers
  <2> QED
    BY <2>1, FS_CardinalityType DEF Init
<1>5. CountInv
  BY <1>3, <1>4 DEF CountInv
<1>6. MainInv
  BY NewRequestType DEF Init, MainInv
<1> QED
  BY <1>1, <1>2, <1>5, <1>6 DEF OverInv

LEMMA RequestKeeps ==
  ASSUME OverInv, NEW r \in Requests, RequestStep(r)
  PROVE  OverInv'
<1> USE DEF OverInv
<1> DEFINE distinct == \A i, j \in 1 .. Len(finished) : finished[i] = finished[j] => i = j
<1>1. /\ Typed /\ Untouched(r) /\ RequestOK(r)'
      /\ \/ /\ Running(r) /\ req'[r].task = "running" /\ req'[r].answer = req[r].answer
            /\ finished' = finished
         \/ /\ Running(r) /\ req'[r].task = "failed" /\ req'[r].answer = req[r].answer
            /\ finished' = Append(finished, r)
         \/ /\ Running(r) /\ req'[r].task = "done" /\ req'[r].answer = "own"
            /\ finished' = Append(finished, r)
         \/ /\ req[r].task = "cancelled" /\ req'[r].task = "done" /\ req'[r].answer = "padding"
            /\ finished' = finished
      /\ main # "done" /\ UNCHANGED mainVars
  BY RequestStepOK
<1>2. \A s \in Requests \ {r} : req'[s] = req[s] /\ tools'[s] = tools[s]
                                /\ (s \in engine' <=> s \in engine)
  BY <1>1 DEF Untouched
<1>3. TypeInv'
  <2>1. finished' \in Seq(Requests)
    <3>1. finished' = finished \/ finished' = Append(finished, r)
      BY <1>1
    <3>2. finished \in Seq(Requests)
      BY DEF TypeInv
    <3>3. Append(finished, r) \in Seq(Requests)
      BY <3>2, AppendProperties
    <3> QED
      BY <3>1, <3>2, <3>3
  <2>2. UNCHANGED <<cfg, completed, main, result>>
    BY <1>1 DEF mainVars
  <2>3. Typed
    BY <1>1
  <2> QED
    BY <2>1, <2>2, <2>3 DEF TypeInv, Typed
<1>4. RequestInv'
  <2>1. ASSUME NEW s \in Requests PROVE RequestOK(s)'
    <3>1. CASE s = r
      BY <1>1, <3>1
    <3>2. CASE s # r
      BY <1>2, <3>2, UntouchedOK DEF RequestInv
    <3> QED
      BY <3>1, <3>2
  <2> QED
    BY <2>1 DEF RequestInv
<1>5. /\ finished \in Seq(Requests) /\ distinct /\ RequestOK(r)
      /\ \A s \in Ended : req[s].task = "failed" \/ req[s].answer = "own"
      /\ completed <= Cardinality(OwnAnswers \ Ended)
  BY DEF TypeInv, CountInv, RequestInv
<1>6. r \notin Ended /\ req[r].answer = "none"
  <2>1. req[r].answer = "none"
    BY <1>1, <1>5 DEF RequestOK, Running
  <2> QED
    BY <1>1, <1>5, <2>1 DEF Running
<1>7. Ended \subseteq Requests
  BY <1>5, ElementOfSeq DEF Ended
<1>8. CountInv'
  <2>1. distinct' /\ Ended' \subseteq Ended \cup {r}
        /\ (Ended' = Ended \/ (req'[r].task = "failed" \/ req'[r].answer = "own"))
    <3>1. CASE finished' = finished
      BY <1>5, <3>1 DEF Ended
    <3>2. CASE finished' = Append(finished, r)
      BY <1>1, <1>5, <1>6, <3>2, EndsAdded
    <3> QED
      BY <1>1, <3>1, <3>2
  <2>2. \A s \in Ended' : req'[s].task = "failed" \/ req'[s].answer = "own"
    BY <1>2, <1>5, <1>6, <1>7, <2>1
  <2>3. OwnAnswers' \ Ended' = OwnAnswers \ Ended
    <3>1. OwnAnswers \ {r} = OwnAnswers' \ {r}
      BY <1>2 DEF OwnAnswers
    <3>2. r \notin OwnAnswers
      BY <1>6 DEF OwnAnswers
    <3>3. CASE finished' = finished
      <4>1. Ended' = Ended /\ r \notin OwnAnswers'
        BY <1>1, <1>6, <3>3, AppendProperties, LenProperties, <1>5 DEF Ended, OwnAnswers
      <4> QED
        BY <3>1, <3>2, <4>1
    <3>4. CASE finished' = Append(finished, r)
      <4>1. Ended' = Ended \cup {r}
        BY <1>5, <1>6, <3>4, EndsAdded
      <4> QED
        BY <3>1, <3>2, <4>1
    <3> QED
      BY <1>1, <3>3, <3>4
  <2> QED
    BY <1>1, <1>5, <2>1, <2>2, <2>3 DEF CountInv, mainVars
<1>9. MainInv'
  <2>1. main = "waiting" => \A s \in Requests : req'[s].task # "cancelled"
    BY <1>1, <1>2 DEF MainInv
  <2>2. main = "gathering" =>
          /\ \A s \in Requests : ~ Running(s)'
          /\ \A s \in Requests : req[s].task = "failed" => req'[s].task = "failed"
    BY <1>1, <1>2 DEF MainInv, Running
  <2>3. cfg.validate => \A s \in Requests : req'[s].answer # "padding" /\ req'[s].task # "cancelled"
    BY <1>1, <1>2, <1>6 DEF MainInv
  <2> QED
    BY <1>1, <2>1, <2>2, <2>3 DEF MainInv, mainVars
<1> QED
  BY <1>3, <1>4, <1>8, <1>9

LEMMA AwaitKeeps ==
  ASSUME OverInv, AwaitNext
  PROVE  OverInv'
<1> USE DEF OverInv
<1> DEFINE h == Head(finished)
<1>1. /\ TypeInv' /\ RequestInv'
      /\ \A r \in Requests : req'[r].answer = req[r].answer
      /\ \A r \in Requests : ~ Running(r) => req'[r] = req[r]
  BY AwaitOK
<1>2. /\ h \in Ended /\ h \in Requests /\ Ended' = Ended \ {h}
      /\ (\A i, j \in 1 .. Len(finished) : finished[i] = finished[j] => i = j)'
  BY EndTaken DEF AwaitNext, TypeInv, CountInv
<1> HIDE DEF h
<1>3. \A r \in Ended : r \in Requests /\ ~ Running(r)
  <2>1. Ended \subseteq Requests
    BY ElementOfSeq DEF Ended, TypeInv
  <2>2. \A r \in Ended : ~ Running(r)
    BY <2>1 DEF CountInv, RequestInv, RequestOK, Running
  <2> QED
    BY <2>1, <2>2
<1>4. OwnAnswers' = OwnAnswers
  BY <1>1 DEF OwnAnswers
<1>5. IsFiniteSet(OwnAnswers)
  BY RequestsAssumption, FS_Subset DEF OwnAnswers
<1>6. /\ main = "waiting" /\ ~ cfg.validate /\ UNCHANGED cfg
      /\ \/ /\ req[h].task = "failed" /\ completed' = completed
            /\ req' = Cancelled /\ main' = "gathering" /\ result' = "raised"
         \/ /\ req[h].task # "failed" /\ completed' = completed + 1
            /\ \/ Reached(completed') /\ req' = Cancelled /\ main' = "gathering" /\ result' = result
               \/ UNCHANGED <<req, main, result>>
  BY DEF AwaitNext, h
<1>7. completed' <= Cardinality(OwnAnswers' \ Ended')
  <2>1. completed \in Nat /\ completed <= Cardinality(OwnAnswers \ Ended)
    BY DEF TypeInv, CountInv
  <2>2. IsFiniteSet(OwnAnswers \ Ended)
    BY <1>5, FS_Subset
  <2>3. CASE req[h].task = "failed"
    <3>1. h \notin OwnAnswers
      BY <1>2, <2>3 DEF OwnAnswers, RequestInv, RequestOK
    <3>2. OwnAnswers' \ Ended' = OwnAnswers \ Ended
      BY <1>2, <1>4, <3>1
    <3> QED
      BY <1>6, <2>1, <2>3, <3>2
  <2>4. CASE req[h].task # "failed"
    <3>1. h \in OwnAnswers
      BY <1>2, <2>4 DEF OwnAnswers, CountInv
    <3>2. OwnAnswers' \ Ended' = (OwnAnswers \ Ended) \cup {h} /\ h \notin OwnAnswers \ Ended
      BY <1>2, <1>4, <3>1
    <3>3. Cardinality(OwnAnswers' \ Ended') = Cardinality(OwnAnswers \ Ended) + 1
      BY <2>2, <3>2, FS_AddElement
    <3>4. Cardinality(OwnAnswers \ Ended) \in Nat
      BY <2>2, FS_CardinalityType
    <3> QED
      BY <1>6, <2>1, <2>4, <3>3, <3>4
  <2> QED
    BY <2>3, <2>4
<1>8. \A r \in Ended' : req'[r].task = "failed" \/ req'[r].answer = "own"
  BY <1>1, <1>2, <1>3 DEF CountInv
<1>9. CountInv'
  BY <1>2, <1>7, <1>8 DEF CountInv
<1>10. MainInv'
  <2>1. CASE UNCHANGED <<req, main, result>>
    BY <1>6, <2>1 DEF MainInv, Running
  <2>2. CASE req' = Cancelled /\ main' = "gathering"
    <3>1. \A r \in Requests : ~ Running(r)'
      <4>1. ASSUME NEW r \in Requests PROVE req'[r].task # "running"
        BY <2>2, CancelledFacts DEF Running
      <4> QED
        BY <4>1 DEF Running
    <3>2. req'[h] = req[h]
      BY <1>1, <1>2, <1>3
    <3>3. \/ result' = "open" /\ completed' >= 1 /\ completed' >= cfg.target
          \/ result' = "raised" /\ req'[h].task = "failed"
      <4>1. CASE req[h].task = "failed"
        BY <1>6, <3>2, <4>1
      <4>2. CASE req[h].task # "failed"
        <5>1. Reached(completed') /\ result' = "open" /\ completed' = completed + 1
          BY <1>6, <2>2, <4>2 DEF MainInv
        <5> QED
          BY <5>1 DEF Reached, TypeInv
      <4> QED
        BY <4>1, <4>2
    <3> QED
      BY <1>2, <1>6, <2>2, <3>1, <3>3 DEF MainInv
  <2> QED
    BY <1>6, <2>1, <2>2
<1> QED
  BY <1>1, <1>9, <1>10

LEMMA BatchKeeps ==
  ASSUME OverInv, AbortAll \/ GatherValidation
  PROVE  OverInv'
<1> USE DEF OverInv
<1>1. /\ UNCHANGED <<cfg, req, tools, finished, completed>> /\ main' = "done"
      /\ result' \in {"returned", "raised"} /\ (engine' = engine \/ engine' = {})
  BY DEF AbortAll, GatherValidation
<1>2. TypeInv'
  BY <1>1 DEF TypeInv
<1>3. RequestInv'
  <2>1. ASSUME NEW r \in Requests PROVE RequestOK(r)'
    BY <1>1 DEF RequestInv, RequestOK, Running, Conversing, Answered
  <2> QED
    BY <2>1 DEF RequestInv
<1>4. CountInv'
  BY <1>1 DEF CountInv, Ended, OwnAnswers
<1>5. MainInv'
  BY <1>1 DEF MainInv
<1> QED
  BY <1>2, <1>3, <1>4, <1>5

LEMMA NextOver == OverInv /\ [Next]_vars => OverInv'
<1> SUFFICES ASSUME OverInv, [Next]_vars PROVE OverInv'
  OBVIOUS
<1>1. CASE \E r \in Requests : RequestStep(r)
  BY <1>1, RequestKeeps
<1>2. CASE AwaitNext
  BY <1>2, AwaitKeeps
<1>3. CASE AbortAll \/ GatherValidation
  BY <1>3, BatchKeeps
<1>4. CASE UNCHANGED vars
  BY <1>4 DEF vars, OverInv, TypeInv, RequestInv, RequestOK, Running, Conversing, Answered,
              CountInv, Ended, OwnAnswers, MainInv
<1> QED
  BY <1>1, <1>2, <1>3, <1>4 DEF Next

LEMMA OverInvariant == Spec => []OverInv
BY InitOver, NextOver, PTL DEF Spec

\* Whatever the tools, the users and the engine answer, and whenever the rest of the
\* batch is cancelled, the answers pass the asserts on the batch (sglang_rollout.py:1175)
\* and the engine is asked for at least one token, for every number of requests and all
\* turn and length limits.
THEOREM AnswersAlwaysFit == Spec => []AnswersFit
<1>1. OverInv => AnswersFit
  BY DEF OverInv, RequestInv, RequestOK, Answered, Conversing, AnswersFit
<1> QED
  BY <1>1, OverInvariant, PTL

-----------------------------------------------------------------------------
(* Implementation of AnsweredBatch. *)

Needed == IF cfg.validate THEN Total ELSE IF cfg.target = 0 THEN 1 ELSE cfg.target

LEMMA ConfigFacts ==
  ASSUME cfg \in Configs
  PROVE  cfg.validate \in BOOLEAN /\ cfg.target \in 0 .. Total
BY OverSamplingAssumption

LEMMA NeededBounds ==
  ASSUME cfg \in Configs
  PROVE  Needed \in 0 .. Cardinality(Requests)
<1>1. Total \in Nat /\ Total # 0
  BY RequestsAssumption, FS_CardinalityType, FS_EmptySet DEF Total
<1> HIDE DEF Total
<1>2. Needed \in 0 .. Total
  BY <1>1, ConfigFacts DEF Needed
<1> QED
  BY <1>2 DEF Total

Answers == [r \in Requests |-> req[r].answer]

\* What was counted is answered: when enough have been counted, enough are answered.
LEMMA CountedAreAnswered ==
  ASSUME OverInv
  PROVE  /\ IsFiniteSet(OwnAnswers) /\ Cardinality(OwnAnswers) \in Nat
         /\ completed <= Cardinality(OwnAnswers)
<1>1. IsFiniteSet(OwnAnswers)
  BY RequestsAssumption, FS_Subset DEF OwnAnswers
<1>2. /\ IsFiniteSet(OwnAnswers \ Ended)
      /\ Cardinality(OwnAnswers \ Ended) <= Cardinality(OwnAnswers)
  BY <1>1, FS_Subset
<1>3. Cardinality(OwnAnswers) \in Nat /\ Cardinality(OwnAnswers \ Ended) \in Nat
  BY <1>1, <1>2, FS_CardinalityType
<1>4. completed \in Nat /\ completed <= Cardinality(OwnAnswers \ Ended)
  BY DEF OverInv, TypeInv, CountInv
<1> QED
  BY <1>1, <1>2, <1>3, <1>4

LEMMA PromiseCardinality == ASSUME NEW S PROVE Promise!Cardinality(S) = Cardinality(S)
BY DEF Promise!Cardinality, Cardinality, Promise!IsFiniteSet, IsFiniteSet

LEMMA OwnIsOwn == Promise!Own = OwnAnswers
BY DEF Promise!Own, OwnAnswers

LEMMA GatheringHasEnough ==
  ASSUME OverInv, main = "gathering", result = "open"
  PROVE  Promise!Enough
<1>1. completed >= 1 /\ completed >= cfg.target /\ ~ cfg.validate
  BY DEF OverInv, MainInv
<1>2. completed \in Nat /\ cfg.target \in Nat
  <2>1. Total \in Nat
    BY RequestsAssumption, FS_CardinalityType DEF Total
  <2> HIDE DEF Total
  <2>2. cfg.target \in 0 .. Total
    BY ConfigFacts DEF OverInv, TypeInv
  <2> QED
    BY <2>1, <2>2 DEF OverInv, TypeInv
<1>3. completed >= Needed
  BY <1>1, <1>2 DEF Needed
<1>4. Needed \in Nat
  BY <1>1, <1>2 DEF Needed
<1> QED
  BY <1>2, <1>3, <1>4, CountedAreAnswered, OwnIsOwn, PromiseCardinality DEF Promise!Enough, Needed

LEMMA InitImplements == Init => Promise!Init
<1> SUFFICES ASSUME Init PROVE Promise!Init
  OBVIOUS
<1>1. Needed \in 0 .. Cardinality(Requests)
  BY NeededBounds DEF Init
<1>2. \A r \in Requests : req[r].answer = "none"
  BY NewRequestType DEF Init
<1> QED
  BY <1>1, <1>2, PromiseCardinality DEF Promise!Init, Needed, Init

\* A request is answered as the promise allows, or its step is not seen.
LEMMA RequestImplements ==
  ASSUME OverInv, NEW r \in Requests, RequestStep(r)
  PROVE  [Promise!Next]_(Promise!vars)
<1>1. /\ Untouched(r) /\ RequestOK(r)'
      /\ \/ Running(r) /\ req'[r].answer = req[r].answer
         \/ Running(r) /\ req'[r].answer = "own"
         \/ req[r].task = "cancelled" /\ req'[r].answer = "padding"
      /\ main # "done" /\ UNCHANGED mainVars
  BY RequestStepOK DEF OverInv
<1>2. \A s \in Requests \ {r} : req'[s].answer = req[s].answer
  BY <1>1 DEF Untouched
<1>3. UNCHANGED <<Needed, result>>
  BY <1>1 DEF mainVars, Needed
<1>4. RequestOK(r)
  BY DEF OverInv, RequestInv
<1>5. CASE req'[r].answer = req[r].answer
  BY <1>2, <1>3, <1>5 DEF Promise!vars, Needed
<1>6. CASE Running(r) /\ req'[r].answer = "own"
  <2>1. req[r].answer = "none"
    BY <1>4, <1>6 DEF RequestOK, Running
  <2>2. result # "returned"
    BY <1>1 DEF OverInv, TypeInv, MainInv
  <2>3. Answers' = [Answers EXCEPT ![r] = "own"]
    BY <1>2, <1>6 DEF Answers
  <2>4. Promise!Answer(r)
    BY <1>3, <2>1, <2>2, <2>3 DEF Promise!Answer, Answers, Needed
  <2> QED
    BY <2>4 DEF Promise!Next
<1>7. CASE req[r].task = "cancelled" /\ req'[r].answer = "padding"
  <2>1. req[r].answer = "none"
    BY <1>4, <1>7 DEF RequestOK
  <2>2. main = "gathering"
    BY <1>1, <1>7 DEF OverInv, TypeInv, MainInv
  <2>3. (Promise!Enough /\ result = "open") \/ result = "raised"
    BY <2>2, GatheringHasEnough DEF OverInv, MainInv
  <2>4. Answers' = [Answers EXCEPT ![r] = "padding"]
    BY <1>2, <1>7 DEF Answers
  <2>5. Promise!Pad(r)
    BY <1>3, <2>1, <2>3, <2>4 DEF Promise!Pad, Answers, Needed
  <2> QED
    BY <2>5 DEF Promise!Next
<1> QED
  BY <1>1, <1>5, <1>6, <1>7

\* The batch is returned only when every request has its answer and enough of
\* them are their own; else it raises.
LEMMA BatchImplements ==
  ASSUME OverInv, AwaitNext \/ AbortAll \/ GatherValidation
  PROVE  [Promise!Next]_(Promise!vars)
<1>1. UNCHANGED <<Needed, Answers>>
  <2>1. UNCHANGED cfg
    BY DEF AwaitNext, AbortAll, GatherValidation
  <2>2. \A r \in Requests : req'[r].answer = req[r].answer
    BY AwaitOK DEF AbortAll, GatherValidation, OverInv
  <2> QED
    BY <2>1, <2>2 DEF Needed, Answers
<1>2. CASE result' = result
  BY <1>1, <1>2 DEF Promise!vars, Needed, Answers
<1>3. CASE result = "open" /\ result' = "raised"
  BY <1>1, <1>3 DEF Promise!Next, Promise!Raise, Needed, Answers
<1>4. CASE result = "open" /\ result' = "returned"
  <2>1. \A r \in Requests : req[r].task = "done"
    BY <1>4 DEF AwaitNext, AbortAll, Gathered, GatherValidation
  <2>2. \A r \in Requests : req[r].answer # "none"
    BY <2>1 DEF OverInv, RequestInv, RequestOK
  <2>3. Promise!Enough
    <3>1. CASE AbortAll
      BY <1>4, <3>1, GatheringHasEnough DEF AbortAll
    <3>2. CASE GatherValidation
      <4>1. \A r \in Requests : req[r].answer = "own"
        <5>1. \A r \in Requests : req[r].answer \in {"none", "own", "padding"}
          BY DEF OverInv, TypeInv, RequestType
        <5> QED
          BY <2>2, <3>2, <5>1 DEF OverInv, MainInv, GatherValidation
      <4>2. OwnAnswers = Requests
        BY <4>1 DEF OwnAnswers
      <4>3. Needed = Cardinality(Requests)
        BY <3>2 DEF GatherValidation, Needed, Total
      <4>4. Cardinality(Requests) \in Nat
        BY RequestsAssumption, FS_CardinalityType
      <4> QED
        BY <4>2, <4>3, <4>4, OwnIsOwn, PromiseCardinality DEF Promise!Enough, Needed
    <3>3. CASE AwaitNext
      BY <1>4, <3>3 DEF AwaitNext
    <3> QED
      BY <3>1, <3>2, <3>3
  <2>4. Promise!Return
    BY <1>1, <1>4, <2>2, <2>3 DEF Promise!Return, Needed, Answers
  <2> QED
    BY <2>4 DEF Promise!Next
<1>5. result' = result \/ (result = "open" /\ result' \in {"raised", "returned"})
  <2>1. CASE AwaitNext
    BY <2>1 DEF AwaitNext, OverInv, MainInv
  <2>2. CASE AbortAll
    BY <2>2 DEF AbortAll, OverInv, MainInv
  <2>3. CASE GatherValidation
    BY <2>3 DEF GatherValidation, OverInv, MainInv
  <2> QED
    BY <2>1, <2>2, <2>3
<1> QED
  BY <1>2, <1>3, <1>4, <1>5

LEMMA NextImplements == OverInv /\ [Next]_vars => [Promise!Next]_(Promise!vars)
<1> SUFFICES ASSUME OverInv, [Next]_vars PROVE [Promise!Next]_(Promise!vars)
  OBVIOUS
<1>1. CASE \E r \in Requests : RequestStep(r)
  BY <1>1, RequestImplements
<1>2. CASE AwaitNext \/ AbortAll \/ GatherValidation
  BY <1>2, BatchImplements
<1>3. CASE UNCHANGED vars
  BY <1>3 DEF vars, Promise!vars
<1> QED
  BY <1>1, <1>2, <1>3 DEF Next

\* Whatever ends, raises or is cancelled in whatever order, every request is answered
\* once, padding only fills up what is left over when the target is met, and a batch
\* is returned only when every request has an answer (sglang_rollout.py:1145 and
\* rollout.yaml:85), for every number of requests, every target and all limits.
THEOREM BatchAnsweredOnce == Spec => AnswersOnce
BY InitImplements, NextImplements, OverInvariant, PTL DEF Spec, AnswersOnce, Promise!Spec
=============================================================================
