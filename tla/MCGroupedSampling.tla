------------------------- MODULE MCGroupedSampling -------------------------
(* An instance of GroupedSampling for TLC. *)
EXTENDS GroupedSampling

KeepTwo == [r \in {"actor", "critic"} |-> 2]

\* Seven prompts in groups of two rollouts, four rows a batch: three batches, and one
\* group is dropped. The orders of two epochs agree in no place.
Orders == [e \in 0 .. 1 |-> IF e = 0 THEN <<3, 0, 6, 2, 5, 1, 4>> ELSE <<1, 6, 4, 3, 0, 2, 5>>]
=============================================================================
