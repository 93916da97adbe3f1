----------------------- MODULE MCCheckpointedTraining -----------------------
(* Instances of CheckpointedTraining for TLC. *)
EXTENDS CheckpointedTraining

KeepAll == [r \in {"actor", "critic"} |-> 0]
KeepOne == [r \in {"actor", "critic"} |-> 1]
KeepTwo == [r \in {"actor", "critic"} |-> 2]
\* The two roles have limits of their own.
KeepMixed == [r \in {"actor", "critic"} |-> IF r = "actor" THEN 2 ELSE 0]
KeepOneCritic == [r \in {"actor", "critic"} |-> IF r = "actor" THEN 1 ELSE 2]
=============================================================================
