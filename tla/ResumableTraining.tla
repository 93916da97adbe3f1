------------------------- MODULE ResumableTraining --------------------------
(***************************************************************************)
(* What checkpointing promises the training loop, without files: a process *)
(* advances a training state step by step and now and then publishes it;   *)
(* publishing is a swap with a moment in which nothing can be read; a      *)
(* process that starts continues from exactly the state last published.    *)
(***************************************************************************)
CONSTANTS
    Initial,      \* the training state before the first step
    Advance(_)    \* the training state one step later

VARIABLES
    up,           \* a process is training
    at,           \* its training state
    published,    \* the state a new process will start from
    readable      \* FALSE in the middle of a swap

vars == <<up, at, published, readable>>

Init == up = FALSE /\ at = Initial /\ published = Initial /\ readable = TRUE

Start ==
    /\ ~up /\ readable
    /\ up' = TRUE /\ at' = published
    /\ UNCHANGED <<published, readable>>

Train ==
    /\ up
    /\ at' = Advance(at)
    /\ UNCHANGED <<up, published, readable>>

Withdraw ==
    /\ up /\ readable
    /\ readable' = FALSE /\ published' = Initial
    /\ UNCHANGED <<up, at>>

Publish ==
    /\ up /\ ~readable
    /\ readable' = TRUE /\ published' = at
    /\ UNCHANGED <<up, at>>

\* The process ends or dies; what it did not publish is gone.
Stop ==
    /\ up
    /\ up' = FALSE /\ at' = Initial
    /\ UNCHANGED <<published, readable>>

Next == Start \/ Train \/ Withdraw \/ Publish \/ Stop

Spec == Init /\ [][Next]_vars
=============================================================================
