-------------------------------- MODULE RunPort --------------------------------
(***************************************************************************)
(* How a stop gets to a run: what whoever stops a run may count on, with   *)
(* steps, pauses, speech and threads left out.                             *)
(*   - one run at a time, and each has a stop event of its own, new and    *)
(*     not set;                                                            *)
(*   - the event, once set, stays set until the next run begins: nothing   *)
(*     that happens to the run takes a stop back;                          *)
(*   - a stop directive waits in the queue, from run to run, until a run   *)
(*     that is going takes it; then the run may end, or not (the second    *)
(*     drain of a step does not look at it).                               *)
(* SortSession implements this until two starts overlap; Chat takes it for *)
(* what a run is.                                                          *)
(***************************************************************************)
EXTENDS Naturals

VARIABLES
    run,      \* how many runs have been started
    going,    \* the thread of the last one is alive
    stop,     \* its stop event
    queued    \* whether a stop directive is in the queue

vars == <<run, going, stop, queued>>

Init == run = 0 /\ going = FALSE /\ stop = FALSE /\ queued = FALSE

Begin ==
    /\ ~going
    /\ run' = run + 1 /\ going' = TRUE /\ stop' = FALSE
    /\ UNCHANGED queued

SetStop ==
    /\ run # 0 /\ stop' = TRUE
    /\ UNCHANGED <<run, going, queued>>

PutStop ==
    /\ queued' = TRUE
    /\ UNCHANGED <<run, going, stop>>

TakeStop ==
    /\ going /\ queued
    /\ queued' = FALSE /\ going' \in BOOLEAN
    /\ UNCHANGED <<run, stop>>

End ==
    /\ going /\ going' = FALSE
    /\ UNCHANGED <<run, stop, queued>>

Next == Begin \/ SetStop \/ PutStop \/ TakeStop \/ End

Spec == Init /\ [][Next]_vars

=============================================================================
