------------------------------ MODULE TaskQueue ------------------------------
(***************************************************************************)
(* What a serial task queue promises: accepted items run one at a time, in *)
(* the order in which they were accepted, each as soon as the one before   *)
(* it is done; nothing waits while nothing runs.  Clearing drops what      *)
(* waits; disposing does so too and accepts nothing any more.              *)
(***************************************************************************)
EXTENDS Naturals, Sequences

CONSTANTS
    Items,     \* what is enqueued: ICE candidates, signalling messages
    None,      \* no item
    MaxQueue   \* bound: items waiting

VARIABLES
    queue,     \* the items that wait
    running,   \* the item that runs
    disposed   \* the queue is closed

vars == <<queue, running, disposed>>

Init == queue = <<>> /\ running = None /\ disposed = FALSE

Submit(x) ==
    /\ ~disposed
    /\ Len(queue) < MaxQueue
    /\ IF running = None
       THEN running' = x /\ UNCHANGED queue
       ELSE queue' = Append(queue, x) /\ UNCHANGED running
    /\ UNCHANGED disposed

Done ==
    /\ running # None
    /\ IF queue = <<>>
       THEN running' = None /\ UNCHANGED queue
       ELSE running' = Head(queue) /\ queue' = Tail(queue)
    /\ UNCHANGED disposed

Clear == queue' = <<>> /\ UNCHANGED <<running, disposed>>

Close == queue' = <<>> /\ disposed' = TRUE /\ UNCHANGED running

Next == (\E x \in Items : Submit(x)) \/ Done \/ Clear \/ Close

Spec == Init /\ [][Next]_vars

\* A task that runs comes to an end, so that every item has its turn.
FairSpec == Spec /\ WF_vars(Done)
=============================================================================
