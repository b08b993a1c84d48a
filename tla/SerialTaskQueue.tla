--------------------------- MODULE SerialTaskQueue ---------------------------
(***************************************************************************)
(* The pages' queue for work that must not overlap: signalling messages    *)
(* and ICE candidates (session/application/serial_task_queue.dart).        *)
(*                                                                         *)
(* Everything runs on one isolate, so a step is what runs between two      *)
(* awaits: a call of enqueue, clear or dispose, with the part of _process  *)
(* that it starts, or what _process does when the processor's future       *)
(* completes.  A processor may call the queue itself; a call from inside   *)
(* it is a call while an item runs.                                        *)
(***************************************************************************)
EXTENDS Naturals, Sequences, FiniteSets

CONSTANTS
    Items,     \* what is enqueued
    None,      \* no item
    Loops,     \* activations of _process that can be suspended at once
    MaxQueue   \* bound: items waiting

ASSUME NoItem == None \notin Items

VARIABLES
    items,          \* _items
    isProcessing,   \* _isProcessing
    isDisposed,     \* _isDisposed
    loop            \* the item each activation of _process awaits

vars == <<items, isProcessing, isDisposed, loop>>

Init ==
    /\ items = <<>>
    /\ isProcessing = FALSE
    /\ isDisposed = FALSE
    /\ loop = [l \in Loops |-> None]

-----------------------------------------------------------------------------
\* Mutant: no finally block.
IterateNoReset(l, q) ==
    /\ isProcessing' = TRUE
    /\ IF q # <<>> /\ ~isDisposed
       THEN items' = Tail(q) /\ loop' = [loop EXCEPT ![l] = Head(q)]
       ELSE items' = q /\ loop' = [loop EXCEPT ![l] = None]

\* The while loop with q waiting: take the first item and await its processor,
\* or fall through to the finally block.
Iterate(l, q) ==
    IF q # <<>> /\ ~isDisposed
    THEN /\ items' = Tail(q)
         /\ loop' = [loop EXCEPT ![l] = Head(q)]
         /\ isProcessing' = TRUE
    ELSE /\ items' = q
         /\ loop' = [loop EXCEPT ![l] = None]
         /\ isProcessing' = FALSE

\* Mutant: _isProcessing is not looked at.
EnqueueStartsLoop(x) ==
    /\ ~isDisposed
    /\ Len(items) < MaxQueue
    /\ \E l \in Loops : loop[l] = None /\ Iterate(l, Append(items, x))
    /\ UNCHANGED isDisposed

\* enqueue: the item is dropped after a dispose; a first item starts _process.
Enqueue(x) ==
    /\ ~isDisposed
    /\ Len(items) < MaxQueue
    /\ IF isProcessing
       THEN items' = Append(items, x) /\ UNCHANGED <<isProcessing, loop>>
       ELSE \E l \in Loops : loop[l] = None /\ Iterate(l, Append(items, x))
    /\ UNCHANGED isDisposed

\* Mutant: the loop ends with the first item and leaves the others waiting.
CompleteOnlyFirst(l) ==
    /\ loop[l] # None
    /\ loop' = [loop EXCEPT ![l] = None]
    /\ isProcessing' = FALSE
    /\ UNCHANGED <<items, isDisposed>>

\* The processor's future completes, with a value or with an error that goes
\* to _onError; the loop goes on.  When _onError throws, the finally block
\* starts _process anew, which takes the next item in the same way.
Complete(l) ==
    /\ loop[l] # None
    /\ Iterate(l, items)
    /\ UNCHANGED isDisposed

Clear ==
    /\ items' = <<>>
    /\ UNCHANGED <<isProcessing, isDisposed, loop>>

\* Mutant: what waits is left for the loop.
DisposeKeepsItems ==
    /\ isDisposed' = TRUE
    /\ UNCHANGED <<items, isProcessing, loop>>

Dispose ==
    /\ isDisposed' = TRUE
    /\ items' = <<>>
    /\ UNCHANGED <<isProcessing, loop>>

Next ==
    \/ \E x \in Items : Enqueue(x)
    \/ \E l \in Loops : Complete(l)
    \/ Clear
    \/ Dispose

Spec == Init /\ [][Next]_vars

\* Processors complete: they await calls that have timeouts or come back.
FairSpec == Spec /\ WF_vars(\E l \in Loops : Complete(l))

-----------------------------------------------------------------------------
Active == {l \in Loops : loop[l] # None}

\* Type invariant: items wait, flags are flags, and _isProcessing tells whether
\* an activation of _process is suspended.
TypeOK ==
    /\ items \in Seq(Items)
    /\ isProcessing \in BOOLEAN
    /\ isDisposed \in BOOLEAN
    /\ loop \in [Loops -> Items \cup {None}]
    /\ isProcessing <=> Active # {}

\* Processors never overlap, although enqueue starts _process from anywhere and
\* _process starts itself again.
OneAtATime == \A l, m \in Active : l = m

\* Nothing waits without a loop that will take it, and nothing waits in a
\* queue that was disposed.
NothingStranded == items # <<>> => isProcessing /\ ~isDisposed

\* The item that runs.
Running == IF Active = {} THEN None ELSE loop[CHOOSE l \in Active : TRUE]

Queue == INSTANCE TaskQueue WITH queue <- items, running <- Running, disposed <- isDisposed

\* The queue is the serial queue that TaskQueue describes: items run in the
\* order in which they came, and each has its turn.
ImplementsTaskQueue == Queue!FairSpec
=============================================================================
