------------------------ MODULE SerialTaskQueueProofs ------------------------
(***************************************************************************)
(* SerialTaskQueue never runs two processors at once and implements        *)
(* TaskQueue, for any items, any number of loops and any bound.            *)
(***************************************************************************)
EXTENDS SerialTaskQueue, SequenceTheorems, TLAPS

\* One activation of _process at most, which is there when anything waits.
Inv == TypeOK /\ OneAtATime /\ NothingStranded

\* The loop that starts or goes on is the only one.
LEMMA IterateInv ==
  ASSUME Inv, NEW l \in Loops, NEW q \in Seq(Items), Iterate(l, q), UNCHANGED isDisposed,
         \A m \in Active : m = l, isDisposed => q = <<>>
  PROVE  Inv'
<1> USE NoItem
<1>1. CASE q # <<>> /\ ~isDisposed
  <2>1. Head(q) \in Items /\ Tail(q) \in Seq(Items)
    BY <1>1, HeadTailProperties
  <2>2. /\ items' = Tail(q) /\ isProcessing' = TRUE
        /\ loop' = [loop EXCEPT ![l] = Head(q)]
    BY <1>1 DEF Iterate
  <2>3. loop' \in [Loops -> Items \cup {None}]
    BY <2>1, <2>2 DEF Inv, TypeOK
  <2>4. Active' = {l}
    BY <2>1, <2>2 DEF Inv, TypeOK, Active
  <2>5. QED
    BY <1>1, <2>1, <2>2, <2>3, <2>4 DEF Inv, TypeOK, OneAtATime, NothingStranded
<1>2. CASE q = <<>> \/ isDisposed
  <2>1. items' = <<>> /\ isProcessing' = FALSE /\ loop' = [loop EXCEPT ![l] = None]
    BY <1>2 DEF Iterate
  <2>2. loop' \in [Loops -> Items \cup {None}]
    BY <2>1 DEF Inv, TypeOK
  <2>3. Active' = {}
    BY <2>1 DEF Inv, TypeOK, Active
  <2>4. QED
    BY <2>1, <2>2, <2>3, EmptySeq DEF Inv, TypeOK, OneAtATime, NothingStranded
<1>3. QED
  BY <1>1, <1>2

LEMMA InvInit == Init => Inv
BY NoItem, EmptySeq DEF Init, Inv, TypeOK, OneAtATime, NothingStranded, Active

LEMMA InvStep == Inv /\ [Next]_vars => Inv'
<1> SUFFICES ASSUME Inv, [Next]_vars
             PROVE  Inv'
  OBVIOUS
<1>1. ASSUME NEW x \in Items, Enqueue(x)
      PROVE  Inv'
  <2>1. Append(items, x) \in Seq(Items)
    BY <1>1 DEF Inv, TypeOK
  <2>2. CASE isProcessing
    BY <1>1, <2>1, <2>2 DEF Enqueue, Inv, TypeOK, OneAtATime, NothingStranded, Active
  <2>3. CASE ~isProcessing
    <3>1. PICK l \in Loops : Iterate(l, Append(items, x))
      BY <1>1, <2>3 DEF Enqueue
    <3>2. Active = {} /\ ~isDisposed /\ UNCHANGED isDisposed
      BY <1>1, <2>3 DEF Enqueue, Inv, TypeOK
    <3>3. QED
      BY <2>1, <3>1, <3>2, IterateInv
  <2>4. QED
    BY <2>2, <2>3 DEF Inv, TypeOK
<1>2. ASSUME NEW l \in Loops, Complete(l)
      PROVE  Inv'
  <2>1. l \in Active
    BY <1>2 DEF Complete, Active
  <2>2. QED
    BY <1>2, <2>1, IterateInv DEF Complete, Inv, TypeOK, OneAtATime, NothingStranded
<1>3. CASE Clear
  BY <1>3 DEF Clear, Inv, TypeOK, OneAtATime, NothingStranded, Active
<1>4. CASE Dispose
  BY <1>4 DEF Dispose, Inv, TypeOK, OneAtATime, NothingStranded, Active
<1>5. CASE UNCHANGED vars
  BY <1>5 DEF vars, Inv, TypeOK, OneAtATime, NothingStranded, Active
<1>6. QED
  BY <1>1, <1>2, <1>3, <1>4, <1>5 DEF Next

\* Types, one processor at a time and nothing stranded, in every state.
LEMMA Invariant == Spec => []Inv
BY InvInit, InvStep, PTL DEF Spec

\* The queue, its flags and its loops keep their types.
THEOREM QueueTypes == Spec => []TypeOK
BY Invariant, PTL DEF Inv

\* Two processors never overlap.
THEOREM ProcessorsNeverOverlap == Spec => []OneAtATime
BY Invariant, PTL DEF Inv

\* Whatever waits has a loop that will take it.
THEOREM WaitingHasLoop == Spec => []NothingStranded
BY Invariant, PTL DEF Inv

-----------------------------------------------------------------------------
(* The refinement.                                                         *)

\* The item that runs is the one that the only loop awaits.
LEMMA RunningIs ==
  ASSUME Inv
  PROVE  /\ Active = {} => Running = None
         /\ \A l \in Active : Running = loop[l] /\ Running \in Items
         /\ Running = None <=> ~isProcessing
<1>1. Active = {} => Running = None
  BY DEF Running
<1>2. ASSUME NEW l \in Active
      PROVE  Running = loop[l] /\ Running \in Items /\ Running # None
  <2>1. (CHOOSE m \in Active : TRUE) = l
    BY <1>2 DEF Inv, OneAtATime
  <2>2. QED
    BY <1>2, <2>1, NoItem DEF Running, Active, Inv, TypeOK
<1>3. QED
  BY <1>1, <1>2 DEF Inv, TypeOK

\* After the loop l has gone on with q, the head of q runs, or nothing does.
LEMMA IterateRuns ==
  ASSUME Inv, Inv', NEW l \in Loops, NEW q \in Seq(Items), Iterate(l, q), ~isDisposed
  PROVE  IF q = <<>> THEN Running' = None /\ items' = <<>>
                     ELSE Running' = Head(q) /\ items' = Tail(q)
<1> USE NoItem
<1>1. /\ Active' = {} => Running' = None
      /\ \A m \in Active' : Running' = loop'[m]
  <2>1. Active' = {} => Running' = None
    BY DEF Running
  <2>2. ASSUME NEW m \in Active'
        PROVE  Running' = loop'[m]
    <3>1. (CHOOSE n \in Active' : TRUE) = m
      BY <2>2 DEF Inv, OneAtATime
    <3>2. QED
      BY <2>2, <3>1 DEF Running
  <2>3. QED
    BY <2>1, <2>2
<1>2. CASE q = <<>>
  <2>1. isProcessing' = FALSE /\ items' = <<>>
    BY <1>2 DEF Iterate
  <2>2. Active' = {}
    BY <2>1 DEF Inv, TypeOK
  <2>3. QED
    BY <1>1, <1>2, <2>1, <2>2
<1>3. CASE q # <<>>
  <2>1. items' = Tail(q) /\ loop' = [loop EXCEPT ![l] = Head(q)] /\ Head(q) \in Items
    BY <1>3, HeadTailProperties DEF Iterate
  <2>2. loop'[l] = Head(q) /\ l \in Active'
    BY <2>1 DEF Inv, TypeOK, Active
  <2>3. QED
    BY <1>1, <1>3, <2>1, <2>2
<1>4. QED
  BY <1>2, <1>3

\* Initial states are initial states of TaskQueue.
LEMMA RefinesInit == Init => Queue!Init
BY NoItem DEF Init, Queue!Init, Running, Active

\* Every step is a step of TaskQueue, or changes nothing that it speaks of.
LEMMA RefinesStep == Inv /\ Inv' /\ [Next]_vars => [Queue!Next]_(Queue!vars)
<1> SUFFICES ASSUME Inv, Inv', [Next]_vars
             PROVE  [Queue!Next]_(Queue!vars)
  OBVIOUS
<1> USE NoItem
<1>1. ASSUME NEW x \in Items, Enqueue(x)
      PROVE  Queue!Submit(x)
  <2>1. ~isDisposed /\ Len(items) < MaxQueue /\ UNCHANGED isDisposed
    BY <1>1 DEF Enqueue
  <2>2. CASE isProcessing
    <3>1. items' = Append(items, x) /\ UNCHANGED loop
      BY <1>1, <2>2 DEF Enqueue
    <3>2. Running # None /\ Running' = Running
      BY <2>2, <3>1, RunningIs DEF Running, Active
    <3>3. QED
      BY <2>1, <3>1, <3>2 DEF Queue!Submit
  <2>3. CASE ~isProcessing
    <3>1. PICK l \in Loops : Iterate(l, Append(items, x))
      BY <1>1, <2>3 DEF Enqueue
    <3>2. items = <<>> /\ Running = None
      BY <2>3, RunningIs DEF Inv, NothingStranded
    <3>3. Append(items, x) \in Seq(Items) /\ Append(items, x) # <<>>
          /\ Head(Append(items, x)) = x /\ Tail(Append(items, x)) = <<>>
      BY <3>2, <1>1 DEF Inv, TypeOK
    <3>4. Running' = x /\ items' = <<>>
      BY <2>1, <3>1, <3>3, IterateRuns
    <3>5. QED
      BY <2>1, <3>2, <3>4 DEF Queue!Submit
  <2>4. QED
    BY <2>2, <2>3 DEF Inv, TypeOK
<1>2. ASSUME NEW l \in Loops, Complete(l)
      PROVE  Queue!Done
  <2>1. l \in Active /\ Iterate(l, items) /\ UNCHANGED isDisposed
    BY <1>2 DEF Complete, Active
  <2>2. Running # None
    BY <2>1, RunningIs
  <2>3. CASE items = <<>>
    <3>1. isProcessing' = FALSE /\ items' = <<>>
      BY <2>1, <2>3 DEF Iterate
    <3>2. Active' = {}
      BY <3>1 DEF Inv, TypeOK
    <3>3. Running' = None
      BY <3>2 DEF Running
    <3>4. QED
      BY <2>1, <2>2, <2>3, <3>1, <3>3 DEF Queue!Done
  <2>4. CASE items # <<>>
    <3>1. ~isDisposed /\ items \in Seq(Items)
      BY <2>4 DEF Inv, NothingStranded, TypeOK
    <3>2. Running' = Head(items) /\ items' = Tail(items)
      BY <2>1, <2>4, <3>1, IterateRuns
    <3>3. QED
      BY <2>1, <2>2, <2>4, <3>2 DEF Queue!Done
  <2>5. QED
    BY <2>3, <2>4
<1>3. CASE Clear
  BY <1>3 DEF Clear, Queue!Next, Queue!Clear, Running, Active
<1>4. CASE Dispose
  BY <1>4 DEF Dispose, Queue!Next, Queue!Close, Running, Active
<1>5. CASE UNCHANGED vars
  BY <1>5 DEF vars, Queue!vars, Running, Active
<1>6. QED
  BY <1>1, <1>2, <1>3, <1>4, <1>5 DEF Next, Queue!Next

\* SerialTaskQueue is a TaskQueue: its safety part (fairness is left to TLC).
THEOREM QueueImplementsTaskQueue == Spec => Queue!Spec
BY Invariant, RefinesInit, RefinesStep, PTL DEF Spec, Queue!Spec
=============================================================================
