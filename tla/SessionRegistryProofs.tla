------------------------ MODULE SessionRegistryProofs ------------------------
(***************************************************************************)
(* Proofs about SessionRegistry, for any number of tasks and clients, any  *)
(* environment and any number of faults.                                   *)
(*                                                                         *)
(* The lemmas about the steps are stated for one request at a time, so     *)
(* that they also hold of the requests of HeartbeatLoop's clients.         *)
(***************************************************************************)
EXTENDS SessionRegistry, SequenceTheorems, FiniteSetTheorems, WellFoundedInduction, TLAPS

-----------------------------------------------------------------------------
(* Retain keeps the elements at the given positions, in their order.       *)

Increasing(f, n) == \A i, j \in 1..n : i < j => f[i] < f[j]

\* The positions can be counted in ascending order.
Counted(K) == \E f \in [1..Cardinality(K) -> K] : Increasing(f, Cardinality(K))

LEMMA Positions ==
  ASSUME NEW n \in Nat, NEW K \in SUBSET (1..n)
  PROVE  /\ IsFiniteSet(K)
         /\ Cardinality(K) \in Nat
         /\ \A k \in K : k \in Int /\ 1 <= k /\ k <= n
<1>1. IsFiniteSet(1..n)
  BY FS_Interval
<1>2. IsFiniteSet(K)
  BY <1>1, FS_Subset
<1>3. Cardinality(K) \in Nat
  BY <1>2, FS_CardinalityType
<1>4. QED
  BY <1>2, <1>3

\* One more position at the end is counted last.
LEMMA CountOneMore ==
  ASSUME NEW n \in Nat, NEW K \in SUBSET (1..n), Counted(K)
  PROVE  Counted(K \cup {n + 1})
<1> DEFINE m == Cardinality(K)
<1>1. IsFiniteSet(K) /\ m \in Nat
  BY Positions
<1>2. Cardinality(K \cup {n + 1}) = m + 1
  <2>1. n + 1 \notin K
    OBVIOUS
  <2>2. QED
    BY <1>1, <2>1, FS_AddElement
<1>3. PICK f \in [1..m -> K] : Increasing(f, m)
  BY DEF Counted
<1> HIDE DEF m
<1> DEFINE g == [i \in 1..(m + 1) |-> IF i = m + 1 THEN n + 1 ELSE f[i]]
<1>4. \A i \in 1..m : f[i] \in K /\ f[i] \in Int /\ f[i] < n + 1
  <2>1. \A k \in K : k \in Int /\ k < n + 1
    BY Positions
  <2>2. QED
    BY <1>3, <2>1
<1>5. g \in [1..(m + 1) -> K \cup {n + 1}]
  BY <1>1, <1>4
<1>6. ASSUME NEW i \in 1..(m + 1), NEW j \in 1..(m + 1), i < j
      PROVE  g[i] < g[j]
  <2>1. i \in 1..m /\ i # m + 1
    BY <1>1, <1>6
  <2>2. g[i] = f[i]
    BY <2>1
  <2>3. CASE j = m + 1
    BY <1>4, <2>1, <2>2, <2>3
  <2>4. CASE j # m + 1
    <3>1. j \in 1..m /\ g[j] = f[j]
      BY <1>1, <2>4
    <3>2. QED
      BY <1>3, <1>6, <2>1, <2>2, <3>1 DEF Increasing
  <2>5. QED
    BY <2>3, <2>4
<1>7. QED
  BY <1>2, <1>5, <1>6 DEF Counted, Increasing

\* Every set of positions can be counted: were n the least number with a set
\* of positions up to n that cannot, then n - 1 would be a lesser one.
LEMMA AllCounted == \A n \in Nat : \A K \in SUBSET (1..n) : Counted(K)
<1> DEFINE T == {n \in Nat : ~(\A K \in SUBSET (1..n) : Counted(K))}
<1>1. ASSUME T # {}
      PROVE  FALSE
  <2>1. PICK n \in T : \A m \in T : <<m, n>> \notin OpToRel(<, Nat)
    <3>1. T \subseteq Nat
      OBVIOUS
    <3> HIDE DEF T
    <3>2. QED
      BY <1>1, <3>1, NatLessThanWellFounded, WFMin
  <2>2. n \in Nat /\ T \subseteq Nat
    OBVIOUS
  <2>3. \A m \in T : ~(m < n)
    BY <2>1, <2>2 DEF OpToRel
  <2>4. PICK K \in SUBSET (1..n) : ~Counted(K)
    OBVIOUS
  <2>5. CASE n = 0
    <3>1. 1..0 = {}
      OBVIOUS
    <3>2. K = {}
      BY <2>4, <2>5, <3>1
    <3>3. K = {} /\ Cardinality(K) = 0
      BY <3>2, FS_EmptySet
    <3>4. [i \in 1..0 |-> 0] \in [1..Cardinality(K) -> K]
      BY <3>1, <3>3
    <3>5. Increasing([i \in 1..0 |-> 0], Cardinality(K))
      BY <3>1, <3>3 DEF Increasing
    <3>6. QED
      BY <2>4, <3>4, <3>5 DEF Counted
  <2>6. CASE n # 0
    <3>1. n - 1 \in Nat /\ n - 1 < n /\ (n - 1) + 1 = n
      BY <2>2, <2>6
    <3>2. n - 1 \notin T
      BY <2>3, <3>1
    <3>3. \A L \in SUBSET (1..(n - 1)) : Counted(L)
      BY <3>1, <3>2
    <3>4. CASE n \in K
      <4>1. K \ {n} \in SUBSET (1..(n - 1)) /\ (K \ {n}) \cup {n} = K
        BY <2>2, <3>4
      <4>2. Counted(K \ {n})
        BY <3>3, <4>1
      <4>3. Counted((K \ {n}) \cup {n})
        BY <3>1, <4>1, <4>2, CountOneMore
      <4>4. QED
        BY <2>4, <4>1, <4>3
    <3>5. CASE n \notin K
      <4>1. K \in SUBSET (1..(n - 1))
        BY <2>2, <3>5
      <4>2. QED
        BY <2>4, <3>3, <4>1
    <3>6. QED
      BY <3>4, <3>5
  <2>7. QED
    BY <2>5, <2>6
<1>2. QED
  BY <1>1

\* What Retain returns: the elements come from the given positions, in
\* ascending order, and none of the positions is left out.
Picks(r, s, K, f) ==
    /\ f \in [1..Len(r) -> K]
    /\ Increasing(f, Len(r))
    /\ \A k \in K : \E i \in 1..Len(r) : f[i] = k
    /\ \A i \in 1..Len(r) : r[i] = s[f[i]]

LEMMA RetainPicks ==
  ASSUME NEW S, NEW s \in Seq(S), NEW K \in SUBSET (1..Len(s))
  PROVE  /\ Retain(s, K) \in Seq(S)
         /\ \E f : Picks(Retain(s, K), s, K, f)
<1> DEFINE n == Cardinality(K)
           P(f) == \A i, j \in 1..n : i < j => f[i] < f[j]
           pos == CHOOSE f \in [1..n -> K] : P(f)
           r == [i \in 1..n |-> s[pos[i]]]
<1>1. IsFiniteSet(K) /\ n \in Nat
  BY Positions, LenProperties
<1>2. \E f \in [1..n -> K] : P(f)
  BY AllCounted, LenProperties DEF Counted, Increasing
<1>3. pos \in [1..n -> K] /\ P(pos)
  BY <1>2
<1>4. Retain(s, K) = r
  BY DEF Retain
<1> HIDE DEF pos, n
<1>5. \A i \in 1..n : pos[i] \in K /\ pos[i] \in Int /\ s[pos[i]] \in S
  <2>1. \A k \in K : k \in Int /\ s[k] \in S
    BY Positions, LenProperties, ElementOfSeq
  <2>2. QED
    BY <1>3, <2>1
<1>6. r \in [1..n -> S]
  BY <1>5
<1>7. r \in Seq(S) /\ Len(r) = n
  BY <1>1, <1>6, SeqDef, LenProperties
<1>8. pos \in Injection(1..n, K)
  <2>1. ASSUME NEW i \in 1..n, NEW j \in 1..n, pos[i] = pos[j]
        PROVE  i = j
    BY <1>1, <1>3, <1>5, <2>1
  <2>2. QED
    BY <1>3, <2>1 DEF Injection, IsInjective
<1>9. pos \in Surjection(1..n, K)
  BY <1>1, <1>8, FS_Injection, FS_Interval DEF n
<1>10. \A k \in K : \E i \in 1..n : pos[i] = k
  BY <1>9 DEF Surjection
<1>11. Picks(r, s, K, pos)
  BY <1>3, <1>7, <1>10 DEF Picks, Increasing
<1>12. QED
  BY <1>4, <1>7, <1>11

-----------------------------------------------------------------------------
(* The inductive invariant.  PrunedStaysPruned needs to know that an id is *)
(* drawn for one registration only, and that nobody else holds it before   *)
(* insert_client; FetchedOnceInOrder that what is still in the store for a *)
(* client is newer than all that was handed to it.                         *)

\* A task that will insert its client.
Registering(p) == loc[p].op = "register" /\ pc[p] \notin {"idle", "done"}

TasksOK ==
    \A p \in Tasks :
        /\ pc[p] # "idle" => loc[p].me \in drawn
        /\ pc[p] \notin {"idle", "done"} /\ loc[p].op = "signal" => loc[p].to \in drawn
        /\ pc[p] \in {"prune_clients", "prune_msgs"} => loc[p].op # "verify"
        /\ pc[p] = "verify" => loc[p].op # "register"
        /\ pc[p] \in {"count", "insert"} => loc[p].op = "register"
        /\ pc[p] = "add" => loc[p].op = "signal"
        /\ pc[p] = "prune_msgs" => loc[p].stale \subseteq gone

ClientsOK ==
    /\ \A c \in Clients : Live(c) => c \in drawn \ gone
    /\ \A p \in Tasks : Registering(p) => ~Live(loc[p].me) /\ loc[p].me \notin gone
    /\ \A p, q \in Tasks : Registering(p) /\ Registering(q) /\ p # q => loc[p].me # loc[q].me

Ascending(s) == \A i, j \in 1..Len(s) : i < j => s[i].id < s[j].id

InOrder ==
    /\ Ascending(messages)
    /\ \A i \in 1..Len(messages) : messages[i].id <= sent
    /\ \A c \in Clients :
          /\ Ascending(fetched[c])
          /\ \A i \in 1..Len(fetched[c]) :
                /\ fetched[c][i].to = c /\ fetched[c][i].id <= sent
                /\ \A j \in To(c) : fetched[c][i].id < messages[j].id

RegistryInv == TypeOK /\ TasksOK /\ ClientsOK /\ InOrder /\ OrphanExcused

-----------------------------------------------------------------------------
(* The steps, without the bounds on faults and messages.                   *)

Arrives(p) ==
    \/ \E c \in Clients \ drawn : Start(p, "register", c, None)
    \/ \E op \in {"heartbeat", "fetch", "verify"}, c \in drawn : Start(p, op, c, None)
    \/ \E c, d \in drawn : Start(p, "signal", c, d)

Stops(p) ==
    /\ pc[p] # "idle"
    /\ Goto(p, "idle")
    /\ loc' = [loc EXCEPT ![p] = NoLoc]
    /\ spared' = IF From(p, "prune_msgs") THEN spared \cup loc[p].stale ELSE spared
    /\ UNCHANGED <<repo, now, drawn, gone, sent, fetched, late>>

\* A step of one task.
TaskStep(p) ==
    /\ Arrives(p) \/ Step(p) \/ Reply(p) \/ Stops(p)
    /\ faults' \in Nat
    /\ UNCHANGED env

\* The other tasks do not move.
OthersStay(p) == \A q \in Tasks : q # p => pc'[q] = pc[q] /\ loc'[q] = loc[q]

LEMMA NoLocType ==
  /\ NoLoc \in LocRecord
  /\ NoLoc.stale = {} /\ NoLoc.me = None /\ NoLoc.to = None /\ NoLoc.at = 0 /\ NoLoc.ok = FALSE
BY DEF NoLoc, LocRecord, Ops

\* Every pc that a step sets is one of PCs.
LEMMA GotoEffect ==
  ASSUME TypeOK, NEW p \in Tasks, NEW label \in PCs, Goto(p, label)
  PROVE  /\ pc' \in [Tasks -> PCs]
         /\ pc'[p] = label
         /\ \A q \in Tasks : q # p => pc'[q] = pc[q]
BY DEF TypeOK, Goto

LEMMA StartEffect ==
  ASSUME TypeOK, NEW p \in Tasks, NEW op \in Ops,
         NEW c \in Clients, NEW d \in Clients \cup {None}, Start(p, op, c, d)
  PROVE  /\ pc[p] = "idle"
         /\ pc'[p] = IF op = "verify" THEN "verify" ELSE "prune_clients"
         /\ loc'[p].op = op /\ loc'[p].me = c /\ loc'[p].to = d
         /\ loc' \in [Tasks -> LocRecord] /\ pc' \in [Tasks -> PCs]
         /\ OthersStay(p)
<1> DEFINE l == [NoLoc EXCEPT !.op = op, !.me = c, !.to = d]
<1>1. l \in LocRecord /\ l.op = op /\ l.me = c /\ l.to = d
  BY DEF NoLoc, LocRecord, Ops
<1>2. loc' = [loc EXCEPT ![p] = l]
  BY DEF Start
<1> HIDE DEF l
<1>3. loc' \in [Tasks -> LocRecord] /\ loc'[p] = l
      /\ \A q \in Tasks : q # p => loc'[q] = loc[q]
  BY <1>1, <1>2 DEF TypeOK
<1>4. pc[p] = "idle" /\ pc' = [pc EXCEPT ![p] = IF op = "verify" THEN "verify" ELSE "prune_clients"]
  BY DEF Start, From, Goto
<1>5. QED
  BY <1>1, <1>3, <1>4 DEF TypeOK, OthersStay, PCs

LEMMA FinishEffect ==
  ASSUME TypeOK, NEW p \in Tasks, NEW ok \in BOOLEAN, Finish(p, ok)
  PROVE  /\ pc'[p] = "done"
         /\ loc'[p].op = loc[p].op /\ loc'[p].me = loc[p].me /\ loc'[p].ok = ok
         /\ loc' \in [Tasks -> LocRecord] /\ pc' \in [Tasks -> PCs]
         /\ OthersStay(p)
<1>0. loc[p] \in LocRecord /\ loc[p].op \in Ops /\ loc[p].me \in Clients \cup {None}
  BY DEF TypeOK, LocRecord
<1> DEFINE l == [NoLoc EXCEPT !.op = loc[p].op, !.me = loc[p].me, !.ok = ok]
<1>1. l \in LocRecord /\ l.op = loc[p].op /\ l.me = loc[p].me /\ l.ok = ok
  BY <1>0 DEF NoLoc, LocRecord
<1>2. loc' = [loc EXCEPT ![p] = l]
  BY DEF Finish
<1> HIDE DEF l
<1>3. loc' \in [Tasks -> LocRecord] /\ loc'[p] = l
      /\ \A q \in Tasks : q # p => loc'[q] = loc[q]
  BY <1>1, <1>2 DEF TypeOK
<1>4. pc' = [pc EXCEPT ![p] = "done"]
  BY DEF Finish, Goto
<1>5. QED
  BY <1>1, <1>3, <1>4 DEF TypeOK, OthersStay, PCs

\* A task that sets its local "stale" keeps the others.
LEMMA SetStale ==
  ASSUME TypeOK, NEW p \in Tasks, NEW x \in SUBSET Clients, loc' = [loc EXCEPT ![p].stale = x]
  PROVE  /\ loc'[p].op = loc[p].op /\ loc'[p].me = loc[p].me /\ loc'[p].to = loc[p].to
         /\ loc'[p].stale = x
         /\ loc' \in [Tasks -> LocRecord]
         /\ \A q \in Tasks : q # p => loc'[q] = loc[q]
BY DEF TypeOK, LocRecord

\* The same for "at".
LEMMA SetAt ==
  ASSUME TypeOK, NEW p \in Tasks, NEW x \in Nat, loc' = [loc EXCEPT ![p].at = x]
  PROVE  /\ loc'[p].op = loc[p].op /\ loc'[p].me = loc[p].me /\ loc'[p].to = loc[p].to
         /\ loc'[p].at = x
         /\ loc' \in [Tasks -> LocRecord]
         /\ \A q \in Tasks : q # p => loc'[q] = loc[q]
BY DEF TypeOK, LocRecord

LEMMA PruneClientsEffect ==
  ASSUME TypeOK, TasksOK, NEW p \in Tasks, PruneClients(p)
  PROVE  /\ pc[p] = "prune_clients"
         /\ pc'[p] = IF Stale # {} THEN "prune_msgs"
                     ELSE IF loc[p].op = "register" THEN "count" ELSE "verify"
         /\ loc'[p].op = loc[p].op /\ loc'[p].me = loc[p].me /\ loc'[p].to = loc[p].to
         /\ loc'[p].stale = Stale
         /\ loc' \in [Tasks -> LocRecord] /\ pc' \in [Tasks -> PCs]
         /\ OthersStay(p)
<1>1. PICK x \in SUBSET Clients : x = Stale
  BY DEF Stale
<1>2. loc' = [loc EXCEPT ![p].stale = x]
  BY <1>1 DEF PruneClients
<1>3. Goto(p, IF Stale # {} THEN "prune_msgs"
              ELSE IF loc[p].op = "register" THEN "count" ELSE "verify")
  BY DEF PruneClients, AfterPrune
<1>4. QED
  BY <1>1, <1>2, <1>3, SetStale, GotoEffect DEF PCs, OthersStay, PruneClients, From

LEMMA PruneMessagesEffect ==
  ASSUME TypeOK, NEW p \in Tasks, PruneMessages(p)
  PROVE  /\ pc[p] = "prune_msgs"
         /\ pc'[p] = IF loc[p].op = "register" THEN "count" ELSE "verify"
         /\ loc'[p].op = loc[p].op /\ loc'[p].me = loc[p].me /\ loc'[p].to = loc[p].to
         /\ loc'[p].stale = {}
         /\ loc' \in [Tasks -> LocRecord] /\ pc' \in [Tasks -> PCs]
         /\ OthersStay(p)
<1>0. PICK x \in SUBSET Clients : x = {}
  OBVIOUS
<1>1. pc[p] = "prune_msgs" /\ loc' = [loc EXCEPT ![p].stale = x]
  BY <1>0 DEF PruneMessages, From
<1>2. Goto(p, IF loc[p].op = "register" THEN "count" ELSE "verify")
  BY DEF PruneMessages, AfterPrune
<1>3. /\ loc'[p].op = loc[p].op /\ loc'[p].me = loc[p].me /\ loc'[p].to = loc[p].to
      /\ loc'[p].stale = {}
      /\ loc' \in [Tasks -> LocRecord]
      /\ \A q \in Tasks : q # p => loc'[q] = loc[q]
  BY <1>0, <1>1, SetStale
<1>4. /\ pc'[p] = IF loc[p].op = "register" THEN "count" ELSE "verify"
      /\ pc' \in [Tasks -> PCs]
      /\ \A q \in Tasks : q # p => pc'[q] = pc[q]
  BY <1>2, GotoEffect DEF PCs
<1>5. QED
  BY <1>1, <1>3, <1>4 DEF OthersStay

LEMMA CountEffect ==
  ASSUME TypeOK, NEW p \in Tasks, Count(p)
  PROVE  /\ pc[p] = "count" /\ pc'[p] = "insert"
         /\ loc'[p].op = loc[p].op /\ loc'[p].me = loc[p].me /\ loc'[p].to = loc[p].to
         /\ loc'[p].at = now
         /\ loc' \in [Tasks -> LocRecord] /\ pc' \in [Tasks -> PCs]
         /\ OthersStay(p)
<1>1. PICK x \in Nat : x = now
  BY DEF TypeOK
<1>2. pc[p] = "count" /\ loc' = [loc EXCEPT ![p].at = x] /\ Goto(p, "insert")
  BY <1>1 DEF Count, From
<1>3. "insert" \in PCs
  BY DEF PCs
<1>4. /\ loc'[p].op = loc[p].op /\ loc'[p].me = loc[p].me /\ loc'[p].to = loc[p].to
      /\ loc'[p].at = x
      /\ loc' \in [Tasks -> LocRecord]
      /\ \A q \in Tasks : q # p => loc'[q] = loc[q]
  BY <1>2, SetAt
<1>5. pc'[p] = "insert" /\ pc' \in [Tasks -> PCs] /\ \A q \in Tasks : q # p => pc'[q] = pc[q]
  BY <1>2, <1>3, GotoEffect
<1>6. QED
  BY <1>1, <1>2, <1>4, <1>5 DEF OthersStay

\* verify_client lets the request go on, or the handler gives up.
LEMMA VerifyEffect ==
  ASSUME TypeOK, TasksOK, NEW p \in Tasks, Verify(p), pc'[p] # "done"
  PROVE  /\ pc[p] = "verify"
         /\ Live(loc[p].me)
         /\ \/ pc'[p] = "update" /\ loc[p].op = "heartbeat" /\ loc'[p].at = now
            \/ pc'[p] = "add" /\ loc[p].op = "signal"
            \/ pc'[p] = "drain" /\ loc[p].op = "fetch"
         /\ loc'[p].op = loc[p].op /\ loc'[p].me = loc[p].me /\ loc'[p].to = loc[p].to
         /\ loc' \in [Tasks -> LocRecord] /\ pc' \in [Tasks -> PCs]
         /\ OthersStay(p)
<1>1. Live(loc[p].me) /\ loc[p].op # "verify" /\ pc[p] = "verify"
  BY DEF Verify, Finish, Goto, From, TypeOK
<1>2. PICK x \in Nat : x = IF loc[p].op = "heartbeat" THEN now ELSE 0
  BY DEF TypeOK
<1>3. loc' = [loc EXCEPT ![p].at = x] /\ Goto(p, AfterVerify[loc[p].op])
  BY <1>1, <1>2 DEF Verify
<1>4. loc[p].op \in {"heartbeat", "signal", "fetch"}
  BY <1>1 DEF TasksOK, TypeOK, LocRecord, Ops
<1>5. /\ AfterVerify[loc[p].op] \in PCs
      /\ \/ AfterVerify[loc[p].op] = "update" /\ loc[p].op = "heartbeat"
         \/ AfterVerify[loc[p].op] = "add" /\ loc[p].op = "signal"
         \/ AfterVerify[loc[p].op] = "drain" /\ loc[p].op = "fetch"
  BY <1>4 DEF AfterVerify, PCs
<1>6. QED
  BY ZenonT(60), <1>1, <1>2, <1>3, <1>5, SetAt, GotoEffect DEF OthersStay

\* The reply has left, or the task was dropped.
LEMMA IdleEffect ==
  ASSUME TypeOK, NEW p \in Tasks, Goto(p, "idle"), loc' = [loc EXCEPT ![p] = NoLoc]
  PROVE  /\ pc'[p] = "idle" /\ loc'[p] = NoLoc
         /\ loc' \in [Tasks -> LocRecord] /\ pc' \in [Tasks -> PCs]
         /\ OthersStay(p)
BY NoLocType, GotoEffect DEF TypeOK, PCs, OthersStay

-----------------------------------------------------------------------------
(* Type correctness, and what the tasks know of their own requests.        *)

LEMMA RegistryInit == Init => RegistryInv
<1> SUFFICES ASSUME Init
             PROVE  RegistryInv
  OBVIOUS
<1>1. TypeOK
  BY NoLocType, EmptySeq DEF Init, EnvInit, TypeOK, NoRecord, ClientRecord, PCs
<1>2. TasksOK /\ ClientsOK
  BY DEF Init, TasksOK, ClientsOK, Registering, Live, NoRecord, NoLoc
<1>3. messages = <<>> /\ \A c \in Clients : fetched[c] = <<>>
  BY DEF Init
<1>4. InOrder /\ OrphanExcused
  BY <1>3 DEF InOrder, Ascending, To, OrphanExcused
<1>5. QED
  BY <1>1, <1>2, <1>4 DEF RegistryInv

\* What a task knows of its request while it does not move.
LEMMA TaskKept ==
  ASSUME TasksOK, drawn \subseteq drawn', gone \subseteq gone', NEW p \in Tasks, OthersStay(p),
         pc'[p] # "idle" => loc'[p].me \in drawn',
         pc'[p] \notin {"idle", "done"} /\ loc'[p].op = "signal" => loc'[p].to \in drawn',
         pc'[p] \in {"prune_clients", "prune_msgs"} => loc'[p].op # "verify",
         pc'[p] = "verify" => loc'[p].op # "register",
         pc'[p] \in {"count", "insert"} => loc'[p].op = "register",
         pc'[p] = "add" => loc'[p].op = "signal",
         pc'[p] = "prune_msgs" => loc'[p].stale \subseteq gone'
  PROVE  TasksOK'
<1>1. ASSUME NEW q \in Tasks, q # p
      PROVE  pc'[q] = pc[q] /\ loc'[q] = loc[q]
  BY <1>1 DEF OthersStay
<1>2. QED
  BY <1>1 DEF TasksOK

\* The messages that are left when some are removed.
LEMMA FewerMessages ==
  ASSUME TypeOK, NEW K \in SUBSET (1..Len(messages)), messages' = Retain(messages, K)
  PROVE  /\ messages' \in Seq(Envelope)
         /\ \E f : Picks(messages', messages, K, f)
BY RetainPicks DEF TypeOK

\* The task's own variables and the history.
LEMMA TypeTask ==
  ASSUME RegistryInv, NEW p \in Tasks, TaskStep(p)
  PROVE  TypeOK' /\ TasksOK' /\ OthersStay(p)
<1> USE DEF RegistryInv
<1>0. /\ loc[p] \in LocRecord
      /\ loc[p].op \in Ops
      /\ loc[p].me \in Clients \cup {None} /\ loc[p].to \in Clients \cup {None}
      /\ loc[p].at \in Nat
  BY DEF TypeOK, LocRecord
<1>e. env' \in Environments /\ faults' \in Nat
  BY DEF TaskStep, TypeOK
<1>1. ASSUME NEW op \in Ops, NEW c \in Clients, NEW d \in Clients \cup {None},
             Start(p, op, c, d), op = "register" \/ c \in drawn, op = "signal" => d \in drawn
      PROVE  TypeOK' /\ TasksOK' /\ OthersStay(p)
  <2>1. /\ drawn' = IF op = "register" THEN drawn \cup {c} ELSE drawn
        /\ UNCHANGED <<clients, messages, now, gone, sent, fetched, late, spared>>
    BY <1>1 DEF Start, repo
  <2>2. TypeOK'
    BY <1>e, <1>1, <2>1, StartEffect DEF TypeOK
  <2>3. OthersStay(p) /\ TasksOK'
    BY <1>1, <2>1, StartEffect, TaskKept
  <2>4. QED
    BY <2>2, <2>3
<1>2. CASE Arrives(p)
  BY <1>1, <1>2 DEF Arrives, Ops, TypeOK
<1>3. CASE PruneClients(p)
  <2>1. /\ clients' = [c \in Clients |-> IF c \in Stale THEN NoRecord ELSE clients[c]]
        /\ gone' = gone \cup Stale
        /\ UNCHANGED <<messages, now, drawn, sent, fetched, late, spared>>
    BY <1>3 DEF PruneClients
  <2>2. Stale \subseteq drawn
    BY DEF Stale, ClientsOK
  <2>3. clients' \in [Clients -> ClientRecord]
    BY <2>1 DEF TypeOK, NoRecord, ClientRecord
  <2>4. TypeOK'
    BY <1>e, <1>3, <2>1, <2>2, <2>3, PruneClientsEffect DEF TypeOK
  <2>5. OthersStay(p) /\ TasksOK'
    <3>1. pc[p] = "prune_clients" /\ loc[p].op # "verify" /\ loc[p].me \in drawn
          /\ (loc[p].op = "signal" => loc[p].to \in drawn)
      BY <1>3, PruneClientsEffect DEF TasksOK
    <3>2. QED
      BY <1>3, <2>1, <3>1, PruneClientsEffect, TaskKept
  <2>6. QED
    BY <2>4, <2>5
<1>4. CASE PruneMessages(p)
  <2>1. /\ messages' = Retain(messages, AllBut(Among(loc[p].stale)))
        /\ UNCHANGED <<clients, now, drawn, gone, sent, fetched, late, spared>>
    BY <1>4 DEF PruneMessages, history
  <2>2. messages' \in Seq(Envelope)
    BY <2>1, FewerMessages DEF AllBut
  <2>3. TypeOK'
    BY <1>e, <1>4, <2>1, <2>2, PruneMessagesEffect DEF TypeOK
  <2>4. OthersStay(p) /\ TasksOK'
    <3>1. pc[p] = "prune_msgs" /\ loc[p].op # "verify" /\ loc[p].me \in drawn
          /\ (loc[p].op = "signal" => loc[p].to \in drawn)
      BY <1>4, PruneMessagesEffect DEF TasksOK
    <3>2. QED
      BY <1>4, <2>1, <3>1, PruneMessagesEffect, TaskKept
  <2>5. QED
    BY <2>3, <2>4
<1>5. CASE Count(p)
  <2>1. UNCHANGED <<clients, messages, now, drawn, gone, sent, fetched, late, spared>>
    BY <1>5 DEF Count, repo, history
  <2>2. TypeOK'
    BY <1>e, <1>5, <2>1, CountEffect DEF TypeOK
  <2>3. OthersStay(p) /\ TasksOK'
    <3>1. loc[p].op = "register" /\ loc[p].me \in drawn
      BY <1>5, CountEffect DEF TasksOK
    <3>2. QED
      BY <1>5, <2>1, <3>1, CountEffect, TaskKept
  <2>4. QED
    BY <2>2, <2>3
\* The handler's value is on its way.
<1>f. ASSUME NEW ok \in BOOLEAN, Finish(p, ok), pc[p] # "idle", UNCHANGED drawn,
             gone \subseteq gone'
      PROVE  /\ loc' \in [Tasks -> LocRecord] /\ pc' \in [Tasks -> PCs]
             /\ TasksOK' /\ OthersStay(p)
  <2>1. loc[p].me \in drawn
    BY <1>f DEF TasksOK
  <2>2. QED
    BY <1>f, <2>1, FinishEffect, TaskKept
<1>6. CASE Insert(p)
  <2>1. /\ pc[p] = "insert"
        /\ clients' = [clients EXCEPT ![loc[p].me] = [live |-> TRUE, beat |-> loc[p].at]]
        /\ Finish(p, TRUE)
        /\ UNCHANGED <<messages, now, drawn, gone, sent, fetched, late, spared>>
    BY <1>6 DEF Insert, From, history
  <2>2. clients' \in [Clients -> ClientRecord]
    BY <1>0, <2>1 DEF TypeOK, ClientRecord
  <2>3. QED
    BY <1>e, <1>f, <2>1, <2>2 DEF TypeOK
<1>7. CASE Verify(p)
  <2>1. UNCHANGED <<clients, messages, now, drawn, gone, sent, fetched, late, spared>>
        /\ pc[p] = "verify"
    BY <1>7 DEF Verify, From, repo, history
  <2>2. CASE pc'[p] = "done"
    <3>1. CASE Finish(p, Live(loc[p].me))
      <4>1. Live(loc[p].me) \in BOOLEAN
        <5>1. loc[p].me \in Clients
          BY <2>1 DEF TasksOK, TypeOK
        <5>2. QED
          BY <5>1 DEF TypeOK, Live, ClientRecord
      <4>2. QED
        BY <1>e, <1>f, <2>1, <3>1, <4>1 DEF TypeOK
    <3>2. CASE Goto(p, AfterVerify[loc[p].op]) /\ loc[p].op # "verify"
      <4>1. loc[p].op \in {"heartbeat", "signal", "fetch"}
        BY <1>0, <2>1, <3>2 DEF TasksOK, Ops
      <4>2. AfterVerify[loc[p].op] \in {"update", "add", "drain"}
        BY <4>1 DEF AfterVerify
      <4>3. QED
        BY <2>2, <3>2, <4>2 DEF Goto, TypeOK
    <3>3. QED
      BY <1>7, <3>1, <3>2 DEF Verify
  <2>3. CASE pc'[p] # "done"
    <3>1. /\ loc' \in [Tasks -> LocRecord] /\ pc' \in [Tasks -> PCs] /\ OthersStay(p)
          /\ loc'[p].op = loc[p].op /\ loc'[p].me = loc[p].me /\ loc'[p].to = loc[p].to
          /\ pc'[p] \in {"update", "add", "drain"}
          /\ pc'[p] = "add" => loc[p].op = "signal"
      BY <1>7, <2>3, VerifyEffect
    <3>2. loc[p].me \in drawn /\ (loc[p].op = "signal" => loc[p].to \in drawn)
      BY <2>1 DEF TasksOK
    <3>3. TasksOK'
      BY <2>1, <3>1, <3>2, TaskKept
    <3>4. QED
      BY <1>e, <2>1, <3>1, <3>3 DEF TypeOK
  <2>4. QED
    BY <2>2, <2>3
<1>8. CASE Update(p)
  <2>1. /\ pc[p] = "update"
        /\ \/ Live(loc[p].me) /\ clients' = [clients EXCEPT ![loc[p].me].beat = loc[p].at]
           \/ UNCHANGED clients
        /\ Finish(p, Live(loc[p].me))
        /\ UNCHANGED <<messages, now, drawn, gone, sent, fetched, late, spared>>
    BY <1>8 DEF Update, From, history
  <2>2. loc[p].me \in Clients
    BY <2>1 DEF TasksOK, TypeOK
  <2>3. clients' \in [Clients -> ClientRecord] /\ Live(loc[p].me) \in BOOLEAN
    BY <1>0, <2>1, <2>2 DEF TypeOK, ClientRecord, Live
  <2>4. QED
    BY <1>e, <1>f, <2>1, <2>3 DEF TypeOK
<1>9. CASE Add(p)
  <2> DEFINE e == [id |-> sent + 1, from |-> loc[p].me, to |-> loc[p].to]
  <2>1. /\ pc[p] = "add"
        /\ messages' = Append(messages, e)
        /\ sent' = sent + 1
        /\ late' \in {late, late \cup {sent + 1}}
        /\ Finish(p, TRUE)
        /\ UNCHANGED <<clients, now, drawn, gone, fetched, spared>>
    BY <1>9 DEF Add, From
  <2>2. e \in Envelope
    BY <2>1 DEF TasksOK, TypeOK, Envelope
  <2> HIDE DEF e
  <2>3. messages' \in Seq(Envelope) /\ sent' \in Nat /\ late' \subseteq Nat
    BY <2>1, <2>2, AppendProperties DEF TypeOK
  <2>4. QED
    BY <1>e, <1>f, <2>1, <2>3 DEF TypeOK
<1>10. CASE Drain(p)
  <2>1. /\ pc[p] = "drain"
        /\ fetched' = [fetched EXCEPT ![loc[p].me] = @ \o Retain(messages, To(loc[p].me))]
        /\ messages' = Retain(messages, AllBut(To(loc[p].me)))
        /\ Finish(p, TRUE)
        /\ UNCHANGED <<clients, now, drawn, gone, sent, late, spared>>
    BY <1>10 DEF Drain, From
  <2>2. messages' \in Seq(Envelope)
    BY <2>1, FewerMessages DEF AllBut
  <2>3. Retain(messages, To(loc[p].me)) \in Seq(Envelope)
    BY RetainPicks DEF TypeOK, To
  <2>4. loc[p].me \in Clients
    BY <2>1 DEF TasksOK, TypeOK
  <2>5. fetched[loc[p].me] \o Retain(messages, To(loc[p].me)) \in Seq(Envelope)
    BY <2>3, <2>4, ConcatProperties DEF TypeOK
  <2>6. fetched' \in [Clients -> Seq(Envelope)]
    BY <2>1, <2>5 DEF TypeOK
  <2>7. QED
    BY <1>e, <1>f, <2>1, <2>2, <2>6 DEF TypeOK
<1>11. CASE Reply(p) \/ Stops(p)
  <2>1. /\ Goto(p, "idle") /\ loc' = [loc EXCEPT ![p] = NoLoc]
        /\ spared' \in {spared, spared \cup loc[p].stale}
        /\ spared' # spared => pc[p] = "prune_msgs"
        /\ UNCHANGED <<clients, messages, now, drawn, gone, sent, fetched, late>>
    BY <1>11 DEF Reply, Stops, From, repo, history
  <2>2. spared' \subseteq gone
    BY <2>1 DEF TasksOK, TypeOK
  <2>3. TypeOK'
    BY <1>e, <2>1, <2>2, IdleEffect DEF TypeOK
  <2>4. TasksOK' /\ OthersStay(p)
    BY <2>1, IdleEffect, TaskKept
  <2>5. QED
    BY <2>3, <2>4
<1>12. QED
  BY <1>2, <1>3, <1>4, <1>5, <1>6, <1>7, <1>8, <1>9, <1>10, <1>11 DEF TaskStep, Step

-----------------------------------------------------------------------------
(* Clients that were pruned.                                               *)

\* Nobody comes to life, and no task becomes one that will insert its client.
LEMMA ClientsKept ==
  ASSUME RegistryInv, TasksOK', NEW p \in Tasks, OthersStay(p), drawn \subseteq drawn',
         \A c \in Clients : clients'[c].live => Live(c) /\ c \notin gone',
         \A c \in gone' : c \in gone \/ (c \in Clients /\ Live(c)),
         Registering(p)' => Registering(p) /\ loc'[p].me = loc[p].me
  PROVE  ClientsOK'
<1>1. ASSUME NEW q \in Tasks, Registering(q)'
      PROVE  Registering(q) /\ loc'[q].me = loc[q].me
  BY <1>1 DEF OthersStay, Registering
<1>2. ASSUME NEW q \in Tasks, Registering(q)
      PROVE  loc[q].me \in Clients
  BY <1>2 DEF RegistryInv, TasksOK, TypeOK, Registering
<1>3. \A c \in Clients : clients'[c].live => c \in drawn' \ gone'
  BY DEF RegistryInv, ClientsOK
<1>4. ASSUME NEW q \in Tasks, Registering(q)'
      PROVE  ~clients'[loc'[q].me].live /\ loc'[q].me \notin gone'
  BY <1>1, <1>2, <1>4 DEF RegistryInv, ClientsOK
<1>5. ASSUME NEW q \in Tasks, NEW r \in Tasks, Registering(q)', Registering(r)', q # r
      PROVE  loc'[q].me # loc'[r].me
  BY <1>1, <1>5 DEF RegistryInv, ClientsOK
<1>6. QED
  BY <1>3, <1>4, <1>5 DEF ClientsOK, Live

LEMMA ClientsTask ==
  ASSUME RegistryInv, NEW p \in Tasks, TaskStep(p)
  PROVE  ClientsOK'
<1> USE DEF RegistryInv
<1>t. TypeOK' /\ TasksOK' /\ OthersStay(p)
  BY TypeTask
<1>1. ASSUME NEW c \in Clients \ drawn, Start(p, "register", c, None)
      PROVE  ClientsOK'
  <2>1. /\ loc'[p].me = c
        /\ drawn' = drawn \cup {c}
        /\ UNCHANGED <<clients, gone>>
    BY <1>1, StartEffect DEF Ops, Start, repo
  <2>2. ~Live(c) /\ c \notin gone
    BY DEF ClientsOK, TypeOK
  <2>3. \A q \in Tasks : q # p /\ Registering(q)' => Registering(q) /\ loc'[q].me = loc[q].me
                                                     /\ loc[q].me \in drawn
    BY <1>t DEF OthersStay, Registering, TasksOK
  <2>4. \A q \in Tasks : Registering(q)' => ~clients'[loc'[q].me].live /\ loc'[q].me \notin gone'
    BY <2>1, <2>2, <2>3 DEF ClientsOK, Live
  <2>5. \A q, r \in Tasks : Registering(q)' /\ Registering(r)' /\ q # r => loc'[q].me # loc'[r].me
    BY <2>1, <2>3 DEF ClientsOK
  <2>6. \A d \in Clients : clients'[d].live => d \in drawn' \ gone'
    BY <2>1 DEF ClientsOK, Live
  <2>7. QED
    BY <2>4, <2>5, <2>6 DEF ClientsOK, Live
\* Steps that leave the clients alone.
<1>s. ASSUME UNCHANGED <<clients, gone>>, drawn \subseteq drawn',
             (loc'[p].op = loc[p].op /\ loc'[p].me = loc[p].me) \/ pc'[p] = "idle"
               \/ loc'[p].op # "register",
             pc'[p] \in {"idle", "done"} \/ pc[p] \notin {"idle", "done"}
               \/ loc'[p].op # "register"
      PROVE  ClientsOK'
  <2>1. Registering(p)' => Registering(p) /\ loc'[p].me = loc[p].me
    BY <1>s DEF Registering
  <2>2. \A c \in Clients : clients'[c].live => Live(c) /\ c \notin gone'
    BY <1>s DEF ClientsOK, Live
  <2>3. QED
    BY <1>s, <1>t, <2>1, <2>2, ClientsKept
<1>2. ASSUME NEW op \in Ops \ {"register"}, NEW c \in Clients, NEW d \in Clients \cup {None},
             Start(p, op, c, d)
      PROVE  ClientsOK'
  <2>1. UNCHANGED <<clients, gone, drawn>>
    BY <1>2 DEF Start, repo
  <2>2. loc'[p].op # "register"
    BY <1>2, StartEffect
  <2>3. QED
    BY <1>s, <2>1, <2>2
<1>3. CASE Arrives(p)
  BY <1>1, <1>2, <1>3 DEF Arrives, Ops, TypeOK
<1>4. CASE PruneClients(p)
  <2>1. /\ clients' = [c \in Clients |-> IF c \in Stale THEN NoRecord ELSE clients[c]]
        /\ gone' = gone \cup Stale
        /\ UNCHANGED drawn
    BY <1>4 DEF PruneClients
  <2>2. \A c \in Clients : clients'[c].live => Live(c) /\ c \notin gone'
    BY <2>1 DEF ClientsOK, Live, NoRecord
  <2>3. \A c \in gone' : c \in gone \/ (c \in Clients /\ Live(c))
    BY <2>1 DEF Stale
  <2>4. Registering(p)' => Registering(p) /\ loc'[p].me = loc[p].me
    BY <1>4, PruneClientsEffect DEF Registering
  <2>5. QED
    BY <1>t, <2>1, <2>2, <2>3, <2>4, ClientsKept
<1>5. CASE Insert(p)
  <2>1. /\ pc[p] = "insert" /\ pc'[p] = "done"
        /\ clients' = [clients EXCEPT ![loc[p].me] = [live |-> TRUE, beat |-> loc[p].at]]
        /\ UNCHANGED <<gone, drawn>>
    BY <1>5, FinishEffect DEF Insert, From, history
  <2>2. Registering(p) /\ loc[p].me \in drawn /\ loc[p].me \in Clients
    BY <2>1 DEF Registering, TasksOK, TypeOK
  <2>3. /\ loc[p].me \notin gone
        /\ \A q \in Tasks : Registering(q) /\ q # p => loc[q].me # loc[p].me
    BY <2>2 DEF ClientsOK
  <2>4. \A c \in Clients : clients'[c].live => c = loc[p].me \/ Live(c)
    BY <2>1 DEF TypeOK, Live
  <2>5. ~Registering(p)'
    BY <2>1 DEF Registering
  <2>6. \A q \in Tasks : Registering(q)' => Registering(q) /\ loc'[q].me = loc[q].me /\ q # p
                                            /\ loc[q].me \in Clients
    BY <1>t, <2>5 DEF OthersStay, Registering, TasksOK, TypeOK
  <2>7. \A q \in Tasks : Registering(q)' => ~clients'[loc'[q].me].live /\ loc'[q].me \notin gone'
    BY <2>1, <2>3, <2>4, <2>6 DEF ClientsOK
  <2>8. \A q, r \in Tasks : Registering(q)' /\ Registering(r)' /\ q # r => loc'[q].me # loc'[r].me
    BY <2>6 DEF ClientsOK
  <2>9. \A c \in Clients : clients'[c].live => c \in drawn' \ gone'
    BY <2>1, <2>2, <2>3, <2>4 DEF ClientsOK
  <2>10. QED
    BY <2>7, <2>8, <2>9 DEF ClientsOK, Live
<1>6. CASE Update(p)
  <2>1. /\ pc'[p] = "done" /\ UNCHANGED <<gone, drawn>>
        /\ \/ clients' = [clients EXCEPT ![loc[p].me].beat = loc[p].at]
           \/ UNCHANGED clients
    <3>1. Finish(p, Live(loc[p].me)) /\ UNCHANGED <<gone, drawn>>
      BY <1>6 DEF Update, history
    <3>2. pc'[p] = "done"
      BY <3>1 DEF Finish, Goto, TypeOK
    <3>3. QED
      BY <1>6, <3>1, <3>2 DEF Update
  <2>2. \A c \in Clients : clients'[c].live = clients[c].live
    BY ZenonT(60), <2>1 DEF TypeOK, ClientRecord
  <2>3. \A c \in Clients : clients'[c].live => Live(c) /\ c \notin gone'
    BY <2>1, <2>2 DEF ClientsOK, Live
  <2>4. ~Registering(p)'
    BY <2>1 DEF Registering
  <2>5. QED
    BY <1>t, <2>1, <2>3, <2>4, ClientsKept
<1>7. CASE PruneMessages(p) \/ Count(p)
  <2>1. UNCHANGED <<clients, gone, drawn>>
    BY <1>7 DEF PruneMessages, Count, repo, history
  <2>2. loc'[p].op = loc[p].op /\ loc'[p].me = loc[p].me /\ pc[p] \notin {"idle", "done"}
    BY <1>7, PruneMessagesEffect, CountEffect
  <2>3. QED
    BY <1>s, <2>1, <2>2
<1>8. CASE Verify(p)
  <2>1. UNCHANGED <<clients, gone, drawn>> /\ pc[p] = "verify"
    BY <1>8 DEF Verify, From, repo, history
  <2>2. CASE pc'[p] = "done"
    <3>1. Registering(p)' => Registering(p) /\ loc'[p].me = loc[p].me
      BY <2>2 DEF Registering
    <3>2. \A c \in Clients : clients'[c].live => Live(c) /\ c \notin gone'
      BY <2>1 DEF ClientsOK, Live
    <3>3. QED
      BY <1>t, <2>1, <3>1, <3>2, ClientsKept
  <2>3. CASE pc'[p] # "done"
    BY <1>8, <1>s, <2>1, <2>3, VerifyEffect
  <2>4. QED
    BY <2>2, <2>3
<1>9. CASE Add(p) \/ Drain(p)
  <2>1. UNCHANGED <<clients, gone, drawn>> /\ Finish(p, TRUE) /\ pc[p] \in {"add", "drain"}
    BY <1>9 DEF Add, Drain, From
  <2>2. QED
    BY <1>s, <2>1, FinishEffect
<1>10. CASE Reply(p) \/ Stops(p)
  <2>1. UNCHANGED <<clients, gone, drawn>> /\ Goto(p, "idle")
        /\ loc' = [loc EXCEPT ![p] = NoLoc]
    BY <1>10 DEF Reply, Stops, repo, history
  <2>2. QED
    BY <1>s, <2>1, IdleEffect
<1>11. QED
  BY <1>3, <1>4, <1>5, <1>6, <1>7, <1>8, <1>9, <1>10 DEF TaskStep, Step

-----------------------------------------------------------------------------
(* The order of the messages.                                              *)

\* What Retain leaves of a list in order is in order.
LEMMA AscendingPicks ==
  ASSUME NEW s \in Seq(Envelope), Ascending(s), NEW r \in Seq(Envelope),
         NEW K, K \subseteq 1..Len(s), NEW f, Picks(r, s, K, f)
  PROVE  Ascending(r)
<1>1. \A i \in 1..Len(r) : f[i] \in K /\ r[i] = s[f[i]]
  BY DEF Picks
<1>2. \A i \in 1..Len(r) : f[i] \in 1..Len(s)
  BY <1>1
<1>3. ASSUME NEW i \in 1..Len(r), NEW j \in 1..Len(r), i < j
      PROVE  r[i].id < r[j].id
  <2>1. f[i] < f[j]
    BY <1>3 DEF Picks, Increasing
  <2>2. s[f[i]].id < s[f[j]].id
    BY <1>2, <2>1 DEF Ascending
  <2>3. QED
    BY <1>1, <2>2
<1>4. QED
  BY <1>3 DEF Ascending

LEMMA Envelopes ==
  ASSUME NEW s \in Seq(Envelope)
  PROVE  \A i \in 1..Len(s) : s[i] \in Envelope /\ s[i].id \in Nat
<1>1. \A i \in 1..Len(s) : s[i] \in Envelope
  BY ElementOfSeq
<1>2. QED
  BY <1>1 DEF Envelope

\* Two lists in order, the second one newer.
LEMMA AscendingConcat ==
  ASSUME NEW s \in Seq(Envelope), Ascending(s), NEW r \in Seq(Envelope), Ascending(r),
         \A i \in 1..Len(s), j \in 1..Len(r) : s[i].id < r[j].id
  PROVE  Ascending(s \o r)
<1>1. /\ Len(s) \in Nat /\ Len(r) \in Nat
      /\ Len(s \o r) = Len(s) + Len(r)
      /\ \A i \in 1..(Len(s) + Len(r)) :
            (s \o r)[i] = IF i <= Len(s) THEN s[i] ELSE r[i - Len(s)]
  BY LenProperties, ConcatProperties
<1>2. SUFFICES ASSUME NEW i \in 1..(Len(s) + Len(r)), NEW j \in 1..(Len(s) + Len(r)), i < j
               PROVE  (s \o r)[i].id < (s \o r)[j].id
  BY <1>1 DEF Ascending
<1>3. CASE j <= Len(s)
  <2>1. i \in 1..Len(s) /\ j \in 1..Len(s) /\ i <= Len(s)
    BY <1>1, <1>2, <1>3
  <2>2. (s \o r)[i] = s[i] /\ (s \o r)[j] = s[j]
    BY <1>1, <1>3, <2>1
  <2>3. QED
    BY <1>2, <2>1, <2>2 DEF Ascending
<1>4. CASE i <= Len(s) /\ ~(j <= Len(s))
  <2>1. i \in 1..Len(s) /\ j - Len(s) \in 1..Len(r)
    BY <1>1, <1>2, <1>4
  <2>2. (s \o r)[i] = s[i] /\ (s \o r)[j] = r[j - Len(s)]
    BY <1>1, <1>4
  <2>3. QED
    BY <2>1, <2>2
<1>5. CASE ~(i <= Len(s))
  <2>1. /\ i - Len(s) \in 1..Len(r) /\ j - Len(s) \in 1..Len(r)
        /\ i - Len(s) < j - Len(s) /\ ~(j <= Len(s))
    BY <1>1, <1>2, <1>5
  <2>2. (s \o r)[i] = r[i - Len(s)] /\ (s \o r)[j] = r[j - Len(s)]
    BY <1>1, <1>5, <2>1
  <2>3. QED
    BY <2>1, <2>2 DEF Ascending
<1>6. QED
  BY <1>1, <1>2, <1>3, <1>4, <1>5

\* What was handed to a client and then what waits for it: all for the
\* client, and in order.
LEMMA InboxInOrder ==
  ASSUME TypeOK, InOrder, NEW c \in Clients, NEW inbox,
         inbox = fetched[c] \o Retain(messages, To(c))
  PROVE  /\ inbox \in Seq(Envelope)
         /\ Ascending(inbox)
         /\ \A i \in 1..Len(inbox) : inbox[i].to = c /\ inbox[i].id <= sent
<1>1. To(c) \in SUBSET (1..Len(messages)) /\ messages \in Seq(Envelope)
      /\ fetched[c] \in Seq(Envelope)
  BY DEF To, TypeOK
<1>2. PICK r \in Seq(Envelope) : r = Retain(messages, To(c))
  BY <1>1, RetainPicks
<1>3. PICK f : Picks(r, messages, To(c), f)
  BY <1>1, <1>2, RetainPicks
<1>4. /\ Ascending(r)
      /\ \A i \in 1..Len(r) : f[i] \in To(c) /\ f[i] \in 1..Len(messages)
                              /\ r[i] = messages[f[i]]
  <2>1. Ascending(messages)
    BY DEF InOrder
  <2>2. PICK s \in Seq(Envelope) : s = messages
    BY <1>1
  <2>3. PICK K \in SUBSET (1..Len(s)) : K = To(c)
    BY <1>1, <2>2
  <2>4. Picks(r, s, K, f) /\ Ascending(s)
    BY <1>3, <2>1, <2>2, <2>3
  <2>5. Ascending(r)
    BY <2>4, AscendingPicks
  <2>p. \A i \in 1..Len(r) : f[i] \in K /\ f[i] \in 1..Len(s) /\ r[i] = s[f[i]]
    BY <2>4 DEF Picks
  <2>6. QED
    BY <2>2, <2>3, <2>5, <2>p
<1>5. \A i \in 1..Len(fetched[c]), j \in 1..Len(r) : fetched[c][i].id < r[j].id
  BY <1>4 DEF InOrder
<1>6. Ascending(fetched[c] \o r)
  BY <1>1, <1>4, <1>5, AscendingConcat DEF InOrder
<1>7. /\ inbox \in Seq(Envelope)
      /\ Len(inbox) = Len(fetched[c]) + Len(r)
      /\ Len(fetched[c]) \in Nat /\ Len(r) \in Nat
      /\ \A i \in 1..(Len(fetched[c]) + Len(r)) :
            inbox[i] = IF i <= Len(fetched[c]) THEN fetched[c][i] ELSE r[i - Len(fetched[c])]
  BY <1>1, <1>2, ConcatProperties, LenProperties
<1>8. ASSUME NEW i \in 1..Len(inbox)
      PROVE  inbox[i].to = c /\ inbox[i].id <= sent
  <2>1. CASE i <= Len(fetched[c])
    <3>1. i \in 1..Len(fetched[c]) /\ inbox[i] = fetched[c][i]
      BY <1>7, <2>1
    <3>2. QED
      BY <3>1 DEF InOrder
  <2>2. CASE ~(i <= Len(fetched[c]))
    <3>1. i - Len(fetched[c]) \in 1..Len(r) /\ inbox[i] = r[i - Len(fetched[c])]
      BY <1>7, <2>2
    <3>2. PICK j \in 1..Len(r) : inbox[i] = r[j]
      BY <3>1
    <3>3. inbox[i] = messages[f[j]] /\ f[j] \in To(c) /\ f[j] \in 1..Len(messages)
      BY <1>4, <3>2
    <3>4. QED
      BY <3>3 DEF InOrder, To
  <2>3. QED
    BY <2>1, <2>2
<1>9. QED
  BY <1>2, <1>6, <1>7, <1>8

\* What is left of the messages, when some are removed.
LEMMA KeptMessages ==
  ASSUME TypeOK, InOrder, NEW K \in SUBSET (1..Len(messages)), messages' = Retain(messages, K)
  PROVE  /\ Ascending(messages')
         /\ \E f : \A i \in 1..Len(messages') :
               f[i] \in K /\ f[i] \in 1..Len(messages) /\ messages'[i] = messages[f[i]]
<1>1. PICK s \in Seq(Envelope) : s = messages
  BY DEF TypeOK
<1>2. PICK r \in Seq(Envelope) : r = messages'
  BY FewerMessages
<1>3. PICK f : Picks(r, s, K, f)
  <2>1. \E f : Picks(messages', messages, K, f)
    BY FewerMessages
  <2>2. QED
    BY <1>1, <1>2, <2>1
<1>4. K \subseteq 1..Len(s) /\ Ascending(s)
  BY <1>1 DEF InOrder
<1>5. Ascending(r)
  BY <1>3, <1>4, AscendingPicks
<1>6. \A i \in 1..Len(r) : f[i] \in K /\ f[i] \in 1..Len(s) /\ r[i] = s[f[i]]
  BY <1>3, <1>4 DEF Picks
<1>7. QED
  BY <1>1, <1>2, <1>5, <1>6

\* Removing messages, and handing out nothing.
LEMMA OrderFewer ==
  ASSUME TypeOK, InOrder, NEW K \in SUBSET (1..Len(messages)), messages' = Retain(messages, K),
         UNCHANGED <<fetched, sent>>
  PROVE  InOrder'
<1>1. PICK f : \A i \in 1..Len(messages') : f[i] \in K /\ f[i] \in 1..Len(messages)
                                             /\ messages'[i] = messages[f[i]]
  BY KeptMessages
<1>2. Ascending(messages')
  BY KeptMessages
<1>3. \A c \in Clients, i \in 1..Len(messages') :
          messages'[i].to = c => f[i] \in To(c)
  BY <1>1 DEF To
<1>4. \A i \in 1..Len(messages') : messages'[i].id <= sent
  BY <1>1 DEF InOrder
<1>5. ASSUME NEW c \in Clients, NEW i \in 1..Len(fetched[c]),
             NEW j \in 1..Len(messages'), messages'[j].to = c
      PROVE  fetched[c][i].id < messages'[j].id
  BY <1>1, <1>3, <1>5 DEF InOrder
<1>6. QED
  BY <1>2, <1>4, <1>5 DEF InOrder, Ascending, To

LEMMA OrderTask ==
  ASSUME RegistryInv, NEW p \in Tasks, TaskStep(p)
  PROVE  InOrder'
<1> USE DEF RegistryInv
<1>1. CASE PruneMessages(p)
  BY <1>1, OrderFewer DEF PruneMessages, AllBut, history
<1>2. CASE Add(p)
  <2> DEFINE e == [id |-> sent + 1, from |-> loc[p].me, to |-> loc[p].to]
  <2>1. pc[p] = "add" /\ messages' = Append(messages, e) /\ sent' = sent + 1
        /\ UNCHANGED fetched
    BY <1>2 DEF Add, From
  <2>2. e \in Envelope /\ e.id = sent + 1
    BY <2>1 DEF TasksOK, TypeOK, Envelope
  <2> HIDE DEF e
  <2>3. /\ Len(messages') = Len(messages) + 1 /\ Len(messages) \in Nat
        /\ \A i \in 1..Len(messages) : messages'[i] = messages[i]
        /\ messages'[Len(messages) + 1] = e
    BY <2>1, <2>2, AppendProperties, LenProperties DEF TypeOK
  <2>4. sent \in Nat /\ \A i \in 1..Len(messages) : messages[i].id \in Nat
    BY Envelopes DEF TypeOK
  <2>5. \A c \in Clients : \A i \in 1..Len(fetched[c]) : fetched[c][i].id \in Nat
    BY Envelopes DEF TypeOK
  <2>6. \A i \in 1..Len(messages') : \/ i \in 1..Len(messages) /\ messages'[i] = messages[i]
                                     \/ i = Len(messages) + 1 /\ messages'[i] = e
    BY <2>3
  <2>7. Ascending(messages')
    <3>1. ASSUME NEW i \in 1..Len(messages'), NEW j \in 1..Len(messages'), i < j
          PROVE  messages'[i].id < messages'[j].id
      <4>1. i \in 1..Len(messages) /\ messages'[i] = messages[i]
        BY <2>3, <2>6, <3>1
      <4>2. CASE j = Len(messages) + 1 /\ messages'[j] = e
        <5>1. messages[i].id <= sent /\ messages[i].id \in Nat
          BY <2>4, <4>1 DEF InOrder
        <5>2. QED
          BY <2>2, <2>4, <4>1, <4>2, <5>1
      <4>3. CASE j \in 1..Len(messages) /\ messages'[j] = messages[j]
        BY <3>1, <4>1, <4>3 DEF InOrder, Ascending
      <4>4. QED
        BY <2>6, <4>2, <4>3
    <3>2. QED
      BY <3>1 DEF Ascending
  <2>8. \A i \in 1..Len(messages') : messages'[i].id <= sent'
    BY <2>1, <2>2, <2>4, <2>6 DEF InOrder
  <2>9. ASSUME NEW c \in Clients, NEW i \in 1..Len(fetched[c])
        PROVE  /\ fetched[c][i].to = c /\ fetched[c][i].id <= sent'
               /\ \A j \in 1..Len(messages') :
                     messages'[j].to = c => fetched[c][i].id < messages'[j].id
    <3>1. fetched[c][i].id <= sent /\ fetched[c][i].id \in Nat /\ fetched[c][i].to = c
      BY <2>5 DEF InOrder
    <3>2. \A j \in 1..Len(messages) :
             messages[j].to = c => fetched[c][i].id < messages[j].id
      BY DEF InOrder, To
    <3>3. QED
      BY <2>1, <2>2, <2>4, <2>6, <3>1, <3>2
  <2>10. QED
    BY <2>1, <2>7, <2>8, <2>9 DEF InOrder, Ascending, To
<1>3. CASE Drain(p)
  <2>1. PICK c \in Clients : c = loc[p].me
    BY <1>3 DEF Drain, From, TasksOK, TypeOK
  <2> DEFINE inbox == fetched[c] \o Retain(messages, To(c))
  <2>2. /\ fetched' = [fetched EXCEPT ![c] = inbox]
        /\ messages' = Retain(messages, AllBut(To(c)))
        /\ UNCHANGED sent
    BY <1>3, <2>1 DEF Drain
  <2>3. /\ Ascending(inbox)
        /\ \A i \in 1..Len(inbox) : inbox[i].to = c /\ inbox[i].id <= sent
    BY InboxInOrder
  <2> HIDE DEF inbox
  <2>4. fetched'[c] = inbox /\ \A d \in Clients : d # c => fetched'[d] = fetched[d]
    BY <2>2 DEF TypeOK
  <2>5. PICK K \in SUBSET (1..Len(messages)) : K = AllBut(To(c))
    BY DEF AllBut
  <2>k. messages' = Retain(messages, K)
    BY <2>2, <2>5
  <2>6. PICK f : \A i \in 1..Len(messages') : f[i] \in K /\ f[i] \in 1..Len(messages)
                                               /\ messages'[i] = messages[f[i]]
    BY <2>k, KeptMessages
  <2>a. Ascending(messages')
    BY <2>k, KeptMessages
  <2>7. \A i \in 1..Len(messages') : messages'[i].to # c /\ messages'[i].id <= sent
    BY <2>5, <2>6 DEF AllBut, To, InOrder
  <2>8. ASSUME NEW d \in Clients, d # c, NEW i \in 1..Len(fetched[d]),
               NEW j \in 1..Len(messages'), messages'[j].to = d
        PROVE  fetched[d][i].id < messages'[j].id
    <3>1. f[j] \in To(d)
      BY <2>6, <2>8 DEF To
    <3>2. QED
      BY <2>6, <3>1 DEF InOrder
  <2>9. \A d \in Clients : Ascending(fetched'[d])
    BY <2>3, <2>4 DEF InOrder
  <2>10. ASSUME NEW d \in Clients, NEW i \in 1..Len(fetched'[d])
         PROVE  /\ fetched'[d][i].to = d /\ fetched'[d][i].id <= sent'
                /\ \A j \in 1..Len(messages') :
                      messages'[j].to = d => fetched'[d][i].id < messages'[j].id
    BY <2>2, <2>3, <2>4, <2>7, <2>8 DEF InOrder
  <2>11. QED
    BY <2>2, <2>a, <2>7, <2>9, <2>10 DEF InOrder, Ascending, To
<1>4. CASE UNCHANGED <<messages, fetched, sent>>
  BY <1>4 DEF InOrder, Ascending, To
<1>5. QED
  BY <1>1, <1>2, <1>3, <1>4 DEF TaskStep, Arrives, Start, Step, PruneClients, Count, Insert,
     Verify, Update, Reply, Stops, repo, history

-----------------------------------------------------------------------------
(* The messages of clients that have gone.                                 *)

\* Every message was there before, and if a task leaves "prune_msgs" what it
\* was to prune has been pruned or spared.
LEMMA OrphanKept ==
  ASSUME RegistryInv, NEW p \in Tasks, OthersStay(p),
         late \subseteq late', spared \subseteq spared', gone' = gone,
         \A i \in 1..Len(messages') : \E k \in 1..Len(messages) :
            /\ messages'[i] = messages[k]
            /\ pc[p] = "prune_msgs" =>
                  {messages[k].from, messages[k].to} \cap loc[p].stale \subseteq spared'
  PROVE  OrphanExcused'
<1>1. SUFFICES ASSUME NEW i \in 1..Len(messages'),
                      NEW c \in {messages'[i].from, messages'[i].to} \cap gone,
                      c \notin spared'
               PROVE  \/ messages'[i].id \in late'
                      \/ \E q \in Tasks : pc'[q] = "prune_msgs" /\ c \in loc'[q].stale
  BY DEF OrphanExcused, From
<1>2. PICK k \in 1..Len(messages) :
         /\ messages'[i] = messages[k]
         /\ pc[p] = "prune_msgs" =>
               {messages[k].from, messages[k].to} \cap loc[p].stale \subseteq spared'
  OBVIOUS
<1>3. \/ messages[k].id \in late
      \/ \E q \in Tasks : pc[q] = "prune_msgs" /\ c \in loc[q].stale
  BY <1>1, <1>2 DEF RegistryInv, OrphanExcused, From
<1>4. ASSUME NEW q \in Tasks, pc[q] = "prune_msgs", c \in loc[q].stale
      PROVE  q # p
  BY <1>1, <1>2, <1>4
<1>5. QED
  BY <1>2, <1>3, <1>4 DEF OthersStay

LEMMA OrphanTask ==
  ASSUME RegistryInv, NEW p \in Tasks, TaskStep(p)
  PROVE  OrphanExcused'
<1>t. OthersStay(p)
  BY TypeTask
<1>i. TypeOK /\ TasksOK /\ InOrder
  BY DEF RegistryInv
\* The messages left in the store.
<1>k. ASSUME NEW K \in SUBSET (1..Len(messages)), messages' = Retain(messages, K)
      PROVE  \A i \in 1..Len(messages') : \E k \in K : k \in 1..Len(messages)
                                                       /\ messages'[i] = messages[k]
  BY <1>i, <1>k, KeptMessages
<1>1. CASE PruneClients(p)
  <2>1. pc[p] = "prune_clients" /\ gone' = gone \cup Stale /\ UNCHANGED <<messages, late, spared>>
    BY <1>1 DEF PruneClients, From
  <2>2. (Stale # {} => pc'[p] = "prune_msgs") /\ loc'[p].stale = Stale
    BY <1>1, <1>i, PruneClientsEffect
  <2>3. SUFFICES ASSUME NEW i \in 1..Len(messages),
                        NEW c \in {messages[i].from, messages[i].to} \cap gone',
                        c \notin spared, messages[i].id \notin late
                 PROVE  \E q \in Tasks : pc'[q] = "prune_msgs" /\ c \in loc'[q].stale
    BY <2>1 DEF OrphanExcused, From
  <2>4. CASE c \in Stale
    BY <2>2, <2>4
  <2>5. CASE c \in gone
    <3>1. PICK q \in Tasks : pc[q] = "prune_msgs" /\ c \in loc[q].stale
      BY <2>3, <2>5 DEF RegistryInv, OrphanExcused, From
    <3>2. q # p
      BY <2>1, <3>1
    <3>3. QED
      BY <1>t, <3>1, <3>2 DEF OthersStay
  <2>6. QED
    BY <2>1, <2>4, <2>5
<1>2. CASE PruneMessages(p)
  <2>1. /\ messages' = Retain(messages, AllBut(Among(loc[p].stale)))
        /\ UNCHANGED <<gone, late, spared>>
    BY <1>2 DEF PruneMessages, history
  <2>2. \A i \in 1..Len(messages') : \E k \in 1..Len(messages) :
           messages'[i] = messages[k] /\ k \notin Among(loc[p].stale)
    <3>1. PICK K \in SUBSET (1..Len(messages)) : K = AllBut(Among(loc[p].stale))
      BY DEF AllBut
    <3>2. messages' = Retain(messages, K)
      BY <2>1, <3>1
    <3>3. \A i \in 1..Len(messages') : \E k \in K : k \in 1..Len(messages)
                                                     /\ messages'[i] = messages[k]
      BY <1>k, <3>2
    <3>4. QED
      BY <3>1, <3>3 DEF AllBut
  <2>3. \A k \in 1..Len(messages) : k \notin Among(loc[p].stale) =>
           {messages[k].from, messages[k].to} \cap loc[p].stale = {}
    BY DEF Among
  <2>4. \A i \in 1..Len(messages') : \E k \in 1..Len(messages) :
           /\ messages'[i] = messages[k]
           /\ {messages[k].from, messages[k].to} \cap loc[p].stale \subseteq spared'
    BY <2>2, <2>3
  <2>5. late \subseteq late' /\ spared \subseteq spared' /\ gone' = gone
    BY <2>1
  <2>6. QED
    BY <1>t, <2>4, <2>5, OrphanKept
<1>3. CASE Add(p)
  <2> DEFINE e == [id |-> sent + 1, from |-> loc[p].me, to |-> loc[p].to]
  <2>1. /\ pc[p] = "add" /\ messages' = Append(messages, e)
        /\ late' = IF {loc[p].me, loc[p].to} \cap gone = {} THEN late ELSE late \cup {sent + 1}
        /\ UNCHANGED <<gone, spared>>
    BY <1>3 DEF Add, From
  <2>2. e.id = sent + 1 /\ e.from = loc[p].me /\ e.to = loc[p].to
    OBVIOUS
  <2>3. e \in Envelope
    BY <1>i, <2>1 DEF TasksOK, TypeOK, Envelope
  <2> HIDE DEF e
  <2>4. \A i \in 1..Len(messages') : \/ i \in 1..Len(messages) /\ messages'[i] = messages[i]
                                     \/ messages'[i] = e
    BY <1>i, <2>1, <2>3, AppendProperties, LenProperties DEF TypeOK
  <2>5. SUFFICES ASSUME NEW i \in 1..Len(messages'),
                        NEW c \in {messages'[i].from, messages'[i].to} \cap gone,
                        c \notin spared, messages'[i].id \notin late'
                 PROVE  \E q \in Tasks : pc'[q] = "prune_msgs" /\ c \in loc'[q].stale
    BY <2>1 DEF OrphanExcused, From
  <2>6. messages'[i] # e
    BY <2>1, <2>2, <2>5
  <2>7. i \in 1..Len(messages) /\ messages'[i] = messages[i] /\ messages[i].id \notin late
    BY <2>1, <2>4, <2>5, <2>6
  <2>8. PICK q \in Tasks : pc[q] = "prune_msgs" /\ c \in loc[q].stale
    BY <2>5, <2>7 DEF RegistryInv, OrphanExcused, From
  <2>9. q # p
    BY <2>1, <2>8
  <2>10. QED
    BY <1>t, <2>8, <2>9 DEF OthersStay
<1>4. CASE Drain(p)
  <2>1. pc[p] = "drain" /\ messages' = Retain(messages, AllBut(To(loc[p].me)))
        /\ UNCHANGED <<gone, late, spared>>
    BY <1>4 DEF Drain, From
  <2>2. \A i \in 1..Len(messages') : \E k \in 1..Len(messages) : messages'[i] = messages[k]
    BY <1>k, <2>1 DEF AllBut
  <2>3. QED
    BY <1>t, <2>1, <2>2, OrphanKept
<1>5. CASE Stops(p)
  <2>1. /\ spared' = IF pc[p] = "prune_msgs" THEN spared \cup loc[p].stale ELSE spared
        /\ UNCHANGED <<messages, gone, late>>
    BY <1>5 DEF Stops, From, repo
  <2>2. QED
    BY <1>t, <2>1, OrphanKept
<1>6. CASE Arrives(p) \/ Count(p) \/ Insert(p) \/ Verify(p) \/ Update(p) \/ Reply(p)
  <2>1. UNCHANGED <<messages, gone, late, spared>> /\ pc[p] # "prune_msgs"
    BY <1>6 DEF Arrives, Start, Count, Insert, Verify, Update, Reply, From, repo, history
  <2>2. QED
    BY <1>t, <2>1, OrphanKept
<1>7. QED
  BY <1>1, <1>2, <1>3, <1>4, <1>5, <1>6 DEF TaskStep, Step

-----------------------------------------------------------------------------
(* The steps that are nobody's.                                            *)

\* Every task is idle again, and the store is empty.
LEMMA RestartStep ==
  ASSUME RegistryInv, Restart, UNCHANGED env
  PROVE  RegistryInv'
<1> USE DEF RegistryInv
<1>1. /\ clients' = [c \in Clients |-> NoRecord] /\ messages' = <<>>
      /\ pc' = [p \in Tasks |-> "idle"] /\ loc' = [p \in Tasks |-> NoLoc]
      /\ gone' = gone \cup {c \in Clients : Live(c)}
      /\ faults' \in Nat
      /\ UNCHANGED <<env, now, drawn, sent, fetched, late, spared>>
  BY DEF Restart, Fault, TypeOK
<1>2. messages' \in Seq(Envelope) /\ Len(messages') = 0
  BY <1>1
<1>3. TypeOK'
  <2>1. clients' \in [Clients -> ClientRecord]
    BY <1>1 DEF ClientRecord, NoRecord
  <2>2. pc' \in [Tasks -> PCs] /\ loc' \in [Tasks -> LocRecord]
    BY <1>1, NoLocType DEF PCs
  <2>3. gone' \subseteq drawn' /\ spared' \subseteq gone'
    BY <1>1 DEF TypeOK, ClientsOK
  <2>4. QED
    BY <1>1, <1>2, <2>1, <2>2, <2>3 DEF TypeOK
<1>4. TasksOK'
  BY <1>1 DEF TasksOK
<1>5. ClientsOK'
  BY <1>1 DEF ClientsOK, Registering, Live, NoRecord
<1>6. InOrder'
  <2>1. 1..Len(messages') = {}
    BY <1>2
  <2>2. \A c \in Clients : To(c)' = {}
    BY <2>1 DEF To
  <2>3. QED
    BY <1>1, <2>1, <2>2 DEF InOrder, Ascending
<1>7. OrphanExcused'
  BY <1>2 DEF OrphanExcused
<1>8. QED
  BY <1>3, <1>4, <1>5, <1>6, <1>7

\* The clock moves, or nothing does.
LEMMA ClockStep ==
  ASSUME RegistryInv, now' \in Nat,
         UNCHANGED <<env, clients, messages, pc, loc, faults, history>>
  PROVE  RegistryInv'
<1> USE DEF RegistryInv, history
<1>1. TypeOK'
  BY DEF TypeOK
<1>2. TasksOK'
  BY DEF TasksOK
<1>3. ClientsOK'
  BY DEF ClientsOK, Registering, Live
<1>4. InOrder'
  BY DEF InOrder, Ascending, To
<1>5. OrphanExcused'
  BY DEF OrphanExcused, From
<1>6. QED
  BY <1>1, <1>2, <1>3, <1>4, <1>5

LEMMA TaskStepKeeps ==
  ASSUME RegistryInv, NEW p \in Tasks, TaskStep(p)
  PROVE  RegistryInv'
BY TypeTask, ClientsTask, OrderTask, OrphanTask DEF RegistryInv

LEMMA RegistryStep ==
  ASSUME RegistryInv, [Next]_vars
  PROVE  RegistryInv'
<1> USE DEF RegistryInv
<1>1. ASSUME NEW p \in Tasks, Request(p) \/ Step(p) \/ Reply(p) \/ Abort(p), UNCHANGED env
      PROVE  TaskStep(p)
  <2>1. Request(p) => Arrives(p) /\ faults' = faults
    BY DEF Request, Arrives, Start
  <2>2. Abort(p) => Stops(p) /\ faults' = faults + 1
    BY DEF Abort, Stops, Fault
  <2>3. Step(p) \/ Reply(p) => faults' = faults
    BY DEF Step, PruneClients, PruneMessages, Count, Insert, Verify, Update, Add, Drain, Reply
  <2>4. QED
    BY <1>1, <2>1, <2>2, <2>3 DEF TaskStep, TypeOK
<1>2. CASE \E p \in Tasks : Request(p) \/ Step(p) \/ Reply(p) \/ Abort(p)
  <2>1. PICK p \in Tasks : Request(p) \/ Step(p) \/ Reply(p) \/ Abort(p)
    BY <1>2
  <2>2. UNCHANGED env
    BY <2>1 DEF Next, vars
  <2>3. QED
    BY <1>1, <2>1, <2>2, TaskStepKeeps
<1>3. QED
  BY <1>2, RestartStep, ClockStep DEF Next, Tick, vars, repo, history, TypeOK

-----------------------------------------------------------------------------
(* Theorems.                                                               *)

THEOREM RegistryInductive == Spec => []RegistryInv
<1>1. Init => RegistryInv
  BY RegistryInit
<1>2. RegistryInv /\ [Next]_vars => RegistryInv'
  BY RegistryStep
<1>3. QED
  BY <1>1, <1>2, PTL DEF Spec

\* The repository and the handlers' variables keep their types.
THEOREM RegistryTypes == Spec => []TypeOK
<1>1. RegistryInv => TypeOK
  BY DEF RegistryInv
<1>2. QED
  BY <1>1, RegistryInductive, PTL

\* No insert_client and no heartbeat that was verified before a prune brings
\* a pruned client back.
THEOREM PrunedForGood == Spec => []PrunedStaysPruned
<1>1. RegistryInv => PrunedStaysPruned
  BY DEF RegistryInv, TypeOK, ClientsOK, PrunedStaysPruned
<1>2. QED
  BY <1>1, RegistryInductive, PTL

\* get_messages_for_client hands every message out at most once, to its
\* addressee, in the order of add_message.
THEOREM HandedOutOnceInOrder == Spec => []FetchedOnceInOrder
<1>1. ASSUME RegistryInv, NEW c \in Clients, NEW inbox,
             inbox = fetched[c] \o Retain(messages, To(c)), NEW i \in 1..Len(inbox)
      PROVE  inbox[i].to = c /\ (i > 1 => inbox[i - 1].id < inbox[i].id)
  <2>1. /\ inbox \in Seq(Envelope)
        /\ Ascending(inbox)
        /\ \A j \in 1..Len(inbox) : inbox[j].to = c /\ inbox[j].id <= sent
    BY <1>1, InboxInOrder DEF RegistryInv
  <2>2. Len(inbox) \in Nat
    BY <2>1, LenProperties
  <2>3. i > 1 => i - 1 \in 1..Len(inbox) /\ i - 1 < i
    BY <2>2
  <2>4. QED
    BY <2>1, <2>3 DEF Ascending
<1>2. RegistryInv => FetchedOnceInOrder
  BY <1>1 DEF FetchedOnceInOrder
<1>3. QED
  BY <1>2, RegistryInductive, PTL

\* A message that names a pruned client is about to be removed, or came in
\* behind the prune, or was spared by a dropped task.
THEOREM OrphansExplained == Spec => []OrphanExcused
<1>1. RegistryInv => OrphanExcused
  BY DEF RegistryInv
<1>2. QED
  BY <1>1, RegistryInductive, PTL

\* run_server never serves over a plain Redis connection unless the operator
\* said so, and never asks broadcast::channel for a capacity of 0, whatever
\* the environment variables hold.
THEOREM SafeStart == Spec => []StartsSafely
<1> DEFINE Started == env \in Environments /\ Serves(env)
<1>1. Started => StartsSafely
  <2>1. ASSUME Started
        PROVE  env.redis_url # "rediss" => env.require_tls = "no"
    <3>1. env.require_tls \in {"yes", "no", Unset, Garbage}
      BY <2>1, EnvironmentsAssumption DEF RawFlag
    <3>2. Flag(env.require_tls, TRUE) => env.redis_url = "rediss"
      BY <2>1 DEF Serves, FromEnv
    <3>3. env.require_tls # "no" => Flag(env.require_tls, TRUE)
      BY DEF Flag
    <3>4. QED
      BY <3>2, <3>3
  <2>2. config.ws_push_buffer_capacity = Capacity(env.capacity)
    BY DEF config, FromEnv
  <2>3. Capacity(env.capacity) > 0
    BY DefaultsAssumption DEF Capacity, Number
  <2>4. QED
    BY <2>1, <2>2, <2>3 DEF StartsSafely
<1>2. Init => Started
  BY DEF Init, EnvInit
<1>3. Started /\ [Next]_vars => Started'
  BY DEF Next, vars
<1>4. QED
  BY <1>1, <1>2, <1>3, PTL DEF Spec
=============================================================================
