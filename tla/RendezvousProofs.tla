-------------------------- MODULE RendezvousProofs --------------------------
(***************************************************************************)
(* Proofs about Rendezvous, for any number of tasks, mailboxes and tokens, *)
(* any TTLs and any number of faults.                                      *)
(*                                                                         *)
(* The safety invariants of Rendezvous are not inductive: they speak of    *)
(* the keys in Redis, and what a step writes there comes from the local    *)
(* variables of a task that read the store several commands earlier.  The  *)
(* invariants below add what those copies are still good for.              *)
(***************************************************************************)
EXTENDS Rendezvous, SequenceTheorems, TLAPS

InitPCs == {"init_meta", "init_clear", "init_rdv"}

\* A task has set the local variables that its next command uses.
LocalsSet ==
    \A p \in Requests :
        /\ pc[p] \in InitPCs => loc[p].from # None /\ loc[p].tok # None
        /\ pc[p] \in {"join_get", "join_del", "join_meta", "join_save_i",
                      "join_save_r", "join_clear"}
            => loc[p].tok # None
        /\ pc[p] \in {"join_del", "join_meta"} => loc[p].to # None
        /\ pc[p] \in {"join_save_i", "join_save_r", "join_clear", "llen", "push", "expire"}
            => loc[p].from # None /\ loc[p].to # None
        /\ pc[p] \in {"send_meta", "close_meta", "close_own"} => loc[p].from # None
        /\ pc[p] = "close_peer" => loc[p].to # None

TypeInv == TypeOK /\ LocalsSet

-----------------------------------------------------------------------------
(* What the helpers of the specification do to the local variables.        *)

\* Deadlines are times.
LEMMA Deadlines ==
  ASSUME TypeOK
  PROVE  /\ now + MailboxTTL \in Nat
         /\ now + RendezvousTTL \in Nat
         /\ now + MailboxTTL > now
BY TTLAssumption DEF TypeOK

\* SaveMeta writes a well-formed record.
LEMMA SaveMetaType ==
  ASSUME TypeOK, NEW m, NEW p \in Mailboxes \cup {None}, NEW e \in Nat, SaveMeta(m, p, e)
  PROVE  meta' \in [Mailboxes -> MetaRecord]
<1> DEFINE rec == [live |-> TRUE, peer |-> p, expires |-> e, dead |-> now + MailboxTTL]
<1>1. rec \in MetaRecord
  BY Deadlines DEF MetaRecord
<1> HIDE DEF rec
<1>2. QED
  BY <1>1 DEF SaveMeta, rec, TypeOK

\* A DEL leaves well-formed lists and records.
LEMMA ClearMessagesType ==
  ASSUME TypeOK, NEW m, ClearMessages(m)
  PROVE  msgs' \in [Mailboxes -> Seq(Message)] /\ listDead' \in [Mailboxes -> Nat]
<1>1. <<>> \in Seq(Message)
  BY EmptySeq
<1>2. QED
  BY <1>1 DEF ClearMessages, TypeOK

LEMMA NoMetaType == NoMeta \in MetaRecord /\ NoMeta.peer = None /\ NoMeta.live = FALSE
BY DEF NoMeta, MetaRecord

LEMMA DeleteMailboxType ==
  ASSUME TypeOK, NEW m, DeleteMailbox(m)
  PROVE  /\ meta' \in [Mailboxes -> MetaRecord]
         /\ msgs' \in [Mailboxes -> Seq(Message)]
         /\ listDead' \in [Mailboxes -> Nat]
BY ClearMessagesType, NoMetaType DEF DeleteMailbox, TypeOK

\* The local variables of a request that names a mailbox.
LEMMA NoLocFrom ==
  ASSUME NEW m \in Mailboxes
  PROVE  /\ [NoLoc EXCEPT !.from = m] \in LocRecord
         /\ [NoLoc EXCEPT !.from = m].from = m
         /\ [NoLoc EXCEPT !.from = m].to = None
         /\ [NoLoc EXCEPT !.from = m].tok = None
BY DEF NoLoc, LocRecord

\* A task that reads a mailbox id into "to" keeps its other variables, and
\* leaves those of the other tasks alone.
LEMMA SetTo ==
  ASSUME TypeOK, NEW p \in Requests, NEW x \in Mailboxes \cup {None},
         loc' = [loc EXCEPT ![p].to = x]
  PROVE  /\ loc' \in [Requests -> LocRecord]
         /\ loc'[p].to = x
         /\ loc'[p].tok = loc[p].tok
         /\ loc'[p].from = loc[p].from
         /\ loc'[p].expires = loc[p].expires
         /\ \A q \in Requests : q # p => loc'[q] = loc[q]
BY DEF TypeOK, LocRecord

\* The same for the list length read into "seq".
LEMMA SetSeq ==
  ASSUME TypeOK, NEW p \in Requests, NEW n \in Nat, loc' = [loc EXCEPT ![p].seq = n]
  PROVE  /\ loc' \in [Requests -> LocRecord]
         /\ loc'[p].to = loc[p].to
         /\ loc'[p].tok = loc[p].tok
         /\ loc'[p].from = loc[p].from
         /\ loc'[p].expires = loc[p].expires
         /\ \A q \in Requests : q # p => loc'[q] = loc[q]
BY DEF TypeOK, LocRecord

\* The same for the responder's mailbox and the expiry a join has found.
LEMMA SetFromExpires ==
  ASSUME TypeOK, NEW p \in Requests, NEW r \in Mailboxes, NEW e \in Nat,
         loc' = [loc EXCEPT ![p].from = r, ![p].expires = e]
  PROVE  /\ loc' \in [Requests -> LocRecord]
         /\ loc'[p].to = loc[p].to
         /\ loc'[p].tok = loc[p].tok
         /\ loc'[p].from = r
         /\ loc'[p].expires = e
         /\ \A q \in Requests : q # p => loc'[q] = loc[q]
BY DEF TypeOK, LocRecord

\* A task that returns has no local variables any more.
LEMMA Returns ==
  ASSUME TypeOK, NEW p \in Requests, Return(p)
  PROVE  /\ loc' \in [Requests -> LocRecord]
         /\ pc' \in [Requests -> PCs]
         /\ pc'[p] = "idle"
         /\ loc'[p].tok = None
         /\ loc'[p].from = None
         /\ loc'[p].to = None
         /\ \A q \in Requests : q # p => loc'[q] = loc[q] /\ pc'[q] = pc[q]
BY DEF Return, NoLoc, TypeOK, LocRecord, PCs

-----------------------------------------------------------------------------
(* Type correctness.                                                       *)

LEMMA TypeInvInit == Init => TypeInv
BY NoneAssumption DEF Init, TypeInv, TypeOK, LocalsSet, MetaRecord, NoMeta, Message,
   RdvRecord, NoRdv, LocRecord, NoLoc, PCs, InitPCs

LEMMA TypeInvStart ==
  ASSUME TypeInv, NEW p \in Requests, Start(p)
  PROVE  TypeInv'
<1> USE NoneAssumption DEF TypeInv, TypeOK
<1>1. ASSUME NEW t \in Tokens, NEW m \in Mailboxes, StartInit(p, t, m)
      PROVE  TypeInv'
  <2>1. loc' \in [Requests -> LocRecord]
    BY <1>1, Deadlines DEF StartInit, LocRecord
  <2>2. pc' \in [Requests -> PCs]
    BY <1>1 DEF StartInit, PCs
  <2>3. LocalsSet'
    BY <1>1 DEF StartInit, LocalsSet, InitPCs
  <2>4. QED
    BY <1>1, <2>1, <2>2, <2>3 DEF StartInit, store
<1>2. ASSUME NEW t \in Tokens, StartJoin(p, t)
      PROVE  TypeInv'
  <2>1. loc' \in [Requests -> LocRecord]
    BY <1>2 DEF StartJoin, NoLoc, LocRecord
  <2>2. pc' \in [Requests -> PCs]
    BY <1>2 DEF StartJoin, PCs
  <2>3. LocalsSet'
    BY <1>2 DEF StartJoin, LocalsSet, InitPCs, NoLoc
  <2>4. QED
    BY <1>2, <2>1, <2>2, <2>3 DEF StartJoin, store, history
<1>3. ASSUME NEW m \in Mailboxes, StartSend(p, m) \/ StartClose(p, m)
      PROVE  TypeInv'
  <2>1. PICK c \in {"send_meta", "close_meta"} : pc' = [pc EXCEPT ![p] = c]
    BY <1>3 DEF StartSend, StartClose
  <2>2. PICK l \in LocRecord : loc' = [loc EXCEPT ![p] = l] /\ l.from = m
    BY <1>3, NoLocFrom DEF StartSend, StartClose
  <2>3. LocalsSet'
    BY <2>1, <2>2 DEF LocalsSet, InitPCs
  <2>4. pc' \in [Requests -> PCs] /\ loc' \in [Requests -> LocRecord]
    BY <2>1, <2>2 DEF PCs
  <2>5. QED
    BY <1>3, <2>3, <2>4 DEF StartSend, StartClose, store, history
<1>4. QED
  BY <1>1, <1>2, <1>3 DEF Start

LEMMA TypeInvTask ==
  ASSUME TypeInv, NEW p \in Requests, Step(p) \/ Abort(p)
  PROVE  TypeInv'
<1> USE NoneAssumption DEF TypeInv, TypeOK
<1>0. /\ loc[p] \in LocRecord
      /\ loc[p].expires \in Nat
      /\ loc[p].from \in Mailboxes \cup {None}
      /\ loc[p].to \in Mailboxes \cup {None}
  BY DEF LocRecord
<1>1. CASE InitMeta(p)
  <2>1. meta' \in [Mailboxes -> MetaRecord]
    BY <1>0, <1>1, SaveMetaType DEF InitMeta
  <2>2. pc' \in [Requests -> PCs] /\ LocalsSet'
    BY <1>1 DEF InitMeta, Goto, PCs, LocalsSet, InitPCs
  <2>3. QED
    BY <1>1, <2>1, <2>2 DEF InitMeta, history
<1>2. CASE InitClear(p)
  <2>1. pc' \in [Requests -> PCs] /\ LocalsSet'
    BY <1>2 DEF InitClear, Goto, PCs, LocalsSet, InitPCs
  <2>2. msgs' \in [Mailboxes -> Seq(Message)] /\ listDead' \in [Mailboxes -> Nat]
    BY <1>2, ClearMessagesType DEF InitClear
  <2>3. QED
    BY <1>2, <2>1, <2>2 DEF InitClear, history
<1>3. CASE InitRdv(p)
  <2>1. rdv' \in [Tokens -> RdvRecord]
    BY <1>0, <1>3, Deadlines DEF InitRdv, RdvRecord
  <2>2. LocalsSet'
    BY ZenonT(60), <1>3, Returns DEF InitRdv, LocalsSet, InitPCs
  <2>3. advert' \in [Mailboxes -> Nat]
    BY <1>0, <1>3 DEF InitRdv
  <2>4. QED
    BY <1>3, <2>1, <2>2, <2>3, Returns DEF InitRdv
<1>4. CASE JoinGet(p)
  <2> DEFINE found == rdv[loc[p].tok].mbox
  <2>1. CASE found = None
    <3>1. Return(p)
      BY <1>4, <2>1 DEF JoinGet
    <3>2. LocalsSet'
      BY ZenonT(60), <3>1, Returns DEF LocalsSet, InitPCs
    <3>3. QED
      BY <1>4, <3>1, <3>2, Returns DEF JoinGet, store, history
  <2>2. CASE found # None
    <3>0. found # None
      BY <2>2
    <3>1. found \in Mailboxes \cup {None}
      BY <1>4, <2>2 DEF JoinGet, LocalsSet, LocRecord, RdvRecord
    <3>2. loc' = [loc EXCEPT ![p].to = found] /\ pc' = [pc EXCEPT ![p] = "join_del"]
      BY <1>4, <2>2 DEF JoinGet
    <3> HIDE DEF found
    <3>3. loc' \in [Requests -> LocRecord] /\ loc'[p].to = found /\ loc'[p].tok = loc[p].tok
          /\ \A q \in Requests : q # p => loc'[q] = loc[q]
      BY <3>1, <3>2, SetTo
    <3>4. pc' \in [Requests -> PCs] /\ LocalsSet'
      BY <1>4, <3>0, <3>2, <3>3 DEF JoinGet, PCs, LocalsSet, InitPCs
    <3>5. QED
      BY <1>4, <3>3, <3>4 DEF JoinGet, store, history
  <2>3. QED
    BY <2>1, <2>2
<1>5. CASE JoinDel(p)
  <2>1. pc' \in [Requests -> PCs] /\ LocalsSet'
    BY <1>5 DEF JoinDel, Goto, PCs, LocalsSet, InitPCs
  <2>2. QED
    BY <1>5, <2>1 DEF JoinDel, NoRdv, RdvRecord, history
<1>6. CASE JoinMeta(p)
  <2> DEFINE initiator == meta[loc[p].to]
  <2>1. CASE initiator.live /\ initiator.peer = None
    <3>1. PICK r \in Mailboxes :
             /\ Fresh(r)
             /\ session' = [session EXCEPT ![r] = loc[p].tok]
             /\ pc' = [pc EXCEPT ![p] = "join_save_i"]
             /\ loc' = [loc EXCEPT ![p].from = r, ![p].expires = initiator.expires]
      BY <1>6, <2>1 DEF JoinMeta
    <3>2. initiator.expires \in Nat
      BY <1>0, <1>6 DEF JoinMeta, LocalsSet, MetaRecord
    <3> HIDE DEF initiator
    <3>3. loc' \in [Requests -> LocRecord] /\ loc'[p].to = loc[p].to /\ loc'[p].tok = loc[p].tok
          /\ loc'[p].from = r /\ \A q \in Requests : q # p => loc'[q] = loc[q]
      BY <3>1, <3>2, SetFromExpires
    <3>4. pc' \in [Requests -> PCs]
      BY <3>1 DEF PCs
    <3>5. pc[p] = "join_meta"
      BY <1>6 DEF JoinMeta
    <3>6. LocalsSet'
      BY <3>1, <3>3, <3>5 DEF LocalsSet, InitPCs
    <3>7. session' \in [Mailboxes -> Tokens \cup {None}]
      BY <1>0, <3>1 DEF LocRecord
    <3>8. QED
      BY <1>6, <3>3, <3>4, <3>6, <3>7 DEF JoinMeta, store
  <2>2. CASE ~(initiator.live /\ initiator.peer = None)
    <3>1. Return(p) /\ UNCHANGED session
      BY <1>6, <2>2 DEF JoinMeta
    <3>2. LocalsSet'
      BY ZenonT(60), <3>1, Returns DEF LocalsSet, InitPCs
    <3>3. QED
      BY <1>6, <3>1, <3>2, Returns DEF JoinMeta, store
  <2>3. QED
    BY <2>1, <2>2
<1>7. CASE JoinSaveInitiator(p)
  <2>1. meta' \in [Mailboxes -> MetaRecord]
    BY <1>0, <1>7, SaveMetaType DEF JoinSaveInitiator
  <2>2. pc' \in [Requests -> PCs] /\ LocalsSet'
    BY <1>7 DEF JoinSaveInitiator, Goto, PCs, LocalsSet, InitPCs
  <2>3. QED
    BY <1>7, <2>1, <2>2 DEF JoinSaveInitiator, history
<1>8. CASE JoinSaveResponder(p)
  <2>1. meta' \in [Mailboxes -> MetaRecord]
    BY <1>0, <1>8, SaveMetaType DEF JoinSaveResponder
  <2>2. pc' \in [Requests -> PCs] /\ LocalsSet'
    BY <1>8 DEF JoinSaveResponder, Goto, PCs, LocalsSet, InitPCs
  <2>3. QED
    BY <1>8, <2>1, <2>2 DEF JoinSaveResponder, history
<1>9. CASE JoinClear(p)
  <2>1. pc' \in [Requests -> PCs] /\ LocalsSet'
    BY <1>9 DEF JoinClear, Goto, PCs, LocalsSet, InitPCs
  <2>2. msgs' \in [Mailboxes -> Seq(Message)] /\ listDead' \in [Mailboxes -> Nat]
    BY <1>9, ClearMessagesType DEF JoinClear
  <2>3. QED
    BY <1>9, <2>1, <2>2 DEF JoinClear, history
<1>10. CASE GetCount(p)
  <2> DEFINE n == Len(msgs[loc[p].to])
  <2>1. n \in Nat
    BY <1>0, <1>10, LenProperties DEF GetCount, Goto, LocalsSet
  <2>2. loc' = [loc EXCEPT ![p].seq = n]
    BY <1>10 DEF GetCount
  <2> HIDE DEF n
  <2>3. loc' \in [Requests -> LocRecord] /\ loc'[p].to = loc[p].to /\ loc'[p].from = loc[p].from
        /\ loc'[p].tok = loc[p].tok /\ \A q \in Requests : q # p => loc'[q] = loc[q]
    BY <2>1, <2>2, SetSeq
  <2>4. pc' \in [Requests -> PCs] /\ LocalsSet'
    BY <1>10, <2>3 DEF GetCount, Goto, PCs, LocalsSet, InitPCs
  <2>5. QED
    BY <1>10, <2>3, <2>4 DEF GetCount, store, history
<1>11. CASE Push(p)
  <2>1. [from |-> loc[p].from, seq |-> loc[p].seq] \in Message
    BY <1>0, <1>11 DEF Push, Goto, LocalsSet, Message, LocRecord
  <2>2. msgs' \in [Mailboxes -> Seq(Message)]
    BY <1>0, <1>11, <2>1, AppendProperties DEF Push
  <2>3. pc' \in [Requests -> PCs] /\ LocalsSet'
    BY <1>11 DEF Push, Goto, PCs, LocalsSet, InitPCs
  <2>4. QED
    BY <1>11, <2>2, <2>3 DEF Push, history
<1>12. CASE SetExpiry(p)
  <2>1. listDead' \in [Mailboxes -> Nat]
    BY <1>12, Deadlines DEF SetExpiry
  <2>2. advert' \in [Mailboxes -> Nat]
    BY <1>0, <1>12 DEF SetExpiry
  <2>3. LocalsSet'
    BY ZenonT(60), <1>12, Returns DEF SetExpiry, LocalsSet, InitPCs
  <2>4. QED
    BY <1>12, <2>1, <2>2, <2>3, Returns DEF SetExpiry
<1>13. CASE SendMeta(p) \/ CloseMeta(p)
  <2> DEFINE own == meta[loc[p].from]
  <2>1. CASE Return(p)
    <3>1. LocalsSet'
      BY <2>1, Returns DEF LocalsSet, InitPCs
    <3>2. QED
      BY <1>13, <2>1, <3>1, Returns DEF SendMeta, CloseMeta, store, history
  <2>2. CASE ~Return(p)
    <3>1. loc' = [loc EXCEPT ![p].to = own.peer]
          /\ \/ pc' = [pc EXCEPT ![p] = "llen"] /\ own.peer # None
             \/ pc' = [pc EXCEPT ![p] = "close_own"]
      BY <1>13, <2>2 DEF SendMeta, CloseMeta
    <3>2. own.peer \in Mailboxes \cup {None} /\ loc[p].from # None
      BY <1>0, <1>13 DEF SendMeta, CloseMeta, LocalsSet, MetaRecord
    <3> HIDE DEF own
    <3>3. loc' \in [Requests -> LocRecord] /\ loc'[p].to = own.peer /\ loc'[p].from = loc[p].from
          /\ \A q \in Requests : q # p => loc'[q] = loc[q]
      BY <3>1, <3>2, SetTo
    <3>4. pc' \in [Requests -> PCs] /\ LocalsSet'
      BY ZenonT(60), <3>1, <3>2, <3>3 DEF PCs, LocalsSet, InitPCs
    <3>5. QED
      BY <1>13, <3>3, <3>4 DEF SendMeta, CloseMeta, store, history
  <2>3. QED
    BY <2>1, <2>2
<1>14. CASE CloseOwn(p) \/ ClosePeer(p)
  <2>1. meta' \in [Mailboxes -> MetaRecord] /\ msgs' \in [Mailboxes -> Seq(Message)]
        /\ listDead' \in [Mailboxes -> Nat]
    BY <1>14, DeleteMailboxType DEF CloseOwn, ClosePeer
  <2>2. deleted' \subseteq Mailboxes
    BY <1>0, <1>14 DEF CloseOwn, ClosePeer, DeleteMailbox, LocalsSet
  <2>3. pc' \in [Requests -> PCs] /\ loc' \in [Requests -> LocRecord] /\ LocalsSet'
    <3>1. CASE Return(p)
      BY <3>1, Returns DEF LocalsSet, InitPCs
    <3>2. CASE ~Return(p)
      BY ZenonT(60), <1>14, <3>2 DEF CloseOwn, ClosePeer, PCs, LocalsSet, InitPCs
    <3>3. QED
      BY <3>1, <3>2
  <2>4. QED
    BY <1>14, <2>1, <2>2, <2>3 DEF CloseOwn, ClosePeer
<1>15. CASE Abort(p)
  <2>1. leaked' \subseteq Mailboxes
    BY <1>0, <1>15 DEF Abort, LocalsSet
  <2>2. LocalsSet'
    BY ZenonT(60), <1>15, Returns DEF Abort, LocalsSet, InitPCs
  <2>3. QED
    BY <1>15, <2>1, <2>2, Returns DEF Abort, Fault, store
<1>16. QED
  BY <1>1, <1>2, <1>3, <1>4, <1>5, <1>6, <1>7, <1>8, <1>9, <1>10, <1>11, <1>12, <1>13,
     <1>14, <1>15 DEF Step

LEMMA TypeInvStore ==
  ASSUME TypeInv, (\E m \in Mailboxes : EvictMeta(m) \/ EvictList(m))
                  \/ (\E t \in Tokens : EvictRdv(t)) \/ Tick
  PROVE  TypeInv'
<1> USE DEF TypeInv, TypeOK
<1>1. UNCHANGED <<pc, loc>> => LocalsSet'
  BY DEF LocalsSet
<1>2. ASSUME NEW m \in Mailboxes, EvictMeta(m)
      PROVE  TypeInv'
  BY <1>1, <1>2 DEF EvictMeta, Fault, NoMeta, MetaRecord
<1>3. ASSUME NEW m \in Mailboxes, EvictList(m)
      PROVE  TypeInv'
  BY <1>1, <1>3 DEF EvictList, ClearMessages, Fault, history
<1>4. ASSUME NEW t \in Tokens, EvictRdv(t)
      PROVE  TypeInv'
  BY <1>1, <1>4 DEF EvictRdv, Fault, NoRdv, RdvRecord, history
<1>5. CASE Tick
  <2>1. meta' \in [Mailboxes -> MetaRecord]
    BY <1>5 DEF Tick, NoMeta, MetaRecord
  <2>2. msgs' \in [Mailboxes -> Seq(Message)] /\ listDead' \in [Mailboxes -> Nat]
    BY <1>5 DEF Tick
  <2>3. rdv' \in [Tokens -> RdvRecord]
    BY <1>5 DEF Tick, NoRdv, RdvRecord
  <2>4. QED
    BY <1>1, <1>5, <2>1, <2>2, <2>3 DEF Tick, history
<1>6. QED
  BY <1>2, <1>3, <1>4, <1>5

LEMMA TypeInvStep == TypeInv /\ [Next]_vars => TypeInv'
<1> SUFFICES ASSUME TypeInv, [Next]_vars
             PROVE  TypeInv'
  OBVIOUS
<1>1. CASE UNCHANGED vars
  BY <1>1 DEF vars, TypeInv, TypeOK, LocalsSet
<1>2. CASE Next
  BY <1>2, TypeInvStart, TypeInvTask, TypeInvStore DEF Next
<1>3. QED
  BY <1>1, <1>2

\* In every reachable state the keys, the tasks' local variables and the
\* history have the types the Rust structs and the Redis commands give them.
THEOREM TypeCorrect == Spec => []TypeOK
<1>1. TypeInv => TypeOK
  BY DEF TypeInv
<1>2. QED
  BY <1>1, TypeInvInit, TypeInvStep, PTL DEF Spec


-----------------------------------------------------------------------------
(* What the steps do, point by point: to the task that takes the step ...  *)

\* The tasks other than p do not move.
OthersStay(p) == \A q \in Requests : q # p => pc'[q] = pc[q] /\ loc'[q] = loc[q]

LEMMA GotoEffect ==
  ASSUME TypeInv, NEW p \in Requests, NEW a, NEW b, Goto(p, a, b), UNCHANGED loc
  PROVE  pc[p] = a /\ pc'[p] = b /\ loc'[p] = loc[p] /\ OthersStay(p)
BY DEF Goto, TypeInv, TypeOK, OthersStay

LEMMA ReturnEffect ==
  ASSUME TypeInv, NEW p \in Requests, Return(p)
  PROVE  /\ pc'[p] = "idle"
         /\ loc'[p].tok = None
         /\ loc'[p].from = None
         /\ loc'[p].to = None
         /\ OthersStay(p)
BY Returns DEF TypeInv, OthersStay

LEMMA JoinGetEffect ==
  ASSUME TypeInv, NEW p \in Requests, JoinGet(p), ~Return(p)
  PROVE  /\ pc[p] = "join_get" /\ pc'[p] = "join_del"
         /\ loc[p].tok \in Tokens
         /\ loc'[p].to = rdv[loc[p].tok].mbox
         /\ loc'[p].to \in Mailboxes
         /\ loc'[p].tok = loc[p].tok
         /\ loc'[p].from = loc[p].from
         /\ OthersStay(p)
<1> DEFINE found == rdv[loc[p].tok].mbox
<1>1. /\ found # None
      /\ loc' = [loc EXCEPT ![p].to = found]
      /\ pc[p] = "join_get"
      /\ pc' = [pc EXCEPT ![p] = "join_del"]
  BY DEF JoinGet
<1>2. loc[p].tok \in Tokens /\ found \in Mailboxes
  BY <1>1 DEF TypeInv, TypeOK, LocalsSet, LocRecord, RdvRecord
<1>3. TypeOK /\ found \in Mailboxes \cup {None}
  BY <1>2 DEF TypeInv
<1> HIDE DEF found
<1>4. /\ loc'[p].to = found
      /\ loc'[p].tok = loc[p].tok
      /\ loc'[p].from = loc[p].from
      /\ \A q \in Requests : q # p => loc'[q] = loc[q]
  BY <1>1, <1>3, SetTo
<1>5. pc'[p] = "join_del" /\ \A q \in Requests : q # p => pc'[q] = pc[q]
  BY <1>1 DEF TypeInv, TypeOK
<1>6. QED
  BY <1>1, <1>2, <1>4, <1>5 DEF found, OthersStay

LEMMA JoinMetaEffect ==
  ASSUME TypeInv, NEW p \in Requests, JoinMeta(p), ~(Return(p) /\ UNCHANGED session)
  PROVE  \E r \in Mailboxes :
         /\ pc[p] = "join_meta" /\ pc'[p] = "join_save_i"
         /\ loc[p].to \in Mailboxes
         /\ loc[p].tok \in Tokens
         /\ meta[loc[p].to].live
         /\ meta[loc[p].to].peer = None
         /\ session[r] = None
         /\ session' = [session EXCEPT ![r] = loc[p].tok]
         /\ loc'[p].to = loc[p].to
         /\ loc'[p].tok = loc[p].tok
         /\ loc'[p].from = r
         /\ loc'[p].expires = meta[loc[p].to].expires
         /\ OthersStay(p)
<1> DEFINE e == meta[loc[p].to].expires
<1>1. PICK r \in Mailboxes :
         /\ session[r] = None
         /\ session' = [session EXCEPT ![r] = loc[p].tok]
         /\ pc' = [pc EXCEPT ![p] = "join_save_i"]
         /\ loc' = [loc EXCEPT ![p].from = r, ![p].expires = e]
  BY DEF JoinMeta, Fresh
<1>2. /\ pc[p] = "join_meta"
      /\ meta[loc[p].to].live
      /\ meta[loc[p].to].peer = None
  BY DEF JoinMeta
<1>3. loc[p].to \in Mailboxes /\ loc[p].tok \in Tokens
  BY <1>2 DEF TypeInv, TypeOK, LocalsSet, LocRecord
<1>4. TypeOK /\ e \in Nat
  BY <1>3 DEF TypeInv, TypeOK, MetaRecord
<1> HIDE DEF e
<1>5. /\ loc'[p].to = loc[p].to
      /\ loc'[p].tok = loc[p].tok
      /\ loc'[p].from = r
      /\ loc'[p].expires = e
      /\ \A q \in Requests : q # p => loc'[q] = loc[q]
  BY <1>1 DEF TypeInv, TypeOK, LocRecord
<1>6. pc'[p] = "join_save_i" /\ \A q \in Requests : q # p => pc'[q] = pc[q]
  BY <1>1 DEF TypeInv, TypeOK
<1>7. QED
  BY <1>1, <1>2, <1>3, <1>5, <1>6 DEF e, OthersStay

LEMMA GetCountEffect ==
  ASSUME TypeInv, NEW p \in Requests, GetCount(p)
  PROVE  /\ pc[p] = "llen" /\ pc'[p] = "push"
         /\ loc'[p].to = loc[p].to
         /\ loc'[p].tok = loc[p].tok
         /\ loc'[p].from = loc[p].from
         /\ loc'[p].expires = loc[p].expires
         /\ OthersStay(p)
<1> DEFINE n == Len(msgs[loc[p].to])
<1>1. /\ pc[p] = "llen"
      /\ pc' = [pc EXCEPT ![p] = "push"]
      /\ loc' = [loc EXCEPT ![p].seq = n]
  BY DEF GetCount, Goto
<1>2. loc[p].to \in Mailboxes
  BY <1>1 DEF TypeInv, TypeOK, LocalsSet, LocRecord
<1>3. TypeOK /\ n \in Nat
  BY <1>2, LenProperties DEF TypeInv, TypeOK
<1> HIDE DEF n
<1>4. /\ loc'[p].to = loc[p].to
      /\ loc'[p].tok = loc[p].tok
      /\ loc'[p].from = loc[p].from
      /\ loc'[p].expires = loc[p].expires
      /\ \A q \in Requests : q # p => loc'[q] = loc[q]
  BY <1>1, <1>3, SetSeq
<1>5. pc'[p] = "push" /\ \A q \in Requests : q # p => pc'[q] = pc[q]
  BY <1>1 DEF TypeInv, TypeOK
<1>6. QED
  BY <1>1, <1>4, <1>5 DEF OthersStay

\* send_message and close_connection read the caller's record.
LEMMA ReadOwnEffect ==
  ASSUME TypeInv, NEW p \in Requests, SendMeta(p) \/ CloseMeta(p), ~Return(p)
  PROVE  /\ pc[p] \in {"send_meta", "close_meta"}
         /\ \/ pc'[p] = "llen" /\ loc'[p].to # None
            \/ pc'[p] = "close_own"
         /\ loc[p].from \in Mailboxes
         /\ loc'[p].to = meta[loc[p].from].peer
         /\ loc'[p].tok = loc[p].tok
         /\ loc'[p].from = loc[p].from
         /\ loc'[p].expires = loc[p].expires
         /\ OthersStay(p)
<1> DEFINE x == meta[loc[p].from].peer
<1>1. /\ pc[p] \in {"send_meta", "close_meta"}
      /\ \/ pc' = [pc EXCEPT ![p] = "llen"] /\ x # None
         \/ pc' = [pc EXCEPT ![p] = "close_own"]
      /\ loc' = [loc EXCEPT ![p].to = x]
  BY DEF SendMeta, CloseMeta
<1>2. loc[p].from \in Mailboxes
  BY <1>1 DEF TypeInv, TypeOK, LocalsSet, LocRecord
<1>3. TypeOK /\ x \in Mailboxes \cup {None}
  BY <1>2 DEF TypeInv, TypeOK, MetaRecord
<1> HIDE DEF x
<1>4. /\ loc'[p].to = x
      /\ loc'[p].tok = loc[p].tok
      /\ loc'[p].from = loc[p].from
      /\ loc'[p].expires = loc[p].expires
      /\ \A q \in Requests : q # p => loc'[q] = loc[q]
  BY <1>1, <1>3, SetTo
<1>5. /\ (pc'[p] = "llen" /\ x # None) \/ pc'[p] = "close_own"
      /\ \A q \in Requests : q # p => pc'[q] = pc[q]
  BY <1>1 DEF TypeInv, TypeOK
<1>6. QED
  BY <1>1, <1>2, <1>4, <1>5 DEF x, OthersStay

LEMMA StartEffect ==
  ASSUME TypeInv, NEW p \in Requests,
         NEW m \in Mailboxes, StartSend(p, m) \/ StartClose(p, m)
  PROVE  /\ pc'[p] \in {"send_meta", "close_meta"}
         /\ loc'[p].from = m
         /\ loc'[p].to = None
         /\ advert[m] # 0
         /\ OthersStay(p)
<1>1. PICK c \in {"send_meta", "close_meta"} : pc' = [pc EXCEPT ![p] = c]
  BY DEF StartSend, StartClose
<1>2. PICK l \in LocRecord : loc' = [loc EXCEPT ![p] = l] /\ l.from = m /\ l.to = None
  BY NoLocFrom DEF StartSend, StartClose
<1>3. advert[m] # 0
  BY DEF StartSend, StartClose, Known
<1>4. QED
  BY <1>1, <1>2, <1>3 DEF TypeInv, TypeOK, OthersStay

LEMMA StartJoinEffect ==
  ASSUME TypeInv, NEW p \in Requests, NEW t \in Tokens, StartJoin(p, t)
  PROVE  /\ pc'[p] = "join_get"
         /\ loc'[p].tok = t
         /\ loc'[p].from = None
         /\ loc'[p].to = None
         /\ OthersStay(p)
BY DEF StartJoin, NoLoc, TypeInv, TypeOK, OthersStay

LEMMA StartInitEffect ==
  ASSUME TypeInv, NEW p \in Requests, NEW t \in Tokens, NEW m \in Mailboxes,
         StartInit(p, t, m)
  PROVE  /\ pc'[p] = "init_meta"
         /\ loc'[p].tok = t
         /\ loc'[p].from = m
         /\ loc'[p].to = None
         /\ loc'[p].expires = now + MailboxTTL
         /\ session[m] = None
         /\ session' = [session EXCEPT ![m] = t]
         /\ OthersStay(p)
BY DEF StartInit, Fresh, TypeInv, TypeOK, OthersStay

LEMMA CloseOwnEffect ==
  ASSUME TypeInv, NEW p \in Requests, CloseOwn(p), ~Return(p)
  PROVE  /\ pc[p] = "close_own" /\ pc'[p] = "close_peer"
         /\ loc[p].to # None
         /\ loc'[p] = loc[p]
         /\ OthersStay(p)
BY DEF CloseOwn, TypeInv, TypeOK, OthersStay

-----------------------------------------------------------------------------
(* ... and to the store.                                                   *)

\* Keys can only go; ids and promises stay as they are.
StoreShrinks ==
    /\ \A m \in Mailboxes : meta'[m] = meta[m] \/ meta'[m] = NoMeta
    /\ \A m \in Mailboxes : msgs'[m] = msgs[m] \/ msgs'[m] = <<>>
    /\ \A t \in Tokens : rdv'[t] = rdv[t] \/ rdv'[t] = NoRdv
    /\ UNCHANGED <<session, advert>>

LEMMA SaveMetaEffect ==
  ASSUME TypeInv, NEW m \in Mailboxes, NEW x, NEW e, SaveMeta(m, x, e)
  PROVE  /\ meta'[m].live
         /\ meta'[m].peer = x
         /\ meta'[m].expires = e
         /\ meta'[m].dead = now + MailboxTTL
         /\ \A n \in Mailboxes : n # m => meta'[n] = meta[n]
BY DEF SaveMeta, TypeInv, TypeOK

LEMMA DeleteShrinks ==
  ASSUME TypeInv, NEW m, DeleteMailbox(m), UNCHANGED <<rdv, session, advert>>
  PROVE  StoreShrinks
BY DEF DeleteMailbox, ClearMessages, StoreShrinks, TypeInv, TypeOK

LEMMA TaskShrinks ==
  ASSUME TypeInv, NEW p \in Requests,
         \/ InitClear(p) \/ JoinGet(p) \/ JoinDel(p) \/ JoinClear(p) \/ GetCount(p)
         \/ SendMeta(p) \/ CloseMeta(p) \/ CloseOwn(p) \/ ClosePeer(p) \/ Abort(p)
         \/ (\E t \in Tokens : StartJoin(p, t))
         \/ (\E m \in Mailboxes : StartSend(p, m) \/ StartClose(p, m))
  PROVE  StoreShrinks
<1>1. CASE InitClear(p) \/ JoinClear(p)
  BY <1>1 DEF InitClear, JoinClear, ClearMessages, history, StoreShrinks, TypeInv, TypeOK
<1>2. CASE JoinDel(p)
  BY <1>2 DEF JoinDel, history, StoreShrinks, TypeInv, TypeOK
<1>3. CASE JoinGet(p) \/ GetCount(p) \/ SendMeta(p) \/ CloseMeta(p)
  BY <1>3 DEF JoinGet, GetCount, SendMeta, CloseMeta, store, history, StoreShrinks
<1>4. CASE CloseOwn(p) \/ ClosePeer(p)
  BY <1>4, DeleteShrinks DEF CloseOwn, ClosePeer
<1>5. CASE Abort(p)
  BY <1>5 DEF Abort, store, StoreShrinks
<1>6. CASE (\E t \in Tokens : StartJoin(p, t))
           \/ (\E m \in Mailboxes : StartSend(p, m) \/ StartClose(p, m))
  BY <1>6 DEF StartJoin, StartSend, StartClose, store, history, StoreShrinks
<1>7. QED
  BY <1>1, <1>2, <1>3, <1>4, <1>5, <1>6

\* Evictions and the passing of time.
StoreStep ==
    \/ \E m \in Mailboxes : EvictMeta(m) \/ EvictList(m)
    \/ \E t \in Tokens : EvictRdv(t)
    \/ Tick

LEMMA StoreStepShrinks ==
  ASSUME TypeInv, StoreStep
  PROVE  StoreShrinks /\ UNCHANGED <<pc, loc>>
<1> USE DEF StoreShrinks, TypeInv, TypeOK
<1>1. ASSUME NEW m \in Mailboxes, EvictMeta(m)
      PROVE  StoreShrinks /\ UNCHANGED <<pc, loc>>
  BY <1>1 DEF EvictMeta
<1>2. ASSUME NEW m \in Mailboxes, EvictList(m)
      PROVE  StoreShrinks /\ UNCHANGED <<pc, loc>>
  BY <1>2 DEF EvictList, ClearMessages, history
<1>3. ASSUME NEW t \in Tokens, EvictRdv(t)
      PROVE  StoreShrinks /\ UNCHANGED <<pc, loc>>
  BY <1>3 DEF EvictRdv, history
<1>4. CASE Tick
  BY <1>4 DEF Tick, history
<1>5. QED
  BY <1>1, <1>2, <1>3, <1>4 DEF StoreStep

-----------------------------------------------------------------------------
(* Sessions: every id held anywhere is one that was drawn, so a freshly    *)
(* drawn id is held by nobody, and ids only meet ids of their own session. *)

TaskOK(p) ==
    /\ loc[p].from # None => session[loc[p].from] # None
    /\ loc[p].to # None => session[loc[p].to] # None
    /\ pc[p] \in InitPCs => session[loc[p].from] = loc[p].tok
    /\ pc[p] \in {"join_del", "join_meta", "join_save_i", "join_save_r", "join_clear"}
        => session[loc[p].to] = loc[p].tok
    /\ pc[p] \in {"join_save_i", "join_save_r", "join_clear"}
        => session[loc[p].from] = loc[p].tok
    /\ pc[p] \in {"llen", "push", "expire"}
        => session[loc[p].from] = session[loc[p].to]

MetaOK(m) ==
    /\ meta[m].live => session[m] # None
    /\ meta[m].peer # None => meta[m].live /\ session[meta[m].peer] = session[m]

MsgsOK(m) ==
    /\ msgs[m] # <<>> => session[m] # None
    /\ \A k \in 1..Len(msgs[m]) : session[msgs[m][k].from] = session[m]

RdvOK(t) == rdv[t].mbox # None => session[rdv[t].mbox] = t

AdvertOK(m) == advert[m] # 0 => session[m] # None

SessionInv ==
    /\ \A p \in Requests : TaskOK(p)
    /\ \A m \in Mailboxes : MetaOK(m) /\ MsgsOK(m) /\ AdvertOK(m)
    /\ \A t \in Tokens : RdvOK(t)

\* Ids are drawn once and for all.
SessionGrows == \A m \in Mailboxes : session[m] # None => session'[m] = session[m]

\* The values read from the store and from local variables are ids.
LEMMA Ids ==
  ASSUME TypeInv
  PROVE  /\ \A p \in Requests : /\ loc[p].from \in Mailboxes \cup {None}
                                /\ loc[p].to \in Mailboxes \cup {None}
                                /\ loc[p].tok \in Tokens \cup {None}
         /\ \A m \in Mailboxes : meta[m].peer \in Mailboxes \cup {None}
         /\ \A t \in Tokens : rdv[t].mbox \in Mailboxes \cup {None}
         /\ \A m \in Mailboxes : msgs[m] \in Seq(Message)
         /\ \A m \in Mailboxes : session[m] \in Tokens \cup {None}
BY DEF TypeInv, TypeOK, LocRecord, MetaRecord, RdvRecord

\* A task that does not move, a record, a list or a token that stays or goes,
\* keep their part of the invariant while new ids are drawn.
LEMMA TaskKept ==
  ASSUME TypeInv, SessionGrows, NEW q \in Requests, TaskOK(q),
         pc'[q] = pc[q], loc'[q] = loc[q]
  PROVE  TaskOK(q)'
BY Ids DEF TaskOK, SessionGrows, TypeInv, LocalsSet

LEMMA MetaKept ==
  ASSUME TypeInv, SessionGrows, NEW m \in Mailboxes, MetaOK(m),
         meta'[m] = meta[m] \/ meta'[m] = NoMeta
  PROVE  MetaOK(m)'
<1>1. CASE meta'[m] = NoMeta
  BY <1>1, NoMetaType DEF MetaOK
<1>2. CASE meta'[m] = meta[m]
  BY <1>2, Ids DEF MetaOK, SessionGrows
<1>3. QED
  BY <1>1, <1>2

LEMMA MsgsKept ==
  ASSUME TypeInv, SessionGrows, NEW m \in Mailboxes, MsgsOK(m),
         msgs'[m] = msgs[m] \/ msgs'[m] = <<>>
  PROVE  MsgsOK(m)'
<1>1. CASE msgs'[m] = <<>>
  BY <1>1 DEF MsgsOK
<1>2. CASE msgs'[m] = msgs[m] /\ msgs[m] # <<>>
  <2>1. session[m] # None /\ session'[m] = session[m]
    BY <1>2 DEF MsgsOK, SessionGrows
  <2>2. ASSUME NEW k \in 1..Len(msgs[m])
        PROVE  session'[msgs[m][k].from] = session'[m]
    <3>1. msgs[m][k] \in Message
      BY Ids, ElementOfSeq
    <3>2. msgs[m][k].from \in Mailboxes
      BY <3>1 DEF Message
    <3>3. QED
      BY <2>1, <3>2 DEF MsgsOK, SessionGrows
  <2>3. QED
    BY <1>2, <2>1, <2>2 DEF MsgsOK
<1>3. QED
  BY <1>1, <1>2

LEMMA RdvKept ==
  ASSUME TypeInv, SessionGrows, NEW t \in Tokens, RdvOK(t),
         rdv'[t] = rdv[t] \/ rdv'[t] = NoRdv
  PROVE  RdvOK(t)'
BY Ids, NoneAssumption DEF RdvOK, SessionGrows, NoRdv

LEMMA SessionShrinks ==
  ASSUME TypeInv, SessionInv, StoreShrinks
  PROVE  /\ SessionGrows
         /\ \A m \in Mailboxes : MetaOK(m)' /\ MsgsOK(m)' /\ AdvertOK(m)'
         /\ \A t \in Tokens : RdvOK(t)'
<1>1. SessionGrows
  BY DEF StoreShrinks, SessionGrows
<1>2. \A m \in Mailboxes : MetaOK(m)' /\ MsgsOK(m)'
  BY <1>1, MetaKept, MsgsKept DEF SessionInv, StoreShrinks
<1>3. \A m \in Mailboxes : AdvertOK(m)'
  BY DEF SessionInv, StoreShrinks, AdvertOK
<1>4. \A t \in Tokens : RdvOK(t)'
  BY <1>1, RdvKept DEF SessionInv, StoreShrinks
<1>5. QED
  BY <1>1, <1>2, <1>3, <1>4

LEMMA SessionInvInit == Init => SessionInv
BY DEF Init, SessionInv, TaskOK, MetaOK, MsgsOK, RdvOK, AdvertOK, NoMeta, NoRdv, NoLoc, InitPCs

LEMMA SessionInvTask ==
  ASSUME TypeInv, SessionInv, NEW p \in Requests, Start(p) \/ Step(p) \/ Abort(p)
  PROVE  SessionInv'
<1> USE NoneAssumption
<1>k. ASSUME SessionGrows, OthersStay(p)
      PROVE  \A q \in Requests : q # p => TaskOK(q)'
  BY <1>k, TaskKept DEF SessionInv, OthersStay
<1>t. TaskOK(p)
  BY DEF SessionInv
\* The steps that leave the store as it is or delete keys.
<1>s. ASSUME StoreShrinks, OthersStay(p), TaskOK(p)'
      PROVE  SessionInv'
  <2>1. SessionGrows
    BY <1>s, SessionShrinks
  <2>2. \A q \in Requests : TaskOK(q)'
    BY <1>s, <1>k, <2>1
  <2>3. QED
    BY <1>s, <2>2, SessionShrinks DEF SessionInv
<1>r. ASSUME StoreShrinks, Return(p)
      PROVE  SessionInv'
  <2>1. TaskOK(p)'
    BY <1>r, ReturnEffect DEF TaskOK, InitPCs
  <2>2. QED
    BY <1>r, <1>s, <2>1, ReturnEffect
<1>1. ASSUME NEW t \in Tokens, NEW m \in Mailboxes, StartInit(p, t, m)
      PROVE  SessionInv'
  <2>1. /\ SessionGrows
        /\ session'[m] = t
    BY <1>1, StartInitEffect DEF SessionGrows, TypeInv, TypeOK
  <2>2. TaskOK(p)'
    BY <1>1, <2>1, StartInitEffect DEF TaskOK, InitPCs
  <2>3. \A q \in Requests : TaskOK(q)'
    BY <1>1, <1>k, <2>1, <2>2, StartInitEffect
  <2>4. UNCHANGED <<meta, msgs, rdv, advert>>
    BY <1>1 DEF StartInit, store
  <2>5. \A n \in Mailboxes : MetaOK(n)' /\ MsgsOK(n)'
    BY <2>1, <2>4, MetaKept, MsgsKept DEF SessionInv
  <2>6. \A n \in Mailboxes : AdvertOK(n)'
    BY <2>1, <2>4 DEF SessionInv, AdvertOK, SessionGrows
  <2>7. \A u \in Tokens : RdvOK(u)'
    BY <2>1, <2>4, RdvKept DEF SessionInv
  <2>8. QED
    BY <2>3, <2>5, <2>6, <2>7 DEF SessionInv
<1>2. ASSUME NEW t \in Tokens, StartJoin(p, t)
      PROVE  SessionInv'
  <2>1. TaskOK(p)'
    BY <1>2, StartJoinEffect DEF TaskOK, InitPCs
  <2>2. QED
    BY <1>2, <1>s, <2>1, StartJoinEffect, TaskShrinks
<1>3. ASSUME NEW m \in Mailboxes, StartSend(p, m) \/ StartClose(p, m)
      PROVE  SessionInv'
  <2>1. StoreShrinks
    BY <1>3, TaskShrinks
  <2>2. TaskOK(p)'
    BY <1>3, <2>1, StartEffect DEF TaskOK, InitPCs, SessionInv, AdvertOK, StoreShrinks
  <2>3. QED
    BY <1>3, <1>s, <2>1, <2>2, StartEffect
<1>4. CASE InitMeta(p)
  <2>1. /\ SaveMeta(loc[p].from, None, loc[p].expires)
        /\ pc[p] = "init_meta" /\ pc'[p] = "init_clear" /\ loc'[p] = loc[p] /\ OthersStay(p)
        /\ UNCHANGED <<msgs, rdv, session, advert>>
    BY <1>4, GotoEffect DEF InitMeta, history
  <2>2. loc[p].from \in Mailboxes
    BY <2>1, Ids DEF TypeInv, LocalsSet, InitPCs
  <2>3. SessionGrows /\ \A q \in Requests : TaskOK(q)'
    BY <1>k, <1>t, <2>1 DEF SessionGrows, TaskOK, InitPCs
  <2>4. MetaOK(loc[p].from)'
    BY <1>t, <2>1, <2>2, SaveMetaEffect DEF MetaOK, TaskOK
  <2>5. \A n \in Mailboxes : n # loc[p].from => MetaOK(n)'
    BY <2>1, <2>2, <2>3, SaveMetaEffect, MetaKept DEF SessionInv
  <2>6. QED
    BY <2>1, <2>3, <2>4, <2>5 DEF SessionInv, MsgsOK, AdvertOK, RdvOK
<1>5. CASE InitClear(p) \/ JoinDel(p) \/ JoinClear(p)
  <2>1. /\ \/ pc[p] = "init_clear" /\ pc'[p] = "init_rdv"
           \/ pc[p] = "join_del" /\ pc'[p] = "join_meta"
           \/ pc[p] = "join_clear" /\ pc'[p] = "llen"
        /\ loc'[p] = loc[p] /\ OthersStay(p)
    BY <1>5, GotoEffect DEF InitClear, JoinDel, JoinClear
  <2>2. StoreShrinks
    BY <1>5, TaskShrinks
  <2>3. TaskOK(p)'
    BY <1>t, <2>1, <2>2 DEF TaskOK, InitPCs, StoreShrinks
  <2>4. QED
    BY <1>s, <2>1, <2>2, <2>3
<1>6. CASE InitRdv(p)
  <2>1. /\ pc[p] = "init_rdv"
        /\ rdv' = [rdv EXCEPT ![loc[p].tok] =
                      [mbox |-> loc[p].from, dead |-> now + RendezvousTTL]]
        /\ advert' = [advert EXCEPT ![loc[p].from] = loc[p].expires]
        /\ Return(p)
        /\ UNCHANGED <<meta, msgs, session>>
    BY <1>6 DEF InitRdv
  <2>2. loc[p].from # None /\ session[loc[p].from] # None /\ session[loc[p].from] = loc[p].tok
    BY <1>t, <2>1 DEF TypeInv, LocalsSet, InitPCs, TaskOK
  <2>3. SessionGrows /\ TaskOK(p)'
    BY <2>1, ReturnEffect DEF SessionGrows, TaskOK, InitPCs
  <2>4. \A q \in Requests : TaskOK(q)'
    BY <1>k, <2>1, <2>3, ReturnEffect
  <2>5. \A t \in Tokens : RdvOK(t)'
    BY <2>1, <2>2 DEF SessionInv, RdvOK, TypeInv, TypeOK
  <2>6. \A m \in Mailboxes : AdvertOK(m)'
    BY <2>1, <2>2 DEF SessionInv, AdvertOK, TypeInv, TypeOK
  <2>7. QED
    BY <2>1, <2>4, <2>5, <2>6 DEF SessionInv, MetaOK, MsgsOK
<1>7. CASE JoinGet(p)
  <2>1. StoreShrinks
    BY <1>7, TaskShrinks
  <2>2. CASE ~Return(p)
    <3>1. session[loc'[p].to] = loc'[p].tok /\ loc'[p].tok # None
      BY <1>7, <2>2, JoinGetEffect DEF SessionInv, RdvOK
    <3>2. TaskOK(p)'
      BY <1>t, <1>7, <2>1, <2>2, <3>1, JoinGetEffect DEF TaskOK, InitPCs, StoreShrinks
    <3>3. QED
      BY <1>s, <1>7, <2>1, <2>2, <3>2, JoinGetEffect
  <2>3. QED
    BY <1>r, <2>1, <2>2
<1>8. CASE JoinMeta(p)
  <2>1. CASE Return(p) /\ UNCHANGED session
    <3>1. StoreShrinks
      BY <1>8, TaskShrinks, <2>1 DEF JoinMeta, store, StoreShrinks
    <3>2. QED
      BY <1>r, <2>1, <3>1
  <2>2. CASE ~(Return(p) /\ UNCHANGED session)
    <3>1. PICK r \in Mailboxes :
             /\ pc[p] = "join_meta" /\ pc'[p] = "join_save_i"
             /\ loc[p].to \in Mailboxes
             /\ loc[p].tok \in Tokens
             /\ session[r] = None
             /\ session' = [session EXCEPT ![r] = loc[p].tok]
             /\ loc'[p].to = loc[p].to
             /\ loc'[p].tok = loc[p].tok
             /\ loc'[p].from = r
             /\ OthersStay(p)
      BY <1>8, <2>2, JoinMetaEffect
    <3>2. SessionGrows /\ session'[r] = loc[p].tok
      BY <3>1 DEF SessionGrows, TypeInv, TypeOK
    <3>3. session[loc[p].to] = loc[p].tok /\ session'[loc[p].to] = loc[p].tok
      BY <1>t, <3>1, <3>2 DEF TaskOK, SessionGrows
    <3>4. TaskOK(p)'
      BY <3>1, <3>2, <3>3 DEF TaskOK, InitPCs
    <3>5. UNCHANGED <<meta, msgs, rdv, advert>>
      BY <1>8 DEF JoinMeta, store
    <3>6. \A n \in Mailboxes : MetaOK(n)' /\ MsgsOK(n)'
      BY <3>2, <3>5, MetaKept, MsgsKept DEF SessionInv
    <3>7. \A n \in Mailboxes : AdvertOK(n)'
      BY <3>2, <3>5 DEF SessionInv, AdvertOK, SessionGrows
    <3>8. \A u \in Tokens : RdvOK(u)'
      BY <3>2, <3>5, RdvKept DEF SessionInv
    <3>9. \A q \in Requests : TaskOK(q)'
      BY <1>k, <3>1, <3>2, <3>4
    <3>10. QED
      BY <3>6, <3>7, <3>8, <3>9 DEF SessionInv
  <2>3. QED
    BY <2>1, <2>2
<1>9. CASE JoinSaveInitiator(p) \/ JoinSaveResponder(p)
  <2>1. PICK m \in {loc[p].from, loc[p].to}, x \in {loc[p].from, loc[p].to} :
          /\ SaveMeta(m, x, loc[p].expires)
          /\ \/ pc[p] = "join_save_i" /\ pc'[p] = "join_save_r"
             \/ pc[p] = "join_save_r" /\ pc'[p] = "join_clear"
          /\ loc'[p] = loc[p] /\ OthersStay(p)
          /\ UNCHANGED <<msgs, rdv, session, advert>>
    BY <1>9, GotoEffect DEF JoinSaveInitiator, JoinSaveResponder, history
  <2>2. m \in Mailboxes /\ x \in Mailboxes /\ session[m] = session[x] /\ session[m] # None
    BY <1>t, <2>1, Ids DEF TypeInv, LocalsSet, TaskOK
  <2>3. SessionGrows /\ \A q \in Requests : TaskOK(q)'
    BY <1>k, <1>t, <2>1 DEF SessionGrows, TaskOK, InitPCs
  <2>4. MetaOK(m)'
    BY <2>1, <2>2, SaveMetaEffect DEF MetaOK
  <2>5. \A n \in Mailboxes : n # m => MetaOK(n)'
    BY <2>1, <2>2, <2>3, SaveMetaEffect, MetaKept DEF SessionInv
  <2>6. QED
    BY <2>1, <2>3, <2>4, <2>5 DEF SessionInv, MsgsOK, AdvertOK, RdvOK
<1>10. CASE GetCount(p)
  <2>1. StoreShrinks
    BY <1>10, TaskShrinks
  <2>2. TaskOK(p)'
    BY <1>t, <1>10, <2>1, GetCountEffect DEF TaskOK, InitPCs, StoreShrinks
  <2>3. QED
    BY <1>s, <1>10, <2>1, <2>2, GetCountEffect
<1>11. CASE Push(p)
  <2> DEFINE msg == [from |-> loc[p].from, seq |-> loc[p].seq]
  <2>1. PICK box \in Mailboxes : box = loc[p].to
    BY <1>11, Ids DEF Push, Goto, TypeInv, LocalsSet
  <2>2. /\ pc[p] = "push" /\ pc'[p] = "expire" /\ loc'[p] = loc[p] /\ OthersStay(p)
        /\ msgs' = [msgs EXCEPT ![box] = Append(@, msg)]
        /\ UNCHANGED <<meta, rdv, session, advert>>
    BY <1>11, <2>1, GotoEffect DEF Push, history
  <2>3. /\ msg \in Message
        /\ session[msg.from] = session[box] /\ session[box] # None
    <3>1. loc[p].from \in Mailboxes /\ loc[p].seq \in Nat
      BY <2>2, Ids DEF TypeInv, TypeOK, LocalsSet, LocRecord
    <3>2. QED
      BY <1>t, <2>1, <2>2, <3>1 DEF TaskOK, Message
  <2>4. SessionGrows /\ \A q \in Requests : TaskOK(q)'
    BY <1>k, <1>t, <2>2 DEF SessionGrows, TaskOK, InitPCs
  <2> HIDE DEF msg
  <2>5. /\ msgs'[box] = Append(msgs[box], msg)
        /\ \A n \in Mailboxes : n # box => msgs'[n] = msgs[n]
    BY <2>2 DEF TypeInv, TypeOK
  <2>6. ASSUME NEW k \in 1..Len(msgs'[box])
        PROVE  session[msgs'[box][k].from] = session[box]
    BY <2>3, <2>5, Ids, AppendProperties DEF SessionInv, MsgsOK
  <2>7. MsgsOK(box)'
    BY <2>2, <2>3, <2>6 DEF MsgsOK
  <2>8. \A n \in Mailboxes : n # box => MsgsOK(n)'
    BY <2>4, <2>5, MsgsKept DEF SessionInv
  <2>9. QED
    BY <2>2, <2>4, <2>7, <2>8 DEF SessionInv, MetaOK, AdvertOK, RdvOK
<1>12. CASE SetExpiry(p)
  <2>1. /\ pc[p] = "expire"
        /\ Return(p)
        /\ advert' = IF Known(loc[p].from) THEN advert
                     ELSE [advert EXCEPT ![loc[p].from] = loc[p].expires]
        /\ UNCHANGED <<meta, msgs, rdv, session>>
    BY <1>12 DEF SetExpiry
  <2>2. session[loc[p].from] # None
    BY <1>t, <2>1 DEF TypeInv, LocalsSet, TaskOK
  <2>3. SessionGrows /\ TaskOK(p)'
    BY <2>1, ReturnEffect DEF SessionGrows, TaskOK, InitPCs
  <2>4. \A q \in Requests : TaskOK(q)'
    BY <1>k, <2>1, <2>3, ReturnEffect
  <2>5. \A m \in Mailboxes : AdvertOK(m)'
    BY <2>1, <2>2 DEF SessionInv, AdvertOK, TypeInv, TypeOK
  <2>6. QED
    BY <2>1, <2>4, <2>5 DEF SessionInv, MetaOK, MsgsOK, RdvOK
<1>13. CASE SendMeta(p) \/ CloseMeta(p)
  <2>1. StoreShrinks
    BY <1>13, TaskShrinks
  <2>2. CASE ~Return(p)
    <3>1. /\ session[loc'[p].from] # None
          /\ loc'[p].to # None => session[loc'[p].to] = session[loc'[p].from]
      BY <1>t, <1>13, <2>2, ReadOwnEffect DEF TaskOK, SessionInv, MetaOK
    <3>2. TaskOK(p)'
      BY <1>13, <2>1, <2>2, <3>1, ReadOwnEffect DEF TaskOK, InitPCs, StoreShrinks
    <3>3. QED
      BY <1>s, <1>13, <2>1, <2>2, <3>2, ReadOwnEffect
  <2>3. QED
    BY <1>r, <2>1, <2>2
<1>14. CASE CloseOwn(p)
  <2>1. StoreShrinks
    BY <1>14, TaskShrinks
  <2>2. CASE ~Return(p)
    <3>1. TaskOK(p)'
      BY <1>t, <1>14, <2>1, <2>2, CloseOwnEffect DEF TaskOK, InitPCs, StoreShrinks
    <3>2. QED
      BY <1>s, <1>14, <2>1, <2>2, <3>1, CloseOwnEffect
  <2>3. QED
    BY <1>r, <2>1, <2>2
<1>15. CASE ClosePeer(p) \/ Abort(p)
  BY <1>r, <1>15, TaskShrinks DEF ClosePeer, Abort
<1>16. QED
  BY <1>1, <1>2, <1>3, <1>4, <1>5, <1>6, <1>7, <1>8, <1>9, <1>10, <1>11, <1>12, <1>13,
     <1>14, <1>15 DEF Start, Step

LEMMA SessionInvStep == TypeInv /\ SessionInv /\ [Next]_vars => SessionInv'
<1> SUFFICES ASSUME TypeInv, SessionInv, [Next]_vars
             PROVE  SessionInv'
  OBVIOUS
<1>1. ASSUME StoreShrinks, UNCHANGED <<pc, loc>>
      PROVE  SessionInv'
  <2>1. SessionGrows
    BY <1>1, SessionShrinks
  <2>2. \A q \in Requests : TaskOK(q)'
    BY <1>1, <2>1, TaskKept DEF SessionInv
  <2>3. QED
    BY <1>1, <2>2, SessionShrinks DEF SessionInv
<1>2. CASE UNCHANGED vars
  BY <1>1, <1>2 DEF vars, StoreShrinks
<1>3. CASE StoreStep
  BY <1>1, <1>3, StoreStepShrinks
<1>4. ASSUME NEW p \in Requests, Start(p) \/ Step(p) \/ Abort(p)
      PROVE  SessionInv'
  BY <1>4, SessionInvTask
<1>5. QED
  BY <1>2, <1>3, <1>4 DEF Next, StoreStep

\* Whatever the interleaving, the faults and the evictions: a mailbox is only
\* linked with, and only receives from, a mailbox made for the same token.
THEOREM SessionsNeverMix == Spec => []SessionsStayApart
<1>1. Init => TypeInv /\ SessionInv
  BY TypeInvInit, SessionInvInit
<1>2. TypeInv /\ SessionInv /\ [Next]_vars => (TypeInv /\ SessionInv)'
  BY TypeInvStep, SessionInvStep
<1>3. TypeInv /\ SessionInv => SessionsStayApart
  BY DEF SessionInv, MetaOK, MsgsOK, SessionsStayApart
<1>4. QED
  BY <1>1, <1>2, <1>3, PTL DEF Spec

-----------------------------------------------------------------------------
(* Pairing: the token goes before the link is written, and the initiator's *)
(* record is linked before the responder's exists.                         *)

\* The mailbox of an init_connection that has not yet published its token is
\* known to that task alone.
Private(p) ==
    pc[p] \in InitPCs =>
        /\ \A q \in Requests : q # p => loc[q].from # loc[p].from
        /\ \A q \in Requests : loc[q].to # loc[p].from
        /\ \A t \in Tokens : rdv[t].mbox # loc[p].from
        /\ \A m \in Mailboxes : meta[m].peer # loc[p].from
        /\ meta[loc[p].from].peer = None
        /\ advert[loc[p].from] = 0

\* From its DEL on, no token leads to the mailboxes a join is about to link.
Consumed(p) ==
    /\ pc[p] \in {"join_meta", "join_save_i"} => \A t \in Tokens : rdv[t].mbox # loc[p].to
    /\ pc[p] \in {"join_save_i", "join_save_r"} => \A t \in Tokens : rdv[t].mbox # loc[p].from

LinkedOrGone(m) == meta[m].live => meta[m].peer # None

\* Before its first write, the responder's record of a join is not there
\* without a peer; between its two writes, neither is the initiator's.
InitiatorFirst(p) ==
    /\ pc[p] = "join_save_i" => LinkedOrGone(loc[p].from)
    /\ pc[p] = "join_save_r" => LinkedOrGone(loc[p].to)

PairInv ==
    /\ \A p \in Requests : Private(p) /\ Consumed(p) /\ InitiatorFirst(p)
    /\ TokenLeadsToUnpaired
    /\ ResponderImpliesPaired

\* What p now holds is not the private mailbox of another task.
NotPrivate(p, m) == \A q \in Requests : q # p /\ pc[q] \in InitPCs => m # loc[q].from

\* Other tasks' mailboxes stay private when p takes hold of public ones.
LEMMA PrivateKept ==
  ASSUME TypeInv, NEW p \in Requests, NEW q \in Requests, q # p, Private(q), OthersStay(p),
         NotPrivate(p, loc'[p].from), NotPrivate(p, loc'[p].to), StoreShrinks
  PROVE  Private(q)'
<1> SUFFICES ASSUME pc[q] \in InitPCs
             PROVE  Private(q)'
  BY DEF Private, OthersStay
<1>1. loc[q].from \in Mailboxes /\ loc'[q] = loc[q]
  BY Ids DEF OthersStay, TypeInv, LocalsSet
<1>2. \A n \in Mailboxes : meta'[n].peer = meta[n].peer \/ meta'[n].peer = None
  BY NoMetaType DEF StoreShrinks
<1>3. \A t \in Tokens : rdv'[t].mbox = rdv[t].mbox \/ rdv'[t].mbox = None
  BY DEF StoreShrinks, NoRdv
<1>4. \A r \in Requests : r # q => loc'[r].from # loc[q].from
  BY DEF Private, OthersStay, NotPrivate
<1>5. \A r \in Requests : loc'[r].to # loc[q].from
  BY DEF Private, OthersStay, NotPrivate
<1>6. QED
  BY <1>1, <1>2, <1>3, <1>4, <1>5, NoneAssumption DEF Private, StoreShrinks

\* A task that does not move loses nothing unless a record becomes unpaired.
LEMMA InitiatorFirstKept ==
  ASSUME TypeInv, NEW q \in Requests, InitiatorFirst(q), pc'[q] = pc[q], loc'[q] = loc[q],
         \A n \in Mailboxes : LinkedOrGone(n) /\ n \in {loc[q].from, loc[q].to}
             => (LinkedOrGone(n))'
  PROVE  InitiatorFirst(q)'
<1>1. ASSUME pc[q] = "join_save_i"
      PROVE  (LinkedOrGone(loc[q].from))'
  <2>1. PICK n \in Mailboxes : n = loc[q].from
    BY <1>1, Ids DEF TypeInv, LocalsSet
  <2>2. (LinkedOrGone(n))'
    BY <1>1, <2>1 DEF InitiatorFirst
  <2>3. QED
    BY <2>1, <2>2 DEF LinkedOrGone
<1>2. ASSUME pc[q] = "join_save_r"
      PROVE  (LinkedOrGone(loc[q].to))'
  <2>1. PICK n \in Mailboxes : n = loc[q].to
    BY <1>2, Ids DEF TypeInv, LocalsSet
  <2>2. (LinkedOrGone(n))'
    BY <1>2, <2>1 DEF InitiatorFirst
  <2>3. QED
    BY <2>1, <2>2 DEF LinkedOrGone
<1>3. QED
  BY <1>1, <1>2 DEF InitiatorFirst, LinkedOrGone

\* Deleting keys keeps what tasks that do not move rely on.
LEMMA PairShrinks ==
  ASSUME TypeInv, PairInv, StoreShrinks
  PROVE  /\ \A q \in Requests : pc'[q] = pc[q] /\ loc'[q] = loc[q]
                => Consumed(q)' /\ InitiatorFirst(q)'
         /\ TokenLeadsToUnpaired'
         /\ ResponderImpliesPaired'
<1>1. \A n \in Mailboxes : meta'[n] = meta[n] \/ (~meta'[n].live /\ meta'[n].peer = None)
  BY NoMetaType DEF StoreShrinks
<1>2. \A t \in Tokens : rdv'[t].mbox = rdv[t].mbox \/ rdv'[t].mbox = None
  BY DEF StoreShrinks, NoRdv
<1>3. ASSUME NEW q \in Requests, pc'[q] = pc[q], loc'[q] = loc[q]
      PROVE  Consumed(q)' /\ InitiatorFirst(q)'
  <2>1. Consumed(q)'
    BY <1>2, <1>3 DEF PairInv, Consumed, TypeInv, LocalsSet
  <2>2. InitiatorFirst(q)'
    <3>1. \A n \in Mailboxes : LinkedOrGone(n) => (LinkedOrGone(n))'
      BY <1>1 DEF LinkedOrGone
    <3>2. QED
      BY <1>3, <3>1, InitiatorFirstKept DEF PairInv
  <2>3. QED
    BY <2>1, <2>2
<1>4. TokenLeadsToUnpaired'
  BY <1>1, <1>2, Ids DEF PairInv, TokenLeadsToUnpaired
<1>5. ResponderImpliesPaired'
  BY <1>1, Ids DEF PairInv, ResponderImpliesPaired
<1>6. QED
  BY <1>3, <1>4, <1>5

LEMMA PairInvInit == Init => PairInv
BY DEF Init, PairInv, Private, Consumed, InitiatorFirst, InitPCs, TokenLeadsToUnpaired,
   ResponderImpliesPaired, NoRdv, NoMeta, LinkedOrGone

\* A record written over one that no token leads to and no private mailbox.
LEMMA PairInvTask ==
  ASSUME TypeInv, SessionInv, PairInv, NEW p \in Requests, Start(p) \/ Step(p) \/ Abort(p)
  PROVE  PairInv'
<1> USE NoneAssumption
<1>n. ASSUME NEW m, m = loc[p].from \/ m = loc[p].to \/ m = None
      PROVE  NotPrivate(p, m)
  BY <1>n, Ids DEF PairInv, Private, NotPrivate, TypeInv, LocalsSet
\* The steps that leave the store as it is or delete keys.
<1>s. ASSUME StoreShrinks, OthersStay(p),
             NotPrivate(p, loc'[p].from), NotPrivate(p, loc'[p].to),
             Private(p)', Consumed(p)', InitiatorFirst(p)'
      PROVE  PairInv'
  <2>1. \A q \in Requests : q # p => Private(q)'
    BY <1>s, PrivateKept DEF PairInv
  <2>2. \A q \in Requests : q # p => Consumed(q)' /\ InitiatorFirst(q)'
    BY <1>s, PairShrinks DEF OthersStay
  <2>3. QED
    BY <1>s, <2>1, <2>2, PairShrinks DEF PairInv
<1>q. ASSUME StoreShrinks, OthersStay(p),
             NotPrivate(p, loc'[p].from), NotPrivate(p, loc'[p].to),
             pc'[p] \notin InitPCs \cup {"join_meta", "join_save_i", "join_save_r"}
      PROVE  PairInv'
  BY <1>q, <1>s DEF Private, Consumed, InitiatorFirst
<1>r. ASSUME StoreShrinks, Return(p)
      PROVE  PairInv'
  BY <1>r, <1>q, <1>n, ReturnEffect DEF InitPCs
<1>1. ASSUME NEW t \in Tokens, NEW m \in Mailboxes, StartInit(p, t, m)
      PROVE  PairInv'
  <2>1. UNCHANGED <<meta, msgs, rdv, advert>>
    BY <1>1 DEF StartInit, store
  <2>2. /\ \A q \in Requests : loc[q].from # m /\ loc[q].to # m
        /\ \A u \in Tokens : rdv[u].mbox # m
        /\ \A n \in Mailboxes : meta[n].peer # m
        /\ meta[m].peer = None
        /\ advert[m] = 0
    <3>1. session[m] = None /\ \A u \in Tokens : u # None
      BY <1>1, StartInitEffect
    <3>2. \A n \in Mailboxes : session[n] = None => ~meta[n].live /\ meta[n].peer = None
      BY DEF SessionInv, MetaOK
    <3>3. QED
      BY <3>1, <3>2 DEF SessionInv, TaskOK, RdvOK, MetaOK, AdvertOK
  <2>3. Private(p)'
    BY <1>1, <2>1, <2>2, StartInitEffect DEF Private, OthersStay
  <2>4. ASSUME NEW q \in Requests, q # p
        PROVE  Private(q)' /\ Consumed(q)' /\ InitiatorFirst(q)'
    <3>1. pc'[q] = pc[q] /\ loc'[q] = loc[q] /\ loc'[p].from = m /\ loc'[p].to = None
      BY <1>1, <2>4, StartInitEffect DEF OthersStay
    <3>2. Private(q)'
      BY <1>1, <2>1, <2>2, <2>4, <3>1, StartInitEffect
      DEF PairInv, Private, OthersStay, TypeInv, LocalsSet
    <3>3. QED
      BY <2>1, <3>1, <3>2 DEF PairInv, Consumed, InitiatorFirst, LinkedOrGone
  <2>5. Consumed(p)' /\ InitiatorFirst(p)'
    BY <1>1, StartInitEffect DEF Consumed, InitiatorFirst
  <2>6. QED
    BY <2>1, <2>3, <2>4, <2>5 DEF PairInv, TokenLeadsToUnpaired, ResponderImpliesPaired
<1>2. ASSUME NEW t \in Tokens, StartJoin(p, t)
      PROVE  PairInv'
  BY <1>2, <1>q, <1>n, StartJoinEffect, TaskShrinks DEF InitPCs
<1>3. ASSUME NEW m \in Mailboxes, StartSend(p, m) \/ StartClose(p, m)
      PROVE  PairInv'
  <2>1. NotPrivate(p, m)
    BY <1>3, StartEffect DEF PairInv, Private, NotPrivate
  <2>2. QED
    BY <1>3, <1>q, <1>n, <2>1, StartEffect, TaskShrinks DEF InitPCs
<1>4. CASE InitMeta(p)
  <2>1. PICK m \in Mailboxes : m = loc[p].from
    BY <1>4, Ids DEF InitMeta, Goto, TypeInv, LocalsSet, InitPCs
  <2>2. /\ SaveMeta(m, None, loc[p].expires)
        /\ pc[p] = "init_meta" /\ pc'[p] = "init_clear" /\ loc'[p] = loc[p] /\ OthersStay(p)
        /\ UNCHANGED <<rdv, advert>>
    BY <1>4, <2>1, GotoEffect DEF InitMeta, history
  <2>3. /\ meta'[m].peer = None
        /\ \A n \in Mailboxes : n # m => meta'[n] = meta[n]
    BY <2>2, SaveMetaEffect
  <2>4. /\ \A q \in Requests : q # p => loc[q].from # m
        /\ \A q \in Requests : loc[q].to # m
        /\ \A t \in Tokens : rdv[t].mbox # m
        /\ \A n \in Mailboxes : meta[n].peer # m
        /\ advert[m] = 0
    BY <2>1, <2>2 DEF PairInv, Private, InitPCs
  <2>5. Private(p)' /\ Consumed(p)' /\ InitiatorFirst(p)'
    BY <2>1, <2>2, <2>3, <2>4 DEF Private, Consumed, InitiatorFirst, OthersStay
  <2>6. ASSUME NEW q \in Requests, q # p
        PROVE  Private(q)' /\ Consumed(q)' /\ InitiatorFirst(q)'
    <3>1. pc'[q] = pc[q] /\ loc'[q] = loc[q] /\ \A r \in Requests : loc'[r] = loc[r]
      BY <2>2, <2>6 DEF OthersStay
    <3>2. Private(q)'
      BY <2>2, <2>3, <3>1, Ids DEF PairInv, Private, TypeInv, LocalsSet
    <3>3. Consumed(q)'
      BY <2>2, <3>1 DEF PairInv, Consumed
    <3>4. InitiatorFirst(q)'
      <4>1. \A n \in Mailboxes : n # m => (LinkedOrGone(n) => (LinkedOrGone(n))')
        BY <2>3 DEF LinkedOrGone
      <4>2. loc[q].from # m /\ loc[q].to # m
        BY <2>4, <2>6
      <4>3. QED
        BY <3>1, <4>1, <4>2, InitiatorFirstKept DEF PairInv
    <3>5. QED
      BY <3>2, <3>3, <3>4
  <2>7. TokenLeadsToUnpaired'
    BY <2>2, <2>3, Ids DEF PairInv, TokenLeadsToUnpaired
  <2>8. ResponderImpliesPaired'
    BY <2>3, <2>4, Ids DEF PairInv, ResponderImpliesPaired
  <2>9. QED
    BY <2>5, <2>6, <2>7, <2>8 DEF PairInv
<1>5. CASE InitClear(p)
  <2>1. /\ pc[p] = "init_clear" /\ pc'[p] = "init_rdv" /\ loc'[p] = loc[p] /\ OthersStay(p)
    BY <1>5, GotoEffect DEF InitClear
  <2>2. UNCHANGED <<meta, rdv, advert>>
    BY <1>5 DEF InitClear, history
  <2>3. Private(p)' /\ Consumed(p)' /\ InitiatorFirst(p)'
    BY <2>1, <2>2 DEF PairInv, Private, Consumed, InitiatorFirst, OthersStay, InitPCs
  <2>4. QED
    BY <1>5, <1>s, <1>n, <2>1, <2>3, TaskShrinks
<1>6. CASE InitRdv(p)
  <2>1. PICK m \in Mailboxes : m = loc[p].from
    BY <1>6, Ids DEF InitRdv, TypeInv, LocalsSet, InitPCs
  <2>2. /\ pc[p] = "init_rdv"
        /\ rdv' = [rdv EXCEPT ![loc[p].tok] = [mbox |-> m, dead |-> now + RendezvousTTL]]
        /\ advert' = [advert EXCEPT ![m] = loc[p].expires]
        /\ Return(p)
        /\ UNCHANGED meta
    BY <1>6, <2>1 DEF InitRdv
  <2>3. /\ \A t \in Tokens : rdv'[t].mbox = rdv[t].mbox \/ rdv'[t].mbox = m
        /\ \A n \in Mailboxes : n # m => advert'[n] = advert[n]
    BY <2>2 DEF TypeInv, TypeOK
  <2>4. /\ \A q \in Requests : q # p => loc[q].from # m
        /\ \A q \in Requests : loc[q].to # m
        /\ meta[m].peer = None
    BY <2>1, <2>2 DEF PairInv, Private, InitPCs
  <2>5. Private(p)' /\ Consumed(p)' /\ InitiatorFirst(p)'
    BY <2>2, ReturnEffect DEF Private, Consumed, InitiatorFirst, InitPCs
  <2>6. ASSUME NEW q \in Requests, q # p
        PROVE  Private(q)' /\ Consumed(q)' /\ InitiatorFirst(q)'
    <3>1. /\ pc'[q] = pc[q] /\ loc'[q] = loc[q] /\ OthersStay(p)
          /\ loc'[p].from = None /\ loc'[p].to = None
      BY <2>2, <2>6, ReturnEffect DEF OthersStay
    <3>2. Private(q)'
      BY <2>2, <2>3, <2>4, <2>6, <3>1, Ids DEF PairInv, Private, OthersStay, TypeInv, LocalsSet
    <3>3. Consumed(q)'
      BY <2>3, <2>4, <2>6, <3>1 DEF PairInv, Consumed
    <3>4. InitiatorFirst(q)'
      BY <2>2, <3>1 DEF PairInv, InitiatorFirst, LinkedOrGone
    <3>5. QED
      BY <3>2, <3>3, <3>4
  <2>7. TokenLeadsToUnpaired'
    BY <2>2, <2>3, <2>4 DEF PairInv, TokenLeadsToUnpaired
  <2>8. QED
    BY <2>2, <2>5, <2>6, <2>7 DEF PairInv, ResponderImpliesPaired
<1>7. CASE JoinGet(p)
  <2>1. StoreShrinks
    BY <1>7, TaskShrinks
  <2>2. CASE ~Return(p)
    <3>1. NotPrivate(p, loc'[p].to) /\ NotPrivate(p, loc'[p].from)
      BY <1>7, <1>n, <2>2, JoinGetEffect DEF PairInv, Private, NotPrivate
    <3>2. QED
      BY <1>7, <1>q, <2>1, <2>2, <3>1, JoinGetEffect DEF InitPCs
  <2>3. QED
    BY <1>r, <2>1, <2>2
<1>8. CASE JoinDel(p)
  <2>1. /\ pc[p] = "join_del" /\ pc'[p] = "join_meta" /\ loc'[p] = loc[p] /\ OthersStay(p)
        /\ rdv' = [rdv EXCEPT ![loc[p].tok] = NoRdv]
    BY <1>8, GotoEffect DEF JoinDel
  <2>2. /\ session[loc[p].to] = loc[p].tok /\ loc[p].to # None
        /\ loc[p].tok \in Tokens
    BY <2>1, Ids DEF SessionInv, TaskOK, TypeInv, LocalsSet
  <2>3. \A t \in Tokens : rdv'[t].mbox # loc[p].to
    BY <2>1, <2>2 DEF SessionInv, RdvOK, NoRdv, TypeInv, TypeOK
  <2>4. Private(p)' /\ Consumed(p)' /\ InitiatorFirst(p)'
    BY <2>1, <2>3 DEF Private, Consumed, InitiatorFirst, InitPCs
  <2>5. QED
    BY <1>8, <1>s, <1>n, <2>1, <2>4, TaskShrinks
<1>9. CASE JoinMeta(p)
  <2>0. UNCHANGED <<meta, msgs, rdv, advert>>
    BY <1>9 DEF JoinMeta, store
  <2>1. CASE Return(p) /\ UNCHANGED session
    BY <1>r, <2>0, <2>1 DEF StoreShrinks
  <2>2. CASE ~(Return(p) /\ UNCHANGED session)
    <3>1. PICK r \in Mailboxes :
             /\ pc[p] = "join_meta" /\ pc'[p] = "join_save_i"
             /\ session[r] = None
             /\ loc'[p].to = loc[p].to
             /\ loc'[p].from = r
             /\ OthersStay(p)
      BY <1>9, <2>2, JoinMetaEffect
    <3>2. \A t \in Tokens : rdv[t].mbox # r
      BY <3>1 DEF SessionInv, RdvOK
    <3>3. \A q \in Requests : pc[q] \in InitPCs => loc[q].from # r
      BY <3>1 DEF SessionInv, TaskOK, TypeInv, LocalsSet
    <3>4. \A q \in Requests : q # p /\ pc[q] \in InitPCs => loc[q].from # loc[p].to
      BY <1>n DEF NotPrivate
    <3>5. Private(p)' /\ Consumed(p)'
      BY <2>0, <3>1, <3>2 DEF PairInv, Private, Consumed, InitPCs
    <3>i. InitiatorFirst(p)'
      BY <2>0, <3>1 DEF InitiatorFirst, LinkedOrGone, SessionInv, MetaOK
    <3>6. ASSUME NEW q \in Requests, q # p
          PROVE  Private(q)' /\ Consumed(q)' /\ InitiatorFirst(q)'
      <4>1. pc'[q] = pc[q] /\ loc'[q] = loc[q]
        BY <3>1, <3>6 DEF OthersStay
      <4>2. Private(q)'
        BY <2>0, <3>1, <3>3, <3>4, <3>6 DEF PairInv, Private, OthersStay
      <4>3. QED
        BY <2>0, <4>1, <4>2 DEF PairInv, Consumed, InitiatorFirst, LinkedOrGone
    <3>7. QED
      BY <2>0, <3>5, <3>i, <3>6 DEF PairInv, TokenLeadsToUnpaired, ResponderImpliesPaired
  <2>3. QED
    BY <2>1, <2>2
<1>10. CASE JoinSaveInitiator(p) \/ JoinSaveResponder(p)
  <2>1. PICK m \in Mailboxes, x \in Mailboxes :
          /\ SaveMeta(m, x, loc[p].expires)
          /\ \/ /\ pc[p] = "join_save_i" /\ pc'[p] = "join_save_r"
                /\ m = loc[p].to /\ x = loc[p].from
             \/ /\ pc[p] = "join_save_r" /\ pc'[p] = "join_clear"
                /\ m = loc[p].from /\ x = loc[p].to
          /\ loc'[p] = loc[p] /\ OthersStay(p)
          /\ UNCHANGED <<rdv, advert>>
    <3>1. CASE JoinSaveInitiator(p)
      <4>1. /\ pc[p] = "join_save_i" /\ pc'[p] = "join_save_r"
            /\ loc'[p] = loc[p] /\ OthersStay(p) /\ UNCHANGED <<rdv, advert>>
        BY <3>1, GotoEffect DEF JoinSaveInitiator, history
      <4>2. PICK m \in Mailboxes, x \in Mailboxes : m = loc[p].to /\ x = loc[p].from
        BY <4>1, Ids DEF TypeInv, LocalsSet
      <4>3. SaveMeta(m, x, loc[p].expires)
        BY <3>1, <4>2 DEF JoinSaveInitiator
      <4>4. QED
        BY <4>1, <4>2, <4>3
    <3>2. CASE JoinSaveResponder(p)
      <4>1. /\ pc[p] = "join_save_r" /\ pc'[p] = "join_clear"
            /\ loc'[p] = loc[p] /\ OthersStay(p) /\ UNCHANGED <<rdv, advert>>
        BY <3>2, GotoEffect DEF JoinSaveResponder, history
      <4>2. PICK m \in Mailboxes, x \in Mailboxes : m = loc[p].from /\ x = loc[p].to
        BY <4>1, Ids DEF TypeInv, LocalsSet
      <4>3. SaveMeta(m, x, loc[p].expires)
        BY <3>2, <4>2 DEF JoinSaveResponder
      <4>4. QED
        BY <4>1, <4>2, <4>3
    <3>3. QED
      BY <1>10, <3>1, <3>2
  <2>2. /\ meta'[m].live /\ meta'[m].peer = x
        /\ \A n \in Mailboxes : n # m => meta'[n] = meta[n]
    BY <2>1, SaveMetaEffect
  <2>3. \A t \in Tokens : rdv[t].mbox # m
    BY <2>1 DEF PairInv, Consumed
  <2>4. NotPrivate(p, m) /\ NotPrivate(p, x)
    BY <1>n, <2>1
  <2>5. LinkedOrGone(x)
    BY <2>1 DEF PairInv, InitiatorFirst
  <2>6. Private(p)' /\ Consumed(p)' /\ InitiatorFirst(p)'
    BY <2>1, <2>2 DEF PairInv, Private, Consumed, InitiatorFirst, LinkedOrGone, InitPCs
  <2>7. ASSUME NEW q \in Requests, q # p
        PROVE  Private(q)' /\ Consumed(q)' /\ InitiatorFirst(q)'
    <3>1. pc'[q] = pc[q] /\ loc'[q] = loc[q] /\ \A r \in Requests : loc'[r] = loc[r]
      BY <2>1, <2>7 DEF OthersStay
    <3>2. Private(q)'
      BY <2>1, <2>2, <2>4, <2>7, <3>1, Ids DEF PairInv, Private, NotPrivate, TypeInv, LocalsSet
    <3>3. Consumed(q)'
      BY <2>1, <3>1 DEF PairInv, Consumed
    <3>4. InitiatorFirst(q)'
      <4>1. \A n \in Mailboxes : LinkedOrGone(n) => (LinkedOrGone(n))'
        BY <2>2, Ids DEF LinkedOrGone
      <4>2. QED
        BY <3>1, <4>1, InitiatorFirstKept DEF PairInv
    <3>5. QED
      BY <3>2, <3>3, <3>4
  <2>8. TokenLeadsToUnpaired'
    BY <2>1, <2>2, <2>3, Ids DEF PairInv, TokenLeadsToUnpaired
  <2>9. ResponderImpliesPaired'
    <3>1. ASSUME NEW r \in Mailboxes, meta'[r].live, meta'[r].peer # None,
                 meta'[meta'[r].peer].live
          PROVE  meta'[meta'[r].peer].peer # None
      <4>1. meta'[r].peer \in Mailboxes
        BY <2>2, <3>1, Ids
      <4>2. CASE meta'[r].peer = m
        BY <2>2, <4>2
      <4>3. CASE meta'[r].peer # m /\ r # m
        BY <2>2, <3>1, <4>1, <4>3 DEF PairInv, ResponderImpliesPaired
      <4>4. CASE meta'[r].peer # m /\ r = m
        BY <2>2, <2>5, <3>1, <4>1, <4>4 DEF LinkedOrGone
      <4>5. QED
        BY <4>2, <4>3, <4>4
    <3>2. QED
      BY <3>1 DEF ResponderImpliesPaired
  <2>10. QED
    BY <2>6, <2>7, <2>8, <2>9 DEF PairInv
<1>11. CASE JoinClear(p)
  BY <1>11, <1>q, <1>n, GotoEffect, TaskShrinks DEF JoinClear, InitPCs
<1>12. CASE GetCount(p)
  BY <1>12, <1>q, <1>n, GetCountEffect, TaskShrinks DEF InitPCs
<1>13. CASE Push(p)
  <2>1. /\ pc'[p] = "expire" /\ loc'[p] = loc[p] /\ OthersStay(p)
        /\ UNCHANGED <<meta, rdv, advert>>
    BY <1>13, GotoEffect DEF Push, history
  <2>2. \A q \in Requests : Private(q)' /\ Consumed(q)' /\ InitiatorFirst(q)'
    BY <2>1 DEF PairInv, Private, Consumed, InitiatorFirst, LinkedOrGone, OthersStay, InitPCs
  <2>3. QED
    BY <2>1, <2>2 DEF PairInv, TokenLeadsToUnpaired, ResponderImpliesPaired
<1>14. CASE SetExpiry(p)
  <2>1. PICK m \in Mailboxes : m = loc[p].from
    BY <1>14, Ids DEF SetExpiry, TypeInv, LocalsSet
  <2>2. /\ Return(p)
        /\ \A n \in Mailboxes : n # m => advert'[n] = advert[n]
        /\ UNCHANGED <<meta, rdv>>
    BY <1>14, <2>1 DEF SetExpiry, TypeInv, TypeOK
  <2>3. NotPrivate(p, m)
    BY <1>n, <2>1
  <2>4. Private(p)' /\ Consumed(p)' /\ InitiatorFirst(p)'
    BY <2>2, ReturnEffect DEF Private, Consumed, InitiatorFirst, InitPCs
  <2>5. ASSUME NEW q \in Requests, q # p
        PROVE  Private(q)' /\ Consumed(q)' /\ InitiatorFirst(q)'
    <3>1. /\ pc'[q] = pc[q] /\ loc'[q] = loc[q] /\ OthersStay(p)
          /\ loc'[p].from = None /\ loc'[p].to = None
      BY <2>2, <2>5, ReturnEffect DEF OthersStay
    <3>2. Private(q)'
      BY <2>2, <2>3, <2>5, <3>1, Ids
      DEF PairInv, Private, NotPrivate, OthersStay, TypeInv, LocalsSet
    <3>3. QED
      BY <2>2, <3>1, <3>2 DEF PairInv, Consumed, InitiatorFirst, LinkedOrGone
  <2>6. QED
    BY <2>2, <2>4, <2>5 DEF PairInv, TokenLeadsToUnpaired, ResponderImpliesPaired
<1>15. CASE SendMeta(p) \/ CloseMeta(p)
  <2>1. StoreShrinks
    BY <1>15, TaskShrinks
  <2>2. CASE ~Return(p)
    <3>1. NotPrivate(p, loc'[p].to) /\ NotPrivate(p, loc'[p].from)
      BY <1>15, <1>n, <2>2, ReadOwnEffect DEF PairInv, Private, NotPrivate
    <3>2. QED
      BY <1>15, <1>q, <2>1, <2>2, <3>1, ReadOwnEffect DEF InitPCs
  <2>3. QED
    BY <1>r, <2>1, <2>2
<1>16. CASE CloseOwn(p)
  <2>1. StoreShrinks
    BY <1>16, TaskShrinks
  <2>2. CASE ~Return(p)
    BY <1>16, <1>q, <1>n, <2>1, <2>2, CloseOwnEffect DEF InitPCs
  <2>3. QED
    BY <1>r, <2>1, <2>2
<1>17. CASE ClosePeer(p) \/ Abort(p)
  BY <1>r, <1>17, TaskShrinks DEF ClosePeer, Abort
<1>18. QED
  BY <1>1, <1>2, <1>3, <1>4, <1>5, <1>6, <1>7, <1>8, <1>9, <1>10, <1>11, <1>12, <1>13,
     <1>14, <1>15, <1>16, <1>17 DEF Start, Step

LEMMA PairInvStep == TypeInv /\ SessionInv /\ PairInv /\ [Next]_vars => PairInv'
<1> SUFFICES ASSUME TypeInv, SessionInv, PairInv, [Next]_vars
             PROVE  PairInv'
  OBVIOUS
<1>1. ASSUME StoreShrinks, UNCHANGED <<pc, loc>>
      PROVE  PairInv'
  <2>1. \A n \in Mailboxes : meta'[n].peer = meta[n].peer \/ meta'[n].peer = None
    BY <1>1, NoMetaType DEF StoreShrinks
  <2>2. \A t \in Tokens : rdv'[t].mbox = rdv[t].mbox \/ rdv'[t].mbox = None
    BY <1>1 DEF StoreShrinks, NoRdv
  <2>3. \A q \in Requests : Private(q)'
    BY <1>1, <2>1, <2>2, Ids DEF PairInv, Private, StoreShrinks, TypeInv, LocalsSet
  <2>4. QED
    BY <1>1, <2>3, PairShrinks DEF PairInv
<1>2. CASE UNCHANGED vars
  BY <1>1, <1>2 DEF vars, StoreShrinks
<1>3. CASE StoreStep
  BY <1>1, <1>3, StoreStepShrinks
<1>4. ASSUME NEW p \in Requests, Start(p) \/ Step(p) \/ Abort(p)
      PROVE  PairInv'
  BY <1>4, PairInvTask
<1>5. QED
  BY <1>2, <1>3, <1>4 DEF Next, StoreStep

LEMMA PairInvariant == Spec => [](TypeInv /\ SessionInv /\ PairInv)
<1>1. Init => TypeInv /\ SessionInv /\ PairInv
  BY TypeInvInit, SessionInvInit, PairInvInit
<1>2. TypeInv /\ SessionInv /\ PairInv /\ [Next]_vars => (TypeInv /\ SessionInv /\ PairInv)'
  BY TypeInvStep, SessionInvStep, PairInvStep
<1>3. QED
  BY <1>1, <1>2, PTL DEF Spec

\* A token that can still be joined leads to a mailbox without a peer.
THEOREM TokenGoesBeforeLink == Spec => []TokenLeadsToUnpaired
BY PairInvariant, PTL DEF PairInv

\* A responder whose mailbox answers has an initiator that knows of a peer.
THEOREM InitiatorKnowsOfPeer == Spec => []ResponderImpliesPaired
BY PairInvariant, PTL DEF PairInv

-----------------------------------------------------------------------------
(* Message lists without a TTL.  The invariant is inductive as it stands:  *)
(* only RPUSH makes such a list, and the task that sent it is then at      *)
(* "expire" until it sends EXPIRE or stops.                                *)

\* Every list stays as it is or goes, and no task enters or leaves "expire".
ListsShrink ==
    /\ \A m \in Mailboxes :
          \/ msgs'[m] = <<>>
          \/ msgs'[m] = msgs[m] /\ (listDead'[m] = 0 => listDead[m] = 0)
    /\ \A p \in Requests : pc[p] = "expire" => pc'[p] = "expire" /\ loc'[p] = loc[p]
    /\ leaked \subseteq leaked'

LEMMA ListsShrinkKeeps ==
  ASSUME ImmortalListHasWriter, ListsShrink
  PROVE  ImmortalListHasWriter'
BY DEF ImmortalListHasWriter, ListsShrink

\* The steps of a task that are not RPUSH, EXPIRE or the end of a task before
\* its EXPIRE.
LEMMA TaskListsShrink ==
  ASSUME TypeInv, NEW p \in Requests, Start(p) \/ Step(p) \/ Abort(p),
         ~Push(p), pc[p] # "expire"
  PROVE  ListsShrink
<1>1. \A q \in Requests : pc[q] = "expire" => pc'[q] = "expire" /\ loc'[q] = loc[q]
  <2>1. ASSUME NEW q \in Requests, q # p
        PROVE  pc'[q] = pc[q] /\ loc'[q] = loc[q]
    <3>1. OthersStay(p)
      <4>1. ASSUME NEW t \in Tokens, NEW m \in Mailboxes, StartInit(p, t, m)
            PROVE  OthersStay(p)
        BY <4>1, StartInitEffect
      <4>2. ASSUME NEW t \in Tokens, StartJoin(p, t)
            PROVE  OthersStay(p)
        BY <4>2, StartJoinEffect
      <4>3. ASSUME NEW m \in Mailboxes, StartSend(p, m) \/ StartClose(p, m)
            PROVE  OthersStay(p)
        BY <4>3, StartEffect
      <4>4. CASE InitMeta(p) \/ InitClear(p) \/ JoinDel(p) \/ JoinSaveInitiator(p)
                 \/ JoinSaveResponder(p) \/ JoinClear(p)
        BY <4>4, GotoEffect
        DEF InitMeta, InitClear, JoinDel, JoinSaveInitiator, JoinSaveResponder, JoinClear
      <4>5. CASE Return(p)
        BY <4>5, ReturnEffect
      <4>6. CASE InitRdv(p) \/ SetExpiry(p) \/ ClosePeer(p) \/ Abort(p)
        BY <4>5, <4>6 DEF InitRdv, SetExpiry, ClosePeer, Abort
      <4>7. CASE JoinGet(p) \/ SendMeta(p) \/ CloseMeta(p) \/ CloseOwn(p)
        BY <4>5, <4>7, JoinGetEffect, ReadOwnEffect, CloseOwnEffect
      <4>8. CASE JoinMeta(p)
        BY <4>5, <4>8, JoinMetaEffect
      <4>9. CASE GetCount(p)
        BY <4>9, GetCountEffect
      <4>10. QED
        BY <4>1, <4>2, <4>3, <4>4, <4>6, <4>7, <4>8, <4>9 DEF Start, Step
    <3>2. QED
      BY <2>1, <3>1 DEF OthersStay
  <2>2. QED
    BY <2>1
<1>2. leaked \subseteq leaked'
  BY DEF Start, Step, StartInit, StartJoin, StartSend, StartClose, InitMeta, InitClear, InitRdv,
     JoinGet, JoinDel, JoinMeta, JoinSaveInitiator, JoinSaveResponder, JoinClear, GetCount,
     SetExpiry, SendMeta, CloseMeta, CloseOwn, ClosePeer, Abort, history
<1>3. \A m \in Mailboxes : \/ msgs'[m] = <<>>
                           \/ msgs'[m] = msgs[m] /\ listDead'[m] = listDead[m]
  <2>1. CASE \/ InitClear(p) \/ JoinClear(p) \/ CloseOwn(p) \/ ClosePeer(p)
    <3>1. PICK b : ClearMessages(b)
      BY <2>1 DEF InitClear, JoinClear, CloseOwn, ClosePeer, DeleteMailbox
    <3>2. QED
      BY <3>1 DEF ClearMessages, TypeInv, TypeOK
  <2>2. CASE ~(InitClear(p) \/ JoinClear(p) \/ CloseOwn(p) \/ ClosePeer(p))
    <3>1. UNCHANGED <<msgs, listDead>>
      BY <2>2 DEF Start, Step, StartInit, StartJoin, StartSend, StartClose, InitMeta, InitRdv,
         JoinGet, JoinDel, JoinMeta, JoinSaveInitiator, JoinSaveResponder, GetCount,
         SetExpiry, SendMeta, CloseMeta, Abort, store
    <3>2. QED
      BY <3>1
  <2>3. QED
    BY <2>1, <2>2
<1>4. QED
  BY <1>1, <1>2, <1>3 DEF ListsShrink

LEMMA WriterStep == TypeInv /\ ImmortalListHasWriter /\ [Next]_vars => ImmortalListHasWriter'
<1> SUFFICES ASSUME TypeInv, ImmortalListHasWriter, [Next]_vars
             PROVE  ImmortalListHasWriter'
  OBVIOUS
<1>1. CASE UNCHANGED vars
  BY <1>1 DEF vars, ImmortalListHasWriter
<1>2. CASE StoreStep
  <2>1. leaked' = leaked
    BY <1>2 DEF StoreStep, EvictMeta, EvictList, EvictRdv, Tick, history
  <2>2. ASSUME NEW m \in Mailboxes
        PROVE  \/ msgs'[m] = <<>>
               \/ msgs'[m] = msgs[m] /\ (listDead'[m] = 0 => listDead[m] = 0)
    <3>1. CASE Tick
      <4>1. /\ msgs'[m] = IF listDead[m] # 0 /\ listDead[m] <= now' THEN <<>> ELSE msgs[m]
            /\ listDead'[m] = IF listDead[m] <= now' THEN 0 ELSE listDead[m]
        BY <3>1 DEF Tick
      <4>2. QED
        BY <4>1
    <3>2. CASE ~Tick
      BY <1>2, <3>2
      DEF StoreStep, EvictMeta, EvictList, EvictRdv, ClearMessages, TypeInv, TypeOK
    <3>3. QED
      BY <3>1, <3>2
  <2>3. ListsShrink
    BY <1>2, <2>1, <2>2, StoreStepShrinks DEF ListsShrink
  <2>4. QED
    BY <2>3, ListsShrinkKeeps
<1>3. ASSUME NEW p \in Requests, Push(p)
      PROVE  ImmortalListHasWriter'
  <2>1. PICK b \in Mailboxes : b = loc[p].to
    BY <1>3, Ids DEF Push, Goto, TypeInv, LocalsSet
  <2>2. /\ pc[p] = "push" /\ pc'[p] = "expire" /\ loc'[p].to = b
        /\ \A q \in Requests : q # p => pc'[q] = pc[q] /\ loc'[q] = loc[q]
    BY <1>3, <2>1, GotoEffect DEF Push, OthersStay
  <2>3. /\ \A n \in Mailboxes : n # b => msgs'[n] = msgs[n]
        /\ UNCHANGED <<listDead, leaked>>
    BY <1>3, <2>1 DEF Push, history, TypeInv, TypeOK
  <2>4. QED
    BY <2>2, <2>3 DEF ImmortalListHasWriter
<1>4. ASSUME NEW p \in Requests, SetExpiry(p) \/ (Abort(p) /\ pc[p] = "expire")
      PROVE  ImmortalListHasWriter'
  <2>1. PICK b \in Mailboxes : b = loc[p].to
    BY <1>4, Ids DEF SetExpiry, TypeInv, LocalsSet
  <2>2. \A q \in Requests : q # p => pc'[q] = pc[q] /\ loc'[q] = loc[q]
    BY <1>4, ReturnEffect DEF SetExpiry, Abort, OthersStay
  <2>3. /\ leaked \subseteq leaked' /\ UNCHANGED msgs
        /\ \A n \in Mailboxes : n # b => listDead'[n] = listDead[n]
    BY <1>4, <2>1 DEF SetExpiry, Abort, store, TypeInv, TypeOK
  <2>4. b \in leaked' \/ msgs[b] = <<>> \/ listDead'[b] # 0
    <3>1. CASE SetExpiry(p)
      <4>1. msgs[b] # <<>> => listDead'[b] = now + MailboxTTL
        BY <2>1, <3>1 DEF SetExpiry, TypeInv, TypeOK
      <4>2. now + MailboxTTL # 0
        BY TTLAssumption DEF TypeInv, TypeOK
      <4>3. QED
        BY <4>1, <4>2
    <3>2. CASE Abort(p) /\ pc[p] = "expire"
      BY <2>1, <3>2 DEF Abort
    <3>3. QED
      BY <1>4, <3>1, <3>2
  <2>5. \A q \in Requests : q # p \/ loc[q].to = b
    BY <2>1
  <2>6. QED
    BY <2>2, <2>3, <2>4, <2>5 DEF ImmortalListHasWriter
<1>5. ASSUME NEW p \in Requests, Start(p) \/ Step(p) \/ Abort(p)
      PROVE  ImmortalListHasWriter'
  <2>1. CASE Push(p) \/ SetExpiry(p) \/ (Abort(p) /\ pc[p] = "expire")
    BY <1>3, <1>4, <2>1
  <2>2. CASE ~Push(p) /\ ~SetExpiry(p) /\ ~(Abort(p) /\ pc[p] = "expire")
    <3>1. pc[p] # "expire"
      BY <1>5, <2>2 DEF Start, Step, StartInit, StartJoin, StartSend, StartClose, InitMeta,
         InitClear, InitRdv, JoinGet, JoinDel, JoinMeta, JoinSaveInitiator, JoinSaveResponder,
         JoinClear, GetCount, SendMeta, CloseMeta, CloseOwn, ClosePeer, Goto
    <3>2. QED
      BY <1>5, <2>2, <3>1, TaskListsShrink, ListsShrinkKeeps
  <2>3. QED
    BY <2>1, <2>2
<1>6. QED
  BY <1>1, <1>2, <1>5 DEF Next, StoreStep

\* A message list that never expires has a task that is about to send EXPIRE
\* or was left by one that stopped right before it.
THEOREM ImmortalListsExplained == Spec => []ImmortalListHasWriter
<1>1. Init => ImmortalListHasWriter
  BY DEF Init, ImmortalListHasWriter
<1>2. QED
  BY <1>1, TypeInvInit, TypeInvStep, WriterStep, PTL DEF Spec

-----------------------------------------------------------------------------
(* What a client was told about its mailbox's lifetime.  A join writes     *)
(* back the initiator's record it read two commands before, so the         *)
(* invariant bounds the expiry that a task holds as well as the stored     *)
(* one: every write then sets a TTL that ends no earlier.                  *)

\* The mailbox m is there until the time e, unless it was closed or evicted.
LivesUntil(m, e) ==
    \/ e <= now
    \/ m \in deleted
    \/ meta[m].live /\ e <= meta[m].dead

TaskLife(p) ==
    /\ pc[p] \in {"init_meta", "join_save_i", "join_save_r"}
        => loc[p].expires <= now + MailboxTTL
    /\ pc[p] \in {"init_clear", "init_rdv", "join_clear", "llen", "push", "expire"}
        => LivesUntil(loc[p].from, loc[p].expires)
    /\ pc[p] = "send_meta" => loc[p].expires = 0

RecordLife(m) ==
    /\ meta[m].live => /\ meta[m].expires <= now + MailboxTTL
                       /\ meta[m].dead <= now + MailboxTTL
    /\ LivesUntil(m, advert[m])

LifeInv ==
    /\ \A p \in Requests : TaskLife(p)
    /\ \A m \in Mailboxes : RecordLife(m)

\* A record stays, is written with a fresh TTL, or goes: by a close or an
\* eviction, or at the end of its TTL.
RecordSteps ==
    /\ now <= now'
    /\ deleted \subseteq deleted'
    /\ \A m \in Mailboxes :
          \/ meta'[m] = meta[m]
          \/ /\ meta'[m].live
             /\ meta'[m].dead = now + MailboxTTL
             /\ meta'[m].expires <= now + MailboxTTL
          \/ /\ ~meta'[m].live
             /\ meta[m].live => m \in deleted' \/ meta[m].dead <= now'

\* The numbers of a state.
LEMMA Times ==
  ASSUME TypeInv
  PROVE  /\ now \in Nat /\ MailboxTTL \in Nat
         /\ \A p \in Requests : loc[p].expires \in Nat
         /\ \A m \in Mailboxes : /\ meta[m].expires \in Nat
                                 /\ meta[m].dead \in Nat
                                 /\ advert[m] \in Nat
BY TTLAssumption DEF TypeInv, TypeOK, LocRecord, MetaRecord

LEMMA Later ==
  ASSUME NEW a \in Nat, NEW b \in Nat, NEW c \in Nat, NEW e \in Nat, a <= b, e <= a + c
  PROVE  e <= b + c
OBVIOUS

\* A mailbox that lives until e still does after such a step.
LEMMA LivesOn ==
  ASSUME TypeInv, TypeInv', LifeInv, RecordSteps, NEW m \in Mailboxes, NEW e \in Nat,
         LivesUntil(m, e)
  PROVE  LivesUntil(m, e)'
<1>1. /\ meta[m].live => meta[m].dead <= now + MailboxTTL
      /\ meta[m].dead \in Nat /\ now \in Nat /\ MailboxTTL \in Nat
  BY Times DEF LifeInv, RecordLife
<1>2. now' \in Nat /\ now <= now' /\ meta'[m].dead \in Nat
  BY DEF RecordSteps, TypeInv, TypeOK, MetaRecord
<1>3. CASE e <= now \/ m \in deleted
  BY <1>1, <1>2, <1>3 DEF LivesUntil, RecordSteps
<1>4. CASE meta[m].live /\ e <= meta[m].dead
  <2>1. CASE meta'[m] = meta[m]
    BY <1>4, <2>1 DEF LivesUntil
  <2>2. CASE meta'[m].live /\ meta'[m].dead = now + MailboxTTL
    BY <1>1, <1>4, <2>2 DEF LivesUntil
  <2>3. CASE m \in deleted' \/ meta[m].dead <= now'
    BY <1>1, <1>2, <1>4, <2>3 DEF LivesUntil
  <2>4. QED
    BY <1>4, <2>1, <2>2, <2>3 DEF RecordSteps
<1>5. QED
  BY <1>3, <1>4 DEF LivesUntil

LEMMA TaskLifeKept ==
  ASSUME TypeInv, TypeInv', LifeInv, RecordSteps, NEW q \in Requests,
         pc'[q] = pc[q], loc'[q] = loc[q]
  PROVE  TaskLife(q)'
<1>1. PICK e \in Nat : e = loc[q].expires
  BY Times
<1>2. CASE pc[q] \in {"init_meta", "join_save_i", "join_save_r"}
  <2>1. e <= now + MailboxTTL /\ now <= now'
    BY <1>1, <1>2 DEF LifeInv, TaskLife, RecordSteps
  <2>2. now \in Nat /\ now' \in Nat /\ MailboxTTL \in Nat
    BY Times DEF TypeInv, TypeOK
  <2>3. e <= now' + MailboxTTL
    BY <2>1, <2>2, Later
  <2>4. QED
    BY <1>1, <1>2, <2>3 DEF TaskLife
<1>3. CASE pc[q] \in {"init_clear", "init_rdv", "join_clear", "llen", "push", "expire"}
  <2>1. PICK m \in Mailboxes : m = loc[q].from
    BY <1>3, Ids DEF TypeInv, LocalsSet, InitPCs
  <2>2. LivesUntil(m, e)
    BY <1>1, <1>3, <2>1 DEF LifeInv, TaskLife
  <2>3. LivesUntil(m, e)'
    BY <2>2, LivesOn
  <2>4. m = loc'[q].from /\ e = loc'[q].expires
    BY <1>1, <2>1
  <2>5. QED
    BY <1>3, <2>3, <2>4 DEF TaskLife, LivesUntil
<1>4. QED
  BY <1>2, <1>3 DEF LifeInv, TaskLife

LEMMA RecordLifeKept ==
  ASSUME TypeInv, TypeInv', LifeInv, RecordSteps, NEW m \in Mailboxes,
         advert'[m] = advert[m] \/ LivesUntil(m, advert[m])'
  PROVE  RecordLife(m)'
<1>1. PICK e \in Nat : e = advert[m]
  BY Times
<1>2. LivesUntil(m, e)'
  BY <1>1, LivesOn DEF LifeInv, RecordLife
<1>3. LivesUntil(m, advert[m])'
  BY <1>1, <1>2 DEF LivesUntil
<1>4. now \in Nat /\ now' \in Nat /\ MailboxTTL \in Nat /\ now <= now'
  BY Times DEF TypeInv, TypeOK, RecordSteps
<1>5. meta'[m].expires \in Nat /\ meta'[m].dead \in Nat
  BY DEF TypeInv, TypeOK, MetaRecord
<1>6. meta'[m].live => meta'[m].expires <= now + MailboxTTL /\ meta'[m].dead <= now + MailboxTTL
  BY <1>4 DEF RecordSteps, LifeInv, RecordLife
<1>7. meta'[m].live => meta'[m].expires <= now' + MailboxTTL
                       /\ meta'[m].dead <= now' + MailboxTTL
  BY <1>4, <1>5, <1>6, Later
<1>8. QED
  BY <1>3, <1>7 DEF RecordLife

\* A task's step keeps the invariant when the task's own part and the expiry
\* it tells a client are right.
LEMMA LifeKept ==
  ASSUME TypeInv, TypeInv', LifeInv, RecordSteps, NEW p \in Requests, OthersStay(p),
         TaskLife(p)',
         \A m \in Mailboxes : advert'[m] = advert[m] \/ LivesUntil(m, advert[m])'
  PROVE  LifeInv'
BY TaskLifeKept, RecordLifeKept DEF LifeInv, OthersStay

\* A task that goes on to its next command, the store left alone.
LEMMA LifeMoves ==
  ASSUME TypeInv, TypeInv', LifeInv, NEW p \in Requests, UNCHANGED <<meta, now, deleted>>,
         pc[p] \in {"init_clear", "join_clear", "llen", "push"},
         pc'[p] \in {"init_rdv", "llen", "push", "expire"},
         loc'[p].from = loc[p].from, loc'[p].expires = loc[p].expires
  PROVE  TaskLife(p)'
<1>1. LivesUntil(loc[p].from, loc[p].expires)
  BY DEF LifeInv, TaskLife
<1>2. QED
  BY <1>1 DEF TaskLife, LivesUntil

LEMMA ReturnLife ==
  ASSUME TypeInv, NEW p \in Requests, Return(p)
  PROVE  TaskLife(p)' /\ OthersStay(p)
BY ReturnEffect DEF TaskLife

LEMMA SaveLife ==
  ASSUME TypeInv, NEW m \in Mailboxes, NEW x, NEW e \in Nat, SaveMeta(m, x, e),
         e <= now + MailboxTTL, UNCHANGED <<now, deleted>>
  PROVE  /\ RecordSteps
         /\ meta'[m].live /\ e <= meta'[m].dead
BY SaveMetaEffect, Times DEF RecordSteps

LEMMA DeleteLife ==
  ASSUME TypeInv, NEW m, DeleteMailbox(m), UNCHANGED now
  PROVE  RecordSteps
<1>1. now <= now' /\ deleted \subseteq deleted'
  BY DEF DeleteMailbox, TypeInv, TypeOK
<1>2. ASSUME NEW n \in Mailboxes
      PROVE  \/ meta'[n] = meta[n]
             \/ ~meta'[n].live /\ (meta[n].live => n \in deleted')
  BY NoMetaType DEF DeleteMailbox, TypeInv, TypeOK
<1>3. QED
  BY <1>1, <1>2 DEF RecordSteps

LEMMA LifeTask ==
  ASSUME TypeInv, TypeInv', LifeInv, NEW p \in Requests, Start(p) \/ Step(p) \/ Abort(p)
  PROVE  LifeInv'
<1>u. ASSUME UNCHANGED <<meta, now, deleted>>
      PROVE  RecordSteps
  BY <1>u, Times DEF RecordSteps
<1>s. ASSUME UNCHANGED <<meta, now, deleted, advert>>, OthersStay(p), TaskLife(p)'
      PROVE  LifeInv'
  BY <1>s, <1>u, LifeKept
<1>l. TaskLife(p)
  BY DEF LifeInv
<1>1. ASSUME NEW t \in Tokens, NEW m \in Mailboxes, StartInit(p, t, m)
      PROVE  LifeInv'
  <2>1. UNCHANGED <<meta, now, deleted, advert>>
    BY <1>1 DEF StartInit, store
  <2>2. TaskLife(p)'
    BY <1>1, <2>1, StartInitEffect, Times DEF TaskLife
  <2>3. QED
    BY <1>1, <1>s, <2>1, <2>2, StartInitEffect
<1>2. ASSUME NEW t \in Tokens, StartJoin(p, t)
      PROVE  LifeInv'
  <2>1. UNCHANGED <<meta, now, deleted, advert>>
    BY <1>2 DEF StartJoin, store, history
  <2>2. TaskLife(p)'
    BY <1>2, StartJoinEffect DEF TaskLife
  <2>3. QED
    BY <1>2, <1>s, <2>1, <2>2, StartJoinEffect
<1>3. ASSUME NEW m \in Mailboxes, StartSend(p, m) \/ StartClose(p, m)
      PROVE  LifeInv'
  <2>1. UNCHANGED <<meta, now, deleted, advert>>
    BY <1>3 DEF StartSend, StartClose, store, history
  <2>2. PICK l \in LocRecord : loc' = [loc EXCEPT ![p] = l] /\ l.expires = 0
    BY <1>3, NoLocFrom DEF StartSend, StartClose, NoLoc
  <2>3. loc'[p].expires = 0
    BY <2>2 DEF TypeInv, TypeOK
  <2>4. TaskLife(p)'
    BY <1>3, <2>3, StartEffect DEF TaskLife
  <2>5. QED
    BY <1>3, <1>s, <2>1, <2>4, StartEffect
<1>4. CASE InitMeta(p)
  <2>1. PICK m \in Mailboxes : m = loc[p].from
    BY <1>4, Ids DEF InitMeta, Goto, TypeInv, LocalsSet, InitPCs
  <2>2. PICK e \in Nat : e = loc[p].expires
    BY Times
  <2>3. /\ SaveMeta(m, None, e)
        /\ pc[p] = "init_meta" /\ pc'[p] = "init_clear" /\ loc'[p] = loc[p] /\ OthersStay(p)
        /\ UNCHANGED <<now, deleted, advert>>
    BY <1>4, <2>1, <2>2, GotoEffect DEF InitMeta, history
  <2>4. e <= now + MailboxTTL
    BY <1>l, <2>2, <2>3 DEF TaskLife
  <2>5. RecordSteps /\ meta'[m].live /\ e <= meta'[m].dead
    BY <2>3, <2>4, SaveLife
  <2>6. TaskLife(p)'
    BY <2>1, <2>2, <2>3, <2>5 DEF TaskLife, LivesUntil
  <2>7. QED
    BY <2>3, <2>5, <2>6, LifeKept
<1>5. CASE InitClear(p) \/ JoinClear(p) \/ Push(p)
  <2>1. /\ pc[p] \in {"init_clear", "join_clear", "push"}
        /\ pc'[p] \in {"init_rdv", "llen", "expire"}
        /\ loc'[p] = loc[p] /\ OthersStay(p)
    BY <1>5, GotoEffect DEF InitClear, JoinClear, Push
  <2>2. UNCHANGED <<meta, now, deleted, advert>>
    BY <1>5 DEF InitClear, JoinClear, Push, history
  <2>3. TaskLife(p)'
    BY <2>1, <2>2, LifeMoves
  <2>4. QED
    BY <1>s, <2>1, <2>2, <2>3
<1>6. CASE GetCount(p)
  <2>1. UNCHANGED <<meta, now, deleted, advert>>
    BY <1>6 DEF GetCount, store, history
  <2>2. TaskLife(p)' /\ OthersStay(p)
    BY <1>6, <2>1, GetCountEffect, LifeMoves
  <2>3. QED
    BY <1>s, <2>1, <2>2
\* The two steps that tell a client its expiry.
<1>7. CASE InitRdv(p) \/ SetExpiry(p)
  <2>1. PICK m \in Mailboxes : m = loc[p].from
    BY <1>7, Ids DEF InitRdv, SetExpiry, TypeInv, LocalsSet, InitPCs
  <2>2. /\ pc[p] \in {"init_rdv", "expire"}
        /\ UNCHANGED <<meta, now, deleted>>
        /\ Return(p)
    BY <1>7 DEF InitRdv, SetExpiry
  <2>3. \A n \in Mailboxes : \/ advert'[n] = advert[n]
                             \/ n = m /\ advert'[n] = loc[p].expires
    BY <1>7, <2>1 DEF InitRdv, SetExpiry, TypeInv, TypeOK
  <2>4. LivesUntil(m, loc[p].expires)
    BY <1>l, <2>1, <2>2 DEF TaskLife
  <2>5. \A n \in Mailboxes : advert'[n] = advert[n] \/ LivesUntil(n, advert[n])'
    BY <2>2, <2>3, <2>4 DEF LivesUntil
  <2>6. QED
    BY <1>u, <2>2, <2>5, ReturnLife, LifeKept
<1>8. CASE JoinGet(p) \/ SendMeta(p) \/ CloseMeta(p)
  <2>1. UNCHANGED <<meta, now, deleted, advert>>
    BY <1>8 DEF JoinGet, SendMeta, CloseMeta, store, history
  <2>2. CASE Return(p)
    BY <1>s, <2>1, <2>2, ReturnLife
  <2>3. CASE JoinGet(p) /\ ~Return(p)
    <3>1. pc'[p] = "join_del" /\ OthersStay(p)
      BY <2>3, JoinGetEffect
    <3>2. QED
      BY <1>s, <2>1, <3>1 DEF TaskLife
  <2>4. CASE (SendMeta(p) \/ CloseMeta(p)) /\ ~Return(p)
    <3>1. /\ (pc[p] = "send_meta" /\ pc'[p] = "llen") \/ pc'[p] = "close_own"
          /\ loc'[p].expires = loc[p].expires /\ OthersStay(p)
      BY <2>4, ReadOwnEffect DEF SendMeta, CloseMeta, TypeInv, TypeOK
    <3>2. pc'[p] = "llen" => loc'[p].expires = 0 /\ now' \in Nat
      BY <1>l, <3>1 DEF TaskLife, TypeInv, TypeOK
    <3>3. TaskLife(p)'
      BY <3>1, <3>2 DEF TaskLife, LivesUntil
    <3>4. QED
      BY <1>s, <2>1, <3>1, <3>3
  <2>5. QED
    BY <1>8, <2>2, <2>3, <2>4
<1>9. CASE JoinDel(p)
  <2>1. pc'[p] = "join_meta" /\ OthersStay(p) /\ UNCHANGED <<meta, now, deleted, advert>>
    BY <1>9, GotoEffect DEF JoinDel, history
  <2>2. QED
    BY <1>s, <2>1 DEF TaskLife
<1>10. CASE JoinMeta(p)
  <2>1. UNCHANGED <<meta, now, deleted, advert>>
    BY <1>10 DEF JoinMeta, store
  <2>2. CASE Return(p)
    BY <1>s, <2>1, <2>2, ReturnLife
  <2>3. CASE ~Return(p)
    <3>1. /\ pc'[p] = "join_save_i" /\ OthersStay(p)
          /\ loc[p].to \in Mailboxes
          /\ meta[loc[p].to].live
          /\ loc'[p].expires = meta[loc[p].to].expires
      BY <1>10, <2>3, JoinMetaEffect
    <3>2. loc'[p].expires <= now + MailboxTTL
      BY <3>1 DEF LifeInv, RecordLife
    <3>3. QED
      BY <1>s, <2>1, <3>1, <3>2 DEF TaskLife
  <2>4. QED
    BY <2>2, <2>3
<1>11. CASE JoinSaveInitiator(p)
  <2>1. PICK m \in Mailboxes : m = loc[p].to
    BY <1>11, Ids DEF JoinSaveInitiator, Goto, TypeInv, LocalsSet
  <2>2. PICK e \in Nat : e = loc[p].expires
    BY Times
  <2>3. /\ SaveMeta(m, loc[p].from, e)
        /\ pc[p] = "join_save_i" /\ pc'[p] = "join_save_r" /\ loc'[p] = loc[p] /\ OthersStay(p)
        /\ UNCHANGED <<now, deleted, advert>>
    BY <1>11, <2>1, <2>2, GotoEffect DEF JoinSaveInitiator, history
  <2>4. e <= now + MailboxTTL
    BY <1>l, <2>2, <2>3 DEF TaskLife
  <2>5. RecordSteps
    BY <2>3, <2>4, SaveLife
  <2>6. TaskLife(p)'
    BY <2>2, <2>3, <2>4 DEF TaskLife
  <2>7. QED
    BY <2>3, <2>5, <2>6, LifeKept
<1>12. CASE JoinSaveResponder(p)
  <2>1. PICK m \in Mailboxes : m = loc[p].from
    BY <1>12, Ids DEF JoinSaveResponder, Goto, TypeInv, LocalsSet
  <2>2. PICK e \in Nat : e = loc[p].expires
    BY Times
  <2>3. /\ SaveMeta(m, loc[p].to, e)
        /\ pc[p] = "join_save_r" /\ pc'[p] = "join_clear" /\ loc'[p] = loc[p] /\ OthersStay(p)
        /\ UNCHANGED <<now, deleted, advert>>
    BY <1>12, <2>1, <2>2, GotoEffect DEF JoinSaveResponder, history
  <2>4. e <= now + MailboxTTL
    BY <1>l, <2>2, <2>3 DEF TaskLife
  <2>5. RecordSteps /\ meta'[m].live /\ e <= meta'[m].dead
    BY <2>3, <2>4, SaveLife
  <2>6. TaskLife(p)'
    BY <2>1, <2>2, <2>3, <2>5 DEF TaskLife, LivesUntil
  <2>7. QED
    BY <2>3, <2>5, <2>6, LifeKept
<1>13. CASE CloseOwn(p) \/ ClosePeer(p)
  <2>1. RecordSteps /\ UNCHANGED advert
    BY <1>13, DeleteLife DEF CloseOwn, ClosePeer
  <2>2. TaskLife(p)' /\ OthersStay(p)
    <3>1. CASE Return(p)
      BY <3>1, ReturnLife
    <3>2. CASE ~Return(p)
      BY <1>13, <3>2, CloseOwnEffect DEF ClosePeer, TaskLife
    <3>3. QED
      BY <3>1, <3>2
  <2>3. QED
    BY <2>1, <2>2, LifeKept
<1>14. CASE Abort(p)
  BY <1>s, <1>14, ReturnLife DEF Abort, store
<1>15. QED
  BY <1>1, <1>2, <1>3, <1>4, <1>5, <1>6, <1>7, <1>8, <1>9, <1>10, <1>11, <1>12, <1>13, <1>14
  DEF Start, Step

LEMMA LifeStep == TypeInv /\ TypeInv' /\ LifeInv /\ [Next]_vars => LifeInv'
<1> SUFFICES ASSUME TypeInv, TypeInv', LifeInv, [Next]_vars
             PROVE  LifeInv'
  OBVIOUS
<1>k. ASSUME RecordSteps, UNCHANGED <<pc, loc, advert>>
      PROVE  LifeInv'
  <2>1. \A q \in Requests : TaskLife(q)'
    BY <1>k, TaskLifeKept
  <2>2. \A m \in Mailboxes : RecordLife(m)'
    BY <1>k, RecordLifeKept
  <2>3. QED
    BY <2>1, <2>2 DEF LifeInv
<1>1. CASE UNCHANGED vars
  BY <1>1, <1>k, Times DEF vars, RecordSteps
<1>2. CASE StoreStep
  <2>1. UNCHANGED <<pc, loc, advert>>
    BY <1>2, StoreStepShrinks DEF StoreShrinks
  <2>2. RecordSteps
    <3>1. CASE Tick
      <4>1. now <= now' /\ deleted' = deleted
        BY <3>1, Times DEF Tick, history
      <4>2. \A m \in Mailboxes : meta'[m] = IF meta[m].dead <= now' THEN NoMeta ELSE meta[m]
        BY <3>1 DEF Tick
      <4>3. QED
        BY <4>1, <4>2, NoMetaType DEF RecordSteps
    <3>2. ASSUME NEW m \in Mailboxes, EvictMeta(m)
          PROVE  RecordSteps
      BY <3>2, NoMetaType, Times DEF EvictMeta, RecordSteps, TypeInv, TypeOK
    <3>3. CASE (\E m \in Mailboxes : EvictList(m)) \/ (\E t \in Tokens : EvictRdv(t))
      BY <3>3, Times DEF EvictList, EvictRdv, history, RecordSteps
    <3>4. QED
      BY <1>2, <3>1, <3>2, <3>3 DEF StoreStep
  <2>3. QED
    BY <1>k, <2>1, <2>2
<1>3. ASSUME NEW p \in Requests, Start(p) \/ Step(p) \/ Abort(p)
      PROVE  LifeInv'
  BY <1>3, LifeTask
<1>4. QED
  BY <1>1, <1>2, <1>3 DEF Next, StoreStep

\* A mailbox whose id and expiry a client was told is there until then, unless
\* it was closed or evicted.
THEOREM ExpiryIsKept == Spec => []AdvertisedLifetime
<1>1. Init => LifeInv
  BY TTLAssumption DEF Init, LifeInv, TaskLife, RecordLife, LivesUntil, NoMeta
<1>2. TypeInv /\ LifeInv => AdvertisedLifetime
  <2> SUFFICES ASSUME TypeInv, LifeInv, NEW m \in Mailboxes, now < advert[m], m \notin deleted
               PROVE  meta[m].live
    BY DEF AdvertisedLifetime
  <2>1. LivesUntil(m, advert[m]) /\ now \in Nat /\ advert[m] \in Nat
    BY Times DEF LifeInv, RecordLife
  <2>2. QED
    BY <2>1 DEF LivesUntil
<1>3. QED
  BY <1>1, <1>2, TypeInvInit, TypeInvStep, LifeStep, PTL DEF Spec

=============================================================================
