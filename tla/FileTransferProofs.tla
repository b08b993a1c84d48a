-------------------------- MODULE FileTransferProofs --------------------------
(***************************************************************************)
(* What holds of FileTransfer for any size of a file, any marks of the     *)
(* send loop and any bounds on offers, suspended functions, clicks and     *)
(* faults.                                                                 *)
(***************************************************************************)
EXTENDS FileTransfer, SequenceTheorems, TLAPS

-----------------------------------------------------------------------------
(* Types, and what they need to be inductive: a chunk message has a place  *)
(* in the file, and a loop that still sends has not come to the end of it. *)

Statuses == {"idle", "offering", "offered", "transferring", "receiving", "completed", "error"}
GoodMessage == {m \in Message : m.type = "chunk" => m.k # 0}
LoopRecord == [at: {"none", "open", "read", "paused", "sent", "refused", "eof", "close"},
               id: 0..MaxOffers, off: 0..Size]
FinalRecord == [at: {"none", "flush", "path", "copy"}, id: 0..MaxOffers, swapped: BOOLEAN,
                got: Seq(Chunk)]

SessionTypes == /\ session \in [Peers -> Session \cup {None}]
                /\ status \in [Peers -> Statuses]
                /\ disposed \in [Peers -> BOOLEAN]
QueueTypes == queue \in [Peers -> Seq(GoodMessage)]
LoopTypes ==
    /\ loop \in [Peers -> [Slots -> LoopRecord]]
    /\ \A p \in Peers, l \in Slots :
          /\ loop[p][l].at \in {"read", "paused", "sent"} => loop[p][l].off < Size
          /\ loop[p][l].at # "none" => loop[p][l].id \in Ids
FinalTypes == final \in [Peers -> FinalRecord]
CountTypes == /\ hashing \in [Peers -> SUBSET Ids]
              /\ posted \in [Peers -> Nat]
              /\ accepting \in [Peers -> 0..MaxSteps]
              /\ stray \in [Peers -> Nat]

Types == SessionTypes /\ QueueTypes /\ LoopTypes /\ FinalTypes /\ CountTypes

LEMMA OtherPeer == \A p \in Peers : Other(p) \in Peers /\ Other(p) # p /\ Other(Other(p)) = p
BY DEF Peers, Other

LEMMA NoneFields ==
  /\ None.id = 0 /\ None.sender = FALSE /\ None.sink = FALSE /\ None.temp = FALSE
  /\ None.bytes = 0 /\ None.got = <<>> /\ None.acceptTimer = FALSE
  /\ None.inactivityTimer = FALSE /\ None \notin Session
BY TransferAssumption DEF None, Session, Ids

LEMMA NewFields ==
  ASSUME NEW id \in Ids, NEW s \in BOOLEAN
  PROVE  /\ NewSession(id, s) \in Session /\ NewSession(id, s) # None
         /\ NewSession(id, s).id = id /\ NewSession(id, s).sender = s
         /\ NewSession(id, s).sink = FALSE /\ NewSession(id, s).temp = FALSE
         /\ NewSession(id, s).got = <<>>
<1>1. <<>> \in Seq(Chunk)
  BY EmptySeq
<1>2. 0 \in 0..Size
  BY TransferAssumption
<1> DEFINE Any == [id: {0} \cup Ids, sender: BOOLEAN, sink: BOOLEAN, temp: BOOLEAN,
                   bytes: 0..Size, got: Seq(Chunk), acceptTimer: BOOLEAN,
                   inactivityTimer: BOOLEAN]
<1> DEFINE N == NewSession(id, s)
<1>3. None \in Any
  BY <1>1, <1>2 DEF None
<1>4. N \in Any /\ N.id = id /\ N.sender = s
  BY <1>3 DEF NewSession
<1>5. N.sink = FALSE /\ N.temp = FALSE /\ N.got = <<>>
  BY <1>3, NoneFields DEF NewSession
<1>6. N \in Session
  BY <1>4 DEF Session
<1>7. QED
  BY <1>4, <1>5, <1>6, NoneFields

LEMMA SessionFields ==
  ASSUME SessionTypes, NEW p \in Peers
  PROVE  /\ session[p] = None <=> ~Busy(p)
         /\ Busy(p) => session[p] \in Session
         /\ session[p].sender \in BOOLEAN /\ session[p].sink \in BOOLEAN
         /\ session[p].temp \in BOOLEAN /\ session[p].acceptTimer \in BOOLEAN
         /\ session[p].inactivityTimer \in BOOLEAN
         /\ session[p].id \in 0..MaxOffers /\ session[p].bytes \in 0..Size
         /\ session[p].got \in Seq(Chunk)
         /\ Busy(p) => session[p].id \in Ids
         /\ ~Busy(p) => ~session[p].sink /\ ~session[p].temp /\ ~session[p].sender
                        /\ session[p].id = 0
<1>1. CASE session[p] = None
  <2>1. /\ session[p].sender = FALSE /\ session[p].sink = FALSE /\ session[p].temp = FALSE
        /\ session[p].acceptTimer = FALSE /\ session[p].inactivityTimer = FALSE
        /\ session[p].id = 0 /\ session[p].bytes = 0 /\ session[p].got = <<>>
    BY <1>1, NoneFields
  <2>2. ~Busy(p) /\ 0 \in 0..MaxOffers /\ 0 \in 0..Size /\ <<>> \in Seq(Chunk)
    BY <1>1, EmptySeq, TransferAssumption DEF Busy
  <2>3. QED
    BY <1>1, <2>1, <2>2
<1>2. CASE session[p] # None
  <2>1. session[p] \in Session
    BY <1>2 DEF SessionTypes
  <2>2. QED
    BY <1>2, <2>1, TransferAssumption DEF Busy, Session, Ids
<1>3. QED
  BY <1>1, <1>2

LEMMA ShowStatus ==
  ASSUME SessionTypes, NEW p \in Peers, NEW s \in Statuses, Show(p, s)
  PROVE  /\ status' \in [Peers -> Statuses]
         /\ ~disposed[p] => status'[p] = s
         /\ disposed[p] => status'[p] = status[p]
         /\ \A o \in Peers : o # p => status'[o] = status[o]
BY DEF SessionTypes, Show

LEMMA EndedSession ==
  ASSUME SessionTypes, NEW p \in Peers, NEW s \in Statuses, EndSession(p, s)
  PROVE  /\ session' \in [Peers -> Session \cup {None}] /\ status' \in [Peers -> Statuses]
         /\ session'[p] = None /\ Show(p, s)
         /\ ~disposed[p] => status'[p] = s
         /\ disposed[p] => status'[p] = status[p]
         /\ \A o \in Peers : o # p => session'[o] = session[o] /\ status'[o] = status[o]
<1>1. Show(p, s) /\ session' = [session EXCEPT ![p] = None]
  BY DEF EndSession
<1>2. QED
  BY <1>1, ShowStatus DEF SessionTypes

LEMMA AfterTypes ==
  ASSUME NEW q \in [Peers -> Seq(GoodMessage)], NEW p \in Peers, NEW m \in GoodMessage
  PROVE  /\ After(q, p, m) \in [Peers -> Seq(GoodMessage)]
         /\ After(q, p, m)[p] = q[p]
         /\ After(q, p, m)[Other(p)] \in {q[Other(p)], Append(q[Other(p)], m)}
<1>1. Append(q[Other(p)], m) \in Seq(GoodMessage)
  BY OtherPeer, AppendProperties
<1>2. QED
  BY <1>1, OtherPeer DEF After

LEMMA MsgGood ==
  ASSUME NEW t \in {"metadata", "accept", "reject", "cancel", "eof", "chunk"}, NEW id \in Ids,
         NEW k \in 0..Size, t = "chunk" => k # 0
  PROVE  /\ Msg(t, id, k) \in GoodMessage
         /\ Msg(t, id, k).type = t /\ Msg(t, id, k).id = id
BY DEF Msg, GoodMessage, Message

LEMMA ZeroGood ==
  ASSUME NEW t \in {"metadata", "accept", "reject", "cancel", "eof"}, NEW id \in Ids
  PROVE  /\ Msg(t, id, 0) \in GoodMessage
         /\ Msg(t, id, 0).type = t /\ Msg(t, id, 0).id = id
<1>1. 0 \in 0..Size
  BY TransferAssumption
<1>2. QED
  BY <1>1, MsgGood

LEMMA RestTypes ==
  ASSUME QueueTypes, NEW p \in Peers, queue[p] # <<>>
  PROVE  /\ Rest(p) \in [Peers -> Seq(GoodMessage)]
         /\ Rest(p)[p] = Tail(queue[p]) /\ Rest(p)[Other(p)] = queue[Other(p)]
         /\ Head(queue[p]) \in GoodMessage
<1>1. Tail(queue[p]) \in Seq(GoodMessage) /\ Head(queue[p]) \in GoodMessage
  BY HeadTailProperties DEF QueueTypes
<1>2. QED
  BY <1>1, OtherPeer DEF Rest, QueueTypes

LEMMA CancelTypes ==
  ASSUME SessionTypes, QueueTypes, NEW p \in Peers, CancelTransfer(p)
  PROVE  /\ session' \in [Peers -> Session \cup {None}] /\ status' \in [Peers -> Statuses]
         /\ queue' \in [Peers -> Seq(GoodMessage)]
         /\ session'[p] = None
         /\ status'[p] \in {status[p], "error"}
         /\ Busy(p) /\ ~disposed[p] => status'[p] = "error"
         /\ \A o \in Peers : o # p => session'[o] = session[o] /\ status'[o] = status[o]
<1>1. CASE Busy(p)
  <2>1. EndSession(p, "error") /\ Post(p, Msg("cancel", session[p].id, 0))
    BY <1>1 DEF CancelTransfer
  <2>2. Msg("cancel", session[p].id, 0) \in GoodMessage
    BY <1>1, SessionFields, ZeroGood
  <2>3. queue' \in [Peers -> Seq(GoodMessage)]
    BY <2>1, <2>2, AfterTypes DEF Post, QueueTypes
  <2>4. QED
    BY <2>1, <2>3, EndedSession DEF Statuses
<1>2. CASE ~Busy(p)
  BY <1>2, SessionFields DEF CancelTransfer, SessionTypes, QueueTypes
<1>3. QED
  BY <1>1, <1>2


LEMMA LoopSet ==
  ASSUME LoopTypes, NEW p \in Peers, NEW l \in Slots, NEW r \in LoopRecord,
         r.at \in {"read", "paused", "sent"} => r.off < Size, r.at # "none" => r.id \in Ids,
         loop' = [loop EXCEPT ![p] = [loop[p] EXCEPT ![l] = r]]
  PROVE  LoopTypes'
<1>1. PICK row : row = [loop[p] EXCEPT ![l] = r]
  OBVIOUS
<1>2. /\ row \in [Slots -> LoopRecord] /\ row[l] = r
      /\ \A y \in Slots : y # l => row[y] = loop[p][y]
  BY <1>1 DEF LoopTypes
<1>3. loop \in [Peers -> [Slots -> LoopRecord]] /\ loop' = [loop EXCEPT ![p] = row]
  BY <1>1 DEF LoopTypes
<1>4. loop' \in [Peers -> [Slots -> LoopRecord]]
  BY <1>2, <1>3
<1>5. \A x \in Peers, y \in Slots : loop'[x][y] = IF x = p /\ y = l THEN r ELSE loop[x][y]
  BY <1>2, <1>3
<1>6. ASSUME NEW x \in Peers, NEW y \in Slots
      PROVE  /\ loop'[x][y].at \in {"read", "paused", "sent"} => loop'[x][y].off < Size
             /\ loop'[x][y].at # "none" => loop'[x][y].id \in Ids
  <2>1. CASE x = p /\ y = l
    BY <1>5, <2>1
  <2>2. CASE ~(x = p /\ y = l)
    BY <1>5, <2>2 DEF LoopTypes
  <2>3. QED
    BY <2>1, <2>2
<1>7. QED
  BY <1>4, <1>6 DEF LoopTypes

LEMMA LoopMoves ==
  ASSUME LoopTypes, NEW p \in Peers, NEW l \in Slots, loop[p][l].at # "none",
         NEW a \in {"read", "paused", "sent", "refused", "eof", "close"}, NEW o \in 0..Size,
         a \in {"read", "paused", "sent"} => o < Size,
         loop' = [loop EXCEPT ![p][l].at = a, ![p][l].off = o]
  PROVE  LoopTypes'
<1>1. loop[p] \in [Slots -> LoopRecord] /\ loop[p][l] \in LoopRecord
  BY DEF LoopTypes
<1>2. PICK r : r = [loop[p][l] EXCEPT !.at = a, !.off = o]
  OBVIOUS
<1>3. r \in LoopRecord /\ r.at = a /\ r.off = o /\ r.id = loop[p][l].id
  BY <1>1, <1>2 DEF LoopRecord
<1>4. loop' = [loop EXCEPT ![p] = [loop[p] EXCEPT ![l] = r]]
  BY <1>1, <1>2 DEF LoopTypes
<1>5. loop[p][l].id \in Ids
  BY DEF LoopTypes
<1>6. /\ r.at \in {"read", "paused", "sent"} => r.off < Size
      /\ r.at # "none" => r.id \in Ids
  BY <1>3, <1>5
<1>7. r \in LoopRecord
  BY <1>3
<1>8. QED
  BY <1>4, <1>6, <1>7, LoopSet

LEMMA LoopStands ==
  ASSUME LoopTypes, NEW p \in Peers, NEW l \in Slots, loop[p][l].at # "none",
         NEW a \in {"read", "sent", "refused", "eof", "close"},
         a \in {"read", "sent"} => loop[p][l].off < Size,
         loop' = [loop EXCEPT ![p][l].at = a]
  PROVE  LoopTypes'
<1>1. loop[p] \in [Slots -> LoopRecord] /\ loop[p][l] \in LoopRecord
  BY DEF LoopTypes
<1>2. PICK r : r = [loop[p][l] EXCEPT !.at = a]
  OBVIOUS
<1>3. r \in LoopRecord /\ r.at = a /\ r.off = loop[p][l].off /\ r.id = loop[p][l].id
  BY <1>1, <1>2 DEF LoopRecord
<1>4. loop' = [loop EXCEPT ![p] = [loop[p] EXCEPT ![l] = r]]
  BY <1>1, <1>2 DEF LoopTypes
<1>5. loop[p][l].id \in Ids
  BY DEF LoopTypes
<1>6. /\ r.at \in {"read", "paused", "sent"} => r.off < Size
      /\ r.at # "none" => r.id \in Ids
  BY <1>3, <1>5
<1>7. r \in LoopRecord
  BY <1>3
<1>8. QED
  BY <1>4, <1>6, <1>7, LoopSet

\* The top of the send loop: where it goes, and an EOF at most is sent.
LEMMA ContinueTypes ==
  ASSUME SessionTypes, QueueTypes, LoopTypes, NEW p \in Peers, NEW l \in Slots,
         loop[p][l].at # "none", NEW off \in 0..Size, Continue(p, l, off, queue)
  PROVE  /\ LoopTypes' /\ QueueTypes'
         /\ queue' = queue \/ /\ Busy(p)
                              /\ queue' = After(queue, p, Msg("eof", session[p].id, 0))
<1> DEFINE on == status[p] = "transferring"
           at == CASE on /\ off < Size /\ Len(queue[Other(p)]) > HighWater -> "paused"
                   [] on /\ off < Size /\ Len(queue[Other(p)]) <= HighWater -> "read"
                   [] on /\ off = Size /\ Busy(p) -> IF open THEN "eof" ELSE "refused"
                   [] OTHER -> "close"
<1>1. /\ loop' = [loop EXCEPT ![p][l].at = at, ![p][l].off = off]
      /\ queue' = IF at = "eof" THEN After(queue, p, Msg("eof", session[p].id, 0)) ELSE queue
  BY DEF Continue
<1>2. PICK a : a = at
  OBVIOUS
<1>3. Len(queue[Other(p)]) \in Nat
  BY OtherPeer, LenProperties DEF QueueTypes
<1>4. /\ a \in {"read", "paused", "eof", "refused", "close"}
      /\ a \in {"read", "paused"} => off < Size
      /\ a = "eof" => Busy(p)
  <2>1. CASE on /\ off < Size /\ Len(queue[Other(p)]) > HighWater
    <3>1. ~(on /\ off < Size /\ Len(queue[Other(p)]) <= HighWater) /\ off # Size
      BY <1>3, <2>1, TransferAssumption
    <3>2. at = "paused"
      BY <2>1, <3>1
    <3>3. QED
      BY <1>2, <2>1, <3>2
  <2>2. CASE on /\ off < Size /\ Len(queue[Other(p)]) <= HighWater
    <3>1. ~(on /\ off < Size /\ Len(queue[Other(p)]) > HighWater) /\ off # Size
      BY <1>3, <2>2, TransferAssumption
    <3>2. at = "read"
      BY <2>2, <3>1
    <3>3. QED
      BY <1>2, <2>2, <3>2
  <2>3. CASE on /\ off = Size /\ Busy(p)
    <3>1. ~(off < Size)
      BY <2>3, TransferAssumption
    <3>2. at = IF open THEN "eof" ELSE "refused"
      BY <2>3, <3>1
    <3>3. QED
      BY <1>2, <2>3, <3>2
  <2>4. CASE /\ ~(on /\ off < Size /\ Len(queue[Other(p)]) > HighWater)
             /\ ~(on /\ off < Size /\ Len(queue[Other(p)]) <= HighWater)
             /\ ~(on /\ off = Size /\ Busy(p))
    <3>1. at = "close"
      BY <2>4
    <3>2. QED
      BY <1>2, <3>1
  <2>5. QED
    BY <2>1, <2>2, <2>3, <2>4
<1> HIDE DEF at, on
<1>5. loop' = [loop EXCEPT ![p][l].at = a, ![p][l].off = off]
  BY <1>1, <1>2
<1>6. LoopTypes'
  BY <1>4, <1>5, LoopMoves
<1>7. CASE a = "eof"
  <2>1. Busy(p) /\ queue' = After(queue, p, Msg("eof", session[p].id, 0))
    BY <1>1, <1>2, <1>4, <1>7
  <2>2. Msg("eof", session[p].id, 0) \in GoodMessage
    BY <2>1, SessionFields, ZeroGood
  <2>3. QED
    BY <1>6, <2>1, <2>2, AfterTypes DEF QueueTypes
<1>8. CASE a # "eof"
  BY <1>1, <1>2, <1>6, <1>8 DEF QueueTypes
<1>9. QED
  BY <1>7, <1>8


LEMMA NoChange ==
  /\ SessionTypes /\ UNCHANGED <<session, status, disposed>> => SessionTypes'
  /\ QueueTypes /\ UNCHANGED queue => QueueTypes'
  /\ LoopTypes /\ UNCHANGED loop => LoopTypes'
  /\ FinalTypes /\ UNCHANGED final => FinalTypes'
  /\ CountTypes /\ UNCHANGED <<hashing, posted, accepting, stray>> => CountTypes'
<1>1. SessionTypes /\ UNCHANGED <<session, status, disposed>> => SessionTypes'
  BY DEF SessionTypes
<1>2. QueueTypes /\ UNCHANGED queue => QueueTypes'
  BY DEF QueueTypes
<1>3. LoopTypes /\ UNCHANGED loop => LoopTypes'
  BY DEF LoopTypes
<1>4. FinalTypes /\ UNCHANGED final => FinalTypes'
  BY DEF FinalTypes
<1>5. CountTypes /\ UNCHANGED <<hashing, posted, accepting, stray>> => CountTypes'
  BY DEF CountTypes
<1>6. QED
  BY <1>1, <1>2, <1>3, <1>4, <1>5

LEMMA EndTypes ==
  ASSUME SessionTypes, NEW p \in Peers, NEW s \in Statuses, EndSession(p, s), UNCHANGED disposed
  PROVE  SessionTypes'
BY EndedSession DEF SessionTypes

LEMMA HashedTypes ==
  ASSUME Types, NEW p \in Peers, NEW id \in Ids, Hashed(p, id)
  PROVE  Types'
<1>1. /\ SessionTypes /\ QueueTypes /\ LoopTypes /\ FinalTypes /\ CountTypes
      /\ UNCHANGED <<disposed, accepting, loop, final, stray>>
      /\ hashing' \in [Peers -> SUBSET Ids]
  BY DEF Types, Hashed, CountTypes
<1>2. CASE Busy(p)
  <2>1. UNCHANGED <<session, status, queue, posted>>
    BY <1>2 DEF Hashed
  <2>2. SessionTypes' /\ QueueTypes' /\ LoopTypes' /\ FinalTypes'
    BY <1>1, <2>1, NoChange
  <2>3. CountTypes'
    BY <1>1, <2>1 DEF CountTypes
  <2>4. QED
    BY <2>2, <2>3 DEF Types
<1>3. CASE ~Busy(p)
  <2>1. /\ session' = [session EXCEPT ![p] = NewSession(id, TRUE)] /\ Show(p, "offering")
        /\ Post(p, Msg("metadata", id, 0))
        /\ posted' = IF open THEN [posted EXCEPT ![p] = @ + 1] ELSE posted
    BY <1>3 DEF Hashed
  <2>2. SessionTypes'
    BY <1>1, <2>1, NewFields, ShowStatus DEF SessionTypes, Statuses
  <2>3. QueueTypes'
    BY <1>1, <2>1, ZeroGood, AfterTypes DEF Post, QueueTypes
  <2>4. CountTypes'
    BY <1>1, <2>1 DEF CountTypes
  <2>5. QED
    BY <1>1, <2>2, <2>3, <2>4, NoChange DEF Types
<1>4. QED
  BY <1>2, <1>3

LEMMA ReopenTypes ==
  ASSUME FinalTypes, NEW p \in Peers, Reopen(p)
  PROVE  FinalTypes'
BY DEF FinalTypes, FinalRecord, Reopen

\* A session that stays keeps its shape when acceptOffer opens its file.
LEMMA OpenedFile ==
  ASSUME SessionTypes, NEW p \in Peers, Busy(p),
         session' = [session EXCEPT ![p].sink = TRUE, ![p].temp = TRUE, ![p].got = <<>>,
                                    ![p].inactivityTimer = TRUE]
  PROVE  /\ session' \in [Peers -> Session \cup {None}]
         /\ session'[p] \in Session
         /\ session'[p].id = session[p].id /\ session'[p].sender = session[p].sender
         /\ session'[p].inactivityTimer = TRUE
         /\ session'[p].acceptTimer = session[p].acceptTimer
         /\ \A o \in Peers : o # p => session'[o] = session[o]
<1>1. session[p] \in Session /\ <<>> \in Seq(Chunk)
  BY SessionFields, EmptySeq
<1>2. session \in [Peers -> Session \cup {None}]
  BY DEF SessionTypes
<1>3. PICK s : s = [session[p] EXCEPT !.sink = TRUE, !.temp = TRUE, !.got = <<>>,
                                      !.inactivityTimer = TRUE]
  OBVIOUS
<1>4. s \in Session /\ s.id = session[p].id /\ s.sender = session[p].sender
      /\ s.inactivityTimer = TRUE /\ s.acceptTimer = session[p].acceptTimer
  BY <1>1, <1>3 DEF Session
<1>5. session' = [session EXCEPT ![p] = s]
  BY <1>2, <1>3
<1>6. session' \in [Peers -> Session \cup {None}]
  BY <1>2, <1>4, <1>5
<1>7. session'[p] = s
  BY <1>2, <1>5
<1>8. \A o \in Peers : o # p => session'[o] = session[o]
  BY <1>2, <1>5
<1>9. QED
  BY <1>4, <1>6, <1>7, <1>8

LEMMA AcceptedTypes ==
  ASSUME Types, NEW p \in Peers, Accepted(p)
  PROVE  Types'
<1>1. /\ SessionTypes /\ QueueTypes /\ LoopTypes /\ FinalTypes /\ CountTypes
      /\ UNCHANGED <<disposed, hashing, posted, loop, stray>> /\ Reopen(p)
      /\ accepting[p] > 0 /\ accepting' = [accepting EXCEPT ![p] = @ - 1]
  BY DEF Types, Accepted
<1>2. CountTypes'
  BY <1>1, TransferAssumption DEF CountTypes
<1>3. LoopTypes' /\ FinalTypes'
  BY <1>1, NoChange, ReopenTypes
<1>4. CASE Busy(p)
  <2>1. /\ session' = [session EXCEPT ![p].sink = TRUE, ![p].temp = TRUE, ![p].got = <<>>,
                                      ![p].inactivityTimer = TRUE]
        /\ Show(p, "receiving") /\ Post(p, Msg("accept", session[p].id, 0))
    BY <1>4 DEF Accepted
  <2>2. session' \in [Peers -> Session \cup {None}]
    BY <1>1, <1>4, <2>1, OpenedFile
  <2>3. SessionTypes'
    BY <1>1, <2>1, <2>2, ShowStatus DEF SessionTypes, Statuses
  <2>4. Msg("accept", session[p].id, 0) \in GoodMessage
    BY <1>1, <1>4, SessionFields, ZeroGood
  <2>5. QueueTypes'
    BY <1>1, <2>1, <2>4, AfterTypes DEF Post, QueueTypes
  <2>6. QED
    BY <1>2, <1>3, <2>3, <2>5 DEF Types
<1>5. CASE ~Busy(p)
  <2>1. EndSession(p, "error") /\ UNCHANGED queue
    BY <1>5 DEF Accepted
  <2>2. SessionTypes' /\ QueueTypes'
    BY <1>1, <2>1, EndTypes, NoChange DEF Statuses
  <2>3. QED
    BY <1>2, <1>3, <2>2 DEF Types
<1>6. QED
  BY <1>4, <1>5

LEMMA ClickRejectTypes ==
  ASSUME Types, NEW p \in Peers, ClickReject(p)
  PROVE  Types'
<1>1. /\ SessionTypes /\ QueueTypes /\ LoopTypes /\ FinalTypes /\ CountTypes
      /\ UNCHANGED <<disposed, hashing, posted, accepting, loop, final, stray>>
      /\ Busy(p) /\ EndSession(p, "idle") /\ Post(p, Msg("reject", session[p].id, 0))
  BY DEF Types, ClickReject, tasks
<1>2. Msg("reject", session[p].id, 0) \in GoodMessage
  BY <1>1, SessionFields, ZeroGood
<1>3. QueueTypes'
  BY <1>1, <1>2, AfterTypes DEF Post, QueueTypes
<1>4. SessionTypes'
  BY <1>1, EndTypes DEF Statuses
<1>5. QED
  BY <1>1, <1>3, <1>4, NoChange DEF Types

\* cancelTransfer and an unchanged rest.
LEMMA CancelsTypes ==
  ASSUME SessionTypes, QueueTypes, NEW p \in Peers, CancelTransfer(p), UNCHANGED disposed
  PROVE  SessionTypes' /\ QueueTypes'
BY CancelTypes DEF SessionTypes, QueueTypes


LEMMA UserTypes ==
  ASSUME Types, NEW p \in Peers,
         SendOffer(p) \/ ClickAccept(p) \/ ClickReject(p) \/ ClickCancel(p) \/ Dispose(p)
  PROVE  Types'
<1>0. SessionTypes /\ QueueTypes /\ LoopTypes /\ FinalTypes /\ CountTypes
  BY DEF Types
<1>1. CASE SendOffer(p)
  <2>1. /\ UNCHANGED <<session, status, disposed, queue, loop, final, posted, accepting, stray>>
        /\ \E id \in Ids : hashing' = [hashing EXCEPT ![p] = @ \cup {id}]
    BY <1>1 DEF SendOffer
  <2>2. CountTypes'
    BY <1>0, <2>1 DEF CountTypes
  <2>3. QED
    BY <1>0, <2>1, <2>2, NoChange DEF Types
<1>2. CASE ClickAccept(p)
  <2>1. /\ UNCHANGED <<session, status, disposed, queue, loop, final, hashing, posted, stray>>
        /\ accepting[p] < MaxSteps /\ accepting' = [accepting EXCEPT ![p] = @ + 1]
    BY <1>2 DEF ClickAccept
  <2>2. CountTypes'
    BY <1>0, <2>1, TransferAssumption DEF CountTypes
  <2>3. QED
    BY <1>0, <2>1, <2>2, NoChange DEF Types
<1>3. CASE ClickReject(p)
  BY <1>3, ClickRejectTypes
<1>4. CASE ClickCancel(p)
  <2>1. /\ CancelTransfer(p) /\ UNCHANGED disposed
        /\ UNCHANGED <<loop, final, hashing, posted, accepting, stray>>
    BY <1>4 DEF ClickCancel, tasks
  <2>2. QED
    BY <1>0, <2>1, CancelsTypes, NoChange DEF Types
<1>5. CASE Dispose(p)
  <2>1. /\ disposed' = [disposed EXCEPT ![p] = TRUE]
        /\ session' = [session EXCEPT ![p] = None]
        /\ UNCHANGED <<status, queue, loop, final, hashing, posted, accepting, stray>>
    BY <1>5 DEF Dispose, tasks
  <2>2. SessionTypes'
    BY <1>0, <2>1 DEF SessionTypes
  <2>3. QED
    BY <1>0, <2>1, <2>2, NoChange DEF Types
<1>6. QED
  BY <1>1, <1>2, <1>3, <1>4, <1>5

LEMMA PostedTypes ==
  ASSUME Types, NEW p \in Peers, Posted(p)
  PROVE  /\ Types'
         /\ \A o \in Peers : o # p => session'[o] = session[o]
         /\ Busy(p) => /\ session'[p] \in Session /\ session'[p].acceptTimer = TRUE
                       /\ session'[p].id = session[p].id
                       /\ session'[p].sender = session[p].sender
                       /\ session'[p].sink = session[p].sink
                       /\ session'[p].temp = session[p].temp
                       /\ session'[p].got = session[p].got
                       /\ session'[p].inactivityTimer = session[p].inactivityTimer
         /\ ~Busy(p) => session' = session
<1>0. SessionTypes /\ QueueTypes /\ LoopTypes /\ FinalTypes /\ CountTypes
  BY DEF Types
<1>1. /\ UNCHANGED <<status, disposed, queue, loop, final, hashing, accepting, stray>>
      /\ posted[p] > 0 /\ posted' = [posted EXCEPT ![p] = @ - 1]
      /\ session' = IF Busy(p) THEN [session EXCEPT ![p].acceptTimer = TRUE] ELSE session
  BY DEF Posted
<1>2. CountTypes'
  BY <1>0, <1>1 DEF CountTypes
<1>3. session \in [Peers -> Session \cup {None}]
  BY <1>0 DEF SessionTypes
<1>4. CASE Busy(p)
  <2>1. PICK s : s = [session[p] EXCEPT !.acceptTimer = TRUE]
    OBVIOUS
  <2>2. session[p] \in Session
    BY <1>0, <1>4, SessionFields
  <2>3. /\ s \in Session /\ s.acceptTimer = TRUE
        /\ s.id = session[p].id /\ s.sender = session[p].sender
        /\ s.sink = session[p].sink /\ s.temp = session[p].temp /\ s.got = session[p].got
        /\ s.inactivityTimer = session[p].inactivityTimer
    BY <2>1, <2>2 DEF Session
  <2>4. session' = [session EXCEPT ![p] = s]
    BY <1>1, <1>3, <1>4, <2>1
  <2>5. session' \in [Peers -> Session \cup {None}]
    BY <1>3, <2>3, <2>4
  <2>6. session'[p] = s /\ \A o \in Peers : o # p => session'[o] = session[o]
    BY <1>3, <2>4
  <2>7. SessionTypes'
    BY <1>0, <1>1, <2>5 DEF SessionTypes
  <2>8. QED
    BY <1>0, <1>1, <1>2, <1>4, <2>3, <2>6, <2>7, NoChange DEF Types
<1>5. CASE ~Busy(p)
  <2>1. session' = session
    BY <1>1, <1>5
  <2>2. QED
    BY <1>0, <1>1, <1>2, <1>5, <2>1, NoChange DEF Types
<1>6. QED
  BY <1>4, <1>5

LEMMA LoopStepTypes ==
  ASSUME Types, NEW p \in Peers, NEW l \in Slots, LoopStep(p, l)
  PROVE  Types'
<1>0. SessionTypes /\ QueueTypes /\ LoopTypes /\ FinalTypes /\ CountTypes
  BY DEF Types
<1>1. CASE Opened(p, l)
  <2>1. /\ UNCHANGED <<session, status, disposed, hashing, posted, accepting, final, stray>>
        /\ loop[p][l].at # "none"
    BY <1>1 DEF Opened
  <2>2. CASE Busy(p)
    <3>1. Continue(p, l, 0, queue) /\ 0 \in 0..Size
      BY <1>1, <2>2, TransferAssumption DEF Opened
    <3>2. LoopTypes' /\ QueueTypes'
      BY <1>0, <2>1, <3>1, ContinueTypes
    <3>3. QED
      BY <1>0, <2>1, <3>2, NoChange DEF Types
  <2>3. CASE ~Busy(p)
    <3>1. loop' = [loop EXCEPT ![p][l].at = "close"] /\ UNCHANGED queue
      BY <1>1, <2>3 DEF Opened
    <3>2. LoopTypes'
      BY <1>0, <2>1, <3>1, LoopStands
    <3>3. QED
      BY <1>0, <2>1, <3>1, <3>2, NoChange DEF Types
  <2>4. QED
    BY <2>2, <2>3
<1>2. CASE Low(p, l)
  <2>1. /\ UNCHANGED <<session, status, disposed, queue, hashing, posted, accepting, final, stray>>
        /\ loop[p][l].at = "paused" /\ loop' = [loop EXCEPT ![p][l].at = "read"]
    BY <1>2 DEF Low
  <2>2. loop[p][l].off < Size
    BY <1>0, <2>1 DEF LoopTypes
  <2>3. LoopTypes'
    BY <1>0, <2>1, <2>2, LoopStands
  <2>4. QED
    BY <1>0, <2>1, <2>3, NoChange DEF Types
<1>3. CASE Read(p, l)
  <2>1. /\ UNCHANGED <<session, status, disposed, hashing, posted, accepting, final, stray>>
        /\ loop[p][l].at = "read" /\ Post(p, Msg("chunk", loop[p][l].id, loop[p][l].off + 1))
        /\ loop' = [loop EXCEPT ![p][l].at = IF open THEN "sent" ELSE "refused"]
    BY <1>3 DEF Read
  <2>2. loop[p][l].off < Size /\ loop[p][l].id \in Ids /\ loop[p][l].off \in 0..Size
    BY <1>0, <2>1 DEF LoopTypes, LoopRecord
  <2>3. loop[p][l].off + 1 \in 0..Size /\ loop[p][l].off + 1 # 0
    BY <2>2, TransferAssumption
  <2>4. Msg("chunk", loop[p][l].id, loop[p][l].off + 1) \in GoodMessage
    BY <2>2, <2>3, MsgGood
  <2>5. QueueTypes'
    BY <1>0, <2>1, <2>4, AfterTypes DEF Post, QueueTypes
  <2>6. PICK a : a = IF open THEN "sent" ELSE "refused"
    OBVIOUS
  <2>7. a \in {"sent", "refused"} /\ loop' = [loop EXCEPT ![p][l].at = a]
    BY <2>1, <2>6
  <2>8. LoopTypes'
    BY <1>0, <2>1, <2>2, <2>7, LoopStands
  <2>9. QED
    BY <1>0, <2>1, <2>5, <2>8, NoChange DEF Types
<1>4. CASE Sent(p, l)
  <2>1. /\ UNCHANGED <<session, status, disposed, hashing, posted, accepting, final, stray>>
        /\ loop[p][l].at = "sent" /\ Continue(p, l, loop[p][l].off + 1, queue)
    BY <1>4 DEF Sent
  <2>2. loop[p][l].off < Size /\ loop[p][l].off \in 0..Size
    BY <1>0, <2>1 DEF LoopTypes, LoopRecord
  <2>3. loop[p][l].off + 1 \in 0..Size
    BY <2>2, TransferAssumption
  <2>4. LoopTypes' /\ QueueTypes'
    BY <1>0, <2>1, <2>3, ContinueTypes
  <2>5. QED
    BY <1>0, <2>1, <2>4, NoChange DEF Types
<1>5. CASE Refused(p, l)
  <2>1. /\ UNCHANGED <<disposed, hashing, posted, accepting, final, stray>>
        /\ loop[p][l].at # "none" /\ loop' = [loop EXCEPT ![p][l].at = "close"]
        /\ CancelTransfer(p)
    BY <1>5 DEF Refused
  <2>2. LoopTypes'
    BY <1>0, <2>1, LoopStands
  <2>3. QED
    BY <1>0, <2>1, <2>2, CancelsTypes, NoChange DEF Types
<1>6. CASE EofSent(p, l)
  <2>1. /\ UNCHANGED <<session, disposed, queue, hashing, posted, accepting, final, stray>>
        /\ loop[p][l].at # "none" /\ loop' = [loop EXCEPT ![p][l].at = "close"]
        /\ Show(p, "completed")
    BY <1>6 DEF EofSent
  <2>2. LoopTypes'
    BY <1>0, <2>1, LoopStands
  <2>3. SessionTypes'
    BY <1>0, <2>1, ShowStatus DEF SessionTypes, Statuses
  <2>4. QED
    BY <1>0, <2>1, <2>2, <2>3, NoChange DEF Types
<1>7. CASE FileClosed(p, l)
  <2>1. /\ UNCHANGED <<status, disposed, queue, hashing, posted, accepting, final>>
        /\ loop' = [loop EXCEPT ![p][l] = NoLoop]
        /\ session' \in {session, [session EXCEPT ![p] = None]}
        /\ stray' \in {stray, [stray EXCEPT ![p] = @ + 1]}
    BY <1>7 DEF FileClosed
  <2>2. NoLoop \in LoopRecord /\ NoLoop.at = "none"
    BY TransferAssumption DEF NoLoop, LoopRecord
  <2>3. loop' = [loop EXCEPT ![p] = [loop[p] EXCEPT ![l] = NoLoop]]
    BY <1>0, <2>1 DEF LoopTypes
  <2>4. LoopTypes'
    BY <1>0, <2>2, <2>3, LoopSet
  <2>5. SessionTypes'
    BY <1>0, <2>1 DEF SessionTypes
  <2>6. CountTypes'
    BY <1>0, <2>1 DEF CountTypes
  <2>7. QED
    BY <1>0, <2>1, <2>4, <2>5, <2>6, NoChange DEF Types
<1>8. QED
  BY <1>1, <1>2, <1>3, <1>4, <1>5, <1>6, <1>7 DEF LoopStep


\* The checks of _finalizeReceive are passed: the session's sink and timer are gone.
LEMMA FlushedSession ==
  ASSUME SessionTypes, NEW p \in Peers, Busy(p),
         session' = [session EXCEPT ![p].sink = FALSE, ![p].inactivityTimer = FALSE]
  PROVE  /\ session' \in [Peers -> Session \cup {None}]
         /\ session'[p] \in Session
         /\ session'[p].id = session[p].id /\ session'[p].sender = session[p].sender
         /\ session'[p].temp = session[p].temp /\ session'[p].got = session[p].got
         /\ session'[p].acceptTimer = session[p].acceptTimer
         /\ session'[p].sink = FALSE
         /\ \A o \in Peers : o # p => session'[o] = session[o]
<1>1. session[p] \in Session /\ session \in [Peers -> Session \cup {None}]
  BY SessionFields DEF SessionTypes
<1>2. PICK s : s = [session[p] EXCEPT !.sink = FALSE, !.inactivityTimer = FALSE]
  OBVIOUS
<1>3. /\ s \in Session /\ s.id = session[p].id /\ s.sender = session[p].sender
      /\ s.temp = session[p].temp /\ s.got = session[p].got
      /\ s.acceptTimer = session[p].acceptTimer /\ s.sink = FALSE
  BY <1>1, <1>2 DEF Session
<1>4. session' = [session EXCEPT ![p] = s]
  BY <1>1, <1>2
<1>5. session' \in [Peers -> Session \cup {None}]
  BY <1>1, <1>3, <1>4
<1>6. session'[p] = s
  BY <1>1, <1>4
<1>7. \A o \in Peers : o # p => session'[o] = session[o]
  BY <1>1, <1>4
<1>8. QED
  BY <1>3, <1>5, <1>6, <1>7

LEMMA NoFinalType == NoFinal \in FinalRecord
BY TransferAssumption, EmptySeq DEF NoFinal, FinalRecord

LEMMA NoFinalFields == /\ NoFinal.at = "none" /\ NoFinal.id = 0 /\ NoFinal.swapped = FALSE
                       /\ NoFinal.got = <<>>
BY DEF NoFinal

LEMMA CheckedFields ==
  ASSUME SessionTypes, NEW p \in Peers
  PROVE  /\ Checked(p) \in FinalRecord /\ Checked(p).at = "path"
         /\ Checked(p).id = session[p].id /\ Checked(p).swapped = FALSE
<1>1. session[p].id \in 0..MaxOffers
  BY SessionFields
<1>2. QED
  BY <1>1, NoFinalType, NoFinalFields DEF Checked, FinalRecord

LEMMA FinalFailsTypes ==
  ASSUME SessionTypes, FinalTypes, NEW p \in Peers, FinalFails(p), UNCHANGED disposed
  PROVE  SessionTypes' /\ FinalTypes'
<1>1. EndSession(p, "error") /\ final' = [final EXCEPT ![p] = NoFinal]
  BY DEF FinalFails
<1>2. SessionTypes'
  BY <1>1, EndTypes DEF Statuses
<1>3. FinalTypes'
  BY <1>1, NoFinalType DEF FinalTypes
<1>4. QED
  BY <1>2, <1>3

LEMMA FinalStepTypes ==
  ASSUME Types, NEW p \in Peers, Flushed(p) \/ PathFound(p) \/ Copied(p)
  PROVE  Types'
<1>0. SessionTypes /\ QueueTypes /\ LoopTypes /\ FinalTypes /\ CountTypes
  BY DEF Types
<1>1. UNCHANGED <<disposed, queue, loop, hashing, posted, accepting, stray>>
  BY DEF Flushed, PathFound, Copied
<1>2. CASE FinalFails(p)
  BY <1>0, <1>1, <1>2, FinalFailsTypes, NoChange DEF Types
<1>3. CASE ~FinalFails(p) /\ Flushed(p)
  <2>1. /\ session[p].sink
        /\ session' = [session EXCEPT ![p].sink = FALSE, ![p].inactivityTimer = FALSE]
        /\ final' = [final EXCEPT ![p] = Checked(p)] /\ UNCHANGED status
    BY <1>3 DEF Flushed
  <2>2. Busy(p)
    BY <1>0, <2>1, SessionFields
  <2>3. SessionTypes'
    BY <1>0, <1>1, <2>1, <2>2, FlushedSession DEF SessionTypes
  <2>4. FinalTypes'
    BY <1>0, <2>1, CheckedFields DEF FinalTypes
  <2>5. QED
    BY <1>0, <1>1, <2>3, <2>4, NoChange DEF Types
<1>4. CASE ~FinalFails(p) /\ PathFound(p)
  <2>1. /\ final' = [final EXCEPT ![p] =
                        [at |-> "copy", id |-> session[p].id, got |-> session[p].got,
                         swapped |-> @.swapped \/ session[p].id # @.id]]
        /\ UNCHANGED <<session, status>>
    BY <1>4 DEF PathFound
  <2>2. PICK b \in BOOLEAN : b = (final[p].swapped \/ session[p].id # final[p].id)
    OBVIOUS
  <2>3. [at |-> "copy", id |-> session[p].id, got |-> session[p].got, swapped |-> b]
          \in FinalRecord
    BY <1>0, SessionFields DEF FinalRecord
  <2>4. final' = [final EXCEPT ![p] = [at |-> "copy", id |-> session[p].id,
                                       got |-> session[p].got, swapped |-> b]]
    BY <1>0, <2>1, <2>2 DEF FinalTypes
  <2>5. FinalTypes'
    BY <1>0, <2>3, <2>4 DEF FinalTypes
  <2>6. QED
    BY <1>0, <1>1, <2>1, <2>5, NoChange DEF Types
<1>5. CASE ~FinalFails(p) /\ Copied(p)
  <2>1. /\ session' = [session EXCEPT ![p] = None] /\ Show(p, "completed")
        /\ final' = [final EXCEPT ![p] = NoFinal]
    BY <1>5 DEF Copied
  <2>2. SessionTypes'
    BY <1>0, <1>1, <2>1, ShowStatus DEF SessionTypes, Statuses
  <2>3. FinalTypes'
    BY <1>0, <2>1, NoFinalType DEF FinalTypes
  <2>4. QED
    BY <1>0, <1>1, <2>2, <2>3, NoChange DEF Types
<1>6. QED
  BY <1>2, <1>3, <1>4, <1>5

LEMMA FaultTypes ==
  ASSUME Types, (\E p \in Peers : OwnTimeout(p) \/ StrayTimeout(p) \/ ChannelEvent(p))
                \/ CloseChannel
  PROVE  Types'
<1>0. SessionTypes /\ QueueTypes /\ LoopTypes /\ FinalTypes /\ CountTypes
  BY DEF Types
<1>1. ASSUME NEW p \in Peers, OwnTimeout(p) \/ StrayTimeout(p)
      PROVE  Types'
  <2>1. /\ CancelTransfer(p)
        /\ UNCHANGED <<disposed, hashing, posted, accepting, loop, final>>
        /\ stray' = stray \/ (stray[p] > 0 /\ stray' = [stray EXCEPT ![p] = @ - 1])
    BY <1>1 DEF OwnTimeout, StrayTimeout, Timeout, tasks
  <2>2. CountTypes'
    BY <1>0, <2>1 DEF CountTypes
  <2>3. QED
    BY <1>0, <2>1, <2>2, CancelsTypes, NoChange DEF Types
<1>2. ASSUME NEW p \in Peers, ChannelEvent(p)
      PROVE  Types'
  <2>1. /\ EndSession(p, "error") \/ UNCHANGED <<session, status>>
        /\ UNCHANGED <<disposed, queue, hashing, posted, accepting, loop, final, stray>>
    BY <1>2 DEF ChannelEvent, tasks
  <2>2. SessionTypes'
    BY <1>0, <2>1, EndTypes, NoChange DEF Statuses
  <2>3. QED
    BY <1>0, <2>1, <2>2, NoChange DEF Types
<1>3. CASE CloseChannel
  <2>1. /\ queue' = [p \in Peers |-> <<>>]
        /\ UNCHANGED <<session, status, disposed, hashing, posted, accepting, loop, final, stray>>
    BY <1>3 DEF CloseChannel, tasks
  <2>2. QueueTypes'
    BY <2>1, EmptySeq DEF QueueTypes
  <2>3. QED
    BY <1>0, <2>1, <2>2, NoChange DEF Types
<1>4. QED
  BY <1>1, <1>2, <1>3


LEMMA MetadataTypes ==
  ASSUME SessionTypes, QueueTypes, NEW p \in Peers, NEW id \in Ids, queue[p] # <<>>,
         HandleMetadata(p, id), UNCHANGED disposed
  PROVE  SessionTypes' /\ QueueTypes'
<1>1. Rest(p) \in [Peers -> Seq(GoodMessage)]
  BY RestTypes
<1>2. \/ /\ queue' = After(Rest(p), p, Msg("reject", id, 0))
         /\ UNCHANGED <<session, status>>
      \/ /\ session' = [session EXCEPT ![p] = NewSession(id, FALSE)]
         /\ Show(p, "offered")
         /\ \/ queue' = Rest(p)
            \/ Busy(p) /\ queue' = After(Rest(p), p, Msg("cancel", session[p].id, 0))
  BY DEF HandleMetadata
<1>3. QueueTypes'
  <2>1. Msg("reject", id, 0) \in GoodMessage
    BY ZeroGood
  <2>2. Busy(p) => Msg("cancel", session[p].id, 0) \in GoodMessage
    BY SessionFields, ZeroGood
  <2>3. CASE queue' = After(Rest(p), p, Msg("reject", id, 0))
    BY <1>1, <2>1, <2>3, AfterTypes DEF QueueTypes
  <2>4. CASE Busy(p) /\ queue' = After(Rest(p), p, Msg("cancel", session[p].id, 0))
    BY <1>1, <2>2, <2>4, AfterTypes DEF QueueTypes
  <2>5. CASE queue' = Rest(p)
    BY <1>1, <2>5 DEF QueueTypes
  <2>6. QED
    BY <1>2, <2>3, <2>4, <2>5
<1>4. SessionTypes'
  <2>1. CASE UNCHANGED <<session, status>>
    BY <2>1, NoChange
  <2>2. CASE session' = [session EXCEPT ![p] = NewSession(id, FALSE)] /\ Show(p, "offered")
    BY <2>2, NewFields, ShowStatus DEF SessionTypes, Statuses
  <2>3. QED
    BY <1>2, <2>1, <2>2
<1>5. QED
  BY <1>3, <1>4

\* The accept that a session waits for starts its loop and its timer.
LEMMA AcceptTypes ==
  ASSUME SessionTypes, LoopTypes, NEW p \in Peers, NEW id \in Ids, HandleAccept(p, id),
         UNCHANGED disposed
  PROVE  /\ SessionTypes' /\ LoopTypes'
         /\ \A o \in Peers : o # p => session'[o] = session[o] /\ status'[o] = status[o]
         /\ ~(Matches(p, id) /\ session[p].sender) => UNCHANGED <<session, status, loop>>
         /\ Matches(p, id) /\ session[p].sender =>
               /\ session'[p] \in Session /\ session'[p].inactivityTimer = TRUE
               /\ session'[p].id = session[p].id
               /\ session'[p].sender = session[p].sender
               /\ session'[p].sink = session[p].sink
               /\ session'[p].temp = session[p].temp
               /\ session'[p].got = session[p].got
               /\ Show(p, "transferring")
<1>1. CASE Matches(p, id) /\ session[p].sender
  <2>1. /\ \E l \in Slots :
              loop' = [loop EXCEPT ![p][l] = [at |-> "open", id |-> id, off |-> 0]]
        /\ session' = [session EXCEPT ![p].acceptTimer = FALSE, ![p].inactivityTimer = TRUE]
        /\ Show(p, "transferring")
    BY <1>1 DEF HandleAccept
  <2>2. PICK l \in Slots :
              loop' = [loop EXCEPT ![p][l] = [at |-> "open", id |-> id, off |-> 0]]
    BY <2>1
  <2>3. PICK r : r = [at |-> "open", id |-> id, off |-> 0]
    OBVIOUS
  <2>4. r \in LoopRecord /\ r.at = "open" /\ r.id \in Ids
    BY <2>3, TransferAssumption DEF LoopRecord, Ids
  <2>5. loop' = [loop EXCEPT ![p] = [loop[p] EXCEPT ![l] = r]]
    BY <2>2, <2>3 DEF LoopTypes
  <2>6. LoopTypes'
    BY <2>4, <2>5, LoopSet
  <2>7. session[p] \in Session /\ session \in [Peers -> Session \cup {None}]
    BY <1>1, SessionFields DEF SessionTypes, Matches
  <2>8. PICK s : s = [session[p] EXCEPT !.acceptTimer = FALSE, !.inactivityTimer = TRUE]
    OBVIOUS
  <2>9. /\ s \in Session /\ s.id = session[p].id /\ s.sender = session[p].sender
        /\ s.temp = session[p].temp /\ s.got = session[p].got /\ s.sink = session[p].sink
        /\ s.inactivityTimer = TRUE
    BY <2>7, <2>8 DEF Session
  <2>10. session' = [session EXCEPT ![p] = s]
    BY <2>1, <2>7, <2>8
  <2>11. session' \in [Peers -> Session \cup {None}]
    BY <2>7, <2>9, <2>10
  <2>12. session'[p] = s /\ \A o \in Peers : o # p => session'[o] = session[o]
    BY <2>7, <2>10
  <2>13. status' \in [Peers -> Statuses] /\ \A o \in Peers : o # p => status'[o] = status[o]
    BY <2>1, ShowStatus DEF Statuses
  <2>14. SessionTypes'
    BY <2>11, <2>13 DEF SessionTypes
  <2>15. QED
    BY <1>1, <2>1, <2>6, <2>9, <2>12, <2>13, <2>14
<1>2. CASE ~(Matches(p, id) /\ session[p].sender)
  <2>1. UNCHANGED <<loop, session, status>>
    BY <1>2 DEF HandleAccept
  <2>2. QED
    BY <1>2, <2>1, NoChange
<1>3. QED
  BY <1>1, <1>2

\* A chunk that is taken lengthens what the session's file holds, and nothing else.
LEMMA ChunkTypes ==
  ASSUME SessionTypes, QueueTypes, NEW p \in Peers, NEW m \in GoodMessage, m.type = "chunk",
         queue[p] # <<>>, HandleChunk(p, m), UNCHANGED disposed
  PROVE  /\ SessionTypes' /\ QueueTypes'
         /\ \A o \in Peers : o # p => session'[o] = session[o] /\ status'[o] = status[o]
         /\ \/ UNCHANGED <<session, status>> /\ queue' = Rest(p)
            \/ /\ session[p].sink /\ session'[p] \in Session /\ UNCHANGED status
               /\ session'[p].id = session[p].id /\ session'[p].sender = session[p].sender
               /\ session'[p].sink = session[p].sink /\ session'[p].temp = session[p].temp
               /\ session'[p].acceptTimer = session[p].acceptTimer
               /\ session'[p].inactivityTimer = session[p].inactivityTimer
               /\ queue' = Rest(p)
            \/ /\ EndSession(p, "error") /\ Busy(p)
               /\ queue' = After(Rest(p), p, Msg("cancel", session[p].id, 0))
<1>1. /\ Rest(p) \in [Peers -> Seq(GoodMessage)]
      /\ session \in [Peers -> Session \cup {None}]
  BY RestTypes DEF SessionTypes
<1>2. CASE ~(Busy(p) /\ status[p] = "receiving" /\ session[p].sink /\ ~Closing(p))
  <2>1. queue' = Rest(p) /\ UNCHANGED <<session, status>>
    BY <1>2 DEF HandleChunk
  <2>2. QED
    BY <1>1, <2>1, NoChange DEF QueueTypes
<1>3. CASE /\ Busy(p) /\ status[p] = "receiving" /\ session[p].sink /\ ~Closing(p)
           /\ session[p].bytes + 1 > Size
  <2>1. /\ EndSession(p, "error")
        /\ queue' = After(Rest(p), p, Msg("cancel", session[p].id, 0))
    BY <1>3 DEF HandleChunk
  <2>2. Msg("cancel", session[p].id, 0) \in GoodMessage
    BY <1>3, SessionFields, ZeroGood
  <2>3. QueueTypes'
    BY <1>1, <2>1, <2>2, AfterTypes DEF QueueTypes
  <2>4. SessionTypes' /\ \A o \in Peers : o # p => session'[o] = session[o]
                                                   /\ status'[o] = status[o]
    BY <2>1, EndTypes, EndedSession DEF Statuses
  <2>5. QED
    BY <1>3, <2>1, <2>3, <2>4
<1>4. CASE /\ Busy(p) /\ status[p] = "receiving" /\ session[p].sink /\ ~Closing(p)
           /\ ~(session[p].bytes + 1 > Size)
  <2>1. /\ session' = [session EXCEPT ![p].bytes = session[p].bytes + 1,
                                      ![p].got = Append(@, <<m.id, m.k>>)]
        /\ queue' = Rest(p) /\ UNCHANGED status
    BY <1>4 DEF HandleChunk
  <2>2. <<m.id, m.k>> \in Chunk
    BY TransferAssumption DEF GoodMessage, Message, Chunk
  <2>3. session[p] \in Session /\ session[p].got \in Seq(Chunk)
    BY <1>4, SessionFields
  <2>4. Append(session[p].got, <<m.id, m.k>>) \in Seq(Chunk)
    BY <2>2, <2>3, AppendProperties
  <2>5. session[p].bytes \in 0..Size
    BY SessionFields
  <2>6. session[p].bytes + 1 \in 0..Size
    BY <1>4, <2>5, TransferAssumption
  <2>7. PICK g, b : g = Append(session[p].got, <<m.id, m.k>>) /\ b = session[p].bytes + 1
    OBVIOUS
  <2>8. PICK s : s = [session[p] EXCEPT !.bytes = b, !.got = g]
    OBVIOUS
  <2>9. /\ s \in Session /\ s.id = session[p].id /\ s.sender = session[p].sender
        /\ s.temp = session[p].temp /\ s.sink = session[p].sink
        /\ s.acceptTimer = session[p].acceptTimer
        /\ s.inactivityTimer = session[p].inactivityTimer
    BY <2>3, <2>4, <2>6, <2>7, <2>8 DEF Session
  <2>10. session' = [session EXCEPT ![p] = s]
    BY <1>1, <2>1, <2>7, <2>8
  <2>11. session' \in [Peers -> Session \cup {None}]
    BY <1>1, <2>9, <2>10
  <2>12. session'[p] = s /\ \A o \in Peers : o # p => session'[o] = session[o]
    BY <1>1, <2>10
  <2>13. SessionTypes'
    BY <2>1, <2>11 DEF SessionTypes
  <2>14. QueueTypes'
    BY <1>1, <2>1 DEF QueueTypes
  <2>15. QED
    BY <1>4, <2>1, <2>9, <2>12, <2>13, <2>14
<1>5. QED
  BY <1>2, <1>3, <1>4


LEMMA EofTypes ==
  ASSUME SessionTypes, FinalTypes, NEW p \in Peers, NEW id \in Ids, HandleEof(p, id),
         UNCHANGED disposed
  PROVE  SessionTypes' /\ FinalTypes'
<1>1. \/ EndSession(p, "error") /\ UNCHANGED final
      \/ /\ final' = [final EXCEPT ![p] = [NoFinal EXCEPT !.at = "flush", !.id = id]]
         /\ UNCHANGED <<session, status>>
      \/ UNCHANGED <<session, status, final>>
  BY DEF HandleEof
<1>2. CASE EndSession(p, "error") /\ UNCHANGED final
  BY <1>2, EndTypes, NoChange DEF Statuses
<1>3. CASE /\ final' = [final EXCEPT ![p] = [NoFinal EXCEPT !.at = "flush", !.id = id]]
           /\ UNCHANGED <<session, status>>
  <2>1. PICK r : r = [NoFinal EXCEPT !.at = "flush", !.id = id]
    OBVIOUS
  <2>a. id \in 0..MaxOffers /\ NoFinal \in FinalRecord
    BY NoFinalType, TransferAssumption DEF Ids
  <2>2. r \in FinalRecord
    BY <2>1, <2>a DEF FinalRecord
  <2>3. FinalTypes'
    BY <1>3, <2>1, <2>2 DEF FinalTypes
  <2>4. QED
    BY <1>3, <2>3, NoChange
<1>4. CASE UNCHANGED <<session, status, final>>
  BY <1>4, NoChange
<1>5. QED
  BY <1>1, <1>2, <1>3, <1>4

\* What a peer does with a message.
Handled(p, m) ==
    \/ /\ disposed[p]
       /\ queue' = Rest(p)
       /\ UNCHANGED <<session, status, loop, final, stray, excused>>
    \/ /\ ~disposed[p]
       /\ \/ m.type = "metadata" /\ HandleMetadata(p, m.id)
          \/ m.type = "accept" /\ HandleAccept(p, m.id)
          \/ m.type \in {"reject", "cancel"} /\ HandleEnd(p, m.id)
          \/ m.type = "eof" /\ HandleEof(p, m.id)
          \/ m.type = "chunk" /\ HandleChunk(p, m)

LEMMA ReceiveHandles ==
  ASSUME QueueTypes, NEW p \in Peers, Receive(p)
  PROVE  /\ queue[p] # <<>> /\ Head(queue[p]) \in GoodMessage /\ Head(queue[p]).id \in Ids
         /\ Handled(p, Head(queue[p]))
         /\ UNCHANGED <<disposed, events, open, hashing, posted, accepting, owner, bounds, saved>>
<1>1. queue[p] # <<>>
  BY DEF Receive
<1>2. Head(queue[p]) \in GoodMessage
  BY <1>1, RestTypes
<1>3. Head(queue[p]).id \in Ids
  BY <1>2 DEF GoodMessage, Message
<1>4. Handled(p, Head(queue[p]))
  BY DEF Receive, Handled
<1>5. QED
  BY <1>1, <1>2, <1>3, <1>4 DEF Receive

LEMMA ReceiveTypes ==
  ASSUME Types, NEW p \in Peers, Receive(p)
  PROVE  Types'
<1>0. SessionTypes /\ QueueTypes /\ LoopTypes /\ FinalTypes /\ CountTypes
  BY DEF Types
<1>1. PICK m : m = Head(queue[p])
  OBVIOUS
<1>2. /\ queue[p] # <<>> /\ m \in GoodMessage /\ m.id \in Ids /\ Handled(p, m)
      /\ UNCHANGED <<disposed, hashing, posted, accepting>>
  BY <1>0, <1>1, ReceiveHandles
<1>3. queue' = Rest(p) => QueueTypes'
  BY <1>0, <1>2, RestTypes DEF QueueTypes
<1>4. CASE disposed[p] /\ UNCHANGED <<session, status, loop, final, stray>> /\ queue' = Rest(p)
  BY <1>0, <1>2, <1>3, <1>4, NoChange DEF Types
<1>5. CASE m.type = "metadata" /\ HandleMetadata(p, m.id)
  <2>1. UNCHANGED <<loop, final, stray>>
    BY <1>5 DEF HandleMetadata
  <2>2. QED
    BY <1>0, <1>2, <1>5, <2>1, MetadataTypes, NoChange DEF Types
<1>6. CASE m.type = "accept" /\ HandleAccept(p, m.id)
  <2>1. queue' = Rest(p) /\ UNCHANGED <<final, stray>>
    BY <1>6 DEF HandleAccept
  <2>2. SessionTypes' /\ LoopTypes'
    BY <1>0, <1>2, <1>6, AcceptTypes
  <2>3. QED
    BY <1>0, <1>2, <1>3, <2>1, <2>2, NoChange DEF Types
<1>7. CASE HandleEnd(p, m.id)
  <2>1. /\ queue' = Rest(p) /\ UNCHANGED <<loop, final, stray>>
        /\ EndSession(p, "error") \/ UNCHANGED <<session, status>>
    BY <1>7 DEF HandleEnd
  <2>2. SessionTypes'
    BY <1>0, <1>2, <2>1, EndTypes, NoChange DEF Statuses
  <2>3. QED
    BY <1>0, <1>2, <1>3, <2>1, <2>2, NoChange DEF Types
<1>8. CASE HandleEof(p, m.id)
  <2>1. queue' = Rest(p) /\ UNCHANGED <<loop, stray>>
    BY <1>8 DEF HandleEof
  <2>2. QED
    BY <1>0, <1>2, <1>3, <1>8, <2>1, EofTypes, NoChange DEF Types
<1>9. CASE m.type = "chunk" /\ HandleChunk(p, m)
  <2>1. UNCHANGED <<loop, final, stray>>
    BY <1>9 DEF HandleChunk
  <2>2. SessionTypes' /\ QueueTypes'
    BY <1>0, <1>2, <1>9, ChunkTypes
  <2>3. QED
    BY <1>0, <1>2, <2>1, <2>2, NoChange DEF Types
<1>10. QED
  BY <1>2, <1>4, <1>5, <1>6, <1>7, <1>8, <1>9 DEF Handled

LEMMA TypesInit == Init => Types
<1> SUFFICES ASSUME Init
             PROVE  Types
  OBVIOUS
<1>1. SessionTypes
  BY DEF Init, SessionTypes, Statuses
<1>2. QueueTypes
  BY EmptySeq DEF Init, QueueTypes
<1>3. NoLoop \in LoopRecord /\ NoLoop.at = "none"
  BY TransferAssumption DEF NoLoop, LoopRecord
<1>4. LoopTypes
  BY <1>3 DEF Init, LoopTypes
<1>5. FinalTypes
  BY NoFinalType DEF Init, FinalTypes
<1>6. CountTypes
  BY TransferAssumption DEF Init, CountTypes
<1>7. QED
  BY <1>1, <1>2, <1>4, <1>5, <1>6 DEF Types

LEMMA TypesStep == Types /\ [Next]_vars => Types'
<1> SUFFICES ASSUME Types, [Next]_vars
             PROVE  Types'
  OBVIOUS
<1>1. CASE UNCHANGED vars
  BY <1>1, NoChange DEF Types, vars
<1>2. ASSUME NEW p \in Peers, NEW id \in Ids, Hashed(p, id)
      PROVE  Types'
  BY <1>2, HashedTypes
<1>3. ASSUME NEW p \in Peers, NEW l \in Slots, LoopStep(p, l)
      PROVE  Types'
  BY <1>3, LoopStepTypes
<1>4. ASSUME NEW p \in Peers,
             \/ SendOffer(p) \/ ClickAccept(p) \/ ClickReject(p) \/ ClickCancel(p) \/ Dispose(p)
      PROVE  Types'
  BY <1>4, UserTypes
<1>5. ASSUME NEW p \in Peers, Posted(p) \/ Accepted(p)
      PROVE  Types'
  BY <1>5, PostedTypes, AcceptedTypes
<1>6. ASSUME NEW p \in Peers, Flushed(p) \/ PathFound(p) \/ Copied(p)
      PROVE  Types'
  BY <1>6, FinalStepTypes
<1>7. ASSUME NEW p \in Peers, Receive(p)
      PROVE  Types'
  BY <1>7, ReceiveTypes
<1>8. CASE \/ \E p \in Peers : OwnTimeout(p) \/ StrayTimeout(p) \/ ChannelEvent(p)
           \/ CloseChannel
  BY <1>8, FaultTypes
<1>9. QED
  BY <1>1, <1>2, <1>3, <1>4, <1>5, <1>6, <1>7, <1>8 DEF Next, PeerStep

LEMMA TypesGiveTypeOK == Types => TypeOK
<1> SUFFICES ASSUME Types
             PROVE  TypeOK
  OBVIOUS
<1>1. SessionTypes /\ QueueTypes /\ LoopTypes /\ FinalTypes /\ CountTypes
  BY DEF Types
<1>2. \A p \in Peers : queue[p] \in Seq(Message)
  <2>1. GoodMessage \subseteq Message
    BY DEF GoodMessage
  <2>2. QED
    BY <1>1, <2>1, SeqMonotonic DEF QueueTypes
<1>3. \A p \in Peers, l \in Slots :
          loop[p][l].at \in {"none", "open", "read", "paused", "sent", "refused", "eof", "close"}
  BY <1>1 DEF LoopTypes, LoopRecord
<1>4. \A p \in Peers : final[p].at \in {"none", "flush", "path", "copy"}
  BY <1>1 DEF FinalTypes, FinalRecord
<1>5. /\ session \in [Peers -> Session \cup {None}] /\ status \in [Peers -> Statuses]
      /\ hashing \in [Peers -> SUBSET Ids] /\ posted \in [Peers -> Nat]
      /\ accepting \in [Peers -> 0..MaxSteps] /\ stray \in [Peers -> Nat]
  BY <1>1 DEF SessionTypes, CountTypes
<1>6. QED
  BY <1>2, <1>3, <1>4, <1>5 DEF TypeOK, Statuses

\* Sessions, messages and suspended functions always have their shapes, and no session
\* counts more bytes than were announced (_handleFileChunk).
THEOREM FileTypes == Spec => []TypeOK
<1>1. Spec => []Types
  BY TypesInit, TypesStep, PTL DEF Spec
<1>2. QED
  BY <1>1, TypesGiveTypeOK, PTL


-----------------------------------------------------------------------------
(* A step is one peer's, but for the close of the channel, and what the    *)
(* other peer holds stays as it is.                                        *)

PeerActs(p) ==
    \/ SendOffer(p) \/ ClickAccept(p) \/ ClickReject(p) \/ ClickCancel(p) \/ Dispose(p)
    \/ PeerStep(p) \/ Receive(p)
    \/ \E l \in Slots : LoopStep(p, l)
    \/ OwnTimeout(p) \/ StrayTimeout(p)

LEMMA SomebodyActs == Next <=> (\E p \in Peers : PeerActs(p)) \/ CloseChannel
BY DEF Next, PeerActs

Holds(p) == <<session[p], status[p], disposed[p], posted[p], final[p]>>

LEMMA OthersStay ==
  ASSUME Types, NEW p \in Peers, NEW o \in Peers, o # p, PeerActs(p)
  PROVE  Holds(o)' = Holds(o) /\ open' = open
<1>0. SessionTypes /\ QueueTypes /\ LoopTypes /\ FinalTypes /\ CountTypes
  BY DEF Types
<1>a. \A s \in Statuses : EndSession(p, s) => session'[o] = session[o] /\ status'[o] = status[o]
  BY <1>0, EndedSession
<1>b. CancelTransfer(p) => session'[o] = session[o] /\ status'[o] = status[o]
  BY <1>0, CancelTypes
<1>c. \A s \in Statuses : Show(p, s) => status'[o] = status[o]
  BY <1>0, ShowStatus
<1>d. \A x : session' = [session EXCEPT ![p] = x] => session'[o] = session[o]
  BY <1>0 DEF SessionTypes
<1>e. \A x : final' = [final EXCEPT ![p] = x] => final'[o] = final[o]
  BY <1>0 DEF FinalTypes
<1>f. \A x : posted' = [posted EXCEPT ![p] = x] => posted'[o] = posted[o]
  BY <1>0 DEF CountTypes
<1>1. CASE SendOffer(p) \/ ClickAccept(p)
  BY <1>1 DEF SendOffer, ClickAccept, Holds
<1>2. CASE ClickReject(p)
  BY <1>2, <1>a DEF ClickReject, tasks, Holds, Statuses
<1>3. CASE ClickCancel(p)
  BY <1>3, <1>b DEF ClickCancel, tasks, Holds
<1>4. CASE Dispose(p)
  <2>1. disposed'[o] = disposed[o] /\ session'[o] = session[o]
    BY <1>0, <1>4, <1>d DEF Dispose, SessionTypes
  <2>2. UNCHANGED <<status, posted, final, open>>
    BY <1>4 DEF Dispose, tasks
  <2>3. QED
    BY <2>1, <2>2 DEF Holds
<1>5. ASSUME NEW id \in Ids, Hashed(p, id)
      PROVE  Holds(o)' = Holds(o) /\ open' = open
  <2>1. UNCHANGED <<disposed, final, open>>
    BY <1>5 DEF Hashed
  <2>2. session'[o] = session[o] /\ status'[o] = status[o]
    BY <1>5, <1>c, <1>d DEF Hashed, Statuses
  <2>3. posted'[o] = posted[o]
    BY <1>0, <1>5 DEF Hashed, CountTypes
  <2>4. QED
    BY <2>1, <2>2, <2>3 DEF Holds
<1>6. CASE Posted(p)
  <2>1. UNCHANGED <<status, disposed, final, open>> /\ posted'[o] = posted[o]
    BY <1>0, <1>6 DEF Posted, CountTypes
  <2>2. session'[o] = session[o]
    BY <1>6, PostedTypes
  <2>3. QED
    BY <2>1, <2>2 DEF Holds
<1>7. CASE Accepted(p)
  <2>1. UNCHANGED <<disposed, open, posted>> /\ Reopen(p)
    BY <1>7 DEF Accepted
  <2>2. final'[o] = final[o]
    BY <1>0, <2>1 DEF Reopen, FinalTypes
  <2>3. session'[o] = session[o] /\ status'[o] = status[o]
    <3>1. CASE Busy(p)
      BY <1>0, <1>7, <1>c, <3>1, OpenedFile DEF Accepted, Statuses
    <3>2. CASE ~Busy(p)
      BY <1>7, <1>a, <3>2 DEF Accepted, Statuses
    <3>3. QED
      BY <3>1, <3>2
  <2>4. QED
    BY <2>1, <2>2, <2>3 DEF Holds
<1>8. CASE Flushed(p) \/ PathFound(p) \/ Copied(p)
  <2>1. UNCHANGED <<disposed, open, posted>>
    BY <1>8 DEF Flushed, PathFound, Copied
  <2>2. FinalFails(p) => /\ final'[o] = final[o] /\ session'[o] = session[o]
                         /\ status'[o] = status[o]
    BY <1>a, <1>e DEF FinalFails, Statuses
  <2>3. CASE Flushed(p) /\ ~FinalFails(p)
    <3>1. /\ session[p].sink /\ UNCHANGED status
          /\ session' = [session EXCEPT ![p].sink = FALSE, ![p].inactivityTimer = FALSE]
      BY <2>3 DEF Flushed
    <3>2. session'[o] = session[o]
      BY <1>0, <3>1, SessionFields, FlushedSession
    <3>3. final'[o] = final[o]
      BY <1>e, <2>3 DEF Flushed
    <3>4. QED
      BY <2>1, <3>1, <3>2, <3>3 DEF Holds
  <2>4. CASE PathFound(p) /\ ~FinalFails(p)
    <3>1. UNCHANGED <<session, status>>
      BY <2>4 DEF PathFound
    <3>2. final'[o] = final[o]
      BY <1>0, <2>4 DEF PathFound, FinalTypes
    <3>3. QED
      BY <2>1, <3>1, <3>2 DEF Holds
  <2>5. CASE Copied(p) /\ ~FinalFails(p)
    <3>1. session'[o] = session[o] /\ status'[o] = status[o] /\ final'[o] = final[o]
      BY <1>c, <1>d, <1>e, <2>5 DEF Copied, Statuses
    <3>2. QED
      BY <2>1, <3>1 DEF Holds
  <2>6. QED
    BY <1>8, <2>1, <2>2, <2>3, <2>4, <2>5 DEF Holds
<1>9. CASE ChannelEvent(p)
  BY <1>9, <1>a DEF ChannelEvent, tasks, Holds, Statuses
<1>10. CASE Receive(p)
  <2>1. PICK m : m = Head(queue[p])
    OBVIOUS
  <2>2. /\ queue[p] # <<>> /\ m \in GoodMessage /\ m.id \in Ids /\ Handled(p, m)
        /\ UNCHANGED <<disposed, open, posted>>
    BY <1>0, <1>10, <2>1, ReceiveHandles
  <2>3. CASE UNCHANGED <<session, status, final>>
    BY <2>2, <2>3 DEF Holds
  <2>4. CASE m.type = "metadata" /\ HandleMetadata(p, m.id)
    BY <1>c, <1>d, <2>2, <2>4 DEF HandleMetadata, Holds, Statuses
  <2>5. CASE HandleAccept(p, m.id)
    <3>1. session'[o] = session[o] /\ status'[o] = status[o]
      BY <1>0, <2>2, <2>5, AcceptTypes
    <3>2. UNCHANGED final
      BY <2>5 DEF HandleAccept
    <3>3. QED
      BY <2>2, <3>1, <3>2 DEF Holds
  <2>6. CASE HandleEnd(p, m.id)
    BY <1>a, <2>2, <2>6 DEF HandleEnd, Holds, Statuses
  <2>7. CASE HandleEof(p, m.id)
    BY <1>a, <1>e, <2>2, <2>7 DEF HandleEof, Holds, Statuses
  <2>8. CASE m.type = "chunk" /\ HandleChunk(p, m)
    <3>1. session'[o] = session[o] /\ status'[o] = status[o]
      BY <1>0, <2>2, <2>8, ChunkTypes
    <3>2. UNCHANGED final
      BY <2>8 DEF HandleChunk
    <3>3. QED
      BY <2>2, <3>1, <3>2 DEF Holds
  <2>9. QED
    BY <2>2, <2>3, <2>4, <2>5, <2>6, <2>7, <2>8 DEF Handled
<1>11. ASSUME NEW l \in Slots, LoopStep(p, l)
       PROVE  Holds(o)' = Holds(o) /\ open' = open
  <2>1. CASE Opened(p, l) \/ Low(p, l) \/ Read(p, l) \/ Sent(p, l)
    BY <2>1 DEF Opened, Low, Read, Sent, Holds
  <2>2. CASE Refused(p, l)
    BY <1>b, <2>2 DEF Refused, Holds
  <2>3. CASE EofSent(p, l)
    BY <1>c, <2>3 DEF EofSent, Holds, Statuses
  <2>4. CASE FileClosed(p, l)
    BY <1>d, <2>4 DEF FileClosed, Holds
  <2>5. QED
    BY <1>11, <2>1, <2>2, <2>3, <2>4 DEF LoopStep
<1>12. CASE OwnTimeout(p) \/ StrayTimeout(p)
  BY <1>b, <1>12 DEF OwnTimeout, StrayTimeout, Timeout, tasks, Holds
<1>13. QED
  BY <1>1, <1>2, <1>3, <1>4, <1>5, <1>6, <1>7, <1>8, <1>9, <1>10, <1>11, <1>12
     DEF PeerActs, PeerStep


-----------------------------------------------------------------------------
(* WaitingIsTimed, peer by peer.                                           *)

Timed(p) ==
    /\ Busy(p) /\ ~disposed[p] /\ status[p] = "offering" /\ open
       => session[p].acceptTimer \/ posted[p] > 0
    /\ Busy(p) /\ ~disposed[p] /\ status[p] \in {"transferring", "receiving"} =>
          session[p].inactivityTimer \/ final[p].at # "none"

LEMMA TimedIsTimed == WaitingIsTimed <=> \A p \in Peers : Timed(p)
BY DEF WaitingIsTimed, Timed

LEMMA TimedGone ==
  ASSUME NEW p \in Peers, session'[p] = None
  PROVE  Timed(p)'
BY DEF Timed, Busy

LEMMA TimedSame ==
  ASSUME NEW p \in Peers, Timed(p), session'[p] = session[p], status'[p] = status[p],
         disposed'[p] = disposed[p], open' => open, posted'[p] = posted[p],
         final'[p].at = final[p].at \/ final'[p].at # "none"
  PROVE  Timed(p)'
BY DEF Timed, Busy

\* A disposed service, or one that shows something else, waits for nobody.
LEMMA TimedIdle ==
  ASSUME NEW p \in Peers,
         disposed'[p] \/ status'[p] \in {"idle", "offered", "completed", "error"}
  PROVE  Timed(p)'
BY DEF Timed

LEMMA TimedOwn ==
  ASSUME Types, NEW p \in Peers, Timed(p), PeerActs(p)
  PROVE  Timed(p)'
<1>0. SessionTypes /\ QueueTypes /\ LoopTypes /\ FinalTypes /\ CountTypes
  BY DEF Types
<1>a. ASSUME NEW s \in Statuses, EndSession(p, s)
      PROVE  Timed(p)'
  BY <1>0, <1>a, EndedSession, TimedGone
<1>b. ASSUME CancelTransfer(p)
      PROVE  session'[p] = None
  BY <1>0, <1>b, CancelTypes
<1>c. ASSUME UNCHANGED <<session, status, disposed, open, posted>>,
             final' = final \/ final'[p].at # "none"
      PROVE  Timed(p)'
  BY <1>c, TimedSame
<1>d. ASSUME NEW s \in {"idle", "offered", "completed", "error"}, Show(p, s), UNCHANGED disposed
      PROVE  Timed(p)'
  <2>1. s \in Statuses
    BY DEF Statuses
  <2>2. ~disposed[p] => status'[p] = s
    BY <1>0, <1>d, <2>1, ShowStatus
  <2>3. disposed'[p] = disposed[p] /\ disposed[p] \in BOOLEAN
    BY <1>0, <1>d DEF SessionTypes
  <2>4. QED
    BY <2>2, <2>3, TimedIdle
<1>1. CASE SendOffer(p) \/ ClickAccept(p)
  BY <1>1, <1>c DEF SendOffer, ClickAccept
<1>2. CASE ClickReject(p)
  BY <1>2, <1>a DEF ClickReject, Statuses
<1>3. CASE ClickCancel(p)
  BY <1>3, <1>b, TimedGone DEF ClickCancel
<1>4. CASE Dispose(p)
  <2>1. session'[p] = None
    BY <1>0, <1>4 DEF Dispose, SessionTypes
  <2>2. QED
    BY <2>1, TimedGone
<1>5. ASSUME NEW id \in Ids, Hashed(p, id)
      PROVE  Timed(p)'
  <2>1. CASE Busy(p)
    BY <1>5, <1>c, <2>1 DEF Hashed
  <2>2. CASE ~Busy(p)
    <3>1. /\ UNCHANGED <<disposed, open>> /\ Show(p, "offering")
          /\ posted' = IF open THEN [posted EXCEPT ![p] = @ + 1] ELSE posted
      BY <1>5, <2>2 DEF Hashed
    <3>2. open => posted'[p] > 0
      BY <1>0, <3>1 DEF CountTypes
    <3>3. ~disposed[p] => status'[p] = "offering"
      BY <1>0, <3>1, ShowStatus DEF Statuses
    <3>4. QED
      BY <3>1, <3>2, <3>3 DEF Timed
  <2>3. QED
    BY <2>1, <2>2
<1>6. CASE Posted(p)
  <2>1. UNCHANGED <<status, disposed, final, open>>
    BY <1>6 DEF Posted
  <2>2. CASE Busy(p)
    <3>1. /\ session'[p].acceptTimer = TRUE
          /\ session'[p].inactivityTimer = session[p].inactivityTimer
      BY <1>6, <2>2, PostedTypes
    <3>2. QED
      BY <2>1, <2>2, <3>1 DEF Timed
  <2>3. CASE ~Busy(p)
    <3>1. session'[p] = None
      BY <1>6, <2>3, PostedTypes DEF Busy
    <3>2. QED
      BY <3>1, TimedGone
  <2>4. QED
    BY <2>2, <2>3
<1>7. CASE Accepted(p)
  <2>1. CASE Busy(p)
    <3>1. /\ session' = [session EXCEPT ![p].sink = TRUE, ![p].temp = TRUE, ![p].got = <<>>,
                                        ![p].inactivityTimer = TRUE]
          /\ Show(p, "receiving") /\ UNCHANGED disposed
      BY <1>7, <2>1 DEF Accepted
    <3>2. session'[p].inactivityTimer = TRUE
      BY <1>0, <2>1, <3>1, OpenedFile
    <3>3. ~disposed[p] => status'[p] = "receiving"
      BY <1>0, <3>1, ShowStatus DEF Statuses
    <3>4. QED
      BY <3>1, <3>2, <3>3 DEF Timed
  <2>2. CASE ~Busy(p)
    BY <1>7, <1>a, <2>2 DEF Accepted, Statuses
  <2>3. QED
    BY <2>1, <2>2
<1>8. CASE FinalFails(p)
  BY <1>8, <1>a DEF FinalFails, Statuses
<1>9. CASE Flushed(p) /\ ~FinalFails(p)
  <2>1. /\ session[p].sink /\ UNCHANGED <<status, disposed, open, posted>>
        /\ session' = [session EXCEPT ![p].sink = FALSE, ![p].inactivityTimer = FALSE]
        /\ final' = [final EXCEPT ![p] = Checked(p)]
    BY <1>9 DEF Flushed
  <2>2. final'[p].at # "none"
    BY <1>0, <2>1, CheckedFields DEF FinalTypes
  <2>3. session'[p].acceptTimer = session[p].acceptTimer /\ Busy(p)
    BY <1>0, <2>1, SessionFields, FlushedSession
  <2>4. QED
    BY <2>1, <2>2, <2>3 DEF Timed
<1>10. CASE PathFound(p) /\ ~FinalFails(p)
  <2>1. UNCHANGED <<session, status, disposed, open, posted>> /\ final'[p].at = "copy"
    BY <1>0, <1>10 DEF PathFound, FinalTypes
  <2>2. QED
    BY <1>c, <2>1
<1>11. CASE Copied(p) /\ ~FinalFails(p)
  <2>1. session'[p] = None
    BY <1>0, <1>11 DEF Copied, SessionTypes
  <2>2. QED
    BY <2>1, TimedGone
<1>12. CASE ChannelEvent(p)
  <2>1. CASE EndSession(p, "error")
    BY <1>a, <2>1 DEF Statuses
  <2>2. CASE ~EndSession(p, "error")
    BY <1>12, <1>c, <2>2 DEF ChannelEvent, tasks
  <2>3. QED
    BY <2>1, <2>2
<1>13. CASE Receive(p)
  <2>1. PICK m : m = Head(queue[p])
    OBVIOUS
  <2>2. /\ queue[p] # <<>> /\ m \in GoodMessage /\ m.id \in Ids /\ Handled(p, m)
        /\ UNCHANGED <<disposed, open, posted>>
    BY <1>0, <1>13, <2>1, ReceiveHandles
  <2>3. CASE UNCHANGED <<session, status, final>>
    BY <1>c, <2>2, <2>3
  <2>4. CASE HandleMetadata(p, m.id)
    <3>1. Show(p, "offered") \/ UNCHANGED <<session, status, final>>
      BY <2>4 DEF HandleMetadata
    <3>2. QED
      BY <1>d, <2>2, <2>3, <3>1
  <2>5. CASE HandleAccept(p, m.id)
    <3>1. UNCHANGED final
      BY <2>5 DEF HandleAccept
    <3>2. CASE Matches(p, m.id) /\ session[p].sender
      <4>1. session'[p].inactivityTimer = TRUE /\ Show(p, "transferring")
        BY <1>0, <2>2, <2>5, <3>2, AcceptTypes
      <4>2. ~disposed[p] => status'[p] = "transferring"
        BY <1>0, <4>1, ShowStatus DEF Statuses
      <4>3. QED
        BY <2>2, <4>1, <4>2 DEF Timed
    <3>3. CASE ~(Matches(p, m.id) /\ session[p].sender)
      BY <2>3, <2>5, <3>1, <3>3 DEF HandleAccept
    <3>4. QED
      BY <3>2, <3>3
  <2>6. CASE HandleEnd(p, m.id)
    <3>1. EndSession(p, "error") \/ UNCHANGED <<session, status, final>>
      BY <2>6 DEF HandleEnd
    <3>2. QED
      BY <1>a, <2>3, <3>1 DEF Statuses
  <2>7. CASE HandleEof(p, m.id)
    <3>1. \/ EndSession(p, "error") \/ UNCHANGED <<session, status, final>>
          \/ UNCHANGED <<session, status>> /\ final'[p].at = "flush"
      BY ZenonT(60), <1>0, <2>7 DEF HandleEof, FinalTypes, NoFinal
    <3>2. QED
      BY <1>a, <1>c, <2>2, <3>1 DEF Statuses
  <2>8. CASE m.type = "chunk" /\ HandleChunk(p, m)
    <3>1. UNCHANGED final
      BY <2>8 DEF HandleChunk
    <3>2. \/ UNCHANGED <<session, status>> \/ EndSession(p, "error")
          \/ /\ session[p].sink /\ UNCHANGED status
             /\ session'[p].acceptTimer = session[p].acceptTimer
             /\ session'[p].inactivityTimer = session[p].inactivityTimer
      BY <1>0, <2>2, <2>8, ChunkTypes
    <3>3. session[p].sink => Busy(p)
      BY <1>0, SessionFields
    <3>4. CASE /\ session[p].sink /\ UNCHANGED status
               /\ session'[p].acceptTimer = session[p].acceptTimer
               /\ session'[p].inactivityTimer = session[p].inactivityTimer
      BY <2>2, <3>1, <3>3, <3>4 DEF Timed
    <3>5. QED
      BY <1>a, <2>3, <3>1, <3>2, <3>4 DEF Statuses
  <2>9. QED
    BY <2>2, <2>3, <2>4, <2>5, <2>6, <2>7, <2>8 DEF Handled
<1>14. ASSUME NEW l \in Slots, LoopStep(p, l)
       PROVE  Timed(p)'
  <2>1. CASE Opened(p, l) \/ Low(p, l) \/ Read(p, l) \/ Sent(p, l)
    BY <1>c, <2>1 DEF Opened, Low, Read, Sent
  <2>2. CASE Refused(p, l)
    BY <1>b, <2>2, TimedGone DEF Refused
  <2>3. CASE EofSent(p, l)
    BY <1>d, <2>3 DEF EofSent
  <2>4. CASE FileClosed(p, l)
    <3>1. UNCHANGED <<status, disposed, open, posted, final>>
      BY <2>4 DEF FileClosed
    <3>2. session' = session \/ session'[p] = None
      BY <1>0, <2>4 DEF FileClosed, SessionTypes
    <3>3. QED
      BY <1>c, <3>1, <3>2, TimedGone
  <2>5. QED
    BY <1>14, <2>1, <2>2, <2>3, <2>4 DEF LoopStep
<1>15. CASE OwnTimeout(p) \/ StrayTimeout(p)
  BY <1>b, <1>15, TimedGone DEF OwnTimeout, StrayTimeout, Timeout
<1>16. QED
  BY <1>1, <1>2, <1>3, <1>4, <1>5, <1>6, <1>7, <1>8, <1>9, <1>10, <1>11, <1>12, <1>13, <1>14,
     <1>15 DEF PeerActs, PeerStep

LEMMA TimedStep ==
  ASSUME Types, NEW p \in Peers, Timed(p), [Next]_vars
  PROVE  Timed(p)'
<1>1. CASE UNCHANGED vars
  BY <1>1 DEF vars, Timed, Busy
<1>2. ASSUME NEW x \in Peers, PeerActs(x)
      PROVE  Timed(p)'
  <2>1. CASE x = p
    BY <1>2, <2>1, TimedOwn
  <2>2. CASE x # p
    <3>1. Holds(p)' = Holds(p) /\ open' = open
      BY <1>2, <2>2, OthersStay
    <3>2. QED
      BY <3>1 DEF Timed, Busy, Holds
  <2>3. QED
    BY <2>1, <2>2
<1>3. CASE CloseChannel
  BY <1>3 DEF CloseChannel, tasks, Timed, Busy
<1>4. QED
  BY <1>1, <1>2, <1>3, SomebodyActs

LEMMA TimedInit == Init => \A p \in Peers : Timed(p)
BY DEF Init, Timed

\* Who waits for the other peer has a timer that ends the wait (_startAcceptTimeout,
\* _startInactivityTimer), until _finalizeReceive has closed the received file.
THEOREM WaitsAreTimed == Spec => []WaitingIsTimed
<1>1. Types /\ (\A p \in Peers : Timed(p)) /\ [Next]_vars
      => Types' /\ (\A p \in Peers : Timed(p))'
  BY TypesStep, TimedStep
<1>2. Init => Types /\ \A p \in Peers : Timed(p)
  BY TypesInit, TimedInit
<1>3. (\A p \in Peers : Timed(p)) => WaitingIsTimed
  BY TimedIsTimed
<1>4. QED
  BY <1>1, <1>2, <1>3, PTL DEF Spec


-----------------------------------------------------------------------------
(* SavedIsWhole: between the check and the copy, the session whose file    *)
(* was checked takes no chunk, and only a late Accept gives a session a    *)
(* file again.                                                             *)

FinalOK(p) ==
    /\ /\ final[p].at = "path" /\ ~final[p].swapped
       /\ session[p].temp /\ session[p].id = final[p].id
       => session[p].got = Whole(final[p].id) /\ ~session[p].sink
    /\ final[p].at = "copy" /\ ~final[p].swapped => final[p].got = Whole(final[p].id)

LEMMA FinalFresh ==
  ASSUME NEW p \in Peers, FinalOK(p), final'[p] = final[p], ~session'[p].temp
  PROVE  FinalOK(p)'
BY DEF FinalOK, Whole

LEMMA FinalSame ==
  ASSUME NEW p \in Peers, FinalOK(p), final'[p] = final[p],
         session'[p].temp = session[p].temp, session'[p].id = session[p].id,
         session'[p].got = session[p].got, session'[p].sink = session[p].sink
  PROVE  FinalOK(p)'
BY DEF FinalOK, Whole

LEMMA FinalElsewhere ==
  ASSUME NEW p \in Peers, final'[p].at \notin {"path", "copy"}
  PROVE  FinalOK(p)'
BY DEF FinalOK

LEMMA FinalOwn ==
  ASSUME Types, NEW p \in Peers, FinalOK(p), PeerActs(p)
  PROVE  FinalOK(p)'
<1>0. SessionTypes /\ QueueTypes /\ LoopTypes /\ FinalTypes /\ CountTypes
  BY DEF Types
<1>a. ASSUME NEW s \in Statuses, EndSession(p, s), UNCHANGED final
      PROVE  FinalOK(p)'
  BY <1>0, <1>a, EndedSession, NoneFields, FinalFresh
<1>b. ASSUME CancelTransfer(p), UNCHANGED final
      PROVE  FinalOK(p)'
  BY <1>0, <1>b, CancelTypes, NoneFields, FinalFresh
<1>c. ASSUME UNCHANGED <<session, final>>
      PROVE  FinalOK(p)'
  BY <1>c, FinalSame
<1>1. CASE SendOffer(p) \/ ClickAccept(p)
  BY <1>1, <1>c DEF SendOffer, ClickAccept
<1>2. CASE ClickReject(p)
  BY <1>2, <1>a DEF ClickReject, tasks, Statuses
<1>3. CASE ClickCancel(p)
  BY <1>3, <1>b DEF ClickCancel, tasks
<1>4. CASE Dispose(p)
  <2>1. session'[p] = None /\ UNCHANGED final
    BY <1>0, <1>4 DEF Dispose, SessionTypes, tasks
  <2>2. QED
    BY <2>1, NoneFields, FinalFresh
<1>5. ASSUME NEW id \in Ids, Hashed(p, id)
      PROVE  FinalOK(p)'
  <2>1. CASE Busy(p)
    BY <1>5, <1>c, <2>1 DEF Hashed
  <2>2. CASE ~Busy(p)
    <3>1. UNCHANGED final /\ session'[p] = NewSession(id, TRUE)
      BY <1>0, <1>5, <2>2 DEF Hashed, SessionTypes
    <3>2. QED
      BY <3>1, NewFields, FinalFresh
  <2>3. QED
    BY <2>1, <2>2
<1>6. CASE Posted(p)
  <2>1. UNCHANGED final
    BY <1>6 DEF Posted
  <2>2. /\ session'[p].temp = session[p].temp /\ session'[p].id = session[p].id
        /\ session'[p].got = session[p].got /\ session'[p].sink = session[p].sink
    BY <1>6, PostedTypes
  <2>3. QED
    BY <2>1, <2>2, FinalSame
<1>7. CASE Accepted(p)
  <2>1. Reopen(p)
    BY <1>7 DEF Accepted
  <2>2. CASE Busy(p)
    <3>1. session' = [session EXCEPT ![p].sink = TRUE, ![p].temp = TRUE, ![p].got = <<>>,
                                     ![p].inactivityTimer = TRUE]
      BY <1>7, <2>2 DEF Accepted
    <3>2. session'[p].id = session[p].id
      BY <1>0, <2>2, <3>1, OpenedFile
    <3>3. CASE Matches(p, final[p].id)
      <4>1. final'[p].swapped
        BY <1>0, <2>1, <3>3 DEF Reopen, FinalTypes, FinalRecord
      <4>2. QED
        BY <4>1 DEF FinalOK
    <3>4. CASE ~Matches(p, final[p].id)
      <4>1. final' = final /\ session'[p].id # final[p].id
        BY <2>1, <2>2, <3>2, <3>4 DEF Reopen, Matches
      <4>2. QED
        BY <4>1 DEF FinalOK, Whole
    <3>5. QED
      BY <3>3, <3>4
  <2>3. CASE ~Busy(p)
    <3>1. EndSession(p, "error") /\ UNCHANGED final
      BY <1>7, <2>1, <2>3 DEF Accepted, Reopen, Matches
    <3>2. QED
      BY <1>a, <3>1 DEF Statuses
  <2>4. QED
    BY <2>2, <2>3
<1>8. CASE FinalFails(p)
  <2>1. final'[p] = NoFinal
    BY <1>0, <1>8 DEF FinalFails, FinalTypes
  <2>2. QED
    BY <2>1, NoFinalFields, FinalElsewhere
<1>9. CASE Flushed(p) /\ ~FinalFails(p)
  <2>1. /\ session[p].sink /\ session[p].got = Whole(session[p].id)
        /\ session' = [session EXCEPT ![p].sink = FALSE, ![p].inactivityTimer = FALSE]
        /\ final' = [final EXCEPT ![p] = Checked(p)]
    BY <1>9 DEF Flushed
  <2>2. final'[p].at = "path" /\ final'[p].id = session[p].id
    BY <1>0, <2>1, CheckedFields DEF FinalTypes
  <2>3. session'[p].got = session[p].got /\ session'[p].sink = FALSE
    BY <1>0, <2>1, SessionFields, FlushedSession
  <2>4. QED
    BY <2>1, <2>2, <2>3 DEF FinalOK, Whole
<1>10. CASE PathFound(p) /\ ~FinalFails(p)
  <2>1. /\ final[p].at = "path" /\ session[p].temp /\ UNCHANGED session
        /\ final' = [final EXCEPT ![p] =
                        [at |-> "copy", id |-> session[p].id, got |-> session[p].got,
                         swapped |-> @.swapped \/ session[p].id # @.id]]
    BY <1>10 DEF PathFound
  <2>2. /\ final'[p].at = "copy" /\ final'[p].id = session[p].id
        /\ final'[p].got = session[p].got
        /\ ~final'[p].swapped => ~final[p].swapped /\ session[p].id = final[p].id
    BY <1>0, <2>1 DEF FinalTypes
  <2>3. QED
    BY <2>1, <2>2 DEF FinalOK, Whole
<1>11. CASE Copied(p) /\ ~FinalFails(p)
  <2>1. final'[p] = NoFinal
    BY <1>0, <1>11 DEF Copied, FinalTypes
  <2>2. QED
    BY <2>1, NoFinalFields, FinalElsewhere
<1>12. CASE ChannelEvent(p)
  BY <1>12, <1>a, <1>c DEF ChannelEvent, tasks, Statuses
<1>13. CASE Receive(p)
  <2>1. PICK m : m = Head(queue[p])
    OBVIOUS
  <2>2. /\ queue[p] # <<>> /\ m \in GoodMessage /\ m.id \in Ids /\ Handled(p, m)
        /\ UNCHANGED disposed
    BY <1>0, <1>13, <2>1, ReceiveHandles
  <2>3. CASE HandleMetadata(p, m.id)
    <3>1. UNCHANGED final /\ (UNCHANGED session \/ session'[p] = NewSession(m.id, FALSE))
      BY <1>0, <2>3 DEF HandleMetadata, SessionTypes
    <3>2. QED
      BY <1>c, <2>2, <3>1, NewFields, FinalFresh
  <2>4. CASE HandleAccept(p, m.id)
    <3>1. UNCHANGED final
      BY <2>4 DEF HandleAccept
    <3>2. /\ session'[p].temp = session[p].temp /\ session'[p].id = session[p].id
          /\ session'[p].got = session[p].got /\ session'[p].sink = session[p].sink
      BY <1>0, <2>2, <2>4, AcceptTypes
    <3>3. QED
      BY <3>1, <3>2, FinalSame
  <2>5. CASE HandleEnd(p, m.id)
    BY <1>a, <1>c, <2>5 DEF HandleEnd, Statuses
  <2>6. CASE HandleEof(p, m.id)
    <3>1. \/ EndSession(p, "error") /\ UNCHANGED final
          \/ UNCHANGED <<session, final>>
          \/ final'[p].at = "flush"
      BY ZenonT(60), <1>0, <2>6 DEF HandleEof, FinalTypes, NoFinal
    <3>2. QED
      BY <1>a, <1>c, <3>1, FinalElsewhere DEF Statuses
  <2>7. CASE m.type = "chunk" /\ HandleChunk(p, m)
    <3>1. UNCHANGED final
      BY <2>7 DEF HandleChunk
    <3>2. \/ UNCHANGED session \/ EndSession(p, "error")
          \/ /\ session[p].sink
             /\ session'[p].id = session[p].id
             /\ session'[p].sink = session[p].sink /\ session'[p].temp = session[p].temp
      BY <1>0, <2>2, <2>7, ChunkTypes
    <3>3. CASE /\ session[p].sink
               /\ session'[p].id = session[p].id
               /\ session'[p].sink = session[p].sink /\ session'[p].temp = session[p].temp
      BY <3>1, <3>3 DEF FinalOK, Whole
    <3>4. QED
      BY <1>a, <1>c, <3>1, <3>2, <3>3 DEF Statuses
  <2>8. QED
    BY <1>c, <2>2, <2>3, <2>4, <2>5, <2>6, <2>7 DEF Handled
<1>14. ASSUME NEW l \in Slots, LoopStep(p, l)
       PROVE  FinalOK(p)'
  <2>1. CASE Opened(p, l) \/ Low(p, l) \/ Read(p, l) \/ Sent(p, l) \/ EofSent(p, l)
    BY <1>c, <2>1 DEF Opened, Low, Read, Sent, EofSent
  <2>2. CASE Refused(p, l)
    BY <1>b, <2>2 DEF Refused
  <2>3. CASE FileClosed(p, l)
    <3>1. UNCHANGED final /\ (session' = session \/ session'[p] = None)
      BY <1>0, <2>3 DEF FileClosed, SessionTypes
    <3>2. QED
      BY <1>c, <3>1, NoneFields, FinalFresh
  <2>4. QED
    BY <1>14, <2>1, <2>2, <2>3 DEF LoopStep
<1>15. CASE OwnTimeout(p) \/ StrayTimeout(p)
  BY <1>b, <1>15 DEF OwnTimeout, StrayTimeout, Timeout, tasks
<1>16. QED
  BY <1>1, <1>2, <1>3, <1>4, <1>5, <1>6, <1>7, <1>8, <1>9, <1>10, <1>11, <1>12, <1>13, <1>14,
     <1>15 DEF PeerActs, PeerStep

LEMMA FinalStep ==
  ASSUME Types, NEW p \in Peers, FinalOK(p), [Next]_vars
  PROVE  FinalOK(p)'
<1>1. CASE UNCHANGED vars
  BY <1>1, FinalSame DEF vars
<1>2. ASSUME NEW x \in Peers, PeerActs(x)
      PROVE  FinalOK(p)'
  <2>1. CASE x = p
    BY <1>2, <2>1, FinalOwn
  <2>2. CASE x # p
    <3>1. Holds(p)' = Holds(p)
      BY <1>2, <2>2, OthersStay
    <3>2. QED
      BY <3>1, FinalSame DEF Holds
  <2>3. QED
    BY <2>1, <2>2
<1>3. CASE CloseChannel
  BY <1>3, FinalSame DEF CloseChannel, tasks
<1>4. QED
  BY <1>1, <1>2, <1>3, SomebodyActs

\* Only the end of _finalizeReceive saves, and what it saves is what it copied.
LEMMA SavedByCopy ==
  ASSUME NEW p \in Peers, PeerActs(p)
  PROVE  \/ saved' = saved
         \/ /\ final[p].at = "copy"
            /\ saved' = saved \cup {[by |-> p, id |-> final[p].id, got |-> final[p].got,
                                     swapped |-> final[p].swapped]}
<1>1. CASE SendOffer(p) \/ ClickAccept(p) \/ ClickReject(p) \/ ClickCancel(p) \/ Dispose(p)
  BY <1>1 DEF SendOffer, ClickAccept, ClickReject, ClickCancel, Dispose
<1>2. CASE PeerStep(p)
  <2>1. CASE \E id \in Ids : Hashed(p, id)
    BY <2>1 DEF Hashed
  <2>2. CASE Posted(p) \/ Accepted(p) \/ ChannelEvent(p)
    BY <2>2 DEF Posted, Accepted, ChannelEvent
  <2>3. CASE Flushed(p) \/ PathFound(p)
    BY <2>3 DEF Flushed, PathFound, FinalFails
  <2>4. CASE Copied(p)
    BY <2>4 DEF Copied, FinalFails
  <2>5. QED
    BY <1>2, <2>1, <2>2, <2>3, <2>4 DEF PeerStep
<1>3. CASE Receive(p)
  BY <1>3 DEF Receive
<1>4. ASSUME NEW l \in Slots, LoopStep(p, l)
      PROVE  saved' = saved
  BY <1>4 DEF LoopStep, Opened, Low, Read, Sent, Refused, EofSent, FileClosed
<1>5. CASE OwnTimeout(p) \/ StrayTimeout(p)
  BY <1>5 DEF OwnTimeout, StrayTimeout, Timeout
<1>6. QED
  BY <1>1, <1>2, <1>3, <1>4, <1>5 DEF PeerActs

SavedInv == Types /\ (\A p \in Peers : FinalOK(p)) /\ SavedIsWhole

LEMMA SavedStep == SavedInv /\ [Next]_vars => SavedInv'
<1> SUFFICES ASSUME SavedInv, [Next]_vars
             PROVE  SavedInv'
  OBVIOUS
<1>1. Types' /\ (\A p \in Peers : FinalOK(p))'
  BY TypesStep, FinalStep DEF SavedInv
<1>2. ASSUME NEW p \in Peers, PeerActs(p)
      PROVE  SavedIsWhole'
  <2>1. CASE saved' = saved
    BY <2>1 DEF SavedInv, SavedIsWhole
  <2>2. CASE /\ final[p].at = "copy"
             /\ saved' = saved \cup {[by |-> p, id |-> final[p].id, got |-> final[p].got,
                                      swapped |-> final[p].swapped]}
    <3>1. final[p].got = Whole(final[p].id) \/ final[p].swapped
      BY <2>2 DEF SavedInv, FinalOK
    <3>2. QED
      BY <2>2, <3>1 DEF SavedInv, SavedIsWhole
  <2>3. QED
    BY <1>2, <2>1, <2>2, SavedByCopy
<1>3. ASSUME CloseChannel \/ UNCHANGED vars
      PROVE  SavedIsWhole'
  <2>1. saved' = saved
    BY <1>3 DEF CloseChannel, vars
  <2>2. QED
    BY <2>1 DEF SavedInv, SavedIsWhole
<1>4. SavedIsWhole'
  BY <1>2, <1>3, SomebodyActs
<1>5. QED
  BY <1>1, <1>4 DEF SavedInv

LEMMA SavedInit == Init => SavedInv
BY TypesInit, NoFinalFields DEF Init, SavedInv, SavedIsWhole, FinalOK

\* What _finalizeReceive saves is the whole file that was offered, chunk by chunk and in
\* order, unless the file checked was not the one copied, or was opened again in between.
THEOREM SavedFilesAreWhole == Spec => []SavedIsWhole
<1>1. SavedInv => SavedIsWhole
  BY DEF SavedInv
<1>2. QED
  BY <1>1, SavedInit, SavedStep, PTL DEF Spec


-----------------------------------------------------------------------------
(* OneWay, when no id is drawn by both peers: a session is of an offer     *)
(* that its sender has made, and a sender whose offer is accepted, or has  *)
(* an accept on its way, faces none that is in the same position.          *)

Elements(s) == {s[n] : n \in 1..Len(s)}
Mail(p) == Elements(queue[p])

\* An offer of p whose file has been hashed.
Made(p, id) == <<p, id>> \in drawn /\ id \notin hashing[p]

Promised(p) ==
    /\ Busy(p) /\ session[p].sender
    /\ \/ status[p] = "transferring" /\ ~disposed[p]
       \/ \E m \in Mail(p) : m.type = "accept" /\ m.id = session[p].id

DrawnApart == \A p \in Peers, id \in Ids : <<p, id>> \in drawn => <<Other(p), id>> \notin drawn
HashingDrawn == \A p \in Peers : \A id \in hashing[p] : <<p, id>> \in drawn
SessionMade ==
    \A p \in Peers : Busy(p) => IF session[p].sender THEN Made(p, session[p].id)
                                                     ELSE Made(Other(p), session[p].id)
MailMade ==
    \A p \in Peers : \A m \in Mail(p) :
        /\ m.type = "metadata" => Made(Other(p), m.id)
        /\ m.type = "accept" => \E o \in Peers : Made(o, m.id)
TransferringSends ==
    \A p \in Peers : status[p] = "transferring" /\ ~disposed[p] => Busy(p) /\ session[p].sender
OnePromise == \A p \in Peers : ~(Promised(p) /\ Promised(Other(p)))

WayInv == DrawnApart /\ HashingDrawn /\ SessionMade /\ MailMade /\ TransferringSends /\ OnePromise


LEMMA AppendElements ==
  ASSUME NEW s \in Seq(GoodMessage), NEW m \in GoodMessage
  PROVE  Elements(Append(s, m)) = Elements(s) \cup {m}
<1>1. Len(Append(s, m)) = Len(s) + 1 /\ Len(s) \in Nat
  BY AppendProperties, LenProperties
<1>2. \A n \in 1..Len(s) : Append(s, m)[n] = s[n]
  BY AppendProperties
<1>3. Append(s, m)[Len(s) + 1] = m
  BY AppendProperties
<1>4. \A n \in 1..(Len(s) + 1) : n \in 1..Len(s) \/ n = Len(s) + 1
  BY <1>1
<1>5. 1..Len(s) \subseteq 1..(Len(s) + 1) /\ Len(s) + 1 \in 1..(Len(s) + 1)
  BY <1>1
<1>6. QED
  BY <1>1, <1>2, <1>3, <1>4, <1>5 DEF Elements

LEMMA TailElements ==
  ASSUME NEW s \in Seq(GoodMessage), s # <<>>
  PROVE  Elements(Tail(s)) \subseteq Elements(s) /\ Head(s) \in Elements(s)
<1>1. Len(Tail(s)) = Len(s) - 1 /\ Len(s) \in Nat /\ Len(s) # 0
  BY HeadTailProperties, LenProperties, EmptySeq
<1>2. \A n \in 1..Len(Tail(s)) : Tail(s)[n] = s[n + 1]
  BY HeadTailProperties
<1>3. \A n \in 1..Len(Tail(s)) : n + 1 \in 1..Len(s)
  BY <1>1
<1>4. Head(s) = s[1] /\ 1 \in 1..Len(s)
  BY <1>1, HeadTailProperties
<1>5. QED
  BY <1>2, <1>3, <1>4 DEF Elements

\* What a send can add to the queues q.
LEMMA AfterElements ==
  ASSUME NEW q \in [Peers -> Seq(GoodMessage)], NEW p \in Peers, NEW m \in GoodMessage,
         NEW o \in Peers
  PROVE  Elements(After(q, p, m)[o]) \subseteq Elements(q[o]) \cup {m}
         /\ (o = p => Elements(After(q, p, m)[o]) = Elements(q[o]))
<1>1. CASE o = p
  BY <1>1, AfterTypes
<1>2. CASE o # p
  <2>1. o = Other(p)
    BY <1>2 DEF Peers, Other
  <2>2. Elements(Append(q[o], m)) = Elements(q[o]) \cup {m}
    BY AppendElements
  <2>3. After(q, p, m)[o] \in {q[o], Append(q[o], m)}
    BY <2>1, AfterTypes
  <2>4. CASE After(q, p, m)[o] = q[o]
    BY <1>2, <2>4
  <2>5. CASE After(q, p, m)[o] = Append(q[o], m)
    BY <1>2, <2>2, <2>5
  <2>6. QED
    BY <2>3, <2>4, <2>5
<1>3. QED
  BY <1>1, <1>2

LEMMA RestElements ==
  ASSUME QueueTypes, NEW p \in Peers, queue[p] # <<>>, NEW o \in Peers
  PROVE  Elements(Rest(p)[o]) \subseteq Mail(o) /\ Head(queue[p]) \in Mail(p)
<1>1. queue[p] \in Seq(GoodMessage)
  BY DEF QueueTypes
<1>2. Elements(Tail(queue[p])) \subseteq Mail(p) /\ Head(queue[p]) \in Mail(p)
  BY <1>1, TailElements DEF Mail
<1>3. o = p \/ o = Other(p)
  BY DEF Peers, Other
<1>4. QED
  BY <1>2, <1>3, RestTypes DEF Mail

\* Neither an offer nor an accept.
Plain == {m \in GoodMessage : m.type \notin {"metadata", "accept"}}

LEMMA PlainAfter ==
  ASSUME QueueTypes, NEW q \in [Peers -> Seq(GoodMessage)],
         \A o \in Peers : Elements(q[o]) \subseteq Mail(o),
         NEW p \in Peers, NEW m \in Plain, queue' = q \/ queue' = After(q, p, m)
  PROVE  \A o \in Peers : Mail(o)' \subseteq Mail(o) \cup Plain
<1>1. m \in GoodMessage
  BY DEF Plain
<1>2. \A o \in Peers : Elements(After(q, p, m)[o]) \subseteq Elements(q[o]) \cup {m}
  BY <1>1, AfterElements
<1>3. \A o \in Peers : Mail(o)' = Elements(queue'[o])
  BY DEF Mail, Elements
<1>4. QED
  BY <1>2, <1>3

\* What a peer sends: an offer when it has hashed a file, an accept when acceptOffer goes
\* on, and otherwise neither.
LEMMA MailEffect ==
  ASSUME Types, NEW p \in Peers, PeerActs(p)
  PROVE  \/ \A o \in Peers : Mail(o)' \subseteq Mail(o) \cup Plain
         \/ \E id \in Ids :
               /\ Hashed(p, id) /\ ~Busy(p)
               /\ \A o \in Peers : Mail(o)' \subseteq Mail(o) \cup {Msg("metadata", id, 0)}
               /\ Mail(p)' = Mail(p)
         \/ /\ Accepted(p) /\ Busy(p)
            /\ \A o \in Peers : Mail(o)' \subseteq Mail(o) \cup {Msg("accept", session[p].id, 0)}
            /\ Mail(p)' = Mail(p)
<1>0. SessionTypes /\ QueueTypes /\ LoopTypes /\ FinalTypes /\ CountTypes
  BY DEF Types
<1> DEFINE Quietly == \A o \in Peers : Mail(o)' \subseteq Mail(o) \cup Plain
<1>a. queue \in [Peers -> Seq(GoodMessage)] /\ \A o \in Peers : Elements(queue[o]) \subseteq Mail(o)
  BY <1>0 DEF QueueTypes, Mail
<1>b. ASSUME UNCHANGED queue
      PROVE  Quietly
  BY <1>b DEF Mail, Elements
<1>c. ASSUME NEW t \in {"reject", "cancel", "eof"}, NEW id \in Ids
      PROVE  Msg(t, id, 0) \in Plain
  BY ZeroGood DEF Plain
<1>d. ASSUME CancelTransfer(p)
      PROVE  Quietly
  <2>1. CASE Busy(p)
    <3>1. queue' = After(queue, p, Msg("cancel", session[p].id, 0))
      BY <1>d, <2>1 DEF CancelTransfer, Post
    <3>2. Msg("cancel", session[p].id, 0) \in Plain
      BY <1>0, <1>c, <2>1, SessionFields
    <3>3. QED
      BY <1>0, <1>a, <3>1, <3>2, PlainAfter
  <2>2. CASE ~Busy(p)
    BY <1>b, <1>d, <2>2 DEF CancelTransfer
  <2>3. QED
    BY <2>1, <2>2
<1>e. ASSUME NEW off \in 0..Size, NEW l \in Slots, loop[p][l].at # "none",
             Continue(p, l, off, queue)
      PROVE  Quietly
  <2>1. \/ queue' = queue
        \/ Busy(p) /\ queue' = After(queue, p, Msg("eof", session[p].id, 0))
    BY <1>0, <1>e, ContinueTypes
  <2>2. Busy(p) => Msg("eof", session[p].id, 0) \in Plain
    BY <1>0, <1>c, SessionFields
  <2>3. QED
    BY <1>0, <1>a, <1>b, <2>1, <2>2, PlainAfter
<1>1. CASE SendOffer(p) \/ ClickAccept(p) \/ Dispose(p) \/ Posted(p)
  BY <1>1, <1>b DEF SendOffer, ClickAccept, Dispose, Posted
<1>2. CASE ClickReject(p)
  <2>1. Busy(p) /\ queue' = After(queue, p, Msg("reject", session[p].id, 0))
    BY <1>2 DEF ClickReject, Post
  <2>2. Msg("reject", session[p].id, 0) \in Plain
    BY <1>0, <1>c, <2>1, SessionFields
  <2>3. QED
    BY <1>0, <1>a, <2>1, <2>2, PlainAfter
<1>3. CASE ClickCancel(p) \/ OwnTimeout(p) \/ StrayTimeout(p)
  BY <1>3, <1>d DEF ClickCancel, OwnTimeout, StrayTimeout, Timeout
<1>4. ASSUME NEW id \in Ids, Hashed(p, id)
      PROVE  \/ Quietly
             \/ /\ Hashed(p, id) /\ ~Busy(p)
                /\ \A o \in Peers : Mail(o)' \subseteq Mail(o) \cup {Msg("metadata", id, 0)}
                /\ Mail(p)' = Mail(p)
  <2>1. CASE Busy(p)
    BY <1>4, <1>b, <2>1 DEF Hashed
  <2>2. CASE ~Busy(p)
    <3>1. queue' = After(queue, p, Msg("metadata", id, 0))
      BY <1>4, <2>2 DEF Hashed, Post
    <3>2. \A o \in Peers : Mail(o)' = Elements(After(queue, p, Msg("metadata", id, 0))[o])
      BY <3>1 DEF Mail, Elements
    <3>3. Msg("metadata", id, 0) \in GoodMessage
      BY ZeroGood
    <3>4. \A o \in Peers : Mail(o) = Elements(queue[o])
      BY DEF Mail
    <3>5. ASSUME NEW o \in Peers
          PROVE  Mail(o)' \subseteq Mail(o) \cup {Msg("metadata", id, 0)}
      <4>1. Elements(After(queue, p, Msg("metadata", id, 0))[o])
              \subseteq Elements(queue[o]) \cup {Msg("metadata", id, 0)}
        BY <1>a, <3>3, AfterElements
      <4>2. QED
        BY <3>2, <3>4, <4>1
    <3>6. Mail(p)' = Mail(p)
      BY <1>a, <3>2, <3>3, <3>4, AfterElements
    <3>7. QED
      BY <1>4, <2>2, <3>5, <3>6
  <2>3. QED
    BY <2>1, <2>2
<1>5. ASSUME Accepted(p)
      PROVE  \/ Quietly
             \/ /\ Accepted(p) /\ Busy(p)
                /\ \A o \in Peers : Mail(o)' \subseteq Mail(o)
                                                     \cup {Msg("accept", session[p].id, 0)}
                /\ Mail(p)' = Mail(p)
  <2>1. CASE Busy(p)
    <3>1. queue' = After(queue, p, Msg("accept", session[p].id, 0))
      BY <1>5, <2>1 DEF Accepted, Post
    <3>2. \A o \in Peers : Mail(o)'
                             = Elements(After(queue, p, Msg("accept", session[p].id, 0))[o])
      BY <3>1 DEF Mail, Elements
    <3>3. Msg("accept", session[p].id, 0) \in GoodMessage
      BY <1>0, <2>1, SessionFields, ZeroGood
    <3>4. \A o \in Peers : Mail(o) = Elements(queue[o])
      BY DEF Mail
    <3>5. ASSUME NEW o \in Peers
          PROVE  Mail(o)' \subseteq Mail(o) \cup {Msg("accept", session[p].id, 0)}
      <4>1. Elements(After(queue, p, Msg("accept", session[p].id, 0))[o])
              \subseteq Elements(queue[o]) \cup {Msg("accept", session[p].id, 0)}
        BY <1>a, <3>3, AfterElements
      <4>2. QED
        BY <3>2, <3>4, <4>1
    <3>6. Mail(p)' = Mail(p)
      BY <1>a, <3>2, <3>3, <3>4, AfterElements
    <3>7. QED
      BY <1>5, <2>1, <3>5, <3>6
  <2>2. CASE ~Busy(p)
    BY <1>5, <1>b, <2>2 DEF Accepted
  <2>3. QED
    BY <2>1, <2>2
<1>6. CASE Flushed(p) \/ PathFound(p) \/ Copied(p) \/ ChannelEvent(p)
  BY <1>6, <1>b DEF Flushed, PathFound, Copied, ChannelEvent
<1>7. CASE Receive(p)
  <2>1. PICK m : m = Head(queue[p])
    OBVIOUS
  <2>2. /\ queue[p] # <<>> /\ m \in GoodMessage /\ m.id \in Ids /\ Handled(p, m)
    BY <1>0, <1>7, <2>1, ReceiveHandles
  <2>3. Rest(p) \in [Peers -> Seq(GoodMessage)]
        /\ \A o \in Peers : Elements(Rest(p)[o]) \subseteq Mail(o)
    BY <1>0, <2>2, RestTypes, RestElements
  <2>4. Msg("reject", m.id, 0) \in Plain
    BY <1>c, <2>2
  <2>5. Busy(p) => Msg("cancel", session[p].id, 0) \in Plain
    BY <1>0, <1>c, SessionFields
  <2>6. \/ queue' = Rest(p) \/ queue' = After(Rest(p), p, Msg("reject", m.id, 0))
        \/ Busy(p) /\ queue' = After(Rest(p), p, Msg("cancel", session[p].id, 0))
    <3>1. CASE HandleMetadata(p, m.id)
      BY <3>1 DEF HandleMetadata
    <3>2. CASE HandleAccept(p, m.id) \/ HandleEnd(p, m.id) \/ HandleEof(p, m.id)
      BY <3>2 DEF HandleAccept, HandleEnd, HandleEof
    <3>3. CASE HandleChunk(p, m)
      BY <3>3 DEF HandleChunk
    <3>4. QED
      BY <2>2, <3>1, <3>2, <3>3 DEF Handled
  <2>7. QED
    BY <1>0, <2>3, <2>4, <2>5, <2>6, PlainAfter
<1>8. ASSUME NEW l \in Slots, LoopStep(p, l)
      PROVE  Quietly
  <2>1. CASE Opened(p, l)
    <3>1. loop[p][l].at # "none" /\ 0 \in 0..Size
          /\ (UNCHANGED queue \/ Continue(p, l, 0, queue))
      BY <2>1, TransferAssumption DEF Opened
    <3>2. QED
      BY <1>b, <1>e, <3>1
  <2>2. CASE Low(p, l) \/ EofSent(p, l) \/ FileClosed(p, l)
    BY <1>b, <2>2 DEF Low, EofSent, FileClosed
  <2>3. CASE Read(p, l)
    <3>1. /\ loop[p][l].at = "read"
          /\ queue' = After(queue, p, Msg("chunk", loop[p][l].id, loop[p][l].off + 1))
      BY <2>3 DEF Read, Post
    <3>2. loop[p][l].off < Size /\ loop[p][l].id \in Ids /\ loop[p][l].off \in 0..Size
      BY <1>0, <3>1 DEF LoopTypes, LoopRecord
    <3>3. loop[p][l].off + 1 \in 0..Size /\ loop[p][l].off + 1 # 0
      BY <3>2, TransferAssumption
    <3>4. Msg("chunk", loop[p][l].id, loop[p][l].off + 1) \in Plain
      BY <3>2, <3>3, MsgGood DEF Plain
    <3>5. QED
      BY <1>0, <1>a, <3>1, <3>4, PlainAfter
  <2>4. CASE Sent(p, l)
    <3>1. loop[p][l].at = "sent" /\ Continue(p, l, loop[p][l].off + 1, queue)
      BY <2>4 DEF Sent
    <3>2. loop[p][l].off < Size /\ loop[p][l].off \in 0..Size
      BY <1>0, <3>1 DEF LoopTypes, LoopRecord
    <3>3. loop[p][l].off + 1 \in 0..Size
      BY <3>2, TransferAssumption
    <3>4. QED
      BY <1>e, <3>1, <3>3
  <2>5. CASE Refused(p, l)
    BY <1>d, <2>5 DEF Refused
  <2>6. QED
    BY <1>8, <2>1, <2>2, <2>3, <2>4, <2>5 DEF LoopStep
<1>9. QED
  BY <1>1, <1>2, <1>3, <1>4, <1>5, <1>6, <1>7, <1>8 DEF PeerActs, PeerStep


\* What becomes of the session of the peer that acts.
LEMMA SessionEffect ==
  ASSUME Types, NEW p \in Peers, PeerActs(p)
  PROVE  \/ session'[p] = None /\ (disposed'[p] \/ status'[p] # "transferring")
         \/ /\ Busy(p)' = Busy(p)
            /\ session'[p].id = session[p].id /\ session'[p].sender = session[p].sender
            /\ ~disposed'[p] /\ status'[p] = "transferring" =>
                  \/ status[p] = "transferring" /\ ~disposed[p]
                  \/ /\ Busy(p) /\ session[p].sender
                     /\ \E m \in Mail(p) : m.type = "accept" /\ m.id = session[p].id
         \/ \E id \in Ids : /\ Hashed(p, id) /\ session'[p] = NewSession(id, TRUE)
                            /\ disposed'[p] \/ status'[p] = "offering"
         \/ \E m \in Mail(p) : /\ m.type = "metadata" /\ m.id \in Ids
                               /\ session'[p] = NewSession(m.id, FALSE)
                               /\ status'[p] # "transferring"
<1>0. SessionTypes /\ QueueTypes /\ LoopTypes /\ FinalTypes /\ CountTypes
  BY DEF Types
<1> DEFINE Gone == session'[p] = None /\ (disposed'[p] \/ status'[p] # "transferring")
           Stays == /\ Busy(p)' = Busy(p)
                    /\ session'[p].id = session[p].id
                    /\ session'[p].sender = session[p].sender
                    /\ ~disposed'[p] /\ status'[p] = "transferring" =>
                          \/ status[p] = "transferring" /\ ~disposed[p]
                          \/ /\ Busy(p) /\ session[p].sender
                             /\ \E m \in Mail(p) : m.type = "accept" /\ m.id = session[p].id
<1>a. ASSUME NEW s \in Statuses, s # "transferring", Show(p, s), UNCHANGED disposed
      PROVE  disposed'[p] \/ status'[p] = s
  <2>1. disposed[p] \in BOOLEAN /\ disposed'[p] = disposed[p] /\ (~disposed[p] => status'[p] = s)
    BY <1>0, <1>a, ShowStatus DEF SessionTypes
  <2>2. QED
    BY <2>1
<1>b. ASSUME NEW s \in Statuses, s # "transferring", EndSession(p, s), UNCHANGED disposed
      PROVE  Gone
  <2>1. session'[p] = None /\ Show(p, s)
    BY <1>0, <1>b, EndedSession
  <2>2. disposed'[p] \/ status'[p] = s
    BY <1>a, <1>b, <2>1
  <2>3. QED
    BY <1>b, <2>1, <2>2
<1>c. ASSUME UNCHANGED <<session, status, disposed>>
      PROVE  Stays
  BY <1>c DEF Busy
<1>d. ASSUME CancelTransfer(p), UNCHANGED disposed
      PROVE  Gone \/ Stays
  <2>1. EndSession(p, "error") \/ UNCHANGED <<session, status>>
    BY <1>d DEF CancelTransfer
  <2>2. QED
    BY <1>b, <1>c, <1>d, <2>1 DEF Statuses
<1>e. ASSUME NEW s \in Statuses, s # "transferring", Show(p, s), UNCHANGED disposed,
             Busy(p)' = Busy(p), session'[p].id = session[p].id,
             session'[p].sender = session[p].sender
      PROVE  Stays
  BY <1>a, <1>e
<1>1. CASE SendOffer(p) \/ ClickAccept(p)
  BY <1>1, <1>c DEF SendOffer, ClickAccept
<1>2. CASE ClickReject(p)
  BY <1>2, <1>b DEF ClickReject, Statuses
<1>3. CASE ClickCancel(p) \/ OwnTimeout(p) \/ StrayTimeout(p)
  BY <1>3, <1>d DEF ClickCancel, OwnTimeout, StrayTimeout, Timeout
<1>4. CASE Dispose(p)
  <2>1. session'[p] = None /\ disposed'[p] = TRUE
    BY <1>0, <1>4 DEF Dispose, SessionTypes
  <2>2. QED
    BY <2>1
<1>5. ASSUME NEW id \in Ids, Hashed(p, id)
      PROVE  \/ Stays
             \/ /\ Hashed(p, id) /\ session'[p] = NewSession(id, TRUE)
                /\ disposed'[p] \/ status'[p] = "offering"
  <2>1. CASE Busy(p)
    BY <1>5, <1>c, <2>1 DEF Hashed
  <2>2. CASE ~Busy(p)
    <3>1. Show(p, "offering") /\ UNCHANGED disposed /\ session'[p] = NewSession(id, TRUE)
      BY <1>0, <1>5, <2>2 DEF Hashed, SessionTypes
    <3>2. disposed'[p] \/ status'[p] = "offering"
      BY <1>a, <3>1 DEF Statuses
    <3>3. QED
      BY <1>5, <3>1, <3>2
  <2>3. QED
    BY <2>1, <2>2
<1>6. CASE Posted(p)
  <2>1. UNCHANGED <<status, disposed>>
    BY <1>6 DEF Posted
  <2>2. CASE Busy(p)
    <3>1. /\ session'[p] \in Session /\ session'[p].id = session[p].id
          /\ session'[p].sender = session[p].sender
      BY <1>6, <2>2, PostedTypes
    <3>2. Busy(p)'
      BY <3>1, NoneFields DEF Busy
    <3>3. Stays
      BY <2>1, <2>2, <3>1, <3>2
    <3>4. QED
      BY <3>3
  <2>3. CASE ~Busy(p)
    <3>1. session' = session
      BY <1>6, <2>3, PostedTypes
    <3>2. QED
      BY <1>c, <2>1, <3>1
  <2>4. QED
    BY <2>2, <2>3
<1>7. CASE Accepted(p)
  <2>1. UNCHANGED disposed
    BY <1>7 DEF Accepted
  <2>2. CASE Busy(p)
    <3>1. /\ session' = [session EXCEPT ![p].sink = TRUE, ![p].temp = TRUE, ![p].got = <<>>,
                                        ![p].inactivityTimer = TRUE]
          /\ Show(p, "receiving")
      BY <1>7, <2>2 DEF Accepted
    <3>2. /\ session'[p] \in Session /\ session'[p].id = session[p].id
          /\ session'[p].sender = session[p].sender
      BY <1>0, <2>2, <3>1, OpenedFile
    <3>3. Busy(p)' = Busy(p)
      <4>1. session'[p] # None
        BY <3>2, NoneFields
      <4>2. QED
        BY <2>2, <4>1 DEF Busy
    <3>4. Stays
      BY <1>e, <2>1, <3>1, <3>2, <3>3 DEF Statuses
    <3>5. QED
      BY <3>4
  <2>3. CASE ~Busy(p)
    BY <1>7, <1>b, <2>1, <2>3 DEF Accepted, Statuses
  <2>4. QED
    BY <2>2, <2>3
<1>8. CASE FinalFails(p) /\ UNCHANGED disposed
  BY <1>8, <1>b DEF FinalFails, Statuses
<1>9. CASE Flushed(p) /\ ~FinalFails(p)
  <2>1. /\ session[p].sink /\ UNCHANGED <<status, disposed>>
        /\ session' = [session EXCEPT ![p].sink = FALSE, ![p].inactivityTimer = FALSE]
    BY <1>9 DEF Flushed
  <2>2. Busy(p)
    BY <1>0, <2>1, SessionFields
  <2>3. /\ session'[p] \in Session /\ session'[p].id = session[p].id
        /\ session'[p].sender = session[p].sender
    BY <1>0, <2>1, <2>2, FlushedSession
  <2>4. Busy(p)'
    BY <2>3, NoneFields DEF Busy
  <2>5. Stays
    BY <2>1, <2>2, <2>3, <2>4
  <2>6. QED
    BY <2>5
<1>10. CASE PathFound(p) /\ ~FinalFails(p)
  BY <1>10, <1>c DEF PathFound
<1>11. CASE Copied(p) /\ ~FinalFails(p)
  <2>1. session'[p] = None /\ Show(p, "completed") /\ UNCHANGED disposed
    BY <1>0, <1>11 DEF Copied, SessionTypes
  <2>2. disposed'[p] \/ status'[p] = "completed"
    BY <1>a, <2>1 DEF Statuses
  <2>3. QED
    BY <2>1, <2>2
<1>12. CASE ChannelEvent(p)
  BY <1>12, <1>b, <1>c DEF ChannelEvent, Statuses
<1>13. CASE Receive(p)
  <2>1. PICK m : m = Head(queue[p])
    OBVIOUS
  <2>2. /\ queue[p] # <<>> /\ m \in GoodMessage /\ m.id \in Ids /\ Handled(p, m)
        /\ UNCHANGED disposed
    BY <1>0, <1>13, <2>1, ReceiveHandles
  <2>3. m \in Mail(p)
    BY <1>0, <2>1, <2>2, RestElements
  <2>4. CASE UNCHANGED <<session, status>>
    BY <1>c, <2>2, <2>4
  <2>5. CASE ~disposed[p] /\ m.type = "metadata" /\ HandleMetadata(p, m.id)
    <3>1. \/ UNCHANGED <<session, status>>
          \/ session'[p] = NewSession(m.id, FALSE) /\ Show(p, "offered")
      BY <1>0, <2>5 DEF HandleMetadata, SessionTypes
    <3>2. ASSUME Show(p, "offered")
          PROVE  status'[p] # "transferring"
      BY <1>0, <2>5, <3>2, ShowStatus DEF Statuses
    <3>3. QED
      BY <2>2, <2>3, <2>4, <2>5, <3>1, <3>2
  <2>6. CASE m.type = "accept" /\ HandleAccept(p, m.id)
    <3>1. CASE Matches(p, m.id) /\ session[p].sender
      <4>1. /\ session'[p] \in Session /\ session'[p].id = session[p].id
            /\ session'[p].sender = session[p].sender
        BY <1>0, <2>2, <2>6, <3>1, AcceptTypes
      <4>2. Busy(p) /\ session[p].id = m.id
        BY <3>1 DEF Matches
      <4>3. Busy(p)'
        BY <4>1, NoneFields DEF Busy
      <4>4. Stays
        BY <2>3, <2>6, <3>1, <4>1, <4>2, <4>3
      <4>5. QED
        BY <4>4
    <3>2. CASE ~(Matches(p, m.id) /\ session[p].sender)
      BY <2>4, <2>6, <3>2 DEF HandleAccept
    <3>3. QED
      BY <3>1, <3>2
  <2>7. CASE HandleEnd(p, m.id) \/ HandleEof(p, m.id)
    <3>1. EndSession(p, "error") \/ UNCHANGED <<session, status>>
      BY <2>7 DEF HandleEnd, HandleEof
    <3>2. QED
      BY <1>b, <2>2, <2>4, <3>1 DEF Statuses
  <2>8. CASE m.type = "chunk" /\ HandleChunk(p, m)
    <3>1. \/ UNCHANGED <<session, status>> \/ EndSession(p, "error")
          \/ /\ session[p].sink /\ session'[p] \in Session /\ UNCHANGED status
             /\ session'[p].id = session[p].id /\ session'[p].sender = session[p].sender
      BY <1>0, <2>2, <2>8, ChunkTypes
    <3>2. CASE /\ session[p].sink /\ session'[p] \in Session /\ UNCHANGED status
               /\ session'[p].id = session[p].id /\ session'[p].sender = session[p].sender
      <4>1. Busy(p)
        BY <1>0, <3>2, SessionFields
      <4>2. Busy(p)'
        BY <3>2, NoneFields DEF Busy
      <4>3. Stays
        BY <2>2, <3>2, <4>1, <4>2
      <4>4. QED
        BY <4>3
    <3>3. QED
      BY <1>b, <2>2, <2>4, <3>1, <3>2 DEF Statuses
  <2>9. QED
    BY <2>2, <2>4, <2>5, <2>6, <2>7, <2>8 DEF Handled
<1>14. ASSUME NEW l \in Slots, LoopStep(p, l)
       PROVE  Gone \/ Stays
  <2>1. CASE Opened(p, l) \/ Low(p, l) \/ Read(p, l) \/ Sent(p, l)
    BY <1>c, <2>1 DEF Opened, Low, Read, Sent
  <2>2. CASE Refused(p, l)
    BY <1>d, <2>2 DEF Refused
  <2>3. CASE EofSent(p, l)
    <3>1. Show(p, "completed") /\ UNCHANGED <<session, disposed>>
      BY <2>3 DEF EofSent
    <3>2. Busy(p)' = Busy(p)
      BY <3>1 DEF Busy
    <3>3. QED
      BY <1>e, <3>1, <3>2 DEF Statuses
  <2>4. CASE FileClosed(p, l)
    <3>1. UNCHANGED <<status, disposed>>
      BY <2>4 DEF FileClosed
    <3>2. \/ session' = session
          \/ status[p] = "completed" /\ session'[p] = None
      BY <1>0, <2>4 DEF FileClosed, SessionTypes
    <3>3. QED
      BY <1>c, <3>1, <3>2
  <2>5. QED
    BY <1>14, <2>1, <2>2, <2>3, <2>4 DEF LoopStep
<1>15. (Flushed(p) \/ PathFound(p) \/ Copied(p)) /\ FinalFails(p) => UNCHANGED disposed
  BY DEF Flushed, PathFound, Copied
<1>16. QED
  BY <1>1, <1>2, <1>3, <1>4, <1>5, <1>6, <1>7, <1>8, <1>9, <1>10, <1>11, <1>12, <1>13, <1>14,
     <1>15 DEF PeerActs, PeerStep


\* The offers made are never unmade; only sendOffer and the end of a hashing touch them.
LEMMA DrawnEffect ==
  ASSUME NEW p \in Peers, PeerActs(p)
  PROVE  \/ UNCHANGED <<hashing, drawn>>
         \/ SendOffer(p)
         \/ \E id \in Ids : Hashed(p, id)
<1>1. CASE ClickAccept(p) \/ ClickReject(p) \/ ClickCancel(p) \/ Dispose(p)
  BY <1>1 DEF ClickAccept, ClickReject, ClickCancel, Dispose, tasks, bounds
<1>2. CASE Posted(p) \/ Accepted(p) \/ Flushed(p) \/ PathFound(p) \/ Copied(p) \/ ChannelEvent(p)
  BY <1>2 DEF Posted, Accepted, Flushed, PathFound, Copied, ChannelEvent, tasks, bounds
<1>3. CASE Receive(p)
  BY <1>3 DEF Receive, bounds
<1>4. ASSUME NEW l \in Slots, LoopStep(p, l)
      PROVE  UNCHANGED <<hashing, drawn>>
  BY <1>4 DEF LoopStep, Opened, Low, Read, Sent, Refused, EofSent, FileClosed, bounds
<1>5. CASE OwnTimeout(p) \/ StrayTimeout(p)
  BY <1>5 DEF OwnTimeout, StrayTimeout, Timeout, tasks
<1>6. QED
  BY <1>1, <1>2, <1>3, <1>4, <1>5 DEF PeerActs, PeerStep

LEMMA DrawnStep ==
  ASSUME SameMillisecond = FALSE, CountTypes, DrawnApart, HashingDrawn,
         NEW p \in Peers, PeerActs(p)
  PROVE  /\ DrawnApart' /\ HashingDrawn'
         /\ \A o \in Peers, id \in Ids : Made(o, id) => Made(o, id)'
         /\ \A id \in Ids : Hashed(p, id) => Made(p, id)'
<1>1. CASE UNCHANGED <<hashing, drawn>>
  <2>1. ASSUME NEW id \in Ids, Hashed(p, id)
        PROVE  FALSE
    <3>1. id \in hashing[p] /\ hashing' = [hashing EXCEPT ![p] = @ \ {id}]
      BY <2>1 DEF Hashed
    <3>2. id \notin hashing'[p]
      BY <3>1 DEF CountTypes
    <3>3. QED
      BY <1>1, <3>1, <3>2
  <2>2. QED
    BY <1>1, <2>1 DEF DrawnApart, HashingDrawn, Made
<1>2. CASE SendOffer(p)
  <2>1. PICK id \in Ids : /\ <<p, id>> \notin drawn /\ <<Other(p), id>> \notin drawn
                          /\ hashing' = [hashing EXCEPT ![p] = @ \cup {id}]
                          /\ drawn' = drawn \cup {<<p, id>>}
    BY <1>2 DEF SendOffer
  <2>2. /\ hashing'[p] = hashing[p] \cup {id}
        /\ \A o \in Peers : o # p => hashing'[o] = hashing[o]
    BY <2>1 DEF CountTypes
  <2>3. DrawnApart'
    BY <2>1, OtherPeer DEF DrawnApart
  <2>4. HashingDrawn'
    BY <2>1, <2>2 DEF HashingDrawn
  <2>5. \A o \in Peers, i \in Ids : Made(o, i) => Made(o, i)'
    BY <2>1, <2>2 DEF Made
  <2>6. \A i \in Ids : ~Hashed(p, i)
    BY <1>2, <2>1, <2>2 DEF SendOffer, Hashed, HashingDrawn, bounds
  <2>7. QED
    BY <2>3, <2>4, <2>5, <2>6
<1>3. ASSUME NEW id \in Ids, Hashed(p, id)
      PROVE  /\ DrawnApart' /\ HashingDrawn'
             /\ \A o \in Peers, i \in Ids : Made(o, i) => Made(o, i)'
             /\ Made(p, id)'
  <2>1. id \in hashing[p] /\ hashing' = [hashing EXCEPT ![p] = @ \ {id}] /\ UNCHANGED drawn
    BY <1>3 DEF Hashed, bounds
  <2>2. /\ hashing'[p] = hashing[p] \ {id}
        /\ \A o \in Peers : o # p => hashing'[o] = hashing[o]
    BY <2>1 DEF CountTypes
  <2>3. QED
    BY <2>1, <2>2 DEF DrawnApart, HashingDrawn, Made
<1>4. QED
  BY <1>1, <1>2, <1>3, DrawnEffect

\* Whose offer it is, is settled: it is not the other peer's too.
LEMMA MadeByOne ==
  ASSUME DrawnApart, NEW p \in Peers, NEW id \in Ids, Made(p, id)
  PROVE  ~Made(Other(p), id)
BY DEF DrawnApart, Made

LEMMA PromisedOwn ==
  ASSUME Types, WayInv, NEW p \in Peers, PeerActs(p), Promised(p)'
  PROVE  Promised(p)
<1>0. SessionTypes /\ QueueTypes
  BY DEF Types
<1>1. Busy(p)' /\ session'[p].sender
  BY DEF Promised
<1>2. ASSUME NEW id, \E m \in Mail(p)' : m.type = "accept" /\ m.id = id
      PROVE  \E m \in Mail(p) : m.type = "accept" /\ m.id = id
  BY <1>2, MailEffect DEF Plain
<1>3. CASE session'[p] = None
  BY <1>1, <1>3, NoneFields
<1>4. CASE /\ Busy(p)' = Busy(p)
           /\ session'[p].id = session[p].id /\ session'[p].sender = session[p].sender
           /\ ~disposed'[p] /\ status'[p] = "transferring" =>
                 \/ status[p] = "transferring" /\ ~disposed[p]
                 \/ /\ Busy(p) /\ session[p].sender
                    /\ \E m \in Mail(p) : m.type = "accept" /\ m.id = session[p].id
  <2>1. \/ status'[p] = "transferring" /\ ~disposed'[p]
        \/ \E m \in Mail(p)' : m.type = "accept" /\ m.id = session[p].id
    BY <1>4 DEF Promised
  <2>2. Busy(p) /\ session[p].sender
    BY <1>1, <1>4
  <2>3. QED
    BY <1>2, <1>4, <2>1, <2>2 DEF Promised
<1>5. ASSUME NEW id \in Ids, Hashed(p, id), session'[p] = NewSession(id, TRUE),
             disposed'[p] \/ status'[p] = "offering"
      PROVE  FALSE
  <2>1. session'[p].id = id
    BY <1>5, NewFields
  <2>2. \E m \in Mail(p)' : m.type = "accept" /\ m.id = id
    BY <1>5, <2>1 DEF Promised
  <2>3. PICK m \in Mail(p) : m.type = "accept" /\ m.id = id
    BY <1>2, <2>2
  <2>4. PICK o \in Peers : Made(o, id)
    BY <2>3 DEF WayInv, MailMade
  <2>5. id \in hashing[p]
    BY <1>5 DEF Hashed
  <2>6. <<p, id>> \in drawn /\ o # p
    BY <2>4, <2>5 DEF WayInv, HashingDrawn, Made
  <2>7. o = Other(p)
    BY <2>6 DEF Peers, Other
  <2>8. QED
    BY <2>4, <2>6, <2>7 DEF WayInv, DrawnApart, Made
<1>6. ASSUME NEW m \in Mail(p), m.id \in Ids, session'[p] = NewSession(m.id, FALSE)
      PROVE  FALSE
  BY <1>1, <1>6, NewFields
<1>7. QED
  BY <1>3, <1>4, <1>5, <1>6, SessionEffect

LEMMA PromisedOther ==
  ASSUME Types, WayInv, NEW p \in Peers, NEW o \in Peers, o = Other(p), PeerActs(p), Promised(o)'
  PROVE  \/ Promised(o)
         \/ Busy(p) /\ Busy(o) /\ session[o].sender /\ session[o].id = session[p].id
<1>1. Holds(o)' = Holds(o)
  BY OtherPeer, OthersStay
<1>2. /\ session'[o] = session[o] /\ status'[o] = status[o] /\ disposed'[o] = disposed[o]
  BY <1>1 DEF Holds
<1>3. Busy(o) /\ session[o].sender
  BY <1>2 DEF Promised, Busy
<1>4. \/ status[o] = "transferring" /\ ~disposed[o]
      \/ \E m \in Mail(o)' : m.type = "accept" /\ m.id = session[o].id
  BY <1>2 DEF Promised
<1>5. CASE status[o] = "transferring" /\ ~disposed[o]
  BY <1>3, <1>5 DEF Promised
<1>6. ASSUME NEW m \in Mail(o)', m.type = "accept", m.id = session[o].id
      PROVE  \/ m \in Mail(o)
             \/ Busy(p) /\ m = Msg("accept", session[p].id, 0)
  <2>1. m \notin Plain
    BY <1>6 DEF Plain
  <2>2. \A id : m # Msg("metadata", id, 0)
    BY <1>6 DEF Msg
  <2>3. QED
    BY <1>6, <2>1, <2>2, MailEffect
<1>7. ASSUME NEW m \in Mail(o)', m.type = "accept", m.id = session[o].id
      PROVE  \/ Promised(o)
             \/ Busy(p) /\ Busy(o) /\ session[o].sender /\ session[o].id = session[p].id
  <2>1. CASE m \in Mail(o)
    BY <1>3, <1>7, <2>1 DEF Promised
  <2>2. CASE Busy(p) /\ m = Msg("accept", session[p].id, 0)
    <3>1. m.id = session[p].id
      BY <2>2 DEF Msg
    <3>2. QED
      BY <1>3, <1>7, <2>2, <3>1
  <2>3. QED
    BY <1>6, <1>7, <2>1, <2>2
<1>8. QED
  BY <1>4, <1>5, <1>7


LEMMA WayOwn ==
  ASSUME SameMillisecond = FALSE, Types, WayInv, NEW p \in Peers, PeerActs(p)
  PROVE  WayInv'
<1>0. SessionTypes /\ QueueTypes /\ CountTypes
  BY DEF Types
<1>1. /\ DrawnApart' /\ HashingDrawn'
      /\ \A o \in Peers, id \in Ids : Made(o, id) => Made(o, id)'
      /\ \A id \in Ids : Hashed(p, id) => Made(p, id)'
  BY <1>0, DrawnStep DEF WayInv
<1>2. \A o \in Peers : Busy(o) => session[o].id \in Ids
  BY <1>0, SessionFields
<1>3. \A o \in Peers : \A m \in Mail(o) : m.id \in Ids
  <2>1. ASSUME NEW o \in Peers, NEW n \in 1..Len(queue[o])
        PROVE  queue[o][n].id \in Ids
    <3>1. queue[o] \in Seq(GoodMessage)
      BY <1>0 DEF QueueTypes
    <3>2. queue[o][n] \in GoodMessage
      BY <3>1, ElementOfSeq
    <3>3. QED
      BY <3>2 DEF GoodMessage, Message
  <2>2. QED
    BY <2>1 DEF Mail, Elements
<1>4. ASSUME NEW o \in Peers, o # p
      PROVE  /\ session'[o] = session[o] /\ status'[o] = status[o] /\ disposed'[o] = disposed[o]
             /\ Busy(o)' = Busy(o)
  <2>1. Holds(o)' = Holds(o)
    BY <1>4, OthersStay
  <2>2. QED
    BY <2>1 DEF Holds, Busy
<1>5. SessionMade'
  <2> SUFFICES ASSUME NEW o \in Peers, Busy(o)'
               PROVE  IF session'[o].sender THEN Made(o, session[o].id)'
                                            ELSE Made(Other(o), session[o].id)'
    BY DEF SessionMade
  <2>1. ASSUME Busy(o), session'[o].id = session[o].id, session'[o].sender = session[o].sender
        PROVE  IF session'[o].sender THEN Made(o, session[o].id)'
                                     ELSE Made(Other(o), session[o].id)'
    <3>1. PICK id \in Ids : id = session[o].id
      BY <1>2, <2>1
    <3>2. IF session[o].sender THEN Made(o, id) ELSE Made(Other(o), id)
      BY <2>1, <3>1 DEF WayInv, SessionMade
    <3>3. IF session[o].sender THEN Made(o, id)' ELSE Made(Other(o), id)'
      BY <1>1, <3>2, OtherPeer
    <3>4. session'[o].id = id
      BY <2>1, <3>1
    <3>5. QED
      BY <2>1, <3>3, <3>4 DEF Made
  <2>2. CASE o # p
    BY <1>4, <2>1, <2>2
  <2>3. CASE o = p
    <3>1. CASE session'[p] = None
      BY <2>3, <3>1 DEF Busy
    <3>2. CASE /\ Busy(p)' = Busy(p) /\ session'[p].id = session[p].id
               /\ session'[p].sender = session[p].sender
      BY <2>1, <2>3, <3>2
    <3>3. ASSUME NEW id \in Ids, Hashed(p, id), session'[p] = NewSession(id, TRUE)
          PROVE  IF session'[o].sender THEN Made(o, session[o].id)'
                                       ELSE Made(Other(o), session[o].id)'
      <4>1. session'[o].id = id /\ session'[o].sender = TRUE
        BY <2>3, <3>3, NewFields
      <4>2. QED
        BY <1>1, <2>3, <3>3, <4>1 DEF Made
    <3>4. ASSUME NEW m \in Mail(p), m.type = "metadata", m.id \in Ids,
                 session'[p] = NewSession(m.id, FALSE)
          PROVE  IF session'[o].sender THEN Made(o, session[o].id)'
                                       ELSE Made(Other(o), session[o].id)'
      <4>1. PICK id \in Ids : id = m.id
        BY <3>4
      <4>2. session'[o].id = id /\ session'[o].sender = FALSE
        BY ZenonT(60), <2>3, <3>4, <4>1, NewFields
      <4>3. Made(Other(p), id)
        BY <3>4, <4>1 DEF WayInv, MailMade
      <4>4. Made(Other(p), id)'
        BY <1>1, <4>3, OtherPeer
      <4>5. QED
        BY <2>3, <4>2, <4>4 DEF Made
    <3>5. QED
      BY <3>1, <3>2, <3>3, <3>4, SessionEffect
  <2>4. QED
    BY <2>2, <2>3
<1>6. MailMade'
  <2> SUFFICES ASSUME NEW o \in Peers, NEW m \in Mail(o)'
               PROVE  /\ m.type = "metadata" => Made(Other(o), m.id)'
                      /\ m.type = "accept" => \E x \in Peers : Made(x, m.id)'
    BY DEF MailMade
  <2>1. CASE m \in Mail(o)
    <3>1. PICK id \in Ids : id = m.id
      BY <1>3, <2>1
    <3>2. /\ m.type = "metadata" => Made(Other(o), id)
          /\ m.type = "accept" => \E x \in Peers : Made(x, id)
      BY <2>1, <3>1 DEF WayInv, MailMade
    <3>3. /\ m.type = "metadata" => Made(Other(o), id)'
          /\ m.type = "accept" => \E x \in Peers : Made(x, id)'
      BY <1>1, <3>2, OtherPeer
    <3>4. QED
      BY <3>1, <3>3 DEF Made
  <2>2. CASE m \in Plain
    BY <2>2 DEF Plain
  <2>3. ASSUME NEW id \in Ids, Hashed(p, id), o # p, m = Msg("metadata", id, 0)
        PROVE  /\ m.type = "metadata" => Made(Other(o), m.id)'
               /\ m.type = "accept" => \E x \in Peers : Made(x, m.id)'
    <3>1. m.id = id /\ m.type = "metadata"
      BY <2>3 DEF Msg
    <3>2. Other(o) = p
      BY <2>3 DEF Peers, Other
    <3>3. Made(p, id)'
      BY <1>1, <2>3
    <3>4. QED
      BY <3>1, <3>2, <3>3 DEF Made
  <2>4. ASSUME Busy(p), m = Msg("accept", session[p].id, 0)
        PROVE  /\ m.type = "metadata" => Made(Other(o), m.id)'
               /\ m.type = "accept" => \E x \in Peers : Made(x, m.id)'
    <3>1. PICK id \in Ids : id = session[p].id
      BY <1>2, <2>4
    <3>2. m.id = id /\ m.type = "accept"
      BY <2>4, <3>1 DEF Msg
    <3>3. \E x \in Peers : Made(x, id)
      BY <2>4, <3>1, OtherPeer DEF WayInv, SessionMade
    <3>4. \E x \in Peers : Made(x, id)'
      BY <1>1, <3>3
    <3>5. QED
      BY <3>2, <3>4 DEF Made
  <2>5. \/ m \in Mail(o) \/ m \in Plain
        \/ \E id \in Ids : Hashed(p, id) /\ o # p /\ m = Msg("metadata", id, 0)
        \/ Busy(p) /\ m = Msg("accept", session[p].id, 0)
    <3>1. CASE Mail(o)' \subseteq Mail(o) \cup Plain
      BY <3>1
    <3>2. ASSUME NEW id \in Ids, Hashed(p, id), Mail(p)' = Mail(p),
                 Mail(o)' \subseteq Mail(o) \cup {Msg("metadata", id, 0)}
          PROVE  m \in Mail(o) \/ (Hashed(p, id) /\ o # p /\ m = Msg("metadata", id, 0))
      BY <3>2
    <3>3. CASE Busy(p) /\ Mail(o)' \subseteq Mail(o) \cup {Msg("accept", session[p].id, 0)}
      BY <3>3
    <3>4. QED
      BY <3>1, <3>2, <3>3, MailEffect
  <2>6. QED
    BY <2>1, <2>2, <2>3, <2>4, <2>5
<1>7. TransferringSends'
  <2> SUFFICES ASSUME NEW o \in Peers, status'[o] = "transferring", ~disposed'[o]
               PROVE  Busy(o)' /\ session'[o].sender
    BY DEF TransferringSends
  <2>1. CASE o # p
    BY <1>4, <2>1 DEF WayInv, TransferringSends
  <2>2. CASE o = p
    <3>1. CASE /\ Busy(p)' = Busy(p) /\ session'[p].sender = session[p].sender
               /\ \/ status[p] = "transferring" /\ ~disposed[p]
                  \/ Busy(p) /\ session[p].sender
      BY <2>2, <3>1 DEF WayInv, TransferringSends
    <3>2. ~(session'[p] = None /\ (disposed'[p] \/ status'[p] # "transferring"))
      BY <2>2
    <3>3. QED
      BY <2>2, <3>1, <3>2, SessionEffect
  <2>3. QED
    BY <2>1, <2>2
<1>8. OnePromise'
  <2> SUFFICES ASSUME NEW q \in Peers, Promised(q)', Promised(Other(q))'
               PROVE  FALSE
    BY DEF OnePromise
  <2>1. Promised(p)' /\ Promised(Other(p))'
    <3>1. p = q \/ p = Other(q)
      BY DEF Peers, Other
    <3>2. QED
      BY <3>1, OtherPeer
  <2>2. PICK o \in Peers : o = Other(p)
    BY OtherPeer
  <2>3. Promised(p)
    BY <2>1, PromisedOwn
  <2>4. ~Promised(o)
    BY <2>2, <2>3 DEF WayInv, OnePromise
  <2>5. Promised(o)'
    BY <2>1, <2>2
  <2>6. Busy(p) /\ Busy(o) /\ session[o].sender /\ session[o].id = session[p].id
    BY <2>2, <2>4, <2>5, PromisedOther
  <2>7. Made(o, session[p].id)
    BY <2>6 DEF WayInv, SessionMade
  <2>8. Made(p, session[p].id)
    BY <2>3 DEF Promised, WayInv, SessionMade
  <2>9. session[p].id \in Ids
    BY <1>2, <2>6
  <2>10. QED
    BY <2>2, <2>7, <2>8, <2>9, MadeByOne DEF WayInv
<1>9. QED
  BY <1>1, <1>5, <1>6, <1>7, <1>8 DEF WayInv

LEMMA WayClose ==
  ASSUME WayInv, CloseChannel
  PROVE  WayInv'
<1>1. /\ UNCHANGED <<session, status, disposed, hashing, drawn>>
      /\ queue' = [p \in Peers |-> <<>>]
  BY DEF CloseChannel, tasks
<1>2. \A p \in Peers : Mail(p)' = {}
  <2>1. Len(<<>>) = 0
    OBVIOUS
  <2>2. QED
    BY <1>1, <2>1 DEF Mail, Elements
<1>3. DrawnApart' /\ HashingDrawn' /\ SessionMade' /\ TransferringSends'
  BY <1>1 DEF WayInv, DrawnApart, HashingDrawn, SessionMade, TransferringSends, Busy, Made
<1>4. MailMade'
  BY <1>2 DEF MailMade
<1>5. \A p \in Peers : Promised(p)' => Promised(p)
  BY <1>1, <1>2 DEF Promised, Busy
<1>6. OnePromise'
  BY <1>5, OtherPeer DEF WayInv, OnePromise
<1>7. QED
  BY <1>3, <1>4, <1>6 DEF WayInv

LEMMA WayStep ==
  ASSUME SameMillisecond = FALSE, Types, WayInv, [Next]_vars
  PROVE  WayInv'
<1>1. CASE UNCHANGED vars
  BY <1>1 DEF vars, WayInv, DrawnApart, HashingDrawn, SessionMade, MailMade, TransferringSends,
              OnePromise, Promised, Made, Mail, Elements, Busy
<1>2. ASSUME NEW p \in Peers, PeerActs(p)
      PROVE  WayInv'
  BY <1>2, WayOwn
<1>3. CASE CloseChannel
  BY <1>3, WayClose
<1>4. QED
  BY <1>1, <1>2, <1>3, SomebodyActs

LEMMA WayInit == Init => WayInv
<1> SUFFICES ASSUME Init
             PROVE  WayInv
  OBVIOUS
<1>1. \A p \in Peers : ~Busy(p) /\ hashing[p] = {} /\ status[p] = "idle"
  BY DEF Init, Busy
<1>2. drawn = {}
  BY DEF Init
<1>3. \A p \in Peers : Mail(p) = {}
  <2>1. Len(<<>>) = 0
    OBVIOUS
  <2>2. QED
    BY <2>1 DEF Init, Mail, Elements
<1>4. DrawnApart /\ HashingDrawn /\ SessionMade /\ MailMade /\ TransferringSends
  BY <1>1, <1>2, <1>3 DEF DrawnApart, HashingDrawn, SessionMade, MailMade, TransferringSends
<1>5. OnePromise
  BY <1>1 DEF OnePromise, Promised
<1>6. QED
  BY <1>4, <1>5 DEF WayInv

\* When no two offers carry the same id, the two peers never send a file each: an accept
\* starts the loop of the offer it answers only (_handleFileMessage: accept), and who has
\* accepted has no offer of its own standing (_handleOffer).
THEOREM OneSendsAtATime ==
  ASSUME SameMillisecond = FALSE
  PROVE  Spec => []OneWay
<1>1. Types /\ WayInv /\ [Next]_vars => Types' /\ WayInv'
  BY TypesStep, WayStep
<1>2. Init => Types /\ WayInv
  BY TypesInit, WayInit
<1>3. WayInv => OneWay
  <2> SUFFICES ASSUME WayInv, \A p \in Peers : status[p] = "transferring" /\ ~disposed[p]
               PROVE  FALSE
    BY DEF OneWay
  <2>1. \A p \in Peers : Promised(p)
    BY DEF WayInv, TransferringSends, Promised
  <2>2. 1 \in Peers /\ Other(1) \in Peers
    BY OtherPeer DEF Peers
  <2>3. QED
    BY <2>1, <2>2 DEF WayInv, OnePromise
<1>4. QED
  BY <1>1, <1>2, <1>3, PTL DEF Spec


-----------------------------------------------------------------------------
(* SessionsAgree: what the session of one peer, p, has to do with the      *)
(* other peer, o.                                                          *)

Clean == open /\ excused = {}

\* A message of this type and id among those of s, and in those on their way to p.
In(s, type, id) == \E m \in Elements(s) : m.type = type /\ m.id = id
Has(p, type, id) == In(queue[p], type, id)
\* Of the messages with an id, the offer comes first.
OfferFirst(s) == \A n, m \in 1..Len(s) : s[n].type = "metadata" /\ s[m].id = s[n].id => n <= m

Ends(p, id) == Has(p, "reject", id) \/ Has(p, "cancel", id)

Sends(p, id) == Matches(p, id) /\ session[p].sender
Takes(p, id) == Matches(p, id) /\ ~session[p].sender
Sinks(p, id) == Matches(p, id) /\ session[p].sink
Temps(p, id) == Matches(p, id) /\ session[p].temp
Finishes(p) == final[p].at # "none"
Finishing(p, id) == Finishes(p) /\ final[p].id = id
LoopOf(p, id) == \E l \in Slots : loop[p][l].at # "none" /\ loop[p][l].id = id
AtEof(p, id) == \E l \in Slots : loop[p][l].at = "eof" /\ loop[p][l].id = id
Closes(p, id) == \E l \in Slots : loop[p][l].at = "close" /\ loop[p][l].id = id
Going(p) == \E l \in Slots : loop[p][l].at \notin {"none", "close"}

\* Whoever made an id is the one that sends under it.
Owned(p, o) == \A id \in Ids :
    /\ Sends(p, id) \/ LoopOf(p, id) \/ Has(p, "accept", id) => Made(p, id)
    /\ Takes(p, id) \/ Finishing(p, id) => Made(o, id)
    /\ Has(p, "metadata", id) \/ Has(p, "chunk", id) \/ Has(p, "eof", id) => Made(o, id)
    /\ Ends(p, id) => Made(p, id) \/ Made(o, id)

\* An offer on its way is news to the peer it goes to.
Unseen(p, o) == \A id \in Ids : Has(p, "metadata", id) =>
    /\ ~Sends(p, id) /\ ~Takes(p, id) /\ ~Finishing(p, id)
    /\ ~Has(o, "metadata", id) /\ ~Has(o, "accept", id) /\ ~Ends(o, id)
    /\ ~Has(o, "eof", id) /\ ~Has(o, "chunk", id)

\* Who sends a reject or a cancel has left the session.
EndsGone(p, o) == \A id \in Ids : Ends(p, id) => ~Sends(o, id) /\ ~Takes(o, id)

\* An offer on its way stands, or its end follows.
Offered(p, o) == \A id \in Ids : Has(p, "metadata", id) => Sends(o, id) \/ Ends(p, id)

\* An offer that stands is on its way, is taken, or its answer is on its way.
Offering(p, o) == \A id \in Ids : Sends(p, id) /\ status[p] = "offering" =>
    Takes(o, id) \/ Has(o, "metadata", id) \/ Ends(p, id) \/ Has(p, "accept", id)

\* A receiver's session has a sender, or its end is on its way or under way.
Taken(p, o) == \A id \in Ids : Takes(p, id) =>
    Sends(o, id) \/ Ends(p, id) \/ Has(p, "eof", id) \/ Finishes(p)

\* Who has heard of an accept, sends to a receiver that has opened its file.
Heard(p, o, id) == \/ Has(p, "accept", id) \/ LoopOf(p, id) \/ Has(o, "eof", id)
                   \/ Sends(p, id) /\ status[p] = "transferring"
Told(p, o) == \A id \in Ids :
    Heard(p, o, id) => ~Has(o, "metadata", id) /\ (Takes(o, id) => Temps(o, id))

\* A receiver that has opened its file has said so.
AcceptTold(p, o) == \A id \in Ids :
    Temps(p, id) /\ Sends(o, id) /\ status[o] = "offering" => Has(o, "accept", id)

\* The receiver's file, from acceptOffer to the end of _finalizeReceive.
Files(p) == \A id \in Ids :
    /\ Temps(p, id) => Takes(p, id)
    /\ Sinks(p, id) => Temps(p, id)
    /\ Temps(p, id) /\ ~Sinks(p, id) => Finishes(p)
    /\ Finishing(p, id) /\ Takes(p, id) => Temps(p, id)

\* A sender offers, has a loop that runs, or one that closes its file.
Shown(p) == \A id \in Ids :
    /\ Sends(p, id) => status[p] \in {"offering", "transferring", "completed"}
    /\ (Sends(p, id) \/ Takes(p, id)) /\ status[p] = "completed" => Closes(p, id)
    /\ Sends(p, id) /\ status[p] = "transferring" => Going(p)

\* A sender that is done has sent its EOF.
EofSaid(p, o) == \A id \in Ids :
    Sends(p, id) /\ (AtEof(p, id) \/ status[p] = "completed") =>
        (Takes(o, id) => Has(o, "eof", id) \/ Finishes(o))

Agree(p, o) ==
    /\ Owned(p, o) /\ Unseen(p, o) /\ EndsGone(p, o) /\ Offered(p, o) /\ Offering(p, o)
    /\ Taken(p, o) /\ Told(p, o) /\ AcceptTold(p, o) /\ Files(p) /\ Shown(p) /\ EofSaid(p, o)

\* What a step keeps of a peer, and what it does to the messages on their way to it.
Kinds == {"metadata", "accept", "reject", "cancel", "eof", "chunk"}

KeepsSession(q) == \A id \in Ids :
    /\ Sends(q, id)' <=> Sends(q, id)
    /\ Takes(q, id)' <=> Takes(q, id)
    /\ Sinks(q, id)' <=> Sinks(q, id)
    /\ Temps(q, id)' <=> Temps(q, id)
KeepsRole(q) == \A id \in Ids : (Sends(q, id)' <=> Sends(q, id)) /\ (Takes(q, id)' <=> Takes(q, id))
KeepsLoops(q) == /\ Going(q)' <=> Going(q)
                 /\ \A id \in Ids : /\ LoopOf(q, id)' <=> LoopOf(q, id)
                                    /\ AtEof(q, id)' <=> AtEof(q, id)
                                    /\ Closes(q, id)' <=> Closes(q, id)
KeepsFinal(q) == /\ Finishes(q)' <=> Finishes(q)
                 /\ \A id \in Ids : Finishing(q, id)' <=> Finishing(q, id)
KeepsMail(q) == \A type \in Kinds, id \in Ids : Has(q, type, id)' <=> Has(q, type, id)
Rests(q) == KeepsSession(q) /\ KeepsLoops(q) /\ KeepsFinal(q) /\ status'[q] = status[q]

AddsMail(q, t, i) ==
    \A type \in Kinds, id \in Ids : Has(q, type, id)' <=> Has(q, type, id) \/ (type = t /\ id = i)
TakesMail(q, t, i) ==
    /\ Has(q, t, i) /\ ~Has(q, "metadata", i)'
    /\ t # "metadata" => ~Has(q, "metadata", i)
    /\ \A type \in Kinds, id \in Ids :
          /\ Has(q, type, id)' => Has(q, type, id)
          /\ Has(q, type, id) => Has(q, type, id)' \/ (type = t /\ id = i)

\* The same, but for chunks.
KeepsTalk(q) == \A type \in Kinds, id \in Ids :
    /\ Has(q, type, id)' => Has(q, type, id)
    /\ Has(q, type, id) => Has(q, type, id)' \/ type = "chunk"

LoopsAre(q) == \A id \in Ids : AtEof(q, id) \/ Closes(q, id) => LoopOf(q, id)
Leaves(q) == \A id \in Ids : ~Sends(q, id)' /\ ~Takes(q, id)' /\ ~Sinks(q, id)' /\ ~Temps(q, id)'
Grows(p, o) == \A id \in Ids : /\ Made(p, id) => Made(p, id)'
                               /\ Made(o, id) => Made(o, id)'
                               /\ ~(Made(p, id)' /\ Made(o, id)')

-----------------------------------------------------------------------------
(* What the steps have in common, kind by kind: p takes the step, o is the *)
(* other peer.                                                             *)

\* p offers i.
LEMMA AgreeOffer ==
  ASSUME NEW p \in Peers, NEW o \in Peers, Agree(p, o), Agree(o, p), Grows(p, o), Rests(o),
         LoopsAre(p), LoopsAre(o),
         NEW i \in Ids,
         \A id \in Ids : ~Sends(p, id) /\ ~Takes(p, id),
         \A id \in Ids : Sends(p, id)' <=> id = i,
         \A id \in Ids : ~Takes(p, id)' /\ ~Sinks(p, id)' /\ ~Temps(p, id)',
         status'[p] = "offering",
         KeepsLoops(p), KeepsFinal(p), KeepsMail(p), AddsMail(o, "metadata", i),
         ~Made(p, i), ~Made(o, i), Made(p, i)'
  PROVE  Agree(p, o)' /\ Agree(o, p)'
<1> USE DEF Agree, Rests, KeepsSession, KeepsLoops, KeepsFinal, KeepsMail, AddsMail, TakesMail,
            Leaves, Grows, Ends, Heard, Kinds, LoopsAre, KeepsRole, KeepsTalk
<1>1. Owned(p, o)' /\ Owned(o, p)'
  BY DEF Owned, Files
<1>2. Unseen(p, o)' /\ Unseen(o, p)'
  BY DEF Unseen, Owned, Files
<1>3. EndsGone(p, o)' /\ EndsGone(o, p)'
  BY DEF EndsGone, Owned, Files
<1>4. Offered(p, o)' /\ Offered(o, p)'
  BY DEF Offered, Owned, Files
<1>5. Offering(p, o)' /\ Offering(o, p)'
  BY DEF Offering, Owned, Files
<1>6. Taken(p, o)' /\ Taken(o, p)'
  BY DEF Taken, Owned, Files
<1>7. Told(p, o)' /\ Told(o, p)'
  BY DEF Told, Owned, Files
<1>8. AcceptTold(p, o)' /\ AcceptTold(o, p)'
  BY DEF AcceptTold, Owned, Files
<1>9. Files(p)' /\ Files(o)'
  BY DEF Files, Owned
<1>10. Shown(p)' /\ Shown(o)'
  BY DEF Shown, Owned, Files
<1>11. EofSaid(p, o)' /\ EofSaid(o, p)'
  BY DEF EofSaid, Owned, Files
<1>12. QED
  BY <1>1, <1>2, <1>3, <1>4, <1>5, <1>6, <1>7, <1>8, <1>9, <1>10, <1>11

\* Nothing of this changes.
LEMMA AgreeSame ==
  ASSUME NEW p \in Peers, NEW o \in Peers, Agree(p, o), Agree(o, p), Grows(p, o), Rests(o),
         LoopsAre(p), LoopsAre(o),
         Rests(p), KeepsMail(p), KeepsMail(o)
  PROVE  Agree(p, o)' /\ Agree(o, p)'
<1> USE DEF Agree, Rests, KeepsSession, KeepsLoops, KeepsFinal, KeepsMail, AddsMail, TakesMail,
            Leaves, Grows, Ends, Heard, Kinds, LoopsAre, KeepsRole, KeepsTalk
<1>1. Owned(p, o)' /\ Owned(o, p)'
  BY DEF Owned, Files
<1>2. Unseen(p, o)' /\ Unseen(o, p)'
  BY DEF Unseen, Owned, Files
<1>3. EndsGone(p, o)' /\ EndsGone(o, p)'
  BY DEF EndsGone, Owned, Files
<1>4. Offered(p, o)' /\ Offered(o, p)'
  BY DEF Offered, Owned, Files
<1>5. Offering(p, o)' /\ Offering(o, p)'
  BY DEF Offering, Owned, Files
<1>6. Taken(p, o)' /\ Taken(o, p)'
  BY DEF Taken, Owned, Files
<1>7. Told(p, o)' /\ Told(o, p)'
  BY DEF Told, Owned, Files
<1>8. AcceptTold(p, o)' /\ AcceptTold(o, p)'
  BY DEF AcceptTold, Owned, Files
<1>9. Files(p)' /\ Files(o)'
  BY DEF Files, Owned
<1>10. Shown(p)' /\ Shown(o)'
  BY DEF Shown, Owned, Files
<1>11. EofSaid(p, o)' /\ EofSaid(o, p)'
  BY DEF EofSaid, Owned, Files
<1>12. QED
  BY <1>1, <1>2, <1>3, <1>4, <1>5, <1>6, <1>7, <1>8, <1>9, <1>10, <1>11

\* A loop goes on.
LEMMA AgreeLoop ==
  ASSUME NEW p \in Peers, NEW o \in Peers, Agree(p, o), Agree(o, p), Grows(p, o), Rests(o),
         LoopsAre(p), LoopsAre(o),
         KeepsSession(p), KeepsFinal(p), KeepsMail(p),
         status'[p] = status[p],
         \A id \in Ids : (LoopOf(p, id)' <=> LoopOf(p, id)) /\ (Closes(p, id) => Closes(p, id)'),
         \A id \in Ids : AtEof(p, id)' => AtEof(p, id),
         \A id \in Ids : Sends(p, id) /\ status[p] = "transferring" => Going(p)',
         KeepsMail(o) \/ \E i \in Ids : LoopOf(p, i) /\ AddsMail(o, "chunk", i)
  PROVE  Agree(p, o)' /\ Agree(o, p)'
<1> USE DEF Agree, Rests, KeepsSession, KeepsLoops, KeepsFinal, KeepsMail, AddsMail, TakesMail,
            Leaves, Grows, Ends, Heard, Kinds, LoopsAre, KeepsRole, KeepsTalk
<1>1. Owned(p, o)' /\ Owned(o, p)'
  BY DEF Owned, Files
<1>2. Unseen(p, o)' /\ Unseen(o, p)'
  BY DEF Unseen, Owned, Files
<1>3. EndsGone(p, o)' /\ EndsGone(o, p)'
  BY DEF EndsGone, Owned, Files
<1>4. Offered(p, o)' /\ Offered(o, p)'
  BY DEF Offered, Owned, Files
<1>5. Offering(p, o)' /\ Offering(o, p)'
  BY DEF Offering, Owned, Files
<1>6. Taken(p, o)' /\ Taken(o, p)'
  BY DEF Taken, Owned, Files
<1>7. Told(p, o)' /\ Told(o, p)'
  BY DEF Told, Owned, Files
<1>8. AcceptTold(p, o)' /\ AcceptTold(o, p)'
  BY DEF AcceptTold, Owned, Files
<1>9. Files(p)' /\ Files(o)'
  BY DEF Files, Owned
<1>10. Shown(p)' /\ Shown(o)'
  BY DEF Shown, Owned, Files
<1>11. EofSaid(p, o)' /\ EofSaid(o, p)'
  BY DEF EofSaid, Owned, Files
<1>12. QED
  BY <1>1, <1>2, <1>3, <1>4, <1>5, <1>6, <1>7, <1>8, <1>9, <1>10, <1>11

\* A loop sends the EOF of the session i.
LEMMA AgreeEof ==
  ASSUME NEW p \in Peers, NEW o \in Peers, Agree(p, o), Agree(o, p), Grows(p, o), Rests(o),
         LoopsAre(p), LoopsAre(o),
         NEW i \in Ids,
         KeepsSession(p), KeepsFinal(p), KeepsMail(p), Going(p)',
         status'[p] = status[p],
         \A id \in Ids : (LoopOf(p, id)' <=> LoopOf(p, id)) /\ (Closes(p, id) => Closes(p, id)'),
         AddsMail(o, "eof", i),
         Sends(p, i), status[p] = "transferring",
         \A id \in Ids : Sends(p, id) \/ Takes(p, id) => id = i
  PROVE  Agree(p, o)' /\ Agree(o, p)'
<1> USE DEF Agree, Rests, KeepsSession, KeepsLoops, KeepsFinal, KeepsMail, AddsMail, TakesMail,
            Leaves, Grows, Ends, Heard, Kinds, LoopsAre, KeepsRole, KeepsTalk
<1>1. Owned(p, o)' /\ Owned(o, p)'
  BY DEF Owned, Files
<1>2. Unseen(p, o)' /\ Unseen(o, p)'
  BY DEF Unseen, Owned, Files
<1>3. EndsGone(p, o)' /\ EndsGone(o, p)'
  BY DEF EndsGone, Owned, Files
<1>4. Offered(p, o)' /\ Offered(o, p)'
  BY DEF Offered, Owned, Files
<1>5. Offering(p, o)' /\ Offering(o, p)'
  BY DEF Offering, Owned, Files
<1>6. Taken(p, o)' /\ Taken(o, p)'
  BY DEF Taken, Owned, Files
<1>7. Told(p, o)' /\ Told(o, p)'
  BY DEF Told, Owned, Files
<1>8. AcceptTold(p, o)' /\ AcceptTold(o, p)'
  BY DEF AcceptTold, Owned, Files
<1>9. Files(p)' /\ Files(o)'
  BY DEF Files, Owned
<1>10. Shown(p)' /\ Shown(o)'
  BY DEF Shown, Owned, Files
<1>11. EofSaid(p, o)' /\ EofSaid(o, p)'
  BY DEF EofSaid, Owned, Files
<1>12. QED
  BY <1>1, <1>2, <1>3, <1>4, <1>5, <1>6, <1>7, <1>8, <1>9, <1>10, <1>11

\* The EOF of the session, if there is one, has been sent.
LEMMA AgreeEofSent ==
  ASSUME NEW p \in Peers, NEW o \in Peers, Agree(p, o), Agree(o, p), Grows(p, o), Rests(o),
         LoopsAre(p), LoopsAre(o),
         KeepsSession(p), KeepsFinal(p), KeepsMail(p), KeepsMail(o),
         status'[p] = "completed",
         \A id \in Ids : (LoopOf(p, id)' <=> LoopOf(p, id)) /\ (Closes(p, id) => Closes(p, id)'),
         \A id \in Ids : AtEof(p, id)' => AtEof(p, id),
         \A id \in Ids : Sends(p, id) \/ Takes(p, id) => AtEof(p, id) /\ Closes(p, id)'
  PROVE  Agree(p, o)' /\ Agree(o, p)'
<1> USE DEF Agree, Rests, KeepsSession, KeepsLoops, KeepsFinal, KeepsMail, AddsMail, TakesMail,
            Leaves, Grows, Ends, Heard, Kinds, LoopsAre, KeepsRole, KeepsTalk
<1>1. Owned(p, o)' /\ Owned(o, p)'
  BY DEF Owned, Files
<1>2. Unseen(p, o)' /\ Unseen(o, p)'
  BY DEF Unseen, Owned, Files
<1>3. EndsGone(p, o)' /\ EndsGone(o, p)'
  BY DEF EndsGone, Owned, Files
<1>4. Offered(p, o)' /\ Offered(o, p)'
  BY DEF Offered, Owned, Files
<1>5. Offering(p, o)' /\ Offering(o, p)'
  BY DEF Offering, Owned, Files
<1>6. Taken(p, o)' /\ Taken(o, p)'
  BY DEF Taken, Owned, Files
<1>7. Told(p, o)' /\ Told(o, p)'
  BY DEF Told, Owned, Files
<1>8. AcceptTold(p, o)' /\ AcceptTold(o, p)'
  BY DEF AcceptTold, Owned, Files
<1>9. Files(p)' /\ Files(o)'
  BY DEF Files, Owned
<1>10. Shown(p)' /\ Shown(o)'
  BY DEF Shown, Owned, Files
<1>11. EofSaid(p, o)' /\ EofSaid(o, p)'
  BY DEF EofSaid, Owned, Files
<1>12. QED
  BY <1>1, <1>2, <1>3, <1>4, <1>5, <1>6, <1>7, <1>8, <1>9, <1>10, <1>11

\* A loop has closed its file, and the session is over.
LEMMA AgreeCompleted ==
  ASSUME NEW p \in Peers, NEW o \in Peers, Agree(p, o), Agree(o, p), Grows(p, o), Rests(o),
         LoopsAre(p), LoopsAre(o),
         Leaves(p), KeepsFinal(p), KeepsMail(p), KeepsMail(o),
         status[p] = "completed",
         \A id \in Ids : LoopOf(p, id)' => LoopOf(p, id)
  PROVE  Agree(p, o)' /\ Agree(o, p)'
<1> USE DEF Agree, Rests, KeepsSession, KeepsLoops, KeepsFinal, KeepsMail, AddsMail, TakesMail,
            Leaves, Grows, Ends, Heard, Kinds, LoopsAre, KeepsRole, KeepsTalk
<1>1. Owned(p, o)' /\ Owned(o, p)'
  BY DEF Owned, Files
<1>2. Unseen(p, o)' /\ Unseen(o, p)'
  BY DEF Unseen, Owned, Files
<1>3. EndsGone(p, o)' /\ EndsGone(o, p)'
  BY DEF EndsGone, Owned, Files
<1>4. Offered(p, o)' /\ Offered(o, p)'
  BY DEF Offered, Owned, Files, Shown, Told
<1>5. Offering(p, o)' /\ Offering(o, p)'
  BY DEF Offering, Owned, Files, Shown
<1>6. Taken(p, o)' /\ Taken(o, p)'
  BY DEF Taken, Owned, Files, Shown, EofSaid
<1>7. Told(p, o)' /\ Told(o, p)'
  BY DEF Told, Owned, Files
<1>8. AcceptTold(p, o)' /\ AcceptTold(o, p)'
  BY DEF AcceptTold, Owned, Files
<1>9. Files(p)' /\ Files(o)'
  BY DEF Files, Owned
<1>10. Shown(p)' /\ Shown(o)'
  BY DEF Shown, Owned, Files
<1>11. EofSaid(p, o)' /\ EofSaid(o, p)'
  BY DEF EofSaid, Owned, Files
<1>12. QED
  BY <1>1, <1>2, <1>3, <1>4, <1>5, <1>6, <1>7, <1>8, <1>9, <1>10, <1>11

\* A loop has closed its file, and the session stays.
LEMMA AgreeClosed ==
  ASSUME NEW p \in Peers, NEW o \in Peers, Agree(p, o), Agree(o, p), Grows(p, o), Rests(o),
         LoopsAre(p), LoopsAre(o),
         KeepsSession(p), KeepsFinal(p), KeepsMail(p), KeepsMail(o),
         status'[p] = status[p],
         status[p] # "completed",
         \A id \in Ids : LoopOf(p, id)' => LoopOf(p, id),
         \A id \in Ids : AtEof(p, id)' => AtEof(p, id),
         Going(p)' <=> Going(p)
  PROVE  Agree(p, o)' /\ Agree(o, p)'
<1> USE DEF Agree, Rests, KeepsSession, KeepsLoops, KeepsFinal, KeepsMail, AddsMail, TakesMail,
            Leaves, Grows, Ends, Heard, Kinds, LoopsAre, KeepsRole, KeepsTalk
<1>1. Owned(p, o)' /\ Owned(o, p)'
  BY DEF Owned, Files
<1>2. Unseen(p, o)' /\ Unseen(o, p)'
  BY DEF Unseen, Owned, Files
<1>3. EndsGone(p, o)' /\ EndsGone(o, p)'
  BY DEF EndsGone, Owned, Files
<1>4. Offered(p, o)' /\ Offered(o, p)'
  BY DEF Offered, Owned, Files
<1>5. Offering(p, o)' /\ Offering(o, p)'
  BY DEF Offering, Owned, Files
<1>6. Taken(p, o)' /\ Taken(o, p)'
  BY DEF Taken, Owned, Files
<1>7. Told(p, o)' /\ Told(o, p)'
  BY DEF Told, Owned, Files
<1>8. AcceptTold(p, o)' /\ AcceptTold(o, p)'
  BY DEF AcceptTold, Owned, Files
<1>9. Files(p)' /\ Files(o)'
  BY DEF Files, Owned
<1>10. Shown(p)' /\ Shown(o)'
  BY DEF Shown, Owned, Files
<1>11. EofSaid(p, o)' /\ EofSaid(o, p)'
  BY DEF EofSaid, Owned, Files
<1>12. QED
  BY <1>1, <1>2, <1>3, <1>4, <1>5, <1>6, <1>7, <1>8, <1>9, <1>10, <1>11

\* The receiver of i opens its file.
LEMMA AgreeAccepted ==
  ASSUME NEW p \in Peers, NEW o \in Peers, Agree(p, o), Agree(o, p), Grows(p, o), Rests(o),
         LoopsAre(p), LoopsAre(o),
         NEW i \in Ids,
         Takes(p, i), \A id \in Ids : Sends(p, id) \/ Takes(p, id) => id = i,
         KeepsRole(p),
         \A id \in Ids : (Temps(p, id)' <=> id = i) /\ (Sinks(p, id)' <=> id = i),
         status'[p] = "receiving",
         KeepsLoops(p), KeepsFinal(p), KeepsMail(p), AddsMail(o, "accept", i)
  PROVE  Agree(p, o)' /\ Agree(o, p)'
<1> USE DEF Agree, Rests, KeepsSession, KeepsLoops, KeepsFinal, KeepsMail, AddsMail, TakesMail,
            Leaves, Grows, Ends, Heard, Kinds, LoopsAre, KeepsRole, KeepsTalk
<1>1. Owned(p, o)' /\ Owned(o, p)'
  BY DEF Owned, Files
<1>2. Unseen(p, o)' /\ Unseen(o, p)'
  BY DEF Unseen, Owned, Files
<1>3. EndsGone(p, o)' /\ EndsGone(o, p)'
  BY DEF EndsGone, Owned, Files
<1>4. Offered(p, o)' /\ Offered(o, p)'
  BY DEF Offered, Owned, Files
<1>5. Offering(p, o)' /\ Offering(o, p)'
  BY DEF Offering, Owned, Files
<1>6. Taken(p, o)' /\ Taken(o, p)'
  BY DEF Taken, Owned, Files
<1>7. Told(p, o)' /\ Told(o, p)'
  BY DEF Told, Owned, Files, Unseen
<1>8. AcceptTold(p, o)' /\ AcceptTold(o, p)'
  BY DEF AcceptTold, Owned, Files
<1>9. Files(p)' /\ Files(o)'
  BY DEF Files, Owned
<1>10. Shown(p)' /\ Shown(o)'
  BY DEF Shown, Owned, Files
<1>11. EofSaid(p, o)' /\ EofSaid(o, p)'
  BY DEF EofSaid, Owned, Files
<1>12. QED
  BY <1>1, <1>2, <1>3, <1>4, <1>5, <1>6, <1>7, <1>8, <1>9, <1>10, <1>11

\* A peer without a session has none.
LEMMA AgreeIdle ==
  ASSUME NEW p \in Peers, NEW o \in Peers, Agree(p, o), Agree(o, p), Grows(p, o), Rests(o),
         LoopsAre(p), LoopsAre(o),
         \A id \in Ids : ~Sends(p, id) /\ ~Takes(p, id),
         Leaves(p), KeepsMail(p), KeepsMail(o),
         \A id \in Ids : LoopOf(p, id)' => LoopOf(p, id),
         \A id \in Ids : Finishing(p, id)' => Finishing(p, id)
  PROVE  Agree(p, o)' /\ Agree(o, p)'
<1> USE DEF Agree, Rests, KeepsSession, KeepsLoops, KeepsFinal, KeepsMail, AddsMail, TakesMail,
            Leaves, Grows, Ends, Heard, Kinds, LoopsAre, KeepsRole, KeepsTalk
<1>1. Owned(p, o)' /\ Owned(o, p)'
  BY DEF Owned, Files
<1>2. Unseen(p, o)' /\ Unseen(o, p)'
  BY DEF Unseen, Owned, Files
<1>3. EndsGone(p, o)' /\ EndsGone(o, p)'
  BY DEF EndsGone, Owned, Files
<1>4. Offered(p, o)' /\ Offered(o, p)'
  BY DEF Offered, Owned, Files
<1>5. Offering(p, o)' /\ Offering(o, p)'
  BY DEF Offering, Owned, Files
<1>6. Taken(p, o)' /\ Taken(o, p)'
  BY DEF Taken, Owned, Files
<1>7. Told(p, o)' /\ Told(o, p)'
  BY DEF Told, Owned, Files
<1>8. AcceptTold(p, o)' /\ AcceptTold(o, p)'
  BY DEF AcceptTold, Owned, Files
<1>9. Files(p)' /\ Files(o)'
  BY DEF Files, Owned
<1>10. Shown(p)' /\ Shown(o)'
  BY DEF Shown, Owned, Files
<1>11. EofSaid(p, o)' /\ EofSaid(o, p)'
  BY DEF EofSaid, Owned, Files
<1>12. QED
  BY <1>1, <1>2, <1>3, <1>4, <1>5, <1>6, <1>7, <1>8, <1>9, <1>10, <1>11

\* p leaves the session i and says so.
LEMMA AgreeToldEnd ==
  ASSUME NEW p \in Peers, NEW o \in Peers, Agree(p, o), Agree(o, p), Grows(p, o), Rests(o),
         LoopsAre(p), LoopsAre(o),
         NEW i \in Ids,
         NEW t \in {"reject", "cancel"},
         Sends(p, i) \/ Takes(p, i),
         \A id \in Ids : Sends(p, id) \/ Takes(p, id) => id = i,
         Leaves(p), AddsMail(o, t, i),
         \A id \in Ids : LoopOf(p, id)' => LoopOf(p, id),
         \A id \in Ids : Finishing(p, id)' => Finishing(p, id),
         KeepsTalk(p)
  PROVE  Agree(p, o)' /\ Agree(o, p)'
<1> USE DEF Agree, Rests, KeepsSession, KeepsLoops, KeepsFinal, KeepsMail, AddsMail, TakesMail,
            Leaves, Grows, Ends, Heard, Kinds, LoopsAre, KeepsRole, KeepsTalk
<1>1. Owned(p, o)' /\ Owned(o, p)'
  BY DEF Owned, Files
<1>2. Unseen(p, o)' /\ Unseen(o, p)'
  BY DEF Unseen, Owned, Files
<1>3. EndsGone(p, o)' /\ EndsGone(o, p)'
  BY DEF EndsGone, Owned, Files
<1>4. Offered(p, o)' /\ Offered(o, p)'
  BY DEF Offered, Owned, Files
<1>5. Offering(p, o)' /\ Offering(o, p)'
  BY DEF Offering, Owned, Files
<1>6. Taken(p, o)' /\ Taken(o, p)'
  BY DEF Taken, Owned, Files
<1>7. Told(p, o)' /\ Told(o, p)'
  BY DEF Told, Owned, Files
<1>8. AcceptTold(p, o)' /\ AcceptTold(o, p)'
  BY DEF AcceptTold, Owned, Files
<1>9. Files(p)' /\ Files(o)'
  BY DEF Files, Owned
<1>10. Shown(p)' /\ Shown(o)'
  BY DEF Shown, Owned, Files
<1>11. EofSaid(p, o)' /\ EofSaid(o, p)'
  BY DEF EofSaid, Owned, Files
<1>12. QED
  BY <1>1, <1>2, <1>3, <1>4, <1>5, <1>6, <1>7, <1>8, <1>9, <1>10, <1>11

\* A message changes nothing.
LEMMA AgreeIgnored ==
  ASSUME NEW p \in Peers, NEW o \in Peers, Agree(p, o), Agree(o, p), Grows(p, o), Rests(o),
         LoopsAre(p), LoopsAre(o),
         NEW i \in Ids,
         NEW t \in Kinds \ {"metadata"},
         Rests(p), KeepsMail(o), TakesMail(p, t, i),
         t = "accept" => ~Sends(p, i),
         t \in {"reject", "cancel"} => ~Sends(p, i) /\ ~Takes(p, i),
         t = "eof" => ~Sinks(p, i)
  PROVE  Agree(p, o)' /\ Agree(o, p)'
<1> USE DEF Agree, Rests, KeepsSession, KeepsLoops, KeepsFinal, KeepsMail, AddsMail, TakesMail,
            Leaves, Grows, Ends, Heard, Kinds, LoopsAre, KeepsRole, KeepsTalk
<1>1. Owned(p, o)' /\ Owned(o, p)'
  BY DEF Owned, Files
<1>2. Unseen(p, o)' /\ Unseen(o, p)'
  BY DEF Unseen, Owned, Files
<1>3. EndsGone(p, o)' /\ EndsGone(o, p)'
  BY DEF EndsGone, Owned, Files
<1>4. Offered(p, o)' /\ Offered(o, p)'
  BY DEF Offered, Owned, Files
<1>5. Offering(p, o)' /\ Offering(o, p)'
  BY DEF Offering, Owned, Files
<1>6. Taken(p, o)' /\ Taken(o, p)'
  BY DEF Taken, Owned, Files, Told
<1>7. Told(p, o)' /\ Told(o, p)'
  BY DEF Told, Owned, Files
<1>8. AcceptTold(p, o)' /\ AcceptTold(o, p)'
  BY DEF AcceptTold, Owned, Files
<1>9. Files(p)' /\ Files(o)'
  BY DEF Files, Owned
<1>10. Shown(p)' /\ Shown(o)'
  BY DEF Shown, Owned, Files
<1>11. EofSaid(p, o)' /\ EofSaid(o, p)'
  BY DEF EofSaid, Owned, Files, Told
<1>12. QED
  BY <1>1, <1>2, <1>3, <1>4, <1>5, <1>6, <1>7, <1>8, <1>9, <1>10, <1>11

\* A busy peer rejects the offer i.
LEMMA AgreeRefused ==
  ASSUME NEW p \in Peers, NEW o \in Peers, Agree(p, o), Agree(o, p), Grows(p, o), Rests(o),
         LoopsAre(p), LoopsAre(o),
         NEW i \in Ids,
         Rests(p), TakesMail(p, "metadata", i), AddsMail(o, "reject", i)
  PROVE  Agree(p, o)' /\ Agree(o, p)'
<1> USE DEF Agree, Rests, KeepsSession, KeepsLoops, KeepsFinal, KeepsMail, AddsMail, TakesMail,
            Leaves, Grows, Ends, Heard, Kinds, LoopsAre, KeepsRole, KeepsTalk
<1>1. Owned(p, o)' /\ Owned(o, p)'
  BY DEF Owned, Files
<1>2. Unseen(p, o)' /\ Unseen(o, p)'
  BY DEF Unseen, Owned, Files
<1>3. EndsGone(p, o)' /\ EndsGone(o, p)'
  BY DEF EndsGone, Owned, Files, Unseen
<1>4. Offered(p, o)' /\ Offered(o, p)'
  BY DEF Offered, Owned, Files
<1>5. Offering(p, o)' /\ Offering(o, p)'
  BY DEF Offering, Owned, Files
<1>6. Taken(p, o)' /\ Taken(o, p)'
  BY DEF Taken, Owned, Files
<1>7. Told(p, o)' /\ Told(o, p)'
  BY DEF Told, Owned, Files
<1>8. AcceptTold(p, o)' /\ AcceptTold(o, p)'
  BY DEF AcceptTold, Owned, Files
<1>9. Files(p)' /\ Files(o)'
  BY DEF Files, Owned
<1>10. Shown(p)' /\ Shown(o)'
  BY DEF Shown, Owned, Files
<1>11. EofSaid(p, o)' /\ EofSaid(o, p)'
  BY DEF EofSaid, Owned, Files
<1>12. QED
  BY <1>1, <1>2, <1>3, <1>4, <1>5, <1>6, <1>7, <1>8, <1>9, <1>10, <1>11

\* p takes the offer i.
LEMMA AgreeTaken ==
  ASSUME NEW p \in Peers, NEW o \in Peers, Agree(p, o), Agree(o, p), Grows(p, o), Rests(o),
         LoopsAre(p), LoopsAre(o),
         NEW i \in Ids,
         \A id \in Ids : ~Sends(p, id) /\ ~Takes(p, id),
         \A id \in Ids : Takes(p, id)' <=> id = i,
         \A id \in Ids : ~Sends(p, id)' /\ ~Sinks(p, id)' /\ ~Temps(p, id)',
         status'[p] = "offered",
         KeepsLoops(p), KeepsFinal(p), TakesMail(p, "metadata", i), KeepsMail(o)
  PROVE  Agree(p, o)' /\ Agree(o, p)'
<1> USE DEF Agree, Rests, KeepsSession, KeepsLoops, KeepsFinal, KeepsMail, AddsMail, TakesMail,
            Leaves, Grows, Ends, Heard, Kinds, LoopsAre, KeepsRole, KeepsTalk
<1>1. Owned(p, o)' /\ Owned(o, p)'
  BY DEF Owned, Files
<1>2. Unseen(p, o)' /\ Unseen(o, p)'
  BY DEF Unseen, Owned, Files
<1>3. EndsGone(p, o)' /\ EndsGone(o, p)'
  BY DEF EndsGone, Owned, Files, Unseen
<1>4. Offered(p, o)' /\ Offered(o, p)'
  BY DEF Offered, Owned, Files
<1>5. Offering(p, o)' /\ Offering(o, p)'
  BY DEF Offering, Owned, Files
<1>6. Taken(p, o)' /\ Taken(o, p)'
  BY DEF Taken, Owned, Files, Offered
<1>7. Told(p, o)' /\ Told(o, p)'
  BY DEF Told, Owned, Files
<1>8. AcceptTold(p, o)' /\ AcceptTold(o, p)'
  BY DEF AcceptTold, Owned, Files
<1>9. Files(p)' /\ Files(o)'
  BY DEF Files, Owned, Unseen
<1>10. Shown(p)' /\ Shown(o)'
  BY DEF Shown, Owned, Files
<1>11. EofSaid(p, o)' /\ EofSaid(o, p)'
  BY DEF EofSaid, Owned, Files, Told, Shown
<1>12. QED
  BY <1>1, <1>2, <1>3, <1>4, <1>5, <1>6, <1>7, <1>8, <1>9, <1>10, <1>11

\* p takes the offer i instead of its own, j.
LEMMA AgreeYields ==
  ASSUME NEW p \in Peers, NEW o \in Peers, Agree(p, o), Agree(o, p), Grows(p, o), Rests(o),
         LoopsAre(p), LoopsAre(o),
         NEW i \in Ids,
         NEW j \in Ids,
         Sends(p, j), \A id \in Ids : Sends(p, id) \/ Takes(p, id) => id = j,
         \A id \in Ids : Takes(p, id)' <=> id = i,
         \A id \in Ids : ~Sends(p, id)' /\ ~Sinks(p, id)' /\ ~Temps(p, id)',
         status'[p] = "offered",
         KeepsLoops(p), KeepsFinal(p),
         TakesMail(p, "metadata", i), AddsMail(o, "cancel", j)
  PROVE  Agree(p, o)' /\ Agree(o, p)'
<1> USE DEF Agree, Rests, KeepsSession, KeepsLoops, KeepsFinal, KeepsMail, AddsMail, TakesMail,
            Leaves, Grows, Ends, Heard, Kinds, LoopsAre, KeepsRole, KeepsTalk
<1>1. Owned(p, o)' /\ Owned(o, p)'
  BY DEF Owned, Files
<1>2. Unseen(p, o)' /\ Unseen(o, p)'
  BY DEF Unseen, Owned, Files
<1>3. EndsGone(p, o)' /\ EndsGone(o, p)'
  BY DEF EndsGone, Owned, Files, Unseen
<1>4. Offered(p, o)' /\ Offered(o, p)'
  BY DEF Offered, Owned, Files
<1>5. Offering(p, o)' /\ Offering(o, p)'
  BY DEF Offering, Owned, Files
<1>6. Taken(p, o)' /\ Taken(o, p)'
  BY DEF Taken, Owned, Files, Offered
<1>7. Told(p, o)' /\ Told(o, p)'
  BY DEF Told, Owned, Files
<1>8. AcceptTold(p, o)' /\ AcceptTold(o, p)'
  BY DEF AcceptTold, Owned, Files
<1>9. Files(p)' /\ Files(o)'
  BY DEF Files, Owned, Unseen
<1>10. Shown(p)' /\ Shown(o)'
  BY DEF Shown, Owned, Files
<1>11. EofSaid(p, o)' /\ EofSaid(o, p)'
  BY DEF EofSaid, Owned, Files, Told, Shown
<1>12. QED
  BY <1>1, <1>2, <1>3, <1>4, <1>5, <1>6, <1>7, <1>8, <1>9, <1>10, <1>11

\* p starts to send i.
LEMMA AgreeStarts ==
  ASSUME NEW p \in Peers, NEW o \in Peers, Agree(p, o), Agree(o, p), Grows(p, o), Rests(o),
         LoopsAre(p), LoopsAre(o),
         NEW i \in Ids,
         Sends(p, i), \A id \in Ids : Sends(p, id) \/ Takes(p, id) => id = i,
         KeepsSession(p), KeepsFinal(p), KeepsMail(o), TakesMail(p, "accept", i),
         status'[p] = "transferring", Going(p)',
         \A id \in Ids : LoopOf(p, id)' <=> LoopOf(p, id) \/ id = i,
         \A id \in Ids : AtEof(p, id)' => AtEof(p, id)
  PROVE  Agree(p, o)' /\ Agree(o, p)'
<1> USE DEF Agree, Rests, KeepsSession, KeepsLoops, KeepsFinal, KeepsMail, AddsMail, TakesMail,
            Leaves, Grows, Ends, Heard, Kinds, LoopsAre, KeepsRole, KeepsTalk
<1>1. Owned(p, o)' /\ Owned(o, p)'
  BY DEF Owned, Files
<1>2. Unseen(p, o)' /\ Unseen(o, p)'
  BY DEF Unseen, Owned, Files
<1>3. EndsGone(p, o)' /\ EndsGone(o, p)'
  BY DEF EndsGone, Owned, Files
<1>4. Offered(p, o)' /\ Offered(o, p)'
  BY DEF Offered, Owned, Files
<1>5. Offering(p, o)' /\ Offering(o, p)'
  BY DEF Offering, Owned, Files
<1>6. Taken(p, o)' /\ Taken(o, p)'
  BY DEF Taken, Owned, Files
<1>7. Told(p, o)' /\ Told(o, p)'
  BY DEF Told, Owned, Files
<1>8. AcceptTold(p, o)' /\ AcceptTold(o, p)'
  BY DEF AcceptTold, Owned, Files
<1>9. Files(p)' /\ Files(o)'
  BY DEF Files, Owned
<1>10. Shown(p)' /\ Shown(o)'
  BY DEF Shown, Owned, Files
<1>11. EofSaid(p, o)' /\ EofSaid(o, p)'
  BY DEF EofSaid, Owned, Files
<1>12. QED
  BY <1>1, <1>2, <1>3, <1>4, <1>5, <1>6, <1>7, <1>8, <1>9, <1>10, <1>11

\* p is told that the session i is over, or fails at a second EOF.
LEMMA AgreeEnded ==
  ASSUME NEW p \in Peers, NEW o \in Peers, Agree(p, o), Agree(o, p), Grows(p, o), Rests(o),
         LoopsAre(p), LoopsAre(o),
         NEW i \in Ids,
         NEW t \in {"reject", "cancel", "eof"},
         Sends(p, i) \/ Takes(p, i),
         \A id \in Ids : Sends(p, id) \/ Takes(p, id) => id = i,
         t = "eof" => Sinks(p, i),
         Leaves(p), KeepsLoops(p), KeepsFinal(p), TakesMail(p, t, i), KeepsMail(o)
  PROVE  Agree(p, o)' /\ Agree(o, p)'
<1> USE DEF Agree, Rests, KeepsSession, KeepsLoops, KeepsFinal, KeepsMail, AddsMail, TakesMail,
            Leaves, Grows, Ends, Heard, Kinds, LoopsAre, KeepsRole, KeepsTalk
<1>1. Owned(p, o)' /\ Owned(o, p)'
  BY DEF Owned, Files
<1>2. Unseen(p, o)' /\ Unseen(o, p)'
  BY DEF Unseen, Owned, Files
<1>3. EndsGone(p, o)' /\ EndsGone(o, p)'
  BY DEF EndsGone, Owned, Files
<1>4. Offered(p, o)' /\ Offered(o, p)'
  BY DEF Offered, Owned, Files, Unseen
<1>5. Offering(p, o)' /\ Offering(o, p)'
  BY DEF Offering, Owned, Files, EndsGone, Told, AcceptTold
<1>6. Taken(p, o)' /\ Taken(o, p)'
  BY DEF Taken, Owned, Files, EndsGone
<1>7. Told(p, o)' /\ Told(o, p)'
  BY DEF Told, Owned, Files
<1>8. AcceptTold(p, o)' /\ AcceptTold(o, p)'
  BY DEF AcceptTold, Owned, Files
<1>9. Files(p)' /\ Files(o)'
  BY DEF Files, Owned
<1>10. Shown(p)' /\ Shown(o)'
  BY DEF Shown, Owned, Files
<1>11. EofSaid(p, o)' /\ EofSaid(o, p)'
  BY DEF EofSaid, Owned, Files
<1>12. QED
  BY <1>1, <1>2, <1>3, <1>4, <1>5, <1>6, <1>7, <1>8, <1>9, <1>10, <1>11

\* The EOF of i reaches its receiver.
LEMMA AgreeFlush ==
  ASSUME NEW p \in Peers, NEW o \in Peers, Agree(p, o), Agree(o, p), Grows(p, o), Rests(o),
         LoopsAre(p), LoopsAre(o),
         NEW i \in Ids,
         Sinks(p, i), \A id \in Ids : Sends(p, id) \/ Takes(p, id) => id = i,
         KeepsSession(p), KeepsLoops(p), KeepsMail(o), TakesMail(p, "eof", i),
         status'[p] = status[p],
         Finishes(p)' /\ \A id \in Ids : Finishing(p, id)' <=> id = i
  PROVE  Agree(p, o)' /\ Agree(o, p)'
<1> USE DEF Agree, Rests, KeepsSession, KeepsLoops, KeepsFinal, KeepsMail, AddsMail, TakesMail,
            Leaves, Grows, Ends, Heard, Kinds, LoopsAre, KeepsRole, KeepsTalk
<1>1. Owned(p, o)' /\ Owned(o, p)'
  BY DEF Owned, Files
<1>2. Unseen(p, o)' /\ Unseen(o, p)'
  BY DEF Unseen, Owned, Files
<1>3. EndsGone(p, o)' /\ EndsGone(o, p)'
  BY DEF EndsGone, Owned, Files
<1>4. Offered(p, o)' /\ Offered(o, p)'
  BY DEF Offered, Owned, Files
<1>5. Offering(p, o)' /\ Offering(o, p)'
  BY DEF Offering, Owned, Files
<1>6. Taken(p, o)' /\ Taken(o, p)'
  BY DEF Taken, Owned, Files
<1>7. Told(p, o)' /\ Told(o, p)'
  BY DEF Told, Owned, Files
<1>8. AcceptTold(p, o)' /\ AcceptTold(o, p)'
  BY DEF AcceptTold, Owned, Files
<1>9. Files(p)' /\ Files(o)'
  BY DEF Files, Owned
<1>10. Shown(p)' /\ Shown(o)'
  BY DEF Shown, Owned, Files
<1>11. EofSaid(p, o)' /\ EofSaid(o, p)'
  BY DEF EofSaid, Owned, Files
<1>12. QED
  BY <1>1, <1>2, <1>3, <1>4, <1>5, <1>6, <1>7, <1>8, <1>9, <1>10, <1>11

\* _finalizeReceive goes on, with the session i.
LEMMA AgreeFinishing ==
  ASSUME NEW p \in Peers, NEW o \in Peers, Agree(p, o), Agree(o, p), Grows(p, o), Rests(o),
         LoopsAre(p), LoopsAre(o),
         NEW i \in Ids,
         Temps(p, i), \A id \in Ids : Sends(p, id) \/ Takes(p, id) => id = i,
         KeepsLoops(p), KeepsMail(p), KeepsMail(o),
         status'[p] = status[p],
         KeepsRole(p),
         \A id \in Ids : (Temps(p, id)' <=> Temps(p, id)) /\ (Sinks(p, id)' => Sinks(p, id)),
         Finishes(p)' /\ \A id \in Ids : Finishing(p, id)' <=> id = i
  PROVE  Agree(p, o)' /\ Agree(o, p)'
<1> USE DEF Agree, Rests, KeepsSession, KeepsLoops, KeepsFinal, KeepsMail, AddsMail, TakesMail,
            Leaves, Grows, Ends, Heard, Kinds, LoopsAre, KeepsRole, KeepsTalk
<1>1. Owned(p, o)' /\ Owned(o, p)'
  BY DEF Owned, Files
<1>2. Unseen(p, o)' /\ Unseen(o, p)'
  BY DEF Unseen, Owned, Files
<1>3. EndsGone(p, o)' /\ EndsGone(o, p)'
  BY DEF EndsGone, Owned, Files
<1>4. Offered(p, o)' /\ Offered(o, p)'
  BY DEF Offered, Owned, Files
<1>5. Offering(p, o)' /\ Offering(o, p)'
  BY DEF Offering, Owned, Files
<1>6. Taken(p, o)' /\ Taken(o, p)'
  BY DEF Taken, Owned, Files
<1>7. Told(p, o)' /\ Told(o, p)'
  BY DEF Told, Owned, Files
<1>8. AcceptTold(p, o)' /\ AcceptTold(o, p)'
  BY DEF AcceptTold, Owned, Files
<1>9. Files(p)' /\ Files(o)'
  BY DEF Files, Owned
<1>10. Shown(p)' /\ Shown(o)'
  BY DEF Shown, Owned, Files
<1>11. EofSaid(p, o)' /\ EofSaid(o, p)'
  BY DEF EofSaid, Owned, Files
<1>12. QED
  BY <1>1, <1>2, <1>3, <1>4, <1>5, <1>6, <1>7, <1>8, <1>9, <1>10, <1>11

\* The file of i is saved.
LEMMA AgreeCopied ==
  ASSUME NEW p \in Peers, NEW o \in Peers, Agree(p, o), Agree(o, p), Grows(p, o), Rests(o),
         LoopsAre(p), LoopsAre(o),
         NEW i \in Ids,
         Sends(p, i) \/ Takes(p, i),
         \A id \in Ids : Sends(p, id) \/ Takes(p, id) => id = i,
         Finishing(p, i), Leaves(p), ~Finishes(p)', KeepsLoops(p), KeepsMail(p), KeepsMail(o),
         \A id \in Ids : ~Finishing(p, id)'
  PROVE  Agree(p, o)' /\ Agree(o, p)'
<1> USE DEF Agree, Rests, KeepsSession, KeepsLoops, KeepsFinal, KeepsMail, AddsMail, TakesMail,
            Leaves, Grows, Ends, Heard, Kinds, LoopsAre, KeepsRole, KeepsTalk
<1>1. Owned(p, o)' /\ Owned(o, p)'
  BY DEF Owned, Files
<1>2. Unseen(p, o)' /\ Unseen(o, p)'
  BY DEF Unseen, Owned, Files
<1>3. EndsGone(p, o)' /\ EndsGone(o, p)'
  BY DEF EndsGone, Owned, Files
<1>4. Offered(p, o)' /\ Offered(o, p)'
  BY DEF Offered, Owned, Files
<1>5. Offering(p, o)' /\ Offering(o, p)'
  BY DEF Offering, Owned, Files, AcceptTold
<1>6. Taken(p, o)' /\ Taken(o, p)'
  BY DEF Taken, Owned, Files
<1>7. Told(p, o)' /\ Told(o, p)'
  BY DEF Told, Owned, Files
<1>8. AcceptTold(p, o)' /\ AcceptTold(o, p)'
  BY DEF AcceptTold, Owned, Files
<1>9. Files(p)' /\ Files(o)'
  BY DEF Files, Owned
<1>10. Shown(p)' /\ Shown(o)'
  BY DEF Shown, Owned, Files
<1>11. EofSaid(p, o)' /\ EofSaid(o, p)'
  BY DEF EofSaid, Owned, Files
<1>12. QED
  BY <1>1, <1>2, <1>3, <1>4, <1>5, <1>6, <1>7, <1>8, <1>9, <1>10, <1>11

-----------------------------------------------------------------------------
(* What the variables say of a peer, before and after a step.              *)

LEMMA LoopsAreLoops == \A p \in Peers : LoopsAre(p)
BY DEF LoopsAre, AtEof, Closes, LoopOf

LEMMA MadeGrows ==
  ASSUME CountTypes, DrawnApart, HashingDrawn, SameMillisecond = FALSE, NEW p \in Peers, PeerActs(p)
  PROVE  /\ Grows(p, Other(p))
         /\ \A id \in Ids : Hashed(p, id) => Made(p, id)' /\ ~Made(p, id) /\ ~Made(Other(p), id)
<1>1. /\ DrawnApart' /\ HashingDrawn'
      /\ \A o \in Peers, id \in Ids : Made(o, id) => Made(o, id)'
      /\ \A id \in Ids : Hashed(p, id) => Made(p, id)'
  BY DrawnStep
<1>2. Other(p) \in Peers
  BY OtherPeer
<1>3. ASSUME NEW id \in Ids
      PROVE  ~(Made(p, id)' /\ Made(Other(p), id)')
  BY <1>1, <1>3 DEF DrawnApart, Made
<1>4. ASSUME NEW id \in Ids, Hashed(p, id)
      PROVE  ~Made(p, id) /\ ~Made(Other(p), id)
  BY <1>2, <1>4 DEF Hashed, HashingDrawn, DrawnApart, Made
<1>5. QED
  BY <1>1, <1>2, <1>3, <1>4 DEF Grows

LEMMA KeepSession ==
  ASSUME NEW p \in Peers, Busy(p)' <=> Busy(p), session'[p].id = session[p].id,
         session'[p].sender = session[p].sender, session'[p].sink = session[p].sink,
         session'[p].temp = session[p].temp
  PROVE  KeepsSession(p)
BY DEF KeepsSession, Sends, Takes, Sinks, Temps, Matches

LEMMA SameSession ==
  ASSUME NEW p \in Peers, session'[p] = session[p]
  PROVE  KeepsSession(p)
<1>1. Busy(p)' <=> Busy(p)
  BY DEF Busy
<1>2. QED
  BY <1>1, KeepSession

LEMMA NoSession ==
  ASSUME NEW p \in Peers, session'[p] = None
  PROVE  Leaves(p)
BY DEF Leaves, Sends, Takes, Sinks, Temps, Matches, Busy

LEMMA Bare ==
  ASSUME NEW p \in Peers, ~Busy(p)
  PROVE  \A id \in Ids : ~Sends(p, id) /\ ~Takes(p, id)
BY DEF Sends, Takes, Matches

LEMMA BusyWith ==
  ASSUME SessionTypes, NEW p \in Peers, Busy(p)
  PROVE  \E i \in Ids : /\ session[p].id = i
                        /\ \A id \in Ids : Sends(p, id) \/ Takes(p, id) => id = i
                        /\ Sends(p, i) <=> session[p].sender
                        /\ Takes(p, i) <=> ~session[p].sender
                        /\ Sinks(p, i) <=> session[p].sink
                        /\ Temps(p, i) <=> session[p].temp
<1>1. PICK i \in Ids : session[p].id = i
  BY SessionFields
<1>2. QED
  BY <1>1 DEF Sends, Takes, Sinks, Temps, Matches

LEMMA BeginSession ==
  ASSUME NEW p \in Peers, NEW i \in Ids, NEW s \in BOOLEAN, session'[p] = NewSession(i, s)
  PROVE  \A id \in Ids : /\ Sends(p, id)' <=> (s /\ id = i)
                         /\ Takes(p, id)' <=> (~s /\ id = i)
                         /\ ~Sinks(p, id)' /\ ~Temps(p, id)'
<1>a. PICK n : n = NewSession(i, s)
  OBVIOUS
<1>b. n # None /\ n.id = i /\ n.sender = s /\ n.sink = FALSE /\ n.temp = FALSE
  BY <1>a, NewFields
<1>c. session'[p] = n
  BY <1>a
<1>1. /\ session'[p] # None /\ session'[p].id = i /\ session'[p].sender = s
      /\ session'[p].sink = FALSE /\ session'[p].temp = FALSE
  BY <1>b, <1>c
<1>2. QED
  BY <1>1 DEF Sends, Takes, Sinks, Temps, Matches, Busy

LEMMA SameFinal ==
  ASSUME NEW p \in Peers, final'[p].at = final[p].at, final'[p].id = final[p].id
  PROVE  KeepsFinal(p)
BY DEF KeepsFinal, Finishes, Finishing

LEMMA SameLoops ==
  ASSUME NEW p \in Peers, loop'[p] = loop[p]
  PROVE  KeepsLoops(p)
BY DEF KeepsLoops, Going, LoopOf, AtEof, Closes

\* A loop moves: from anywhere to a place where it still runs.
LEMMA MoveLoop ==
  ASSUME LoopTypes, NEW p \in Peers, NEW l \in Slots, loop[p][l].at \notin {"none", "close"},
         loop'[p][l].id = loop[p][l].id, loop'[p][l].at # "none",
         \A k \in Slots \ {l} : loop'[p][k] = loop[p][k]
  PROVE  /\ \A id \in Ids : (LoopOf(p, id)' <=> LoopOf(p, id)) /\ (Closes(p, id) => Closes(p, id)')
         /\ loop'[p][l].at # "close" => Going(p)'
         /\ loop'[p][l].at = "close" => Closes(p, loop[p][l].id)'
         /\ loop'[p][l].at # "eof" => \A id \in Ids : AtEof(p, id)' => AtEof(p, id)
         /\ LoopOf(p, loop[p][l].id) /\ loop[p][l].id \in Ids /\ Going(p)
<1>1. PICK i \in Ids : loop[p][l].id = i
  BY DEF LoopTypes
<1>2. \A k \in Slots : k = l \/ loop'[p][k] = loop[p][k]
  OBVIOUS
<1>3. \A id \in Ids : (LoopOf(p, id)' <=> LoopOf(p, id)) /\ (Closes(p, id) => Closes(p, id)')
  BY <1>2 DEF LoopOf, Closes
<1>4. loop'[p][l].at # "close" => Going(p)'
  BY DEF Going
<1>5. loop'[p][l].at = "close" => Closes(p, i)'
  BY <1>1 DEF Closes
<1>6. loop'[p][l].at # "eof" => \A id \in Ids : AtEof(p, id)' => AtEof(p, id)
  BY <1>2 DEF AtEof
<1>7. LoopOf(p, i) /\ Going(p)
  BY <1>1 DEF LoopOf, Going
<1>8. Closes(p, loop[p][l].id)' <=> Closes(p, i)'
  BY <1>1 DEF Closes
<1>9. QED
  BY <1>1, <1>3, <1>4, <1>5, <1>6, <1>7, <1>8

-----------------------------------------------------------------------------
(* What a step does to the messages on their way.                          *)

LEMMA AppendIn ==
  ASSUME NEW s \in Seq(GoodMessage), NEW m \in GoodMessage
  PROVE  /\ \A type \in Kinds, id \in Ids :
               In(Append(s, m), type, id) <=> In(s, type, id) \/ (type = m.type /\ id = m.id)
         /\ OfferFirst(s) /\ (m.type = "metadata" => \A type \in Kinds : ~In(s, type, m.id))
            => OfferFirst(Append(s, m))
<1>1. Elements(Append(s, m)) = Elements(s) \cup {m}
  BY AppendElements
<1>2. \A type \in Kinds, id \in Ids :
         In(Append(s, m), type, id) <=> In(s, type, id) \/ (type = m.type /\ id = m.id)
  BY <1>1 DEF In
<1>3. ASSUME OfferFirst(s), m.type = "metadata" => \A type \in Kinds : ~In(s, type, m.id)
      PROVE  OfferFirst(Append(s, m))
  <2> DEFINE t == Append(s, m)
  <2>1. Len(t) = Len(s) + 1 /\ Len(s) \in Nat /\ t[Len(s) + 1] = m
    BY AppendProperties, LenProperties
  <2>2. \A n \in 1..Len(s) : t[n] = s[n]
    BY AppendProperties
  <2> HIDE DEF t
  <2>3. ASSUME NEW n \in 1..Len(t), NEW k \in 1..Len(t), t[n].type = "metadata", t[k].id = t[n].id
        PROVE  n <= k
    <3>1. CASE n \in 1..Len(s) /\ k \in 1..Len(s)
      BY <1>3, <2>2, <2>3, <3>1 DEF OfferFirst
    <3>2. CASE n = Len(s) + 1 /\ k \in 1..Len(s)
      <4>1. m.type = "metadata" /\ s[k].id = m.id
        BY <2>1, <2>2, <2>3, <3>2
      <4>2. s[k] \in GoodMessage /\ s[k] \in Elements(s)
        BY <3>2, ElementOfSeq DEF Elements
      <4>3. s[k].type \in Kinds
        BY <4>2 DEF GoodMessage, Message, Kinds
      <4>4. In(s, s[k].type, m.id)
        BY <4>1, <4>2 DEF In
      <4>5. QED
        BY <1>3, <4>1, <4>3, <4>4
    <3>3. CASE k = Len(s) + 1
      BY <2>1, <3>3
    <3>4. QED
      BY <2>1, <3>1, <3>2, <3>3
  <2>4. OfferFirst(t)
    BY <2>3 DEF OfferFirst
  <2>5. QED
    BY <2>4 DEF t
<1>4. QED
  BY <1>2, <1>3

LEMMA TailIn ==
  ASSUME NEW s \in Seq(GoodMessage), s # <<>>, OfferFirst(s)
  PROVE  /\ In(s, Head(s).type, Head(s).id) /\ ~In(Tail(s), "metadata", Head(s).id)
         /\ Head(s).type # "metadata" => ~In(s, "metadata", Head(s).id)
         /\ \A type \in Kinds, id \in Ids :
               /\ In(Tail(s), type, id) => In(s, type, id)
               /\ In(s, type, id) =>
                     In(Tail(s), type, id) \/ (type = Head(s).type /\ id = Head(s).id)
         /\ OfferFirst(Tail(s))
<1> DEFINE t == Tail(s)
<1>1. Len(t) = Len(s) - 1 /\ Len(s) \in Nat /\ Len(s) # 0 /\ Head(s) = s[1]
  BY HeadTailProperties, LenProperties, EmptySeq
<1>2. \A n \in 1..Len(t) : t[n] = s[n + 1] /\ n + 1 \in 1..Len(s)
  BY <1>1, HeadTailProperties
<1> HIDE DEF t
<1>3. Head(s) \in Elements(s)
  BY TailElements
<1>4. \A n \in 1..Len(s) : n = 1 \/ (n - 1 \in 1..Len(t) /\ t[n - 1] = s[n])
  BY <1>1, <1>2
<1>5. Elements(t) \subseteq Elements(s) /\ Elements(s) \subseteq Elements(t) \cup {Head(s)}
  BY <1>1, <1>2, <1>4 DEF Elements
<1>6. ASSUME NEW n \in 1..Len(s), s[n].type = "metadata", s[n].id = Head(s).id
      PROVE  n = 1
  <2>1. 1 \in 1..Len(s) /\ s[1].id = s[n].id
    BY <1>1, <1>6
  <2>2. n <= 1
    BY <1>6, <2>1 DEF OfferFirst
  <2>3. QED
    BY <1>1, <2>2
<1>7. ~In(t, "metadata", Head(s).id)
  <2> SUFFICES ASSUME NEW n \in 1..Len(t), t[n].type = "metadata", t[n].id = Head(s).id
               PROVE  FALSE
    BY DEF In, Elements
  <2>1. n + 1 = 1
    BY <1>2, <1>6
  <2>2. QED
    BY <1>1, <2>1
<1>8. Head(s).type # "metadata" => ~In(s, "metadata", Head(s).id)
  <2> SUFFICES ASSUME NEW n \in 1..Len(s), s[n].type = "metadata", s[n].id = Head(s).id
               PROVE  Head(s).type = "metadata"
    BY DEF In, Elements
  <2>1. QED
    BY <1>1, <1>6
<1>9. OfferFirst(t)
  <2> SUFFICES ASSUME NEW n \in 1..Len(t), NEW m \in 1..Len(t),
                      t[n].type = "metadata", t[m].id = t[n].id
               PROVE  n <= m
    BY DEF OfferFirst
  <2>1. n + 1 <= m + 1
    BY <1>2 DEF OfferFirst
  <2>2. QED
    BY <1>1, <2>1
<1>10. QED
  BY <1>3, <1>5, <1>7, <1>8, <1>9 DEF In, t

OffersFirst == \A p \in Peers : OfferFirst(queue[p])

LEMMA SameMail ==
  ASSUME OffersFirst, UNCHANGED queue
  PROVE  OffersFirst' /\ \A p \in Peers : KeepsMail(p)
<1>1. OffersFirst'
  BY DEF OffersFirst
<1>2. QED
  BY <1>1 DEF KeepsMail, Has

LEMMA PostedMail ==
  ASSUME QueueTypes, OffersFirst, open, NEW p \in Peers, NEW t \in Kinds, NEW i \in Ids,
         NEW k \in 0..Size, t = "chunk" => k # 0, queue' = After(queue, p, Msg(t, i, k)),
         t = "metadata" => \A type \in Kinds : ~Has(Other(p), type, i)
  PROVE  OffersFirst' /\ KeepsMail(p) /\ AddsMail(Other(p), t, i)
<1>1. PICK m \in GoodMessage : m = Msg(t, i, k) /\ m.type = t /\ m.id = i
  BY MsgGood DEF Kinds
<1>2. PICK o \in Peers : o = Other(p) /\ o # p
  BY OtherPeer
<1>3. queue \in [Peers -> Seq(GoodMessage)]
  BY DEF QueueTypes
<1>4. queue'[o] = Append(queue[o], m) /\ queue'[p] = queue[p]
  BY <1>1, <1>2, <1>3 DEF After
<1>5. /\ \A type \in Kinds, id \in Ids :
            In(queue'[o], type, id) <=> In(queue[o], type, id) \/ (type = t /\ id = i)
      /\ OfferFirst(queue'[o])
  <2>1. m.type = "metadata" => \A type \in Kinds : ~In(queue[o], type, m.id)
    BY <1>1, <1>2 DEF Has
  <2>2. OfferFirst(queue[o])
    BY DEF OffersFirst
  <2>3. QED
    BY <1>1, <1>3, <1>4, <2>1, <2>2, AppendIn
<1>6. OfferFirst(queue'[p])
  BY <1>4 DEF OffersFirst
<1>7. OffersFirst'
  <2>1. \A q \in Peers : q = p \/ q = o
    BY <1>2 DEF Peers, Other
  <2>2. QED
    BY <1>5, <1>6, <2>1 DEF OffersFirst, OfferFirst
<1>8. QED
  BY <1>2, <1>4, <1>5, <1>7 DEF KeepsMail, AddsMail, Has, In, Elements

LEMMA TakenMail ==
  ASSUME QueueTypes, OffersFirst, NEW p \in Peers, queue[p] # <<>>, NEW q, q[p] = Tail(queue[p]),
         queue'[p] = q[p]
  PROVE  /\ Head(queue[p]).type \in Kinds /\ Head(queue[p]).id \in Ids
         /\ TakesMail(p, Head(queue[p]).type, Head(queue[p]).id)
         /\ OfferFirst(q[p])
<1>1. queue[p] \in Seq(GoodMessage) /\ OfferFirst(queue[p])
  BY DEF QueueTypes, OffersFirst
<1>2. PICK s \in Seq(GoodMessage) : s = queue[p]
  BY <1>1
<1>3. PICK h \in GoodMessage : h = Head(s)
  BY <1>2, HeadTailProperties
<1>4. /\ In(s, h.type, h.id) /\ ~In(Tail(s), "metadata", h.id)
      /\ h.type # "metadata" => ~In(s, "metadata", h.id)
      /\ \A type \in Kinds, id \in Ids :
            /\ In(Tail(s), type, id) => In(s, type, id)
            /\ In(s, type, id) => In(Tail(s), type, id) \/ (type = h.type /\ id = h.id)
      /\ OfferFirst(Tail(s))
  BY <1>1, <1>2, <1>3, TailIn
<1>5. \A type, id : Has(p, type, id)' <=> In(Tail(s), type, id)
  BY <1>2 DEF Has, In, Elements
<1>6. \A type, id : Has(p, type, id) <=> In(s, type, id)
  BY <1>2 DEF Has
<1>7. h.type \in Kinds /\ h.id \in Ids
  BY <1>3 DEF GoodMessage, Message, Kinds
<1>8. TakesMail(p, h.type, h.id)
  BY <1>4, <1>5, <1>6, <1>7 DEF TakesMail
<1>9. QED
  BY <1>2, <1>3, <1>4, <1>7, <1>8

LEMMA RestMail ==
  ASSUME QueueTypes, OffersFirst, NEW p \in Peers, queue[p] # <<>>, queue' = Rest(p)
  PROVE  /\ OffersFirst' /\ KeepsMail(Other(p))
         /\ Head(queue[p]).type \in Kinds /\ Head(queue[p]).id \in Ids
         /\ TakesMail(p, Head(queue[p]).type, Head(queue[p]).id)
<1>1. PICK o \in Peers : o = Other(p) /\ \A x \in Peers : x = p \/ x = o
  BY OtherPeer DEF Peers, Other
<1>2. PICK q : q = Rest(p)
  OBVIOUS
<1>3. q[p] = Tail(queue[p]) /\ q[o] = queue[o] /\ queue' = q
  BY <1>1, <1>2, RestTypes
<1>4. /\ Head(queue[p]).type \in Kinds /\ Head(queue[p]).id \in Ids
      /\ TakesMail(p, Head(queue[p]).type, Head(queue[p]).id)
      /\ OfferFirst(q[p])
  BY <1>3, TakenMail
<1>5. KeepsMail(o)
  BY <1>3 DEF KeepsMail, Has
<1>6. OffersFirst'
  BY <1>1, <1>3, <1>4 DEF OffersFirst, OfferFirst
<1>7. QED
  BY <1>1, <1>4, <1>5, <1>6

LEMMA AnsweredMail ==
  ASSUME QueueTypes, OffersFirst, open, NEW p \in Peers, queue[p] # <<>>,
         NEW t \in {"reject", "cancel"}, NEW i \in Ids, queue' = After(Rest(p), p, Msg(t, i, 0))
  PROVE  /\ OffersFirst' /\ AddsMail(Other(p), t, i)
         /\ Head(queue[p]).type \in Kinds /\ Head(queue[p]).id \in Ids
         /\ TakesMail(p, Head(queue[p]).type, Head(queue[p]).id)
<1>1. PICK o \in Peers : o = Other(p) /\ o # p /\ \A x \in Peers : x = p \/ x = o
  BY OtherPeer DEF Peers, Other
<1>2. PICK m \in GoodMessage : m = Msg(t, i, 0) /\ m.type = t /\ m.id = i
  BY ZeroGood
<1>3. PICK r \in [Peers -> Seq(GoodMessage)] : r = Rest(p)
  BY RestTypes
<1>4. PICK q : q = After(r, p, m)
  OBVIOUS
<1>5. r[p] = Tail(queue[p]) /\ r[o] = queue[o]
  BY <1>1, <1>3, RestTypes
<1>6. q[p] = Tail(queue[p]) /\ q[o] = Append(queue[o], m) /\ queue' = q
  BY <1>1, <1>2, <1>3, <1>4, <1>5 DEF After
<1>7. /\ Head(queue[p]).type \in Kinds /\ Head(queue[p]).id \in Ids
      /\ TakesMail(p, Head(queue[p]).type, Head(queue[p]).id)
      /\ OfferFirst(q[p])
  BY <1>6, TakenMail
<1>8. /\ \A type \in Kinds, id \in Ids :
            In(q[o], type, id) <=> In(queue[o], type, id) \/ (type = t /\ id = i)
      /\ OfferFirst(q[o])
  <2>1. queue[o] \in Seq(GoodMessage) /\ OfferFirst(queue[o])
    BY DEF QueueTypes, OffersFirst
  <2>2. QED
    BY <1>2, <1>6, <2>1, AppendIn
<1>9. AddsMail(o, t, i)
  <2>1. \A type, id : Has(o, type, id)' <=> In(q[o], type, id)
    BY <1>6 DEF Has, In, Elements
  <2>2. \A type, id : Has(o, type, id) <=> In(queue[o], type, id)
    BY DEF Has
  <2>3. QED
    BY <1>8, <2>1, <2>2 DEF AddsMail
<1>10. OffersFirst'
  BY <1>1, <1>6, <1>7, <1>8 DEF OffersFirst, OfferFirst
<1>11. QED
  BY <1>1, <1>7, <1>9, <1>10

-----------------------------------------------------------------------------
(* A step of one peer, p, with nobody excused before or after.             *)

NoneGone == \A p \in Peers : ~disposed[p] /\ events[p] = 0

\* A loop is put into a slot, and a loop moves.
Puts(p, l, r) == loop'[p][l] = r /\ \A k \in Slots \ {l} : loop'[p][k] = loop[p][k]
Moves(p, l, a) == /\ loop'[p][l].at = a /\ loop'[p][l].id = loop[p][l].id
                  /\ \A k \in Slots \ {l} : loop'[p][k] = loop[p][k]

LEMMA LoopPut ==
  ASSUME LoopTypes, NEW p \in Peers, NEW l \in Slots, NEW r, loop' = [loop EXCEPT ![p][l] = r]
  PROVE  Puts(p, l, r)
<1>1. loop[p] \in [Slots -> LoopRecord] /\ loop \in [Peers -> [Slots -> LoopRecord]]
  BY DEF LoopTypes
<1>2. QED
  BY <1>1 DEF Puts

LEMMA LoopMoved ==
  ASSUME LoopTypes, NEW p \in Peers, NEW l \in Slots, NEW a, loop' = [loop EXCEPT ![p][l].at = a]
  PROVE  Moves(p, l, a)
<1>1. loop[p] \in [Slots -> LoopRecord] /\ loop[p][l] \in LoopRecord
      /\ loop \in [Peers -> [Slots -> LoopRecord]]
  BY DEF LoopTypes
<1>2. /\ loop'[p][l] = [loop[p][l] EXCEPT !.at = a]
      /\ \A k \in Slots \ {l} : loop'[p][k] = loop[p][k]
  BY <1>1
<1>3. QED
  BY <1>1, <1>2 DEF LoopRecord, Moves

LEMMA LoopGone ==
  ASSUME LoopTypes, NEW p \in Peers, NEW l \in Slots, NEW a, NEW off,
         loop' = [loop EXCEPT ![p][l].at = a, ![p][l].off = off]
  PROVE  Moves(p, l, a)
<1>1. loop[p] \in [Slots -> LoopRecord] /\ loop[p][l] \in LoopRecord
      /\ loop \in [Peers -> [Slots -> LoopRecord]]
  BY DEF LoopTypes
<1>2. /\ loop'[p][l] = [loop[p][l] EXCEPT !.at = a, !.off = off]
      /\ \A k \in Slots \ {l} : loop'[p][k] = loop[p][k]
  BY <1>1
<1>3. QED
  BY <1>1, <1>2 DEF LoopRecord, Moves

LEMMA LoopOthers ==
  ASSUME LoopTypes, NEW p \in Peers, NEW o \in Peers, o # p, PeerActs(p)
  PROVE  loop'[o] = loop[o]
<1>1. CASE SendOffer(p) \/ ClickAccept(p) \/ ClickReject(p) \/ ClickCancel(p) \/ Dispose(p)
  BY <1>1 DEF SendOffer, ClickAccept, ClickReject, ClickCancel, Dispose, tasks
<1>2. CASE PeerStep(p)
  BY <1>2 DEF PeerStep, Hashed, Posted, Accepted, Flushed, PathFound, Copied, ChannelEvent, tasks
<1>3. ASSUME NEW l \in Slots, LoopStep(p, l)
      PROVE  loop'[o] = loop[o]
  BY <1>3 DEF LoopStep, Opened, Low, Read, Sent, Refused, EofSent, FileClosed, Continue, LoopTypes
<1>4. CASE Receive(p)
  <2>1. \/ UNCHANGED loop
        \/ \E l \in Slots : \E r : loop' = [loop EXCEPT ![p][l] = r]
    BY <1>4 DEF Receive, HandleMetadata, HandleAccept, HandleEnd, HandleEof, HandleChunk
  <2>2. QED
    BY <2>1 DEF LoopTypes
<1>5. CASE OwnTimeout(p) \/ StrayTimeout(p)
  BY <1>5 DEF OwnTimeout, StrayTimeout, Timeout, tasks
<1>6. QED
  BY <1>1, <1>2, <1>3, <1>4, <1>5 DEF PeerActs

\* Who is excused stays so; without an excuse no widget goes and no event comes.
LEMMA ExcusedStay ==
  ASSUME NEW p \in Peers, PeerActs(p)
  PROVE  excused \subseteq excused'
<1>1. CASE SendOffer(p) \/ ClickAccept(p) \/ ClickReject(p) \/ ClickCancel(p) \/ Dispose(p)
  BY <1>1 DEF SendOffer, ClickAccept, ClickReject, ClickCancel, Dispose
<1>2. CASE PeerStep(p)
  BY <1>2 DEF PeerStep, Hashed, Posted, Accepted, Flushed, PathFound, Copied, FinalFails,
              ChannelEvent, Excuse
<1>3. ASSUME NEW l \in Slots, LoopStep(p, l)
      PROVE  excused \subseteq excused'
  BY <1>3 DEF LoopStep, Opened, Low, Read, Sent, Refused, EofSent, FileClosed
<1>4. CASE Receive(p)
  BY <1>4 DEF Receive, HandleMetadata, HandleAccept, HandleEnd, HandleEof, HandleChunk
<1>5. CASE OwnTimeout(p) \/ StrayTimeout(p)
  BY <1>5 DEF OwnTimeout, StrayTimeout, Timeout
<1>6. QED
  BY <1>1, <1>2, <1>3, <1>4, <1>5 DEF PeerActs

LEMMA NobodyGoes ==
  ASSUME NEW p \in Peers, PeerActs(p), NoneGone, Clean'
  PROVE  NoneGone' /\ ~Dispose(p) /\ ~ChannelEvent(p)
<1>1. ~Dispose(p)
  BY DEF Dispose, Clean
<1>2. ~ChannelEvent(p)
  BY DEF ChannelEvent, NoneGone
<1>3. CASE SendOffer(p) \/ ClickAccept(p) \/ ClickReject(p) \/ ClickCancel(p)
  BY <1>1, <1>2, <1>3 DEF SendOffer, ClickAccept, ClickReject, ClickCancel, NoneGone
<1>4. CASE PeerStep(p)
  BY <1>1, <1>2, <1>4 DEF PeerStep, Hashed, Posted, Accepted, Flushed, PathFound, Copied, NoneGone
<1>5. ASSUME NEW l \in Slots, LoopStep(p, l)
      PROVE  NoneGone'
  BY <1>5 DEF LoopStep, Opened, Low, Read, Sent, Refused, EofSent, FileClosed, NoneGone
<1>6. CASE Receive(p) \/ OwnTimeout(p) \/ StrayTimeout(p)
  <2>1. UNCHANGED <<disposed, events>>
    BY <1>6 DEF Receive, OwnTimeout, StrayTimeout, Timeout
  <2>2. QED
    BY <1>1, <1>2, <2>1 DEF NoneGone
<1>7. QED
  BY <1>1, <1>2, <1>3, <1>4, <1>5, <1>6 DEF PeerActs

\* What is known of a step of p, the other peer being o, and what is to be shown of it.
Stage(p, o) ==
    /\ Types /\ TransferringSends /\ OffersFirst /\ open /\ excused' = {}
    /\ o = Other(p) /\ ~disposed[p] /\ disposed'[p] = disposed[p]
    /\ Agree(p, o) /\ Agree(o, p) /\ Grows(p, o) /\ Rests(o) /\ LoopsAre(p) /\ LoopsAre(o)
Kept(p, o) == OffersFirst' /\ Agree(p, o)' /\ Agree(o, p)'

Agreed == /\ Types /\ DrawnApart /\ HashingDrawn /\ TransferringSends
          /\ NoneGone /\ OffersFirst /\ \A p \in Peers : Agree(p, Other(p))

LEMMA StageIsSet ==
  ASSUME SameMillisecond = FALSE, Agreed, Clean', NEW p \in Peers, NEW o \in Peers, o = Other(p),
         PeerActs(p)
  PROVE  Stage(p, o) /\ NoneGone' /\ ~Dispose(p) /\ ~ChannelEvent(p)
         /\ \A id \in Ids : Hashed(p, id) => Made(p, id)' /\ ~Made(p, id) /\ ~Made(o, id)
<1>1. /\ Types /\ DrawnApart /\ HashingDrawn /\ TransferringSends /\ NoneGone /\ OffersFirst
      /\ Agree(p, o) /\ Agree(o, p) /\ o # p /\ LoopTypes /\ CountTypes
  BY OtherPeer DEF Agreed, Types
<1>2. Holds(o)' = Holds(o) /\ open' = open /\ loop'[o] = loop[o]
  BY <1>1, OthersStay, LoopOthers
<1>3. session'[o] = session[o] /\ status'[o] = status[o] /\ final'[o] = final[o]
  BY <1>2 DEF Holds
<1>4. Rests(o)
  BY <1>2, <1>3, SameSession, SameLoops, SameFinal DEF Rests
<1>5. open /\ excused' = {}
  BY <1>2 DEF Clean
<1>6. /\ Grows(p, o)
      /\ \A id \in Ids : Hashed(p, id) => Made(p, id)' /\ ~Made(p, id) /\ ~Made(o, id)
  BY <1>1, MadeGrows
<1>7. NoneGone' /\ ~Dispose(p) /\ ~ChannelEvent(p)
  BY <1>1, NobodyGoes
<1>8. ~disposed[p] /\ ~disposed'[p]
  BY <1>1, <1>7 DEF NoneGone
<1>9. disposed'[p] = disposed[p]
  <2>1. CASE SendOffer(p) \/ ClickAccept(p) \/ ClickReject(p) \/ ClickCancel(p)
    BY <2>1 DEF SendOffer, ClickAccept, ClickReject, ClickCancel
  <2>2. CASE PeerStep(p)
    BY <1>7, <2>2 DEF PeerStep, Hashed, Posted, Accepted, Flushed, PathFound, Copied
  <2>3. ASSUME NEW l \in Slots, LoopStep(p, l)
        PROVE  disposed'[p] = disposed[p]
    BY <2>3 DEF LoopStep, Opened, Low, Read, Sent, Refused, EofSent, FileClosed
  <2>4. CASE Receive(p) \/ OwnTimeout(p) \/ StrayTimeout(p)
    BY <2>4 DEF Receive, OwnTimeout, StrayTimeout, Timeout
  <2>5. QED
    BY <1>7, <2>1, <2>2, <2>3, <2>4 DEF PeerActs
<1>10. QED
  BY <1>1, <1>4, <1>5, <1>6, <1>7, <1>8, <1>9, LoopsAreLoops DEF Stage

-----------------------------------------------------------------------------
(* The actions, one by one.                                                *)

\* Nothing but timers, suspended functions and bytes.
LEMMA StaysKept ==
  ASSUME NEW p \in Peers, NEW o \in Peers, Stage(p, o), KeepsSession(p), KeepsFinal(p),
         status'[p] = status[p], loop'[p] = loop[p], UNCHANGED queue
  PROVE  Kept(p, o)
<1>1. OffersFirst' /\ KeepsMail(p) /\ KeepsMail(o)
  BY SameMail DEF Stage
<1>2. Rests(p)
  BY SameLoops DEF Rests
<1>3. QED
  BY <1>1, <1>2, AgreeSame DEF Stage, Kept

\* The session, if there is one, ends, and the other peer is told.
LEMMA EndKept ==
  ASSUME NEW p \in Peers, NEW o \in Peers, Stage(p, o), session'[p] = None,
         \/ /\ Busy(p)
            /\ \E t \in {"reject", "cancel"} : queue' = After(queue, p, Msg(t, session[p].id, 0))
         \/ ~Busy(p) /\ UNCHANGED queue,
         \A id \in Ids : LoopOf(p, id)' => LoopOf(p, id),
         \A id \in Ids : Finishing(p, id)' => Finishing(p, id)
  PROVE  Kept(p, o)
<1>1. Leaves(p)
  BY NoSession
<1>2. CASE ~Busy(p)
  <2>1. UNCHANGED queue
    BY <1>2
  <2>2. OffersFirst' /\ KeepsMail(p) /\ KeepsMail(o)
    BY <2>1, SameMail DEF Stage
  <2>3. \A id \in Ids : ~Sends(p, id) /\ ~Takes(p, id)
    BY <1>2, Bare
  <2>4. QED
    BY <1>1, <2>2, <2>3, AgreeIdle DEF Stage, Kept
<1>3. CASE Busy(p)
  <2>0. SessionTypes /\ QueueTypes /\ 0 \in 0..Size
    BY TransferAssumption DEF Stage, Types
  <2>1. PICK i \in Ids : /\ session[p].id = i
                         /\ \A id \in Ids : Sends(p, id) \/ Takes(p, id) => id = i
                         /\ Sends(p, i) <=> session[p].sender
                         /\ Takes(p, i) <=> ~session[p].sender
    BY <1>3, <2>0, BusyWith
  <2>2. PICK t \in {"reject", "cancel"} : queue' = After(queue, p, Msg(t, i, 0))
    BY <1>3, <2>1
  <2>3. OffersFirst' /\ KeepsMail(p) /\ AddsMail(o, t, i)
    BY <2>0, <2>2, PostedMail DEF Stage, Kinds
  <2>4. KeepsTalk(p)
    BY <2>3 DEF KeepsTalk, KeepsMail
  <2>5. Sends(p, i) \/ Takes(p, i)
    BY <2>1
  <2>6. QED
    BY <1>1, <2>1, <2>3, <2>4, <2>5, AgreeToldEnd DEF Stage, Kept
<1>4. QED
  BY <1>2, <1>3

LEMMA CancelKept ==
  ASSUME NEW p \in Peers, NEW o \in Peers, Stage(p, o), CancelTransfer(p),
         \A id \in Ids : LoopOf(p, id)' => LoopOf(p, id), UNCHANGED final
  PROVE  Kept(p, o)
<1>1. SessionTypes /\ QueueTypes
  BY DEF Stage, Types
<1>2. session'[p] = None
  BY <1>1, CancelTypes
<1>3. \/ Busy(p) /\ queue' = After(queue, p, Msg("cancel", session[p].id, 0))
      \/ ~Busy(p) /\ UNCHANGED queue
  BY DEF CancelTransfer, Post
<1>4. \A id \in Ids : Finishing(p, id)' => Finishing(p, id)
  BY DEF Finishing, Finishes
<1>5. QED
  BY <1>2, <1>3, <1>4, EndKept

LEMMA UsersKept ==
  ASSUME NEW p \in Peers, NEW o \in Peers, Stage(p, o),
         \/ SendOffer(p) \/ ClickAccept(p) \/ ClickReject(p) \/ ClickCancel(p)
         \/ OwnTimeout(p) \/ StrayTimeout(p)
  PROVE  Kept(p, o)
<1>0. SessionTypes /\ QueueTypes
  BY DEF Stage, Types
<1>1. CASE SendOffer(p) \/ ClickAccept(p)
  <2>1. UNCHANGED <<session, status, queue, loop, final>>
    BY <1>1 DEF SendOffer, ClickAccept
  <2>2. QED
    BY <2>1, SameSession, SameFinal, StaysKept
<1>2. CASE ClickReject(p)
  <2>1. Busy(p) /\ EndSession(p, "idle") /\ Post(p, Msg("reject", session[p].id, 0))
        /\ UNCHANGED <<loop, final>>
    BY <1>2 DEF ClickReject, tasks
  <2>2. session'[p] = None
    BY <1>0, <2>1, EndedSession DEF Statuses
  <2>3. \A id \in Ids : (LoopOf(p, id)' => LoopOf(p, id)) /\ (Finishing(p, id)' => Finishing(p, id))
    BY <2>1 DEF LoopOf, Finishing, Finishes
  <2>4. QED
    BY <2>1, <2>2, <2>3, EndKept DEF Post
<1>3. CASE ClickCancel(p) \/ OwnTimeout(p) \/ StrayTimeout(p)
  <2>1. CancelTransfer(p) /\ UNCHANGED <<loop, final>>
    BY <1>3 DEF ClickCancel, OwnTimeout, StrayTimeout, Timeout, tasks
  <2>2. \A id \in Ids : LoopOf(p, id)' => LoopOf(p, id)
    BY <2>1 DEF LoopOf
  <2>3. QED
    BY <2>1, <2>2, CancelKept
<1>4. QED
  BY <1>1, <1>2, <1>3

LEMMA HashedKept ==
  ASSUME NEW p \in Peers, NEW o \in Peers, Stage(p, o), NEW i \in Ids, Hashed(p, i),
         Made(p, i)', ~Made(p, i), ~Made(o, i)
  PROVE  Kept(p, o)
<1>0. SessionTypes /\ QueueTypes /\ UNCHANGED <<loop, final>> /\ o = Other(p)
      /\ OffersFirst /\ open /\ 0 \in 0..Size
  BY TransferAssumption DEF Stage, Types, Hashed
<1>1. CASE Busy(p)
  <2>1. UNCHANGED <<session, status, queue>>
    BY <1>1 DEF Hashed
  <2>2. QED
    BY <1>0, <2>1, SameSession, SameFinal, StaysKept
<1>2. CASE ~Busy(p)
  <2>1. /\ session' = [session EXCEPT ![p] = NewSession(i, TRUE)] /\ Show(p, "offering")
        /\ queue' = After(queue, p, Msg("metadata", i, 0))
    BY <1>2 DEF Hashed, Post
  <2>2. session'[p] = NewSession(i, TRUE)
    BY <1>0, <2>1 DEF SessionTypes
  <2>3. \A id \in Ids : /\ Sends(p, id)' <=> id = i
                        /\ ~Takes(p, id)' /\ ~Sinks(p, id)' /\ ~Temps(p, id)'
    BY <2>2, BeginSession
  <2>4. status'[p] = "offering"
    BY <1>0, <2>1, ShowStatus DEF Stage, Statuses
  <2>5. \A type \in Kinds : ~Has(o, type, i)
    BY DEF Stage, Agree, Owned, Kinds, Ends
  <2>6. OffersFirst' /\ KeepsMail(p) /\ AddsMail(o, "metadata", i)
    <3>1. "metadata" \in Kinds
      BY DEF Kinds
    <3>2. QED
      BY <1>0, <2>1, <2>5, <3>1, PostedMail
  <2>7. KeepsLoops(p) /\ KeepsFinal(p)
    BY <1>0, SameLoops, SameFinal
  <2>8. \A id \in Ids : ~Sends(p, id) /\ ~Takes(p, id)
    BY <1>2, Bare
  <2>9. QED
    BY <2>3, <2>4, <2>6, <2>7, <2>8, AgreeOffer DEF Stage, Kept
<1>3. QED
  BY <1>1, <1>2

LEMMA PostedKept ==
  ASSUME NEW p \in Peers, NEW o \in Peers, Stage(p, o), Posted(p)
  PROVE  Kept(p, o)
<1>1. UNCHANGED <<status, queue, loop, final>> /\ Types
  BY DEF Posted, Stage
<1>2. KeepsSession(p)
  <2>1. CASE Busy(p)
    <3>1. /\ session'[p] \in Session /\ session'[p].id = session[p].id
          /\ session'[p].sender = session[p].sender /\ session'[p].sink = session[p].sink
          /\ session'[p].temp = session[p].temp
      BY <1>1, <2>1, PostedTypes
    <3>2. Busy(p)'
      BY <3>1, NoneFields DEF Busy
    <3>3. QED
      BY <2>1, <3>1, <3>2, KeepSession
  <2>2. CASE ~Busy(p)
    BY <1>1, <2>2, PostedTypes, SameSession
  <2>3. QED
    BY <2>1, <2>2
<1>3. QED
  BY <1>1, <1>2, SameFinal, StaysKept

\* acceptOffer: who sends is excused.
LEMMA OpenedHere ==
  ASSUME SessionTypes, NEW p \in Peers, Busy(p),
         session' = [session EXCEPT ![p].sink = TRUE, ![p].temp = TRUE, ![p].got = <<>>,
                                    ![p].inactivityTimer = TRUE]
  PROVE  session'[p].sink = TRUE /\ session'[p].temp = TRUE
<1>1. session[p] \in Session /\ session \in [Peers -> Session \cup {None}]
  BY SessionFields DEF SessionTypes
<1>2. session'[p] = [session[p] EXCEPT !.sink = TRUE, !.temp = TRUE, !.got = <<>>,
                                       !.inactivityTimer = TRUE]
  BY <1>1
<1>3. QED
  BY <1>1, <1>2 DEF Session

LEMMA AcceptedKept ==
  ASSUME NEW p \in Peers, NEW o \in Peers, Stage(p, o), Accepted(p)
  PROVE  Kept(p, o)
<1>0. /\ SessionTypes /\ QueueTypes /\ FinalTypes /\ loop' = loop /\ o = Other(p)
      /\ OffersFirst /\ open /\ 0 \in 0..Size /\ Reopen(p) /\ excused' = {} /\ ~disposed[p]
  BY TransferAssumption DEF Stage, Types, Accepted
<1>1. final'[p].at = final[p].at /\ final'[p].id = final[p].id
  BY <1>0 DEF Reopen, FinalTypes, FinalRecord
<1>2. KeepsLoops(p) /\ KeepsFinal(p)
  BY <1>0, <1>1, SameLoops, SameFinal
<1>3. CASE ~Busy(p)
  <2>1. EndSession(p, "error") /\ UNCHANGED queue
    BY <1>3 DEF Accepted
  <2>2. session'[p] = None
    BY <1>0, <2>1, EndedSession DEF Statuses
  <2>3. \A id \in Ids : (LoopOf(p, id)' => LoopOf(p, id)) /\ (Finishing(p, id)' => Finishing(p, id))
    BY <1>2 DEF KeepsLoops, KeepsFinal
  <2>4. QED
    BY <1>3, <2>1, <2>2, <2>3, EndKept
<1>4. CASE Busy(p)
  <2>1. /\ session' = [session EXCEPT ![p].sink = TRUE, ![p].temp = TRUE, ![p].got = <<>>,
                                      ![p].inactivityTimer = TRUE]
        /\ Show(p, "receiving") /\ queue' = After(queue, p, Msg("accept", session[p].id, 0))
        /\ excused' = IF session[p].sender THEN excused \cup {p} ELSE excused
    BY <1>4 DEF Accepted, Post
  <2>2. ~session[p].sender
    BY <1>0, <2>1
  <2>3. PICK i \in Ids : /\ session[p].id = i
                         /\ \A id \in Ids : Sends(p, id) \/ Takes(p, id) => id = i
                         /\ Takes(p, i) <=> ~session[p].sender
    BY <1>0, <1>4, BusyWith
  <2>4. /\ session'[p] \in Session /\ session'[p].id = i
        /\ session'[p].sender = session[p].sender
        /\ session'[p].sink = TRUE /\ session'[p].temp = TRUE
    BY <1>0, <1>4, <2>1, <2>3, OpenedFile, OpenedHere
  <2>5. Busy(p)'
    BY <2>4, NoneFields DEF Busy
  <2>6. KeepsRole(p)
    BY <1>4, <2>3, <2>4, <2>5 DEF KeepsRole, Sends, Takes, Matches
  <2>7. \A id \in Ids : (Temps(p, id)' <=> id = i) /\ (Sinks(p, id)' <=> id = i)
    BY <2>4, <2>5 DEF Temps, Sinks, Matches
  <2>8. status'[p] = "receiving"
    BY <1>0, <2>1, ShowStatus DEF Statuses
  <2>9. OffersFirst' /\ KeepsMail(p) /\ AddsMail(o, "accept", i)
    <3>1. "accept" \in Kinds
      BY DEF Kinds
    <3>2. QED
      BY <1>0, <2>1, <2>3, <3>1, PostedMail
  <2>10. QED
    BY <1>2, <2>2, <2>3, <2>6, <2>7, <2>8, <2>9, AgreeAccepted DEF Stage, Kept
<1>5. QED
  BY <1>3, <1>4

\* _finalizeReceive: who has a session when it fails is excused.
LEMMA FailsKept ==
  ASSUME NEW p \in Peers, NEW o \in Peers, Stage(p, o), FinalFails(p), UNCHANGED <<queue, loop>>
  PROVE  Kept(p, o)
<1>1. SessionTypes /\ final \in [Peers -> FinalRecord] /\ excused' = {}
  BY DEF Stage, Types, FinalTypes
<1>2. ~Busy(p)
  BY <1>1 DEF FinalFails, Excuse
<1>3. session'[p] = None
  BY <1>1, EndedSession DEF FinalFails, Statuses
<1>4. final'[p].at = "none"
  BY <1>1, NoFinalFields DEF FinalFails
<1>5. \A id \in Ids : (LoopOf(p, id)' => LoopOf(p, id)) /\ ~Finishing(p, id)'
  BY <1>4 DEF LoopOf, Finishing, Finishes
<1>6. QED
  BY <1>2, <1>3, <1>5, EndKept

LEMMA FinalKept ==
  ASSUME NEW p \in Peers, NEW o \in Peers, Stage(p, o), Flushed(p) \/ PathFound(p) \/ Copied(p)
  PROVE  Kept(p, o)
<1>0. /\ SessionTypes /\ final \in [Peers -> FinalRecord] /\ OffersFirst /\ ~disposed[p]
      /\ UNCHANGED <<queue, loop>>
  BY DEF Stage, Types, FinalTypes, Flushed, PathFound, Copied
<1>1. OffersFirst' /\ KeepsMail(p) /\ KeepsMail(o) /\ KeepsLoops(p)
  BY <1>0, SameMail, SameLoops
<1>2. CASE FinalFails(p)
  BY <1>0, <1>2, FailsKept
<1>3. CASE Flushed(p) /\ ~FinalFails(p)
  <2>1. /\ session[p].sink /\ UNCHANGED status
        /\ session' = [session EXCEPT ![p].sink = FALSE, ![p].inactivityTimer = FALSE]
        /\ final' = [final EXCEPT ![p] = Checked(p)]
    BY <1>3 DEF Flushed
  <2>2. Busy(p)
    BY <1>0, <2>1, SessionFields
  <2>3. PICK i \in Ids : /\ session[p].id = i
                         /\ \A id \in Ids : Sends(p, id) \/ Takes(p, id) => id = i
                         /\ Sinks(p, i) <=> session[p].sink
    BY <1>0, <2>2, BusyWith
  <2>4. Sinks(p, i)
    BY <2>1, <2>3
  <2>5. Temps(p, i)
    BY <2>4 DEF Stage, Agree, Files
  <2>6. /\ session'[p] \in Session /\ session'[p].id = session[p].id
        /\ session'[p].sender = session[p].sender /\ session'[p].temp = session[p].temp
        /\ session'[p].sink = FALSE
    BY <1>0, <2>1, <2>2, FlushedSession
  <2>7. Busy(p)'
    BY <2>6, NoneFields DEF Busy
  <2>8. KeepsRole(p)
    BY <2>2, <2>6, <2>7 DEF KeepsRole, Sends, Takes, Matches
  <2>9. \A id \in Ids : (Temps(p, id)' <=> Temps(p, id)) /\ (Sinks(p, id)' => Sinks(p, id))
    BY <2>2, <2>6, <2>7 DEF Temps, Sinks, Matches
  <2>10. final'[p].at = "path" /\ final'[p].id = i
    BY <1>0, <2>1, <2>3, CheckedFields
  <2>11. Finishes(p)' /\ \A id \in Ids : Finishing(p, id)' <=> id = i
    BY <2>10 DEF Finishes, Finishing
  <2>12. status'[p] = status[p]
    BY <2>1
  <2>13. QED
    BY <1>1, <2>3, <2>5, <2>8, <2>9, <2>11, <2>12, AgreeFinishing DEF Stage, Kept
<1>4. CASE PathFound(p) /\ ~FinalFails(p)
  <2>1. /\ session[p].temp /\ UNCHANGED <<session, status>>
        /\ \E r : r.at = "copy" /\ r.id = session[p].id /\ final' = [final EXCEPT ![p] = r]
    BY <1>0, <1>4 DEF PathFound
  <2>2. Busy(p)
    BY <1>0, <2>1, SessionFields
  <2>3. PICK i \in Ids : /\ session[p].id = i
                         /\ \A id \in Ids : Sends(p, id) \/ Takes(p, id) => id = i
                         /\ Temps(p, i) <=> session[p].temp
    BY <1>0, <2>2, BusyWith
  <2>4. Temps(p, i)
    BY <2>1, <2>3
  <2>5. KeepsSession(p)
    BY <2>1, SameSession
  <2>6. KeepsRole(p)
    BY <2>5 DEF KeepsRole, KeepsSession
  <2>7. \A id \in Ids : (Temps(p, id)' <=> Temps(p, id)) /\ (Sinks(p, id)' => Sinks(p, id))
    BY <2>5 DEF KeepsSession
  <2>8. final'[p].at = "copy" /\ final'[p].id = i
    BY <1>0, <2>1, <2>3
  <2>9. Finishes(p)' /\ \A id \in Ids : Finishing(p, id)' <=> id = i
    BY <2>8 DEF Finishes, Finishing
  <2>10. status'[p] = status[p]
    BY <2>1
  <2>11. QED
    BY <1>1, <2>3, <2>4, <2>6, <2>7, <2>9, <2>10, AgreeFinishing DEF Stage, Kept
<1>5. CASE Copied(p) /\ ~FinalFails(p)
  <2>1. /\ Matches(p, final[p].id) /\ final[p].at = "copy"
        /\ session' = [session EXCEPT ![p] = None]
        /\ final' = [final EXCEPT ![p] = NoFinal]
    BY <1>5 DEF Copied
  <2>2. Busy(p) /\ session[p].id = final[p].id
    BY <2>1 DEF Matches
  <2>3. PICK i \in Ids : /\ session[p].id = i
                         /\ \A id \in Ids : Sends(p, id) \/ Takes(p, id) => id = i
                         /\ Sends(p, i) <=> session[p].sender
                         /\ Takes(p, i) <=> ~session[p].sender
    BY <1>0, <2>2, BusyWith
  <2>4. Finishing(p, i) /\ (Sends(p, i) \/ Takes(p, i))
    BY <2>1, <2>2, <2>3 DEF Finishing, Finishes
  <2>5. session'[p] = None /\ final'[p].at = "none"
    BY <1>0, <2>1, NoFinalFields DEF SessionTypes
  <2>6. Leaves(p) /\ ~Finishes(p)' /\ \A id \in Ids : ~Finishing(p, id)'
    BY <2>5, NoSession DEF Finishes, Finishing
  <2>7. QED
    BY <1>1, <2>3, <2>4, <2>6, AgreeCopied DEF Stage, Kept
<1>6. QED
  BY <1>2, <1>3, <1>4, <1>5

\* The top of the send loop: an EOF if and only if all has been sent, and the end only
\* without a transfer.
LEMMA ContinueGoes ==
  ASSUME QueueTypes, LoopTypes, NEW p \in Peers, NEW l \in Slots, NEW off \in 0..Size,
         Continue(p, l, off, queue)
  PROVE  \E a \in {"read", "paused", "eof", "refused", "close"} :
            /\ loop'[p][l].at = a /\ loop'[p][l].id = loop[p][l].id
            /\ \A k \in Slots \ {l} : loop'[p][k] = loop[p][k]
            /\ a = "eof" => /\ status[p] = "transferring" /\ Busy(p)
                            /\ queue' = After(queue, p, Msg("eof", session[p].id, 0))
            /\ a # "eof" => queue' = queue
            /\ a = "close" => ~(status[p] = "transferring" /\ Busy(p))
<1> DEFINE on == status[p] = "transferring"
           at == CASE on /\ off < Size /\ Len(queue[Other(p)]) > HighWater -> "paused"
                   [] on /\ off < Size /\ Len(queue[Other(p)]) <= HighWater -> "read"
                   [] on /\ off = Size /\ Busy(p) -> IF open THEN "eof" ELSE "refused"
                   [] OTHER -> "close"
<1>1. /\ loop' = [loop EXCEPT ![p][l].at = at, ![p][l].off = off]
      /\ queue' = IF at = "eof" THEN After(queue, p, Msg("eof", session[p].id, 0)) ELSE queue
  BY DEF Continue
<1>2. PICK a : a = at
  OBVIOUS
<1>3. Len(queue[Other(p)]) \in Nat /\ Size \in Nat /\ HighWater \in Nat
  BY OtherPeer, LenProperties, TransferAssumption DEF QueueTypes
<1>4. /\ a \in {"read", "paused", "eof", "refused", "close"}
      /\ a = "eof" => on /\ Busy(p)
      /\ a = "close" => ~(on /\ Busy(p))
  <2>1. CASE on /\ off < Size /\ Len(queue[Other(p)]) > HighWater
    <3>1. ~(on /\ off < Size /\ Len(queue[Other(p)]) <= HighWater) /\ off # Size
      BY <1>3, <2>1
    <3>2. at = "paused"
      BY <2>1, <3>1
    <3>3. QED
      BY <1>2, <3>2
  <2>2. CASE on /\ off < Size /\ Len(queue[Other(p)]) <= HighWater
    <3>1. ~(on /\ off < Size /\ Len(queue[Other(p)]) > HighWater) /\ off # Size
      BY <1>3, <2>2
    <3>2. at = "read"
      BY <2>2, <3>1
    <3>3. QED
      BY <1>2, <3>2
  <2>3. CASE on /\ off = Size /\ Busy(p)
    <3>1. ~(off < Size)
      BY <1>3, <2>3
    <3>2. at = IF open THEN "eof" ELSE "refused"
      BY <2>3, <3>1
    <3>3. QED
      BY <1>2, <2>3, <3>2
  <2>4. CASE /\ ~(on /\ off < Size /\ Len(queue[Other(p)]) > HighWater)
             /\ ~(on /\ off < Size /\ Len(queue[Other(p)]) <= HighWater)
             /\ ~(on /\ off = Size /\ Busy(p))
    <3>1. at = "close"
      BY <2>4
    <3>2. off < Size \/ off = Size
      BY <1>3
    <3>3. Len(queue[Other(p)]) > HighWater \/ Len(queue[Other(p)]) <= HighWater
      BY <1>3
    <3>4. ~(on /\ Busy(p))
      BY <2>4, <3>2, <3>3
    <3>5. QED
      BY <1>2, <3>1, <3>4
  <2>5. QED
    BY <2>1, <2>2, <2>3, <2>4
<1>5. /\ loop' = [loop EXCEPT ![p][l].at = a, ![p][l].off = off]
      /\ queue' = IF a = "eof" THEN After(queue, p, Msg("eof", session[p].id, 0)) ELSE queue
  BY <1>1, <1>2
<1> HIDE DEF at
<1>6. /\ loop'[p][l].at = a /\ loop'[p][l].id = loop[p][l].id
      /\ \A k \in Slots \ {l} : loop'[p][k] = loop[p][k]
  <2>1. Moves(p, l, a)
    BY <1>5, LoopGone
  <2>2. QED
    BY <2>1 DEF Moves
<1>7. QED
  BY <1>4, <1>5, <1>6

\* A loop that runs moves on, and at most a chunk of it is sent.
LEMMA LoopGoes ==
  ASSUME NEW p \in Peers, NEW o \in Peers, Stage(p, o), NEW l \in Slots,
         loop[p][l].at \notin {"none", "close"}, loop'[p][l].id = loop[p][l].id,
         loop'[p][l].at \notin {"none", "eof"}, \A k \in Slots \ {l} : loop'[p][k] = loop[p][k],
         loop'[p][l].at = "close" => ~(status[p] = "transferring" /\ Busy(p)),
         KeepsSession(p), KeepsFinal(p), status'[p] = status[p],
         \/ UNCHANGED queue
         \/ \E k \in 1..Size : queue' = After(queue, p, Msg("chunk", loop[p][l].id, k))
  PROVE  Kept(p, o)
<1>0. LoopTypes /\ QueueTypes /\ OffersFirst /\ open /\ o = Other(p)
  BY DEF Stage, Types
<1>1. /\ \A id \in Ids : (LoopOf(p, id)' <=> LoopOf(p, id)) /\ (Closes(p, id) => Closes(p, id)')
      /\ loop'[p][l].at # "close" => Going(p)'
      /\ \A id \in Ids : AtEof(p, id)' => AtEof(p, id)
      /\ LoopOf(p, loop[p][l].id) /\ loop[p][l].id \in Ids
  BY <1>0, MoveLoop
<1>2. \A id \in Ids : Sends(p, id) /\ status[p] = "transferring" => Going(p)'
  BY <1>1 DEF Sends, Matches
<1>3. PICK i \in Ids : i = loop[p][l].id /\ LoopOf(p, i)
  BY <1>1
<1>4. OffersFirst' /\ KeepsMail(p) /\ (KeepsMail(o) \/ AddsMail(o, "chunk", i))
  <2>1. CASE UNCHANGED queue
    BY <1>0, <2>1, SameMail
  <2>2. ASSUME NEW k \in 1..Size, queue' = After(queue, p, Msg("chunk", i, k))
        PROVE  OffersFirst' /\ KeepsMail(p) /\ AddsMail(o, "chunk", i)
    <3>1. "chunk" \in Kinds /\ k \in 0..Size /\ k # 0
      BY TransferAssumption DEF Kinds
    <3>2. QED
      BY <1>0, <2>2, <3>1, PostedMail
  <2>3. QED
    BY <1>3, <2>1, <2>2
<1>5. KeepsMail(o) \/ \E id \in Ids : LoopOf(p, id) /\ AddsMail(o, "chunk", id)
  BY <1>3, <1>4
<1>6. QED
  BY <1>1, <1>2, <1>4, <1>5, AgreeLoop DEF Stage, Kept

LEMMA ContinueKept ==
  ASSUME NEW p \in Peers, NEW o \in Peers, Stage(p, o), NEW l \in Slots,
         loop[p][l].at \notin {"none", "close"}, NEW off \in 0..Size,
         Continue(p, l, off, queue), KeepsSession(p), KeepsFinal(p), status'[p] = status[p]
  PROVE  Kept(p, o)
<1>0. /\ LoopTypes /\ QueueTypes /\ SessionTypes /\ OffersFirst /\ open /\ o = Other(p)
      /\ TransferringSends /\ ~disposed[p] /\ 0 \in 0..Size
  BY TransferAssumption DEF Stage, Types
<1>1. PICK a \in {"read", "paused", "eof", "refused", "close"} :
            /\ loop'[p][l].at = a /\ loop'[p][l].id = loop[p][l].id
            /\ \A k \in Slots \ {l} : loop'[p][k] = loop[p][k]
            /\ a = "eof" => /\ status[p] = "transferring" /\ Busy(p)
                            /\ queue' = After(queue, p, Msg("eof", session[p].id, 0))
            /\ a # "eof" => queue' = queue
            /\ a = "close" => ~(status[p] = "transferring" /\ Busy(p))
  BY <1>0, ContinueGoes
<1>2. /\ loop'[p][l].at = a /\ loop'[p][l].id = loop[p][l].id
      /\ \A k \in Slots \ {l} : loop'[p][k] = loop[p][k]
  BY <1>1
<1>3. CASE a # "eof"
  BY <1>1, <1>2, <1>3, LoopGoes
<1>4. CASE a = "eof"
  <2>1. /\ \A id \in Ids : /\ LoopOf(p, id)' <=> LoopOf(p, id)
                           /\ Closes(p, id) => Closes(p, id)'
        /\ Going(p)'
    BY <1>0, <1>2, <1>4, MoveLoop
  <2>2. /\ status[p] = "transferring" /\ Busy(p) /\ session[p].sender
        /\ queue' = After(queue, p, Msg("eof", session[p].id, 0))
    BY <1>0, <1>1, <1>4 DEF TransferringSends
  <2>3. PICK i \in Ids : /\ session[p].id = i
                         /\ \A id \in Ids : Sends(p, id) \/ Takes(p, id) => id = i
                         /\ Sends(p, i) <=> session[p].sender
    BY <1>0, <2>2, BusyWith
  <2>4. OffersFirst' /\ KeepsMail(p) /\ AddsMail(o, "eof", i)
    <3>1. "eof" \in Kinds
      BY DEF Kinds
    <3>2. QED
      BY <1>0, <2>2, <2>3, <3>1, PostedMail
  <2>5. QED
    BY <2>1, <2>2, <2>3, <2>4, AgreeEof DEF Stage, Kept
<1>5. QED
  BY <1>3, <1>4

LEMMA LoopsKept ==
  ASSUME NEW p \in Peers, NEW o \in Peers, Stage(p, o), NEW l \in Slots, LoopStep(p, l)
  PROVE  Kept(p, o)
<1>0. /\ LoopTypes /\ QueueTypes /\ SessionTypes /\ OffersFirst /\ open /\ ~disposed[p]
      /\ excused' = {}
  BY DEF Stage, Types
<1>1. CASE Opened(p, l)
  <2>1. loop[p][l].at = "open" /\ UNCHANGED <<session, status, final>>
    BY <1>1 DEF Opened
  <2>2. KeepsSession(p) /\ KeepsFinal(p) /\ status'[p] = status[p]
    BY <2>1, SameSession, SameFinal
  <2>3. CASE Busy(p)
    <3>1. Continue(p, l, 0, queue) /\ 0 \in 0..Size
      BY <1>1, <2>3, TransferAssumption DEF Opened
    <3>2. QED
      BY <2>1, <2>2, <3>1, ContinueKept
  <2>4. CASE ~Busy(p)
    <3>1. loop' = [loop EXCEPT ![p][l].at = "close"] /\ UNCHANGED queue
      BY <1>1, <2>4 DEF Opened
    <3>2. LoopTypes /\ loop' = [loop EXCEPT ![p][l].at = "close"]
      BY <1>0, <3>1
    <3>3. /\ loop'[p][l].at = "close" /\ loop'[p][l].id = loop[p][l].id
          /\ \A k \in Slots \ {l} : loop'[p][k] = loop[p][k]
      BY <3>2, LoopMoved DEF Moves
    <3>4. QED
      BY <2>1, <2>2, <2>4, <3>1, <3>3, LoopGoes
  <2>5. QED
    BY <2>3, <2>4
<1>2. CASE Low(p, l)
  <2>1. /\ loop[p][l].at = "paused" /\ UNCHANGED <<session, status, final, queue>>
        /\ loop' = [loop EXCEPT ![p][l].at = "read"]
    BY <1>2 DEF Low
  <2>2. KeepsSession(p) /\ KeepsFinal(p) /\ status'[p] = status[p]
    BY <2>1, SameSession, SameFinal
  <2>3. /\ loop'[p][l].at = "read" /\ loop'[p][l].id = loop[p][l].id
        /\ \A k \in Slots \ {l} : loop'[p][k] = loop[p][k]
    <3>1. Moves(p, l, "read")
      BY <1>0, <2>1, LoopMoved
    <3>2. QED
      BY <3>1 DEF Moves
  <2>4. QED
    BY <2>1, <2>2, <2>3, LoopGoes
<1>3. CASE Read(p, l)
  <2>1. /\ loop[p][l].at = "read" /\ UNCHANGED <<session, status, final>>
        /\ loop' = [loop EXCEPT ![p][l].at = "sent"]
        /\ queue' = After(queue, p, Msg("chunk", loop[p][l].id, loop[p][l].off + 1))
    BY <1>0, <1>3 DEF Read, Post
  <2>2. KeepsSession(p) /\ KeepsFinal(p) /\ status'[p] = status[p]
    BY <2>1, SameSession, SameFinal
  <2>3. /\ loop'[p][l].at = "sent" /\ loop'[p][l].id = loop[p][l].id
        /\ \A k \in Slots \ {l} : loop'[p][k] = loop[p][k]
    <3>1. Moves(p, l, "sent")
      BY <1>0, <2>1, LoopMoved
    <3>2. QED
      BY <3>1 DEF Moves
  <2>4. loop[p][l].off + 1 \in 1..Size
    <3>1. loop[p][l].off \in 0..Size /\ loop[p][l].off < Size
      BY <1>0, <2>1 DEF LoopTypes, LoopRecord
    <3>2. QED
      BY <3>1, TransferAssumption
  <2>5. QED
    BY <2>1, <2>2, <2>3, <2>4, LoopGoes
<1>4. CASE Sent(p, l)
  <2>1. /\ loop[p][l].at = "sent" /\ UNCHANGED <<session, status, final>>
        /\ Continue(p, l, loop[p][l].off + 1, queue)
    BY <1>4 DEF Sent
  <2>2. KeepsSession(p) /\ KeepsFinal(p) /\ status'[p] = status[p]
    BY <2>1, SameSession, SameFinal
  <2>3. loop[p][l].off + 1 \in 0..Size
    <3>1. loop[p][l].off \in 0..Size /\ loop[p][l].off < Size
      BY <1>0, <2>1 DEF LoopTypes, LoopRecord
    <3>2. QED
      BY <3>1, TransferAssumption
  <2>4. QED
    BY <2>1, <2>2, <2>3, ContinueKept
<1>5. CASE Refused(p, l)
  <2>1. /\ loop[p][l].at = "refused" /\ CancelTransfer(p) /\ UNCHANGED final
        /\ loop' = [loop EXCEPT ![p][l].at = "close"]
    BY <1>5 DEF Refused
  <2>2. /\ loop'[p][l].at = "close" /\ loop'[p][l].id = loop[p][l].id
        /\ \A k \in Slots \ {l} : loop'[p][k] = loop[p][k]
    <3>1. Moves(p, l, "close")
      BY <1>0, <2>1, LoopMoved
    <3>2. QED
      BY <3>1 DEF Moves
  <2>3. \A id \in Ids : LoopOf(p, id)' <=> LoopOf(p, id)
    BY <1>0, <2>1, <2>2, MoveLoop
  <2>4. QED
    BY <2>1, <2>3, CancelKept
<1>6. CASE EofSent(p, l)
  <2>1. /\ loop[p][l].at = "eof" /\ Show(p, "completed") /\ UNCHANGED <<session, queue, final>>
        /\ loop' = [loop EXCEPT ![p][l].at = "close"]
        /\ Busy(p) => Matches(p, loop[p][l].id)
    BY <1>0, <1>6 DEF EofSent
  <2>2. /\ loop'[p][l].at = "close" /\ loop'[p][l].id = loop[p][l].id
        /\ \A k \in Slots \ {l} : loop'[p][k] = loop[p][k]
    <3>1. Moves(p, l, "close")
      BY <1>0, <2>1, LoopMoved
    <3>2. QED
      BY <3>1 DEF Moves
  <2>3. /\ \A id \in Ids : (LoopOf(p, id)' <=> LoopOf(p, id)) /\ (Closes(p, id) => Closes(p, id)')
        /\ \A id \in Ids : AtEof(p, id)' => AtEof(p, id)
        /\ Closes(p, loop[p][l].id)' /\ loop[p][l].id \in Ids
    BY <1>0, <2>1, <2>2, MoveLoop
  <2>4. \A id \in Ids : Sends(p, id) \/ Takes(p, id) => id = loop[p][l].id
    BY <2>1 DEF Sends, Takes, Matches
  <2>5. PICK i \in Ids : i = loop[p][l].id /\ i = loop'[p][l].id
    BY <2>2, <2>3
  <2>6. AtEof(p, i) /\ Closes(p, i)'
    BY <2>1, <2>2, <2>5 DEF AtEof, Closes
  <2>7. \A id \in Ids : Sends(p, id) \/ Takes(p, id) => AtEof(p, id) /\ Closes(p, id)'
    BY <2>4, <2>5, <2>6
  <2>8. status'[p] = "completed"
    BY <1>0, <2>1, ShowStatus DEF Statuses
  <2>9. OffersFirst' /\ KeepsMail(p) /\ KeepsMail(o) /\ KeepsSession(p) /\ KeepsFinal(p)
    BY <1>0, <2>1, SameMail, SameSession, SameFinal
  <2>10. QED
    BY <2>3, <2>7, <2>8, <2>9, AgreeEofSent DEF Stage, Kept
<1>7. CASE FileClosed(p, l)
  <2>1. /\ loop[p][l].at = "close" /\ UNCHANGED <<status, queue, final>>
        /\ loop' = [loop EXCEPT ![p][l] = NoLoop]
    BY <1>7 DEF FileClosed
  <2>2. loop'[p][l].at = "none" /\ \A k \in Slots : k = l \/ loop'[p][k] = loop[p][k]
    <3>1. Puts(p, l, NoLoop)
      BY <1>0, <2>1, LoopPut
    <3>2. QED
      BY <3>1 DEF Puts, NoLoop
  <2>3. /\ \A id \in Ids : (LoopOf(p, id)' => LoopOf(p, id)) /\ (AtEof(p, id)' => AtEof(p, id))
        /\ Going(p)' <=> Going(p)
    BY <2>1, <2>2 DEF LoopOf, AtEof, Going
  <2>4. OffersFirst' /\ KeepsMail(p) /\ KeepsMail(o) /\ KeepsFinal(p) /\ status'[p] = status[p]
    BY <1>0, <2>1, SameMail, SameFinal
  <2>5. CASE status[p] = "completed"
    <3>1. session' = [session EXCEPT ![p] = None]
      BY <1>7, <2>5 DEF FileClosed
    <3>2. session'[p] = None
      BY <1>0, <3>1 DEF SessionTypes
    <3>3. Leaves(p)
      BY <3>2, NoSession
    <3>4. QED
      BY <2>3, <2>4, <2>5, <3>3, AgreeCompleted DEF Stage, Kept
  <2>6. CASE status[p] # "completed"
    <3>1. UNCHANGED session
      BY <1>7, <2>6 DEF FileClosed
    <3>2. KeepsSession(p)
      BY <3>1, SameSession
    <3>3. QED
      BY <2>3, <2>4, <2>6, <3>2, AgreeClosed DEF Stage, Kept
  <2>7. QED
    BY <2>5, <2>6
<1>8. QED
  BY <1>1, <1>2, <1>3, <1>4, <1>5, <1>6, <1>7 DEF LoopStep

\* A message is handled: what is on its way afterwards.
LEMMA MessageKept ==
  ASSUME NEW p \in Peers, NEW o \in Peers, Stage(p, o), queue[p] # <<>>, NEW i, NEW t,
         Head(queue[p]).id = i, Head(queue[p]).type = t
  PROVE  /\ t \in Kinds /\ i \in Ids
         /\ queue' = Rest(p) => OffersFirst' /\ KeepsMail(o) /\ TakesMail(p, t, i)
         /\ \A a \in {"reject", "cancel"}, j \in Ids : queue' = After(Rest(p), p, Msg(a, j, 0)) =>
               OffersFirst' /\ AddsMail(o, a, j) /\ TakesMail(p, t, i)
<1>0. QueueTypes /\ OffersFirst /\ open /\ o = Other(p)
  BY DEF Stage, Types
<1>1. t \in Kinds /\ i \in Ids
  <2>1. Head(queue[p]) \in GoodMessage
    BY <1>0, RestTypes
  <2>2. QED
    BY <2>1 DEF GoodMessage, Message, Kinds
<1>2. ASSUME queue' = Rest(p)
      PROVE  OffersFirst' /\ KeepsMail(o) /\ TakesMail(p, t, i)
  BY <1>0, <1>2, RestMail
<1>3. ASSUME NEW a \in {"reject", "cancel"}, NEW j \in Ids, queue' = After(Rest(p), p, Msg(a, j, 0))
      PROVE  OffersFirst' /\ AddsMail(o, a, j) /\ TakesMail(p, t, i)
  BY <1>0, <1>3, AnsweredMail
<1>4. QED
  BY <1>1, <1>2, <1>3

LEMMA MetadataKept ==
  ASSUME NEW p \in Peers, NEW o \in Peers, Stage(p, o), queue[p] # <<>>, NEW i \in Ids,
         Head(queue[p]).id = i, Head(queue[p]).type = "metadata", HandleMetadata(p, i)
  PROVE  Kept(p, o)
<1>0. SessionTypes /\ ~disposed[p] /\ UNCHANGED <<loop, final>>
  BY DEF Stage, Types, HandleMetadata
<1>1. KeepsLoops(p) /\ KeepsFinal(p)
  BY <1>0, SameLoops, SameFinal
<1>2. CASE queue' = After(Rest(p), p, Msg("reject", i, 0)) /\ UNCHANGED <<session, status>>
  <2>1. OffersFirst' /\ AddsMail(o, "reject", i) /\ TakesMail(p, "metadata", i)
    BY <1>2, MessageKept
  <2>2. Rests(p)
    BY <1>1, <1>2, SameSession DEF Rests
  <2>3. QED
    BY <2>1, <2>2, AgreeRefused DEF Stage, Kept
<1>3. CASE /\ session' = [session EXCEPT ![p] = NewSession(i, FALSE)] /\ Show(p, "offered")
           /\ \/ /\ Busy(p) /\ session[p].sender
                 /\ queue' = After(Rest(p), p, Msg("cancel", session[p].id, 0))
              \/ ~Busy(p) /\ queue' = Rest(p)
  <2>1. session'[p] = NewSession(i, FALSE)
    BY <1>0, <1>3 DEF SessionTypes
  <2>2. \A id \in Ids : /\ Takes(p, id)' <=> id = i
                        /\ ~Sends(p, id)' /\ ~Sinks(p, id)' /\ ~Temps(p, id)'
    BY <2>1, BeginSession
  <2>3. status'[p] = "offered"
    BY <1>0, <1>3, ShowStatus DEF Statuses
  <2>4. CASE ~Busy(p)
    <3>1. OffersFirst' /\ KeepsMail(o) /\ TakesMail(p, "metadata", i)
      BY <1>3, <2>4, MessageKept
    <3>2. \A id \in Ids : ~Sends(p, id) /\ ~Takes(p, id)
      BY <2>4, Bare
    <3>3. QED
      BY <1>1, <2>2, <2>3, <3>1, <3>2, AgreeTaken DEF Stage, Kept
  <2>5. CASE Busy(p)
    <3>1. PICK j \in Ids : /\ session[p].id = j
                           /\ \A id \in Ids : Sends(p, id) \/ Takes(p, id) => id = j
                           /\ Sends(p, j) <=> session[p].sender
      BY <1>0, <2>5, BusyWith
    <3>2. Sends(p, j) /\ queue' = After(Rest(p), p, Msg("cancel", j, 0))
      BY <1>3, <2>5, <3>1
    <3>3. OffersFirst' /\ AddsMail(o, "cancel", j) /\ TakesMail(p, "metadata", i)
      BY <3>2, MessageKept
    <3>4. QED
      BY <1>1, <2>2, <2>3, <3>1, <3>2, <3>3, AgreeYields DEF Stage, Kept
  <2>6. QED
    BY <2>4, <2>5
<1>4. QED
  BY <1>2, <1>3 DEF HandleMetadata

LEMMA AcceptKept ==
  ASSUME NEW p \in Peers, NEW o \in Peers, Stage(p, o), queue[p] # <<>>, NEW i \in Ids,
         Head(queue[p]).id = i, Head(queue[p]).type = "accept", HandleAccept(p, i)
  PROVE  Kept(p, o)
<1>0. /\ SessionTypes /\ LoopTypes /\ ~disposed[p] /\ UNCHANGED final /\ queue' = Rest(p)
  BY DEF Stage, Types, HandleAccept
<1>1. OffersFirst' /\ KeepsMail(o) /\ TakesMail(p, "accept", i) /\ "accept" \in Kinds
  BY <1>0, MessageKept
<1>2. KeepsFinal(p)
  BY <1>0, SameFinal
<1>3. CASE Matches(p, i) /\ session[p].sender
  <2>1. /\ session' = [session EXCEPT ![p].acceptTimer = FALSE, ![p].inactivityTimer = TRUE]
        /\ Show(p, "transferring")
    BY <1>3 DEF HandleAccept
  <2>2. Busy(p) /\ session[p].id = i /\ session[p] \in Session
        /\ session \in [Peers -> Session \cup {None}]
    BY <1>0, <1>3, SessionFields DEF Matches, SessionTypes
  <2>3. session'[p] = [session[p] EXCEPT !.acceptTimer = FALSE, !.inactivityTimer = TRUE]
    BY <2>1, <2>2
  <2>4. /\ session'[p] \in Session /\ session'[p].id = session[p].id
        /\ session'[p].sender = session[p].sender /\ session'[p].sink = session[p].sink
        /\ session'[p].temp = session[p].temp
    BY <2>2, <2>3 DEF Session
  <2>5. Busy(p)'
    BY <2>4, NoneFields DEF Busy
  <2>6. KeepsSession(p)
    BY <2>2, <2>4, <2>5, KeepSession
  <2>7. status'[p] = "transferring"
    BY <1>0, <2>1, ShowStatus DEF Statuses
  <2>8. PICK l \in Slots :
           /\ loop[p][l] = NoLoop
           /\ loop' = [loop EXCEPT ![p][l] = [at |-> "open", id |-> i, off |-> 0]]
    BY <1>3 DEF HandleAccept
  <2>9. /\ loop[p][l].at = "none" /\ loop'[p][l].at = "open" /\ loop'[p][l].id = i
        /\ \A k \in Slots : k = l \/ loop'[p][k] = loop[p][k]
    <3>1. PICK r : r = [at |-> "open", id |-> i, off |-> 0]
      OBVIOUS
    <3>2. LoopTypes /\ loop' = [loop EXCEPT ![p][l] = r]
      BY <1>0, <2>8, <3>1
    <3>3. Puts(p, l, r)
      BY <3>2, LoopPut
    <3>4. QED
      BY <2>8, <3>1, <3>3 DEF Puts, NoLoop
  <2>10. /\ Going(p)'
         /\ \A id \in Ids : LoopOf(p, id)' <=> LoopOf(p, id) \/ id = i
         /\ \A id \in Ids : AtEof(p, id)' => AtEof(p, id)
    BY <2>9 DEF Going, LoopOf, AtEof
  <2>11. \A id \in Ids : Sends(p, id) \/ Takes(p, id) => id = i
    BY <1>3 DEF Sends, Takes, Matches
  <2>12. Sends(p, i)
    BY <1>3 DEF Sends
  <2>13. QED
    BY <1>1, <1>2, <2>6, <2>7, <2>10, <2>11, <2>12, AgreeStarts DEF Stage, Kept
<1>4. CASE ~(Matches(p, i) /\ session[p].sender)
  <2>1. UNCHANGED <<session, status, loop>>
    BY <1>4 DEF HandleAccept
  <2>2. Rests(p)
    BY <1>2, <2>1, SameSession, SameLoops DEF Rests
  <2>3. ~Sends(p, i)
    BY <1>4 DEF Sends
  <2>4. "accept" \in Kinds \ {"metadata"}
    BY DEF Kinds
  <2>5. QED
    BY <1>1, <2>2, <2>3, <2>4, AgreeIgnored DEF Stage, Kept
<1>5. QED
  BY <1>3, <1>4

LEMMA EndedKept ==
  ASSUME NEW p \in Peers, NEW o \in Peers, Stage(p, o), queue[p] # <<>>, NEW i \in Ids,
         NEW t \in {"reject", "cancel"}, Head(queue[p]).id = i, Head(queue[p]).type = t,
         HandleEnd(p, i)
  PROVE  Kept(p, o)
<1>0. SessionTypes /\ UNCHANGED <<loop, final>> /\ queue' = Rest(p)
  BY DEF Stage, Types, HandleEnd
<1>1. OffersFirst' /\ KeepsMail(o) /\ TakesMail(p, t, i)
  BY <1>0, MessageKept
<1>2. KeepsLoops(p) /\ KeepsFinal(p)
  BY <1>0, SameLoops, SameFinal
<1>3. CASE Matches(p, i)
  <2>1. EndSession(p, "error")
    BY <1>3 DEF HandleEnd
  <2>2. Leaves(p)
    BY <1>0, <2>1, EndedSession, NoSession DEF Statuses
  <2>3. \A id \in Ids : Sends(p, id) \/ Takes(p, id) => id = i
    BY <1>3 DEF Sends, Takes, Matches
  <2>4. Sends(p, i) \/ Takes(p, i)
    BY <1>3 DEF Sends, Takes
  <2>5. QED
    BY <1>1, <1>2, <2>2, <2>3, <2>4, AgreeEnded DEF Stage, Kept
<1>4. CASE ~Matches(p, i)
  <2>1. UNCHANGED <<session, status>>
    BY <1>4 DEF HandleEnd
  <2>2. Rests(p)
    BY <1>2, <2>1, SameSession DEF Rests
  <2>3. ~Sends(p, i) /\ ~Takes(p, i)
    BY <1>4 DEF Sends, Takes
  <2>4. t \in Kinds \ {"metadata"} /\ t # "accept" /\ t # "eof"
    BY DEF Kinds
  <2>5. QED
    BY <1>1, <2>2, <2>3, <2>4, AgreeIgnored DEF Stage, Kept
<1>5. QED
  BY <1>3, <1>4

LEMMA EofKept ==
  ASSUME NEW p \in Peers, NEW o \in Peers, Stage(p, o), queue[p] # <<>>, NEW i \in Ids,
         Head(queue[p]).id = i, Head(queue[p]).type = "eof", HandleEof(p, i)
  PROVE  Kept(p, o)
<1>0. /\ SessionTypes /\ final \in [Peers -> FinalRecord] /\ UNCHANGED loop /\ queue' = Rest(p)
      /\ ~disposed[p]
  BY DEF Stage, Types, FinalTypes, HandleEof
<1>1. OffersFirst' /\ KeepsMail(o) /\ TakesMail(p, "eof", i)
  BY <1>0, MessageKept
<1>2. KeepsLoops(p)
  BY <1>0, SameLoops
<1>3. CASE Matches(p, i) /\ session[p].sink
  <2>1. Sinks(p, i) /\ (Sends(p, i) \/ Takes(p, i))
        /\ \A id \in Ids : Sends(p, id) \/ Takes(p, id) => id = i
    BY <1>3 DEF Sinks, Sends, Takes, Matches
  <2>2. CASE Closing(p)
    <3>1. EndSession(p, "error") /\ UNCHANGED final
      BY <1>3, <2>2 DEF HandleEof
    <3>2. Leaves(p)
      BY <1>0, <3>1, EndedSession, NoSession DEF Statuses
    <3>3. KeepsFinal(p)
      BY <3>1, SameFinal
    <3>4. QED
      BY <1>1, <1>2, <2>1, <3>2, <3>3, AgreeEnded DEF Stage, Kept
  <2>3. CASE ~Closing(p)
    <3>1. /\ final' = [final EXCEPT ![p] = [NoFinal EXCEPT !.at = "flush", !.id = i]]
          /\ UNCHANGED <<session, status>>
      BY <1>3, <2>3 DEF HandleEof
    <3>2. final'[p] = [NoFinal EXCEPT !.at = "flush", !.id = i]
      BY <1>0, <3>1
    <3>3. final'[p].at = "flush" /\ final'[p].id = i
      BY <3>2 DEF NoFinal
    <3>4. Finishes(p)' /\ \A id \in Ids : Finishing(p, id)' <=> id = i
      BY <3>3 DEF Finishes, Finishing
    <3>5. KeepsSession(p) /\ status'[p] = status[p]
      BY <3>1, SameSession
    <3>6. QED
      BY <1>1, <1>2, <2>1, <3>4, <3>5, AgreeFlush DEF Stage, Kept
  <2>4. QED
    BY <2>2, <2>3
<1>4. CASE ~(Matches(p, i) /\ session[p].sink)
  <2>1. UNCHANGED <<session, status, final>>
    BY <1>4 DEF HandleEof
  <2>2. Rests(p)
    BY <1>2, <2>1, SameSession, SameFinal DEF Rests
  <2>3. ~Sinks(p, i)
    BY <1>4 DEF Sinks
  <2>4. "eof" \in Kinds \ {"metadata"}
    BY DEF Kinds
  <2>5. QED
    BY <1>1, <2>2, <2>3, <2>4, AgreeIgnored DEF Stage, Kept
<1>5. QED
  BY <1>3, <1>4

LEMMA ChunkKept ==
  ASSUME NEW p \in Peers, NEW o \in Peers, Stage(p, o), queue[p] # <<>>, NEW m \in GoodMessage,
         Head(queue[p]) = m, m.type = "chunk", HandleChunk(p, m), UNCHANGED disposed
  PROVE  Kept(p, o)
<1>0. SessionTypes /\ QueueTypes /\ UNCHANGED <<loop, final>>
  BY DEF Stage, Types, HandleChunk
<1>1. PICK i \in Ids : i = m.id
  BY DEF GoodMessage, Message
<1>2. KeepsLoops(p) /\ KeepsFinal(p)
  BY <1>0, SameLoops, SameFinal
<1>3. CASE queue' = Rest(p) /\ KeepsSession(p) /\ status'[p] = status[p]
  <2>1. OffersFirst' /\ KeepsMail(o) /\ TakesMail(p, "chunk", i)
    BY <1>1, <1>3, MessageKept
  <2>2. Rests(p)
    BY <1>2, <1>3 DEF Rests
  <2>3. "chunk" \in Kinds \ {"metadata"}
    BY DEF Kinds
  <2>4. QED
    BY <2>1, <2>2, <2>3, AgreeIgnored DEF Stage, Kept
<1>4. CASE /\ EndSession(p, "error") /\ Busy(p)
           /\ queue' = After(Rest(p), p, Msg("cancel", session[p].id, 0))
  <2>1. PICK j \in Ids : /\ session[p].id = j
                         /\ \A id \in Ids : Sends(p, id) \/ Takes(p, id) => id = j
                         /\ Sends(p, j) <=> session[p].sender
                         /\ Takes(p, j) <=> ~session[p].sender
    BY <1>0, <1>4, BusyWith
  <2>2. OffersFirst' /\ AddsMail(o, "cancel", j) /\ TakesMail(p, "chunk", i)
    BY <1>1, <1>4, <2>1, MessageKept
  <2>3. KeepsTalk(p)
    BY <2>2 DEF KeepsTalk, TakesMail
  <2>4. Leaves(p)
    BY <1>0, <1>4, EndedSession, NoSession DEF Statuses
  <2>5. Sends(p, j) \/ Takes(p, j)
    BY <2>1
  <2>6. \A id \in Ids : (LoopOf(p, id)' => LoopOf(p, id)) /\ (Finishing(p, id)' => Finishing(p, id))
    BY <1>2 DEF KeepsLoops, KeepsFinal
  <2>7. QED
    BY <2>1, <2>2, <2>3, <2>4, <2>5, <2>6, AgreeToldEnd DEF Stage, Kept
<1>5. CASE /\ session[p].sink /\ session'[p] \in Session /\ UNCHANGED status
           /\ session'[p].id = session[p].id /\ session'[p].sender = session[p].sender
           /\ session'[p].sink = session[p].sink /\ session'[p].temp = session[p].temp
           /\ queue' = Rest(p)
  <2>1. Busy(p) /\ Busy(p)'
    BY <1>0, <1>5, SessionFields, NoneFields DEF Busy
  <2>2. KeepsSession(p)
    BY <1>5, <2>1, KeepSession
  <2>3. QED
    BY <1>3, <1>5, <2>2
<1>6. CASE UNCHANGED <<session, status>> /\ queue' = Rest(p)
  BY <1>3, <1>6, SameSession
<1>7. QED
  BY <1>0, <1>4, <1>5, <1>6, ChunkTypes

LEMMA ReceiveKept ==
  ASSUME NEW p \in Peers, NEW o \in Peers, Stage(p, o), Receive(p)
  PROVE  Kept(p, o)
<1>1. QueueTypes /\ ~disposed[p]
  BY DEF Stage, Types
<1>2. PICK m : m = Head(queue[p])
  OBVIOUS
<1>3. queue[p] # <<>> /\ m \in GoodMessage /\ m.id \in Ids /\ Handled(p, m) /\ UNCHANGED disposed
  BY <1>1, <1>2, ReceiveHandles
<1>4. CASE m.type = "metadata" /\ HandleMetadata(p, m.id)
  BY <1>2, <1>3, <1>4, MetadataKept
<1>5. CASE m.type = "accept" /\ HandleAccept(p, m.id)
  BY <1>2, <1>3, <1>5, AcceptKept
<1>6. CASE m.type \in {"reject", "cancel"} /\ HandleEnd(p, m.id)
  BY <1>2, <1>3, <1>6, EndedKept
<1>7. CASE m.type = "eof" /\ HandleEof(p, m.id)
  BY <1>2, <1>3, <1>7, EofKept
<1>8. CASE m.type = "chunk" /\ HandleChunk(p, m)
  BY <1>2, <1>3, <1>8, ChunkKept
<1>9. QED
  BY <1>1, <1>3, <1>4, <1>5, <1>6, <1>7, <1>8 DEF Handled

-----------------------------------------------------------------------------
(* The invariant.                                                          *)

AgreeInv == Clean => NoneGone /\ OffersFirst /\ \A p \in Peers : Agree(p, Other(p))

LEMMA ActionKept ==
  ASSUME SameMillisecond = FALSE, Agreed, Clean', NEW p \in Peers, NEW o \in Peers, o = Other(p),
         PeerActs(p)
  PROVE  NoneGone' /\ Kept(p, o)
<1>1. /\ Stage(p, o) /\ NoneGone' /\ ~Dispose(p) /\ ~ChannelEvent(p)
      /\ \A id \in Ids : Hashed(p, id) => Made(p, id)' /\ ~Made(p, id) /\ ~Made(o, id)
  BY StageIsSet
<1>2. CASE \/ SendOffer(p) \/ ClickAccept(p) \/ ClickReject(p) \/ ClickCancel(p)
           \/ OwnTimeout(p) \/ StrayTimeout(p)
  BY <1>1, <1>2, UsersKept
<1>3. ASSUME NEW id \in Ids, Hashed(p, id)
      PROVE  Kept(p, o)
  BY <1>1, <1>3, HashedKept
<1>4. CASE Posted(p)
  BY <1>1, <1>4, PostedKept
<1>5. CASE Accepted(p)
  BY <1>1, <1>5, AcceptedKept
<1>6. CASE Flushed(p) \/ PathFound(p) \/ Copied(p)
  BY <1>1, <1>6, FinalKept
<1>7. CASE Receive(p)
  BY <1>1, <1>7, ReceiveKept
<1>8. ASSUME NEW l \in Slots, LoopStep(p, l)
      PROVE  Kept(p, o)
  BY <1>1, <1>8, LoopsKept
<1>9. QED
  BY <1>1, <1>2, <1>3, <1>4, <1>5, <1>6, <1>7, <1>8 DEF PeerActs, PeerStep

LEMMA AgreeStep ==
  ASSUME SameMillisecond = FALSE, Types, WayInv, AgreeInv, [Next]_vars
  PROVE  AgreeInv'
<1> SUFFICES ASSUME Clean'
             PROVE  NoneGone' /\ OffersFirst' /\ \A p \in Peers : Agree(p, Other(p))'
  BY DEF AgreeInv
<1>1. CASE UNCHANGED vars
  <2>1. /\ UNCHANGED <<session, status, disposed, queue, events, open, hashing, loop, final,
                       drawn, excused>>
    BY <1>1 DEF vars
  <2>2. NoneGone /\ OffersFirst /\ \A p \in Peers : Agree(p, Other(p))
    BY <2>1 DEF Clean, AgreeInv
  <2>3. NoneGone' /\ OffersFirst'
    BY <2>1, <2>2 DEF NoneGone, OffersFirst
  <2>4. ASSUME NEW p \in Peers, NEW o \in Peers, Agree(p, o)
        PROVE  Agree(p, o)'
    BY <2>1, <2>4 DEF Agree, Owned, Unseen, EndsGone, Offered, Offering, Taken, Told, AcceptTold,
                      Files, Shown, EofSaid, Heard, Ends, Has, Sends, Takes, Sinks, Temps, Matches,
                      Busy, Finishes, Finishing, LoopOf, AtEof, Closes, Going, Made
  <2>5. QED
    BY <2>2, <2>3, <2>4, OtherPeer
<1>2. CASE CloseChannel
  BY <1>2 DEF CloseChannel, Clean
<1>3. ASSUME NEW p \in Peers, PeerActs(p)
      PROVE  NoneGone' /\ OffersFirst' /\ \A q \in Peers : Agree(q, Other(q))'
  <2>1. PICK o \in Peers : o = Other(p) /\ o # p /\ Other(o) = p
    BY OtherPeer
  <2>2. \A q \in Peers : q = p \/ q = o
    BY <2>1 DEF Peers, Other
  <2>3. Clean
    <3>1. open' = open
      BY <1>3, <2>1, OthersStay
    <3>2. excused \subseteq excused'
      BY <1>3, ExcusedStay
    <3>3. QED
      BY <3>1, <3>2 DEF Clean
  <2>4. Agreed
    BY <2>3 DEF AgreeInv, WayInv, Agreed
  <2>5. NoneGone' /\ OffersFirst' /\ Agree(p, o)' /\ Agree(o, p)'
    BY <1>3, <2>1, <2>4, ActionKept DEF Kept
  <2>6. ASSUME NEW q \in Peers
        PROVE  Agree(q, Other(q))'
    <3>1. CASE q = p
      BY <2>1, <2>5, <3>1
    <3>2. CASE q = o
      BY <2>1, <2>5, <3>2
    <3>3. QED
      BY <2>2, <3>1, <3>2
  <2>7. QED
    BY <2>5, <2>6
<1>4. QED
  BY <1>1, <1>2, <1>3, SomebodyActs

LEMMA AgreeInit == Init => AgreeInv
<1> SUFFICES ASSUME Init
             PROVE  NoneGone /\ OffersFirst /\ \A p \in Peers : Agree(p, Other(p))
  BY DEF AgreeInv
<1>1. NoneGone
  BY DEF Init, NoneGone
<1>2. Len(<<>>) = 0
  OBVIOUS
<1>3. OffersFirst
  BY <1>2 DEF Init, OffersFirst, OfferFirst
<1>4. ASSUME NEW p \in Peers
      PROVE  /\ \A type, id : ~Has(p, type, id)
             /\ \A id \in Ids : /\ ~Sends(p, id) /\ ~Takes(p, id) /\ ~Sinks(p, id) /\ ~Temps(p, id)
                                /\ ~LoopOf(p, id) /\ ~AtEof(p, id) /\ ~Finishing(p, id)
  <2>1. \A type, id : ~Has(p, type, id)
    BY <1>2 DEF Init, Has, In, Elements
  <2>2. ~Busy(p)
    BY DEF Init, Busy
  <2>3. \A l \in Slots : loop[p][l].at = "none"
    BY DEF Init, NoLoop
  <2>4. final[p].at = "none"
    BY NoFinalFields DEF Init
  <2>5. QED
    BY <2>1, <2>2, <2>3, <2>4 DEF Sends, Takes, Sinks, Temps, Matches, LoopOf, AtEof, Finishing,
                                  Finishes
<1>5. ASSUME NEW p \in Peers
      PROVE  Agree(p, Other(p))
  BY <1>4, OtherPeer DEF Agree, Owned, Unseen, EndsGone, Offered, Offering, Taken, Told,
                         AcceptTold, Files, Shown, EofSaid, Heard, Ends
<1>6. QED
  BY <1>1, <1>3, <1>5

\* When nothing moves, what is left of the invariant is the agreement.
LEMMA AgreeQuiet ==
  ASSUME SessionTypes, NoneGone, NEW p \in Peers, NEW o \in Peers, o = Other(p), Agree(p, o),
         Quiet, Busy(p)
  PROVE  session[o].id = session[p].id /\ session[o].sender # session[p].sender
<1>1. PICK i \in Ids : /\ session[p].id = i
                       /\ Sends(p, i) <=> session[p].sender
                       /\ Takes(p, i) <=> ~session[p].sender
  BY BusyWith
<1>2. \A q \in Peers : \A type, id : ~Has(q, type, id)
  <2>1. \A q \in Peers : queue[q] = <<>>
    BY DEF Quiet
  <2>2. Len(<<>>) = 0
    OBVIOUS
  <2>3. QED
    BY <2>1, <2>2 DEF Has, In, Elements
<1>3. ~Going(p) /\ ~Closes(p, i) /\ ~Finishes(p)
  <2>1. final[p].at = "none" /\ \A l \in Slots : loop[p][l].at = "none"
    BY NoFinalFields DEF Quiet, NoLoop
  <2>2. QED
    BY <2>1 DEF Going, Closes, Finishes
<1>4. CASE Sends(p, i)
  <2>1. status[p] = "offering"
    BY <1>3, <1>4 DEF Agree, Shown
  <2>2. Takes(o, i)
    BY <1>2, <1>4, <2>1 DEF Agree, Offering, Ends
  <2>3. QED
    BY <1>1, <1>4, <2>2 DEF Takes, Matches
<1>5. CASE Takes(p, i)
  <2>1. Sends(o, i)
    BY <1>2, <1>3, <1>5 DEF Agree, Taken, Ends
  <2>2. QED
    BY <1>1, <1>5, <2>1 DEF Sends, Matches
<1>6. QED
  BY <1>1, <1>4, <1>5

\* When all is quiet on an open channel, no two offers carry the same id and nobody is
\* excused, a peer that has a session faces a peer that has the same session in the opposite
\* role: a reject, a cancel and an EOF end both sides (_handleFileMessage), and an offer that
\* gives way takes the other one's place (_handleOffer).
THEOREM SessionsAgreeWhenQuiet ==
  ASSUME SameMillisecond = FALSE
  PROVE  Spec => []SessionsAgree
<1>1. Types /\ WayInv /\ AgreeInv /\ [Next]_vars => Types' /\ WayInv' /\ AgreeInv'
  BY TypesStep, WayStep, AgreeStep
<1>2. Init => Types /\ WayInv /\ AgreeInv
  BY TypesInit, WayInit, AgreeInit
<1>3. Types /\ AgreeInv => SessionsAgree
  <2> SUFFICES ASSUME Types, AgreeInv, Quiet, open, excused = {}, NEW p \in Peers, Busy(p)
               PROVE  /\ session[Other(p)].id = session[p].id
                      /\ session[Other(p)].sender # session[p].sender
    BY DEF SessionsAgree
  <2>1. Other(p) \in Peers
    BY OtherPeer
  <2>2. NoneGone /\ Agree(p, Other(p)) /\ SessionTypes
    BY DEF AgreeInv, Clean, Types
  <2>3. QED
    BY <2>1, <2>2, AgreeQuiet
<1>4. QED
  BY <1>1, <1>2, <1>3, PTL DEF Spec
=============================================================================
