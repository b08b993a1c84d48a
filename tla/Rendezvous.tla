----------------------------- MODULE Rendezvous -----------------------------
(***************************************************************************)
(* The blind-rendezvous service of the signalling server: how a link token *)
(* is published by an initiator, consumed by a responder, how the two      *)
(* mailboxes are linked, and how messages get into them                    *)
(* (services/rendezvous_service.rs over repository/redis_repository.rs).   *)
(*                                                                         *)
(* Every HTTP request is a task of its own and every Redis command is one  *)
(* atomic step, so requests interleave between any two Redis commands.     *)
(* A task can stop at any await: a failed Redis call returns early ("?"),  *)
(* a client that disconnects drops the handler's future, and a server      *)
(* restart drops all of them (Abort).  Redis itself drops a key when its   *)
(* TTL runs out (Tick) or, under "--maxmemory-policy allkeys-lru", at any  *)
(* time (Evict).                                                           *)
(*                                                                         *)
(* recv_messages and verify_mailbox only read and are left out here;       *)
(* the WebSocket push that follows a join or a send is in MailboxDelivery. *)
(***************************************************************************)
EXTENDS Naturals, Sequences, FiniteSets

CONSTANTS
    Requests,       \* tasks of the HTTP server
    Mailboxes,      \* values gen_mailbox_id() can return
    Tokens,         \* rendezvous ids; a client draws a new one for each link
    None,           \* Rust's Option::None
    MailboxTTL,     \* SIGNALING_MAILBOX_TTL_SECS, in ticks
    RendezvousTTL,  \* SIGNALING_RENDEZVOUS_TTL_SECS, in ticks
    MaxTime,        \* bound: the clock stops here
    MaxMsgs,        \* bound: no join or send starts while a list is this long
    MaxFaults       \* bound: tasks that stop early and keys that are evicted

ASSUME NoneAssumption == None \notin Mailboxes /\ None \notin Tokens
ASSUME TTLAssumption == MailboxTTL \in Nat \ {0} /\ RendezvousTTL \in Nat \ {0}
ASSUME BoundAssumption == MaxTime \in Nat /\ MaxMsgs \in Nat /\ MaxFaults \in Nat

VARIABLES
    meta,      \* {prefix}:mailbox_meta:{m}  (MailboxState and the key's TTL)
    msgs,      \* {prefix}:mailbox_msgs:{m}  (a Redis list; empty = no key)
    listDead,  \* when that list's TTL ends; 0 when the list has no TTL
    rdv,       \* {prefix}:rendezvous:{t}    (the mailbox and the key's TTL)
    now,       \* the clock the server and Redis share
    pc,        \* the next Redis command of each task
    loc,       \* the task's local variables
    faults,    \* how many tasks stopped early and how many keys were evicted
    session,   \* history: the token each generated mailbox id was made for
    advert,    \* history: expires_at_epoch_ms in the 200 reply that returned
               \*   the mailbox id; 0 as long as no client knows the id
    deleted,   \* history: mailboxes whose key went before its TTL ended
    leaked     \* history: lists whose writer stopped between RPUSH and EXPIRE

store == <<meta, msgs, listDead, rdv>>
history == <<session, advert, deleted, leaked>>
vars == <<meta, msgs, listDead, rdv, now, pc, loc, faults, session, advert, deleted, leaked>>

-----------------------------------------------------------------------------
(* The shapes of the stored values.                                        *)

MetaRecord == [live: BOOLEAN, peer: Mailboxes \cup {None}, expires: Nat, dead: Nat]
NoMeta == [live |-> FALSE, peer |-> None, expires |-> 0, dead |-> 0]

Message == [from: Mailboxes, seq: Nat]

RdvRecord == [mbox: Mailboxes \cup {None}, dead: Nat]
NoRdv == [mbox |-> None, dead |-> 0]

\* from is the caller's mailbox and to the other side's, in every operation.
LocRecord == [tok: Tokens \cup {None}, from: Mailboxes \cup {None},
              to: Mailboxes \cup {None}, expires: Nat, seq: Nat]
NoLoc == [tok |-> None, from |-> None, to |-> None, expires |-> 0, seq |-> 0]

PCs == {"idle",
        "init_meta", "init_clear", "init_rdv",
        "join_get", "join_del", "join_meta", "join_save_i", "join_save_r", "join_clear",
        "send_meta",
        "llen", "push", "expire",
        "close_meta", "close_own", "close_peer"}

Init ==
    /\ meta = [m \in Mailboxes |-> NoMeta]
    /\ msgs = [m \in Mailboxes |-> <<>>]
    /\ listDead = [m \in Mailboxes |-> 0]
    /\ rdv = [t \in Tokens |-> NoRdv]
    /\ now = 0
    /\ pc = [p \in Requests |-> "idle"]
    /\ loc = [p \in Requests |-> NoLoc]
    /\ faults = 0
    /\ session = [m \in Mailboxes |-> None]
    /\ advert = [m \in Mailboxes |-> 0]
    /\ deleted = {}
    /\ leaked = {}

-----------------------------------------------------------------------------
(* The Redis commands (redis_repository.rs).                               *)

\* Mutant: the two TTL settings of RendezvousService::new swapped.
SaveMetaShortTTL(m, peer, expires) ==
    meta' = [meta EXCEPT ![m] = [live |-> TRUE, peer |-> peer,
                                 expires |-> expires, dead |-> now + RendezvousTTL]]

\* save_mailbox_meta: SETEX of the whole record, TTL restarted.
SaveMeta(m, peer, expires) ==
    meta' = [meta EXCEPT ![m] = [live |-> TRUE, peer |-> peer,
                                 expires |-> expires, dead |-> now + MailboxTTL]]

\* clear_mailbox_messages: DEL of the list key.
ClearMessages(m) ==
    /\ msgs' = [msgs EXCEPT ![m] = <<>>]
    /\ listDead' = [listDead EXCEPT ![m] = 0]

\* delete_mailbox: one DEL of both keys.
DeleteMailbox(m) ==
    /\ meta' = [meta EXCEPT ![m] = NoMeta]
    /\ ClearMessages(m)
    /\ deleted' = IF meta[m].live THEN deleted \cup {m} ELSE deleted

-----------------------------------------------------------------------------
(* Control of a task.                                                      *)

Goto(p, from, to) == pc[p] = from /\ pc' = [pc EXCEPT ![p] = to]

\* The handler returns: its local variables are gone.
Return(p) ==
    /\ pc' = [pc EXCEPT ![p] = "idle"]
    /\ loc' = [loc EXCEPT ![p] = NoLoc]

\* Mutant: ids drawn from a pool, an id being free when Redis has no key for it.
FreshInStore(m) == ~meta[m].live /\ msgs[m] = <<>>

\* gen_mailbox_id draws an id nobody has seen.
Fresh(m) == session[m] = None

\* Bound: an id is left for each task that may yet draw one, and one more.
IdsLeft == Cardinality({p \in Requests : pc[p] \in {"join_get", "join_del", "join_meta"}})
             < Cardinality({m \in Mailboxes : Fresh(m)})

\* A client can only name a mailbox that a reply has given it.
Known(m) == advert[m] # 0

TokenDrawn(t) == \E m \in Mailboxes : session[m] = t

-----------------------------------------------------------------------------
(* init_connection: save the mailbox, clear its list, publish the token.   *)

StartInit(p, t, m) ==
    /\ pc[p] = "idle"
    /\ ~TokenDrawn(t)
    /\ Fresh(m) /\ IdsLeft
    /\ pc' = [pc EXCEPT ![p] = "init_meta"]
    /\ loc' = [loc EXCEPT ![p] = [tok |-> t, from |-> m, to |-> None,
                                  expires |-> now + MailboxTTL, seq |-> 0]]
    /\ session' = [session EXCEPT ![m] = t]
    /\ UNCHANGED <<store, now, faults, advert, deleted, leaked>>

InitMeta(p) ==
    /\ Goto(p, "init_meta", "init_clear")
    /\ SaveMeta(loc[p].from, None, loc[p].expires)
    /\ UNCHANGED <<msgs, listDead, rdv, now, faults, loc, history>>

InitClear(p) ==
    /\ Goto(p, "init_clear", "init_rdv")
    /\ ClearMessages(loc[p].from)
    /\ UNCHANGED <<meta, rdv, now, faults, loc, history>>

InitRdv(p) ==
    /\ pc[p] = "init_rdv"
    /\ rdv' = [rdv EXCEPT ![loc[p].tok] = [mbox |-> loc[p].from, dead |-> now + RendezvousTTL]]
    /\ advert' = [advert EXCEPT ![loc[p].from] = loc[p].expires]
    /\ Return(p)
    /\ UNCHANGED <<meta, msgs, listDead, now, faults, session, deleted, leaked>>

-----------------------------------------------------------------------------
(* join_connection: GET and DEL the token, read the initiator's record,    *)
(* write the link into it, write the responder's record, and leave a join  *)
(* message (LLEN, RPUSH, EXPIRE) in the initiator's mailbox.               *)

StartJoin(p, t) ==
    /\ pc[p] = "idle"
    /\ \A m \in Mailboxes : Len(msgs[m]) < MaxMsgs
    /\ IdsLeft
    /\ TokenDrawn(t)            \* the responder has the token from the link
    /\ pc' = [pc EXCEPT ![p] = "join_get"]
    /\ loc' = [loc EXCEPT ![p] = [NoLoc EXCEPT !.tok = t]]
    /\ UNCHANGED <<store, now, faults, history>>

\* get_and_delete_rendezvous is two commands: GET ...
JoinGet(p) ==
    /\ pc[p] = "join_get"
    /\ LET found == rdv[loc[p].tok].mbox
       IN  IF found = None
           THEN Return(p)                                    \* InvalidToken
           ELSE /\ pc' = [pc EXCEPT ![p] = "join_del"]
                /\ loc' = [loc EXCEPT ![p].to = found]
    /\ UNCHANGED <<store, now, faults, history>>

\* Mutant: the token is read and left in place.
JoinDelSkipped(p) ==
    /\ Goto(p, "join_del", "join_meta")
    /\ UNCHANGED <<store, now, faults, loc, history>>

\* ... and DEL, which succeeds whether or not the key is still there.
JoinDel(p) ==
    /\ Goto(p, "join_del", "join_meta")
    /\ rdv' = [rdv EXCEPT ![loc[p].tok] = NoRdv]
    /\ UNCHANGED <<meta, msgs, listDead, now, faults, loc, history>>

\* Read the initiator's record; go on only if it is there and unpaired.
JoinMeta(p) ==
    /\ pc[p] = "join_meta"
    /\ LET initiator == meta[loc[p].to]
       IN  IF initiator.live /\ initiator.peer = None
           THEN \E r \in Mailboxes :
                   /\ Fresh(r)
                   /\ session' = [session EXCEPT ![r] = loc[p].tok]
                   /\ pc' = [pc EXCEPT ![p] = "join_save_i"]
                   /\ loc' = [loc EXCEPT ![p].from = r, ![p].expires = initiator.expires]
           ELSE /\ Return(p)             \* MailboxNotFound, SessionAlreadyPaired
                /\ UNCHANGED session
    /\ UNCHANGED <<store, now, faults, advert, deleted, leaked>>

\* Mutant: the record is written back without the link.
JoinSaveInitiatorUnlinked(p) ==
    /\ Goto(p, "join_save_i", "join_save_r")
    /\ SaveMeta(loc[p].to, None, loc[p].expires)
    /\ UNCHANGED <<msgs, listDead, rdv, now, faults, loc, history>>

\* Write back the record read above, now with a peer: a blind overwrite.
JoinSaveInitiator(p) ==
    /\ Goto(p, "join_save_i", "join_save_r")
    /\ SaveMeta(loc[p].to, loc[p].from, loc[p].expires)
    /\ UNCHANGED <<msgs, listDead, rdv, now, faults, loc, history>>

JoinSaveResponder(p) ==
    /\ Goto(p, "join_save_r", "join_clear")
    /\ SaveMeta(loc[p].from, loc[p].to, loc[p].expires)
    /\ UNCHANGED <<msgs, listDead, rdv, now, faults, loc, history>>

JoinClear(p) ==
    /\ Goto(p, "join_clear", "llen")
    /\ ClearMessages(loc[p].from)
    /\ UNCHANGED <<meta, rdv, now, faults, loc, history>>

-----------------------------------------------------------------------------
(* The message steps that join_connection and send_message share: the      *)
(* sequence number is the list's length, then push_message is two          *)
(* commands, RPUSH and EXPIRE.                                             *)

GetCount(p) ==
    /\ Goto(p, "llen", "push")
    /\ loc' = [loc EXCEPT ![p].seq = Len(msgs[loc[p].to])]
    /\ UNCHANGED <<store, now, faults, history>>

\* Mutant: two Strings swapped, the token stored as the sender.
PushFromToken(p) ==
    /\ Goto(p, "push", "expire")
    /\ msgs' = [msgs EXCEPT ![loc[p].to] =
                    Append(@, [from |-> loc[p].tok, seq |-> loc[p].seq])]
    /\ UNCHANGED <<meta, listDead, rdv, now, faults, loc, history>>

\* RPUSH creates the list, without a TTL, when the key is not there.
Push(p) ==
    /\ Goto(p, "push", "expire")
    /\ msgs' = [msgs EXCEPT ![loc[p].to] =
                    Append(@, [from |-> loc[p].from, seq |-> loc[p].seq])]
    /\ UNCHANGED <<meta, listDead, rdv, now, faults, loc, history>>

\* Mutant: EXPIRE only after the first message, the one numbered 0.
SetExpiryFirstOnly(p) ==
    /\ pc[p] = "expire"
    /\ listDead' = IF msgs[loc[p].to] = <<>> \/ loc[p].seq # 0 THEN listDead
                   ELSE [listDead EXCEPT ![loc[p].to] = now + MailboxTTL]
    /\ advert' = IF Known(loc[p].from) THEN advert
                 ELSE [advert EXCEPT ![loc[p].from] = loc[p].expires]
    /\ Return(p)
    /\ UNCHANGED <<meta, msgs, rdv, now, faults, session, deleted, leaked>>

\* EXPIRE does nothing to a key that is not there.  The handler then replies;
\* a join's reply tells the responder its mailbox id.
SetExpiry(p) ==
    /\ pc[p] = "expire"
    /\ listDead' = IF msgs[loc[p].to] = <<>> THEN listDead
                   ELSE [listDead EXCEPT ![loc[p].to] = now + MailboxTTL]
    /\ advert' = IF Known(loc[p].from) THEN advert
                 ELSE [advert EXCEPT ![loc[p].from] = loc[p].expires]
    /\ Return(p)
    /\ UNCHANGED <<meta, msgs, rdv, now, faults, session, deleted, leaked>>

-----------------------------------------------------------------------------
(* send_message: read the sender's record, check it, then the steps above. *)

StartSend(p, m) ==
    /\ pc[p] = "idle"
    /\ Known(m)
    /\ \A n \in Mailboxes : Len(msgs[n]) < MaxMsgs
    /\ pc' = [pc EXCEPT ![p] = "send_meta"]
    /\ loc' = [loc EXCEPT ![p] = [NoLoc EXCEPT !.from = m]]
    /\ UNCHANGED <<store, now, faults, history>>

SendMeta(p) ==
    /\ pc[p] = "send_meta"
    /\ LET own == meta[loc[p].from]
       IN  IF own.live /\ own.peer # None /\ now < own.expires
           THEN /\ pc' = [pc EXCEPT ![p] = "llen"]
                /\ loc' = [loc EXCEPT ![p].to = own.peer]
           ELSE Return(p)   \* MailboxNotFound, NoPeerConnected, SessionExpired
    /\ UNCHANGED <<store, now, faults, history>>

-----------------------------------------------------------------------------
(* close_connection: read the record, delete the mailbox, then the peer's. *)

StartClose(p, m) ==
    /\ pc[p] = "idle"
    /\ Known(m)
    /\ pc' = [pc EXCEPT ![p] = "close_meta"]
    /\ loc' = [loc EXCEPT ![p] = [NoLoc EXCEPT !.from = m]]
    /\ UNCHANGED <<store, now, faults, history>>

CloseMeta(p) ==
    /\ pc[p] = "close_meta"
    /\ LET own == meta[loc[p].from]
       IN  IF own.live
           THEN /\ pc' = [pc EXCEPT ![p] = "close_own"]
                /\ loc' = [loc EXCEPT ![p].to = own.peer]
           ELSE Return(p)
    /\ UNCHANGED <<store, now, faults, history>>

CloseOwn(p) ==
    /\ pc[p] = "close_own"
    /\ DeleteMailbox(loc[p].from)
    /\ IF loc[p].to = None
       THEN Return(p)
       ELSE pc' = [pc EXCEPT ![p] = "close_peer"] /\ UNCHANGED loc
    /\ UNCHANGED <<rdv, now, faults, session, advert, leaked>>

ClosePeer(p) ==
    /\ pc[p] = "close_peer"
    /\ DeleteMailbox(loc[p].to)
    /\ Return(p)
    /\ UNCHANGED <<rdv, now, faults, session, advert, leaked>>

-----------------------------------------------------------------------------
(* What can happen to a task or to a key at any time.                      *)

Fault == faults < MaxFaults /\ faults' = faults + 1

\* A Redis error, a client disconnect or a server restart ends the task here.
Abort(p) ==
    /\ pc[p] # "idle"
    /\ Fault
    /\ Return(p)
    /\ leaked' = IF pc[p] = "expire" THEN leaked \cup {loc[p].to} ELSE leaked
    /\ UNCHANGED <<store, now, session, advert, deleted>>

\* Redis is out of memory and drops a key.
EvictMeta(m) ==
    /\ meta[m].live
    /\ Fault
    /\ meta' = [meta EXCEPT ![m] = NoMeta]
    /\ deleted' = deleted \cup {m}
    /\ UNCHANGED <<msgs, listDead, rdv, now, pc, loc, session, advert, leaked>>

EvictList(m) ==
    /\ msgs[m] # <<>>
    /\ Fault
    /\ ClearMessages(m)
    /\ UNCHANGED <<meta, rdv, now, pc, loc, history>>

EvictRdv(t) ==
    /\ rdv[t].mbox # None
    /\ Fault
    /\ rdv' = [rdv EXCEPT ![t] = NoRdv]
    /\ UNCHANGED <<meta, msgs, listDead, now, pc, loc, history>>

\* Time passes, and every key whose TTL ends is gone.
Tick ==
    /\ now < MaxTime
    /\ now' = now + 1
    /\ meta' = [m \in Mailboxes |-> IF meta[m].dead <= now' THEN NoMeta ELSE meta[m]]
    /\ msgs' = [m \in Mailboxes |->
                    IF listDead[m] # 0 /\ listDead[m] <= now' THEN <<>> ELSE msgs[m]]
    /\ listDead' = [m \in Mailboxes |-> IF listDead[m] <= now' THEN 0 ELSE listDead[m]]
    /\ rdv' = [t \in Tokens |-> IF rdv[t].dead <= now' THEN NoRdv ELSE rdv[t]]
    /\ UNCHANGED <<pc, loc, faults, history>>

-----------------------------------------------------------------------------
Start(p) ==
    \/ \E t \in Tokens, m \in Mailboxes : StartInit(p, t, m)
    \/ \E t \in Tokens : StartJoin(p, t)
    \/ \E m \in Mailboxes : StartSend(p, m) \/ StartClose(p, m)

Step(p) ==
    \/ InitMeta(p) \/ InitClear(p) \/ InitRdv(p)
    \/ JoinGet(p) \/ JoinDel(p) \/ JoinMeta(p)
    \/ JoinSaveInitiator(p) \/ JoinSaveResponder(p) \/ JoinClear(p)
    \/ GetCount(p) \/ Push(p) \/ SetExpiry(p)
    \/ SendMeta(p)
    \/ CloseMeta(p) \/ CloseOwn(p) \/ ClosePeer(p)

Next ==
    \/ \E p \in Requests : Start(p) \/ Step(p) \/ Abort(p)
    \/ \E m \in Mailboxes : EvictMeta(m) \/ EvictList(m)
    \/ \E t \in Tokens : EvictRdv(t)
    \/ Tick

Spec == Init /\ [][Next]_vars

-----------------------------------------------------------------------------
(* Type invariant: the keys, the tasks' local variables and the history    *)
(* hold values of the shapes the Rust types and the Redis commands give.   *)
TypeOK ==
    /\ meta \in [Mailboxes -> MetaRecord]
    /\ msgs \in [Mailboxes -> Seq(Message)]
    /\ listDead \in [Mailboxes -> Nat]
    /\ rdv \in [Tokens -> RdvRecord]
    /\ now \in Nat
    /\ pc \in [Requests -> PCs]
    /\ loc \in [Requests -> LocRecord]
    /\ session \in [Mailboxes -> Tokens \cup {None}]
    /\ advert \in [Mailboxes -> Nat]
    /\ faults \in Nat
    /\ deleted \subseteq Mailboxes
    /\ leaked \subseteq Mailboxes

\* A token that can still be joined leads to a mailbox without a peer: the
\* token is gone before the link is written, whatever the interleaving.  So
\* SessionAlreadyPaired can only be met by a join that read the token while
\* another join was between its GET and its DEL.
TokenLeadsToUnpaired ==
    \A t \in Tokens : rdv[t].mbox # None => meta[rdv[t].mbox].peer = None

\* A responder whose mailbox answers requests has an initiator that knows
\* about a responder: the initiator's record is written first, and no later
\* write (stale as it may be) takes the peer away.
ResponderImpliesPaired ==
    \A r \in Mailboxes :
        /\ meta[r].live
        /\ meta[r].peer # None
        /\ meta[meta[r].peer].live
        => meta[meta[r].peer].peer # None

\* Sessions stay apart: a mailbox is only ever linked with, and only ever
\* receives messages from, a mailbox made for the same token.
SessionsStayApart ==
    \A m \in Mailboxes :
        /\ meta[m].peer # None => session[meta[m].peer] = session[m]
        /\ \A k \in 1..Len(msgs[m]) : session[msgs[m][k].from] = session[m]

\* The reply's expires_at_epoch_ms is a promise the store keeps: a mailbox
\* whose id and expiry a client was told is there until then, unless it was
\* closed or evicted.
AdvertisedLifetime ==
    \A m \in Mailboxes : now < advert[m] /\ m \notin deleted => meta[m].live

\* A message list that never expires belongs to a task about to send EXPIRE
\* or was left by one that stopped right before it (push_message's RPUSH and
\* EXPIRE are two commands).
ImmortalListHasWriter ==
    \A m \in Mailboxes :
        msgs[m] # <<>> /\ listDead[m] = 0
        => \/ m \in leaked
           \/ \E p \in Requests : pc[p] = "expire" /\ loc[p].to = m

\* What the error text "Session already has a peer" promises: no two
\* responders are both told that they joined the same link.
AtMostOneResponder ==
    \A r, s \in Mailboxes :
        /\ Known(r) /\ Known(s)
        /\ meta[r].peer # None
        /\ meta[s].peer # None
        /\ meta[r].peer = meta[s].peer
        => r = s
=============================================================================
