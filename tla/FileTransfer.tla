----------------------------- MODULE FileTransfer -----------------------------
(***************************************************************************)
(* File transfer between the two clients of a session                      *)
(* (features/file_transfer/file_transfer_service.dart): one                *)
(* FileTransferService on each side, and the ordered data channel between  *)
(* them.                                                                   *)
(*                                                                         *)
(* A service runs on one isolate, so a step is what runs between two       *)
(* awaits: a handler, a click, a timer, or the rest of an async function   *)
(* once its future is there.  What such a function finds in                *)
(* _currentSession is what is there then, which need not be the session it *)
(* began with.                                                             *)
(*                                                                         *)
(* All files have the same Size.  The offers of one peer have different    *)
(* ids; those of the two peers can have the same (an id is a time in       *)
(* milliseconds) if SameMillisecond.  Names, sizes over the limit and      *)
(* malformed messages are left out; a file that cannot be read or written  *)
(* is too.                                                                 *)
(***************************************************************************)
EXTENDS Naturals, Sequences, FiniteSets

CONSTANTS
    Size,             \* chunks of a file
    HighWater,        \* messages on their way that make the send loop pause
    LowWater,         \* messages on their way that let it go on
    SameMillisecond,  \* whether both peers can draw the same id
    MaxOffers,        \* bound: ids
    MaxSteps,         \* bound: functions of one kind suspended at once
    MaxClicks,        \* bound: rejects, cancels and disposes by the users
    MaxFaults         \* bound: timers that fire, and the close of the channel

ASSUME TransferAssumption ==
    /\ Size \in Nat \ {0} /\ HighWater \in Nat /\ LowWater \in 0..HighWater
    /\ SameMillisecond \in BOOLEAN
    /\ {MaxOffers, MaxSteps, MaxClicks, MaxFaults} \subseteq Nat

\* A peer is known by its nonce, and nonces are ordered.
Peers == 1..2
Other(p) == 3 - p

VARIABLES
    session,    \* _currentSession
    status,     \* _currentState.status
    disposed,   \* _isDisposed
    queue,      \* the messages on their way to each peer
    events,     \* onFileChannelState events still to come
    open,       \* whether the data channel is open
    hashing,    \* sendOffer: the offers whose file is being hashed
    posted,     \* sendOffer: how many await the send of their offer
    accepting,  \* acceptOffer: how many await getTemporaryDirectory
    loop,       \* _startTransferRobust: the running send loops
    owner,      \* the loop that _onBufferedAmountLow wakes
    final,      \* _finalizeReceive: the one that runs
    stray,      \* inactivity timers whose session is gone
    drawn,      \* offers made: <<peer, id>>
    clicks,     \* rejects, cancels and disposes so far
    faults,     \* timers that have fired and closes so far
    saved,      \* history: files saved
    excused     \* history: peers that left a session, or took one for another, untold

tasks == <<hashing, posted, accepting, loop, owner, final>>
bounds == <<drawn, clicks, faults>>
vars == <<session, status, disposed, queue, events, open, hashing, posted, accepting,
          loop, owner, final, stray, drawn, clicks, faults, saved, excused>>

Ids == 1..MaxOffers
Chunk == Ids \X (1..Size)
Message == [type: {"metadata", "accept", "reject", "cancel", "eof", "chunk"},
            id: Ids, k: 0..Size]

\* bytes is bytesReceived, got what the temporary file and the hash hold.
Session == [id: Ids, sender: BOOLEAN, sink: BOOLEAN, temp: BOOLEAN, bytes: 0..Size,
            got: Seq(Chunk), acceptTimer: BOOLEAN, inactivityTimer: BOOLEAN]
None == [id |-> 0, sender |-> FALSE, sink |-> FALSE, temp |-> FALSE, bytes |-> 0,
         got |-> <<>>, acceptTimer |-> FALSE, inactivityTimer |-> FALSE]
NewSession(id, sender) == [None EXCEPT !.id = id, !.sender = sender]

Slots == 1..MaxSteps
NoLoop == [at |-> "none", id |-> 0, off |-> 0]
NoFinal == [at |-> "none", id |-> 0, swapped |-> FALSE, got |-> <<>>]

Init ==
    /\ session = [p \in Peers |-> None]
    /\ status = [p \in Peers |-> "idle"]
    /\ disposed = [p \in Peers |-> FALSE]
    /\ queue = [p \in Peers |-> <<>>]
    /\ events = [p \in Peers |-> 0]
    /\ open = TRUE
    /\ hashing = [p \in Peers |-> {}]
    /\ posted = [p \in Peers |-> 0]
    /\ accepting = [p \in Peers |-> 0]
    /\ loop = [p \in Peers |-> [l \in Slots |-> NoLoop]]
    /\ owner = [p \in Peers |-> 1]
    /\ final = [p \in Peers |-> NoFinal]
    /\ stray = [p \in Peers |-> 0]
    /\ drawn = {}
    /\ clicks = 0
    /\ faults = 0
    /\ saved = {}
    /\ excused = {}

-----------------------------------------------------------------------------
(* The parts that handlers share.                                          *)

Busy(p) == session[p] # None
Matches(p, id) == Busy(p) /\ session[p].id = id

\* _updateState
Show(p, s) == status' = IF disposed[p] THEN status ELSE [status EXCEPT ![p] = s]

\* _endSession: the session goes, with its timers and its temporary file.
EndSession(p, s) ==
    /\ session' = [session EXCEPT ![p] = None]
    /\ Show(p, s)

Msg(type, id, k) == [type |-> type, id |-> id, k |-> k]

\* sendFileMessage, sendFileChunk; q is the queues with what has been taken out.
After(q, p, m) == IF open THEN [q EXCEPT ![Other(p)] = Append(@, m)] ELSE q
Post(p, m) == queue' = After(queue, p, m)

\* Mutant: the other peer is not told.
SilentCancel(p) == IF Busy(p) THEN EndSession(p, "error") /\ UNCHANGED queue
                   ELSE UNCHANGED <<session, status, queue>>

\* cancelTransfer
CancelTransfer(p) ==
    IF Busy(p)
    THEN /\ EndSession(p, "error")
         /\ Post(p, Msg("cancel", session[p].id, 0))
    ELSE UNCHANGED <<session, status, queue>>

Excuse(p) == excused' = IF Busy(p) THEN excused \cup {p} ELSE excused

-----------------------------------------------------------------------------
(* sendOffer.                                                              *)

\* The button is there while nothing is shown; the id is drawn, then the file hashed.
SendOffer(p) ==
    /\ ~disposed[p]
    /\ ~Busy(p) /\ status[p] \in {"idle", "completed", "error"}
    /\ Cardinality(hashing[p]) < MaxSteps
    /\ \E id \in Ids :
          /\ <<p, id>> \notin drawn
          /\ SameMillisecond \/ <<Other(p), id>> \notin drawn
          /\ hashing' = [hashing EXCEPT ![p] = @ \cup {id}]
          /\ drawn' = drawn \cup {<<p, id>>}
    /\ UNCHANGED <<session, status, disposed, queue, events, open, posted, accepting, loop,
                   owner, final, stray, clicks, faults, saved, excused>>

\* An offer that came during the hashing wins.
Hashed(p, id) ==
    /\ id \in hashing[p]
    /\ hashing' = [hashing EXCEPT ![p] = @ \ {id}]
    /\ IF Busy(p)
       THEN UNCHANGED <<session, status, queue, posted>>
       ELSE /\ session' = [session EXCEPT ![p] = NewSession(id, TRUE)]
            /\ Show(p, "offering")
            /\ Post(p, Msg("metadata", id, 0))
            /\ posted' = IF open THEN [posted EXCEPT ![p] = @ + 1] ELSE posted
    /\ UNCHANGED <<disposed, events, open, accepting, loop, owner, final, stray, bounds,
                   saved, excused>>

\* _startAcceptTimeout, for the session that is there now.
Posted(p) ==
    /\ posted[p] > 0
    /\ posted' = [posted EXCEPT ![p] = @ - 1]
    /\ session' = IF Busy(p) THEN [session EXCEPT ![p].acceptTimer = TRUE] ELSE session
    /\ UNCHANGED <<status, disposed, queue, events, open, hashing, accepting, loop, owner,
                   final, stray, bounds, saved, excused>>

-----------------------------------------------------------------------------
(* acceptOffer and rejectOffer.                                            *)

\* The buttons are there while an offer is shown, also after the first click.
ClickAccept(p) ==
    /\ ~disposed[p]
    /\ status[p] = "offered" /\ Busy(p) /\ ~session[p].sender
    /\ accepting[p] < MaxSteps
    /\ accepting' = [accepting EXCEPT ![p] = @ + 1]
    /\ UNCHANGED <<session, status, disposed, queue, events, open, hashing, posted, loop,
                   owner, final, stray, bounds, saved, excused>>

\* The file that _finalizeReceive is at work on is opened once more, and so emptied.
Reopen(p) == final' = IF Matches(p, final[p].id) THEN [final EXCEPT ![p].swapped = TRUE]
                                                 ELSE final

\* Mutant: the receiver's inactivity timer is not started.
UntimedAccepted(p) ==
    /\ accepting[p] > 0
    /\ accepting' = [accepting EXCEPT ![p] = @ - 1]
    /\ IF Busy(p)
       THEN /\ session' = [session EXCEPT ![p].sink = TRUE, ![p].temp = TRUE, ![p].got = <<>>]
            /\ Show(p, "receiving")
            /\ Post(p, Msg("accept", session[p].id, 0))
       ELSE EndSession(p, "error") /\ UNCHANGED queue
    /\ Reopen(p)
    /\ UNCHANGED <<disposed, events, open, hashing, posted, loop, owner, stray, bounds, saved,
                   excused>>

\* openWrite empties the temporary file; without a session "!" throws.
Accepted(p) ==
    /\ accepting[p] > 0
    /\ accepting' = [accepting EXCEPT ![p] = @ - 1]
    /\ IF Busy(p)
       THEN /\ session' = [session EXCEPT ![p].sink = TRUE, ![p].temp = TRUE, ![p].got = <<>>,
                                          ![p].inactivityTimer = TRUE]
            /\ Show(p, "receiving")
            /\ Post(p, Msg("accept", session[p].id, 0))
            /\ excused' = IF session[p].sender THEN excused \cup {p} ELSE excused
       ELSE EndSession(p, "error") /\ UNCHANGED <<queue, excused>>
    /\ Reopen(p)
    /\ UNCHANGED <<disposed, events, open, hashing, posted, loop, owner, stray, bounds, saved>>

Click == clicks < MaxClicks /\ clicks' = clicks + 1

ClickReject(p) ==
    /\ ~disposed[p]
    /\ status[p] = "offered" /\ Busy(p)
    /\ Click
    /\ EndSession(p, "idle")
    /\ Post(p, Msg("reject", session[p].id, 0))
    /\ UNCHANGED <<disposed, events, open, tasks, stray, drawn, faults, saved, excused>>

ClickCancel(p) ==
    /\ ~disposed[p]
    /\ status[p] \in {"offering", "transferring", "receiving"} /\ Busy(p)
    /\ Click
    /\ CancelTransfer(p)
    /\ UNCHANGED <<disposed, events, open, tasks, stray, drawn, faults, saved, excused>>

Dispose(p) ==
    /\ ~disposed[p]
    /\ Click
    /\ disposed' = [disposed EXCEPT ![p] = TRUE]
    /\ session' = [session EXCEPT ![p] = None]
    /\ excused' = excused \cup {p}
    /\ UNCHANGED <<status, queue, events, open, tasks, stray, drawn, faults, saved>>

-----------------------------------------------------------------------------
(* _startTransferRobust.                                                   *)

\* The top of the loop, and what follows it when it ends: the current session's
\* id goes into the EOF.
Continue(p, l, off, q) ==
    LET on == status[p] = "transferring"
        at == CASE on /\ off < Size /\ Len(q[Other(p)]) > HighWater -> "paused"
                [] on /\ off < Size /\ Len(q[Other(p)]) <= HighWater -> "read"
                [] on /\ off = Size /\ Busy(p) -> IF open THEN "eof" ELSE "refused"
                [] OTHER -> "close"
    IN  /\ loop' = [loop EXCEPT ![p][l].at = at, ![p][l].off = off]
        /\ queue' = IF at = "eof" THEN After(q, p, Msg("eof", session[p].id, 0)) ELSE q

\* The file is open.
Opened(p, l) ==
    /\ loop[p][l].at = "open"
    /\ owner' = [owner EXCEPT ![p] = l]
    /\ IF Busy(p)
       THEN Continue(p, l, 0, queue)
       ELSE loop' = [loop EXCEPT ![p][l].at = "close"] /\ UNCHANGED queue
    /\ UNCHANGED <<session, status, disposed, events, open, hashing, posted, accepting, final,
                   stray, bounds, saved, excused>>

\* onBufferedAmountLow, which completes the latest loop's completer only.
Low(p, l) ==
    /\ loop[p][l].at = "paused"
    /\ owner[p] = l
    /\ open /\ Len(queue[Other(p)]) <= LowWater
    /\ loop' = [loop EXCEPT ![p][l].at = "read"]
    /\ UNCHANGED <<session, status, disposed, queue, events, open, hashing, posted, accepting,
                   owner, final, stray, bounds, saved, excused>>

\* The chunk has been read and is sent.
Read(p, l) ==
    /\ loop[p][l].at = "read"
    /\ Post(p, Msg("chunk", loop[p][l].id, loop[p][l].off + 1))
    /\ loop' = [loop EXCEPT ![p][l].at = IF open THEN "sent" ELSE "refused"]
    /\ UNCHANGED <<session, status, disposed, events, open, hashing, posted, accepting, owner,
                   final, stray, bounds, saved, excused>>

\* The wait for a closed channel throws: whatever session there is is cancelled.
Refused(p, l) ==
    /\ loop[p][l].at = "refused"
    /\ CancelTransfer(p)
    /\ loop' = [loop EXCEPT ![p][l].at = "close"]
    /\ UNCHANGED <<disposed, events, open, hashing, posted, accepting, owner, final, stray,
                   bounds, saved, excused>>

Sent(p, l) ==
    /\ loop[p][l].at = "sent"
    /\ Continue(p, l, loop[p][l].off + 1, queue)
    /\ UNCHANGED <<session, status, disposed, events, open, hashing, posted, accepting, owner,
                   final, stray, bounds, saved, excused>>

\* The EOF has been sent: completed, whatever the status has become meanwhile and
\* whichever session it is about.
EofSent(p, l) ==
    /\ loop[p][l].at = "eof"
    /\ Show(p, "completed")
    /\ loop' = [loop EXCEPT ![p][l].at = "close"]
    /\ excused' = IF Busy(p) /\ ~Matches(p, loop[p][l].id) THEN excused \cup {p} ELSE excused
    /\ UNCHANGED <<session, disposed, queue, events, open, hashing, posted, accepting, owner,
                   final, stray, bounds, saved>>

\* The file is closed.  The session goes, but its timers stay.
FileClosed(p, l) ==
    /\ loop[p][l].at = "close"
    /\ loop' = [loop EXCEPT ![p][l] = NoLoop]
    /\ IF status[p] = "completed"
       THEN /\ session' = [session EXCEPT ![p] = None]
            /\ stray' = IF session[p].inactivityTimer THEN [stray EXCEPT ![p] = @ + 1] ELSE stray
       ELSE UNCHANGED <<session, stray>>
    /\ UNCHANGED <<status, disposed, queue, events, open, hashing, posted, accepting, owner,
                   final, bounds, saved, excused>>

-----------------------------------------------------------------------------
(* _handleFileMessage and _handleFileChunk: one message.                   *)

Rest(p) == [queue EXCEPT ![p] = Tail(@)]

\* _finalizeReceive is closing the session's file, which then takes nothing.
Closing(p) == final[p].at = "flush" /\ Matches(p, final[p].id) /\ ~final[p].swapped

\* Mutant: the reject to a peer whose offer came while this one is busy is forgotten.
QuietMetadata(p, id) ==
    /\ queue' = Rest(p)
    /\ IF Busy(p)
       THEN UNCHANGED <<session, status>>
       ELSE session' = [session EXCEPT ![p] = NewSession(id, FALSE)] /\ Show(p, "offered")
    /\ UNCHANGED <<loop, final, stray, excused>>

\* Mutant: an own offer never gives way.
StubbornMetadata(p, id) ==
    /\ IF Busy(p)
       THEN /\ queue' = After(Rest(p), p, Msg("reject", id, 0))
            /\ UNCHANGED <<session, status>>
       ELSE /\ session' = [session EXCEPT ![p] = NewSession(id, FALSE)]
            /\ Show(p, "offered")
            /\ queue' = Rest(p)
    /\ UNCHANGED <<loop, final, stray, excused>>

\* _handleOffer: our own offer gives way to an offer with a smaller key.
HandleMetadata(p, id) ==
    LET colliding == Busy(p) /\ session[p].sender /\ status[p] = "offering"
        wins == session[p].id < id \/ (session[p].id = id /\ p < Other(p))
    IN  /\ IF Busy(p) /\ (colliding => wins)
           THEN /\ queue' = After(Rest(p), p, Msg("reject", id, 0))
                /\ UNCHANGED <<session, status>>
           ELSE /\ session' = [session EXCEPT ![p] = NewSession(id, FALSE)]
                /\ Show(p, "offered")
                /\ queue' = IF colliding
                            THEN After(Rest(p), p, Msg("cancel", session[p].id, 0))
                            ELSE Rest(p)
        /\ UNCHANGED <<loop, final, stray, excused>>

\* Mutant: the id of an accept is not compared.
AnyAccept(p, id) ==
    /\ queue' = Rest(p)
    /\ IF Busy(p)
       THEN /\ \E l \in Slots :
                  /\ loop[p][l] = NoLoop
                  /\ loop' = [loop EXCEPT ![p][l] = [at |-> "open", id |-> id, off |-> 0]]
            /\ session' = [session EXCEPT ![p].acceptTimer = FALSE, ![p].inactivityTimer = TRUE]
            /\ Show(p, "transferring")
       ELSE UNCHANGED <<loop, session, status>>
    /\ UNCHANGED <<final, stray, excused>>

HandleAccept(p, id) ==
    /\ queue' = Rest(p)
    /\ IF Matches(p, id) /\ session[p].sender
       THEN /\ \E l \in Slots :
                  /\ loop[p][l] = NoLoop
                  /\ loop' = [loop EXCEPT ![p][l] = [at |-> "open", id |-> id, off |-> 0]]
            /\ session' = [session EXCEPT ![p].acceptTimer = FALSE, ![p].inactivityTimer = TRUE]
            /\ Show(p, "transferring")
       ELSE UNCHANGED <<loop, session, status>>
    /\ UNCHANGED <<final, stray, excused>>

\* A reject or a cancel.
HandleEnd(p, id) ==
    /\ queue' = Rest(p)
    /\ IF Matches(p, id) THEN EndSession(p, "error") ELSE UNCHANGED <<session, status>>
    /\ UNCHANGED <<loop, final, stray, excused>>

\* _finalizeReceive begins to close the file; when one already does, it throws.
HandleEof(p, id) ==
    /\ queue' = Rest(p)
    /\ IF Matches(p, id) /\ session[p].sink
       THEN IF Closing(p)
            THEN EndSession(p, "error") /\ UNCHANGED final
            ELSE /\ final[p] = NoFinal
                 /\ final' = [final EXCEPT ![p] = [NoFinal EXCEPT !.at = "flush", !.id = id]]
                 /\ UNCHANGED <<session, status>>
       ELSE UNCHANGED <<session, status, final>>
    /\ UNCHANGED <<loop, stray, excused>>

\* Mutant: more bytes than announced are taken.
GreedyChunk(p, m) ==
    /\ queue' = Rest(p)
    /\ IF Busy(p) /\ status[p] = "receiving" /\ session[p].sink /\ ~Closing(p)
       THEN session' = [session EXCEPT ![p].bytes = @ + 1, ![p].got = Append(@, <<m.id, m.k>>)]
       ELSE UNCHANGED session
    /\ UNCHANGED <<status, loop, final, stray, excused>>

\* A chunk counts for the session that is there, whichever loop sent it.
HandleChunk(p, m) ==
    LET bytes == session[p].bytes + 1
    IN  /\ IF Busy(p) /\ status[p] = "receiving" /\ session[p].sink /\ ~Closing(p)
           THEN IF bytes > Size
                THEN /\ EndSession(p, "error")
                     /\ queue' = After(Rest(p), p, Msg("cancel", session[p].id, 0))
                ELSE /\ session' = [session EXCEPT ![p].bytes = bytes,
                                                   ![p].got = Append(@, <<m.id, m.k>>)]
                     /\ queue' = Rest(p)
                     /\ UNCHANGED status
           ELSE queue' = Rest(p) /\ UNCHANGED <<session, status>>
        /\ UNCHANGED <<loop, final, stray, excused>>

Receive(p) ==
    /\ queue[p] # <<>>
    /\ LET m == Head(queue[p])
       IN  \/ /\ disposed[p]
              /\ queue' = Rest(p)
              /\ UNCHANGED <<session, status, loop, final, stray, excused>>
           \/ /\ ~disposed[p]
              /\ \/ m.type = "metadata" /\ HandleMetadata(p, m.id)
                 \/ m.type = "accept" /\ HandleAccept(p, m.id)
                 \/ m.type \in {"reject", "cancel"} /\ HandleEnd(p, m.id)
                 \/ m.type = "eof" /\ HandleEof(p, m.id)
                 \/ m.type = "chunk" /\ HandleChunk(p, m)
    /\ UNCHANGED <<disposed, events, open, hashing, posted, accepting, owner, bounds, saved>>

-----------------------------------------------------------------------------
(* _finalizeReceive: three awaits, each followed by a look at              *)
(* _currentSession; without a session "!" throws, and the catch ends       *)
(* whatever session there is then.                                         *)

Whole(id) == [k \in 1..Size |-> <<id, k>>]

\* What has been checked is the current session's file.
Checked(p) == [NoFinal EXCEPT !.at = "path", !.id = session[p].id]

FinalFails(p) ==
    /\ EndSession(p, "error")
    /\ final' = [final EXCEPT ![p] = NoFinal]
    /\ Excuse(p)
    /\ UNCHANGED saved

\* Mutant: neither size nor hash is compared.
UncheckedFlushed(p) ==
    /\ final[p].at = "flush"
    /\ IF session[p].sink
       THEN /\ session' = [session EXCEPT ![p].sink = FALSE, ![p].inactivityTimer = FALSE]
            /\ final' = [final EXCEPT ![p] = Checked(p)]
            /\ UNCHANGED <<status, saved, excused>>
       ELSE FinalFails(p)
    /\ UNCHANGED <<disposed, queue, events, open, hashing, posted, accepting, loop, owner, stray,
                   bounds>>

\* The file is closed: are size and hash right?
Flushed(p) ==
    /\ final[p].at = "flush"
    /\ IF session[p].sink /\ session[p].bytes = Size /\ session[p].got = Whole(session[p].id)
       THEN /\ session' = [session EXCEPT ![p].sink = FALSE, ![p].inactivityTimer = FALSE]
            /\ final' = [final EXCEPT ![p] = Checked(p)]
            /\ UNCHANGED <<status, saved, excused>>
       ELSE FinalFails(p)
    /\ UNCHANGED <<disposed, queue, events, open, hashing, posted, accepting, loop, owner, stray,
                   bounds>>

\* The path is there: what is copied is the current session's temporary file.
PathFound(p) ==
    /\ final[p].at = "path"
    /\ IF session[p].temp
       THEN /\ final' = [final EXCEPT ![p] =
                            [at |-> "copy", id |-> session[p].id, got |-> session[p].got,
                             swapped |-> @.swapped \/ session[p].id # @.id]]
            /\ UNCHANGED <<session, status, saved, excused>>
       ELSE FinalFails(p)
    /\ UNCHANGED <<disposed, queue, events, open, hashing, posted, accepting, loop, owner, stray,
                   bounds>>

\* The copy is there; the temporary file may have been deleted meanwhile.
Copied(p) ==
    /\ final[p].at = "copy"
    /\ IF Matches(p, final[p].id)
       THEN /\ saved' = saved \cup {[by |-> p, id |-> final[p].id, got |-> final[p].got,
                                     swapped |-> final[p].swapped]}
            /\ session' = [session EXCEPT ![p] = None]
            /\ Show(p, "completed")
            /\ final' = [final EXCEPT ![p] = NoFinal]
            /\ UNCHANGED excused
       ELSE FinalFails(p)
    /\ UNCHANGED <<disposed, queue, events, open, hashing, posted, accepting, loop, owner, stray,
                   bounds>>

-----------------------------------------------------------------------------
(* Timers and the channel.                                                 *)

Fault == faults < MaxFaults /\ faults' = faults + 1

Timeout(p) ==
    /\ Fault
    /\ CancelTransfer(p)
    /\ UNCHANGED <<disposed, events, open, tasks, drawn, clicks, saved, excused>>

OwnTimeout(p) ==
    /\ session[p].acceptTimer \/ session[p].inactivityTimer
    /\ Timeout(p)
    /\ UNCHANGED stray

\* The timer of a session that is gone cancels the one that is there.
StrayTimeout(p) ==
    /\ stray[p] > 0
    /\ stray' = [stray EXCEPT ![p] = @ - 1]
    /\ Timeout(p)

\* The channel closes and what is on its way is lost.
CloseChannel ==
    /\ open
    /\ Fault
    /\ open' = FALSE
    /\ queue' = [p \in Peers |-> <<>>]
    /\ events' = [p \in Peers |-> 2]
    /\ UNCHANGED <<session, status, disposed, tasks, stray, drawn, clicks, saved, excused>>

\* _handleFileChannelState: closing, then closed.
ChannelEvent(p) ==
    /\ events[p] > 0
    /\ events' = [events EXCEPT ![p] = @ - 1]
    /\ IF Busy(p) /\ ~disposed[p] THEN EndSession(p, "error") ELSE UNCHANGED <<session, status>>
    /\ UNCHANGED <<disposed, queue, open, tasks, stray, bounds, saved, excused>>

-----------------------------------------------------------------------------
LoopStep(p, l) == Opened(p, l) \/ Low(p, l) \/ Read(p, l) \/ Sent(p, l) \/ Refused(p, l)
                  \/ EofSent(p, l) \/ FileClosed(p, l)

PeerStep(p) ==
    \/ \E id \in Ids : Hashed(p, id)
    \/ Posted(p) \/ Accepted(p)
    \/ Flushed(p) \/ PathFound(p) \/ Copied(p)
    \/ ChannelEvent(p)

Next ==
    \/ \E p \in Peers :
          \/ SendOffer(p) \/ ClickAccept(p) \/ ClickReject(p) \/ ClickCancel(p) \/ Dispose(p)
          \/ PeerStep(p) \/ Receive(p)
          \/ \E l \in Slots : LoopStep(p, l)
          \/ OwnTimeout(p) \/ StrayTimeout(p)
    \/ CloseChannel

Spec == Init /\ [][Next]_vars

-----------------------------------------------------------------------------
\* Type invariant: sessions, messages and suspended functions have their shapes, and
\* no session counts more bytes than were announced.
TypeOK ==
    /\ session \in [Peers -> Session \cup {None}]
    /\ status \in [Peers -> {"idle", "offering", "offered", "transferring", "receiving",
                             "completed", "error"}]
    /\ \A p \in Peers : queue[p] \in Seq(Message)
    /\ hashing \in [Peers -> SUBSET Ids]
    /\ posted \in [Peers -> Nat]
    /\ accepting \in [Peers -> 0..MaxSteps]
    /\ stray \in [Peers -> Nat]
    /\ \A p \in Peers, l \in Slots :
          loop[p][l].at \in {"none", "open", "read", "paused", "sent", "refused", "eof", "close"}
    /\ \A p \in Peers : final[p].at \in {"none", "flush", "path", "copy"}

\* A file that _finalizeReceive saves is the whole file that was offered, chunk by chunk
\* and in order, whatever old send loops, cancels and new offers did meanwhile; but for a
\* copy of the temporary file of a session that took the place of the checked one, or of a
\* checked file that a second click on Accept, answered late, opened again.
SavedIsWhole == \A f \in saved : f.got = Whole(f.id) \/ f.swapped

\* When no two offers carry the same id, the send loops of the two peers never hold the
\* status "transferring" together: an accept starts a loop for the offer it answers only.
OneWay == ~ \A p \in Peers : status[p] = "transferring" /\ ~disposed[p]

\* Nothing is on its way and no function is suspended: only users and timers can act.
Quiet ==
    \A p \in Peers :
        /\ queue[p] = <<>> /\ hashing[p] = {} /\ posted[p] = 0 /\ accepting[p] = 0
        /\ \A l \in Slots : loop[p][l] = NoLoop
        /\ final[p] = NoFinal /\ events[p] = 0

\* When all is quiet on an open channel, and no two offers carry the same id, a peer that
\* has a session faces a peer that has the same session in the opposite role: reject,
\* cancel and EOF end both sides.  But for the cases excused: a widget disposed, a receive
\* that failed (the sender is not told), and a suspended function that took another
\* session for its own.
SessionsAgree ==
    Quiet /\ open =>
        \A p \in Peers :
            Busy(p) /\ ~disposed[p] =>
                \/ /\ session[Other(p)].id = session[p].id
                   /\ session[Other(p)].sender # session[p].sender
                \/ excused # {}

\* Who waits for the other peer has a timer that ends the wait: an offer on an open channel
\* the accept timer, a transfer the inactivity timer, until the received file is closed.
WaitingIsTimed ==
    \A p \in Peers :
        /\ Busy(p) /\ ~disposed[p] /\ status[p] = "offering" /\ open
           => session[p].acceptTimer \/ posted[p] > 0
        /\ Busy(p) /\ ~disposed[p] /\ status[p] \in {"transferring", "receiving"} =>
              session[p].inactivityTimer \/ final[p].at # "none"

\* "Simultaneous-offer collision handling: deterministically choose one sender"
\* (_handleOffer): if offers were made, and nobody clicked but to accept and no timer fired,
\* then in the end a file was saved or one of the offers stands.  That is so while nobody
\* accepts twice (MaxSteps = 1): the late half of a second acceptOffer empties the file.
CollisionChoosesOne ==
    Quiet /\ open /\ drawn # {} /\ clicks = 0 /\ faults = 0 /\ saved = {}
    => \E p \in Peers : Busy(p) /\ session[p].sender
=============================================================================
