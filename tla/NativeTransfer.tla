--------------------------- MODULE NativeTransfer ---------------------------
(***************************************************************************)
(* The Rust file transfer (client-core/src/file_transfer.rs): send_file    *)
(* and receive_file on the two ends of one ordered data channel, run by    *)
(* the calls of ConnectionTable.                                           *)
(*                                                                         *)
(* A send is three tasks: send_file itself, a reader that puts the file's  *)
(* chunks into a channel of capacity 1, and a writer that takes them out   *)
(* and sends them unless too much is buffered.  send_file joins the reader *)
(* first.  Only a task that holds the table's guard ever asks for          *)
(* TRANSFER_SEMAPHORE, and the permit goes when the guard goes, so owner   *)
(* stands for both.                                                        *)
(*                                                                         *)
(* All sends read the same file of Size chunks; 0 is a chunk that was      *)
(* changed after the file was hashed.  The clock is left out: a timer may  *)
(* fire whenever what it waits for is not there.  Names and files over     *)
(* MAX_FILE_SIZE are left out.                                             *)
(***************************************************************************)
EXTENDS ConnectionTable, Sequences

CONSTANTS
    Size,        \* chunks of the file
    Uniform,     \* whether all its chunks are equal
    HighWater,   \* HIGH_WATER_MARK, in chunks
    LowWater,    \* BUFFERED_LOW_THRESHOLD, in chunks
    InboxCap,    \* capacity of the receiver's mpsc channel
    MaxFaults    \* bound: failed reads, changed files, closes, cancels, full disks

ASSUME NativeAssumption ==
    /\ IsFiniteSet(Machines) /\ Cardinality(Machines) = 2
    /\ {Size, HighWater, InboxCap, MaxFaults} \subseteq Nat /\ InboxCap > 0
    /\ LowWater \in 0..HighWater /\ Uniform \in BOOLEAN

File == [k \in 1..Size |-> IF Uniform THEN 1 ELSE k]
Chunks == 0..Size

VARIABLES
    open,       \* the data channel's state is Open
    wire,       \* what each machine has sent and the other has not got
    handler,    \* whose on_message closure each machine's channel has
    lowOf,      \* whose on_buffered_amount_low closure it has
    accepted,   \* accept_rx of each send
    cancelled,  \* its cancel flag
    reader,     \* its reader task
    writer,     \* its writer task
    slot,       \* mpsc::channel(1) between the two, and the writer's chunk after it
    next,       \* the next chunk the reader reads
    notified,   \* the permit stored in notify
    inbox,      \* mpsc::channel(100) of each receive
    rx,         \* the receive's local variables
    faults,
    out,        \* history: chunks the send has put on the channel
    agreed,     \* history: sends whose Metadata a receive has answered with Accept
    saved       \* history: files renamed into place

link == <<open, wire, handler, lowOf>>
sendVars == <<accepted, cancelled, reader, writer, slot, next, notified, out>>
receiveVars == <<inbox, rx, agreed, saved>>
vars == <<tvars, link, sendVars, receiveVars, faults>>

Message == [type: {"metadata", "accept", "cancel", "chunk", "eof"},
            id: Sends \cup {None}, data: Chunks]
Text(type, id) == [type |-> type, id |-> id, data |-> 0]
Binary(data) == [type |-> "chunk", id |-> None, data |-> data]

\* id is current_id; got is what the hasher has seen and received_size counts,
\* tmp the content of the open temporary file; mixed tells that a Metadata came
\* when chunks had been counted.
Receiving == [id: Sends \cup {None}, got: Seq(Chunks), tmp: Seq(Chunks), mixed: BOOLEAN]
NotReceiving == [id |-> None, got |-> <<>>, tmp |-> <<>>, mixed |-> FALSE]

Init ==
    /\ TableInit
    /\ open = TRUE
    /\ wire = [m \in Machines |-> <<>>]
    /\ handler = [m \in Machines |-> None]
    /\ lowOf = [m \in Machines |-> None]
    /\ accepted = [s \in Sends |-> "pending"]
    /\ cancelled = [s \in Sends |-> FALSE]
    /\ reader = [s \in Sends |-> "off"]
    /\ writer = [s \in Sends |-> "off"]
    /\ slot = [s \in Sends |-> <<>>]
    /\ next = [s \in Sends |-> 1]
    /\ notified = [s \in Sends |-> FALSE]
    /\ inbox = [r \in Receives |-> <<>>]
    /\ rx = [r \in Receives |-> NotReceiving]
    /\ faults = 0
    /\ out = [s \in Sends |-> 0]
    /\ agreed = {}
    /\ saved = {}

-----------------------------------------------------------------------------
Fault == faults < MaxFaults /\ faults' = faults + 1

Peer(m) == CHOOSE o \in Machines : o # m

\* send and send_text; on a closed channel they fail (the callers' ELSE).
Put(m, msg) == wire' = [wire EXCEPT ![m] = Append(@, msg)]

Buffered(m) == Len(SelectSeq(wire[m], LAMBDA msg : msg.type = "chunk"))

\* send_file up to its Metadata.
SendMetadata(s) ==
    /\ pc[s] = "begin"
    /\ IF open
       THEN Put(at[s], Text("metadata", s)) /\ Goto(s, "sent") /\ UNCHANGED <<table, owner, at>>
       ELSE EndCall(s, "error") /\ UNCHANGED wire
    /\ UNCHANGED <<open, handler, lowOf, sendVars, receiveVars, faults>>

\* The file cannot be opened.
OpenFails(s) ==
    /\ pc[s] = "begin"
    /\ Fault
    /\ EndCall(s, "error")
    /\ UNCHANGED <<link, sendVars, receiveVars>>

\* Only now on_message is set: an earlier answer finds the handler before it.
ListenForAnswer(s) ==
    /\ pc[s] = "sent"
    /\ Goto(s, "accept")
    /\ handler' = [handler EXCEPT ![at[s]] = s]
    /\ UNCHANGED <<table, owner, at, open, wire, lowOf, sendVars, receiveVars, faults>>

\* accept_rx answers: the two tasks start, or the send is over.
AnswerRead(s) ==
    /\ pc[s] = "accept" /\ accepted[s] # "pending"
    /\ IF accepted[s] = "yes" /\ ~cancelled[s]
       THEN /\ Goto(s, "join_reader")
            /\ lowOf' = [lowOf EXCEPT ![at[s]] = s]
            /\ reader' = [reader EXCEPT ![s] = "run"]
            /\ writer' = [writer EXCEPT ![s] = "recv"]
            /\ UNCHANGED <<table, owner, at>>
       ELSE EndCall(s, "error") /\ UNCHANGED <<lowOf, reader, writer>>
    /\ UNCHANGED <<open, wire, handler, accepted, cancelled, slot, next, notified, out,
                   receiveVars, faults>>

\* ACCEPT_TIMEOUT.
AcceptTimeout(s) ==
    /\ pc[s] = "accept" /\ accepted[s] = "pending"
    /\ EndCall(s, "error")
    /\ UNCHANGED <<link, sendVars, receiveVars, faults>>

-----------------------------------------------------------------------------
Writing(s) == writer[s] \in {"recv", "held", "high", "wait"}

\* Mutant: an unbounded channel between the two.
SlotUnbounded(s) == Len(slot[s]) < Size

\* What fits between reader and writer: a chunk in the channel, besides the one
\* the writer has taken.
SlotFree(s) == Len(slot[s]) < IF writer[s] = "recv" THEN 1 ELSE 2

\* The reader's next turn: a chunk into the channel, or the end of the file.
\* Once the writer has ended, tx.send fails and so ends the loop.
Read(s) ==
    /\ reader[s] = "run"
    /\ IF next[s] > Size \/ ~Writing(s)
       THEN /\ reader' = [reader EXCEPT
                             ![s] = IF next[s] <= Size /\ cancelled[s] THEN "error" ELSE "ok"]
            /\ UNCHANGED <<slot, next, faults>>
       ELSE /\ SlotFree(s)
            /\ \/ slot' = [slot EXCEPT ![s] = Append(@, File[next[s]])] /\ UNCHANGED faults
               \/ slot' = [slot EXCEPT ![s] = Append(@, 0)] /\ Fault
            /\ next' = [next EXCEPT ![s] = @ + 1]
            /\ UNCHANGED reader
    /\ UNCHANGED <<tvars, link, accepted, cancelled, writer, notified, out, receiveVars>>

\* read fails; the reader's end of the channel is dropped.
ReadFails(s) ==
    /\ reader[s] = "run"
    /\ Fault
    /\ reader' = [reader EXCEPT ![s] = "error"]
    /\ UNCHANGED <<tvars, link, accepted, cancelled, writer, slot, next, notified, out,
                   receiveVars>>

WriterGoes(s, label) == writer' = [writer EXCEPT ![s] = label]

\* rx.recv gives a chunk, which a cancelled send does not send.
TakeChunk(s) ==
    /\ writer[s] = "recv" /\ slot[s] # <<>>
    /\ WriterGoes(s, IF cancelled[s] THEN "error" ELSE "held")
    /\ UNCHANGED <<tvars, link, accepted, cancelled, reader, slot, next, notified, out,
                   receiveVars, faults>>

\* The backpressure guard: bail, send, or wait for the buffer to drain.
Guard(s) ==
    /\ writer[s] = "held"
    /\ CASE ~open -> WriterGoes(s, "error") /\ UNCHANGED <<wire, slot, out>>
         [] open /\ Buffered(at[s]) <= HighWater ->
              /\ Put(at[s], Binary(Head(slot[s])))
              /\ slot' = [slot EXCEPT ![s] = Tail(@)]
              /\ out' = [out EXCEPT ![s] = @ + 1]
              /\ WriterGoes(s, "recv")
         [] OTHER -> WriterGoes(s, "high") /\ UNCHANGED <<wire, slot, out>>
    /\ UNCHANGED <<tvars, open, handler, lowOf, accepted, cancelled, reader, next, notified,
                   receiveVars, faults>>

\* notify.notified(): registered a moment after the amount was looked at.
Await(s) ==
    /\ writer[s] = "high"
    /\ WriterGoes(s, "wait")
    /\ UNCHANGED <<tvars, link, accepted, cancelled, reader, slot, next, notified, out,
                   receiveVars, faults>>

Wake(s) ==
    /\ writer[s] = "wait" /\ notified[s]
    /\ notified' = [notified EXCEPT ![s] = FALSE]
    /\ WriterGoes(s, "held")
    /\ UNCHANGED <<tvars, link, accepted, cancelled, reader, slot, next, out, receiveVars, faults>>

\* The reader's end is dropped and the channel empty: Eof, whatever the
\* reader ended with.
SendEof(s) ==
    /\ writer[s] = "recv" /\ slot[s] = <<>> /\ reader[s] # "run"
    /\ IF open THEN Put(at[s], Text("eof", s)) /\ WriterGoes(s, "ok")
               ELSE WriterGoes(s, "error") /\ UNCHANGED wire
    /\ UNCHANGED <<tvars, open, handler, lowOf, accepted, cancelled, reader, slot, next,
                   notified, out, receiveVars, faults>>

\* Mutant: the writer is not joined.
JoinReaderOnly(s) ==
    /\ pc[s] = "join_reader" /\ reader[s] # "run"
    /\ EndCall(s, reader[s])
    /\ UNCHANGED <<link, sendVars, receiveVars, faults>>

\* reader_handle: its error ends send_file, and the writer runs on by itself.
JoinReader(s) ==
    /\ pc[s] = "join_reader" /\ reader[s] # "run"
    /\ IF reader[s] = "ok" THEN Goto(s, "join_writer") /\ UNCHANGED <<table, owner, at>>
                           ELSE EndCall(s, "error")
    /\ UNCHANGED <<link, sendVars, receiveVars, faults>>

\* Mutant: one question mark too few: the writer's own error is dropped.
JoinWriterLoosely(s) ==
    /\ pc[s] = "join_writer" /\ ~Writing(s)
    /\ EndCall(s, "ok")
    /\ UNCHANGED <<link, sendVars, receiveVars, faults>>

\* writer_handle.
JoinWriter(s) ==
    /\ pc[s] = "join_writer" /\ ~Writing(s)
    /\ EndCall(s, writer[s])
    /\ UNCHANGED <<link, sendVars, receiveVars, faults>>

-----------------------------------------------------------------------------
\* receive_file begins.
ListenForFile(r) ==
    /\ pc[r] = "begin"
    /\ Goto(r, "receive")
    /\ handler' = [handler EXCEPT ![at[r]] = r]
    /\ UNCHANGED <<table, owner, at, open, wire, lowOf, sendVars, receiveVars, faults>>

\* Mutant: only the size is compared.
FinalizeUnhashed(r, v) ==
    IF Len(v.got) = Size
    THEN EndCall(r, "ok") /\ saved' = saved \cup {[by |-> r, content |-> v.tmp, mixed |-> v.mixed]}
    ELSE EndCall(r, "error") /\ UNCHANGED saved

\* What receive_file does after its loop.
Finalize(r, v) ==
    IF v.got = File
    THEN EndCall(r, "ok") /\ saved' = saved \cup {[by |-> r, content |-> v.tmp, mixed |-> v.mixed]}
    ELSE EndCall(r, "error") /\ UNCHANGED saved

\* The loop goes on, unless as much as announced has been received.
AfterMessage(r, v) ==
    /\ rx' = [rx EXCEPT ![r] = v]
    /\ IF v.id # None /\ Len(v.got) >= Size THEN Finalize(r, v)
                                            ELSE UNCHANGED <<tvars, saved>>

ReceiveMetadata(r, msg) ==
    /\ IF open THEN /\ Put(at[r], Text("accept", msg.id))
                    /\ agreed' = agreed \cup {msg.id}
                    /\ AfterMessage(r, [rx[r] EXCEPT !.id = msg.id, !.tmp = <<>>,
                                                     !.mixed = @ \/ rx[r].got # <<>>])
               ELSE EndCall(r, "error") /\ UNCHANGED <<wire, rx, agreed, saved>>

ReceiveChunk(r, msg) ==
    /\ AfterMessage(r, IF rx[r].id = None THEN rx[r]
                       ELSE [rx[r] EXCEPT !.got = Append(@, msg.data), !.tmp = Append(@, msg.data)])
    /\ UNCHANGED <<wire, agreed>>

ReceiveEof(r, msg) ==
    /\ IF msg.id = rx[r].id THEN Finalize(r, rx[r]) /\ UNCHANGED rx
                            ELSE AfterMessage(r, rx[r])
    /\ UNCHANGED <<wire, agreed>>

\* One turn of receive_file's loop.
Receive(r) ==
    /\ pc[r] = "receive" /\ inbox[r] # <<>>
    /\ inbox' = [inbox EXCEPT ![r] = Tail(@)]
    /\ LET msg == Head(inbox[r])
       IN  CASE msg.type = "metadata" -> ReceiveMetadata(r, msg)
             [] msg.type = "chunk" -> ReceiveChunk(r, msg)
             [] msg.type = "eof" -> ReceiveEof(r, msg)
             [] msg.type = "cancel" /\ msg.id = rx[r].id ->
                  EndCall(r, "error") /\ UNCHANGED <<wire, rx, agreed, saved>>
             [] OTHER -> AfterMessage(r, rx[r]) /\ UNCHANGED <<wire, agreed>>
    /\ UNCHANGED <<open, handler, lowOf, sendVars, faults>>

\* create, write_all or rename fails.
DiskFails(r) ==
    /\ pc[r] = "receive" /\ inbox[r] # <<>> /\ Head(inbox[r]).type \in {"metadata", "chunk"}
    /\ Fault
    /\ EndCall(r, "error")
    /\ UNCHANGED <<link, sendVars, receiveVars>>

\* INACTIVITY_TIMEOUT.
InactivityTimeout(r) ==
    /\ pc[r] = "receive" /\ inbox[r] = <<>>
    /\ EndCall(r, "error")
    /\ UNCHANGED <<link, sendVars, receiveVars, faults>>

-----------------------------------------------------------------------------
\* Mutant: an Accept is taken whatever its id.
AnswerAnyId(msg, s) ==
    CASE msg.type = "accept" -> "yes"
      [] msg.type = "cancel" /\ msg.id = s -> "no"
      [] OTHER -> "dropped"

\* What a text message makes of a pending accept_tx: any but a Cancel with
\* another id takes it, and one that is no answer to s just drops it.
Answer(msg, s) ==
    CASE msg.type = "accept" /\ msg.id = s -> "yes"
      [] msg.type = "cancel" /\ msg.id = s -> "no"
      [] msg.type = "cancel" /\ msg.id # s -> "pending"
      [] OTHER -> "dropped"

\* A send's on_message.
Hear(s, msg) ==
    /\ accepted' = IF accepted[s] = "pending" /\ msg.type # "chunk"
                   THEN [accepted EXCEPT ![s] = Answer(msg, s)] ELSE accepted
    /\ cancelled' = [cancelled EXCEPT ![s] = @ \/ (msg.type = "cancel" /\ msg.id = s)]

\* Mutant: notify_waiters() instead of notify_one().
LowWaiting(m, msg) ==
    {s \in Sends : s = lowOf[m] /\ writer[s] = "wait"
                   /\ msg.type = "chunk" /\ Buffered(m) = LowWater + 1}

\* Whose notify_one() runs when msg leaves m's buffer: the buffer has drained
\* to the threshold.
Low(m, msg) ==
    {s \in Sends : s = lowOf[m] /\ msg.type = "chunk" /\ Buffered(m) = LowWater + 1}

\* The next message from m reaches the other end and the handler there.
Deliver(m) ==
    /\ wire[m] # <<>>
    /\ LET msg == Head(wire[m])
           h == handler[Peer(m)]
       IN  /\ notified' = [s \in Sends |-> notified[s] \/ s \in Low(m, msg)]
           /\ IF h \in Sends THEN Hear(h, msg) ELSE UNCHANGED <<accepted, cancelled>>
           /\ IF h \in Receives /\ pc[h] = "receive"
              THEN Len(inbox[h]) < InboxCap /\ inbox' = [inbox EXCEPT ![h] = Append(@, msg)]
              ELSE UNCHANGED inbox
    /\ wire' = [wire EXCEPT ![m] = Tail(@)]
    /\ UNCHANGED <<tvars, open, handler, lowOf, reader, writer, slot, next, out, rx, agreed,
                   saved, faults>>

\* An end whose user works with the Dart service, which speaks the same
\* protocol, can cancel a transfer.  (Its Reject ends a send in the same way.)
PeerCancels(s) ==
    /\ s \in agreed /\ open
    /\ Fault
    /\ \E m \in Machines : Put(m, Text("cancel", s))
    /\ UNCHANGED <<tvars, open, handler, lowOf, sendVars, receiveVars>>

\* The data channel closes, with what is on it.
ChannelCloses ==
    /\ open
    /\ Fault
    /\ open' = FALSE
    /\ wire' = [m \in Machines |-> <<>>]
    /\ UNCHANGED <<tvars, handler, lowOf, sendVars, receiveVars>>

SendFile(s) ==
    \/ SendMetadata(s) \/ ListenForAnswer(s) \/ AnswerRead(s) \/ AcceptTimeout(s)
    \/ JoinReader(s) \/ JoinWriter(s)

Writer(s) == TakeChunk(s) \/ Guard(s) \/ Await(s) \/ Wake(s) \/ SendEof(s)

ReceiveFile(r) == ListenForFile(r) \/ Receive(r) \/ InactivityTimeout(r)

Environment ==
    \/ \E s \in Sends : OpenFails(s) \/ ReadFails(s) \/ PeerCancels(s)
    \/ \E r \in Receives : DiskFails(r)
    \/ ChannelCloses

OnTable == TableStep /\ UNCHANGED <<link, sendVars, receiveVars, faults>>

Next ==
    \/ OnTable
    \/ \E s \in Sends : SendFile(s) \/ Read(s) \/ Writer(s)
    \/ \E r \in Receives : ReceiveFile(r)
    \/ \E m \in Machines : Deliver(m)
    \/ Environment

\* Tasks that can run do, timers fire, and an open channel delivers.
Fairness ==
    /\ \A c \in Calls : WF_vars(LockTable(c) /\ UNCHANGED <<link, sendVars, receiveVars, faults>>)
    /\ \A s \in Sends : WF_vars(SendFile(s)) /\ WF_vars(Read(s)) /\ WF_vars(Writer(s))
    /\ \A r \in Receives : WF_vars(ReceiveFile(r))
    /\ \A m \in Machines : WF_vars(Deliver(m))

Spec == Init /\ [][Next]_vars /\ Fairness

-----------------------------------------------------------------------------
\* Type invariant: the table, the tasks and the channel have the shapes their
\* types give them, and the mpsc channels keep their capacities.
TypeOK ==
    /\ registered \in [Machines -> 0..MaxRegister]
    /\ channel \in [Machines -> BOOLEAN] /\ adding \in [Machines -> BOOLEAN]
    /\ owner \in [Machines -> Calls \cup {None}]
    /\ at \in [Calls -> Machines] /\ pc \in [Calls -> PCs]
    /\ open \in BOOLEAN /\ wire \in [Machines -> Seq(Message)]
    /\ handler \in [Machines -> Calls \cup {None}]
    /\ lowOf \in [Machines -> Sends \cup {None}]
    /\ accepted \in [Sends -> {"pending", "yes", "no", "dropped"}]
    /\ cancelled \in [Sends -> BOOLEAN] /\ notified \in [Sends -> BOOLEAN]
    /\ reader \in [Sends -> {"off", "run", "ok", "error"}]
    /\ writer \in [Sends -> {"off", "recv", "held", "high", "wait", "ok", "error"}]
    /\ slot \in [Sends -> Seq(Chunks)] /\ \A s \in Sends : Len(slot[s]) <= IF writer[s] = "recv" THEN 1 ELSE 2
    /\ next \in [Sends -> 1..(Size + 1)] /\ out \in [Sends -> 0..Size]
    /\ inbox \in [Receives -> Seq(Message)] /\ \A r \in Receives : Len(inbox[r]) <= InboxCap
    /\ rx \in [Receives -> Receiving]
    /\ faults \in 0..MaxFaults
    /\ agreed \subseteq Sends
    /\ saved \subseteq [by: Receives, content: Seq(Chunks), mixed: BOOLEAN]

\* A writer that can still send belongs to the send that holds the machine's
\* guard and permit, unless its reader failed: then send_file has gone and the
\* writer sends on beside whatever transfer comes next.
WriterHasPermit ==
    \A s \in Sends : Writing(s) => owner[at[s]] = s \/ reader[s] = "error"

\* A send streams its file only if a receive has created a file for its very
\* Metadata, although Accepts for earlier sends arrive late at its handler.
StreamsWhatWasAccepted == \A s \in Sends : reader[s] # "off" => s \in agreed

\* A send that ends well has put all its chunks on the channel: no failure of
\* the two tasks, nor the one that makes the other end quietly, is lost.
OkMeansAllSent == \A s \in Sends : pc[s] = "ok" => out[s] = Size

\* What "Integrity check passed" says: a file that is saved is the file whose
\* hash was announced.  (It is not, see MixedNeedsFailedRead.)
SavedIsWhole == \A f \in saved : f.content = File

\* A saved file that is not whole was received after a second Metadata that
\* came in the midst of chunks, which takes a send whose file could not be read
\* or was cancelled: neither received_size nor the hasher starts again with the
\* new temporary file.
MixedNeedsFailedRead ==
    \A f \in saved :
        f.content # File =>
            f.mixed /\ \E s \in Sends : reader[s] = "error" \/ cancelled[s]

\* The channel closed under a writer that waits for its buffer to drain.
Stuck(c) == c \in Sends /\ ~open /\ writer[c] = "wait" /\ ~notified[c]

\* A call whose task has been spawned comes to its end, unless the guard of the
\* machine is with a send whose writer waits on a closed channel: no event will
\* wake that one, and it keeps the table for good.
TransfersEnd ==
    \A c \in Calls :
        pc[c] = "spawned" ~> pc[c] \in Over \/ Stuck(owner[at[c]])
=============================================================================
