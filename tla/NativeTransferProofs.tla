------------------------- MODULE NativeTransferProofs -------------------------
(***************************************************************************)
(* The Rust file transfer keeps its types, streams only what was accepted, *)
(* writes only with the permit, ends a send well only when all of its file *)
(* is on the channel, and mixes two transfers in a file only after a failed *)
(* read or a cancel: for any file, any number of calls and any number of   *)
(* faults.                                                                 *)
(***************************************************************************)
EXTENDS NativeTransfer, SequenceTheorems, FiniteSetTheorems, TLAPS

\* Between LockTable and EndCall.
Busy == {"begin", "sent", "accept", "join_reader", "join_writer", "receive"}

\* A call that is under way has the guard of its machine.
GuardHeld == \A c \in Calls : pc[c] \in Busy => owner[at[c]] = c

\* Where a send is tells what its two tasks can be doing.
TasksFollow ==
    \A s \in Sends :
        /\ writer[s] = "off" <=> reader[s] = "off"
        /\ reader[s] = "off" => slot[s] = <<>>
        /\ reader[s] # "off" => pc[s] \in {"join_reader", "join_writer", "ok", "error"}
        /\ pc[s] \in {"join_reader", "join_writer"} => reader[s] # "off"
        /\ pc[s] = "join_writer" => reader[s] = "ok"
        /\ Writing(s) => pc[s] \in {"join_reader", "join_writer"} \/ reader[s] = "error"

\* Every chunk that was read is on the channel or in the slot, the writer that
\* took a chunk still has it, and why each task ended.
NoChunkLost ==
    \A s \in Sends :
        /\ out[s] + Len(slot[s]) = next[s] - 1
        /\ writer[s] \in {"held", "high", "wait"} => slot[s] # <<>>
        /\ writer[s] = "ok" => slot[s] = <<>> /\ reader[s] \in {"ok", "error"}
        /\ reader[s] = "ok" => next[s] = Size + 1 \/ writer[s] = "error"

\* A Metadata names a send, and an Accept one that a receive has agreed to.
Genuine(msg) ==
    /\ msg.type = "metadata" => msg.id \in Sends
    /\ msg.type = "accept" => msg.id \in agreed

MessagesGenuine ==
    /\ \A m \in Machines : \A i \in 1..Len(wire[m]) : Genuine(wire[m][i])
    /\ \A r \in Receives : \A i \in 1..Len(inbox[r]) : Genuine(inbox[r][i])
    /\ \A s \in Sends : accepted[s] = "yes" => s \in agreed

TransferInv ==
    /\ TypeOK
    /\ GuardHeld
    /\ TasksFollow
    /\ NoChunkLost
    /\ MessagesGenuine
    /\ StreamsWhatWasAccepted
    /\ OkMeansAllSent

-----------------------------------------------------------------------------
(* Operators.                                                              *)

\* The other end is one of the two.
LEMMA PeerIsMachine == ASSUME NEW m \in Machines PROVE Peer(m) \in Machines
<1>1. \E o \in Machines : o # m
  <2>1. SUFFICES ASSUME Machines = {m} PROVE FALSE
    OBVIOUS
  <2>2. Cardinality({m}) = 1
    BY FS_Singleton
  <2>3. QED
    BY <2>1, <2>2, NativeAssumption
<1>2. QED
  BY <1>1 DEF Peer

\* The bounds are numbers.
LEMMA BoundsAreNat == Size \in Nat /\ HighWater \in Nat /\ InboxCap \in Nat /\ MaxFaults \in Nat
BY NativeAssumption

\* Chunks of the file and messages are what they should be.
LEMMA FileType == \A k \in 1..Size : File[k] \in Chunks
BY NativeAssumption DEF File, Chunks

LEMMA MessageType ==
  /\ \A type \in {"metadata", "accept", "cancel", "eof"}, id \in Sends \cup {None} :
       /\ Text(type, id) \in Message
       /\ Text(type, id).type = type /\ Text(type, id).id = id
  /\ \A data \in Chunks : Binary(data) \in Message /\ Binary(data).type = "chunk"
BY NativeAssumption DEF Text, Binary, Message, Chunks

\* What send puts on the wire is the last thing on it.
LEMMA PutSeq ==
  ASSUME TypeOK, NEW m \in Machines, NEW msg \in Message, Put(m, msg)
  PROVE  /\ wire' \in [Machines -> Seq(Message)]
         /\ \A n \in Machines :
              \A i \in 1..Len(wire'[n]) :
                \/ i \in 1..Len(wire[n]) /\ wire'[n][i] = wire[n][i]
                \/ wire'[n][i] = msg
<1>1. wire[m] \in Seq(Message)
  BY DEF TypeOK
<1>2. Append(wire[m], msg) \in Seq(Message)
      /\ Len(Append(wire[m], msg)) = Len(wire[m]) + 1
      /\ \A i \in 1..Len(wire[m]) : Append(wire[m], msg)[i] = wire[m][i]
      /\ Append(wire[m], msg)[Len(wire[m]) + 1] = msg
  BY <1>1, AppendProperties
<1>3. wire' = [wire EXCEPT ![m] = Append(wire[m], msg)]
  BY DEF Put
<1>4. wire' \in [Machines -> Seq(Message)]
  BY <1>2, <1>3 DEF TypeOK
<1>5. ASSUME NEW n \in Machines, NEW i \in 1..Len(wire'[n])
      PROVE  \/ i \in 1..Len(wire[n]) /\ wire'[n][i] = wire[n][i]
             \/ wire'[n][i] = msg
  <2>1. CASE n = m
    BY <1>1, <1>2, <1>3, <2>1, LenProperties DEF TypeOK
  <2>2. CASE n # m
    BY <1>3, <2>2 DEF TypeOK
  <2>3. QED
    BY <2>1, <2>2
<1>6. QED
  BY <1>4, <1>5

\* What is left of a sequence whose head is taken.
LEMMA TailSeq ==
  ASSUME NEW S, NEW q \in Seq(S), q # <<>>
  PROVE  /\ Head(q) \in S /\ Head(q) = q[1] /\ Len(q) \in Nat /\ 1 \in 1..Len(q)
         /\ Tail(q) \in Seq(S) /\ Len(Tail(q)) = Len(q) - 1
         /\ \A i \in 1..Len(Tail(q)) : i + 1 \in 1..Len(q) /\ Tail(q)[i] = q[i + 1]
BY HeadTailProperties, LenProperties, EmptySeq

\* What is left on a wire whose first message is taken.
LEMMA TakeSeq ==
  ASSUME TypeOK, NEW m \in Machines, wire[m] # <<>>, wire' = [wire EXCEPT ![m] = Tail(@)]
  PROVE  /\ Head(wire[m]) \in Message /\ Head(wire[m]) = wire[m][1] /\ 1 \in 1..Len(wire[m])
         /\ wire' \in [Machines -> Seq(Message)]
         /\ \A n \in Machines :
              \A i \in 1..Len(wire'[n]) : \E j \in 1..Len(wire[n]) : wire'[n][i] = wire[n][j]
<1>1. wire[m] \in Seq(Message)
  BY DEF TypeOK
<1>2. wire' \in [Machines -> Seq(Message)]
  BY <1>1, TailSeq DEF TypeOK
<1>3. ASSUME NEW n \in Machines, NEW i \in 1..Len(wire'[n])
      PROVE  \E j \in 1..Len(wire[n]) : wire'[n][i] = wire[n][j]
  <2>1. CASE n = m
    BY <1>1, <2>1, TailSeq DEF TypeOK
  <2>2. CASE n # m
    BY <2>2 DEF TypeOK
  <2>3. QED
    BY <2>1, <2>2
<1>4. QED
  BY <1>1, <1>2, <1>3, TailSeq

\* What the types say of a send's tasks.
LEMMA TaskTypes ==
  ASSUME TypeOK, NEW s \in Sends
  PROVE  /\ Size \in Nat
         /\ reader[s] \in {"off", "run", "ok", "error"}
         /\ writer[s] \in {"off", "recv", "held", "high", "wait", "ok", "error"}
         /\ slot[s] \in Seq(Chunks) /\ Len(slot[s]) \in Nat
         /\ Len(slot[s]) <= IF writer[s] = "recv" THEN 1 ELSE 2
         /\ next[s] \in Nat /\ 1 <= next[s] /\ next[s] <= Size + 1
         /\ out[s] \in Nat /\ out[s] <= Size
<1>1. Size \in Nat /\ next[s] \in 1..(Size + 1) /\ out[s] \in 0..Size /\ slot[s] \in Seq(Chunks)
  BY NativeAssumption DEF TypeOK
<1>2. QED
  BY <1>1, LenProperties DEF TypeOK

-----------------------------------------------------------------------------
(* The initial state.                                                      *)

LEMMA TransferInit == Init => TransferInv
<1> SUFFICES ASSUME Init PROVE TransferInv
  OBVIOUS
<1> USE TableAssumption, NativeAssumption, EmptySeq
<1>1. TypeOK
  BY DEF Init, TableInit, TypeOK, PCs, Calls, Chunks, Receiving, NotReceiving
<1>2. GuardHeld /\ TasksFollow /\ NoChunkLost
  BY DEF Init, TableInit, GuardHeld, TasksFollow, NoChunkLost, Busy, Writing, Calls
<1>3. MessagesGenuine /\ StreamsWhatWasAccepted /\ OkMeansAllSent
  BY DEF Init, TableInit, MessagesGenuine, StreamsWhatWasAccepted, OkMeansAllSent, Calls
<1>4. QED
  BY <1>1, <1>2, <1>3 DEF TransferInv

-----------------------------------------------------------------------------
(* send_file and its two tasks keep the invariant.                         *)

\* What TypeOK says of ConnectionTable.
TableTypeOK ==
    /\ registered \in [Machines -> 0..MaxRegister]
    /\ channel \in [Machines -> BOOLEAN] /\ adding \in [Machines -> BOOLEAN]
    /\ owner \in [Machines -> Calls \cup {None}]
    /\ at \in [Calls -> Machines] /\ pc \in [Calls -> PCs]

\* How a call ends, and what that leaves of GuardHeld.
LEMMA EndCallInv ==
  ASSUME TypeOK, GuardHeld, NEW c \in Calls, pc[c] \in Busy, NEW outcome \in Over,
         EndCall(c, outcome)
  PROVE  /\ TableTypeOK' /\ GuardHeld'
         /\ pc'[c] = outcome /\ \A d \in Calls : d # c => pc'[d] = pc[d]
BY DEF TypeOK, TableTypeOK, GuardHeld, Busy, Over, PCs, EndCall, Goto, table

\* A call that goes on within its transfer.
LEMMA GotoInv ==
  ASSUME TypeOK, GuardHeld, NEW c \in Calls, pc[c] \in Busy, NEW label \in Busy,
         Goto(c, label), UNCHANGED <<table, owner, at>>
  PROVE  /\ TableTypeOK' /\ GuardHeld'
         /\ pc'[c] = label /\ \A d \in Calls : d # c => pc'[d] = pc[d]
BY DEF TypeOK, TableTypeOK, GuardHeld, Busy, PCs, Goto, table

\* The parts of the invariant that no message and no table bears on.
TasksInv == TasksFollow /\ NoChunkLost /\ StreamsWhatWasAccepted /\ OkMeansAllSent

\* send_file's own steps.
LEMMA SendFileInv ==
  ASSUME TransferInv, NEW s \in Sends, SendFile(s)
  PROVE  TransferInv'
<1> USE TableAssumption, NativeAssumption DEF TransferInv
<1>1. s \in Calls /\ s # None /\ at[s] \in Machines
  BY DEF Calls, TypeOK
<1>2. CASE SendMetadata(s) /\ open
  <2>1. Goto(s, "sent") /\ UNCHANGED <<table, owner, at>> /\ pc[s] \in Busy
    BY <1>2 DEF SendMetadata, Busy
  <2>2. TableTypeOK' /\ GuardHeld' /\ pc'[s] = "sent" /\ \A d \in Calls : d # s => pc'[d] = pc[d]
    BY <1>1, <2>1, GotoInv DEF Busy
  <2>3. /\ wire' \in [Machines -> Seq(Message)]
        /\ \A n \in Machines : \A i \in 1..Len(wire'[n]) :
             \/ i \in 1..Len(wire[n]) /\ wire'[n][i] = wire[n][i]
             \/ wire'[n][i] = Text("metadata", s)
    BY <1>1, <1>2, MessageType, PutSeq DEF SendMetadata
  <2>4. TypeOK'
    BY <1>2, <2>2, <2>3 DEF SendMetadata, TypeOK, TableTypeOK, sendVars, receiveVars
  <2>5. TasksInv'
    BY <1>2, <2>2, <1>1 DEF SendMetadata, TasksInv, TasksFollow, NoChunkLost,
       StreamsWhatWasAccepted, OkMeansAllSent, Writing, sendVars, receiveVars, Calls
  <2>6. MessagesGenuine'
    <3>1. Genuine(Text("metadata", s))'
      BY MessageType DEF Genuine
    <3>2. \A msg : Genuine(msg) => Genuine(msg)'
      BY <1>2 DEF SendMetadata, Genuine, receiveVars
    <3>3. QED
      BY <1>2, <2>3, <3>1, <3>2 DEF SendMetadata, MessagesGenuine, sendVars, receiveVars
  <2>7. QED
    BY <2>2, <2>4, <2>5, <2>6 DEF TasksInv
<1>3. CASE /\ EndCall(s, "error") /\ pc[s] \in Busy
           /\ UNCHANGED <<link, sendVars, receiveVars, faults>>
           /\ pc[s] \in {"join_reader", "join_writer"} => ~Writing(s) \/ reader[s] = "error"
  <2>1. TableTypeOK' /\ GuardHeld' /\ pc'[s] = "error" /\ \A d \in Calls : d # s => pc'[d] = pc[d]
    BY <1>1, <1>3, EndCallInv DEF Over
  <2>2. TypeOK'
    BY <1>3, <2>1 DEF TypeOK, TableTypeOK, link, sendVars, receiveVars
  <2>3. TasksInv'
    BY <1>3, <2>1, <1>1 DEF TasksInv, TasksFollow, NoChunkLost,
       StreamsWhatWasAccepted, OkMeansAllSent, Writing, sendVars, receiveVars, Calls
  <2>4. MessagesGenuine'
    BY <1>3 DEF MessagesGenuine, Genuine, link, sendVars, receiveVars
  <2>5. QED
    BY <2>1, <2>2, <2>3, <2>4 DEF TasksInv
<1>4. CASE ListenForAnswer(s)
  <2>1. TableTypeOK' /\ GuardHeld' /\ pc'[s] = "accept" /\ \A d \in Calls : d # s => pc'[d] = pc[d]
    BY <1>1, <1>4, GotoInv DEF ListenForAnswer, Busy
  <2>2. TypeOK'
    BY <1>1, <1>4, <2>1 DEF ListenForAnswer, TypeOK, TableTypeOK, sendVars, receiveVars
  <2>3. TasksInv'
    BY <1>4, <2>1, <1>1 DEF ListenForAnswer, TasksInv, TasksFollow, NoChunkLost,
       StreamsWhatWasAccepted, OkMeansAllSent, Writing, sendVars, receiveVars, Calls
  <2>4. MessagesGenuine'
    BY <1>4 DEF ListenForAnswer, MessagesGenuine, Genuine, sendVars, receiveVars
  <2>5. QED
    BY <2>1, <2>2, <2>3, <2>4 DEF TasksInv
<1>5. CASE AnswerRead(s) /\ accepted[s] = "yes" /\ ~cancelled[s]
  <2>1. TableTypeOK' /\ GuardHeld' /\ pc'[s] = "join_reader"
        /\ \A d \in Calls : d # s => pc'[d] = pc[d]
    BY <1>1, <1>5, GotoInv DEF AnswerRead, Busy
  <2>2. reader[s] = "off" /\ writer[s] = "off" /\ slot[s] = <<>>
    BY <1>5 DEF AnswerRead, TasksFollow
  <2>3. TypeOK'
    <3>1. \A t \in Sends : Len(slot'[t]) <= IF writer'[t] = "recv" THEN 1 ELSE 2
      BY <1>5, <2>2 DEF AnswerRead, TypeOK
    <3>2. /\ lowOf' \in [Machines -> Sends \cup {None}]
          /\ reader' \in [Sends -> {"off", "run", "ok", "error"}]
          /\ writer' \in [Sends -> {"off", "recv", "held", "high", "wait", "ok", "error"}]
      <4>1. /\ lowOf' = [lowOf EXCEPT ![at[s]] = s]
            /\ reader' = [reader EXCEPT ![s] = "run"]
            /\ writer' = [writer EXCEPT ![s] = "recv"]
        BY <1>5 DEF AnswerRead
      <4>2. lowOf' \in [Machines -> Sends \cup {None}]
        BY <1>1, <4>1 DEF TypeOK
      <4>3. reader' \in [Sends -> {"off", "run", "ok", "error"}]
        BY <4>1 DEF TypeOK
      <4>4. writer' \in [Sends -> {"off", "recv", "held", "high", "wait", "ok", "error"}]
        BY <4>1 DEF TypeOK
      <4>5. QED
        BY <4>2, <4>3, <4>4
    <3>3. UNCHANGED <<open, wire, handler, accepted, cancelled, slot, next, notified, out,
                      receiveVars, faults>>
      BY <1>5 DEF AnswerRead
    <3>4. QED
      BY <2>1, <3>1, <3>2, <3>3 DEF TypeOK, TableTypeOK, receiveVars
  <2>4. TasksInv'
    <3>1. /\ writer'[s] = "recv" /\ reader'[s] = "run"
          /\ \A t \in Sends : t # s => writer'[t] = writer[t] /\ reader'[t] = reader[t]
          /\ UNCHANGED <<slot, next, out, agreed>>
      BY <1>5 DEF AnswerRead, TypeOK, receiveVars
    <3>2. s \in agreed
      BY <1>5 DEF MessagesGenuine
    <3>3. QED
      BY <2>1, <2>2, <3>1, <3>2, <1>1 DEF TasksInv, TasksFollow, NoChunkLost,
         StreamsWhatWasAccepted, OkMeansAllSent, Writing, Calls
  <2>5. MessagesGenuine'
    BY <1>5 DEF AnswerRead, MessagesGenuine, Genuine, receiveVars
  <2>6. QED
    BY <2>1, <2>3, <2>4, <2>5 DEF TasksInv
<1>6. CASE JoinReader(s) /\ reader[s] = "ok"
  <2>1. TableTypeOK' /\ GuardHeld' /\ pc'[s] = "join_writer"
        /\ \A d \in Calls : d # s => pc'[d] = pc[d]
    BY <1>1, <1>6, GotoInv DEF JoinReader, Busy
  <2>2. TypeOK'
    BY <1>6, <2>1 DEF JoinReader, TypeOK, TableTypeOK, link, sendVars, receiveVars
  <2>3. TasksInv'
    BY <1>6, <2>1, <1>1 DEF JoinReader, TasksInv, TasksFollow, NoChunkLost,
       StreamsWhatWasAccepted, OkMeansAllSent, Writing, sendVars, receiveVars, Calls
  <2>4. MessagesGenuine'
    BY <1>6 DEF JoinReader, MessagesGenuine, Genuine, link, sendVars, receiveVars
  <2>5. QED
    BY <2>1, <2>2, <2>3, <2>4 DEF TasksInv
<1>7. CASE JoinWriter(s)
  <2>1. writer[s] \in {"ok", "error"} /\ reader[s] = "ok"
    BY <1>7 DEF JoinWriter, TasksFollow, TypeOK, Writing
  <2>2. TableTypeOK' /\ GuardHeld' /\ pc'[s] = writer[s]
        /\ \A d \in Calls : d # s => pc'[d] = pc[d]
    BY <1>1, <1>7, <2>1, EndCallInv DEF JoinWriter, Over, Busy
  <2>3. TypeOK'
    BY <1>7, <2>2 DEF JoinWriter, TypeOK, TableTypeOK, link, sendVars, receiveVars
  <2>4. writer[s] = "ok" => out[s] = Size
    <3>1. Len(<<>>) = 0 /\ out[s] \in Nat /\ Size \in Nat
      BY DEF TypeOK
    <3>2. QED
      BY <2>1, <3>1 DEF NoChunkLost
  <2>5. TasksInv'
    BY <1>7, <2>1, <2>2, <2>4, <1>1 DEF JoinWriter, TasksInv, TasksFollow, NoChunkLost,
       StreamsWhatWasAccepted, OkMeansAllSent, Writing, sendVars, receiveVars, Calls
  <2>6. MessagesGenuine'
    BY <1>7 DEF JoinWriter, MessagesGenuine, Genuine, link, sendVars, receiveVars
  <2>7. QED
    BY <2>2, <2>3, <2>5, <2>6 DEF TasksInv
<1>8. \/ SendMetadata(s) /\ open
      \/ ListenForAnswer(s)
      \/ JoinWriter(s)
      \/ AnswerRead(s) /\ accepted[s] = "yes" /\ ~cancelled[s]
      \/ JoinReader(s) /\ reader[s] = "ok"
      \/ /\ EndCall(s, "error") /\ pc[s] \in Busy
         /\ UNCHANGED <<link, sendVars, receiveVars, faults>>
         /\ pc[s] \in {"join_reader", "join_writer"} => ~Writing(s) \/ reader[s] = "error"
  <2>1. CASE SendMetadata(s)
    BY <2>1 DEF SendMetadata, Busy, link
  <2>2. CASE AnswerRead(s)
    BY <2>2 DEF AnswerRead, Busy, link, sendVars
  <2>3. CASE AcceptTimeout(s)
    BY <2>3 DEF AcceptTimeout, Busy
  <2>4. CASE JoinReader(s)
    BY <2>4 DEF JoinReader, Busy, TasksFollow, TypeOK
  <2>5. QED
    BY <2>1, <2>2, <2>3, <2>4 DEF SendFile
<1>9. QED
  BY <1>2, <1>3, <1>4, <1>5, <1>6, <1>7, <1>8

\* The reader's steps.
LEMMA ReaderInv ==
  ASSUME TransferInv, NEW s \in Sends, Read(s) \/ ReadFails(s)
  PROVE  TransferInv'
<1> USE DEF TransferInv
<1>1. s \in Calls /\ Size \in Nat
  BY NativeAssumption DEF Calls
<1>2. TableTypeOK /\ UNCHANGED <<tvars, link, accepted, cancelled, writer, notified, out, receiveVars>>
  BY DEF Read, ReadFails, TypeOK, TableTypeOK
<1>3. GuardHeld' /\ TableTypeOK'
  BY <1>2 DEF GuardHeld, TableTypeOK, tvars, table
<1>4. MessagesGenuine'
  BY <1>2 DEF MessagesGenuine, Genuine, link, receiveVars
<1>5. CASE /\ UNCHANGED <<slot, next>> /\ faults' \in 0..MaxFaults
           /\ \E label \in {"ok", "error"} : reader' = [reader EXCEPT ![s] = label]
           /\ reader[s] = "run"
           /\ reader'[s] = "ok" => next[s] = Size + 1 \/ writer[s] = "error"
  <2>1. /\ reader' \in [Sends -> {"off", "run", "ok", "error"}]
        /\ reader'[s] \in {"ok", "error"} /\ \A t \in Sends : t # s => reader'[t] = reader[t]
    BY <1>5 DEF TypeOK
  <2>2. TypeOK'
    BY <1>2, <1>3, <1>5, <2>1 DEF TypeOK, TableTypeOK, link, receiveVars
  <2>3. TasksFollow' /\ StreamsWhatWasAccepted' /\ OkMeansAllSent'
    BY <1>2, <1>5, <2>1 DEF TasksFollow, StreamsWhatWasAccepted, OkMeansAllSent, Writing,
       tvars, receiveVars
  <2>4. NoChunkLost'
    BY <1>2, <1>5, <2>1 DEF NoChunkLost
  <2>5. QED
    BY <1>3, <1>4, <2>2, <2>3, <2>4
<1>6. CASE /\ reader[s] = "run" /\ UNCHANGED reader
           /\ next[s] <= Size /\ Writing(s) /\ SlotFree(s)
           /\ \E chunk \in Chunks : slot' = [slot EXCEPT ![s] = Append(@, chunk)]
           /\ next' = [next EXCEPT ![s] = @ + 1] /\ faults' \in 0..MaxFaults
  <2>1. PICK chunk \in Chunks : slot' = [slot EXCEPT ![s] = Append(@, chunk)]
    BY <1>6
  <2>2. slot[s] \in Seq(Chunks) /\ next[s] \in 1..(Size + 1) /\ Len(slot[s]) \in Nat
        /\ out[s] \in 0..Size
    BY TaskTypes
  <2>3. Append(slot[s], chunk) \in Seq(Chunks) /\ Append(slot[s], chunk) # <<>>
        /\ Len(Append(slot[s], chunk)) = Len(slot[s]) + 1
    BY <2>2, AppendProperties
  <2>4. slot' \in [Sends -> Seq(Chunks)] /\ Len(slot'[s]) = Len(slot[s]) + 1 /\ slot'[s] # <<>>
        /\ \A t \in Sends : t # s => slot'[t] = slot[t] /\ next'[t] = next[t]
    BY <1>6, <2>1, <2>3 DEF TypeOK
  <2>5. next' \in [Sends -> 1..(Size + 1)] /\ next'[s] = next[s] + 1
    BY <1>1, <1>6, <2>2 DEF TypeOK
  <2>6. \A t \in Sends : Len(slot'[t]) <= IF writer'[t] = "recv" THEN 1 ELSE 2
    BY <1>2, <1>6, <2>2, <2>4 DEF TypeOK, SlotFree
  <2>7. TypeOK'
    BY <1>2, <1>3, <1>6, <2>4, <2>5, <2>6 DEF TypeOK, TableTypeOK, link, receiveVars
  <2>8. NoChunkLost'
    <3>0. out[s] + Len(slot[s]) = next[s] - 1
      BY DEF NoChunkLost
    <3>1. out[s] + (Len(slot[s]) + 1) = (next[s] + 1) - 1
      BY <1>1, <2>2, <3>0
    <3>2. writer[s] # "ok" /\ reader[s] # "ok" /\ UNCHANGED <<writer, reader, out>>
      BY <1>2, <1>6 DEF Writing
    <3>3. QED
      BY <2>4, <2>5, <3>1, <3>2 DEF NoChunkLost
  <2>9. TasksFollow' /\ StreamsWhatWasAccepted' /\ OkMeansAllSent'
    BY <1>2, <1>6, <2>4 DEF TasksFollow, StreamsWhatWasAccepted, OkMeansAllSent, Writing,
       tvars, receiveVars
  <2>10. QED
    BY <1>3, <1>4, <2>7, <2>8, <2>9
<1>7. CASE Read(s) /\ (next[s] > Size \/ ~Writing(s))
  <2>1. ~Writing(s) => writer[s] = "error"
    BY <1>7 DEF Read, TasksFollow, NoChunkLost, TypeOK, Writing
  <2>2. next[s] > Size => next[s] = Size + 1
    BY TaskTypes
  <2>3. UNCHANGED <<slot, next, faults>> /\ reader[s] = "run"
        /\ \E label \in {"ok", "error"} : reader' = [reader EXCEPT ![s] = label]
    BY <1>7 DEF Read
  <2>4. QED
    BY <1>5, <1>7, <2>1, <2>2, <2>3 DEF TypeOK
<1>8. CASE Read(s) /\ ~(next[s] > Size \/ ~Writing(s))
  <2>1. next[s] \in 1..(Size + 1) /\ next[s] <= Size /\ Writing(s)
    BY <1>1, <1>8 DEF TypeOK
  <2>2. File[next[s]] \in Chunks /\ 0 \in Chunks
    BY <1>1, <2>1, FileType DEF Chunks
  <2>3. faults' \in 0..MaxFaults
    BY <1>8, BoundsAreNat DEF Read, Fault, TypeOK
  <2>4. QED
    BY <1>6, <1>8, <2>1, <2>2, <2>3 DEF Read
<1>9. CASE ReadFails(s)
  <2>1. faults' \in 0..MaxFaults
    BY <1>9, BoundsAreNat DEF ReadFails, Fault, TypeOK
  <2>2. QED
    BY <1>5, <1>9, <2>1 DEF ReadFails, TypeOK
<1>10. QED
  BY <1>7, <1>8, <1>9

\* The writer's steps.
LEMMA WriterInv ==
  ASSUME TransferInv, NEW s \in Sends, Writer(s)
  PROVE  TransferInv'
<1> USE DEF TransferInv
<1>1. s \in Calls /\ at[s] \in Machines /\ Size \in Nat
  BY NativeAssumption DEF Calls, TypeOK
<1>2. TableTypeOK /\ UNCHANGED <<tvars, open, handler, lowOf, accepted, cancelled, reader, next,
                                 receiveVars, faults>>
  BY DEF Writer, TakeChunk, Guard, Await, Wake, SendEof, TypeOK, TableTypeOK, link
<1>3. GuardHeld' /\ TableTypeOK'
  BY <1>2 DEF GuardHeld, TableTypeOK, tvars, table
<1>4. ASSUME NEW label, label \in {"recv", "held", "high", "wait", "ok", "error"},
             WriterGoes(s, label)
      PROVE  /\ writer' \in [Sends -> {"off", "recv", "held", "high", "wait", "ok", "error"}]
             /\ writer'[s] = label /\ \A t \in Sends : t # s => writer'[t] = writer[t]
  BY <1>4 DEF WriterGoes, TypeOK
\* A step that only looks and decides.
<1>5. CASE \E label \in {"held", "high", "wait", "error"} :
             /\ WriterGoes(s, label) /\ Writing(s)
             /\ label # "error" => slot[s] # <<>>
             /\ UNCHANGED <<wire, slot, out>> /\ notified' \in [Sends -> BOOLEAN]
  <2>1. PICK label \in {"held", "high", "wait", "error"} :
             /\ WriterGoes(s, label) /\ Writing(s)
             /\ label # "error" => slot[s] # <<>>
             /\ UNCHANGED <<wire, slot, out>> /\ notified' \in [Sends -> BOOLEAN]
    BY <1>5
  <2>2. /\ writer' \in [Sends -> {"off", "recv", "held", "high", "wait", "ok", "error"}]
        /\ writer'[s] = label /\ \A t \in Sends : t # s => writer'[t] = writer[t]
    BY <1>4, <2>1
  <2>3. Len(slot[s]) <= 2
    BY TaskTypes
  <2>4. TypeOK'
    <3>1. \A t \in Sends : Len(slot'[t]) <= IF writer'[t] = "recv" THEN 1 ELSE 2
      BY <2>1, <2>2, <2>3 DEF TypeOK
    <3>2. QED
      BY <1>2, <1>3, <2>1, <2>2, <3>1 DEF TypeOK, TableTypeOK, receiveVars
  <2>5. TasksFollow' /\ StreamsWhatWasAccepted' /\ OkMeansAllSent'
    BY <1>2, <2>1, <2>2 DEF TasksFollow, StreamsWhatWasAccepted, OkMeansAllSent, Writing,
       tvars, receiveVars
  <2>6. NoChunkLost'
    <3>1. ASSUME NEW t \in Sends, t # s
          PROVE  /\ out'[t] = out[t] /\ slot'[t] = slot[t] /\ next'[t] = next[t]
                 /\ writer'[t] = writer[t] /\ reader'[t] = reader[t]
      BY <1>2, <2>1, <2>2, <3>1
    <3>2. /\ out'[s] = out[s] /\ slot'[s] = slot[s] /\ next'[s] = next[s]
          /\ writer'[s] # "ok" /\ reader'[s] = reader[s]
          /\ writer'[s] \in {"held", "high", "wait"} => slot[s] # <<>>
          /\ writer[s] # "error"
      BY <1>2, <2>1, <2>2 DEF Writing
    <3>3. QED
      BY <3>1, <3>2 DEF NoChunkLost
  <2>7. MessagesGenuine'
    BY <1>2, <2>1 DEF MessagesGenuine, Genuine, receiveVars
  <2>8. QED
    BY <1>3, <2>4, <2>5, <2>6, <2>7
<1>6. CASE Guard(s) /\ open /\ Buffered(at[s]) <= HighWater
  <2>1. /\ writer[s] = "held" /\ slot[s] \in Seq(Chunks) /\ slot[s] # <<>>
        /\ Len(slot[s]) \in Nat /\ Len(slot[s]) <= 2 /\ out[s] \in Nat /\ next[s] \in Nat
        /\ next[s] <= Size + 1 /\ out[s] + Len(slot[s]) = next[s] - 1
    BY <1>6, TaskTypes DEF Guard, NoChunkLost
  <2>2. /\ Put(at[s], Binary(Head(slot[s])))
        /\ slot' = [slot EXCEPT ![s] = Tail(@)]
        /\ out' = [out EXCEPT ![s] = @ + 1]
        /\ WriterGoes(s, "recv") /\ UNCHANGED notified
    BY <1>6 DEF Guard
  <2>3. /\ Head(slot[s]) \in Chunks /\ Tail(slot[s]) \in Seq(Chunks)
        /\ Len(Tail(slot[s])) = Len(slot[s]) - 1 /\ 1 \in 1..Len(slot[s])
    BY <2>1, TailSeq
  <2>4. /\ slot' \in [Sends -> Seq(Chunks)] /\ Len(slot'[s]) = Len(slot[s]) - 1
        /\ \A t \in Sends : t # s => slot'[t] = slot[t] /\ out'[t] = out[t]
        /\ out'[s] = out[s] + 1 /\ out' \in [Sends -> 0..Size]
    BY <1>1, <2>1, <2>2, <2>3 DEF TypeOK
  <2>5. /\ writer' \in [Sends -> {"off", "recv", "held", "high", "wait", "ok", "error"}]
        /\ writer'[s] = "recv" /\ \A t \in Sends : t # s => writer'[t] = writer[t]
    BY <1>4, <2>2
  <2>6. /\ wire' \in [Machines -> Seq(Message)]
        /\ \A n \in Machines : \A i \in 1..Len(wire'[n]) :
             \/ i \in 1..Len(wire[n]) /\ wire'[n][i] = wire[n][i]
             \/ wire'[n][i] = Binary(Head(slot[s]))
    BY <1>1, <2>2, <2>3, MessageType, PutSeq
  <2>7. TypeOK'
    <3>1. \A t \in Sends : Len(slot'[t]) <= IF writer'[t] = "recv" THEN 1 ELSE 2
      <4>1. Len(slot'[s]) <= 1
        BY <2>1, <2>4
      <4>2. QED
        BY <2>4, <2>5, <4>1 DEF TypeOK
    <3>2. QED
      BY <1>2, <1>3, <2>2, <2>4, <2>5, <2>6, <3>1 DEF TypeOK, TableTypeOK, receiveVars
  <2>8. NoChunkLost'
    <3>1. out'[s] + Len(slot'[s]) = next[s] - 1
      BY <2>1, <2>4
    <3>2. QED
      BY <1>2, <2>1, <2>4, <2>5, <3>1 DEF NoChunkLost
  <2>9. TasksFollow' /\ StreamsWhatWasAccepted'
    BY <1>2, <2>1, <2>4, <2>5 DEF TasksFollow, StreamsWhatWasAccepted, Writing, tvars, receiveVars
  <2>10. OkMeansAllSent'
    <3>1. out[s] # Size
      BY <1>1, <2>1, <2>3
    <3>2. QED
      BY <1>2, <2>4, <3>1 DEF OkMeansAllSent, tvars
  <2>11. MessagesGenuine'
    <3>1. \A msg : Genuine(msg) => Genuine(msg)'
      BY <1>2 DEF Genuine, receiveVars
    <3>2. ASSUME NEW msg, msg = Binary(Head(slot[s]))
          PROVE  Genuine(msg)'
      BY <2>3, <3>2, MessageType DEF Genuine
    <3>3. ASSUME NEW n \in Machines, NEW i \in 1..Len(wire'[n])
          PROVE  Genuine(wire[n][i])'
      BY <2>6, <3>1, <3>2 DEF MessagesGenuine
    <3>4. QED
      BY <1>2, <3>1, <3>3 DEF MessagesGenuine, receiveVars
  <2>12. QED
    BY <1>3, <2>7, <2>8, <2>9, <2>10, <2>11
<1>7. CASE SendEof(s)
  <2>1. PICK label \in {"ok", "error"} : WriterGoes(s, label) /\ UNCHANGED <<slot, notified, out>>
    BY <1>7 DEF SendEof
  <2>2. /\ writer[s] = "recv" /\ slot[s] = <<>> /\ Len(slot[s]) <= 1
        /\ reader[s] \in {"ok", "error"}
    BY <1>7, TaskTypes DEF SendEof, TasksFollow
  <2>3. /\ writer' \in [Sends -> {"off", "recv", "held", "high", "wait", "ok", "error"}]
        /\ writer'[s] = label /\ \A t \in Sends : t # s => writer'[t] = writer[t]
    BY <1>4, <2>1
  <2>4. /\ wire' \in [Machines -> Seq(Message)]
        /\ \A n \in Machines : \A i \in 1..Len(wire'[n]) :
             \/ i \in 1..Len(wire[n]) /\ wire'[n][i] = wire[n][i]
             \/ wire'[n][i] = Text("eof", s)
    <3>1. Text("eof", s) \in Message
      BY MessageType
    <3>2. CASE open
      BY <1>1, <1>7, <3>1, <3>2, PutSeq DEF SendEof
    <3>3. CASE ~open
      BY <1>7, <3>3 DEF SendEof, TypeOK
    <3>4. QED
      BY <3>2, <3>3
  <2>5. TypeOK'
    <3>1. \A t \in Sends : Len(slot'[t]) <= IF writer'[t] = "recv" THEN 1 ELSE 2
      BY <2>1, <2>2, <2>3 DEF TypeOK
    <3>2. QED
      BY <1>2, <1>3, <2>1, <2>3, <2>4, <3>1 DEF TypeOK, TableTypeOK, receiveVars
  <2>6. TasksInv'
    BY <1>2, <2>1, <2>2, <2>3 DEF TasksInv, TasksFollow, NoChunkLost, StreamsWhatWasAccepted,
       OkMeansAllSent, Writing, tvars, receiveVars
  <2>7. MessagesGenuine'
    <3>1. \A msg : Genuine(msg) => Genuine(msg)'
      BY <1>2 DEF Genuine, receiveVars
    <3>2. Genuine(Text("eof", s))'
      BY MessageType DEF Genuine
    <3>3. QED
      BY <1>2, <2>4, <3>1, <3>2 DEF MessagesGenuine, receiveVars
  <2>8. QED
    BY <1>3, <2>5, <2>6, <2>7 DEF TasksInv
<1>8. CASE TakeChunk(s)
  BY <1>5, <1>8 DEF TakeChunk, Writing, TypeOK, link
<1>9. CASE Guard(s) /\ ~(open /\ Buffered(at[s]) <= HighWater)
  <2>1. slot[s] # <<>> /\ Writing(s)
    BY <1>9 DEF Guard, NoChunkLost, Writing
  <2>2. QED
    BY <1>5, <1>9, <2>1 DEF Guard, TypeOK
<1>10. CASE Await(s) \/ Wake(s)
  <2>1. slot[s] # <<>> /\ Writing(s)
    BY <1>10 DEF Await, Wake, NoChunkLost, Writing
  <2>2. QED
    BY <1>5, <1>10, <2>1 DEF Await, Wake, TypeOK, link
<1>11. QED
  BY <1>6, <1>7, <1>8, <1>9, <1>10 DEF Writer

-----------------------------------------------------------------------------
(* receive_file keeps the invariant.                                       *)

\* A step of somebody else leaves what is said of the sends' tasks.
LEMMA KeepTasks ==
  ASSUME TasksInv, UNCHANGED <<reader, writer, slot, next, out>>, agreed \subseteq agreed',
         \A s \in Sends : pc'[s] = pc[s]
  PROVE  TasksInv'
BY DEF TasksInv, TasksFollow, NoChunkLost, StreamsWhatWasAccepted, OkMeansAllSent, Writing

\* The end of receive_file, and the end of one turn of its loop.
LEMMA FinalizeInv ==
  ASSUME TypeOK, GuardHeld, NEW r \in Receives, pc[r] = "receive", NEW v \in Receiving,
         \/ Finalize(r, v) /\ UNCHANGED rx
         \/ AfterMessage(r, v)
         \/ EndCall(r, "error") /\ UNCHANGED <<rx, saved>>
  PROVE  /\ TableTypeOK' /\ GuardHeld' /\ rx' \in [Receives -> Receiving]
         /\ saved' \subseteq [by: Receives, content: Seq(Chunks), mixed: BOOLEAN]
         /\ \A d \in Calls : d # r => pc'[d] = pc[d]
<1>1. r \in Calls /\ pc[r] \in Busy /\ TableTypeOK
  BY DEF Calls, Busy, TypeOK, TableTypeOK
<1>2. [by |-> r, content |-> v.tmp, mixed |-> v.mixed]
         \in [by: Receives, content: Seq(Chunks), mixed: BOOLEAN]
  BY DEF Receiving
<1>3. saved' \subseteq [by: Receives, content: Seq(Chunks), mixed: BOOLEAN]
  BY <1>2 DEF TypeOK, Finalize, AfterMessage
<1>4. rx' \in [Receives -> Receiving]
  BY DEF TypeOK, AfterMessage
<1>5. CASE \E outcome \in {"ok", "error"} : EndCall(r, outcome)
  BY <1>1, <1>3, <1>4, <1>5, EndCallInv DEF Over
<1>6. CASE UNCHANGED tvars
  BY <1>1, <1>3, <1>4, <1>6 DEF tvars, table, TableTypeOK, GuardHeld
<1>7. QED
  BY <1>5, <1>6 DEF Finalize, AfterMessage

\* The receive's steps.
LEMMA ReceiveFileInv ==
  ASSUME TransferInv, NEW r \in Receives, ReceiveFile(r)
  PROVE  TransferInv'
<1> USE DEF TransferInv
<1>1. /\ r \in Calls /\ at[r] \in Machines /\ rx[r] \in Receiving /\ inbox[r] \in Seq(Message)
      /\ \A s \in Sends : s \in Calls /\ s # r
      /\ TableTypeOK /\ TasksInv
  BY TableAssumption DEF Calls, TypeOK, TableTypeOK, TasksInv
<1>2. CASE ListenForFile(r)
  <2>1. TableTypeOK' /\ GuardHeld' /\ \A d \in Calls : d # r => pc'[d] = pc[d]
    BY <1>1, <1>2, GotoInv DEF ListenForFile, Busy
  <2>2. handler' \in [Machines -> Calls \cup {None}]
    BY <1>1, <1>2 DEF ListenForFile, TypeOK
  <2>3. TypeOK'
    BY <1>2, <2>1, <2>2 DEF ListenForFile, TypeOK, TableTypeOK, sendVars, receiveVars
  <2>4. TasksInv'
    BY <1>1, <1>2, <2>1, KeepTasks DEF ListenForFile, sendVars, receiveVars
  <2>5. MessagesGenuine'
    BY <1>2 DEF ListenForFile, MessagesGenuine, Genuine, sendVars, receiveVars
  <2>6. QED
    BY <2>1, <2>3, <2>4, <2>5 DEF TasksInv
<1>3. CASE InactivityTimeout(r)
  <2>1. TableTypeOK' /\ GuardHeld' /\ \A d \in Calls : d # r => pc'[d] = pc[d]
    BY <1>1, <1>3, EndCallInv DEF InactivityTimeout, Busy, Over
  <2>2. TypeOK'
    BY <1>3, <2>1 DEF InactivityTimeout, TypeOK, TableTypeOK, link, sendVars, receiveVars
  <2>3. TasksInv'
    BY <1>1, <1>3, <2>1, KeepTasks DEF InactivityTimeout, sendVars, receiveVars
  <2>4. MessagesGenuine'
    BY <1>3 DEF InactivityTimeout, MessagesGenuine, Genuine, link, sendVars, receiveVars
  <2>5. QED
    BY <2>1, <2>2, <2>3, <2>4 DEF TasksInv
<1>4. CASE Receive(r)
  <2> DEFINE msg == Head(inbox[r])
  <2>1. /\ pc[r] = "receive" /\ inbox[r] # <<>> /\ inbox' = [inbox EXCEPT ![r] = Tail(@)]
        /\ UNCHANGED <<open, handler, lowOf, sendVars, faults>>
    BY <1>4 DEF Receive
  <2>2. msg \in Message /\ msg = inbox[r][1] /\ 1 \in 1..Len(inbox[r])
    BY <1>1, <2>1, TailSeq
  <2>3. Genuine(msg)
    BY <2>2 DEF MessagesGenuine
  <2>4. /\ inbox' \in [Receives -> Seq(Message)]
        /\ \A q \in Receives : Len(inbox'[q]) <= InboxCap
        /\ \A q \in Receives : \A i \in 1..Len(inbox'[q]) :
             \E j \in 1..Len(inbox[q]) : inbox'[q][i] = inbox[q][j]
    <3>1. /\ Tail(inbox[r]) \in Seq(Message) /\ Len(Tail(inbox[r])) <= InboxCap
          /\ \A i \in 1..Len(Tail(inbox[r])) :
               \E j \in 1..Len(inbox[r]) : Tail(inbox[r])[i] = inbox[r][j]
      <4>1. Len(Tail(inbox[r])) = Len(inbox[r]) - 1 /\ Len(inbox[r]) \in Nat
        BY <1>1, <2>1, TailSeq
      <4>2. Len(inbox[r]) <= InboxCap
        BY DEF TypeOK
      <4>3. QED
        BY <1>1, <2>1, <4>1, <4>2, TailSeq, BoundsAreNat
    <3>2. /\ inbox'[r] = Tail(inbox[r])
          /\ \A q \in Receives : q # r => inbox'[q] = inbox[q]
      BY <2>1 DEF TypeOK
    <3>3. inbox' \in [Receives -> Seq(Message)]
      BY <2>1, <3>1 DEF TypeOK
    <3>4. \A q \in Receives : Len(inbox'[q]) <= InboxCap
      BY <3>1, <3>2 DEF TypeOK
    <3>5. ASSUME NEW q \in Receives, NEW i \in 1..Len(inbox'[q])
          PROVE  \E j \in 1..Len(inbox[q]) : inbox'[q][i] = inbox[q][j]
      <4>1. CASE q = r
        BY <3>1, <3>2, <4>1
      <4>2. CASE q # r
        BY <3>2, <4>2
      <4>3. QED
        BY <4>1, <4>2
    <3>6. QED
      BY <3>3, <3>4, <3>5
  \* What the five kinds of messages do besides.
  <2>5. /\ \E v \in Receiving : \/ Finalize(r, v) /\ UNCHANGED rx
                                \/ AfterMessage(r, v)
                                \/ EndCall(r, "error") /\ UNCHANGED <<rx, saved>>
        /\ \/ UNCHANGED <<wire, agreed>>
           \/ /\ msg.id \in Sends /\ agreed' = agreed \cup {msg.id}
              /\ Put(at[r], Text("accept", msg.id))
    <3>1. CASE msg.type = "metadata"
      <4>1. ReceiveMetadata(r, msg) /\ msg.id \in Sends
        BY <1>4, <2>3, <3>1 DEF Receive, Genuine
      <4>2. [rx[r] EXCEPT !.id = msg.id, !.tmp = <<>>, !.mixed = @ \/ rx[r].got # <<>>] \in Receiving
        BY <1>1, <4>1, EmptySeq DEF Receiving
      <4>3. QED
        BY <1>1, <4>1, <4>2 DEF ReceiveMetadata
    <3>2. CASE msg.type = "chunk"
      <4>1. ReceiveChunk(r, msg)
        BY <1>4, <3>2 DEF Receive
      <4>2. msg.data \in Chunks
        BY <2>2 DEF Message
      <4>3. [rx[r] EXCEPT !.got = Append(@, msg.data), !.tmp = Append(@, msg.data)] \in Receiving
        BY <1>1, <4>2, AppendProperties DEF Receiving
      <4>4. QED
        BY <1>1, <4>1, <4>3 DEF ReceiveChunk
    <3>3. CASE msg.type = "eof"
      BY <1>1, <1>4, <3>3 DEF Receive, ReceiveEof
    <3>4. CASE msg.type = "cancel" /\ msg.id = rx[r].id
      BY <1>1, <1>4, <3>4 DEF Receive
    <3>5. CASE /\ msg.type \notin {"metadata", "chunk", "eof"}
               /\ ~(msg.type = "cancel" /\ msg.id = rx[r].id)
      BY <1>1, <1>4, <3>5 DEF Receive
    <3>6. QED
      BY <3>1, <3>2, <3>3, <3>4, <3>5
  <2>6. /\ TableTypeOK' /\ GuardHeld' /\ rx' \in [Receives -> Receiving]
        /\ saved' \subseteq [by: Receives, content: Seq(Chunks), mixed: BOOLEAN]
        /\ \A d \in Calls : d # r => pc'[d] = pc[d]
    BY <2>1, <2>5, FinalizeInv
  <2>7. /\ agreed \subseteq agreed' /\ agreed' \subseteq Sends
        /\ wire' \in [Machines -> Seq(Message)]
        /\ \A n \in Machines : \A i \in 1..Len(wire'[n]) :
             \/ i \in 1..Len(wire[n]) /\ wire'[n][i] = wire[n][i]
             \/ /\ wire'[n][i].type = "accept" /\ wire'[n][i].id \in agreed'
    <3>1. CASE UNCHANGED <<wire, agreed>>
      BY <3>1 DEF TypeOK
    <3>2. CASE /\ msg.id \in Sends /\ agreed' = agreed \cup {msg.id}
               /\ Put(at[r], Text("accept", msg.id))
      <4>1. /\ Text("accept", msg.id) \in Message /\ Text("accept", msg.id).type = "accept"
            /\ Text("accept", msg.id).id \in agreed'
        BY <3>2, MessageType
      <4>2. /\ wire' \in [Machines -> Seq(Message)]
            /\ \A n \in Machines : \A i \in 1..Len(wire'[n]) :
                 \/ i \in 1..Len(wire[n]) /\ wire'[n][i] = wire[n][i]
                 \/ wire'[n][i] = Text("accept", msg.id)
        BY <1>1, <3>2, <4>1, PutSeq
      <4>3. agreed \subseteq agreed' /\ agreed' \subseteq Sends
        BY <3>2 DEF TypeOK
      <4>4. QED
        BY <4>1, <4>2, <4>3
    <3>3. QED
      BY <2>5, <3>1, <3>2
  <2>8. TypeOK'
    BY <2>1, <2>4, <2>6, <2>7 DEF TypeOK, TableTypeOK, sendVars
  <2>9. TasksInv'
    BY <1>1, <2>1, <2>6, <2>7, KeepTasks DEF sendVars
  <2>10. MessagesGenuine'
    <3>1. \A m : Genuine(m) => Genuine(m)'
      BY <2>7 DEF Genuine
    <3>2. ASSUME NEW n \in Machines, NEW i \in 1..Len(wire'[n])
          PROVE  Genuine(wire[n][i])'
      BY <2>7, <3>1 DEF MessagesGenuine, Genuine
    <3>3. ASSUME NEW q \in Receives, NEW i \in 1..Len(inbox'[q])
          PROVE  Genuine(inbox[q][i])'
      BY <2>4, <3>1 DEF MessagesGenuine
    <3>4. QED
      BY <2>1, <2>7, <3>2, <3>3 DEF MessagesGenuine, sendVars
  <2>11. QED
    BY <2>6, <2>8, <2>9, <2>10 DEF TasksInv
<1>5. QED
  BY <1>2, <1>3, <1>4 DEF ReceiveFile

-----------------------------------------------------------------------------
(* The channel, the environment and the table keep the invariant.          *)

\* A step that leaves the calls and the sends' tasks, and puts nothing on the
\* wire or into an inbox that was not on the wire or is no answer.
LEMMA ChannelInv ==
  ASSUME TransferInv, UNCHANGED <<tvars, handler, lowOf, reader, writer, slot, next, out, rx,
                                  agreed, saved>>,
         open' \in BOOLEAN, faults' \in 0..MaxFaults,
         notified' \in [Sends -> BOOLEAN], cancelled' \in [Sends -> BOOLEAN],
         accepted' \in [Sends -> {"pending", "yes", "no", "dropped"}],
         \A s \in Sends : accepted'[s] = "yes" => s \in agreed,
         wire' \in [Machines -> Seq(Message)],
         \A n \in Machines : \A i \in 1..Len(wire'[n]) : Genuine(wire'[n][i]),
         inbox' \in [Receives -> Seq(Message)], \A r \in Receives : Len(inbox'[r]) <= InboxCap,
         \A r \in Receives : \A i \in 1..Len(inbox'[r]) : Genuine(inbox'[r][i])
  PROVE  TransferInv'
<1> USE DEF TransferInv
<1>1. TypeOK'
  BY DEF TypeOK, tvars, table
<1>2. GuardHeld'
  BY DEF GuardHeld, tvars, table
<1>3. TasksInv'
  BY KeepTasks DEF TasksInv, tvars
<1>4. MessagesGenuine'
  BY DEF MessagesGenuine, Genuine
<1>5. QED
  BY <1>1, <1>2, <1>3, <1>4 DEF TasksInv

\* A message that arrives: at a send it may answer it, at a receive it waits.
LEMMA DeliverInv ==
  ASSUME TransferInv, NEW m \in Machines, Deliver(m)
  PROVE  TransferInv'
<1> USE DEF TransferInv
<1> DEFINE msg == Head(wire[m])
           h == handler[Peer(m)]
<1>1. /\ wire[m] # <<>> /\ wire' = [wire EXCEPT ![m] = Tail(@)]
      /\ UNCHANGED <<tvars, open, handler, lowOf, reader, writer, slot, next, out, rx, agreed,
                     saved, faults>>
      /\ notified' = [s \in Sends |-> notified[s] \/ s \in Low(m, msg)]
      /\ IF h \in Sends THEN Hear(h, msg) ELSE UNCHANGED <<accepted, cancelled>>
      /\ IF h \in Receives /\ pc[h] = "receive"
         THEN Len(inbox[h]) < InboxCap /\ inbox' = [inbox EXCEPT ![h] = Append(@, msg)]
         ELSE UNCHANGED inbox
  BY DEF Deliver
<1>2. /\ msg \in Message /\ msg = wire[m][1] /\ 1 \in 1..Len(wire[m])
      /\ wire' \in [Machines -> Seq(Message)]
      /\ \A n \in Machines :
           \A i \in 1..Len(wire'[n]) : \E j \in 1..Len(wire[n]) : wire'[n][i] = wire[n][j]
  BY <1>1, TakeSeq
<1>3. Genuine(msg)
  BY <1>2 DEF MessagesGenuine
<1>4. \A n \in Machines : \A i \in 1..Len(wire'[n]) : Genuine(wire'[n][i])
  BY <1>2 DEF MessagesGenuine
<1>5. /\ accepted' \in [Sends -> {"pending", "yes", "no", "dropped"}]
      /\ cancelled' \in [Sends -> BOOLEAN]
      /\ \A s \in Sends : accepted'[s] = "yes" => s \in agreed
  <2>1. CASE h \in Sends
    <3>1. Hear(h, msg)
      BY <1>1, <2>1
    <3>2. /\ Answer(msg, h) \in {"pending", "yes", "no", "dropped"}
          /\ Answer(msg, h) = "yes" => h \in agreed
      BY <1>3 DEF Answer, Genuine
    <3>3. QED
      BY <2>1, <3>1, <3>2 DEF Hear, TypeOK, MessagesGenuine
  <2>2. CASE h \notin Sends
    BY <1>1, <2>2 DEF TypeOK, MessagesGenuine
  <2>3. QED
    BY <2>1, <2>2
<1>6. /\ inbox' \in [Receives -> Seq(Message)] /\ \A r \in Receives : Len(inbox'[r]) <= InboxCap
      /\ \A r \in Receives : \A i \in 1..Len(inbox'[r]) : Genuine(inbox'[r][i])
  <2>1. CASE UNCHANGED inbox
    BY <2>1 DEF TypeOK, MessagesGenuine
  <2>2. CASE /\ h \in Receives /\ Len(inbox[h]) < InboxCap
             /\ inbox' = [inbox EXCEPT ![h] = Append(@, msg)]
    <3>1. inbox[h] \in Seq(Message)
      BY <2>2 DEF TypeOK
    <3>2. /\ Append(inbox[h], msg) \in Seq(Message)
          /\ Len(Append(inbox[h], msg)) = Len(inbox[h]) + 1 /\ Len(inbox[h]) \in Nat
          /\ \A i \in 1..Len(inbox[h]) : Append(inbox[h], msg)[i] = inbox[h][i]
          /\ Append(inbox[h], msg)[Len(inbox[h]) + 1] = msg
      BY <1>2, <3>1, AppendProperties, LenProperties
    <3>3. /\ inbox'[h] = Append(inbox[h], msg)
          /\ \A q \in Receives : q # h => inbox'[q] = inbox[q]
          /\ inbox' \in [Receives -> Seq(Message)]
      BY <2>2, <3>2 DEF TypeOK
    <3>4. \A r \in Receives : Len(inbox'[r]) <= InboxCap
      BY <2>2, <3>2, <3>3, BoundsAreNat DEF TypeOK
    <3>5. ASSUME NEW i \in 1..Len(inbox'[h])
          PROVE  Genuine(inbox'[h][i])
      <4>1. CASE i \in 1..Len(inbox[h])
        BY <2>2, <3>2, <3>3, <4>1 DEF MessagesGenuine
      <4>2. CASE i = Len(inbox[h]) + 1
        BY <1>3, <3>2, <3>3, <4>2
      <4>3. QED
        BY <3>2, <3>3, <4>1, <4>2
    <3>6. QED
      BY <3>3, <3>4, <3>5 DEF MessagesGenuine
  <2>3. QED
    BY <1>1, <2>1, <2>2
<1>7. notified' \in [Sends -> BOOLEAN] /\ open' \in BOOLEAN /\ faults' \in 0..MaxFaults
  BY <1>1 DEF TypeOK
<1>8. QED
  BY <1>1, <1>2, <1>4, <1>5, <1>6, <1>7, ChannelInv

\* The calls are called, and the connection comes and goes.
LEMMA OnTableInv == ASSUME TransferInv, OnTable PROVE TransferInv'
<1> USE TableAssumption DEF TransferInv
<1>1. UNCHANGED <<link, sendVars, receiveVars, faults>>
  BY DEF OnTable
<1>2. /\ TableTypeOK' /\ GuardHeld'
      /\ \A s \in Sends :
           \/ pc'[s] = pc[s]
           \/ pc[s] \in {"new", "spawned"} /\ pc'[s] \in {"spawned", "begin", "not_found"}
  <2>0. TableTypeOK /\ MaxRegister \in Nat
    BY DEF TypeOK, TableTypeOK
  <2>1. ASSUME NEW m \in Machines,
               RegisterConnection(m) \/ AddDataChannel(m) \/ InsertChannel(m)
        PROVE  TableTypeOK' /\ GuardHeld' /\ UNCHANGED pc
    <3>1. UNCHANGED <<owner, at, pc>>
      BY <2>1 DEF RegisterConnection, AddDataChannel, InsertChannel
    <3>2. /\ registered' \in [Machines -> 0..MaxRegister]
          /\ channel' \in [Machines -> BOOLEAN] /\ adding' \in [Machines -> BOOLEAN]
      <4>1. CASE RegisterConnection(m)
        <5>1. registered[m] + 1 \in 0..MaxRegister
          BY <2>0, <4>1 DEF RegisterConnection, TableTypeOK
        <5>2. QED
          BY <2>0, <4>1, <5>1 DEF RegisterConnection, TableTypeOK
      <4>2. CASE AddDataChannel(m)
        BY <2>0, <4>2 DEF AddDataChannel, TableTypeOK
      <4>3. CASE InsertChannel(m)
        BY <2>0, <4>3 DEF InsertChannel, TableTypeOK
      <4>4. QED
        BY <2>1, <4>1, <4>2, <4>3
    <3>3. QED
      BY <2>0, <3>1, <3>2 DEF TableTypeOK, GuardHeld
  <2>2. ASSUME NEW c \in Calls, StartCall(c)
        PROVE  /\ TableTypeOK' /\ GuardHeld' /\ pc[c] = "new" /\ pc'[c] = "spawned"
               /\ \A d \in Calls : d # c => pc'[d] = pc[d]
    BY <2>2 DEF StartCall, Goto, TableTypeOK, TypeOK, GuardHeld, table, Busy, PCs
  <2>3. ASSUME NEW c \in Calls, LockTable(c)
        PROVE  /\ TableTypeOK' /\ GuardHeld' /\ pc[c] = "spawned"
               /\ pc'[c] \in {"begin", "not_found"} /\ \A d \in Calls : d # c => pc'[d] = pc[d]
    <3>1. /\ pc[c] = "spawned" /\ owner[at[c]] = None /\ UNCHANGED <<registered, channel, adding, at>>
          /\ \/ owner' = [owner EXCEPT ![at[c]] = c] /\ Goto(c, "begin")
             \/ Goto(c, "not_found") /\ UNCHANGED owner
      BY <2>3 DEF LockTable, table
    <3>2. /\ pc'[c] \in {"begin", "not_found"} /\ \A d \in Calls : d # c => pc'[d] = pc[d]
          /\ pc' \in [Calls -> PCs]
      BY <2>0, <3>1 DEF Goto, TableTypeOK, PCs
    <3>3. /\ owner' \in [Machines -> Calls \cup {None}]
          /\ \A d \in Calls : owner[at[d]] # None => owner'[at[d]] = owner[at[d]]
          /\ pc'[c] = "begin" => owner'[at[c]] = c
      BY <2>0, <3>1 DEF Goto, TableTypeOK
    <3>4. GuardHeld'
      BY <3>1, <3>2, <3>3 DEF GuardHeld, Busy
    <3>5. QED
      BY <2>0, <3>1, <3>2, <3>3, <3>4 DEF TableTypeOK
  <2>4. \A s \in Sends : s \in Calls
    BY DEF Calls
  <2>5. CASE \E m \in Machines : RegisterConnection(m) \/ AddDataChannel(m) \/ InsertChannel(m)
    <3>1. TableTypeOK' /\ GuardHeld' /\ UNCHANGED pc
      BY <2>1, <2>5
    <3>2. QED
      BY <3>1
  <2>6. CASE \E c \in Calls : StartCall(c) \/ LockTable(c)
    <3>1. PICK c \in Calls : StartCall(c) \/ LockTable(c)
      BY <2>6
    <3>2. /\ TableTypeOK' /\ GuardHeld' /\ pc[c] \in {"new", "spawned"}
          /\ pc'[c] \in {"spawned", "begin", "not_found"}
          /\ \A d \in Calls : d # c => pc'[d] = pc[d]
      BY <2>2, <2>3, <3>1
    <3>3. QED
      BY <2>4, <3>2
  <2>7. QED
    BY <2>5, <2>6 DEF OnTable, TableStep
<1>3. TypeOK'
  BY <1>1, <1>2 DEF TypeOK, TableTypeOK, link, sendVars, receiveVars
<1>4. TasksInv'
  BY <1>1, <1>2 DEF TasksInv, TasksFollow, NoChunkLost, StreamsWhatWasAccepted, OkMeansAllSent,
     Writing, sendVars, receiveVars
<1>5. MessagesGenuine'
  BY <1>1 DEF MessagesGenuine, Genuine, link, sendVars, receiveVars
<1>6. QED
  BY <1>2, <1>3, <1>4, <1>5 DEF TasksInv

\* Failed opens and reads, full disks, cancels of the other implementation and
\* the channel's end.
LEMMA EnvironmentInv == ASSUME TransferInv, Environment PROVE TransferInv'
<1> USE DEF TransferInv
<1>1. ASSUME NEW c \in Calls, pc[c] \in {"begin", "receive"}, EndCall(c, "error"), Fault,
             UNCHANGED <<link, sendVars, receiveVars>>
      PROVE  TransferInv'
  <2>1. TableTypeOK' /\ GuardHeld' /\ pc'[c] = "error" /\ \A d \in Calls : d # c => pc'[d] = pc[d]
    BY <1>1, EndCallInv DEF Busy, Over
  <2>2. faults' \in 0..MaxFaults
    BY <1>1, BoundsAreNat DEF Fault, TypeOK
  <2>3. TypeOK'
    BY <1>1, <2>1, <2>2 DEF TypeOK, TableTypeOK, link, sendVars, receiveVars
  <2>4. TasksInv'
    BY <1>1, <2>1 DEF TasksInv, TasksFollow, NoChunkLost, StreamsWhatWasAccepted, OkMeansAllSent,
       Writing, sendVars, receiveVars, Calls
  <2>5. MessagesGenuine'
    BY <1>1 DEF MessagesGenuine, Genuine, link, sendVars, receiveVars
  <2>6. QED
    BY <2>1, <2>3, <2>4, <2>5 DEF TasksInv
<1>2. ASSUME NEW s \in Sends, OpenFails(s)
      PROVE  TransferInv'
  BY <1>1, <1>2 DEF OpenFails, Calls
<1>3. ASSUME NEW s \in Sends, ReadFails(s)
      PROVE  TransferInv'
  BY <1>3, ReaderInv
<1>4. ASSUME NEW r \in Receives, DiskFails(r)
      PROVE  TransferInv'
  BY <1>1, <1>4 DEF DiskFails, Calls
<1>5. ASSUME NEW s \in Sends, PeerCancels(s)
      PROVE  TransferInv'
  <2>1. PICK m \in Machines : Put(m, Text("cancel", s))
    BY <1>5 DEF PeerCancels
  <2>2. faults' \in 0..MaxFaults /\ UNCHANGED <<tvars, open, handler, lowOf, sendVars, receiveVars>>
    BY <1>5, BoundsAreNat DEF PeerCancels, Fault, TypeOK
  <2>3. /\ wire' \in [Machines -> Seq(Message)]
        /\ \A n \in Machines : \A i \in 1..Len(wire'[n]) :
             \/ i \in 1..Len(wire[n]) /\ wire'[n][i] = wire[n][i]
             \/ wire'[n][i] = Text("cancel", s)
    BY <2>1, MessageType, PutSeq
  <2>4. Genuine(Text("cancel", s))
    BY MessageType DEF Genuine
  <2>5. \A n \in Machines : \A i \in 1..Len(wire'[n]) : Genuine(wire'[n][i])
    BY <2>3, <2>4 DEF MessagesGenuine
  <2>6. QED
    BY <2>2, <2>3, <2>5, ChannelInv DEF TypeOK, MessagesGenuine, sendVars, receiveVars
<1>6. ASSUME ChannelCloses
      PROVE  TransferInv'
  <2>1. /\ open' = FALSE /\ wire' = [m \in Machines |-> <<>>] /\ faults' \in 0..MaxFaults
        /\ UNCHANGED <<tvars, handler, lowOf, sendVars, receiveVars>>
    BY <1>6, BoundsAreNat DEF ChannelCloses, Fault, TypeOK
  <2>2. /\ wire' \in [Machines -> Seq(Message)]
        /\ \A n \in Machines : \A i \in 1..Len(wire'[n]) : Genuine(wire'[n][i])
    BY <2>1, EmptySeq
  <2>3. QED
    BY <2>1, <2>2, ChannelInv DEF TypeOK, MessagesGenuine, sendVars, receiveVars
<1>7. QED
  BY <1>2, <1>3, <1>4, <1>5, <1>6 DEF Environment

-----------------------------------------------------------------------------
(* The theorems.                                                           *)

LEMMA TransferStep == TransferInv /\ [Next]_vars => TransferInv'
<1> SUFFICES ASSUME TransferInv, [Next]_vars PROVE TransferInv'
  OBVIOUS
<1>1. CASE UNCHANGED vars
  <2>1. UNCHANGED <<tvars, link, sendVars, receiveVars, faults>>
    BY <1>1 DEF vars
  <2>2. QED
    BY <2>1, ChannelInv DEF TransferInv, TypeOK, MessagesGenuine, link, sendVars, receiveVars
<1>2. QED
  BY <1>1, OnTableInv, SendFileInv, ReaderInv, WriterInv, ReceiveFileInv, DeliverInv,
     EnvironmentInv DEF Next

\* The invariant holds in every state.
LEMMA TransferInvariant == Spec => []TransferInv
BY TransferInit, TransferStep, PTL DEF Spec

\* The table, the tasks and the channel keep their types, and the mpsc channels
\* of send_file and receive_file their capacities.
THEOREM TransferTypes == Spec => []TypeOK
BY TransferInvariant, PTL DEF TransferInv

\* A writer sends only under the guard and permit of its own send, unless its
\* reader failed.
THEOREM WriterKeepsPermit == Spec => []WriterHasPermit
<1>1. TransferInv => WriterHasPermit
  <2>1. SUFFICES ASSUME TransferInv, NEW s \in Sends, Writing(s), reader[s] # "error"
                 PROVE  owner[at[s]] = s
    BY DEF WriterHasPermit
  <2>2. pc[s] \in Busy
    BY <2>1 DEF TransferInv, TasksFollow, Busy
  <2>3. QED
    BY <2>1, <2>2 DEF TransferInv, GuardHeld, Calls
<1>2. QED
  BY <1>1, TransferInvariant, PTL

\* No send streams before a receive has answered its own Metadata.
THEOREM StreamsOnlyAccepted == Spec => []StreamsWhatWasAccepted
BY TransferInvariant, PTL DEF TransferInv

\* A send that returns Ok has put its whole file on the channel.
THEOREM OkSendsAll == Spec => []OkMeansAllSent
BY TransferInvariant, PTL DEF TransferInv

-----------------------------------------------------------------------------
(* What two sends put on the channel is only mixed in a file after a       *)
(* failed read or a cancel.  As long as there was neither, the chunks on   *)
(* the way from one Metadata to the next are the whole file or none, which *)
(* is said by following the place in the file along the channel.           *)

\* The place in the file after a chunk, and after a message of any kind: a
\* Metadata only comes at the beginning.
Turn(k) == IF k + 1 = Size THEN 0 ELSE k + 1

Moves(a, msg, b) ==
    /\ msg.type = "metadata" => a = 0
    /\ b = IF msg.type = "chunk" THEN Turn(a) ELSE a

\* The messages q lead from place a to place b: f is the place before each.
Follows(f, q) ==
    /\ f \in [1..(Len(q) + 1) -> Nat]
    /\ \A i \in 1..Len(q) : Moves(f[i], q[i], f[i + 1])

Leads(a, q, b) == \E f : Follows(f, q) /\ f[1] = a /\ f[Len(q) + 1] = b

\* Nothing so far that lets a send end in the midst of its file.
Clean == \A s \in Sends : reader[s] # "error" /\ ~cancelled[s]

\* Where in the file a machine's send is, and so the end of what is on its wire.
Place(m) == IF owner[m] \in Sends /\ out[owner[m]] # Size THEN out[owner[m]] ELSE 0

\* What a receive has got and what it is about to take lead to place a, where
\* the wire begins.
Hears(r, a) ==
    \E c \in Nat : Leads(c, inbox[r], a) /\ (rx[r].id # None => c = Len(rx[r].got))

Listening(r, m) == at[r] = Peer(m) /\ pc[r] = "receive"

InPlace(m) ==
    \E a, b \in Nat :
        /\ Leads(a, wire[m], b)
        /\ open => b = Place(m)
        /\ \A r \in Receives : Listening(r, m) => Hears(r, a)

\* A receive that listens has its machine's handler, and has not got all.
ReceivesFollow ==
    /\ \A r \in Receives :
        /\ pc[r] \in {"new", "spawned", "begin"} => inbox[r] = <<>> /\ rx[r] = NotReceiving
        /\ pc[r] = "receive" =>
             /\ handler[at[r]] = r
             /\ IF rx[r].id = None THEN rx[r].got = <<>> ELSE Len(rx[r].got) < Size
        /\ ~rx[r].mixed => rx[r].tmp = rx[r].got
    /\ \A m \in Machines : handler[m] \in Calls => at[handler[m]] = m

OwnerIsThere == \A m \in Machines : owner[m] \in Calls => at[owner[m]] = m

UnreadIsUnsent == \A s \in Sends : reader[s] = "off" => out[s] = 0

SavedExplained ==
    \A f \in saved : (f.mixed => ~Clean) /\ (~f.mixed => f.content = File)

KeptApart ==
    Clean => /\ \A s \in Sends : writer[s] = "error" => ~open
             /\ \A r \in Receives : ~rx[r].mixed
             /\ \A m \in Machines : InPlace(m)

MixInv ==
    /\ TransferInv
    /\ OwnerIsThere /\ ReceivesFollow /\ UnreadIsUnsent
    /\ SavedExplained
    /\ KeptApart

\* There are two ends, and each is the peer of the other.
LEMMA PeersDiffer ==
  ASSUME NEW m \in Machines, NEW n \in Machines, m # n
  PROVE  Peer(m) = n /\ Peer(m) # Peer(n)
<1>1. \A x \in {m, n} : Peer(x) \in Machines /\ Peer(x) # x
  <2>1. SUFFICES ASSUME NEW x \in {m, n} PROVE \E o \in Machines : o # x
    BY DEF Peer
  <2>2. QED
    OBVIOUS
<1>2. IsFiniteSet({m}) /\ Cardinality({m}) = 1
  BY FS_Singleton
<1>3. IsFiniteSet({m} \cup {n}) /\ Cardinality({m} \cup {n}) = 2
  BY <1>2, FS_AddElement
<1>4. ASSUME NEW o \in Machines, o # m, o # n
      PROVE  FALSE
  <2>1. Cardinality({m} \cup {n} \cup {o}) = 3
    BY <1>3, <1>4, FS_AddElement
  <2>2. {m} \cup {n} \cup {o} \subseteq Machines
    OBVIOUS
  <2>3. Cardinality({m} \cup {n} \cup {o}) <= Cardinality(Machines)
    BY <2>2, NativeAssumption, FS_Subset
  <2>4. QED
    BY <2>1, <2>3, NativeAssumption
<1>5. QED
  BY <1>1, <1>4

LEMMA LeadsNowhere == ASSUME NEW a \in Nat PROVE Leads(a, <<>>, a)
<1>1. Len(<<>>) = 0
  BY EmptySeq
<1>2. Follows([i \in 1..1 |-> a], <<>>)
  BY <1>1 DEF Follows
<1>3. QED
  BY <1>1, <1>2 DEF Leads

LEMMA LeadsOn ==
  ASSUME NEW q \in Seq(Message), NEW msg \in Message, NEW a, NEW b, NEW c \in Nat,
         Leads(a, q, b), Moves(b, msg, c)
  PROVE  Leads(a, Append(q, msg), c)
<1>1. PICK f : Follows(f, q) /\ f[1] = a /\ f[Len(q) + 1] = b
  BY DEF Leads
<1>2. Len(q) \in Nat /\ Len(Append(q, msg)) = Len(q) + 1
      /\ Append(q, msg)[Len(q) + 1] = msg
      /\ \A i \in 1..Len(q) : Append(q, msg)[i] = q[i]
  BY AppendProperties, LenProperties
<1> DEFINE g == [i \in 1..(Len(q) + 2) |-> IF i = Len(q) + 2 THEN c ELSE f[i]]
<1>3. g \in [1..(Len(q) + 2) -> Nat] /\ g[1] = a /\ g[Len(q) + 1] = b /\ g[Len(q) + 2] = c
      /\ \A i \in 1..Len(q) : g[i] = f[i] /\ g[i + 1] = f[i + 1]
  BY <1>1, <1>2 DEF Follows
<1>4. ASSUME NEW i \in 1..(Len(q) + 1)
      PROVE  Moves(g[i], Append(q, msg)[i], g[i + 1])
  <2>1. CASE i \in 1..Len(q)
    BY <1>1, <1>2, <1>3, <2>1 DEF Follows
  <2>2. CASE i = Len(q) + 1
    BY <1>2, <1>3, <2>2
  <2>3. QED
    BY <1>2, <2>1, <2>2
<1>5. Len(Append(q, msg)) + 1 = Len(q) + 2
  BY <1>2
<1> HIDE DEF g
<1>6. Follows(g, Append(q, msg))
  BY <1>2, <1>3, <1>4, <1>5 DEF Follows
<1>7. QED
  BY <1>3, <1>5, <1>6 DEF Leads

LEMMA LeadsAfterHead ==
  ASSUME NEW q \in Seq(Message), q # <<>>, NEW a, NEW b, Leads(a, q, b)
  PROVE  \E c \in Nat : Moves(a, Head(q), c) /\ Leads(c, Tail(q), b)
<1>1. PICK f : Follows(f, q) /\ f[1] = a /\ f[Len(q) + 1] = b
  BY DEF Leads
<1>2. /\ Head(q) = q[1] /\ Len(q) \in Nat /\ 1 \in 1..Len(q) /\ Len(Tail(q)) = Len(q) - 1
      /\ \A i \in 1..Len(Tail(q)) : i + 1 \in 1..Len(q) /\ Tail(q)[i] = q[i + 1]
  BY TailSeq
<1> DEFINE g == [i \in 1..Len(q) |-> f[i + 1]]
<1>3. g \in [1..Len(q) -> Nat] /\ g[1] = f[2] /\ g[Len(q)] = b /\ f[2] \in Nat
      /\ \A i \in 1..Len(q) : g[i] = f[i + 1]
  BY <1>1, <1>2 DEF Follows
<1>4. ASSUME NEW i \in 1..Len(Tail(q))
      PROVE  Moves(g[i], Tail(q)[i], g[i + 1])
  <2>1. i \in 1..Len(q) /\ i + 1 \in 1..Len(q) /\ Moves(f[i + 1], q[i + 1], f[(i + 1) + 1])
    BY <1>1, <1>2 DEF Follows
  <2>2. g[i] = f[i + 1] /\ g[i + 1] = f[(i + 1) + 1]
    BY <1>3, <2>1
  <2>3. QED
    BY <1>2, <2>1, <2>2
<1>5. Len(Tail(q)) + 1 = Len(q)
  BY <1>2
<1> HIDE DEF g
<1>6. Follows(g, Tail(q))
  BY <1>3, <1>4, <1>5 DEF Follows
<1>7. Moves(a, Head(q), f[2])
  BY <1>1, <1>2 DEF Follows
<1>8. QED
  BY <1>3, <1>5, <1>6, <1>7 DEF Leads

\* The place of a machine is a number, and the types of a receive's part.
LEMMA PlaceTypes ==
  ASSUME TypeOK
  PROVE  /\ \A m \in Machines : Place(m) \in Nat /\ wire[m] \in Seq(Message)
         /\ \A r \in Receives :
              /\ r \in Calls /\ r \notin Sends /\ at[r] \in Machines
              /\ inbox[r] \in Seq(Message) /\ rx[r] \in Receiving /\ Len(rx[r].got) \in Nat
<1>1. \A r \in Receives : r \in Calls /\ r \notin Sends
  BY TableAssumption DEF Calls
<1>2. \A r \in Receives : at[r] \in Machines /\ inbox[r] \in Seq(Message) /\ rx[r] \in Receiving
  BY <1>1 DEF TypeOK
<1>3. \A r \in Receives : Len(rx[r].got) \in Nat
  BY <1>2, LenProperties DEF Receiving
<1>4. \A m \in Machines : Place(m) \in Nat /\ wire[m] \in Seq(Message)
  BY NativeAssumption DEF TypeOK, Place
<1>5. QED
  BY <1>1, <1>2, <1>3, <1>4

\* A receive that nothing has happened to hears what it heard.
LEMMA StillHears ==
  ASSUME NEW r \in Receives, NEW a, Hears(r, a), inbox'[r] = inbox[r], rx'[r] = rx[r]
  PROVE  Hears(r, a)'
BY DEF Hears, Leads

\* A wire that is kept, gets a message in place, or is cut.
LEMMA StaysInPlace ==
  ASSUME TypeOK, TypeOK', NEW m \in Machines, InPlace(m), open' => open, UNCHANGED at,
         \A r \in Receives, a \in Nat :
            Listening(r, m)' /\ (Listening(r, m) => Hears(r, a)) => Hears(r, a)',
         \/ wire'[m] = wire[m] /\ (open' => Place(m)' = Place(m))
         \/ /\ open
            /\ \E msg \in Message :
                 wire'[m] = Append(wire[m], msg) /\ Moves(Place(m), msg, Place(m)')
         \/ ~open' /\ wire'[m] = <<>>
  PROVE  InPlace(m)'
<1>1. PICK a \in Nat, b \in Nat :
        /\ Leads(a, wire[m], b)
        /\ open => b = Place(m)
        /\ \A r \in Receives : Listening(r, m) => Hears(r, a)
  BY DEF InPlace
<1>2. \A r \in Receives : Listening(r, m)' => Hears(r, a)'
  BY <1>1
<1>3. wire[m] \in Seq(Message) /\ Place(m)' \in Nat
  <2>1. wire[m] \in Seq(Message)
    BY DEF TypeOK
  <2>2. Place(m)' \in Nat
    BY NativeAssumption DEF TypeOK, Place
  <2>3. QED
    BY <2>1, <2>2
<1>4. \E c \in Nat : Leads(a, wire'[m], c) /\ (open' => c = Place(m)')
  <2>1. CASE wire'[m] = wire[m] /\ (open' => Place(m)' = Place(m))
    BY <1>1, <2>1
  <2>2. CASE /\ open
             /\ \E msg \in Message :
                  wire'[m] = Append(wire[m], msg) /\ Moves(Place(m), msg, Place(m)')
    BY <1>1, <1>3, <2>2, LeadsOn
  <2>3. CASE ~open' /\ wire'[m] = <<>>
    BY <2>3, LeadsNowhere
  <2>4. QED
    BY <2>1, <2>2, <2>3
<1>5. (\E c \in Nat : Leads(a, wire[m], c) /\ (open => c = Place(m)))'
  BY <1>4 DEF Leads
<1>6. QED
  BY <1>2, <1>5 DEF InPlace

\* The same for all wires, by a step of no receive.
LEMMA SendsInPlace ==
  ASSUME TypeOK, TypeOK', \A m \in Machines : InPlace(m), open' => open,
         UNCHANGED <<at, inbox, rx>>, \A r \in Receives : pc'[r] = "receive" => pc[r] = "receive",
         \A m \in Machines :
            \/ wire'[m] = wire[m] /\ (open' => Place(m)' = Place(m))
            \/ /\ open
               /\ \E msg \in Message :
                    wire'[m] = Append(wire[m], msg) /\ Moves(Place(m), msg, Place(m)')
            \/ ~open' /\ wire'[m] = <<>>
  PROVE  \A m \in Machines : InPlace(m)'
<1>1. TAKE m \in Machines
<1>2. ASSUME NEW r \in Receives, NEW a \in Nat, Listening(r, m)', Listening(r, m) => Hears(r, a)
      PROVE  Hears(r, a)'
  BY <1>2, StillHears DEF Listening
<1>3. QED
  BY <1>2, StaysInPlace

\* A failure or a cancel stays one.
LEMMA CleanBefore ==
  ASSUME TransferInv, [Next]_vars, Clean'
  PROVE  Clean
<1>1. ASSUME NEW s \in Sends, reader[s] = "error"
      PROVE  reader'[s] = "error"
  <2>1. \A t \in Sends : AnswerRead(t) => reader[t] = "off"
    BY DEF AnswerRead, TransferInv, TasksFollow
  <2>2. reader \in [Sends -> {"off", "run", "ok", "error"}]
    BY DEF TransferInv, TypeOK
  <2>3. QED
    BY <1>1, <2>1, <2>2
    DEF Next, OnTable, SendFile, SendMetadata, ListenForAnswer, AnswerRead, AcceptTimeout,
        JoinReader, JoinWriter, Read, Writer, TakeChunk, Guard, Await, Wake, SendEof, ReceiveFile,
        ListenForFile, Receive, InactivityTimeout, Deliver, Environment, OpenFails, ReadFails,
        PeerCancels, DiskFails, ChannelCloses, sendVars, vars
<1>2. ASSUME NEW s \in Sends, cancelled[s]
      PROVE  cancelled'[s]
  <2>1. cancelled \in [Sends -> BOOLEAN]
    BY DEF TransferInv, TypeOK
  <2>2. QED
    BY <1>2, <2>1
    DEF Next, OnTable, SendFile, SendMetadata, ListenForAnswer, AnswerRead, AcceptTimeout,
        JoinReader, JoinWriter, Read, Writer, TakeChunk, Guard, Await, Wake, SendEof, ReceiveFile,
        ListenForFile, Receive, InactivityTimeout, Deliver, Hear, Environment, OpenFails, ReadFails,
        PeerCancels, DiskFails, ChannelCloses, sendVars, vars
<1>3. QED
  BY <1>1, <1>2 DEF Clean

\* The initial state.
LEMMA MixInit == Init => MixInv
<1> SUFFICES ASSUME Init PROVE MixInv
  OBVIOUS
<1> USE TableAssumption, NativeAssumption
<1>1. TransferInv /\ TypeOK
  BY TransferInit DEF TransferInv
<1>2. OwnerIsThere /\ ReceivesFollow /\ UnreadIsUnsent /\ SavedExplained
  BY DEF Init, TableInit, OwnerIsThere, ReceivesFollow, UnreadIsUnsent, SavedExplained, NotReceiving, Calls
<1>3. ASSUME NEW m \in Machines PROVE InPlace(m)
  <2>1. wire[m] = <<>> /\ Place(m) = 0 /\ \A r \in Receives : ~Listening(r, m)
    BY DEF Init, TableInit, Place, Listening, Calls
  <2>2. Leads(0, <<>>, 0)
    BY LeadsNowhere
  <2>3. QED
    BY <2>1, <2>2 DEF InPlace
<1>4. KeptApart
  BY <1>3 DEF Init, KeptApart, NotReceiving
<1>5. QED
  BY <1>1, <1>2, <1>4 DEF MixInv

\* The parts that do not speak of the wire, in a step of no receive.
LEMMA OthersExplained ==
  ASSUME MixInv, Clean' => Clean, UNCHANGED <<at, inbox, rx, saved>>,
         \A r \in Receives : \/ pc'[r] = pc[r]
                             \/ pc[r] \in {"new", "spawned"} /\ pc'[r] \in {"spawned", "begin", "not_found"}
                             \/ pc'[r] \in Over,
         \A m \in Machines :
            \/ handler'[m] = handler[m]
            \/ /\ handler'[m] \in Calls /\ at[handler'[m]] = m
               /\ \A r \in Receives : at[r] = m => pc[r] # "receive"
  PROVE  ReceivesFollow' /\ SavedExplained'
<1> USE DEF MixInv
<1>1. \A r \in Receives : at[r] \in Machines /\ r \in Calls
  BY PlaceTypes DEF TransferInv
<1>2. ASSUME NEW r \in Receives
      PROVE  /\ pc'[r] \in {"new", "spawned", "begin"} => inbox'[r] = <<>> /\ rx'[r] = NotReceiving
             /\ pc'[r] = "receive" =>
                  /\ handler'[at'[r]] = r
                  /\ IF rx'[r].id = None THEN rx'[r].got = <<>> ELSE Len(rx'[r].got) < Size
             /\ ~rx'[r].mixed => rx'[r].tmp = rx'[r].got
  <2>1. pc'[r] \in {"new", "spawned", "begin"} => pc[r] \in {"new", "spawned", "begin"}
    BY DEF Over
  <2>2. pc'[r] = "receive" => pc[r] = "receive"
    BY DEF Over
  <2>3. pc[r] = "receive" => handler'[at'[r]] = r
    BY <1>1 DEF ReceivesFollow
  <2>4. QED
    BY <2>1, <2>2, <2>3 DEF ReceivesFollow
<1>3. \A m \in Machines : handler'[m] \in Calls => at'[handler'[m]] = m
  BY DEF ReceivesFollow
<1>4. ReceivesFollow'
  BY <1>2, <1>3 DEF ReceivesFollow
<1>5. SavedExplained'
  BY DEF SavedExplained
<1>6. QED
  BY <1>4, <1>5

\* The guard is with one call.
LEMMA OneHasGuard ==
  ASSUME TransferInv, NEW c \in Calls, NEW d \in Calls, c # d, pc[c] \in Busy, at[c] = at[d]
  PROVE  pc[d] \notin Busy
BY DEF TransferInv, GuardHeld

\* A send that ends where its file begins or ends leaves the place.
LEMMA EndInPlace ==
  ASSUME TransferInv, NEW s \in Sends, pc[s] \in Busy, NEW outcome, EndCall(s, outcome),
         UNCHANGED out, out[s] \in {0, Size}
  PROVE  \A m \in Machines : Place(m)' = Place(m)
<1>1. s \in Calls /\ owner[at[s]] = s /\ None \notin Sends /\ at[s] \in Machines
      /\ owner \in [Machines -> Calls \cup {None}]
  BY TableAssumption DEF Calls, TransferInv, GuardHeld, TypeOK
<1>2. owner' = [owner EXCEPT ![at[s]] = None]
  BY DEF EndCall
<1>3. QED
  BY <1>1, <1>2 DEF Place

\* The guard of a machine is with a call of that machine.
LEMMA OwnerStaysThere ==
  ASSUME TransferInv, OwnerIsThere, [Next]_vars
  PROVE  OwnerIsThere'
<1> USE TableAssumption DEF Calls
<1>1. UNCHANGED at
  BY ZenonT(60) DEF Next, OnTable, TableStep, RegisterConnection, AddDataChannel, InsertChannel, StartCall,
     LockTable, SendFile, SendMetadata, ListenForAnswer, AnswerRead, AcceptTimeout,
     JoinReader, JoinWriter, EndCall, Read, Writer, TakeChunk, Guard, Await, Wake, SendEof,
     ReceiveFile, ListenForFile, Receive, ReceiveMetadata, ReceiveChunk, ReceiveEof, AfterMessage,
     Finalize, InactivityTimeout, Deliver, Environment, OpenFails, ReadFails, PeerCancels,
     DiskFails, ChannelCloses, tvars, vars
<1>2. \/ UNCHANGED owner
      \/ \E c \in Calls : owner' = [owner EXCEPT ![at[c]] = c]
      \/ \E c \in Calls : owner' = [owner EXCEPT ![at[c]] = None]
  BY ZenonT(60) DEF Next, OnTable, TableStep, RegisterConnection, AddDataChannel, InsertChannel, StartCall,
     LockTable, SendFile, SendMetadata, ListenForAnswer, AnswerRead, AcceptTimeout,
     JoinReader, JoinWriter, EndCall, Read, Writer, TakeChunk, Guard, Await, Wake, SendEof,
     ReceiveFile, ListenForFile, Receive, ReceiveMetadata, ReceiveChunk, ReceiveEof, AfterMessage,
     Finalize, InactivityTimeout, Deliver, Environment, OpenFails, ReadFails, PeerCancels,
     DiskFails, ChannelCloses, tvars, vars
<1>3. owner \in [Machines -> Calls \cup {None}] /\ at \in [Calls -> Machines]
  BY DEF TransferInv, TypeOK
<1>4. QED
  BY <1>1, <1>2, <1>3 DEF OwnerIsThere

\* send_file's steps.
LEMMA SendFileMix ==
  ASSUME MixInv, TransferInv', OwnerIsThere', Clean' => Clean, NEW s \in Sends, SendFile(s)
  PROVE  MixInv'
<1> USE DEF MixInv, TransferInv
<1>1. /\ s \in Calls /\ s \notin Receives /\ at[s] \in Machines /\ pc[s] \in Busy
      /\ owner[at[s]] = s /\ out[s] \in Nat /\ Size \in Nat
  BY TableAssumption, TaskTypes
  DEF Calls, TypeOK, SendFile, SendMetadata, ListenForAnswer, AnswerRead, AcceptTimeout,
      JoinReader, JoinWriter, Busy, GuardHeld
<1>2. /\ UNCHANGED <<at, open, out, inbox, rx, saved>>
      /\ \A r \in Receives : pc'[r] = pc[r]
  <2>1. UNCHANGED <<at, open, out, inbox, rx, saved>>
    BY DEF SendFile, SendMetadata, ListenForAnswer, AnswerRead, AcceptTimeout, JoinReader,
       JoinWriter, EndCall, link, sendVars, receiveVars
  <2>2. \E label : Goto(s, label)
    BY DEF SendFile, SendMetadata, ListenForAnswer, AnswerRead, AcceptTimeout, JoinReader,
       JoinWriter, EndCall
  <2>3. \A r \in Receives : r \in Calls /\ r # s
    BY <1>1 DEF Calls
  <2>4. QED
    BY <2>1, <2>2, <2>3 DEF Goto, TypeOK
<1>3. \A m \in Machines :
        \/ handler'[m] = handler[m]
        \/ /\ handler'[m] \in Calls /\ at[handler'[m]] = m
           /\ \A r \in Receives : at[r] = m => pc[r] # "receive"
  <2>1. CASE UNCHANGED handler
    BY <2>1
  <2>2. CASE handler' = [handler EXCEPT ![at[s]] = s]
    <3>1. \A r \in Receives : at[r] = at[s] => pc[r] # "receive"
      BY <1>1, OneHasGuard DEF Busy, Calls
    <3>2. handler'[at[s]] = s /\ \A m \in Machines : m # at[s] => handler'[m] = handler[m]
      BY <1>1, <2>2 DEF TypeOK
    <3>3. QED
      BY <1>1, <3>1, <3>2
  <2>3. QED
    BY <2>1, <2>2 DEF SendFile, SendMetadata, ListenForAnswer, AnswerRead, AcceptTimeout,
       JoinReader, JoinWriter, link
<1>4. ReceivesFollow' /\ SavedExplained'
  BY <1>2, <1>3, OthersExplained
<1>5. UnreadIsUnsent'
  <2>1. \A t \in Sends : reader'[t] = "off" => reader[t] = "off"
    BY DEF SendFile, SendMetadata, ListenForAnswer, AnswerRead, AcceptTimeout, JoinReader,
       JoinWriter, TypeOK, sendVars
  <2>2. QED
    BY <1>2, <2>1 DEF UnreadIsUnsent
<1>6. KeptApart'
  <2>1. SUFFICES ASSUME Clean'
                 PROVE  /\ \A t \in Sends : writer'[t] = "error" => ~open'
                        /\ \A r \in Receives : ~rx'[r].mixed
                        /\ \A m \in Machines : InPlace(m)'
    BY DEF KeptApart
  <2>2. /\ Clean
        /\ \A t \in Sends : writer[t] = "error" => ~open
        /\ \A r \in Receives : ~rx[r].mixed
        /\ \A m \in Machines : InPlace(m)
    BY <2>1 DEF KeptApart
  <2>3. \A t \in Sends : writer'[t] = "error" => writer[t] = "error"
    BY DEF SendFile, SendMetadata, ListenForAnswer, AnswerRead, AcceptTimeout, JoinReader,
       JoinWriter, TypeOK, sendVars
  <2>4. \A m \in Machines :
          \/ wire'[m] = wire[m] /\ (open' => Place(m)' = Place(m))
          \/ /\ open
             /\ \E msg \in Message :
                  wire'[m] = Append(wire[m], msg) /\ Moves(Place(m), msg, Place(m)')
    \* Metadata goes out where the file begins.
    <3>1. CASE SendMetadata(s) /\ open
      <4>0. PICK n \in Machines : n = at[s]
        BY <1>1
      <4>1. /\ wire' = [wire EXCEPT ![n] = Append(@, Text("metadata", s))]
            /\ UNCHANGED <<owner, out>>
        BY <3>1, <4>0 DEF SendMetadata, Put, sendVars
      <4>2. reader[s] = "off" /\ Place(n) = 0
        BY <1>1, <3>1, <4>0 DEF SendMetadata, TasksFollow, TypeOK, UnreadIsUnsent, Place
      <4>3. \A m \in Machines : Place(m)' = Place(m)
        BY <4>1 DEF Place
      <4>4. /\ wire'[n] = Append(wire[n], Text("metadata", s))
            /\ \A m \in Machines : m # n => wire'[m] = wire[m]
        BY <4>1 DEF TypeOK
      <4>5. Text("metadata", s) \in Message /\ Text("metadata", s).type = "metadata"
        BY MessageType
      <4>6. Moves(Place(n), Text("metadata", s), Place(n)')
        BY <4>2, <4>3, <4>5 DEF Moves
      <4>7. QED
        BY <3>1, <4>3, <4>4, <4>5, <4>6
    <3>2. CASE UNCHANGED <<wire, owner, out>>
      BY <3>2 DEF Place
    \* The send ends before it has begun to stream, or when all is sent.
    <3>3. CASE /\ wire' = wire /\ \E outcome : EndCall(s, outcome)
               /\ open => out[s] \in {0, Size}
      BY <1>1, <1>2, <3>3, EndInPlace
    <3>4. pc[s] \in {"begin", "sent", "accept"} => out[s] = 0
      BY <1>1 DEF TasksFollow, TypeOK, UnreadIsUnsent
    <3>5. CASE SendMetadata(s) /\ ~open
      BY <3>3, <3>4, <3>5 DEF SendMetadata
    <3>6. CASE AnswerRead(s) \/ AcceptTimeout(s)
      BY <3>2, <3>3, <3>4, <3>6 DEF AnswerRead, AcceptTimeout, link, sendVars
    <3>7. CASE JoinReader(s)
      <4>1. reader[s] = "ok"
        BY <2>2, <3>7 DEF JoinReader, Clean, TasksFollow, TypeOK
      <4>2. QED
        BY <3>2, <3>7, <4>1 DEF JoinReader, link, sendVars
    <3>8. CASE JoinWriter(s)
      <4>1. reader[s] = "ok" /\ writer[s] \in {"ok", "error"}
        BY <3>8 DEF JoinWriter, TasksFollow, Writing, TypeOK
      <4>2. open => writer[s] = "ok"
        BY <2>2, <4>1
      <4>3. open => out[s] = Size
        <5>1. Len(<<>>) = 0
          BY EmptySeq
        <5>2. QED
          BY <1>1, <4>1, <4>2, <5>1 DEF NoChunkLost
      <4>4. QED
        BY <3>3, <3>8, <4>3 DEF JoinWriter, link
    <3>9. CASE ListenForAnswer(s)
      BY <3>2, <3>9 DEF ListenForAnswer, sendVars
    <3>10. QED
      BY <3>1, <3>5, <3>6, <3>7, <3>8, <3>9 DEF SendFile
  <2>5. \A m \in Machines : InPlace(m)'
    BY <1>2, <2>2, <2>4, SendsInPlace
  <2>6. QED
    BY <1>2, <2>2, <2>3, <2>5
<1>7. QED
  BY <1>4, <1>5, <1>6

\* The reader and the writer.
LEMMA TasksMix ==
  ASSUME MixInv, TransferInv', OwnerIsThere', Clean' => Clean, NEW s \in Sends,
         Read(s) \/ ReadFails(s) \/ Writer(s)
  PROVE  MixInv'
<1> USE DEF MixInv, TransferInv
<1>1. /\ s \in Calls /\ at[s] \in Machines /\ Size \in Nat
      /\ out[s] \in Nat /\ out[s] <= Size /\ slot[s] \in Seq(Chunks) /\ Len(slot[s]) \in Nat
      /\ next[s] \in Nat /\ next[s] <= Size + 1
  BY TaskTypes DEF Calls, TypeOK
<1>2. UNCHANGED <<tvars, open, handler, cancelled, receiveVars>>
  BY DEF Read, ReadFails, Writer, TakeChunk, Guard, Await, Wake, SendEof, link
<1>3. ReceivesFollow' /\ SavedExplained'
  BY <1>2, OthersExplained DEF tvars, receiveVars
<1>4. \A t \in Sends : /\ reader'[t] = "off" => reader[t] = "off"
                       /\ reader[t] = "off" => out'[t] = out[t]
  <2>1. writer[s] = "held" => reader[s] # "off"
    BY DEF TasksFollow
  <2>2. QED
    BY ZenonT(60), <2>1 DEF Read, ReadFails, Writer, TakeChunk, Guard, Await, Wake, SendEof, TypeOK
<1>5. UnreadIsUnsent'
  BY <1>4 DEF UnreadIsUnsent
<1>6. KeptApart'
  <2>1. SUFFICES ASSUME Clean'
                 PROVE  /\ \A t \in Sends : writer'[t] = "error" => ~open'
                        /\ \A r \in Receives : ~rx'[r].mixed
                        /\ \A m \in Machines : InPlace(m)'
    BY DEF KeptApart
  <2>2. /\ Clean
        /\ \A t \in Sends : writer[t] = "error" => ~open
        /\ \A r \in Receives : ~rx[r].mixed
        /\ \A m \in Machines : InPlace(m)
    BY <2>1 DEF KeptApart
  <2>3. \A t \in Sends : writer'[t] = "error" => ~open'
    <3>1. ~cancelled[s]
      BY <2>2 DEF Clean
    <3>2. UNCHANGED writer \/ \E label : WriterGoes(s, label) /\ (label = "error" => ~open)
      <4>1. CASE Read(s) \/ ReadFails(s)
        BY <4>1 DEF Read, ReadFails
      <4>2. CASE TakeChunk(s) \/ Await(s) \/ Wake(s) \/ SendEof(s)
        BY <3>1, <4>2 DEF TakeChunk, Await, Wake, SendEof
      <4>3. CASE Guard(s)
        BY <4>3 DEF Guard
      <4>4. QED
        BY <4>1, <4>2, <4>3 DEF Writer
    <3>3. QED
      BY <1>2, <2>2, <3>2 DEF WriterGoes, TypeOK
  <2>4. Writing(s) => owner[at[s]] = s
    BY <1>1, <2>2 DEF Clean, TasksFollow, GuardHeld, Busy
  <2>5. \A m \in Machines :
          \/ wire'[m] = wire[m] /\ (open' => Place(m)' = Place(m))
          \/ /\ open
             /\ \E msg \in Message :
                  wire'[m] = Append(wire[m], msg) /\ Moves(Place(m), msg, Place(m)')
    <3>1. CASE UNCHANGED <<wire, out>>
      BY <1>2, <3>1 DEF Place, tvars
    <3>2. CASE Guard(s) /\ open /\ Buffered(at[s]) <= HighWater
      <4>0. PICK n \in Machines : n = at[s]
        BY <1>1
      <4>1. /\ wire' = [wire EXCEPT ![n] = Append(@, Binary(Head(slot[s])))]
            /\ out' = [out EXCEPT ![s] = @ + 1] /\ UNCHANGED owner
        BY <1>2, <3>2, <4>0 DEF Guard, Put, tvars
      <4>2. slot[s] # <<>> /\ writer[s] = "held" /\ out[s] + Len(slot[s]) = next[s] - 1
        BY <3>2 DEF Guard, NoChunkLost
      <4>3. Head(slot[s]) \in Chunks /\ 1 \in 1..Len(slot[s])
        BY <1>1, <4>2, TailSeq
      <4>4. out[s] < Size
        BY <1>1, <4>2, <4>3
      <4>5. /\ owner[n] = s /\ owner'[n] = s /\ out'[s] = out[s] + 1
            /\ \A t \in Sends : t # s => out'[t] = out[t]
        BY <1>1, <2>4, <4>0, <4>1, <4>2 DEF Writing, TypeOK
      <4>6. Place(n) = out[s] /\ Place(n)' = Turn(out[s])
        BY <1>1, <4>4, <4>5 DEF Place, Turn
      <4>7. Binary(Head(slot[s])) \in Message /\ Binary(Head(slot[s])).type = "chunk"
        BY <4>3, MessageType
      <4>8. Moves(Place(n), Binary(Head(slot[s])), Place(n)')
        BY <4>6, <4>7 DEF Moves
      <4>9. /\ wire'[n] = Append(wire[n], Binary(Head(slot[s])))
            /\ \A m \in Machines : m # n => wire'[m] = wire[m]
        BY <4>1 DEF TypeOK
      <4>10. ASSUME NEW m \in Machines, m # n
             PROVE  Place(m)' = Place(m)
        <5>1. owner[m] # s
          BY <1>1, <4>0, <4>10 DEF OwnerIsThere
        <5>2. QED
          BY <4>1, <4>5, <5>1 DEF Place
      <4>11. QED
        BY <3>2, <4>7, <4>8, <4>9, <4>10
    <3>3. CASE SendEof(s) /\ open
      <4>0. PICK n \in Machines : n = at[s]
        BY <1>1
      <4>1. /\ wire' = [wire EXCEPT ![n] = Append(@, Text("eof", s))]
            /\ UNCHANGED <<owner, out>>
        BY <1>2, <3>3, <4>0 DEF SendEof, Put, tvars
      <4>2. \A m \in Machines : Place(m)' = Place(m)
        BY <4>1 DEF Place
      <4>3. Text("eof", s) \in Message /\ Text("eof", s).type = "eof"
        BY MessageType
      <4>4. Moves(Place(n), Text("eof", s), Place(n)')
        BY <4>2, <4>3 DEF Moves
      <4>5. /\ wire'[n] = Append(wire[n], Text("eof", s))
            /\ \A m \in Machines : m # n => wire'[m] = wire[m]
        BY <4>1 DEF TypeOK
      <4>6. QED
        BY <3>3, <4>2, <4>3, <4>4, <4>5
    <3>4. QED
      BY <3>1, <3>2, <3>3 DEF Read, ReadFails, Writer, TakeChunk, Guard, Await, Wake, SendEof,
         link
  <2>6. \A m \in Machines : InPlace(m)'
    BY <1>2, <2>2, <2>5, SendsInPlace DEF tvars, receiveVars
  <2>7. QED
    BY <1>2, <2>2, <2>3, <2>6 DEF receiveVars
<1>7. QED
  BY <1>3, <1>5, <1>6

\* The table's steps.
LEMMA OnTableMix ==
  ASSUME MixInv, TransferInv', OwnerIsThere', Clean' => Clean, OnTable
  PROVE  MixInv'
<1> USE DEF MixInv, TransferInv
<1>1. UNCHANGED <<link, sendVars, receiveVars, at>>
  BY DEF OnTable, TableStep, RegisterConnection, AddDataChannel, InsertChannel, StartCall, LockTable
<1>2. \A r \in Receives : \/ pc'[r] = pc[r]
                          \/ pc[r] \in {"new", "spawned"} /\ pc'[r] \in {"spawned", "begin", "not_found"}
  <2>1. \A r \in Receives : r \in Calls
    BY DEF Calls
  <2>2. QED
    BY ZenonT(60), <2>1 DEF OnTable, TableStep, RegisterConnection, AddDataChannel, InsertChannel, StartCall,
       LockTable, Goto, TypeOK
<1>3. ReceivesFollow' /\ SavedExplained'
  BY <1>1, <1>2, OthersExplained DEF link, receiveVars
<1>4. UnreadIsUnsent'
  BY <1>1 DEF UnreadIsUnsent, sendVars
<1>5. KeptApart'
  <2>1. \A m \in Machines : Place(m)' = Place(m)
    <3>1. CASE UNCHANGED owner
      BY <1>1, <3>1 DEF Place, sendVars
    <3>2. CASE \E c \in Calls : LockTable(c) /\ owner' = [owner EXCEPT ![at[c]] = c]
      <4>1. PICK c \in Calls : LockTable(c) /\ owner' = [owner EXCEPT ![at[c]] = c]
        BY <3>2
      <4>2. /\ pc[c] = "spawned" /\ owner[at[c]] = None /\ None \notin Sends
            /\ c \in Sends => out[c] = 0
        BY <4>1, TableAssumption
        DEF LockTable, TasksFollow, UnreadIsUnsent, TypeOK, Calls
      <4>3. QED
        BY <1>1, <4>1, <4>2 DEF Place, TypeOK, sendVars
    <3>3. QED
      BY <3>1, <3>2 DEF OnTable, TableStep, RegisterConnection, AddDataChannel, InsertChannel,
         StartCall, LockTable
  <2>2. ASSUME Clean' PROVE \A m \in Machines : InPlace(m)'
    <3>1. \A r \in Receives : pc'[r] = "receive" => pc[r] = "receive"
      BY <1>2
    <3>2. \A m \in Machines : InPlace(m)
      BY <2>2 DEF KeptApart
    <3>3. UNCHANGED <<at, inbox, rx, open, wire>>
      BY <1>1 DEF link, receiveVars
    <3>4. QED
      BY <2>1, <3>1, <3>2, <3>3, SendsInPlace
  <2>3. QED
    BY <1>1, <2>2 DEF KeptApart, link, sendVars, receiveVars
<1>6. QED
  BY <1>3, <1>4, <1>5

\* Failed opens, full disks, cancels and the channel's end.
LEMMA EnvironmentMix ==
  ASSUME MixInv, TransferInv', OwnerIsThere', Clean' => Clean, Environment
  PROVE  MixInv'
<1> USE DEF MixInv, TransferInv
<1>1. CASE \E s \in Sends : ReadFails(s)
  BY <1>1, TasksMix
\* The others leave the sends' tasks alone.
<1>2. ASSUME UNCHANGED <<at, handler, sendVars, receiveVars>>,
             \A r \in Receives : pc'[r] = pc[r] \/ pc'[r] \in Over,
             open' => open,
             \A m \in Machines :
                \/ wire'[m] = wire[m] /\ (open' => Place(m)' = Place(m))
                \/ /\ open
                   /\ \E msg \in Message :
                        wire'[m] = Append(wire[m], msg) /\ Moves(Place(m), msg, Place(m)')
                \/ ~open' /\ wire'[m] = <<>>
      PROVE  MixInv'
  <2>1. ReceivesFollow' /\ SavedExplained'
    BY <1>2, OthersExplained DEF receiveVars
  <2>2. UnreadIsUnsent'
    BY <1>2 DEF UnreadIsUnsent, sendVars
  <2>3. ASSUME Clean' PROVE \A m \in Machines : InPlace(m)'
    <3>1. \A r \in Receives : pc'[r] = "receive" => pc[r] = "receive"
      BY <1>2 DEF Over
    <3>2. \A m \in Machines : InPlace(m)
      BY <2>3 DEF KeptApart
    <3>3. UNCHANGED <<at, inbox, rx>>
      BY <1>2 DEF receiveVars
    <3>4. QED
      BY <1>2, <3>1, <3>2, <3>3, SendsInPlace
  <2>4. KeptApart'
    BY <1>2, <2>3 DEF KeptApart, sendVars, receiveVars
  <2>5. QED
    BY <2>1, <2>2, <2>4
<1>3. CASE \E s \in Sends : OpenFails(s)
  <2>1. PICK s \in Sends : OpenFails(s)
    BY <1>3
  <2>2. /\ s \in Calls /\ s \notin Receives /\ pc[s] \in Busy /\ EndCall(s, "error")
        /\ out[s] = 0 /\ UNCHANGED <<link, sendVars, receiveVars>>
    BY <2>1, TableAssumption
    DEF OpenFails, Calls, Busy, TasksFollow, TypeOK, UnreadIsUnsent
  <2>3. \A m \in Machines : Place(m)' = Place(m)
    BY <2>2, EndInPlace DEF sendVars
  <2>4. \A r \in Receives : pc'[r] = pc[r]
    BY <2>2 DEF EndCall, Goto, TypeOK, Calls
  <2>5. QED
    BY <1>2, <2>2, <2>3, <2>4 DEF EndCall, link
<1>4. CASE \E r \in Receives : DiskFails(r)
  <2>1. PICK r \in Receives : DiskFails(r)
    BY <1>4
  <2>2. /\ r \in Calls /\ r \notin Sends /\ None \notin Sends /\ pc[r] = "receive"
        /\ owner[at[r]] = r /\ EndCall(r, "error") /\ UNCHANGED <<link, sendVars, receiveVars>>
    BY <2>1, TableAssumption DEF DiskFails, Calls, Busy, GuardHeld
  <2>3. \A m \in Machines : Place(m)' = Place(m)
    BY <2>2 DEF EndCall, Place, TypeOK, sendVars
  <2>4. \A q \in Receives : pc'[q] = pc[q] \/ pc'[q] \in Over
    BY <2>2 DEF EndCall, Goto, TypeOK, Calls, Over
  <2>5. QED
    BY <1>2, <2>2, <2>3, <2>4 DEF EndCall, link
<1>5. CASE \E s \in Sends : PeerCancels(s)
  <2>1. PICK s \in Sends, n \in Machines : PeerCancels(s) /\ Put(n, Text("cancel", s))
    BY <1>5 DEF PeerCancels
  <2>2. open /\ UNCHANGED <<tvars, open, handler, lowOf, sendVars, receiveVars>>
    BY <2>1 DEF PeerCancels
  <2>3. \A m \in Machines : Place(m)' = Place(m)
    BY <2>2 DEF Place, tvars, sendVars
  <2>4. Text("cancel", s) \in Message /\ Text("cancel", s).type = "cancel"
    BY MessageType
  <2>5. Moves(Place(n), Text("cancel", s), Place(n)')
    BY <2>3, <2>4 DEF Moves
  <2>6. /\ wire'[n] = Append(wire[n], Text("cancel", s))
        /\ \A m \in Machines : m # n => wire'[m] = wire[m]
    BY <2>1 DEF Put, TypeOK
  <2>7. QED
    BY <1>2, <2>2, <2>3, <2>4, <2>5, <2>6 DEF tvars
<1>6. CASE ChannelCloses
  BY <1>2, <1>6 DEF ChannelCloses, tvars
<1>7. QED
  BY <1>1, <1>3, <1>4, <1>5, <1>6 DEF Environment

\* A message moves from the wire to the receive that listens, or is no chunk of
\* anybody's.
LEMMA DeliverMix ==
  ASSUME MixInv, TransferInv', OwnerIsThere', Clean' => Clean, NEW m \in Machines, Deliver(m)
  PROVE  MixInv'
<1> USE DEF MixInv, TransferInv
<1> DEFINE msg == Head(wire[m])
           h == handler[Peer(m)]
<1>1. /\ wire[m] # <<>> /\ wire' = [wire EXCEPT ![m] = Tail(@)]
      /\ UNCHANGED <<tvars, open, handler, lowOf, reader, writer, slot, next, out, rx, agreed,
                     saved, faults>>
      /\ IF h \in Receives /\ pc[h] = "receive"
         THEN inbox' = [inbox EXCEPT ![h] = Append(@, msg)]
         ELSE UNCHANGED inbox
  BY DEF Deliver
<1>2. UNCHANGED <<registered, channel, adding, owner, at, pc>>
  BY <1>1 DEF tvars
<1>3. wire[m] \in Seq(Message) /\ msg \in Message /\ Peer(m) \in Machines
  BY <1>1, TailSeq, PeerIsMachine DEF TypeOK
<1>4. ASSUME NEW r \in Receives
      PROVE  \/ inbox'[r] = inbox[r] /\ ~Listening(r, m)
             \/ inbox'[r] = Append(inbox[r], msg) /\ at[r] = Peer(m) /\ pc[r] = "receive"
  <2>1. r \in Calls /\ at[r] \in Machines /\ (pc[r] = "receive" => handler[at[r]] = r)
    BY PlaceTypes DEF ReceivesFollow
  <2>2. CASE r = h /\ pc[r] = "receive"
    BY <1>1, <1>3, <2>1, <2>2 DEF ReceivesFollow, TypeOK
  <2>3. CASE ~(r = h /\ pc[r] = "receive")
    BY <1>1, <2>1, <2>3 DEF Listening, TypeOK
  <2>4. QED
    BY <2>2, <2>3
<1>5. ReceivesFollow' /\ UnreadIsUnsent' /\ SavedExplained'
  <2>1. ASSUME NEW r \in Receives
        PROVE  /\ pc'[r] \in {"new", "spawned", "begin"} => inbox'[r] = <<>> /\ rx'[r] = NotReceiving
               /\ pc'[r] = "receive" =>
                    /\ handler'[at'[r]] = r
                    /\ IF rx'[r].id = None THEN rx'[r].got = <<>> ELSE Len(rx'[r].got) < Size
               /\ ~rx'[r].mixed => rx'[r].tmp = rx'[r].got
    BY <1>1, <1>2, <1>4 DEF ReceivesFollow
  <2>2. ReceivesFollow'
    BY <1>1, <1>2, <2>1 DEF ReceivesFollow
  <2>3. QED
    BY <1>1, <2>2 DEF UnreadIsUnsent, SavedExplained
<1>6. KeptApart'
  <2>1. SUFFICES ASSUME Clean', NEW n \in Machines PROVE InPlace(n)'
    BY <1>1 DEF KeptApart
  <2>2. InPlace(n)
    BY <2>1 DEF KeptApart
  <2>3. Place(n)' = Place(n)
    BY <1>1, <1>2 DEF Place
  <2>4. CASE n # m
    <3>1. wire'[n] = wire[n]
      BY <1>1, <2>4 DEF TypeOK
    <3>2. ASSUME NEW r \in Receives, NEW a \in Nat, Listening(r, n)', Listening(r, n) => Hears(r, a)
          PROVE  Hears(r, a)'
      <4>1. Peer(n) # Peer(m)
        BY <2>4, PeersDiffer
      <4>2. inbox'[r] = inbox[r] /\ rx'[r] = rx[r]
        BY <1>1, <1>2, <1>4, <3>2, <4>1 DEF Listening
      <4>3. QED
        BY <1>2, <3>2, <4>2, StillHears DEF Listening
    <3>3. QED
      BY <1>1, <1>2, <2>2, <2>3, <3>1, <3>2, StaysInPlace
  <2>5. CASE n = m
    <3>1. PICK a \in Nat, b \in Nat :
            /\ Leads(a, wire[m], b)
            /\ open => b = Place(m)
            /\ \A r \in Receives : Listening(r, m) => Hears(r, a)
      BY <2>2, <2>5 DEF InPlace
    <3>2. PICK c \in Nat : Moves(a, msg, c) /\ Leads(c, Tail(wire[m]), b)
      BY <1>1, <1>3, <3>1, LeadsAfterHead
    <3>3. ASSUME NEW r \in Receives, Listening(r, m)'
          PROVE  Hears(r, c)'
      <4>1. Listening(r, m)
        BY <1>2, <3>3 DEF Listening
      <4>2. PICK d \in Nat : Leads(d, inbox[r], a) /\ (rx[r].id # None => d = Len(rx[r].got))
        BY <3>1, <4>1 DEF Hears
      <4>3. inbox'[r] = Append(inbox[r], msg) /\ rx'[r] = rx[r] /\ inbox[r] \in Seq(Message)
        BY <1>1, <1>4, <4>1 DEF TypeOK
      <4>4. Leads(d, Append(inbox[r], msg), c)
        BY <1>3, <3>2, <4>2, <4>3, LeadsOn
      <4>5. (Leads(d, inbox[r], c) /\ (rx[r].id # None => d = Len(rx[r].got)))'
        BY <4>2, <4>3, <4>4 DEF Leads
      <4>6. QED
        BY <4>5 DEF Hears
    <3>4. wire'[m] = Tail(wire[m])
      BY <1>1 DEF TypeOK
    <3>5. (Leads(c, wire[m], b) /\ (open => b = Place(m)))'
      BY <1>1, <2>3, <2>5, <3>1, <3>2, <3>4 DEF Leads
    <3>6. QED
      BY <2>5, <3>3, <3>5 DEF InPlace
  <2>6. QED
    BY <2>4, <2>5
<1>7. QED
  BY <1>5, <1>6

\* What a turn of receive_file's loop does: v is what it knows after the message.
TurnOfLoop(r, msg, v) ==
    /\ rx' = [rx EXCEPT ![r] = v]
    /\ \/ /\ msg.type = "metadata" /\ msg.id \in Sends
          /\ v = [rx[r] EXCEPT !.id = msg.id, !.tmp = <<>>, !.mixed = @ \/ rx[r].got # <<>>]
       \/ /\ msg.type = "chunk" /\ rx[r].id # None
          /\ v = [rx[r] EXCEPT !.got = Append(@, msg.data), !.tmp = Append(@, msg.data)]
       \/ /\ v = rx[r]
          /\ pc'[r] = "receive" => /\ msg.type # "metadata"
                                   /\ msg.type = "chunk" => rx[r].id = None
    /\ pc'[r] = "receive" /\ v.id # None => Len(v.got) < Size
    /\ pc'[r] = "receive" \/ pc'[r] \in Over
    /\ \/ saved' = saved
       \/ /\ v.got = File
          /\ saved' = saved \cup {[by |-> r, content |-> v.tmp, mixed |-> v.mixed]}

LEMMA ReceiveEffect ==
  ASSUME TransferInv, NEW r \in Receives, Receive(r)
  PROVE  \E v : TurnOfLoop(r, Head(inbox[r]), v)
<1> USE DEF TransferInv
<1> DEFINE msg == Head(inbox[r])
<1>1. /\ r \in Calls /\ pc[r] = "receive" /\ inbox[r] # <<>>
      /\ inbox[r] \in Seq(Message) /\ rx[r] \in Receiving /\ pc \in [Calls -> PCs]
      /\ rx \in [Receives -> Receiving]
  BY PlaceTypes DEF Receive, TypeOK
<1>2. Genuine(msg)
  BY <1>1, TailSeq DEF MessagesGenuine
<1>3. ASSUME NEW outcome \in Over, EndCall(r, outcome)
      PROVE  pc'[r] = outcome /\ pc'[r] # "receive"
  BY <1>1, <1>3 DEF EndCall, Goto, Over
<1>4. UNCHANGED tvars => pc'[r] = "receive"
  BY <1>1 DEF tvars
\* The end of the turn.
<1>5. ASSUME NEW v \in Receiving, AfterMessage(r, v)
      PROVE  /\ rx' = [rx EXCEPT ![r] = v]
             /\ pc'[r] = "receive" /\ v.id # None => Len(v.got) < Size
             /\ pc'[r] = "receive" \/ pc'[r] \in Over
             /\ \/ saved' = saved
                \/ /\ v.got = File
                   /\ saved' = saved \cup {[by |-> r, content |-> v.tmp, mixed |-> v.mixed]}
  <2>1. Len(v.got) \in Nat /\ Size \in Nat
    BY NativeAssumption, LenProperties DEF Receiving
  <2>2. CASE v.id # None /\ Len(v.got) >= Size
    BY <1>3, <1>5, <2>2 DEF AfterMessage, Finalize, Over
  <2>3. CASE ~(v.id # None /\ Len(v.got) >= Size)
    BY <1>4, <1>5, <2>1, <2>3 DEF AfterMessage
  <2>4. QED
    BY <2>2, <2>3
<1>6. CASE /\ UNCHANGED rx /\ pc'[r] \in Over
           /\ \/ saved' = saved
              \/ /\ rx[r].got = File
                 /\ saved' = saved \cup {[by |-> r, content |-> rx[r].tmp, mixed |-> rx[r].mixed]}
  <2>1. rx' = [rx EXCEPT ![r] = rx[r]] /\ pc'[r] # "receive"
    BY <1>1, <1>6 DEF Over
  <2>2. TurnOfLoop(r, msg, rx[r])
    BY <1>6, <2>1 DEF TurnOfLoop
  <2>3. QED
    BY <2>2
<1>7. CASE EndCall(r, "error") /\ UNCHANGED <<rx, saved>>
  BY <1>3, <1>6, <1>7 DEF Over
<1>8. CASE Finalize(r, rx[r]) /\ UNCHANGED rx
  BY <1>3, <1>6, <1>8 DEF Finalize, Over
<1>9. CASE /\ AfterMessage(r, rx[r]) /\ msg.type # "metadata"
           /\ msg.type = "chunk" => rx[r].id = None
  <2>1. TurnOfLoop(r, msg, rx[r])
    BY <1>1, <1>5, <1>9 DEF TurnOfLoop
  <2>2. QED
    BY <2>1
<1>10. CASE msg.type = "metadata"
  <2>1. ReceiveMetadata(r, msg) /\ msg.id \in Sends
    BY <1>2, <1>10 DEF Receive, Genuine
  <2> DEFINE v == [rx[r] EXCEPT !.id = msg.id, !.tmp = <<>>, !.mixed = @ \/ rx[r].got # <<>>]
  <2>2. v \in Receiving
    BY <1>1, <2>1, EmptySeq DEF Receiving
  <2>3. CASE open
    <3>1. AfterMessage(r, v)
      BY <2>1, <2>3 DEF ReceiveMetadata
    <3>2. TurnOfLoop(r, msg, v)
      <4>1. /\ rx' = [rx EXCEPT ![r] = v]
            /\ pc'[r] = "receive" /\ v.id # None => Len(v.got) < Size
            /\ pc'[r] = "receive" \/ pc'[r] \in Over
            /\ \/ saved' = saved
               \/ /\ v.got = File
                  /\ saved' = saved \cup {[by |-> r, content |-> v.tmp, mixed |-> v.mixed]}
        BY <1>5, <2>2, <3>1
      <4>2. QED
        BY <1>10, <2>1, <4>1 DEF TurnOfLoop
    <3>3. QED
      BY <3>2
  <2>4. CASE ~open
    BY <1>7, <2>1, <2>4 DEF ReceiveMetadata
  <2>5. QED
    BY <2>3, <2>4
<1>11. CASE msg.type = "chunk"
  <2>1. ReceiveChunk(r, msg) /\ msg.data \in Chunks
    <3>1. msg \in Message
      BY <1>1, TailSeq
    <3>2. msg.data \in Chunks
      BY <3>1 DEF Message
    <3>3. QED
      BY <1>11, <3>2 DEF Receive
  <2>2. CASE rx[r].id = None
    BY <1>9, <1>11, <2>1, <2>2 DEF ReceiveChunk
  <2>3. CASE rx[r].id # None
    <3> DEFINE v == [rx[r] EXCEPT !.got = Append(@, msg.data), !.tmp = Append(@, msg.data)]
    <3>1. v \in Receiving
      BY <1>1, <2>1, AppendProperties DEF Receiving
    <3>2. AfterMessage(r, v)
      BY <2>1, <2>3 DEF ReceiveChunk
    <3>3. /\ rx' = [rx EXCEPT ![r] = v]
          /\ pc'[r] = "receive" /\ v.id # None => Len(v.got) < Size
          /\ pc'[r] = "receive" \/ pc'[r] \in Over
          /\ \/ saved' = saved
             \/ /\ v.got = File
                /\ saved' = saved \cup {[by |-> r, content |-> v.tmp, mixed |-> v.mixed]}
      BY <1>5, <3>1, <3>2
    <3>4. TurnOfLoop(r, msg, v)
      BY <1>11, <2>3, <3>3 DEF TurnOfLoop
    <3>5. QED
      BY <3>4
  <2>4. QED
    BY <2>2, <2>3
<1>12. CASE msg.type = "eof"
  BY <1>8, <1>9, <1>12 DEF Receive, ReceiveEof
<1>13. CASE msg.type = "cancel" /\ msg.id = rx[r].id
  BY <1>7, <1>13 DEF Receive
<1>14. CASE /\ msg.type \notin {"metadata", "chunk", "eof"}
            /\ ~(msg.type = "cancel" /\ msg.id = rx[r].id)
  BY <1>9, <1>14 DEF Receive
<1>15. QED
  BY <1>10, <1>11, <1>12, <1>13, <1>14

\* The rest of the turn: the inbox, an answer on the wire, and the guard.
LEMMA ReceiveLeaves ==
  ASSUME TransferInv, NEW r \in Receives, Receive(r)
  PROVE  /\ pc[r] = "receive" /\ inbox[r] # <<>> /\ inbox'[r] = Tail(inbox[r])
         /\ \A q \in Receives : q # r =>
              pc'[q] = pc[q] /\ inbox'[q] = inbox[q] /\ rx'[q] = rx[q]
         /\ UNCHANGED <<at, open, handler, sendVars>>
         /\ \A m \in Machines : Place(m)' = Place(m)
         /\ \/ UNCHANGED wire
            \/ open /\ \E id \in Sends : Put(at[r], Text("accept", id))
<1> USE DEF TransferInv
<1>1. /\ r \in Calls /\ r \notin Sends /\ None \notin Sends /\ at[r] \in Machines
      /\ pc[r] = "receive" /\ owner[at[r]] = r
      /\ inbox[r] # <<>> /\ inbox' = [inbox EXCEPT ![r] = Tail(@)]
      /\ UNCHANGED <<open, handler, lowOf, sendVars>>
  BY PlaceTypes, TableAssumption DEF Receive, Calls, Busy, GuardHeld
<1>2. PICK v : TurnOfLoop(r, Head(inbox[r]), v)
  BY ReceiveEffect
<1>3. UNCHANGED tvars \/ \E outcome : EndCall(r, outcome)
  BY DEF Receive, ReceiveMetadata, ReceiveChunk, ReceiveEof, AfterMessage, Finalize
<1>4. UNCHANGED at /\ \A q \in Receives : q # r => pc'[q] = pc[q]
  BY <1>1, <1>3 DEF EndCall, Goto, TypeOK, tvars, Calls
<1>5. \A q \in Receives : q # r => inbox'[q] = inbox[q] /\ rx'[q] = rx[q]
  BY <1>1, <1>2 DEF TurnOfLoop, TypeOK
<1>6. \A m \in Machines : Place(m)' = Place(m)
  BY <1>1, <1>3 DEF EndCall, Place, TypeOK, tvars, sendVars
<1>7. UNCHANGED wire \/ (open /\ \E id \in Sends : Put(at[r], Text("accept", id)))
  <2>1. Genuine(Head(inbox[r]))
    BY <1>1, PlaceTypes, TailSeq DEF MessagesGenuine
  <2>2. QED
    BY <2>1 DEF Receive, ReceiveMetadata, ReceiveChunk, ReceiveEof, Genuine
<1>8. inbox'[r] = Tail(inbox[r])
  BY <1>1 DEF TypeOK
<1>9. QED
  BY <1>1, <1>4, <1>5, <1>6, <1>7, <1>8

\* receive_file's steps: a Metadata finds no chunk counted.
LEMMA ReceiveMix ==
  ASSUME MixInv, TransferInv', OwnerIsThere', Clean' => Clean, NEW r \in Receives, Receive(r)
  PROVE  MixInv'
<1> USE DEF MixInv, TransferInv
<1> DEFINE msg == Head(inbox[r])
<1>1. /\ pc[r] = "receive" /\ inbox[r] # <<>> /\ inbox'[r] = Tail(inbox[r])
      /\ \A q \in Receives : q # r => pc'[q] = pc[q] /\ inbox'[q] = inbox[q] /\ rx'[q] = rx[q]
      /\ UNCHANGED <<at, open, handler, sendVars>>
      /\ \A m \in Machines : Place(m)' = Place(m)
      /\ UNCHANGED wire \/ (open /\ \E id \in Sends : Put(at[r], Text("accept", id)))
  BY ReceiveLeaves
<1>2. PICK v : TurnOfLoop(r, msg, v)
  BY ReceiveEffect
<1>3. /\ at[r] \in Machines /\ inbox[r] \in Seq(Message) /\ rx[r] \in Receiving
      /\ Len(rx[r].got) \in Nat /\ msg \in Message /\ rx'[r] = v
  <2>1. at[r] \in Machines /\ inbox[r] \in Seq(Message) /\ rx[r] \in Receiving
        /\ Len(rx[r].got) \in Nat
    BY PlaceTypes
  <2>2. msg \in Message
    BY <1>1, <2>1, TailSeq
  <2>3. rx'[r] = v
    BY <1>2 DEF TurnOfLoop, TypeOK
  <2>4. QED
    BY <2>1, <2>2, <2>3
<1>4. /\ rx[r].id = None => rx[r].got = <<>>
      /\ rx[r].id # None => Len(rx[r].got) < Size
      /\ ~rx[r].mixed => rx[r].tmp = rx[r].got
      /\ handler[at[r]] = r
  BY <1>1 DEF ReceivesFollow
<1>5. ~v.mixed => v.tmp = v.got /\ ~rx[r].mixed
  <2>1. CASE v = [rx[r] EXCEPT !.id = msg.id, !.tmp = <<>>, !.mixed = @ \/ rx[r].got # <<>>]
    BY <1>3, <2>1 DEF Receiving
  <2>2. CASE v = [rx[r] EXCEPT !.got = Append(@, msg.data), !.tmp = Append(@, msg.data)]
    BY <1>3, <1>4, <2>2 DEF Receiving
  <2>3. CASE v = rx[r]
    BY <1>4, <2>3
  <2>4. QED
    BY <1>2, <2>1, <2>2, <2>3 DEF TurnOfLoop
<1>6. pc'[r] = "receive" => IF v.id = None THEN v.got = <<>> ELSE Len(v.got) < Size
  <2>1. CASE /\ v = [rx[r] EXCEPT !.id = msg.id, !.tmp = <<>>, !.mixed = @ \/ rx[r].got # <<>>]
             /\ msg.id \in Sends
    <3>1. v.id # None
      BY <1>3, <2>1, TableAssumption DEF Receiving, Calls
    <3>2. QED
      BY <1>2, <3>1 DEF TurnOfLoop
  <2>2. CASE /\ v = [rx[r] EXCEPT !.got = Append(@, msg.data), !.tmp = Append(@, msg.data)]
             /\ rx[r].id # None
    <3>1. v.id # None
      BY <1>3, <2>2 DEF Receiving
    <3>2. QED
      BY <1>2, <3>1 DEF TurnOfLoop
  <2>3. CASE v = rx[r]
    BY <1>4, <2>3
  <2>4. QED
    BY <1>2, <2>1, <2>2, <2>3 DEF TurnOfLoop
<1>7. ReceivesFollow'
  <2>1. pc'[r] \notin {"new", "spawned", "begin"}
    BY <1>2 DEF TurnOfLoop, Over
  <2>2. ASSUME NEW q \in Receives
        PROVE  /\ pc'[q] \in {"new", "spawned", "begin"} => inbox'[q] = <<>> /\ rx'[q] = NotReceiving
               /\ pc'[q] = "receive" =>
                    /\ handler'[at'[q]] = q
                    /\ IF rx'[q].id = None THEN rx'[q].got = <<>> ELSE Len(rx'[q].got) < Size
               /\ ~rx'[q].mixed => rx'[q].tmp = rx'[q].got
    <3>1. CASE q = r
      BY <1>1, <1>3, <1>4, <1>5, <1>6, <2>1, <3>1
    <3>2. CASE q # r
      BY <1>1, <3>2 DEF ReceivesFollow
    <3>3. QED
      BY <3>1, <3>2
  <2>3. QED
    BY <1>1, <2>2 DEF ReceivesFollow
<1>8. UnreadIsUnsent'
  BY <1>1 DEF UnreadIsUnsent, sendVars
\* What the messages that are left still lead to.
<1>9. ASSUME Clean, NEW a \in Nat, Hears(r, a)
      PROVE  /\ msg.type = "metadata" => rx[r].got = <<>>
             /\ pc'[r] = "receive" => Hears(r, a)'
  <2>1. PICK c \in Nat : Leads(c, inbox[r], a) /\ (rx[r].id # None => c = Len(rx[r].got))
    BY <1>9 DEF Hears
  <2>2. PICK d \in Nat : Moves(c, msg, d) /\ Leads(d, Tail(inbox[r]), a)
    BY <1>1, <1>3, <2>1, LeadsAfterHead
  <2>3. msg.type = "metadata" => rx[r].got = <<>>
    <3>1. msg.type = "metadata" /\ rx[r].id # None => Len(rx[r].got) = 0
      BY <2>1, <2>2 DEF Moves
    <3>2. rx[r].got \in Seq(Chunks)
      BY <1>3 DEF Receiving
    <3>3. QED
      BY <1>4, <3>1, <3>2, EmptySeq
  <2>4. ASSUME pc'[r] = "receive", v.id # None
        PROVE  d = Len(v.got)
    <3>1. CASE /\ msg.type = "metadata"
               /\ v = [rx[r] EXCEPT !.id = msg.id, !.tmp = <<>>, !.mixed = @ \/ rx[r].got # <<>>]
      <4>1. v.got = rx[r].got /\ d = 0
        BY <1>3, <2>2, <3>1 DEF Receiving, Moves
      <4>2. QED
        BY <2>3, <3>1, <4>1, EmptySeq
    <3>2. CASE /\ msg.type = "chunk" /\ rx[r].id # None
               /\ v = [rx[r] EXCEPT !.got = Append(@, msg.data), !.tmp = Append(@, msg.data)]
      <4>1. rx[r].got \in Seq(Chunks) /\ msg.data \in Chunks
        BY <1>3 DEF Receiving, Message
      <4>2. v.got = Append(rx[r].got, msg.data)
        BY <1>3, <3>2 DEF Receiving
      <4>3. Len(v.got) = Len(rx[r].got) + 1
        BY <4>1, <4>2, AppendProperties
      <4>4. d = Turn(c) /\ c = Len(rx[r].got)
        BY <2>1, <2>2, <3>2 DEF Moves
      <4>5. Len(v.got) < Size
        BY <1>2, <2>4 DEF TurnOfLoop
      <4>6. QED
        BY <1>3, <4>3, <4>4, <4>5, NativeAssumption DEF Turn
    <3>3. CASE /\ v = rx[r] /\ msg.type # "metadata"
               /\ msg.type = "chunk" => rx[r].id = None
      BY <2>1, <2>2, <2>4, <3>3 DEF Moves
    <3>4. QED
      BY <1>2, <2>4, <3>1, <3>2, <3>3 DEF TurnOfLoop
  <2>5. pc'[r] = "receive" => (Leads(d, inbox[r], a) /\ (rx[r].id # None => d = Len(rx[r].got)))'
    BY <1>1, <1>3, <2>2, <2>4 DEF Leads
  <2>6. QED
    BY <2>3, <2>5 DEF Hears
<1>10. ASSUME Clean
       PROVE  msg.type = "metadata" => rx[r].got = <<>>
  <2>1. PICK m \in Machines : at[r] = Peer(m)
    <3>1. Peer(at[r]) \in Machines /\ Peer(at[r]) # at[r]
      <4>1. \E o \in Machines : o # at[r]
        <5>1. SUFFICES ASSUME Machines = {at[r]} PROVE FALSE
          BY <1>3
        <5>2. Cardinality({at[r]}) = 1
          BY FS_Singleton
        <5>3. QED
          BY <5>1, <5>2, NativeAssumption
      <4>2. QED
        BY <4>1 DEF Peer
    <3>2. QED
      BY <1>3, <3>1, PeersDiffer
  <2>2. PICK a \in Nat : Hears(r, a)
    BY <1>1, <1>10, <2>1 DEF KeptApart, InPlace, Listening
  <2>3. QED
    BY <1>9, <1>10, <2>2
<1>11. Clean' => ~v.mixed
  <2>1. SUFFICES ASSUME Clean' PROVE ~v.mixed
    OBVIOUS
  <2>2. Clean /\ ~rx[r].mixed
    BY <2>1 DEF KeptApart
  <2>3. CASE /\ msg.type = "metadata"
             /\ v = [rx[r] EXCEPT !.id = msg.id, !.tmp = <<>>, !.mixed = @ \/ rx[r].got # <<>>]
    BY <1>3, <1>10, <2>2, <2>3 DEF Receiving
  <2>4. CASE v = [rx[r] EXCEPT !.got = Append(@, msg.data), !.tmp = Append(@, msg.data)]
    BY <1>3, <2>2, <2>4 DEF Receiving
  <2>5. QED
    BY <1>2, <2>2, <2>3, <2>4 DEF TurnOfLoop
<1>12. SavedExplained'
  <2>1. ASSUME NEW f \in saved'
        PROVE  (f.mixed => ~Clean') /\ (~f.mixed => f.content = File)
    <3>1. CASE f \in saved
      BY <3>1 DEF SavedExplained
    <3>2. CASE v.got = File /\ f = [by |-> r, content |-> v.tmp, mixed |-> v.mixed]
      BY <1>5, <1>11, <3>2
    <3>3. QED
      BY <1>2, <2>1, <3>1, <3>2 DEF TurnOfLoop
  <2>2. QED
    BY <2>1 DEF SavedExplained
<1>13. KeptApart'
  <2>1. SUFFICES ASSUME Clean'
                 PROVE  /\ \A t \in Sends : writer'[t] = "error" => ~open'
                        /\ \A q \in Receives : ~rx'[q].mixed
                        /\ \A m \in Machines : InPlace(m)'
    BY DEF KeptApart
  <2>2. /\ Clean
        /\ \A t \in Sends : writer[t] = "error" => ~open
        /\ \A q \in Receives : ~rx[q].mixed
        /\ \A m \in Machines : InPlace(m)
    BY <2>1 DEF KeptApart
  <2>3. \A q \in Receives : ~rx'[q].mixed
    BY <1>1, <1>3, <1>11, <2>1, <2>2
  <2>4. ASSUME NEW m \in Machines PROVE InPlace(m)'
    <3>1. ASSUME NEW q \in Receives, NEW a \in Nat, Listening(q, m)', Listening(q, m) => Hears(q, a)
          PROVE  Hears(q, a)'
      <4>1. CASE q = r
        BY <1>1, <1>9, <2>2, <3>1, <4>1 DEF Listening
      <4>2. CASE q # r
        BY <1>1, <3>1, <4>2, StillHears DEF Listening
      <4>3. QED
        BY <4>1, <4>2
    <3>2. \/ wire'[m] = wire[m] /\ (open' => Place(m)' = Place(m))
          \/ /\ open
             /\ \E answer \in Message :
                  wire'[m] = Append(wire[m], answer) /\ Moves(Place(m), answer, Place(m)')
      <4>1. CASE UNCHANGED wire
        BY <1>1, <4>1
      <4>2. CASE open /\ \E id \in Sends : Put(at[r], Text("accept", id))
        <5>1. PICK id \in Sends : Put(at[r], Text("accept", id))
          BY <4>2
        <5>2. Text("accept", id) \in Message /\ Text("accept", id).type = "accept"
          BY MessageType
        <5>3. Moves(Place(m), Text("accept", id), Place(m)')
          BY <1>1, <5>2 DEF Moves
        <5>4. wire'[m] = wire[m] \/ wire'[m] = Append(wire[m], Text("accept", id))
          BY <1>3, <5>1 DEF Put, TypeOK
        <5>5. QED
          BY <1>1, <4>2, <5>2, <5>3, <5>4
      <4>3. QED
        BY <1>1, <4>1, <4>2
    <3>3. QED
      BY <1>1, <2>2, <3>1, <3>2, StaysInPlace
  <2>5. QED
    BY <1>1, <2>2, <2>3, <2>4 DEF sendVars
<1>14. QED
  BY <1>7, <1>8, <1>12, <1>13

LEMMA ReceiveFileMix ==
  ASSUME MixInv, TransferInv', OwnerIsThere', Clean' => Clean, NEW r \in Receives, ReceiveFile(r)
  PROVE  MixInv'
<1> USE DEF MixInv, TransferInv
<1>1. r \in Calls /\ r \notin Sends /\ None \notin Sends /\ at[r] \in Machines
  BY PlaceTypes, TableAssumption DEF Calls
<1>2. CASE Receive(r)
  BY <1>2, ReceiveMix
<1>3. CASE InactivityTimeout(r)
  <2>1. /\ owner[at[r]] = r /\ EndCall(r, "error")
        /\ UNCHANGED <<link, sendVars, receiveVars>>
    BY <1>1, <1>3 DEF InactivityTimeout, Busy, GuardHeld
  <2>2. \A m \in Machines : Place(m)' = Place(m)
    BY <1>1, <2>1 DEF EndCall, Place, TypeOK, sendVars
  <2>3. UNCHANGED at /\ \A q \in Receives : pc'[q] = pc[q] \/ pc'[q] \in Over
    BY <1>1, <2>1 DEF EndCall, Goto, TypeOK, Calls, Over
  <2>4. ReceivesFollow' /\ SavedExplained'
    BY <2>1, <2>3, OthersExplained DEF link, receiveVars
  <2>5. UnreadIsUnsent'
    BY <2>1 DEF UnreadIsUnsent, sendVars
  <2>6. ASSUME Clean' PROVE \A m \in Machines : InPlace(m)'
    <3>1. \A q \in Receives : pc'[q] = "receive" => pc[q] = "receive"
      BY <2>3 DEF Over
    <3>2. \A m \in Machines : InPlace(m)
      BY <2>6 DEF KeptApart
    <3>3. UNCHANGED <<at, inbox, rx, open, wire>>
      BY <2>1, <2>3 DEF link, receiveVars
    <3>4. QED
      BY <2>2, <3>1, <3>2, <3>3, SendsInPlace
  <2>7. KeptApart'
    BY <2>1, <2>6 DEF KeptApart, link, sendVars, receiveVars
  <2>8. QED
    BY <2>4, <2>5, <2>7
<1>4. CASE ListenForFile(r)
  <2>1. /\ pc[r] = "begin" /\ pc'[r] = "receive" /\ handler'[at[r]] = r
        /\ \A q \in Receives : q # r => pc'[q] = pc[q]
        /\ \A m \in Machines : m # at[r] => handler'[m] = handler[m]
        /\ UNCHANGED <<table, owner, at, open, wire, lowOf, sendVars, receiveVars, faults>>
    BY <1>1, <1>4 DEF ListenForFile, Goto, TypeOK, Calls
  <2>2. inbox[r] = <<>> /\ rx[r] = NotReceiving
    BY <2>1 DEF ReceivesFollow
  <2>3. \A q \in Receives : q # r /\ at[q] = at[r] => pc[q] # "receive"
    BY <1>1, <2>1, OneHasGuard DEF Busy, Calls
  <2>4. ReceivesFollow' /\ UnreadIsUnsent' /\ SavedExplained'
    <3>1. ASSUME NEW q \in Receives
          PROVE  /\ pc'[q] \in {"new", "spawned", "begin"} => inbox'[q] = <<>> /\ rx'[q] = NotReceiving
                 /\ pc'[q] = "receive" =>
                      /\ handler'[at'[q]] = q
                      /\ IF rx'[q].id = None THEN rx'[q].got = <<>> ELSE Len(rx'[q].got) < Size
                 /\ ~rx'[q].mixed => rx'[q].tmp = rx'[q].got
      <4>1. CASE q = r
        BY <2>1, <2>2, <4>1 DEF NotReceiving, receiveVars
      <4>2. CASE q # r
        BY <2>1, <2>3, <4>2, PlaceTypes DEF ReceivesFollow, receiveVars
      <4>3. QED
        BY <4>1, <4>2
    <3>2. \A m \in Machines : handler'[m] \in Calls => at'[handler'[m]] = m
      BY <2>1 DEF ReceivesFollow
    <3>3. ReceivesFollow'
      BY <3>1, <3>2 DEF ReceivesFollow
    <3>4. QED
      BY <2>1, <3>3 DEF UnreadIsUnsent, SavedExplained, sendVars, receiveVars
  <2>5. ASSUME Clean', NEW m \in Machines PROVE InPlace(m)'
    <3>1. InPlace(m)
      BY <2>5 DEF KeptApart
    <3>2. Place(m)' = Place(m) /\ wire'[m] = wire[m]
      BY <2>1 DEF Place, sendVars
    <3>3. ASSUME NEW q \in Receives, NEW a \in Nat, Listening(q, m)', Listening(q, m) => Hears(q, a)
          PROVE  Hears(q, a)'
      <4>1. CASE q = r
        <5>1. Leads(a, <<>>, a)
          BY LeadsNowhere
        <5>2. (Leads(a, inbox[r], a) /\ rx[r].id = None)'
          BY <2>1, <2>2, <5>1 DEF Leads, NotReceiving, receiveVars
        <5>3. QED
          BY <4>1, <5>2 DEF Hears
      <4>2. CASE q # r
        BY <2>1, <3>3, <4>2, StillHears DEF Listening, receiveVars
      <4>3. QED
        BY <4>1, <4>2
    <3>4. QED
      BY <2>1, <3>1, <3>2, <3>3, StaysInPlace
  <2>6. KeptApart'
    BY <2>1, <2>5 DEF KeptApart, sendVars, receiveVars
  <2>7. QED
    BY <2>4, <2>6
<1>5. QED
  BY <1>2, <1>3, <1>4 DEF ReceiveFile

LEMMA MixStep == MixInv /\ [Next]_vars => MixInv'
<1> SUFFICES ASSUME MixInv, [Next]_vars PROVE MixInv'
  OBVIOUS
<1>1. TransferInv' /\ OwnerIsThere' /\ (Clean' => Clean)
  BY TransferStep, OwnerStaysThere, CleanBefore DEF MixInv
<1>2. CASE UNCHANGED vars
  <2>1. UNCHANGED <<registered, channel, adding, owner, at, pc, open, wire, handler, lowOf,
                    accepted, cancelled, reader, writer, slot, next, notified, out, inbox, rx,
                    agreed, saved, faults>>
    BY <1>2 DEF vars, tvars, link, sendVars, receiveVars
  <2>2. ReceivesFollow' /\ UnreadIsUnsent' /\ SavedExplained'
    BY <2>1 DEF MixInv, ReceivesFollow, UnreadIsUnsent, SavedExplained, Clean
  <2>3. ASSUME Clean' PROVE \A m \in Machines : InPlace(m)'
    <3>1. \A m \in Machines : InPlace(m)
      BY <1>1, <2>3 DEF MixInv, KeptApart
    <3>2. \A m \in Machines : Place(m)' = Place(m)
      BY <2>1 DEF Place
    <3>3. QED
      BY <1>1, <2>1, <3>1, <3>2, SendsInPlace DEF MixInv, TransferInv
  <2>4. KeptApart'
    BY <1>1, <2>1, <2>3 DEF MixInv, KeptApart
  <2>5. QED
    BY <1>1, <2>2, <2>4 DEF MixInv
<1>3. QED
  BY <1>1, <1>2, OnTableMix, SendFileMix, TasksMix, ReceiveFileMix, DeliverMix, EnvironmentMix
  DEF Next

\* A file that is not whole was received after a Metadata in the midst of
\* chunks, and only a failed read or a cancel puts one there.
THEOREM MixingNeedsFailure == Spec => []MixedNeedsFailedRead
<1>1. MixInv => MixedNeedsFailedRead
  BY DEF MixInv, SavedExplained, Clean, MixedNeedsFailedRead
<1>2. QED
  BY <1>1, MixInit, MixStep, PTL DEF Spec

=============================================================================
