----------------------- MODULE MailboxDeliveryProofs -----------------------
(***************************************************************************)
(* Proofs about MailboxDelivery, for any senders and channels, any         *)
(* capacity of the broadcast channel, and any number of retries, messages  *)
(* and failures.                                                           *)
(***************************************************************************)
EXTENDS MailboxDelivery, SequenceTheorems, FiniteSetTheorems, TLAPS

-----------------------------------------------------------------------------
(* The inductive invariants.                                               *)

Request == [at: {"idle", "push", "notify", "reply"}, k: 0..MaxSends, attempt: 0..Retries]

Connection == [phase: {"free", "timer", "connecting", "open"},
               wire: Seq(Message), got: Seq(Message)]

Task == [phase: {"none", "upgraded", "subscribed", "ended"},
         buf: Seq(Message), lagged: BOOLEAN]

\* Only a failed connect adds a channel.
Types == TypeOK /\ extra <= faults

\* Only an open channel has a handler and carries messages, and a handler that
\* has ended holds none.
ConnectionOK(w) ==
    /\ channel[w].phase # "open" =>
          /\ channel[w].wire = <<>> /\ channel[w].got = <<>>
          /\ handler[w] = NoHandler
    /\ handler[w].phase = "ended" => handler[w].buf = <<>>

Connections == \A w \in Channels : ConnectionOK(w)

\* While the subscription lasts, its latest channel is one of those in use.
LatestAlive == active => channel[latest].phase # "free"

\* What a channel carries and has not given to the listener.
Carried(w) == ToSet(channel[w].wire) \cup ToSet(handler[w].buf)

Announcing(m) == \E s \in Senders : sender[s].at = "notify" /\ m = Current(s)

\* A stored message has shown, has met a gap, or is still to be announced or
\* to be received.
Found(m) == m \in seen \/ m \in gap \/ Announcing(m) \/ \E w \in Channels : m \in Carried(w)

StoredIsFound == active => \A m \in ToSet(list) : Found(m)

\* What the initial fetch has returned has shown.
FetchShown ==
    /\ active /\ fetch.at = "done" => ToSet(fetch.page) \subseteq seen
    /\ fetch.at = "failed" => fetch.page = <<>>

InOrder(seq) ==
    \A i, j \in 1..Len(seq) : i < j /\ seq[i].from = seq[j].from => seq[i].k <= seq[j].k

\* A channel carries nothing that its sender has not come to, ...
Begun(m) == m.k <= sender[m.from].k

SentSoFar == \A w \in Channels : \A i \in 1..Len(Pipe(w)) : Begun(Pipe(w)[i])

\* ... and a message that waits to be announced is on the list once more than
\* on any channel.
ToAnnounce(m) == IF sender[m.from].at = "notify" /\ sender[m.from].k = m.k THEN 1 ELSE 0

PushedFirst ==
    \A w \in Channels, m \in Message :
        Copies(Pipe(w), m) + ToAnnounce(m) <= Copies(list, m)

OrderInv ==
    /\ \A w \in Channels : InOrder(Pipe(w))
    /\ SentSoFar
    /\ PushedFirst

DeliveryInv ==
    /\ Types /\ Connections /\ LatestAlive
    /\ StoredIsFound /\ FetchShown
    /\ OrderInv
    /\ ChannelsBounded

-----------------------------------------------------------------------------
(* The elements of a sequence, and how often it holds one.                 *)

LEMMA ToSetLaws ==
  ASSUME NEW S, NEW seq \in Seq(S)
  PROVE  /\ ToSet(seq) \subseteq S
         /\ ToSet(seq) = {seq[i] : i \in 1..Len(seq)}
<1>1. DOMAIN seq = 1..Len(seq)
  OBVIOUS
<1>2. \A i \in 1..Len(seq) : seq[i] \in S
  OBVIOUS
<1>3. QED
  BY <1>1, <1>2 DEF ToSet

LEMMA ToSetEmpty == ToSet(<<>>) = {}
<1>1. \A i \in DOMAIN <<>> : FALSE
  OBVIOUS
<1>2. QED
  BY <1>1 DEF ToSet

LEMMA ToSetAppend ==
  ASSUME NEW S, NEW seq \in Seq(S), NEW x \in S
  PROVE  ToSet(Append(seq, x)) = ToSet(seq) \cup {x}
<1> DEFINE t == Append(seq, x)
<1>1. /\ t \in Seq(S) /\ Len(t) = Len(seq) + 1 /\ Len(seq) \in Nat
      /\ t[Len(seq) + 1] = x
      /\ \A i \in 1..Len(seq) : t[i] = seq[i]
  OBVIOUS
<1>2. ToSet(t) = {t[i] : i \in 1..Len(t)}
  BY <1>1, ToSetLaws
<1>3. ToSet(seq) = {seq[i] : i \in 1..Len(seq)}
  BY ToSetLaws
<1>4. 1..Len(t) = 1..Len(seq) \cup {Len(seq) + 1}
  BY <1>1
<1> HIDE DEF t
<1>5. ASSUME NEW y \in ToSet(t)
      PROVE  y \in ToSet(seq) \cup {x}
  BY <1>1, <1>2, <1>3, <1>4
<1>6. ASSUME NEW y \in ToSet(seq) \cup {x}
      PROVE  y \in ToSet(t)
  <2>1. CASE y = x
    BY <2>1, <1>1, <1>2, <1>4
  <2>2. CASE y \in ToSet(seq)
    BY <2>2, <1>1, <1>2, <1>3, <1>4
  <2>3. QED
    BY <1>6, <2>1, <2>2
<1>7. QED
  BY <1>5, <1>6 DEF t

LEMMA ToSetHeadTail ==
  ASSUME NEW S, NEW seq \in Seq(S), seq # <<>>
  PROVE  ToSet(seq) \subseteq {Head(seq)} \cup ToSet(Tail(seq))
<1>1. /\ Tail(seq) \in Seq(S) /\ Len(Tail(seq)) = Len(seq) - 1 /\ Len(seq) \in Nat \ {0}
      /\ \A i \in 1..Len(Tail(seq)) : Tail(seq)[i] = seq[i + 1]
  BY HeadTailProperties, LenProperties, EmptySeq
<1>2. Head(seq) = seq[1]
  OBVIOUS
<1>3. ToSet(seq) = {seq[i] : i \in 1..Len(seq)}
  BY ToSetLaws
<1>4. ToSet(Tail(seq)) = {Tail(seq)[i] : i \in 1..Len(Tail(seq))}
  BY <1>1, ToSetLaws
<1>5. ASSUME NEW i \in 1..Len(seq)
      PROVE  seq[i] \in {Head(seq)} \cup ToSet(Tail(seq))
  <2>1. CASE i = 1
    BY <2>1, <1>2
  <2>2. CASE i # 1
    <3>1. i - 1 \in 1..Len(Tail(seq)) /\ (i - 1) + 1 = i
      BY <2>2, <1>1
    <3>2. Tail(seq)[i - 1] = seq[i]
      BY <3>1, <1>1
    <3>3. QED
      BY <3>1, <3>2, <1>4
  <2>3. QED
    BY <2>1, <2>2
<1>6. QED
  BY <1>3, <1>5

LEMMA CopiesType ==
  ASSUME NEW S, NEW seq \in Seq(S), NEW m
  PROVE  /\ IsFiniteSet({i \in 1..Len(seq) : seq[i] = m})
         /\ Copies(seq, m) \in Nat
<1>1. IsFiniteSet(1..Len(seq))
  BY LenProperties, FS_Interval
<1>2. IsFiniteSet({i \in 1..Len(seq) : seq[i] = m})
  BY <1>1, FS_Subset
<1>3. QED
  BY <1>2, FS_CardinalityType DEF Copies

LEMMA CopiesEmpty ==
  ASSUME NEW m
  PROVE  Copies(<<>>, m) = 0
<1>1. {i \in 1..Len(<<>>) : <<>>[i] = m} = {}
  OBVIOUS
<1>2. QED
  BY <1>1, FS_EmptySet DEF Copies

LEMMA CopiesAppend ==
  ASSUME NEW S, NEW seq \in Seq(S), NEW x \in S, NEW m
  PROVE  Copies(Append(seq, x), m) = Copies(seq, m) + (IF x = m THEN 1 ELSE 0)
<1> DEFINE t == Append(seq, x)
           At(u) == {i \in 1..Len(u) : u[i] = m}
<1>1. /\ t \in Seq(S) /\ Len(t) = Len(seq) + 1 /\ Len(seq) \in Nat
      /\ t[Len(seq) + 1] = x
      /\ \A i \in 1..Len(seq) : t[i] = seq[i]
  OBVIOUS
<1>2. 1..Len(t) = 1..Len(seq) \cup {Len(seq) + 1} /\ Len(seq) + 1 \notin 1..Len(seq)
  BY <1>1
<1>3. IsFiniteSet(At(seq)) /\ Cardinality(At(seq)) \in Nat
  BY CopiesType DEF Copies
<1> HIDE DEF t
<1>4. CASE x = m
  <2>1. At(t) = At(seq) \cup {Len(seq) + 1}
    BY <1>1, <1>2, <1>4
  <2>2. Len(seq) + 1 \notin At(seq)
    BY <1>2
  <2>3. Cardinality(At(seq) \cup {Len(seq) + 1}) = Cardinality(At(seq)) + 1
    BY <1>3, <2>2, FS_AddElement
  <2>4. QED
    BY <1>4, <2>1, <2>3 DEF Copies, t
<1>5. CASE x # m
  <2>1. At(t) = At(seq)
    BY <1>1, <1>2, <1>5
  <2>2. Copies(t, m) = Copies(seq, m) /\ Copies(seq, m) \in Nat
    BY <2>1, CopiesType DEF Copies
  <2>3. QED
    BY <1>5, <2>2 DEF t
<1>6. QED
  BY <1>4, <1>5

\* p is a beginning of q.
Begins(p, q) ==
    /\ Len(p) <= Len(q)
    /\ \A i \in 1..Len(p) : p[i] = q[i]

LEMMA BeginsCopies ==
  ASSUME NEW S, NEW p \in Seq(S), NEW q \in Seq(S), Begins(p, q), NEW m
  PROVE  Copies(p, m) <= Copies(q, m)
<1> DEFINE At(u) == {i \in 1..Len(u) : u[i] = m}
<1>1. Len(p) \in Nat /\ Len(q) \in Nat
  BY LenProperties
<1>2. At(p) \subseteq At(q)
  BY <1>1 DEF Begins
<1>3. IsFiniteSet(At(q))
  BY CopiesType
<1>4. QED
  BY <1>2, <1>3, FS_Subset DEF Copies

-----------------------------------------------------------------------------
(* What each step does to the connections.                                 *)

\* A step changes no connection but w's, and no other request.
OthersStay(w) ==
    \A x \in Channels \ {w} : channel'[x] = channel[x] /\ handler'[x] = handler[x]

LEMMA NothingHandled == NoHandler \in Task /\ NoHandler.phase = "none" /\ NoHandler.buf = <<>>
BY EmptySeq DEF NoHandler, Task

LEMMA AgainType ==
  ASSUME Types
  PROVE  /\ Again \in Connection
         /\ Again.wire = <<>> /\ Again.got = <<>>
         /\ Again.phase = IF active THEN "timer" ELSE "free"
<1>1. <<>> \in Seq(Message)
  BY EmptySeq
<1>2. QED
  BY <1>1 DEF Again, Connection, Types, TypeOK

LEMMA TypeFacts ==
  ASSUME Types
  PROVE  /\ sender \in [Senders -> Request]
         /\ channel \in [Channels -> Connection]
         /\ handler \in [Channels -> Task]
         /\ list \in Seq(Message)
         /\ fetch.page \in Seq(Message)
         /\ \A w \in Channels : /\ channel[w].wire \in Seq(Message)
                                /\ channel[w].got \in Seq(Message)
                                /\ handler[w].buf \in Seq(Message)
         /\ \A s \in Senders : Current(s) \in Message
<1>1. /\ sender \in [Senders -> Request]
      /\ channel \in [Channels -> Connection]
      /\ handler \in [Channels -> Task]
      /\ list \in Seq(Message)
      /\ fetch.page \in Seq(Message)
  BY DEF Types, TypeOK, Request, Connection, Task
<1>2. \A s \in Senders : sender[s].k \in 0..MaxSends
  BY <1>1 DEF Request
<1>3. \A s \in Senders : Current(s) \in Message
  BY <1>2, DeliveryBounds DEF Current, Message
<1>4. QED
  BY <1>1, <1>3 DEF Connection, Task

LEMMA SubscribeEffect ==
  ASSUME Types, NEW w \in Channels, Subscribe(w)
  PROVE  /\ channel' = channel
         /\ handler' \in [Channels -> Task]
         /\ handler[w].phase = "upgraded"
         /\ handler'[w].phase = "subscribed" /\ handler'[w].buf = handler[w].buf
         /\ OthersStay(w)
<1>1. PICK h : h = [handler[w] EXCEPT !.phase = "subscribed"]
  OBVIOUS
<1>2. h \in Task /\ h.phase = "subscribed" /\ h.buf = handler[w].buf
  BY <1>1, TypeFacts DEF Task
<1>3. handler' = [handler EXCEPT ![w] = h] /\ channel' = channel /\ handler[w].phase = "upgraded"
  BY <1>1 DEF Subscribe
<1>4. QED
  BY <1>2, <1>3, TypeFacts DEF OthersStay

LEMMA ForwardEffect ==
  ASSUME Types, NEW w \in Channels, Forward(w)
  PROVE  /\ channel' \in [Channels -> Connection]
         /\ handler' \in [Channels -> Task]
         /\ handler[w].phase = "subscribed" /\ handler[w].buf # <<>>
         /\ handler'[w].phase = handler[w].phase
         /\ handler'[w].buf = Tail(handler[w].buf)
         /\ channel'[w].phase = channel[w].phase
         /\ channel'[w].got = channel[w].got
         /\ channel'[w].wire = Append(channel[w].wire, Head(handler[w].buf))
         /\ OthersStay(w)
<1>1. handler[w].phase = "subscribed" /\ handler[w].buf # <<>>
  BY DEF Forward
<1>2. Head(handler[w].buf) \in Message /\ Tail(handler[w].buf) \in Seq(Message)
  BY <1>1, TypeFacts, HeadTailProperties
<1>3. Append(channel[w].wire, Head(handler[w].buf)) \in Seq(Message)
  BY <1>2, TypeFacts, AppendProperties
<1>4. PICK h : h = [handler[w] EXCEPT !.buf = Tail(handler[w].buf)]
  OBVIOUS
<1>5. h \in Task /\ h.phase = handler[w].phase /\ h.buf = Tail(handler[w].buf)
  BY <1>2, <1>4, TypeFacts DEF Task
<1>6. PICK c : c = [channel[w] EXCEPT !.wire = Append(channel[w].wire, Head(handler[w].buf))]
  OBVIOUS
<1>7. /\ c \in Connection /\ c.phase = channel[w].phase /\ c.got = channel[w].got
      /\ c.wire = Append(channel[w].wire, Head(handler[w].buf))
  BY <1>3, <1>6, TypeFacts DEF Connection
<1>8. handler' = [handler EXCEPT ![w] = h]
  BY <1>4, TypeFacts DEF Forward
<1>9. channel' = [channel EXCEPT ![w] = c]
  BY <1>6, TypeFacts DEF Forward
<1>10. handler' \in [Channels -> Task] /\ handler'[w] = h
  BY <1>5, <1>8, TypeFacts
<1>11. channel' \in [Channels -> Connection] /\ channel'[w] = c
  BY <1>7, <1>9, TypeFacts
<1>12. OthersStay(w)
  BY <1>8, <1>9, TypeFacts DEF OthersStay
<1>13. QED
  BY <1>1, <1>5, <1>7, <1>10, <1>11, <1>12

LEMMA LagEffect ==
  ASSUME Types, NEW w \in Channels, Lag(w)
  PROVE  /\ channel' = channel
         /\ handler' \in [Channels -> Task]
         /\ handler[w].phase = "subscribed"
         /\ handler'[w].phase = "ended" /\ handler'[w].buf = <<>>
         /\ OthersStay(w)
<1>1. PICK h : h = [phase |-> "ended", buf |-> <<>>, lagged |-> FALSE]
  OBVIOUS
<1>2. h \in Task /\ h.phase = "ended" /\ h.buf = <<>>
  BY <1>1, EmptySeq DEF Task
<1>3. handler' = [handler EXCEPT ![w] = h] /\ channel' = channel /\ handler[w].phase = "subscribed"
  BY <1>1 DEF Lag
<1>4. QED
  BY <1>2, <1>3, TypeFacts DEF OthersStay

LEMMA ConnectEffect ==
  ASSUME Types, NEW w \in Channels, Connect(w)
  PROVE  /\ handler' = handler
         /\ channel' \in [Channels -> Connection]
         /\ channel[w].phase = "timer"
         /\ channel'[w].phase = IF active THEN "connecting" ELSE "free"
         /\ channel'[w].wire = channel[w].wire /\ channel'[w].got = channel[w].got
         /\ OthersStay(w)
<1>1. PICK c : c = [channel[w] EXCEPT !.phase = IF active THEN "connecting" ELSE "free"]
  OBVIOUS
<1>2. c \in Connection
  BY <1>1, TypeFacts DEF Connection
<1>3. /\ c.phase = IF active THEN "connecting" ELSE "free"
      /\ c.wire = channel[w].wire /\ c.got = channel[w].got
  BY <1>1, TypeFacts DEF Connection
<1>4. channel' = [channel EXCEPT ![w] = c] /\ handler' = handler /\ channel[w].phase = "timer"
  BY <1>1 DEF Connect
<1>5. channel' \in [Channels -> Connection] /\ channel'[w] = c
  BY <1>2, <1>4, TypeFacts
<1>6. OthersStay(w)
  BY <1>4, TypeFacts DEF OthersStay
<1>7. QED
  BY <1>3, <1>4, <1>5, <1>6

LEMMA OpenEffect ==
  ASSUME Types, NEW w \in Channels, Open(w)
  PROVE  /\ channel' \in [Channels -> Connection]
         /\ handler' \in [Channels -> Task]
         /\ channel[w].phase = "connecting" /\ channel'[w].phase = "open"
         /\ channel'[w].wire = channel[w].wire /\ channel'[w].got = channel[w].got
         /\ handler'[w].phase = "upgraded" /\ handler'[w].buf = handler[w].buf
         /\ OthersStay(w)
<1>1. PICK c : c = [channel[w] EXCEPT !.phase = "open"]
  OBVIOUS
<1>2. /\ c \in Connection /\ c.phase = "open"
      /\ c.wire = channel[w].wire /\ c.got = channel[w].got
  BY <1>1, TypeFacts DEF Connection
<1>3. PICK h : h = [handler[w] EXCEPT !.phase = "upgraded"]
  OBVIOUS
<1>4. h \in Task /\ h.phase = "upgraded" /\ h.buf = handler[w].buf
  BY <1>3, TypeFacts DEF Task
<1>5. channel' = [channel EXCEPT ![w] = c] /\ channel[w].phase = "connecting"
  BY <1>1 DEF Open
<1>6. handler' = [handler EXCEPT ![w] = h]
  BY <1>3 DEF Open
<1>7. channel' \in [Channels -> Connection] /\ channel'[w] = c
  BY <1>2, <1>5, TypeFacts
<1>8. handler' \in [Channels -> Task] /\ handler'[w] = h
  BY <1>4, <1>6, TypeFacts
<1>9. OthersStay(w)
  BY <1>5, <1>6, TypeFacts DEF OthersStay
<1>10. QED
  BY <1>2, <1>4, <1>5, <1>7, <1>8, <1>9

LEMMA ConnectFailsEffect ==
  ASSUME Types, NEW w \in Channels, NEW w2 \in Channels, ConnectFails(w, w2)
  PROVE  /\ handler' = handler
         /\ channel' \in [Channels -> Connection]
         /\ channel[w].phase = "connecting" /\ channel[w2].phase = "free"
         /\ channel'[w] = Again /\ channel'[w2] = Again
         /\ \A x \in Channels \ {w, w2} : channel'[x] = channel[x]
<1>1. PICK c : c = Again
  OBVIOUS
<1>2. channel' = [channel EXCEPT ![w] = c, ![w2] = c] /\ handler' = handler
  BY <1>1 DEF ConnectFails
<1>3. channel[w].phase = "connecting" /\ channel[w2].phase = "free"
  BY DEF ConnectFails
<1>4. c \in Connection
  BY <1>1, AgainType
<1>5. channel' \in [Channels -> Connection]
  BY <1>2, <1>4, TypeFacts
<1>6. channel'[w] = c /\ channel'[w2] = c
  BY <1>2, TypeFacts
<1>7. \A x \in Channels \ {w, w2} : channel'[x] = channel[x]
  BY <1>2, TypeFacts
<1>8. QED
  BY <1>1, <1>2, <1>3, <1>5, <1>6, <1>7

LEMMA ReceiveEffect ==
  ASSUME Types, NEW w \in Channels, Receive(w)
  PROVE  /\ handler' = handler
         /\ channel' \in [Channels -> Connection]
         /\ channel[w].phase = "open" /\ channel[w].wire # <<>>
         /\ channel'[w].phase = channel[w].phase
         /\ channel'[w].wire = Tail(channel[w].wire)
         /\ channel'[w].got = Append(channel[w].got, Head(channel[w].wire))
         /\ Head(channel[w].wire) \in Message
         /\ seen' = IF active THEN seen \cup {Head(channel[w].wire)} ELSE seen
         /\ OthersStay(w)
<1>1. channel[w].phase = "open" /\ channel[w].wire # <<>> /\ handler' = handler
  BY DEF Receive
<1>2. Head(channel[w].wire) \in Message /\ Tail(channel[w].wire) \in Seq(Message)
  BY <1>1, TypeFacts, HeadTailProperties
<1>3. Append(channel[w].got, Head(channel[w].wire)) \in Seq(Message)
  BY <1>2, TypeFacts, AppendProperties
<1>4. PICK c : c = [channel[w] EXCEPT !.wire = Tail(channel[w].wire),
                                      !.got = Append(channel[w].got, Head(channel[w].wire))]
  OBVIOUS
<1>5. /\ c \in Connection /\ c.phase = channel[w].phase
      /\ c.wire = Tail(channel[w].wire)
      /\ c.got = Append(channel[w].got, Head(channel[w].wire))
  BY <1>2, <1>3, <1>4, TypeFacts DEF Connection
<1>6. channel' = [channel EXCEPT ![w] = c]
  BY <1>4, TypeFacts DEF Receive
<1>7. channel' \in [Channels -> Connection] /\ channel'[w] = c
  BY <1>5, <1>6, TypeFacts
<1>8. OthersStay(w)
  BY <1>1, <1>6, TypeFacts DEF OthersStay
<1>9. seen' = IF active THEN seen \cup {Head(channel[w].wire)} ELSE seen
  BY DEF Receive, Show
<1>10. QED
  BY <1>1, <1>2, <1>5, <1>7, <1>8, <1>9

LEMMA EndsEffect ==
  ASSUME Types, NEW w \in Channels, Drop(w) \/ Closed(w)
  PROVE  /\ channel' \in [Channels -> Connection]
         /\ handler' \in [Channels -> Task]
         /\ channel[w].phase = "open"
         /\ channel'[w] = Again /\ handler'[w] = NoHandler
         /\ OthersStay(w)
<1>1. PICK c : c = Again
  OBVIOUS
<1>2. PICK h : h = NoHandler
  OBVIOUS
<1>3. /\ channel' = [channel EXCEPT ![w] = c] /\ handler' = [handler EXCEPT ![w] = h]
      /\ channel[w].phase = "open"
  BY <1>1, <1>2 DEF Drop, Closed
<1>4. c \in Connection /\ h \in Task
  BY <1>1, <1>2, AgainType, NothingHandled
<1>5. channel' \in [Channels -> Connection] /\ channel'[w] = c
  BY <1>3, <1>4, TypeFacts
<1>6. handler' \in [Channels -> Task] /\ handler'[w] = h
  BY <1>3, <1>4, TypeFacts
<1>7. OthersStay(w)
  BY <1>3, TypeFacts DEF OthersStay
<1>8. QED
  BY <1>1, <1>2, <1>3, <1>5, <1>6, <1>7

LEMMA CancelEffect ==
  ASSUME Types, Cancel
  PROVE  /\ channel' \in [Channels -> Connection]
         /\ handler' \in [Channels -> Task]
         /\ OthersStay(latest)
         /\ \/ channel' = channel /\ handler' = handler
            \/ /\ channel'[latest].phase = "free" /\ channel'[latest].wire = <<>>
               /\ channel'[latest].got = <<>> /\ handler'[latest] = NoHandler
         /\ channel'[latest].phase \in {"free", "timer"}
<1>1. latest \in Channels
  BY DEF Types, TypeOK
<1>2. CASE channel[latest].phase \in {"connecting", "open"}
  <2>1. PICK c : c = [phase |-> "free", wire |-> <<>>, got |-> <<>>]
    OBVIOUS
  <2>2. PICK h : h = NoHandler
    OBVIOUS
  <2>3. c \in Connection /\ c.phase = "free" /\ c.wire = <<>> /\ c.got = <<>>
    BY <2>1, EmptySeq DEF Connection
  <2>4. h \in Task
    BY <2>2, NothingHandled
  <2>5. channel' = [channel EXCEPT ![latest] = c] /\ handler' = [handler EXCEPT ![latest] = h]
    BY <1>2, <2>1, <2>2 DEF Cancel
  <2>6. channel' \in [Channels -> Connection] /\ channel'[latest] = c
    BY <1>1, <2>3, <2>5, TypeFacts
  <2>7. handler' \in [Channels -> Task] /\ handler'[latest] = h
    BY <1>1, <2>4, <2>5, TypeFacts
  <2>8. OthersStay(latest)
    BY <2>5, TypeFacts DEF OthersStay
  <2>9. QED
    BY <2>2, <2>3, <2>6, <2>7, <2>8
<1>3. CASE channel[latest].phase \notin {"connecting", "open"}
  <2>1. channel' = channel /\ handler' = handler
    BY <1>3 DEF Cancel
  <2>2. channel[latest].phase \in {"free", "timer", "connecting", "open"}
    BY <1>1, TypeFacts DEF Connection
  <2>3. QED
    BY <1>3, <2>1, <2>2, TypeFacts DEF OthersStay
<1>4. QED
  BY <1>2, <1>3

LEMMA NotifyEffect ==
  ASSUME Types, NEW s \in Senders, Notify(s)
  PROVE  /\ channel' = channel
         /\ handler' \in [Channels -> Task]
         /\ \A x \in Channels :
               /\ handler'[x].phase = handler[x].phase
               /\ \/ handler'[x].buf = handler[x].buf
                  \/ /\ handler[x].phase = "subscribed" /\ Len(handler[x].buf) < Capacity
                     /\ handler'[x].buf = Append(handler[x].buf, Current(s))
<1>1. channel' = channel /\ handler' = [w \in Channels |-> Broadcast(handler[w], Current(s))]
  BY DEF Notify
<1> DEFINE h(x) == Broadcast(handler[x], Current(s))
<1>2. ASSUME NEW x \in Channels
      PROVE  /\ h(x) \in Task
             /\ h(x).phase = handler[x].phase
             /\ \/ h(x).buf = handler[x].buf
                \/ /\ handler[x].phase = "subscribed" /\ Len(handler[x].buf) < Capacity
                   /\ h(x).buf = Append(handler[x].buf, Current(s))
  <2>1. handler[x] \in Task /\ Append(handler[x].buf, Current(s)) \in Seq(Message)
    BY TypeFacts, AppendProperties
  <2>2. CASE handler[x].phase # "subscribed"
    BY <2>1, <2>2 DEF Broadcast
  <2>3. CASE handler[x].phase = "subscribed" /\ Len(handler[x].buf) < Capacity
    <3>1. h(x) = [handler[x] EXCEPT !.buf = Append(handler[x].buf, Current(s))]
      BY <2>3 DEF Broadcast
    <3>2. QED
      BY <2>1, <2>3, <3>1 DEF Task
  <2>4. CASE handler[x].phase = "subscribed" /\ ~(Len(handler[x].buf) < Capacity)
    <3>1. h(x) = [handler[x] EXCEPT !.lagged = TRUE]
      BY <2>4 DEF Broadcast
    <3>2. QED
      BY <2>1, <3>1 DEF Task
  <2>5. QED
    BY <2>2, <2>3, <2>4
<1> HIDE DEF h
<1>3. handler' = [w \in Channels |-> h(w)]
  BY <1>1 DEF h
<1>4. QED
  BY <1>1, <1>2, <1>3

LEMMA MoveEffect ==
  ASSUME Types, NEW s \in Senders, NEW from,
         NEW to \in {"idle", "push", "notify", "reply"}, Move(s, from, to)
  PROVE  /\ sender' \in [Senders -> Request]
         /\ sender[s].at = from /\ sender'[s].at = to
         /\ sender'[s].k = sender[s].k
         /\ \A r \in Senders \ {s} : sender'[r] = sender[r]
<1>1. PICK q : q = [sender[s] EXCEPT !.at = to]
  OBVIOUS
<1>2. q \in Request /\ q.at = to /\ q.k = sender[s].k
  BY <1>1, TypeFacts DEF Request
<1>3. sender' = [sender EXCEPT ![s] = q] /\ sender[s].at = from
  BY <1>1 DEF Move
<1>4. QED
  BY <1>2, <1>3, TypeFacts

LEMMA SendEffect ==
  ASSUME Types, NEW s \in Senders, Send(s)
  PROVE  /\ sender' \in [Senders -> Request]
         /\ sender[s].at = "idle" /\ sender'[s].at = "push"
         /\ sender'[s].k = sender[s].k + 1
         /\ \A r \in Senders \ {s} : sender'[r] = sender[r]
<1>1. sender[s].at = "idle" /\ sender[s].k < MaxSends /\ sender[s].k \in 0..MaxSends
  BY TypeFacts DEF Send, Request
<1>2. PICK q : q = [at |-> "push", k |-> sender[s].k + 1, attempt |-> 1]
  OBVIOUS
<1>3. q \in Request /\ q.at = "push" /\ q.k = sender[s].k + 1
  BY <1>1, <1>2, DeliveryBounds DEF Request
<1>4. sender' = [sender EXCEPT ![s] = q]
  BY <1>2, TypeFacts DEF Send
<1>5. QED
  BY <1>1, <1>3, <1>4, TypeFacts

LEMMA ResendEffect ==
  ASSUME Types, NEW s \in Senders, Resend(s)
  PROVE  /\ sender' \in [Senders -> Request]
         /\ sender[s].at # "idle" /\ sender'[s].at \in {"push", "idle"}
         /\ sender'[s].k = sender[s].k
         /\ \A r \in Senders \ {s} : sender'[r] = sender[r]
<1>1. sender[s] \in Request /\ sender[s].at # "idle"
  BY TypeFacts DEF Resend
<1>2. CASE sender[s].attempt < Retries
  <2>1. PICK q : q = [at |-> "push", k |-> sender[s].k, attempt |-> sender[s].attempt + 1]
    OBVIOUS
  <2>2. q \in Request /\ q.at = "push" /\ q.k = sender[s].k
    BY <1>1, <1>2, <2>1, DeliveryBounds DEF Request
  <2>3. sender' = [sender EXCEPT ![s] = q]
    BY <1>2, <2>1, TypeFacts DEF Resend
  <2>4. QED
    BY <1>1, <2>2, <2>3, TypeFacts
<1>3. CASE ~(sender[s].attempt < Retries)
  <2>1. PICK q : q = [sender[s] EXCEPT !.at = "idle"]
    OBVIOUS
  <2>2. q \in Request /\ q.at = "idle" /\ q.k = sender[s].k
    BY <1>1, <2>1 DEF Request
  <2>3. sender' = [sender EXCEPT ![s] = q]
    BY <1>3, <2>1, TypeFacts DEF Resend
  <2>4. QED
    BY <1>1, <2>2, <2>3, TypeFacts
<1>4. QED
  BY <1>2, <1>3

-----------------------------------------------------------------------------
(* Types.                                                                  *)

Sizes == \A w \in Channels : Len(handler[w].buf) <= Capacity

\* TypeOK and the bound on the added channels, in the parts that steps keep.
LEMMA TypesIs ==
  Types <=> /\ sender \in [Senders -> Request]
            /\ list \in Seq(Message)
            /\ channel \in [Channels -> Connection]
            /\ handler \in [Channels -> Task]
            /\ Sizes
            /\ latest \in Channels
            /\ active \in BOOLEAN
            /\ fetch \in [at: {"asked", "read", "done", "failed"}, page: Seq(Message)]
            /\ seen \subseteq Message
            /\ faults \in 0..MaxFailures
            /\ extra \in 0..MaxFailures
            /\ gap \subseteq Message
            /\ extra <= faults
BY DEF Types, TypeOK, Sizes, Request, Connection, Task

LEMMA TypesNextIs ==
  Types' <=> /\ sender' \in [Senders -> Request]
             /\ list' \in Seq(Message)
             /\ channel' \in [Channels -> Connection]
             /\ handler' \in [Channels -> Task]
             /\ Sizes'
             /\ latest' \in Channels
             /\ active' \in BOOLEAN
             /\ fetch' \in [at: {"asked", "read", "done", "failed"}, page: Seq(Message)]
             /\ seen' \subseteq Message
             /\ faults' \in 0..MaxFailures
             /\ extra' \in 0..MaxFailures
             /\ gap' \subseteq Message
             /\ extra' <= faults'
BY DEF Types, TypeOK, Sizes, Request, Connection, Task

LEMMA TypesInit == Init => Types
<1> SUFFICES ASSUME Init PROVE Types
  OBVIOUS
<1>1. <<>> \in Seq(Message) /\ Len(<<>>) = 0
  BY EmptySeq
<1>2. sender \in [Senders -> Request]
  BY DeliveryBounds DEF Init, Request
<1>3. ASSUME NEW w \in Channels
      PROVE  [phase |-> IF w = First THEN "connecting" ELSE "free",
              wire |-> <<>>, got |-> <<>>] \in Connection
  BY <1>1 DEF Connection
<1>4. channel \in [Channels -> Connection]
  BY <1>3 DEF Init
<1>5. [phase |-> "none", buf |-> <<>>, lagged |-> FALSE] \in Task
  BY <1>1 DEF Task
<1>6. handler \in [Channels -> Task]
  BY <1>5 DEF Init
<1>7. \A w \in Channels : handler[w].buf = <<>>
  BY DEF Init
<1>8. Sizes
  BY <1>1, <1>7, DeliveryBounds DEF Sizes
<1>9. fetch \in [at: {"asked", "read", "done", "failed"}, page: Seq(Message)]
  BY <1>1 DEF Init
<1>10. list \in Seq(Message) /\ latest \in Channels /\ active \in BOOLEAN
  BY <1>1, ChannelAssumption DEF Init
<1>11. seen \subseteq Message /\ gap \subseteq Message
  BY DEF Init
<1>12. faults \in 0..MaxFailures /\ extra \in 0..MaxFailures /\ extra <= faults
  BY DeliveryBounds DEF Init
<1>13. QED
  BY <1>2, <1>4, <1>6, <1>8, <1>9, <1>10, <1>11, <1>12, TypesIs

\* What a step may change of the requests, the list, the history and the fetch,
\* besides the connections.
LEMMA TypesNext == Types /\ [Next]_vars => Types'
<1> SUFFICES ASSUME Types, [Next]_vars PROVE Types'
  OBVIOUS
<1> USE TypeFacts
<1>1. /\ list \in Seq(Message) /\ latest \in Channels /\ active \in BOOLEAN
      /\ fetch \in [at: {"asked", "read", "done", "failed"}, page: Seq(Message)]
      /\ seen \subseteq Message /\ gap \subseteq Message
      /\ faults \in 0..MaxFailures /\ extra \in 0..MaxFailures /\ extra <= faults
      /\ Sizes
  BY TypesIs
<1>2. MaxFailures \in Nat /\ Capacity \in Nat
  BY DeliveryBounds
<1>3. ASSUME NEW s \in Senders, Send(s)
      PROVE  Types'
  BY <1>1, <1>3, SendEffect, TypesNextIs DEF Send, Sizes
<1>4. ASSUME NEW s \in Senders, Push(s)
      PROVE  Types'
  <2>1. sender' \in [Senders -> Request]
    BY <1>4, MoveEffect DEF Push
  <2>2. list' \in Seq(Message)
    BY <1>4, AppendProperties DEF Push
  <2>3. QED
    BY <1>1, <1>4, <2>1, <2>2, TypesNextIs DEF Push, Sizes
<1>5. ASSUME NEW s \in Senders, Notify(s)
      PROVE  Types'
  <2>1. sender' \in [Senders -> Request]
    BY <1>5, MoveEffect DEF Notify
  <2>2. handler' \in [Channels -> Task] /\ channel' = channel
    BY <1>5, NotifyEffect
  <2>3. ASSUME NEW x \in Channels
        PROVE  Len(handler'[x].buf) <= Capacity
    <3>1. CASE handler'[x].buf = handler[x].buf
      BY <1>1, <3>1 DEF Sizes
    <3>2. CASE /\ Len(handler[x].buf) < Capacity
               /\ handler'[x].buf = Append(handler[x].buf, Current(s))
      <4>1. Len(handler'[x].buf) = Len(handler[x].buf) + 1 /\ Len(handler[x].buf) \in Nat
        BY <3>2, AppendProperties, LenProperties
      <4>2. QED
        BY <1>2, <3>2, <4>1
    <3>3. QED
      BY <1>5, <3>1, <3>2, NotifyEffect
  <2>4. Sizes'
    BY <2>3 DEF Sizes
  <2>5. gap' \subseteq Message
    BY <1>1, <1>5 DEF Notify
  <2>6. QED
    BY <1>1, <1>5, <2>1, <2>2, <2>4, <2>5, TypesNextIs DEF Notify
<1>6. ASSUME NEW s \in Senders, Accepted(s)
      PROVE  Types'
  <2>1. sender' \in [Senders -> Request]
    BY <1>6, MoveEffect DEF Accepted
  <2>2. QED
    BY <1>1, <1>6, <2>1, TypesNextIs DEF Accepted, Sizes
<1>7. ASSUME NEW s \in Senders, Resend(s)
      PROVE  Types'
  <2>1. gap' \subseteq Message /\ faults' \in 0..MaxFailures /\ extra <= faults'
    BY <1>1, <1>2, <1>7 DEF Resend
  <2>2. QED
    BY <1>1, <1>7, <2>1, ResendEffect, TypesNextIs DEF Resend, Sizes
<1>8. ASSUME NEW w \in Channels, Subscribe(w)
      PROVE  Types'
  <2>1. Sizes'
    BY <1>1, <1>8, SubscribeEffect DEF Sizes, OthersStay
  <2>2. QED
    BY <1>1, <1>8, <2>1, SubscribeEffect, TypesNextIs DEF Subscribe
<1>9. ASSUME NEW w \in Channels, Forward(w)
      PROVE  Types'
  <2>1. Len(Tail(handler[w].buf)) = Len(handler[w].buf) - 1
    BY <1>9, ForwardEffect, HeadTailProperties
  <2>2. Len(handler[w].buf) <= Capacity /\ Len(handler[w].buf) \in Nat
    BY <1>1, LenProperties DEF Sizes
  <2>3. Len(handler'[w].buf) <= Capacity
    <3>1. handler'[w].buf = Tail(handler[w].buf)
      BY <1>9, ForwardEffect
    <3>2. QED
      BY <1>2, <2>1, <2>2, <3>1
  <2>4. Sizes'
    BY <1>1, <1>9, <2>3, ForwardEffect DEF Sizes, OthersStay
  <2>5. QED
    BY <1>1, <1>9, <2>4, ForwardEffect, TypesNextIs DEF Forward
<1>10. ASSUME NEW w \in Channels, Lag(w)
       PROVE  Types'
  <2>1. Len(handler'[w].buf) = 0
    BY <1>10, LagEffect
  <2>2. Sizes'
    BY <1>1, <1>2, <1>10, <2>1, LagEffect DEF Sizes, OthersStay
  <2>3. gap' \subseteq Message
    BY <1>1, <1>10, ToSetLaws DEF Lag
  <2>4. QED
    BY <1>1, <1>10, <2>2, <2>3, LagEffect, TypesNextIs DEF Lag
<1>11. ASSUME FetchRead
       PROVE  Types'
  BY <1>1, <1>11, TypesNextIs DEF FetchRead, Sizes
<1>12. ASSUME FetchDone
       PROVE  Types'
  <2>1. PICK f : f = [fetch EXCEPT !.at = "done"]
    OBVIOUS
  <2>2. f \in [at: {"asked", "read", "done", "failed"}, page: Seq(Message)]
    BY <1>1, <2>1
  <2>3. fetch' = f
    BY <1>12, <2>1 DEF FetchDone
  <2>4. seen' \subseteq Message
    BY <1>1, <1>12, ToSetLaws DEF FetchDone, Show
  <2>5. QED
    BY <1>1, <1>12, <2>2, <2>3, <2>4, TypesNextIs DEF FetchDone, Sizes
<1>13. ASSUME FetchFails
       PROVE  Types'
  <2>1. fetch' \in [at: {"asked", "read", "done", "failed"}, page: Seq(Message)]
    BY <1>13, EmptySeq DEF FetchFails
  <2>2. faults' \in 0..MaxFailures /\ extra <= faults'
    BY <1>1, <1>2, <1>13 DEF FetchFails
  <2>3. QED
    BY <1>1, <1>13, <2>1, <2>2, TypesNextIs DEF FetchFails, Sizes
<1>14. ASSUME NEW w \in Channels, Connect(w)
       PROVE  Types'
  <2>1. latest' \in Channels
    BY <1>1, <1>14 DEF Connect
  <2>2. QED
    BY <1>1, <1>14, <2>1, ConnectEffect, TypesNextIs DEF Connect, Sizes
<1>15. ASSUME NEW w \in Channels, Open(w)
       PROVE  Types'
  <2>1. Sizes'
    BY <1>1, <1>15, OpenEffect DEF Sizes, OthersStay
  <2>2. QED
    BY <1>1, <1>15, <2>1, OpenEffect, TypesNextIs DEF Open
<1>16. ASSUME NEW w \in Channels, NEW w2 \in Channels, ConnectFails(w, w2)
       PROVE  Types'
  <2>1. faults' \in 0..MaxFailures /\ extra' \in 0..MaxFailures /\ extra' <= faults'
    BY <1>1, <1>2, <1>16 DEF ConnectFails
  <2>2. QED
    BY <1>1, <1>16, <2>1, ConnectFailsEffect, TypesNextIs DEF ConnectFails, Sizes
<1>17. ASSUME NEW w \in Channels, Receive(w)
       PROVE  Types'
  <2>1. seen' \subseteq Message
    BY <1>1, <1>17, ReceiveEffect
  <2>2. QED
    BY <1>1, <1>17, <2>1, ReceiveEffect, TypesNextIs DEF Receive, Sizes
<1>18. ASSUME NEW w \in Channels, Drop(w) \/ Closed(w)
       PROVE  Types'
  <2>1. Len(handler'[w].buf) = 0
    BY <1>18, EndsEffect, NothingHandled
  <2>2. Sizes'
    <3>1. ASSUME NEW x \in Channels
          PROVE  Len(handler'[x].buf) <= Capacity
      <4>1. CASE x = w
        BY <1>2, <2>1, <4>1
      <4>2. CASE x # w
        <5>1. handler'[x] = handler[x]
          BY <1>18, <4>2, EndsEffect DEF OthersStay
        <5>2. QED
          BY <1>1, <5>1 DEF Sizes
      <4>3. QED
        BY <4>1, <4>2
    <3>2. QED
      BY <3>1 DEF Sizes
  <2>3. gap' \subseteq Message
    <3>1. channel[w].wire \in Seq(Message) /\ handler[w].buf \in Seq(Message)
      BY <1>18
    <3>2. ToSet(channel[w].wire) \subseteq Message /\ ToSet(handler[w].buf) \subseteq Message
      BY <3>1, ToSetLaws
    <3>3. gap' \in {gap, gap \cup ToSet(channel[w].wire) \cup ToSet(handler[w].buf)}
      BY <1>18 DEF Drop, Closed
    <3>4. QED
      BY <1>1, <3>2, <3>3
  <2>4. faults' \in 0..MaxFailures /\ extra <= faults'
    BY <1>1, <1>2, <1>18 DEF Drop, Closed
  <2>5. /\ sender' = sender /\ list' = list /\ latest' = latest /\ active' = active
        /\ fetch' = fetch /\ seen' = seen /\ extra' = extra
    BY <1>18 DEF Drop, Closed
  <2>6. QED
    BY <1>1, <1>18, <2>2, <2>3, <2>4, <2>5, EndsEffect, TypesNextIs
<1>19. ASSUME Cancel
       PROVE  Types'
  <2>1. ASSUME NEW x \in Channels
        PROVE  Len(handler'[x].buf) <= Capacity
    <3>1. handler'[x] = handler[x] \/ handler'[x] = NoHandler
      BY <1>19, CancelEffect DEF OthersStay
    <3>2. Len(NoHandler.buf) = 0
      BY NothingHandled
    <3>3. QED
      BY <1>1, <1>2, <3>1, <3>2 DEF Sizes
  <2>2. Sizes'
    BY <2>1 DEF Sizes
  <2>3. QED
    BY <1>1, <1>19, <2>2, CancelEffect, TypesNextIs DEF Cancel
<1>20. CASE UNCHANGED vars
  BY <1>1, <1>20, TypesNextIs DEF vars, Sizes
<1>21. QED
  BY <1>3, <1>4, <1>5, <1>6, <1>7, <1>8, <1>9, <1>10, <1>11, <1>12, <1>13, <1>14, <1>15,
     <1>16, <1>17, <1>18, <1>19, <1>20 DEF Next, SenderStep, ChannelStep


-----------------------------------------------------------------------------
(* Connections.                                                            *)

LEMMA ConnectionsInit == Init => Connections /\ LatestAlive
<1>1. ASSUME Init, NEW w \in Channels
      PROVE  ConnectionOK(w)
  BY <1>1 DEF Init, ConnectionOK, NoHandler
<1>2. ASSUME Init
      PROVE  LatestAlive
  BY <1>2, ChannelAssumption DEF Init, LatestAlive
<1>3. QED
  BY <1>1, <1>2 DEF Connections

\* A step is one of a sender or of the fetch, which leaves the connections
\* alone, an announcement, or a step of one or two connections.
StaysIdle ==
    /\ channel' = channel /\ handler' = handler
    /\ latest' = latest /\ active' = active /\ extra' = extra

LEMMA StepCases ==
  ASSUME [Next]_vars
  PROVE  \/ StaysIdle
         \/ \E s \in Senders : Notify(s)
         \/ \E w \in Channels : \/ Subscribe(w) \/ Forward(w) \/ Lag(w) \/ Connect(w)
                                \/ Open(w) \/ Receive(w) \/ Closed(w) \/ Drop(w)
         \/ \E w, w2 \in Channels : ConnectFails(w, w2)
         \/ Cancel
<1>1. ASSUME NEW s \in Senders, Send(s) \/ Push(s) \/ Accepted(s) \/ Resend(s)
      PROVE  StaysIdle
  BY <1>1 DEF Send, Push, Accepted, Resend, StaysIdle
<1>2. ASSUME FetchRead \/ FetchDone \/ FetchFails
      PROVE  StaysIdle
  BY <1>2 DEF FetchRead, FetchDone, FetchFails, StaysIdle
<1>3. ASSUME UNCHANGED vars
      PROVE  StaysIdle
  BY <1>3 DEF vars, StaysIdle
<1>4. QED
  BY <1>1, <1>2, <1>3 DEF Next, SenderStep, ChannelStep

LEMMA ConnectionsNext == Types /\ Connections /\ [Next]_vars => Connections'
<1> SUFFICES ASSUME Types, Connections, [Next]_vars, NEW x \in Channels
             PROVE  ConnectionOK(x)'
  BY DEF Connections
<1> USE TypeFacts
<1>1. ConnectionOK(x)
  BY DEF Connections
<1>2. ASSUME NEW w \in Channels, OthersStay(w), x # w
      PROVE  ConnectionOK(x)'
  BY <1>1, <1>2 DEF OthersStay, ConnectionOK, NoHandler
<1>3. CASE StaysIdle
  BY <1>1, <1>3 DEF StaysIdle, ConnectionOK, NoHandler
<1>4. ASSUME NEW s \in Senders, Notify(s)
      PROVE  ConnectionOK(x)'
  <2>1. channel' = channel /\ handler'[x].phase = handler[x].phase
    BY <1>4, NotifyEffect
  <2>2. handler'[x].buf # handler[x].buf => handler[x].phase = "subscribed"
    BY <1>4, NotifyEffect
  <2>3. ASSUME channel[x].phase # "open"
        PROVE  handler'[x] = NoHandler
    <3>1. handler[x] = NoHandler
      BY <1>1, <2>3 DEF ConnectionOK
    <3>2. handler'[x] = Broadcast(handler[x], Current(s))
      BY <1>4 DEF Notify
    <3>3. QED
      BY <3>1, <3>2, NothingHandled DEF Broadcast
  <2>4. QED
    BY <1>1, <2>1, <2>2, <2>3 DEF ConnectionOK, NoHandler
<1>5. ASSUME NEW w \in Channels, Subscribe(w)
      PROVE  ConnectionOK(x)'
  <2>1. handler[w] # NoHandler
    BY <1>5, SubscribeEffect, NothingHandled
  <2>2. CASE x = w
    BY <1>1, <1>5, <2>1, <2>2, SubscribeEffect DEF ConnectionOK
  <2>3. QED
    BY <1>2, <1>5, <2>2, SubscribeEffect
<1>6. ASSUME NEW w \in Channels, Forward(w)
      PROVE  ConnectionOK(x)'
  <2>1. handler[w] # NoHandler
    BY <1>6, ForwardEffect, NothingHandled
  <2>2. CASE x = w
    BY <1>1, <1>6, <2>1, <2>2, ForwardEffect DEF ConnectionOK
  <2>3. QED
    BY <1>2, <1>6, <2>2, ForwardEffect
<1>7. ASSUME NEW w \in Channels, Lag(w)
      PROVE  ConnectionOK(x)'
  <2>1. handler[w] # NoHandler
    BY <1>7, LagEffect, NothingHandled
  <2>2. CASE x = w
    BY <1>1, <1>7, <2>1, <2>2, LagEffect DEF ConnectionOK
  <2>3. QED
    BY <1>2, <1>7, <2>2, LagEffect
<1>8. ASSUME NEW w \in Channels, Connect(w)
      PROVE  ConnectionOK(x)'
  <2>1. CASE x = w
    BY <1>1, <1>8, <2>1, ConnectEffect DEF ConnectionOK, NoHandler
  <2>2. QED
    BY <1>2, <1>8, <2>1, ConnectEffect
<1>9. ASSUME NEW w \in Channels, Open(w)
      PROVE  ConnectionOK(x)'
  <2>1. CASE x = w
    BY <1>1, <1>9, <2>1, OpenEffect DEF ConnectionOK
  <2>2. QED
    BY <1>2, <1>9, <2>1, OpenEffect
<1>10. ASSUME NEW w \in Channels, Receive(w)
       PROVE  ConnectionOK(x)'
  <2>1. CASE x = w
    BY <1>1, <1>10, <2>1, ReceiveEffect DEF ConnectionOK
  <2>2. QED
    BY <1>2, <1>10, <2>1, ReceiveEffect
<1>11. ASSUME NEW w \in Channels, Drop(w) \/ Closed(w)
       PROVE  ConnectionOK(x)'
  <2>1. CASE x = w
    <3>1. channel'[w].wire = <<>> /\ channel'[w].got = <<>> /\ handler'[w] = NoHandler
      BY <1>11, EndsEffect, AgainType
    <3>2. QED
      BY <2>1, <3>1, NothingHandled DEF ConnectionOK, NoHandler
  <2>2. QED
    BY <1>2, <1>11, <2>1, EndsEffect
<1>12. ASSUME NEW w \in Channels, NEW w2 \in Channels, ConnectFails(w, w2)
       PROVE  ConnectionOK(x)'
  <2>1. handler' = handler
    BY <1>12, ConnectFailsEffect
  <2>2. CASE x \in {w, w2}
    <3>1. channel'[x].wire = <<>> /\ channel'[x].got = <<>>
      BY <1>12, <2>2, ConnectFailsEffect, AgainType
    <3>2. handler[x] = NoHandler
      BY <1>1, <1>12, <2>2, ConnectFailsEffect DEF ConnectionOK
    <3>3. QED
      BY <2>1, <3>1, <3>2, NothingHandled DEF ConnectionOK, NoHandler
  <2>3. CASE x \notin {w, w2}
    <3>1. channel'[x] = channel[x]
      BY <1>12, <2>3, ConnectFailsEffect
    <3>2. QED
      BY <1>1, <2>1, <3>1 DEF ConnectionOK, NoHandler
  <2>4. QED
    BY <2>2, <2>3
<1>13. ASSUME Cancel
       PROVE  ConnectionOK(x)'
  <2>1. latest \in Channels
    BY TypesIs
  <2>2. CASE channel' = channel /\ handler' = handler
    BY <1>1, <2>2 DEF ConnectionOK, NoHandler
  <2>3. CASE x = latest /\ ~(channel' = channel /\ handler' = handler)
    <3>1. channel'[x].wire = <<>> /\ channel'[x].got = <<>> /\ handler'[x] = NoHandler
      BY <1>13, <2>3, CancelEffect
    <3>2. QED
      BY <3>1, NothingHandled DEF ConnectionOK, NoHandler
  <2>4. CASE x # latest
    BY <1>2, <1>13, <2>1, <2>4, CancelEffect
  <2>5. QED
    BY <2>2, <2>3, <2>4
<1>14. QED
  BY <1>3, <1>4, <1>5, <1>6, <1>7, <1>8, <1>9, <1>10, <1>11, <1>12, <1>13, StepCases

\* A step that leaves as many channels in use, and as many timers.
KeepsPhases ==
    /\ latest' = latest /\ active' = active /\ extra' = extra
    /\ \A x \in Channels : /\ channel'[x].phase = "free" <=> channel[x].phase = "free"
                           /\ channel'[x].phase = "timer" <=> channel[x].phase = "timer"

\* A timer fires, or a connection ends.
Switches(w) ==
    /\ active' = active /\ extra' = extra
    /\ channel[w].phase \in {"timer", "open"}
    /\ channel[w].phase = "timer" =>
          /\ channel'[w].phase = IF active THEN "connecting" ELSE "free"
          /\ latest' = IF active THEN w ELSE latest
    /\ channel[w].phase = "open" =>
          /\ channel'[w].phase = IF active THEN "timer" ELSE "free"
          /\ latest' = latest
    /\ \A x \in Channels \ {w} : channel'[x] = channel[x]

\* What a step does to the phases of the connections.
LEMMA PhaseSteps ==
  ASSUME Types, [Next]_vars
  PROVE  \/ StaysIdle \/ KeepsPhases
         \/ \E w \in Channels : Switches(w)
         \/ \E w, w2 \in Channels : ConnectFails(w, w2)
         \/ Cancel
<1> USE TypeFacts
<1>1. ASSUME NEW s \in Senders, Notify(s)
      PROVE  KeepsPhases
  <2>1. channel' = channel
    BY <1>1, NotifyEffect
  <2>2. QED
    BY <1>1, <2>1 DEF Notify, KeepsPhases
<1>2. ASSUME NEW w \in Channels, Subscribe(w) \/ Forward(w) \/ Lag(w) \/ Receive(w)
      PROVE  KeepsPhases
  <2>1. latest' = latest /\ active' = active /\ extra' = extra
    BY <1>2 DEF Subscribe, Forward, Lag, Receive
  <2>2. channel'[w].phase = channel[w].phase
    BY <1>2, SubscribeEffect, ForwardEffect, LagEffect, ReceiveEffect
  <2>3. \A x \in Channels \ {w} : channel'[x] = channel[x]
    BY <1>2, SubscribeEffect, ForwardEffect, LagEffect, ReceiveEffect DEF OthersStay
  <2>4. QED
    BY <2>1, <2>2, <2>3 DEF KeepsPhases
<1>3. ASSUME NEW w \in Channels, Open(w)
      PROVE  KeepsPhases
  <2>1. latest' = latest /\ active' = active /\ extra' = extra
    BY <1>3 DEF Open
  <2>2. channel[w].phase = "connecting" /\ channel'[w].phase = "open"
    BY <1>3, OpenEffect
  <2>3. \A x \in Channels \ {w} : channel'[x] = channel[x]
    BY <1>3, OpenEffect DEF OthersStay
  <2>4. QED
    BY <2>1, <2>2, <2>3 DEF KeepsPhases
<1>4. ASSUME NEW w \in Channels, Connect(w)
      PROVE  Switches(w)
  <2>1. active' = active /\ extra' = extra /\ latest' = IF active THEN w ELSE latest
    BY <1>4 DEF Connect
  <2>2. QED
    BY <1>4, <2>1, ConnectEffect DEF OthersStay, Switches
<1>5. ASSUME NEW w \in Channels, Drop(w) \/ Closed(w)
      PROVE  Switches(w)
  <2>1. active' = active /\ extra' = extra /\ latest' = latest
    BY <1>5 DEF Drop, Closed
  <2>2. channel'[w] = Again /\ channel[w].phase = "open"
    BY <1>5, EndsEffect
  <2>3. QED
    BY <1>5, <2>1, <2>2, AgainType, EndsEffect DEF OthersStay, Switches
<1>6. QED
  BY <1>1, <1>2, <1>3, <1>4, <1>5, StepCases

LEMMA LatestAliveNext == Types /\ LatestAlive /\ [Next]_vars => LatestAlive'
<1> SUFFICES ASSUME Types, LatestAlive, [Next]_vars, active'
             PROVE  channel'[latest'].phase # "free"
  BY DEF LatestAlive
<1>1. latest \in Channels
  BY TypesIs
<1>2. CASE StaysIdle
  BY <1>2 DEF StaysIdle, LatestAlive
<1>3. CASE \E w, w2 \in Channels : ConnectFails(w, w2)
  <2>1. PICK w \in Channels, w2 \in Channels : ConnectFails(w, w2)
    BY <1>3
  <2>2. active' = active /\ latest' = latest
    BY <2>1 DEF ConnectFails
  <2>3. Again.phase = "timer"
    BY <2>2, AgainType
  <2>4. QED
    BY <1>1, <2>1, <2>2, <2>3, ConnectFailsEffect DEF LatestAlive
<1>4. CASE Cancel
  BY <1>4 DEF Cancel
<1>5. CASE KeepsPhases
  BY <1>1, <1>5 DEF LatestAlive, KeepsPhases
<1>6. CASE \E w \in Channels : Switches(w)
  BY <1>1, <1>6 DEF LatestAlive, Switches
<1>7. QED
  BY <1>2, <1>3, <1>4, <1>5, <1>6, PhaseSteps

-----------------------------------------------------------------------------
(* How many channels are in use.                                           *)

\* The channels in use that are not just a timer.
Working == {w \in Alive : channel[w].phase # "timer"}

LEMMA CountFacts ==
  /\ IsFiniteSet(Alive) /\ IsFiniteSet(Alive')
  /\ IsFiniteSet(Working) /\ IsFiniteSet(Working')
  /\ Cardinality(Alive) \in Nat /\ Cardinality(Alive') \in Nat
  /\ Cardinality(Working) \in Nat /\ Cardinality(Working') \in Nat
<1>1. /\ Alive \in SUBSET Channels /\ Alive' \in SUBSET Channels
      /\ Working \in SUBSET Channels /\ Working' \in SUBSET Channels
  BY DEF Alive, Working
<1>2. /\ IsFiniteSet(Alive) /\ IsFiniteSet(Alive')
      /\ IsFiniteSet(Working) /\ IsFiniteSet(Working')
  BY <1>1, ChannelAssumption, FS_Subset
<1>3. QED
  BY <1>2, FS_CardinalityType

LEMMA BoundedInit == Init => ChannelsBounded
<1> SUFFICES ASSUME Init PROVE ChannelsBounded
  OBVIOUS
<1>1. Alive = {First}
  BY ChannelAssumption DEF Init, Alive
<1>2. Cardinality(Alive) = 1
  BY <1>1, FS_Singleton
<1>3. extra = 0 /\ active
  BY DEF Init
<1>4. QED
  BY <1>2, <1>3 DEF ChannelsBounded

LEMMA BoundedNext == Types /\ LatestAlive /\ ChannelsBounded /\ [Next]_vars => ChannelsBounded'
<1> SUFFICES ASSUME Types, LatestAlive, ChannelsBounded, [Next]_vars
             PROVE  ChannelsBounded'
  OBVIOUS
<1>1. latest \in Channels /\ extra \in Nat /\ active \in BOOLEAN
  BY TypesIs, DeliveryBounds
<1>2. /\ Cardinality(Alive) <= 1 + extra
      /\ ~active => Cardinality(Working) <= extra
  BY DEF ChannelsBounded, Working
<1>3. ASSUME /\ Cardinality(Alive') <= 1 + extra'
             /\ ~active' => Cardinality(Working') <= extra'
      PROVE  ChannelsBounded'
  BY <1>3 DEF ChannelsBounded, Working
<1>4. ASSUME NEW S, NEW T, IsFiniteSet(T), S \subseteq T
      PROVE  Cardinality(S) <= Cardinality(T)
  BY <1>4, FS_Subset
<1>5. CASE StaysIdle \/ KeepsPhases
  <2>1. active' = active /\ extra' = extra
    BY <1>5 DEF StaysIdle, KeepsPhases
  <2>2. Alive' = Alive /\ Working' = Working
    BY <1>5 DEF StaysIdle, KeepsPhases, Alive, Working
  <2>3. QED
    BY <1>2, <1>3, <2>1, <2>2
<1>6. ASSUME NEW w \in Channels, Switches(w)
      PROVE  ChannelsBounded'
  <2>1. active' = active /\ extra' = extra
    BY <1>6 DEF Switches
  <2>2. Alive' \subseteq Alive
    BY <1>6 DEF Switches, Alive
  <2>3. ASSUME ~active
        PROVE  Working' \subseteq Working
    BY <1>6, <2>3 DEF Switches, Alive, Working
  <2>4. Cardinality(Alive') <= Cardinality(Alive)
    BY <1>4, <2>2, CountFacts
  <2>5. ~active => Cardinality(Working') <= Cardinality(Working)
    BY <1>4, <2>3, CountFacts
  <2>6. QED
    BY <1>1, <1>2, <1>3, <2>1, <2>4, <2>5, CountFacts
<1>7. ASSUME NEW w \in Channels, NEW w2 \in Channels, ConnectFails(w, w2)
      PROVE  ChannelsBounded'
  <2>1. active' = active /\ extra' = extra + 1
    BY <1>7 DEF ConnectFails
  <2>2. Alive' \subseteq Alive \cup {w2}
    BY <1>7, ConnectFailsEffect DEF Alive
  <2>3. ASSUME ~active
        PROVE  Working' \subseteq Working
    <3>1. Again.phase = "free"
      BY <2>3, AgainType
    <3>2. QED
      BY <1>7, <3>1, ConnectFailsEffect DEF Alive, Working
  <2>4. /\ IsFiniteSet(Alive \cup {w2})
        /\ Cardinality(Alive \cup {w2}) = IF w2 \in Alive THEN Cardinality(Alive)
                                                         ELSE Cardinality(Alive) + 1
    BY CountFacts, FS_AddElement
  <2>5. Cardinality(Alive') <= Cardinality(Alive \cup {w2})
    BY <1>4, <2>2, <2>4
  <2>6. ~active => Cardinality(Working') <= Cardinality(Working)
    BY <1>4, <2>3, CountFacts
  <2>7. QED
    BY <1>1, <1>2, <1>3, <2>1, <2>4, <2>5, <2>6, CountFacts
<1>8. CASE Cancel
  <2>1. active /\ extra' = extra
    BY <1>8 DEF Cancel
  <2>2. Alive' \subseteq Alive
    BY <1>1, <1>8, CancelEffect DEF Alive, OthersStay
  <2>3. Working' \subseteq Alive \ {latest}
    BY <1>1, <1>8, CancelEffect DEF Alive, Working, OthersStay
  <2>4. latest \in Alive
    BY <1>1, <2>1 DEF LatestAlive, Alive
  <2>5. /\ IsFiniteSet(Alive \ {latest})
        /\ Cardinality(Alive \ {latest}) = Cardinality(Alive) - 1
    BY <2>4, CountFacts, FS_RemoveElement
  <2>6. Cardinality(Alive') <= Cardinality(Alive)
    BY <1>4, <2>2, CountFacts
  <2>7. Cardinality(Working') <= Cardinality(Alive \ {latest})
    BY <1>4, <2>3, <2>5
  <2>8. QED
    BY <1>1, <1>2, <1>3, <2>1, <2>5, <2>6, <2>7, CountFacts
<1>9. QED
  BY <1>5, <1>6, <1>7, <1>8, PhaseSteps

-----------------------------------------------------------------------------
(* Where a stored message is.                                              *)

LEMMA HistoryGrows ==
  ASSUME [Next]_vars
  PROVE  seen \subseteq seen' /\ gap \subseteq gap' /\ (active' => active)
<1>1. ASSUME NEW s \in Senders, Send(s) \/ SenderStep(s) \/ Resend(s)
      PROVE  seen \subseteq seen' /\ gap \subseteq gap' /\ active' = active
  BY <1>1 DEF Send, SenderStep, Push, Notify, Accepted, Resend
<1>2. ASSUME NEW w \in Channels, ChannelStep(w) \/ Drop(w)
      PROVE  seen \subseteq seen' /\ gap \subseteq gap' /\ active' = active
  <2>1. CASE Subscribe(w) \/ Forward(w) \/ Lag(w)
    BY <2>1 DEF Subscribe, Forward, Lag
  <2>2. CASE Connect(w) \/ Open(w) \/ Closed(w) \/ Drop(w)
    BY <2>2 DEF Connect, Open, Closed, Drop
  <2>3. CASE Receive(w)
    BY <2>3 DEF Receive, Show
  <2>4. QED
    BY <1>2, <2>1, <2>2, <2>3 DEF ChannelStep
<1>3. ASSUME NEW w \in Channels, NEW w2 \in Channels, ConnectFails(w, w2)
      PROVE  seen' = seen /\ gap' = gap /\ active' = active
  BY <1>3 DEF ConnectFails
<1>4. CASE FetchRead \/ FetchDone \/ FetchFails
  BY <1>4 DEF FetchRead, FetchDone, FetchFails, Show
<1>5. CASE Cancel
  BY <1>5 DEF Cancel
<1>6. CASE UNCHANGED vars
  BY <1>6 DEF vars
<1>7. QED
  BY <1>1, <1>2, <1>3, <1>4, <1>5, <1>6 DEF Next

\* What a connection carries stays there, or shows, or is recorded as lost.
Flows(x) == Carried(x) \subseteq Carried(x)' \cup seen' \cup gap'

LEMMA NothingCarried ==
  ASSUME Types, Connections, NEW x \in Channels, channel[x].phase # "open"
  PROVE  Carried(x) = {}
<1>1. channel[x].wire = <<>> /\ handler[x].buf = <<>>
  BY NothingHandled DEF Connections, ConnectionOK
<1>2. QED
  BY <1>1, ToSetEmpty DEF Carried

LEMMA ConnectionFlows ==
  ASSUME Types, Connections, active, NEW x \in Channels,
         NEW w \in Channels,
         \/ Subscribe(w) \/ Forward(w) \/ Lag(w) \/ Connect(w)
         \/ Open(w) \/ Receive(w) \/ Closed(w) \/ Drop(w)
  PROVE  Flows(x)
<1> USE TypeFacts
<1>1. ASSUME channel'[x].wire = channel[x].wire, handler'[x].buf = handler[x].buf
      PROVE  Flows(x)
  BY <1>1 DEF Flows, Carried
<1>2. CASE x # w
  <2>1. OthersStay(w)
    <3>1. CASE Subscribe(w) \/ Forward(w) \/ Lag(w) \/ Connect(w) \/ Open(w)
      BY <3>1, SubscribeEffect, ForwardEffect, LagEffect, ConnectEffect, OpenEffect
    <3>2. CASE Receive(w) \/ Closed(w) \/ Drop(w)
      BY <3>2, ReceiveEffect, EndsEffect
    <3>3. QED
      BY <3>1, <3>2
  <2>2. QED
    BY <1>1, <1>2, <2>1 DEF OthersStay
<1>3. CASE x = w /\ (Subscribe(w) \/ Connect(w) \/ Open(w))
  <2>1. channel'[w].wire = channel[w].wire /\ handler'[w].buf = handler[w].buf
    BY <1>3, SubscribeEffect, ConnectEffect, OpenEffect
  <2>2. QED
    BY <1>1, <1>3, <2>1
<1>4. CASE x = w /\ Forward(w)
  <2>1. PICK h \in Message : h = Head(handler[w].buf)
    BY <1>4, ForwardEffect, HeadTailProperties
  <2>2. /\ handler[w].buf # <<>> /\ handler'[w].buf = Tail(handler[w].buf)
        /\ channel'[w].wire = Append(channel[w].wire, h)
    BY <1>4, <2>1, ForwardEffect
  <2>3. ToSet(handler[w].buf) \subseteq {h} \cup ToSet(Tail(handler[w].buf))
    BY <2>1, <2>2, ToSetHeadTail
  <2>4. ToSet(Append(channel[w].wire, h)) = ToSet(channel[w].wire) \cup {h}
    BY ToSetAppend
  <2>5. ToSet(channel'[w].wire) = ToSet(channel[w].wire) \cup {h}
    BY <2>2, <2>4
  <2>6. ToSet(handler[w].buf) \subseteq {h} \cup ToSet(handler'[w].buf)
    BY <2>2, <2>3
  <2>7. QED
    BY <1>4, <2>5, <2>6 DEF Flows, Carried
<1>5. CASE x = w /\ Lag(w)
  <2>1. channel' = channel /\ gap' = gap \cup ToSet(handler[w].buf)
    BY <1>5 DEF Lag
  <2>2. QED
    BY <1>5, <2>1 DEF Flows, Carried
<1>6. CASE x = w /\ Receive(w)
  <2>1. PICK h \in Message : h = Head(channel[w].wire)
    BY <1>6, ReceiveEffect
  <2>2. /\ channel[w].wire # <<>> /\ channel'[w].wire = Tail(channel[w].wire)
        /\ handler' = handler /\ seen' = seen \cup {h}
    BY <1>6, <2>1, ReceiveEffect
  <2>3. ToSet(channel[w].wire) \subseteq {h} \cup ToSet(Tail(channel[w].wire))
    BY <2>1, <2>2, ToSetHeadTail
  <2>4. ToSet(channel[w].wire) \subseteq {h} \cup ToSet(channel'[w].wire)
    BY <2>2, <2>3
  <2>5. QED
    BY <1>6, <2>2, <2>4 DEF Flows, Carried
<1>7. CASE x = w /\ Closed(w)
  <2>1. channel[w].wire = <<>> /\ handler[w].phase = "ended"
    BY <1>7 DEF Closed
  <2>2. handler[w].buf = <<>>
    BY <2>1 DEF Connections, ConnectionOK
  <2>3. QED
    BY <1>7, <2>1, <2>2, ToSetEmpty DEF Flows, Carried
<1>8. CASE x = w /\ Drop(w)
  <2>1. gap' = gap \cup ToSet(channel[w].wire) \cup ToSet(handler[w].buf)
    BY <1>8 DEF Drop
  <2>2. QED
    BY <1>8, <2>1 DEF Flows, Carried
<1>9. QED
  BY <1>2, <1>3, <1>4, <1>5, <1>6, <1>7, <1>8

LEMMA StoredInit == Init => StoredIsFound /\ FetchShown
<1>1. ASSUME Init
      PROVE  list = <<>> /\ fetch.at = "asked"
  BY <1>1 DEF Init
<1>2. QED
  BY <1>1, ToSetEmpty DEF StoredIsFound, FetchShown

LEMMA FoundStays ==
  ASSUME NEW m, Found(m), seen \subseteq seen', gap \subseteq gap',
         Announcing(m) => Found(m)', \A x \in Channels : Flows(x)
  PROVE  Found(m)'
<1>1. ASSUME NEW x \in Channels, m \in Carried(x)
      PROVE  Found(m)'
  BY <1>1 DEF Flows, Found
<1>2. QED
  BY <1>1 DEF Found

LEMMA StoredNext == Types /\ Connections /\ StoredIsFound /\ [Next]_vars => StoredIsFound'
<1> SUFFICES ASSUME Types, Connections, StoredIsFound, [Next]_vars, active',
                    NEW m \in ToSet(list')
             PROVE  Found(m)'
  BY DEF StoredIsFound
<1> USE TypeFacts
<1>1. active /\ seen \subseteq seen' /\ gap \subseteq gap'
  BY HistoryGrows
<1>2. \A n \in ToSet(list) : Found(n)
  BY <1>1 DEF StoredIsFound
<1>3. ASSUME channel' = channel, handler' = handler
      PROVE  \A x \in Channels : Flows(x)
  BY <1>3 DEF Flows, Carried
<1>4. ASSUME sender' = sender, list' = list, \A x \in Channels : Flows(x)
      PROVE  Found(m)'
  <2>1. Announcing(m) => Found(m)'
    BY <1>4 DEF Announcing, Current, Found
  <2>2. QED
    BY <1>1, <1>2, <1>4, <2>1, FoundStays
<1>5. ASSUME NEW s \in Senders, m \in ToSet(list), \A x \in Channels : Flows(x),
             \A r \in Senders \ {s} : sender'[r] = sender[r],
             sender[s].at = "notify" /\ m = Current(s) => Found(m)'
      PROVE  Found(m)'
  <2>1. ASSUME NEW r \in Senders, sender[r].at = "notify", m = Current(r)
        PROVE  Found(m)'
    <3>1. CASE r = s
      BY <1>5, <2>1, <3>1
    <3>2. CASE r # s
      <4>1. sender'[r] = sender[r]
        BY <1>5, <3>2
      <4>2. Announcing(m)'
        BY <2>1, <4>1 DEF Announcing, Current
      <4>3. QED
        BY <4>2 DEF Found
    <3>3. QED
      BY <3>1, <3>2
  <2>2. Announcing(m) => Found(m)'
    BY <2>1 DEF Announcing
  <2>3. QED
    BY <1>1, <1>2, <1>5, <2>2, FoundStays
<1>6. ASSUME NEW s \in Senders, Send(s) \/ Accepted(s)
      PROVE  Found(m)'
  <2>1. /\ sender[s].at # "notify"
        /\ \A r \in Senders \ {s} : sender'[r] = sender[r]
    BY <1>6, SendEffect, MoveEffect DEF Accepted
  <2>2. list' = list /\ channel' = channel /\ handler' = handler
    BY <1>6 DEF Send, Accepted
  <2>3. QED
    BY <1>3, <1>5, <2>1, <2>2
<1>7. ASSUME NEW s \in Senders, Resend(s)
      PROVE  Found(m)'
  <2>1. \A r \in Senders \ {s} : sender'[r] = sender[r]
    BY <1>7, ResendEffect
  <2>2. /\ list' = list /\ channel' = channel /\ handler' = handler
        /\ sender[s].at = "notify" => gap' = gap \cup {Current(s)}
    BY <1>7 DEF Resend
  <2>3. sender[s].at = "notify" /\ m = Current(s) => Found(m)'
    BY <2>2 DEF Found
  <2>4. QED
    BY <1>3, <1>5, <2>1, <2>2, <2>3
<1>8. ASSUME NEW s \in Senders, Push(s)
      PROVE  Found(m)'
  <2>1. /\ sender[s].at = "push" /\ sender'[s].at = "notify" /\ sender'[s].k = sender[s].k
        /\ \A r \in Senders \ {s} : sender'[r] = sender[r]
    BY <1>8, MoveEffect DEF Push
  <2>2. /\ list' = Append(list, Current(s)) /\ channel' = channel /\ handler' = handler
    BY <1>8 DEF Push
  <2>3. ToSet(Append(list, Current(s))) = ToSet(list) \cup {Current(s)}
    BY ToSetAppend
  <2>4. CASE m = Current(s)
    <3>1. Announcing(m)'
      BY <2>1, <2>4 DEF Announcing, Current
    <3>2. QED
      BY <3>1 DEF Found
  <2>5. CASE m \in ToSet(list)
    BY <1>3, <1>5, <2>1, <2>2, <2>5
  <2>6. QED
    BY <2>2, <2>3, <2>4, <2>5
<1>9. ASSUME NEW s \in Senders, Notify(s)
      PROVE  Found(m)'
  <2>1. /\ sender[s].at = "notify"
        /\ \A r \in Senders \ {s} : sender'[r] = sender[r]
    BY <1>9, MoveEffect DEF Notify
  <2>2. list' = list /\ channel' = channel
    BY <1>9, NotifyEffect DEF Notify
  <2>3. ASSUME NEW x \in Channels, handler'[x].buf = Append(handler[x].buf, Current(s))
        PROVE  /\ ToSet(handler'[x].buf) = ToSet(handler[x].buf) \cup {Current(s)}
              /\ Flows(x)
    <3>1. ToSet(Append(handler[x].buf, Current(s))) = ToSet(handler[x].buf) \cup {Current(s)}
      BY ToSetAppend
    <3>2. ToSet(handler'[x].buf) = ToSet(handler[x].buf) \cup {Current(s)}
      BY <2>3, <3>1
    <3>3. Flows(x)
      BY <2>2, <3>2 DEF Flows, Carried
    <3>4. QED
      BY <3>2, <3>3
  <2>4. ASSUME NEW x \in Channels
        PROVE  Flows(x)
    <3>1. CASE handler'[x].buf = handler[x].buf
      BY <2>2, <3>1 DEF Flows, Carried
    <3>2. QED
      BY <1>9, <2>3, <3>1, NotifyEffect
  <2>5. ASSUME m = Current(s)
        PROVE  Found(m)'
    <3>1. CASE \E x \in Channels : handler'[x].buf # handler[x].buf
      <4>1. PICK x \in Channels : handler'[x].buf # handler[x].buf
        BY <3>1
      <4>2. handler'[x].buf = Append(handler[x].buf, Current(s))
        BY <1>9, <4>1, NotifyEffect
      <4>3. m \in ToSet(handler'[x].buf)
        BY <2>3, <2>5, <4>2
      <4>4. m \in Carried(x)'
        BY <4>3 DEF Carried
      <4>5. QED
        BY <4>4 DEF Found
    <3>2. CASE ~ \E x \in Channels : handler'[x].buf # handler[x].buf
      <4>1. gap' = gap \cup {Current(s)}
        BY <1>9, <3>2 DEF Notify
      <4>2. QED
        BY <2>5, <4>1 DEF Found
    <3>3. QED
      BY <3>1, <3>2
  <2>6. QED
    BY <1>5, <2>1, <2>2, <2>4, <2>5
<1>10. ASSUME NEW w \in Channels, ChannelStep(w) \/ Drop(w)
       PROVE  Found(m)'
  <2>1. sender' = sender /\ list' = list
    <3>1. CASE Subscribe(w) \/ Forward(w) \/ Lag(w) \/ Connect(w)
      BY <3>1 DEF Subscribe, Forward, Lag, Connect
    <3>2. CASE Open(w) \/ Receive(w) \/ Closed(w) \/ Drop(w)
      BY <3>2 DEF Open, Receive, Closed, Drop
    <3>3. QED
      BY <1>10, <3>1, <3>2 DEF ChannelStep
  <2>2. \A x \in Channels : Flows(x)
    BY <1>1, <1>10, ConnectionFlows DEF ChannelStep
  <2>3. QED
    BY <1>4, <2>1, <2>2
<1>11. ASSUME NEW w \in Channels, NEW w2 \in Channels, ConnectFails(w, w2)
       PROVE  Found(m)'
  <2>1. sender' = sender /\ list' = list
    BY <1>11 DEF ConnectFails
  <2>2. ASSUME NEW x \in Channels
        PROVE  Flows(x)
    <3>1. CASE x \in {w, w2}
      <4>1. channel[x].phase # "open"
        BY <1>11, <3>1, ConnectFailsEffect
      <4>2. QED
        BY <4>1, NothingCarried DEF Flows
    <3>2. CASE x \notin {w, w2}
      <4>1. channel'[x] = channel[x] /\ handler' = handler
        BY <1>11, <3>2, ConnectFailsEffect
      <4>2. QED
        BY <4>1 DEF Flows, Carried
    <3>3. QED
      BY <3>1, <3>2
  <2>3. QED
    BY <1>4, <2>1, <2>2
<1>12. CASE FetchRead \/ FetchDone \/ FetchFails \/ UNCHANGED vars
  <2>1. sender' = sender /\ list' = list /\ channel' = channel /\ handler' = handler
    BY <1>12 DEF FetchRead, FetchDone, FetchFails, vars
  <2>2. QED
    BY <1>3, <1>4, <2>1
<1>13. CASE Cancel
  BY <1>13 DEF Cancel
<1>14. QED
  BY <1>6, <1>7, <1>8, <1>9, <1>10, <1>11, <1>12, <1>13 DEF Next, SenderStep

LEMMA FetchNext == Types /\ FetchShown /\ [Next]_vars => FetchShown'
<1> SUFFICES ASSUME Types, FetchShown, [Next]_vars PROVE FetchShown'
  OBVIOUS
<1>1. seen \subseteq seen' /\ (active' => active)
  BY HistoryGrows
<1>2. ASSUME fetch' = fetch
      PROVE  FetchShown'
  BY <1>1, <1>2 DEF FetchShown
<1>3. CASE FetchRead
  BY <1>3 DEF FetchRead, FetchShown
<1>4. CASE FetchDone
  <2>1. fetch \in [at: {"asked", "read", "done", "failed"}, page: Seq(Message)]
    BY TypesIs
  <2>2. fetch'.at = "done" /\ fetch'.page = fetch.page
    BY <1>4, <2>1 DEF FetchDone
  <2>3. active => ToSet(fetch.page) \subseteq seen'
    BY <1>4 DEF FetchDone, Show
  <2>4. QED
    BY <1>1, <2>2, <2>3 DEF FetchShown
<1>5. CASE FetchFails
  BY <1>5 DEF FetchFails, FetchShown
<1>6. ASSUME NEW s \in Senders, Send(s) \/ SenderStep(s) \/ Resend(s)
      PROVE  fetch' = fetch
  BY <1>6 DEF Send, SenderStep, Push, Notify, Accepted, Resend
<1>7. ASSUME NEW w \in Channels, ChannelStep(w) \/ Drop(w)
      PROVE  fetch' = fetch
  <2>1. CASE Subscribe(w) \/ Forward(w) \/ Lag(w) \/ Connect(w)
    BY <2>1 DEF Subscribe, Forward, Lag, Connect
  <2>2. CASE Open(w) \/ Receive(w) \/ Closed(w) \/ Drop(w)
    BY <2>2 DEF Open, Receive, Closed, Drop
  <2>3. QED
    BY <1>7, <2>1, <2>2 DEF ChannelStep
<1>8. ASSUME NEW w \in Channels, NEW w2 \in Channels, ConnectFails(w, w2)
      PROVE  fetch' = fetch
  BY <1>8 DEF ConnectFails
<1>9. CASE Cancel \/ UNCHANGED vars
  BY <1>2, <1>9 DEF Cancel, vars
<1>10. QED
  BY <1>2, <1>3, <1>4, <1>5, <1>6, <1>7, <1>8, <1>9 DEF Next

\* Once nothing is on its way, a stored message has shown or met a gap; and what
\* the fetch has read has shown.
LEMMA ExcuseFollows ==
  Types /\ Connections /\ StoredIsFound /\ FetchShown => MissedHasExcuse
<1> SUFFICES ASSUME Types, Connections, StoredIsFound, FetchShown, active, Settled,
                    NEW m \in ToSet(list)
             PROVE  m \in seen \/ (m \notin ToSet(fetch.page) /\ m \in gap)
  BY DEF MissedHasExcuse
<1> USE TypeFacts
<1>1. ToSet(fetch.page) \subseteq seen
  <2>1. fetch.at \in {"done", "failed"}
    BY DEF Settled
  <2>2. QED
    BY <2>1, ToSetEmpty DEF FetchShown
<1>2. ~Announcing(m)
  BY DEF Settled, Announcing
<1>3. ASSUME NEW x \in Channels
      PROVE  Carried(x) = {}
  <2>1. CASE channel[x].phase # "open"
    BY <2>1, NothingCarried
  <2>2. CASE channel[x].phase = "open"
    <3>1. channel[x].wire \o handler[x].buf = <<>>
      BY <2>2 DEF Settled, Alive
    <3>2. channel[x].wire = <<>> /\ handler[x].buf = <<>>
      BY <3>1, ConcatEqualIffEmpty
    <3>3. QED
      BY <3>2, ToSetEmpty DEF Carried
  <2>3. QED
    BY <2>1, <2>2
<1>4. Found(m)
  BY DEF StoredIsFound
<1>5. QED
  BY <1>1, <1>2, <1>3, <1>4 DEF Found


-----------------------------------------------------------------------------
(* What a channel has given and carries, as one sequence.                  *)

LEMMA ConcatAppend ==
  ASSUME NEW S, NEW a \in Seq(S), NEW b \in Seq(S), NEW x \in S
  PROVE  a \o Append(b, x) = Append(a \o b, x)
<1> DEFINE u == a \o Append(b, x)
           v == Append(a \o b, x)
<1>1. /\ Len(a) \in Nat /\ Len(b) \in Nat
      /\ Append(b, x) \in Seq(S) /\ Len(Append(b, x)) = Len(b) + 1
      /\ \A i \in 1..Len(b) : Append(b, x)[i] = b[i]
      /\ Append(b, x)[Len(b) + 1] = x
  BY LenProperties, AppendProperties
<1>2. /\ a \o b \in Seq(S) /\ Len(a \o b) = Len(a) + Len(b)
      /\ \A i \in 1..(Len(a) + Len(b)) : (a \o b)[i] = IF i <= Len(a) THEN a[i] ELSE b[i - Len(a)]
  BY ConcatProperties
<1>3. /\ u \in Seq(S) /\ Len(u) = Len(a) + (Len(b) + 1)
      /\ \A i \in 1..(Len(a) + (Len(b) + 1)) :
            u[i] = IF i <= Len(a) THEN a[i] ELSE Append(b, x)[i - Len(a)]
  BY <1>1, ConcatProperties
<1>4. /\ v \in Seq(S) /\ Len(v) = (Len(a) + Len(b)) + 1
      /\ \A i \in 1..(Len(a) + Len(b)) : v[i] = (a \o b)[i]
      /\ v[Len(a) + Len(b) + 1] = x
  BY <1>2, AppendProperties
<1> HIDE DEF u, v
<1>5. ASSUME NEW i \in 1..Len(u)
      PROVE  u[i] = v[i]
  <2>0. i \in Nat /\ 1 <= i /\ i <= Len(a) + Len(b) + 1
    BY <1>1, <1>3
  <2>1. CASE i <= Len(a)
    <3>1. i \in 1..(Len(a) + Len(b)) /\ i \in 1..(Len(a) + (Len(b) + 1))
      BY <1>1, <2>0, <2>1
    <3>2. u[i] = a[i]
      BY <1>3, <2>1, <3>1
    <3>3. v[i] = (a \o b)[i] /\ (a \o b)[i] = a[i]
      BY <1>2, <1>4, <2>1, <3>1
    <3>4. QED
      BY <3>2, <3>3
  <2>2. CASE i > Len(a) /\ i <= Len(a) + Len(b)
    <3>1. i - Len(a) \in 1..Len(b)
      BY <1>1, <1>3, <2>2
    <3>2. Append(b, x)[i - Len(a)] = b[i - Len(a)]
      BY <1>1, <3>1
    <3>3. QED
      BY <1>1, <1>2, <1>3, <1>4, <2>2, <3>2
  <2>3. CASE i = Len(a) + Len(b) + 1
    <3>1. i - Len(a) = Len(b) + 1
      BY <1>1, <2>3
    <3>2. QED
      BY <1>1, <1>3, <1>4, <2>3, <3>1
  <2>4. QED
    BY <1>1, <2>0, <2>1, <2>2, <2>3
<1>6. Len(u) = Len(v)
  BY <1>1, <1>3, <1>4
<1>7. u = v
  BY <1>3, <1>4, <1>5, <1>6, SeqEqual
<1>8. QED
  BY <1>7 DEF u, v

\* Taking the head of the second sequence to the end of the first changes
\* nothing of the two.
LEMMA MoveHead ==
  ASSUME NEW S, NEW a \in Seq(S), NEW b \in Seq(S), b # <<>>
  PROVE  Append(a, Head(b)) \o Tail(b) = a \o b
<1> DEFINE u == Append(a, Head(b)) \o Tail(b)
           v == a \o b
<1>1. /\ Head(b) \in S /\ Tail(b) \in Seq(S) /\ Len(Tail(b)) = Len(b) - 1
      /\ \A i \in 1..Len(Tail(b)) : Tail(b)[i] = b[i + 1]
      /\ Len(a) \in Nat /\ Len(b) \in Nat \ {0}
      /\ Head(b) = b[1]
  BY HeadTailProperties, LenProperties, EmptySeq
<1>2. /\ Append(a, Head(b)) \in Seq(S) /\ Len(Append(a, Head(b))) = Len(a) + 1
      /\ \A i \in 1..Len(a) : Append(a, Head(b))[i] = a[i]
      /\ Append(a, Head(b))[Len(a) + 1] = Head(b)
  BY <1>1, AppendProperties
<1>3. /\ u \in Seq(S) /\ Len(u) = (Len(a) + 1) + (Len(b) - 1)
      /\ \A i \in 1..((Len(a) + 1) + (Len(b) - 1)) :
            u[i] = IF i <= Len(a) + 1 THEN Append(a, Head(b))[i] ELSE Tail(b)[i - (Len(a) + 1)]
  BY <1>1, <1>2, ConcatProperties
<1>4. /\ v \in Seq(S) /\ Len(v) = Len(a) + Len(b)
      /\ \A i \in 1..(Len(a) + Len(b)) : v[i] = IF i <= Len(a) THEN a[i] ELSE b[i - Len(a)]
  BY ConcatProperties
<1> HIDE DEF u, v
<1>5. Len(u) = Len(v)
  BY <1>1, <1>3, <1>4
<1>6. ASSUME NEW i \in 1..Len(u)
      PROVE  u[i] = v[i]
  <2>1. CASE i <= Len(a)
    BY <1>1, <1>2, <1>3, <1>4, <2>1
  <2>2. CASE i = Len(a) + 1
    <3>1. i - Len(a) = 1
      BY <1>1, <2>2
    <3>2. v[i] = b[1]
      BY <1>1, <1>4, <2>2, <3>1
    <3>3. u[i] = Head(b)
      BY <1>1, <1>2, <1>3, <2>2
    <3>4. QED
      BY <1>1, <3>2, <3>3
  <2>3. CASE i > Len(a) + 1
    <3>1. i - (Len(a) + 1) \in 1..Len(Tail(b)) /\ (i - (Len(a) + 1)) + 1 = i - Len(a)
      BY <1>1, <1>3, <2>3
    <3>2. Tail(b)[i - (Len(a) + 1)] = b[i - Len(a)]
      BY <1>1, <3>1
    <3>3. QED
      BY <1>1, <1>3, <1>4, <2>3, <3>2
  <2>4. QED
    BY <1>1, <1>3, <2>1, <2>2, <2>3
<1>7. u = v
  BY <1>3, <1>4, <1>5, <1>6, SeqEqual
<1>8. QED
  BY <1>7 DEF u, v

LEMMA BeginsConcat ==
  ASSUME NEW S, NEW a \in Seq(S), NEW b \in Seq(S)
  PROVE  Begins(a, a \o b)
<1>1. Len(a) \in Nat /\ Len(b) \in Nat
  BY LenProperties
<1>2. /\ Len(a \o b) = Len(a) + Len(b)
      /\ \A i \in 1..(Len(a) + Len(b)) : (a \o b)[i] = IF i <= Len(a) THEN a[i] ELSE b[i - Len(a)]
  BY ConcatProperties
<1>3. QED
  BY <1>1, <1>2 DEF Begins

LEMMA BeginsSelf ==
  ASSUME NEW S, NEW q \in Seq(S)
  PROVE  Begins(q, q) /\ Begins(<<>>, q)
<1>1. Len(q) \in Nat /\ Len(<<>>) = 0
  BY LenProperties
<1>2. QED
  BY <1>1 DEF Begins

LEMMA PipeType ==
  ASSUME Types, NEW x \in Channels
  PROVE  channel[x].got \o channel[x].wire \in Seq(Message) /\ Pipe(x) \in Seq(Message)
<1>1. channel[x].got \o channel[x].wire \in Seq(Message)
  BY TypeFacts, ConcatProperties
<1>2. QED
  BY <1>1, TypeFacts, ConcatProperties DEF Pipe

LEMMA PipeNextType ==
  ASSUME Types', NEW x \in Channels
  PROVE  Pipe(x)' \in Seq(Message)
<1>1. /\ channel'[x].got \in Seq(Message) /\ channel'[x].wire \in Seq(Message)
      /\ handler'[x].buf \in Seq(Message)
  BY TypesNextIs DEF Connection, Task
<1>2. channel'[x].got \o channel'[x].wire \in Seq(Message)
  BY <1>1, ConcatProperties
<1>3. QED
  BY <1>1, <1>2, ConcatProperties DEF Pipe

\* No step but an announcement adds to a channel.
LEMMA PipeBegins ==
  ASSUME Types, Connections, NEW x \in Channels,
         \/ StaysIdle
         \/ \E w \in Channels : \/ Subscribe(w) \/ Forward(w) \/ Lag(w) \/ Connect(w)
                                \/ Open(w) \/ Receive(w) \/ Closed(w) \/ Drop(w)
         \/ \E w, w2 \in Channels : ConnectFails(w, w2)
         \/ Cancel
  PROVE  Begins(Pipe(x)', Pipe(x))
<1> USE TypeFacts
<1>1. ASSUME channel'[x].got = channel[x].got, channel'[x].wire = channel[x].wire,
             handler'[x].buf = handler[x].buf
      PROVE  Begins(Pipe(x)', Pipe(x))
  <2>1. Pipe(x)' = Pipe(x)
    BY <1>1 DEF Pipe
  <2>2. QED
    BY <2>1, PipeType, BeginsSelf
<1>2. ASSUME channel'[x].got = <<>>, channel'[x].wire = <<>>, handler'[x].buf = <<>>
      PROVE  Begins(Pipe(x)', Pipe(x))
  <2>1. (<<>> \o <<>>) \o <<>> = <<>>
    OBVIOUS
  <2>2. Pipe(x)' = <<>>
    BY <1>2, <2>1 DEF Pipe
  <2>3. QED
    BY <2>2, PipeType, BeginsSelf
<1>3. CASE StaysIdle
  BY <1>1, <1>3 DEF StaysIdle
<1>4. ASSUME NEW w \in Channels, OthersStay(w), x # w
      PROVE  Begins(Pipe(x)', Pipe(x))
  BY <1>1, <1>4 DEF OthersStay
<1>5. ASSUME NEW w \in Channels, Subscribe(w) \/ Connect(w) \/ Open(w)
      PROVE  Begins(Pipe(x)', Pipe(x))
  <2>1. CASE x = w
    <3>1. /\ channel'[w].got = channel[w].got /\ channel'[w].wire = channel[w].wire
          /\ handler'[w].buf = handler[w].buf
      BY <1>5, SubscribeEffect, ConnectEffect, OpenEffect
    <3>2. QED
      BY <1>1, <2>1, <3>1
  <2>2. OthersStay(w)
    BY <1>5, SubscribeEffect, ConnectEffect, OpenEffect
  <2>3. QED
    BY <1>4, <2>1, <2>2
<1>6. ASSUME NEW w \in Channels, Forward(w)
      PROVE  Begins(Pipe(x)', Pipe(x))
  <2>1. CASE x = w
    <3>1. PICK h \in Message : h = Head(handler[w].buf)
      BY <1>6, ForwardEffect, HeadTailProperties
    <3>2. /\ handler[w].buf # <<>> /\ handler'[w].buf = Tail(handler[w].buf)
          /\ channel'[w].got = channel[w].got
          /\ channel'[w].wire = Append(channel[w].wire, h)
      BY <1>6, <3>1, ForwardEffect
    <3>3. channel[w].got \o Append(channel[w].wire, h) = Append(channel[w].got \o channel[w].wire, h)
      <4>1. \A a, b \in Seq(Message), m \in Message : a \o Append(b, m) = Append(a \o b, m)
        BY ConcatAppend
      <4>2. QED
        BY <4>1, Zenon
    <3>4. Append(channel[w].got \o channel[w].wire, Head(handler[w].buf)) \o Tail(handler[w].buf)
             = (channel[w].got \o channel[w].wire) \o handler[w].buf
      BY <3>2, PipeType, MoveHead
    <3>5. Pipe(w)' = Append(channel[w].got \o channel[w].wire, h) \o Tail(handler[w].buf)
      BY <3>2, <3>3 DEF Pipe
    <3>6. Pipe(w)' = Pipe(w)
      BY <3>1, <3>4, <3>5 DEF Pipe
    <3>7. QED
      BY <2>1, <3>6, PipeType, BeginsSelf
  <2>2. QED
    BY <1>4, <1>6, <2>1, ForwardEffect
<1>7. ASSUME NEW w \in Channels, Lag(w)
      PROVE  Begins(Pipe(x)', Pipe(x))
  <2>1. CASE x = w
    <3>1. channel' = channel /\ handler'[w].buf = <<>>
      BY <1>7, LagEffect
    <3>2. (channel[w].got \o channel[w].wire) \o <<>> = channel[w].got \o channel[w].wire
      BY PipeType, ConcatEmptySeq
    <3>3. Pipe(w)' = channel[w].got \o channel[w].wire
      BY <3>1, <3>2 DEF Pipe
    <3>4. Begins(channel[w].got \o channel[w].wire, Pipe(w))
      BY PipeType, BeginsConcat DEF Pipe
    <3>5. QED
      BY <2>1, <3>3, <3>4
  <2>2. QED
    BY <1>4, <1>7, <2>1, LagEffect
<1>8. ASSUME NEW w \in Channels, Receive(w)
      PROVE  Begins(Pipe(x)', Pipe(x))
  <2>1. CASE x = w
    <3>1. /\ channel[w].wire # <<>> /\ handler' = handler
          /\ channel'[w].wire = Tail(channel[w].wire)
          /\ channel'[w].got = Append(channel[w].got, Head(channel[w].wire))
      BY <1>8, ReceiveEffect
    <3>2. Append(channel[w].got, Head(channel[w].wire)) \o Tail(channel[w].wire)
             = channel[w].got \o channel[w].wire
      BY <3>1, MoveHead
    <3>3. Pipe(w)' = Pipe(w)
      BY <3>1, <3>2 DEF Pipe
    <3>4. QED
      BY <2>1, <3>3, PipeType, BeginsSelf
  <2>2. QED
    BY <1>4, <1>8, <2>1, ReceiveEffect
<1>9. ASSUME NEW w \in Channels, Closed(w) \/ Drop(w)
      PROVE  Begins(Pipe(x)', Pipe(x))
  <2>1. CASE x = w
    <3>1. channel'[w].wire = <<>> /\ channel'[w].got = <<>> /\ handler'[w].buf = <<>>
      BY <1>9, EndsEffect, AgainType, NothingHandled
    <3>2. QED
      BY <1>2, <2>1, <3>1
  <2>2. QED
    BY <1>4, <1>9, <2>1, EndsEffect
<1>10. ASSUME NEW w \in Channels, NEW w2 \in Channels, ConnectFails(w, w2)
       PROVE  Begins(Pipe(x)', Pipe(x))
  <2>1. CASE x \in {w, w2}
    <3>1. channel[x].phase # "open" /\ handler' = handler
      BY <1>10, <2>1, ConnectFailsEffect
    <3>2. handler[x].buf = <<>>
      BY <3>1, NothingHandled DEF Connections, ConnectionOK
    <3>3. channel'[x].wire = <<>> /\ channel'[x].got = <<>>
      BY <1>10, <2>1, ConnectFailsEffect, AgainType
    <3>4. QED
      BY <1>2, <3>1, <3>2, <3>3
  <2>2. CASE x \notin {w, w2}
    <3>1. channel'[x] = channel[x] /\ handler' = handler
      BY <1>10, <2>2, ConnectFailsEffect
    <3>2. QED
      BY <1>1, <3>1
  <2>3. QED
    BY <2>1, <2>2
<1>11. CASE Cancel
  <2>1. latest \in Channels
    BY TypesIs
  <2>2. CASE channel' = channel /\ handler' = handler
    BY <1>1, <2>2
  <2>3. CASE x = latest /\ ~(channel' = channel /\ handler' = handler)
    <3>1. channel'[x].wire = <<>> /\ channel'[x].got = <<>> /\ handler'[x].buf = <<>>
      BY <1>11, <2>3, CancelEffect, NothingHandled
    <3>2. QED
      BY <1>2, <3>1
  <2>4. CASE x # latest
    BY <1>4, <1>11, <2>1, <2>4, CancelEffect
  <2>5. QED
    BY <2>2, <2>3, <2>4
<1>12. QED
  BY <1>3, <1>5, <1>6, <1>7, <1>8, <1>9, <1>10, <1>11

LEMMA PipeNotified ==
  ASSUME Types, NEW s \in Senders, Notify(s), NEW x \in Channels
  PROVE  Pipe(x)' = Pipe(x) \/ Pipe(x)' = Append(Pipe(x), Current(s))
<1> USE TypeFacts
<1>1. channel' = channel
  BY NotifyEffect
<1>2. CASE handler'[x].buf = handler[x].buf
  BY <1>1, <1>2 DEF Pipe
<1>3. CASE handler'[x].buf = Append(handler[x].buf, Current(s))
  <2>1. (channel[x].got \o channel[x].wire) \o Append(handler[x].buf, Current(s))
           = Append((channel[x].got \o channel[x].wire) \o handler[x].buf, Current(s))
    <3>1. \A a, b \in Seq(Message), m \in Message : a \o Append(b, m) = Append(a \o b, m)
      BY ConcatAppend
    <3>2. channel[x].got \o channel[x].wire \in Seq(Message)
      BY PipeType
    <3>3. QED
      BY <3>1, <3>2, Zenon
  <2>2. QED
    BY <1>1, <1>3, <2>1 DEF Pipe
<1>4. QED
  BY <1>2, <1>3, NotifyEffect


-----------------------------------------------------------------------------
(* The order of the messages on a channel.                                 *)

LEMMA BeginsInOrder ==
  ASSUME NEW p \in Seq(Message), NEW q \in Seq(Message), Begins(p, q), InOrder(q)
  PROVE  InOrder(p)
<1>1. Len(p) \in Nat /\ Len(q) \in Nat /\ Len(p) <= Len(q)
  BY LenProperties DEF Begins
<1>2. \A i \in 1..Len(p) : i \in 1..Len(q) /\ p[i] = q[i]
  BY <1>1 DEF Begins
<1>3. QED
  BY <1>2 DEF InOrder

LEMMA AppendInOrder ==
  ASSUME NEW q \in Seq(Message), NEW m \in Message, InOrder(q),
         \A i \in 1..Len(q) : q[i].from = m.from => q[i].k <= m.k
  PROVE  InOrder(Append(q, m))
<1> DEFINE t == Append(q, m)
<1>1. /\ Len(q) \in Nat /\ Len(t) = Len(q) + 1
      /\ \A i \in 1..Len(q) : t[i] = q[i]
      /\ t[Len(q) + 1] = m
  BY LenProperties, AppendProperties
<1> HIDE DEF t
<1>2. ASSUME NEW i \in 1..Len(t), NEW j \in 1..Len(t), i < j, t[i].from = t[j].from
      PROVE  t[i].k <= t[j].k
  <2>1. i \in 1..Len(q) /\ t[i] = q[i]
    BY <1>1, <1>2
  <2>2. CASE j \in 1..Len(q)
    BY <1>1, <1>2, <2>1, <2>2 DEF InOrder
  <2>3. CASE j = Len(q) + 1
    BY <1>1, <1>2, <2>1, <2>3
  <2>4. QED
    BY <1>1, <2>2, <2>3
<1>3. QED
  BY <1>2 DEF InOrder, t

\* What a step of the senders does to requests and list, and what every step
\* does to the channels.
LEMMA OrderSteps ==
  ASSUME Types, Connections, [Next]_vars
  PROVE  \/ /\ sender' = sender /\ list' = list
            /\ \A x \in Channels : Begins(Pipe(x)', Pipe(x))
         \/ \E s \in Senders :
               /\ Send(s) \/ Accepted(s) \/ Resend(s) \/ Push(s)
               /\ \A x \in Channels : Begins(Pipe(x)', Pipe(x))
         \/ \E s \in Senders : Notify(s)
<1>1. ASSUME NEW s \in Senders, Send(s) \/ Accepted(s) \/ Resend(s) \/ Push(s), NEW x \in Channels
      PROVE  Begins(Pipe(x)', Pipe(x))
  <2>1. StaysIdle
    BY <1>1 DEF Send, Accepted, Resend, Push, StaysIdle
  <2>2. QED
    BY <2>1, PipeBegins
<1>2. ASSUME NEW w \in Channels, ChannelStep(w) \/ Drop(w)
      PROVE  /\ sender' = sender /\ list' = list
             /\ \A x \in Channels : Begins(Pipe(x)', Pipe(x))
  <2>1. CASE Subscribe(w) \/ Forward(w) \/ Lag(w) \/ Connect(w)
    BY <2>1, PipeBegins DEF Subscribe, Forward, Lag, Connect
  <2>2. CASE Open(w) \/ Receive(w) \/ Closed(w) \/ Drop(w)
    BY <2>2, PipeBegins DEF Open, Receive, Closed, Drop
  <2>3. QED
    BY <1>2, <2>1, <2>2 DEF ChannelStep
<1>3. ASSUME NEW w \in Channels, NEW w2 \in Channels, ConnectFails(w, w2)
      PROVE  /\ sender' = sender /\ list' = list
             /\ \A x \in Channels : Begins(Pipe(x)', Pipe(x))
  <2>1. sender' = sender /\ list' = list
    BY <1>3 DEF ConnectFails
  <2>2. QED
    BY <1>3, <2>1, PipeBegins
<1>4. CASE Cancel
  <2>1. sender' = sender /\ list' = list
    BY <1>4 DEF Cancel
  <2>2. QED
    BY <1>4, <2>1, PipeBegins
<1>5. CASE FetchRead \/ FetchDone \/ FetchFails \/ UNCHANGED vars
  <2>1. sender' = sender /\ list' = list /\ StaysIdle
    BY <1>5 DEF FetchRead, FetchDone, FetchFails, vars, StaysIdle
  <2>2. QED
    BY <2>1, PipeBegins
<1>6. QED
  BY <1>1, <1>2, <1>3, <1>4, <1>5 DEF Next, SenderStep

LEMMA OrderInit == Init => OrderInv
<1> SUFFICES ASSUME Init PROVE OrderInv
  OBVIOUS
<1>1. (<<>> \o <<>>) \o <<>> = <<>>
  OBVIOUS
<1>2. \A w \in Channels : Pipe(w) = <<>>
  BY <1>1 DEF Init, Pipe
<1>3. \A m \in Message : ToAnnounce(m) = 0
  BY DEF Init, ToAnnounce, Message
<1>4. \A w \in Channels, m \in Message : Copies(Pipe(w), m) = 0 /\ Copies(list, m) = 0
  BY <1>2, CopiesEmpty DEF Init
<1>5. Len(<<>>) = 0
  OBVIOUS
<1>6. QED
  BY <1>2, <1>3, <1>4, <1>5 DEF OrderInv, InOrder, SentSoFar, PushedFirst

\* No request goes back, ...
LEMMA BegunStays ==
  ASSUME Types, [Next]_vars, NEW m \in Message, Begun(m)
  PROVE  Begun(m)'
<1>1. m.from \in Senders /\ m.k \in Nat
  BY DEF Message
<1>2. \A s \in Senders : sender[s].k \in Nat
  BY TypeFacts, DeliveryBounds DEF Request
<1>3. CASE sender' = sender
  BY <1>3 DEF Begun
<1>4. ASSUME NEW s \in Senders, Send(s) \/ Push(s) \/ Notify(s) \/ Accepted(s) \/ Resend(s)
      PROVE  Begun(m)'
  <2>1. \A r \in Senders \ {s} : sender'[r] = sender[r]
    BY <1>4, SendEffect, MoveEffect, ResendEffect DEF Push, Notify, Accepted
  <2>2. sender'[s].k \in {sender[s].k, sender[s].k + 1}
    BY <1>4, SendEffect, MoveEffect, ResendEffect DEF Push, Notify, Accepted
  <2>3. CASE m.from = s
    BY <1>1, <1>2, <2>2, <2>3 DEF Begun
  <2>4. CASE m.from # s
    BY <1>1, <2>1, <2>4 DEF Begun
  <2>5. QED
    BY <2>3, <2>4
<1>5. sender' = sender \/ \E s \in Senders : Send(s) \/ Push(s) \/ Notify(s) \/ Accepted(s) \/ Resend(s)
  <2>1. ASSUME NEW w \in Channels, ChannelStep(w) \/ Drop(w)
        PROVE  sender' = sender
    <3>1. CASE Subscribe(w) \/ Forward(w) \/ Lag(w) \/ Connect(w)
      BY <3>1 DEF Subscribe, Forward, Lag, Connect
    <3>2. CASE Open(w) \/ Receive(w) \/ Closed(w) \/ Drop(w)
      BY <3>2 DEF Open, Receive, Closed, Drop
    <3>3. QED
      BY <2>1, <3>1, <3>2 DEF ChannelStep
  <2>2. ASSUME \/ \E w, w2 \in Channels : ConnectFails(w, w2)
               \/ Cancel \/ FetchRead \/ FetchDone \/ FetchFails \/ UNCHANGED vars
        PROVE  sender' = sender
    BY <2>2 DEF ConnectFails, Cancel, FetchRead, FetchDone, FetchFails, vars
  <2>3. QED
    BY <2>1, <2>2 DEF Next, SenderStep
<1>6. QED
  BY <1>3, <1>4, <1>5

\* ... and what a channel holds is the beginning of what it held, with the
\* message that is announced at its end.
LEMMA SentSoFarNext ==
  ASSUME Types, Types', SentSoFar, [Next]_vars, NEW x \in Channels,
         \/ Begins(Pipe(x)', Pipe(x))
         \/ \E s \in Senders : Pipe(x)' = Append(Pipe(x), Current(s))
  PROVE  \A i \in 1..Len(Pipe(x)') : Begun(Pipe(x)[i])'
<1>1. PICK p \in Seq(Message) : p = Pipe(x)
  BY PipeType
<1>2. PICK q \in Seq(Message) : q = Pipe(x)'
  BY PipeNextType
<1>3. Len(p) \in Nat /\ Len(q) \in Nat
  BY LenProperties
<1>4. \A i \in 1..Len(p) : p[i] \in Message /\ Begun(p[i])
  BY <1>1, ElementOfSeq DEF SentSoFar
<1>5. \A m \in Message : Begun(m) => Begun(m)'
  BY BegunStays
<1>6. SUFFICES ASSUME NEW i \in 1..Len(q)
               PROVE  q[i] \in Message /\ Begun(q[i])
  <2>1. \A i \in 1..Len(q) : Begun(q[i])'
    BY <1>5, <1>6
  <2>2. QED
    BY <1>2, <2>1 DEF Begun
<1>7. CASE Begins(q, p)
  <2>1. i \in 1..Len(p) /\ q[i] = p[i]
    BY <1>3, <1>7 DEF Begins
  <2>2. QED
    BY <1>4, <2>1
<1>8. ASSUME NEW s \in Senders, q = Append(p, Current(s))
      PROVE  q[i] \in Message /\ Begun(q[i])
  <2>1. PICK c \in Message : c = Current(s)
    BY TypeFacts
  <2>2. c.from = s /\ c.k = sender[s].k
    BY <2>1 DEF Current
  <2>3. Begun(c)
    <3>1. sender[s].k \in Nat
      BY TypeFacts, DeliveryBounds DEF Request
    <3>2. QED
      BY <2>2, <3>1 DEF Begun
  <2>4. /\ Len(q) = Len(p) + 1 /\ q[Len(p) + 1] = c
        /\ \A j \in 1..Len(p) : q[j] = p[j]
    BY <1>8, <2>1, AppendProperties
  <2>5. CASE i \in 1..Len(p)
    BY <1>4, <2>4, <2>5
  <2>6. CASE i = Len(p) + 1
    BY <2>3, <2>4, <2>6
  <2>7. QED
    BY <1>3, <2>4, <2>5, <2>6
<1>9. QED
  BY <1>1, <1>2, <1>7, <1>8


LEMMA CurrentIs ==
  ASSUME NEW s \in Senders, NEW m \in Message
  PROVE  Current(s) = m <=> m.from = s /\ m.k = sender[s].k
BY DEF Current, Message

LEMMA PushedFirstNext ==
  ASSUME Types, Types', Connections, PushedFirst, [Next]_vars
  PROVE  PushedFirst'
<1> SUFFICES ASSUME NEW x \in Channels, NEW m \in Message
             PROVE  Copies(Pipe(x)', m) + ToAnnounce(m)' <= Copies(list', m)
  BY DEF PushedFirst, Copies
<1>1. Copies(Pipe(x), m) + ToAnnounce(m) <= Copies(list, m)
  BY DEF PushedFirst
<1>2. /\ Pipe(x) \in Seq(Message) /\ Pipe(x)' \in Seq(Message)
      /\ list \in Seq(Message) /\ list' \in Seq(Message)
  BY PipeType, PipeNextType, TypeFacts, TypesNextIs
<1>3. /\ Copies(Pipe(x), m) \in Nat /\ Copies(Pipe(x)', m) \in Nat
      /\ Copies(list, m) \in Nat /\ Copies(list', m) \in Nat
  BY <1>2, CopiesType
<1>4. ToAnnounce(m) \in {0, 1} /\ ToAnnounce(m)' \in {0, 1}
  BY DEF ToAnnounce
<1>5. Begins(Pipe(x)', Pipe(x)) => Copies(Pipe(x)', m) <= Copies(Pipe(x), m)
  BY <1>2, BeginsCopies
<1>6. m.from \in Senders
  BY DEF Message
<1>7. ASSUME NEW s \in Senders, m.from # s, \A r \in Senders \ {s} : sender'[r] = sender[r]
      PROVE  ToAnnounce(m)' = ToAnnounce(m)
  BY <1>6, <1>7 DEF ToAnnounce
<1>8. CASE /\ sender' = sender /\ list' = list
           /\ \A v \in Channels : Begins(Pipe(v)', Pipe(v))
  <2>1. ToAnnounce(m)' = ToAnnounce(m)
    BY <1>8 DEF ToAnnounce
  <2>2. QED
    BY <1>1, <1>3, <1>4, <1>5, <1>8, <2>1
<1>9. ASSUME NEW s \in Senders, Send(s) \/ Accepted(s) \/ Resend(s),
             Begins(Pipe(x)', Pipe(x))
      PROVE  Copies(Pipe(x)', m) + ToAnnounce(m)' <= Copies(list', m)
  <2>1. list' = list
    BY <1>9 DEF Send, Accepted, Resend
  <2>2. /\ sender'[s].at # "notify"
        /\ \A r \in Senders \ {s} : sender'[r] = sender[r]
    BY <1>9, SendEffect, MoveEffect, ResendEffect DEF Accepted
  <2>3. ToAnnounce(m)' <= ToAnnounce(m)
    <3>1. CASE m.from # s
      BY <1>4, <1>7, <2>2, <3>1
    <3>2. CASE m.from = s
      <4>1. ToAnnounce(m)' = 0
        BY <2>2, <3>2 DEF ToAnnounce
      <4>2. QED
        BY <1>4, <4>1
    <3>3. QED
      BY <3>1, <3>2
  <2>4. QED
    BY <1>1, <1>3, <1>4, <1>5, <1>9, <2>1, <2>3
<1>10. ASSUME NEW s \in Senders, Push(s), Begins(Pipe(x)', Pipe(x))
       PROVE  Copies(Pipe(x)', m) + ToAnnounce(m)' <= Copies(list', m)
  <2>1. PICK c \in Message : c = Current(s)
    BY TypeFacts
  <2>2. list' = Append(list, c)
    BY <1>10, <2>1 DEF Push
  <2>3. Copies(list', m) = Copies(list, m) + (IF c = m THEN 1 ELSE 0)
    BY <1>2, <2>2, CopiesAppend
  <2>4. /\ sender[s].at = "push" /\ sender'[s].k = sender[s].k
        /\ \A r \in Senders \ {s} : sender'[r] = sender[r]
    BY <1>10, MoveEffect DEF Push
  <2>5. ToAnnounce(m)' <= ToAnnounce(m) + (IF c = m THEN 1 ELSE 0)
    <3>1. CASE m.from # s
      <4>1. ToAnnounce(m)' = ToAnnounce(m)
        BY <1>7, <2>4, <3>1
      <4>2. QED
        BY <1>4, <4>1
    <3>2. CASE m = c
      BY <1>4, <3>2
    <3>3. CASE m.from = s /\ m # c
      <4>1. m.k # sender[s].k
        BY <2>1, <3>3, CurrentIs
      <4>2. ToAnnounce(m)' = 0
        BY <2>4, <3>3, <4>1 DEF ToAnnounce
      <4>3. QED
        BY <1>4, <4>2
    <3>4. QED
      BY <3>1, <3>2, <3>3
  <2>6. QED
    BY <1>1, <1>3, <1>4, <1>5, <1>10, <2>3, <2>5
<1>11. ASSUME NEW s \in Senders, Notify(s)
       PROVE  Copies(Pipe(x)', m) + ToAnnounce(m)' <= Copies(list', m)
  <2>1. PICK c \in Message : c = Current(s)
    BY TypeFacts
  <2>2. list' = list
    BY <1>11 DEF Notify
  <2>3. Copies(Append(Pipe(x), c), m) = Copies(Pipe(x), m) + (IF c = m THEN 1 ELSE 0)
    BY <1>2, CopiesAppend
  <2>4. Pipe(x)' = Pipe(x) \/ Pipe(x)' = Append(Pipe(x), c)
    BY <1>11, <2>1, PipeNotified
  <2>5. Copies(Pipe(x)', m) <= Copies(Pipe(x), m) + (IF c = m THEN 1 ELSE 0)
    <3>1. CASE Pipe(x)' = Pipe(x)
      <4>1. Copies(Pipe(x)', m) = Copies(Pipe(x), m)
        BY <3>1
      <4>2. QED
        BY <1>3, <4>1
    <3>2. CASE Pipe(x)' = Append(Pipe(x), c)
      <4>1. Copies(Pipe(x)', m) = Copies(Append(Pipe(x), c), m)
        BY <3>2
      <4>2. QED
        BY <1>3, <2>3, <4>1
    <3>3. QED
      BY <2>4, <3>1, <3>2
  <2>6. /\ sender[s].at = "notify" /\ sender'[s].at = "reply" /\ sender'[s].k = sender[s].k
        /\ \A r \in Senders \ {s} : sender'[r] = sender[r]
    BY <1>11, MoveEffect DEF Notify
  <2>7. ToAnnounce(m)' + (IF c = m THEN 1 ELSE 0) <= ToAnnounce(m)
    <3>1. CASE m.from # s
      <4>1. ToAnnounce(m)' = ToAnnounce(m)
        BY <1>7, <2>6, <3>1
      <4>2. c # m
        BY <2>1, <3>1, CurrentIs
      <4>3. QED
        BY <1>4, <4>1, <4>2
    <3>2. CASE m.from = s
      <4>1. ToAnnounce(m)' = 0
        BY <2>6, <3>2 DEF ToAnnounce
      <4>2. c = m => ToAnnounce(m) = 1
        BY <2>1, <2>6, <3>2, CurrentIs DEF ToAnnounce
      <4>3. QED
        BY <1>4, <4>1, <4>2
    <3>3. QED
      BY <3>1, <3>2
  <2>8. QED
    BY <1>1, <1>3, <1>4, <2>2, <2>5, <2>7
<1>12. QED
  BY <1>8, <1>9, <1>10, <1>11, OrderSteps

LEMMA OrderNext ==
  ASSUME Types, Types', Connections, OrderInv, [Next]_vars
  PROVE  OrderInv'
<1>1. /\ \A w \in Channels : InOrder(Pipe(w))
      /\ SentSoFar /\ PushedFirst
  BY DEF OrderInv
<1>2. ASSUME NEW x \in Channels
      PROVE  \/ Begins(Pipe(x)', Pipe(x))
             \/ \E s \in Senders : Pipe(x)' = Append(Pipe(x), Current(s))
  <2>1. ASSUME NEW s \in Senders, Notify(s)
        PROVE  Begins(Pipe(x)', Pipe(x)) \/ Pipe(x)' = Append(Pipe(x), Current(s))
    BY <2>1, PipeNotified, PipeType, BeginsSelf
  <2>2. QED
    BY <2>1, OrderSteps
<1>3. ASSUME NEW x \in Channels
      PROVE  InOrder(Pipe(x))'
  <2>1. PICK p \in Seq(Message) : p = Pipe(x)
    BY PipeType
  <2>2. PICK q \in Seq(Message) : q = Pipe(x)'
    BY PipeNextType
  <2>3. InOrder(p)
    BY <1>1, <2>1
  <2>4. CASE Begins(q, p)
    <3>1. InOrder(q)
      BY <2>3, <2>4, BeginsInOrder
    <3>2. QED
      BY <2>2, <3>1 DEF InOrder
  <2>5. ASSUME NEW s \in Senders, q = Append(p, Current(s))
        PROVE  InOrder(Pipe(x))'
    <3>1. PICK c \in Message : c = Current(s)
      BY TypeFacts
    <3>2. c.from = s /\ c.k = sender[s].k
      BY <3>1 DEF Current
    <3>3. \A i \in 1..Len(p) : Begun(p[i])
      BY <1>1, <2>1 DEF SentSoFar
    <3>4. \A i \in 1..Len(p) : p[i].from = c.from => p[i].k <= c.k
      BY <3>2, <3>3 DEF Begun
    <3>5. InOrder(Append(p, c))
      BY <2>3, <3>4, AppendInOrder
    <3>6. InOrder(q)
      BY <2>5, <3>1, <3>5
    <3>7. QED
      BY <2>2, <3>6 DEF InOrder
  <2>6. QED
    BY <1>2, <2>1, <2>2, <2>4, <2>5
<1>4. SentSoFar'
  BY <1>1, <1>2, SentSoFarNext DEF SentSoFar
<1>5. PushedFirst'
  BY <1>1, PushedFirstNext
<1>6. QED
  BY <1>3, <1>4, <1>5 DEF OrderInv

LEMMA OrderFollows == Types /\ OrderInv => ChannelInOrder
<1> SUFFICES ASSUME Types, OrderInv, NEW w \in Channels
             PROVE  /\ InOrder(Pipe(w))
                    /\ \A s \in Senders, k \in 1..MaxSends :
                          Copies(Pipe(w), [from |-> s, k |-> k]) <= Copies(list, [from |-> s, k |-> k])
  BY DEF ChannelInOrder, InOrder
<1>1. InOrder(Pipe(w))
  BY DEF OrderInv
<1>2. ASSUME NEW m \in Message
      PROVE  Copies(Pipe(w), m) <= Copies(list, m)
  <2>1. Copies(Pipe(w), m) + ToAnnounce(m) <= Copies(list, m)
    BY DEF OrderInv, PushedFirst
  <2>2. ToAnnounce(m) \in {0, 1}
    BY DEF ToAnnounce
  <2>3. Copies(Pipe(w), m) \in Nat /\ Copies(list, m) \in Nat
    BY PipeType, TypeFacts, CopiesType
  <2>4. QED
    BY <2>1, <2>2, <2>3
<1>3. \A s \in Senders, k \in 1..MaxSends : [from |-> s, k |-> k] \in Message
  BY DeliveryBounds DEF Message
<1>4. QED
  BY <1>1, <1>2, <1>3

-----------------------------------------------------------------------------
(* The theorems.                                                           *)

\* The inductive invariant holds: the steps keep types, connections, the place
\* of every stored message, the order on every channel and the count of the
\* channels in use.
THEOREM DeliveryInductive == Spec => []DeliveryInv
<1>1. Init => DeliveryInv
  BY TypesInit, ConnectionsInit, StoredInit, OrderInit, BoundedInit DEF DeliveryInv
<1>2. DeliveryInv /\ [Next]_vars => DeliveryInv'
  <2> SUFFICES ASSUME DeliveryInv, [Next]_vars PROVE DeliveryInv'
    OBVIOUS
  <2>1. /\ Types /\ Connections /\ LatestAlive /\ StoredIsFound /\ FetchShown
        /\ OrderInv /\ ChannelsBounded
    BY DEF DeliveryInv
  <2>2. Types'
    BY <2>1, TypesNext
  <2>3. Connections' /\ LatestAlive'
    BY <2>1, ConnectionsNext, LatestAliveNext
  <2>4. StoredIsFound' /\ FetchShown'
    BY <2>1, StoredNext, FetchNext
  <2>5. OrderInv'
    BY <2>1, <2>2, OrderNext
  <2>6. ChannelsBounded'
    BY <2>1, BoundedNext
  <2>7. QED
    BY <2>2, <2>3, <2>4, <2>5, <2>6 DEF DeliveryInv
<1>3. QED
  BY <1>1, <1>2, PTL DEF Spec

\* The state of sendSignal, of the mailbox's list, of handle_ws and of
\* subscribeMailbox always has its type, and no receiver holds more than
\* ws_push_buffer_capacity messages.
THEOREM DeliveryTypes == Spec => []TypeOK
<1>1. DeliveryInv => TypeOK
  BY DEF DeliveryInv, Types
<1>2. QED
  BY <1>1, DeliveryInductive, PTL

\* A WebSocket gives the listener each sender's messages in the order in which
\* they were sent, and none more often than mailbox_send has stored it, whatever
\* is sent again, lags, is lost or reconnects.
THEOREM ChannelsKeepOrder == Spec => []ChannelInOrder
<1>1. DeliveryInv => ChannelInOrder
  BY OrderFollows DEF DeliveryInv
<1>2. QED
  BY <1>1, DeliveryInductive, PTL

\* subscribeMailbox's channels multiply only when a connect fails, by one each
\* time; a cancel leaves no more than those failures have added, and timers.
THEOREM ChannelsStayBounded == Spec => []ChannelsBounded
<1>1. DeliveryInv => ChannelsBounded
  BY DEF DeliveryInv
<1>2. QED
  BY <1>1, DeliveryInductive, PTL

\* When nothing is on its way, a stored message that has not shown was missed by
\* the initial fetch and met a gap in the push.
THEOREM MissesExplained == Spec => []MissedHasExcuse
<1>1. DeliveryInv => MissedHasExcuse
  BY ExcuseFollows DEF DeliveryInv
<1>2. QED
  BY <1>1, DeliveryInductive, PTL
=============================================================================
