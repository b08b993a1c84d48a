--------------------------- MODULE MailboxDelivery ---------------------------
(***************************************************************************)
(* How a message that is sent to a mailbox reaches the page that has       *)
(* subscribed to it: the sender's retries (ConnectionService.sendSignal),  *)
(* the Redis list and the PushHub's broadcast channel on the server        *)
(* (mailbox_send, PushHub, handle_ws), and the subscriber's fetch and its  *)
(* WebSocket channels (ConnectionService.subscribeMailbox).                *)
(*                                                                         *)
(* One mailbox; what the rendezvous checks and writes besides the list is  *)
(* in Rendezvous.  A sender sends one message at a time.  web_socket_      *)
(* channel reports a failed connect as an error and then closes the        *)
(* stream, so the listener's onError and onDone both run; a connection     *)
(* that was open just ends with onDone.                                    *)
(***************************************************************************)
EXTENDS Naturals, Sequences, SequencesExt, FiniteSets

CONSTANTS
    Senders,      \* clients linked with the mailbox
    Channels,     \* slots for the channels that connect() opens; their number
                  \*   is a bound on the channels at any one time
    First,        \* the slot of the first connect()
    Capacity,     \* ws_push_buffer_capacity
    Retries,      \* sendSignal's retries
    MaxSends,     \* bound: messages each sender sends
    MaxFailures   \* bound: requests and connects that fail, connections lost

ASSUME ChannelAssumption == First \in Channels /\ IsFiniteSet(Channels)
ASSUME DeliveryBounds ==
    /\ Capacity \in Nat \ {0} /\ Retries \in Nat \ {0}
    /\ MaxSends \in Nat /\ MaxFailures \in Nat

VARIABLES
    sender,    \* each sender's request: what it sends and where that is
    list,      \* the Redis list of the mailbox
    channel,   \* the client's channels
    handler,   \* the server's handle_ws tasks, by channel
    latest,    \* subscribeMailbox's variable "channel"
    active,    \* ~isDisposed
    fetch,     \* the initial fetchMessages
    seen,      \* the messages that the stream's listener was given
    faults,    \* requests and connects that failed, connections lost
    extra,     \* history: connects that failed, each adding a channel
    gap        \* history: pushes that reached no subscriber, or one that was lost

vars == <<sender, list, channel, handler, latest, active, fetch, seen, faults, extra, gap>>

Message == [from: Senders, k: Nat]

Init ==
    /\ sender = [s \in Senders |-> [at |-> "idle", k |-> 0, attempt |-> 0]]
    /\ list = <<>>
    /\ channel = [w \in Channels |->
                     [phase |-> IF w = First THEN "connecting" ELSE "free",
                      wire |-> <<>>, got |-> <<>>]]
    /\ handler = [w \in Channels |-> [phase |-> "none", buf |-> <<>>, lagged |-> FALSE]]
    /\ latest = First
    /\ active = TRUE
    /\ fetch = [at |-> "asked", page |-> <<>>]
    /\ seen = {}
    /\ faults = 0
    /\ extra = 0
    /\ gap = {}

-----------------------------------------------------------------------------
(* sendSignal and the server's mailbox_send handler.                       *)

Current(s) == [from |-> s, k |-> sender[s].k]

Move(s, from, to) ==
    /\ sender[s].at = from
    /\ sender' = [sender EXCEPT ![s].at = to]

Send(s) ==
    /\ sender[s].at = "idle"
    /\ sender[s].k < MaxSends
    /\ sender' = [sender EXCEPT ![s] = [at |-> "push", k |-> @.k + 1, attempt |-> 1]]
    /\ UNCHANGED <<list, channel, handler, latest, active, fetch, seen, faults, extra, gap>>

\* send_message: RPUSH.
Push(s) ==
    /\ Move(s, "push", "notify")
    /\ list' = Append(list, Current(s))
    /\ UNCHANGED <<channel, handler, latest, active, fetch, seen, faults, extra, gap>>

\* Mutant: an unbounded channel.
BroadcastUnbounded(h, m) ==
    IF h.phase # "subscribed" THEN h ELSE [h EXCEPT !.buf = Append(@, m)]

\* A broadcast channel keeps the last Capacity messages; a receiver that is
\* further behind finds out at its next recv.
Broadcast(h, m) ==
    IF h.phase # "subscribed" THEN h
    ELSE IF Len(h.buf) < Capacity THEN [h EXCEPT !.buf = Append(@, m)]
    ELSE [h EXCEPT !.lagged = TRUE]

\* PushHub::notify: to whoever is subscribed now.
Notify(s) ==
    /\ Move(s, "notify", "reply")
    /\ handler' = [w \in Channels |-> Broadcast(handler[w], Current(s))]
    /\ gap' = IF \E w \in Channels : handler'[w].buf # handler[w].buf THEN gap
              ELSE gap \cup {Current(s)}
    /\ UNCHANGED <<list, channel, latest, active, fetch, seen, faults, extra>>

Accepted(s) ==
    /\ Move(s, "reply", "idle")
    /\ UNCHANGED <<list, channel, handler, latest, active, fetch, seen, faults, extra, gap>>

\* The request fails wherever the handler is: try again, or give up.
Resend(s) ==
    /\ sender[s].at # "idle"
    /\ faults < MaxFailures /\ faults' = faults + 1
    /\ sender' = [sender EXCEPT ![s] =
                     IF @.attempt < Retries
                     THEN [at |-> "push", k |-> @.k, attempt |-> @.attempt + 1]
                     ELSE [@ EXCEPT !.at = "idle"]]
    /\ gap' = IF sender[s].at = "notify" THEN gap \cup {Current(s)} ELSE gap
    /\ UNCHANGED <<list, channel, handler, latest, active, fetch, seen, extra>>

-----------------------------------------------------------------------------
(* handle_ws.                                                              *)

\* The handler runs after the upgrade, which the client has seen already.
Subscribe(w) ==
    /\ handler[w].phase = "upgraded"
    /\ handler' = [handler EXCEPT ![w].phase = "subscribed"]
    /\ UNCHANGED <<sender, list, channel, latest, active, fetch, seen, faults, extra, gap>>

\* rx.recv gives a message, which goes out on the socket.
Forward(w) ==
    /\ handler[w].phase = "subscribed"
    /\ ~handler[w].lagged
    /\ handler[w].buf # <<>>
    /\ handler' = [handler EXCEPT ![w].buf = Tail(@)]
    /\ channel' = [channel EXCEPT ![w].wire = Append(@, Head(handler[w].buf))]
    /\ UNCHANGED <<sender, list, latest, active, fetch, seen, faults, extra, gap>>

\* Mutant: the loop asks the receiver again and again.
LagSpins(w) ==
    /\ handler[w].phase = "subscribed"
    /\ handler[w].lagged
    /\ UNCHANGED vars

\* rx.recv gives Lagged: the loop ends, and with it the socket.
Lag(w) ==
    /\ handler[w].phase = "subscribed"
    /\ handler[w].lagged
    /\ handler' = [handler EXCEPT ![w] = [phase |-> "ended", buf |-> <<>>, lagged |-> FALSE]]
    /\ gap' = gap \cup ToSet(handler[w].buf)
    /\ UNCHANGED <<sender, list, channel, latest, active, fetch, seen, faults, extra>>

-----------------------------------------------------------------------------
(* subscribeMailbox.                                                       *)

\* The listener gets a message unless the controller is closed.
Show(ms) == seen' = IF active THEN seen \cup ms ELSE seen

\* recv_messages: LRANGE.
FetchRead ==
    /\ fetch.at = "asked"
    /\ fetch' = [at |-> "read", page |-> list]
    /\ UNCHANGED <<sender, list, channel, handler, latest, active, seen, faults, extra, gap>>

\* Mutant: the loop over the messages ends after one.
FetchDoneFirst ==
    /\ fetch.at = "read"
    /\ fetch' = [fetch EXCEPT !.at = "done"]
    /\ Show({fetch.page[i] : i \in {1} \cap DOMAIN fetch.page})
    /\ UNCHANGED <<sender, list, channel, handler, latest, active, faults, extra, gap>>

FetchDone ==
    /\ fetch.at = "read"
    /\ fetch' = [fetch EXCEPT !.at = "done"]
    /\ Show(ToSet(fetch.page))
    /\ UNCHANGED <<sender, list, channel, handler, latest, active, faults, extra, gap>>

\* The error is logged and that is all.
FetchFails ==
    /\ fetch.at \in {"asked", "read"}
    /\ faults < MaxFailures /\ faults' = faults + 1
    /\ fetch' = [at |-> "failed", page |-> <<>>]
    /\ UNCHANGED <<sender, list, channel, handler, latest, active, seen, extra, gap>>

\* connect() after the two seconds; nothing any more once disposed.
Connect(w) ==
    /\ channel[w].phase = "timer"
    /\ channel' = [channel EXCEPT ![w].phase = IF active THEN "connecting" ELSE "free"]
    /\ latest' = IF active THEN w ELSE latest
    /\ UNCHANGED <<sender, list, handler, active, fetch, seen, faults, extra, gap>>

Open(w) ==
    /\ channel[w].phase = "connecting"
    /\ channel' = [channel EXCEPT ![w].phase = "open"]
    /\ handler' = [handler EXCEPT ![w].phase = "upgraded"]
    /\ UNCHANGED <<sender, list, latest, active, fetch, seen, faults, extra, gap>>

Again == [phase |-> IF active THEN "timer" ELSE "free", wire |-> <<>>, got |-> <<>>]

\* onError and onDone each schedule a connect().
ConnectFails(w, w2) ==
    /\ channel[w].phase = "connecting"
    /\ channel[w2].phase = "free"
    /\ faults < MaxFailures /\ faults' = faults + 1
    /\ extra' = extra + 1
    /\ channel' = [channel EXCEPT ![w] = Again, ![w2] = Again]
    /\ UNCHANGED <<sender, list, handler, latest, active, fetch, seen, gap>>

\* Mutant: the message is handed out but stays at the head.
ReceiveTwice(w) ==
    /\ channel[w].phase = "open"
    /\ channel[w].wire # <<>>
    /\ channel' = [channel EXCEPT ![w].got = Append(@, Head(channel[w].wire))]
    /\ Len(channel[w].got) < 3
    /\ Show({Head(channel[w].wire)})
    /\ UNCHANGED <<sender, list, handler, latest, active, fetch, faults, extra, gap>>

Receive(w) ==
    /\ channel[w].phase = "open"
    /\ channel[w].wire # <<>>
    /\ channel' = [channel EXCEPT ![w].wire = Tail(@),
                                  ![w].got = Append(@, Head(channel[w].wire))]
    /\ Show({Head(channel[w].wire)})
    /\ UNCHANGED <<sender, list, handler, latest, active, fetch, faults, extra, gap>>

NoHandler == [phase |-> "none", buf |-> <<>>, lagged |-> FALSE]

\* The connection is lost, with all that was on its way.
Drop(w) ==
    /\ channel[w].phase = "open"
    /\ faults < MaxFailures /\ faults' = faults + 1
    /\ gap' = gap \cup ToSet(channel[w].wire) \cup ToSet(handler[w].buf)
    /\ channel' = [channel EXCEPT ![w] = Again]
    /\ handler' = [handler EXCEPT ![w] = NoHandler]
    /\ UNCHANGED <<sender, list, latest, active, fetch, seen, extra>>

\* Mutant: a close is handled like a failed connect.
ClosedTwice(w) ==
    /\ channel[w].phase = "open"
    /\ handler[w].phase = "ended"
    /\ channel[w].wire = <<>>
    /\ \E w2 \in Channels :
          /\ channel[w2].phase = "free"
          /\ channel' = [channel EXCEPT ![w] = Again, ![w2] = Again]
    /\ handler' = [handler EXCEPT ![w] = NoHandler]
    /\ UNCHANGED <<sender, list, latest, active, fetch, seen, faults, extra, gap>>

\* onDone, once the server has closed the socket.
Closed(w) ==
    /\ channel[w].phase = "open"
    /\ handler[w].phase = "ended"
    /\ channel[w].wire = <<>>
    /\ channel' = [channel EXCEPT ![w] = Again]
    /\ handler' = [handler EXCEPT ![w] = NoHandler]
    /\ UNCHANGED <<sender, list, latest, active, fetch, seen, faults, extra, gap>>

\* The last listener goes: the latest channel is closed, and the controller.
Cancel ==
    /\ active
    /\ active' = FALSE
    /\ IF channel[latest].phase \in {"connecting", "open"}
       THEN /\ channel' = [channel EXCEPT ![latest] =
                              [phase |-> "free", wire |-> <<>>, got |-> <<>>]]
            /\ handler' = [handler EXCEPT ![latest] = NoHandler]
       ELSE UNCHANGED <<channel, handler>>
    /\ UNCHANGED <<sender, list, latest, fetch, seen, faults, extra, gap>>

-----------------------------------------------------------------------------
SenderStep(s) == Push(s) \/ Notify(s) \/ Accepted(s)

ChannelStep(w) ==
    \/ Subscribe(w) \/ Forward(w) \/ Lag(w)
    \/ Connect(w) \/ Open(w) \/ Receive(w) \/ Closed(w)

Next ==
    \/ \E s \in Senders : Send(s) \/ SenderStep(s) \/ Resend(s)
    \/ \E w \in Channels : ChannelStep(w) \/ Drop(w)
    \/ \E w, w2 \in Channels : ConnectFails(w, w2)
    \/ FetchRead \/ FetchDone \/ FetchFails
    \/ Cancel

Spec == Init /\ [][Next]_vars

\* The server's tasks and the client's callbacks run, timers fire, and requests
\* and connects come to an end.
Fairness ==
    /\ \A w \in Channels : WF_vars(ChannelStep(w))
    /\ \A s \in Senders : WF_vars(SenderStep(s))
    /\ WF_vars(FetchRead \/ FetchDone)

FairSpec == Spec /\ Fairness

-----------------------------------------------------------------------------
\* Type invariant: requests, channels, handlers and messages have their shapes,
\* and no receiver holds more than the broadcast channel's capacity.
TypeOK ==
    /\ sender \in [Senders -> [at: {"idle", "push", "notify", "reply"},
                               k: 0..MaxSends, attempt: 0..Retries]]
    /\ list \in Seq(Message)
    /\ channel \in [Channels -> [phase: {"free", "timer", "connecting", "open"},
                                 wire: Seq(Message), got: Seq(Message)]]
    /\ handler \in [Channels -> [phase: {"none", "upgraded", "subscribed", "ended"},
                                 buf: Seq(Message), lagged: BOOLEAN]]
    /\ \A w \in Channels : Len(handler[w].buf) <= Capacity
    /\ latest \in Channels
    /\ active \in BOOLEAN
    /\ fetch \in [at: {"asked", "read", "done", "failed"}, page: Seq(Message)]
    /\ seen \subseteq Message
    /\ faults \in 0..MaxFailures
    /\ extra \in 0..MaxFailures
    /\ gap \subseteq Message

\* What a channel has given to the listener, and what is on its way there.
Pipe(w) == channel[w].got \o channel[w].wire \o handler[w].buf

\* How often a sequence holds a message.
Copies(seq, m) == Cardinality({i \in 1..Len(seq) : seq[i] = m})

\* A channel gives a sender's messages in the order in which they were sent;
\* one comes twice only if the sender has sent it again.
ChannelInOrder ==
    \A w \in Channels :
        /\ \A i, j \in 1..Len(Pipe(w)) :
              i < j /\ Pipe(w)[i].from = Pipe(w)[j].from => Pipe(w)[i].k <= Pipe(w)[j].k
        /\ \A s \in Senders, k \in 1..MaxSends :
              LET m == [from |-> s, k |-> k] IN Copies(Pipe(w), m) <= Copies(list, m)

Alive == {w \in Channels : channel[w].phase # "free"}

\* Channels only multiply when a connect fails, which schedules two: a close
\* of an open connection is followed by one reconnect.  What a cancel leaves
\* behind is what failed connects had added, and a timer about to find that the
\* subscription is over.
ChannelsBounded ==
    /\ Cardinality(Alive) <= 1 + extra
    /\ ~active => Cardinality({w \in Alive : channel[w].phase # "timer"}) <= extra

\* Nothing is on its way any more.
Settled ==
    /\ \A s \in Senders : sender[s].at = "idle"
    /\ fetch.at \in {"done", "failed"}
    /\ \A w \in Alive : handler[w].phase = "subscribed" /\ channel[w].wire \o handler[w].buf = <<>>

\* A stored message that never shows was not in what the initial fetch read,
\* and met a gap in the push: nobody was subscribed when it was announced, or
\* the subscriber lagged or was lost, or the sender's handler was dropped before
\* it was announced.
MissedHasExcuse ==
    active /\ Settled =>
        \A m \in ToSet(list) : m \in seen \/ (m \notin ToSet(fetch.page) /\ m \in gap)

\* What a subscribed handler holds reaches the listener, unless the connection
\* ends or the subscription does.
PushArrives ==
    \A s \in Senders, k \in 1..MaxSends :
        LET m == [from |-> s, k |-> k]
        IN  (\E w \in Channels : m \in ToSet(handler[w].buf))
                ~> (m \in seen \/ m \in gap \/ ~active)

\* "Initial fetch to ensure no messages are missed": as long as no request and no
\* connection fails, every stored message shows.
NoMessageMissed == active /\ Settled => ToSet(list) \subseteq seen
=============================================================================
