--------------------------- MODULE SessionRegistry ---------------------------
(***************************************************************************)
(* The signalling server's registry of client sessions and their legacy    *)
(* /signal messages (registry.rs over repository/session_repository.rs).   *)
(*                                                                         *)
(* The clients and the messages are behind two RwLocks that a handler      *)
(* takes one after the other and never together, so the steps of a task    *)
(* are its lock acquisitions and requests interleave between them.  A      *)
(* client that disconnects drops its handler's future at an await (Abort); *)
(* everything is in memory, so a restart loses it (Restart).               *)
(*                                                                         *)
(* A request with a wrong token is refused in verify_client exactly as one *)
(* with an unknown client id is; it is a request by a client that is not   *)
(* live.  Display names, labels and envelope times are left out.           *)
(***************************************************************************)
EXTENDS ServerConfig, Sequences, FiniteSets

CONSTANTS
    Tasks,       \* tasks of the HTTP server
    Clients,     \* values Uuid::new_v4() can return
    None,        \* no client
    MaxTime,     \* bound: the clock stops here
    MaxMsgs,     \* bound: messages ever added
    MaxFaults    \* bound: tasks dropped and restarts

ASSUME NoClientAssumption == None \notin Clients
ASSUME RegistryBounds == MaxTime \in Nat /\ MaxMsgs \in Nat /\ MaxFaults \in Nat

VARIABLES
    clients,    \* InMemorySessionRepository.clients: last_heartbeat, by id
    messages,   \* InMemorySessionRepository.messages
    now,        \* Instant::now()
    pc,         \* the next lock each task takes
    loc,        \* the task's request and local variables
    faults,     \* tasks dropped and restarts so far
    drawn,      \* history: ids handed out
    gone,       \* history: clients pruned, or lost in a restart
    sent,       \* history: how many messages were added
    fetched,    \* history: the messages handed to each client, oldest first
    late,       \* history: messages added when their sender or addressee was gone
    spared      \* history: clients whose messages a dropped task never pruned

repo == <<clients, messages>>
history == <<drawn, gone, sent, fetched, late, spared>>
vars == <<env, clients, messages, now, pc, loc, faults, drawn, gone, sent, fetched, late, spared>>

Ops == {"register", "heartbeat", "signal", "fetch", "verify"}

ClientRecord == [live: BOOLEAN, beat: Nat]
NoRecord == [live |-> FALSE, beat |-> 0]

Envelope == [id: Nat, from: Clients, to: Clients]

\* stale is what prune_stale_clients returned, at an Instant::now() on its
\* way to the repository; ok is the outcome the reply carries.
LocRecord == [op: Ops, me: Clients \cup {None}, to: Clients \cup {None},
              stale: SUBSET Clients, at: Nat, ok: BOOLEAN]
NoLoc == [op |-> "verify", me |-> None, to |-> None, stale |-> {}, at |-> 0, ok |-> FALSE]

PCs == {"idle", "prune_clients", "prune_msgs", "count", "insert", "verify",
        "update", "add", "drain", "done"}

Init ==
    /\ EnvInit
    /\ clients = [c \in Clients |-> NoRecord]
    /\ messages = <<>>
    /\ now = 0
    /\ pc = [p \in Tasks |-> "idle"]
    /\ loc = [p \in Tasks |-> NoLoc]
    /\ faults = 0
    /\ drawn = {}
    /\ gone = {}
    /\ sent = 0
    /\ fetched = [c \in Clients |-> <<>>]
    /\ late = {}
    /\ spared = {}

-----------------------------------------------------------------------------
\* Vec::retain: the elements of s at the positions in kept, in their order.
\* (Written without recursion, which the proofs could not follow.)
Retain(s, kept) ==
    LET n == Cardinality(kept)
        pos == CHOOSE f \in [1..n -> kept] : \A i, j \in 1..n : i < j => f[i] < f[j]
    IN  [i \in 1..n |-> s[pos[i]]]

\* The positions of the messages to c, and of those from or to anyone in cs.
To(c) == {i \in 1..Len(messages) : messages[i].to = c}
Among(cs) == {i \in 1..Len(messages) : {messages[i].from, messages[i].to} \cap cs # {}}
AllBut(kept) == (1..Len(messages)) \ kept

Live(c) == clients[c].live

From(p, label) == pc[p] = label
Goto(p, label) == pc' = [pc EXCEPT ![p] = label]

\* The handler's value is on its way to the client.
Finish(p, ok) ==
    /\ Goto(p, "done")
    /\ loc' = [loc EXCEPT ![p] = [NoLoc EXCEPT !.op = loc[p].op, !.me = loc[p].me, !.ok = ok]]

\* A request arrives.  Everything but verify_session prunes first.
Start(p, op, c, d) ==
    /\ From(p, "idle")
    /\ Goto(p, IF op = "verify" THEN "verify" ELSE "prune_clients")
    /\ loc' = [loc EXCEPT ![p] = [NoLoc EXCEPT !.op = op, !.me = c, !.to = d]]
    /\ drawn' = IF op = "register" THEN drawn \cup {c} ELSE drawn
    /\ UNCHANGED <<repo, now, faults, gone, sent, fetched, late, spared>>

\* Where a handler goes on after prune_expired.
AfterPrune(p) == IF loc[p].op = "register" THEN "count" ELSE "verify"

\* A client is stale once session_ttl has elapsed since its last heartbeat.
Stale == {c \in Clients : Live(c) /\ clients[c].beat + config.session_ttl <= now}

\* prune_stale_clients: find and remove them under one write lock.
PruneClients(p) ==
    /\ From(p, "prune_clients")
    /\ clients' = [c \in Clients |-> IF c \in Stale THEN NoRecord ELSE clients[c]]
    /\ gone' = gone \cup Stale
    /\ loc' = [loc EXCEPT ![p].stale = Stale]
    /\ Goto(p, IF Stale = {} THEN AfterPrune(p) ELSE "prune_msgs")
    /\ UNCHANGED <<messages, now, faults, drawn, sent, fetched, late, spared>>

\* Mutant: only what is addressed to a pruned client is removed.
PruneMessagesTo(p) ==
    /\ From(p, "prune_msgs")
    /\ messages' = Retain(messages, AllBut(UNION {To(c) : c \in loc[p].stale}))
    /\ Goto(p, AfterPrune(p))
    /\ loc' = [loc EXCEPT ![p].stale = {}]
    /\ UNCHANGED <<clients, now, faults, history>>

\* prune_messages_for_clients: another lock, some time later.
PruneMessages(p) ==
    /\ From(p, "prune_msgs")
    /\ messages' = Retain(messages, AllBut(Among(loc[p].stale)))
    /\ Goto(p, AfterPrune(p))
    /\ loc' = [loc EXCEPT ![p].stale = {}]
    /\ UNCHANGED <<clients, now, faults, history>>

-----------------------------------------------------------------------------
\* register: get_client_count, then the record's Instant::now() ...
Count(p) ==
    /\ From(p, "count")
    /\ loc' = [loc EXCEPT ![p].at = now]
    /\ Goto(p, "insert")
    /\ UNCHANGED <<repo, now, faults, history>>

\* ... and insert_client.
Insert(p) ==
    /\ From(p, "insert")
    /\ clients' = [clients EXCEPT ![loc[p].me] = [live |-> TRUE, beat |-> loc[p].at]]
    /\ Finish(p, TRUE)
    /\ UNCHANGED <<messages, now, faults, history>>

\* Mutant: two routes swapped.
AfterVerifySwapped == [heartbeat |-> "add", signal |-> "update", fetch |-> "drain"]

\* What the handler does once its client is verified.
AfterVerify == [heartbeat |-> "update", signal |-> "add", fetch |-> "drain"]

\* verify_client: a look under the read lock, given up at once.
Verify(p) ==
    /\ From(p, "verify")
    /\ IF Live(loc[p].me) /\ loc[p].op # "verify"
       THEN /\ Goto(p, AfterVerify[loc[p].op])
            /\ loc' = [loc EXCEPT ![p].at = IF loc[p].op = "heartbeat" THEN now ELSE 0]
       ELSE Finish(p, Live(loc[p].me))
    /\ UNCHANGED <<repo, now, faults, history>>

\* Mutant: an upsert instead of get_mut.
UpdateInserts(p) ==
    /\ From(p, "update")
    /\ clients' = [clients EXCEPT ![loc[p].me] = [live |-> TRUE, beat |-> loc[p].at]]
    /\ Finish(p, TRUE)
    /\ UNCHANGED <<messages, now, faults, history>>

\* heartbeat: update_client_heartbeat, which tells when the client has gone.
Update(p) ==
    /\ From(p, "update")
    /\ IF Live(loc[p].me)
       THEN clients' = [clients EXCEPT ![loc[p].me].beat = loc[p].at]
       ELSE UNCHANGED clients
    /\ Finish(p, Live(loc[p].me))
    /\ UNCHANGED <<messages, now, faults, history>>

\* enqueue_signal: add_message, for whoever the envelope names.
Add(p) ==
    /\ From(p, "add")
    /\ messages' = Append(messages, [id |-> sent + 1, from |-> loc[p].me, to |-> loc[p].to])
    /\ sent' = sent + 1
    /\ late' = IF {loc[p].me, loc[p].to} \cap gone = {} THEN late ELSE late \cup {sent + 1}
    /\ Finish(p, TRUE)
    /\ UNCHANGED <<clients, now, faults, drawn, gone, fetched, spared>>

\* Mutant: the messages are cloned and stay in the store.
DrainCopies(p) ==
    /\ From(p, "drain")
    /\ fetched' = [fetched EXCEPT ![loc[p].me] = @ \o Retain(messages, To(loc[p].me))]
    /\ Finish(p, TRUE)
    /\ UNCHANGED <<clients, messages, now, faults, drawn, gone, sent, late, spared>>

\* fetch_signals: get_messages_for_client takes them out under one lock.
Drain(p) ==
    /\ From(p, "drain")
    /\ fetched' = [fetched EXCEPT ![loc[p].me] = @ \o Retain(messages, To(loc[p].me))]
    /\ messages' = Retain(messages, AllBut(To(loc[p].me)))
    /\ Finish(p, TRUE)
    /\ UNCHANGED <<clients, now, faults, drawn, gone, sent, late, spared>>

\* The reply has left the server.
Reply(p) ==
    /\ From(p, "done")
    /\ Goto(p, "idle")
    /\ loc' = [loc EXCEPT ![p] = NoLoc]
    /\ UNCHANGED <<repo, now, faults, history>>

-----------------------------------------------------------------------------
Fault == faults < MaxFaults /\ faults' = faults + 1

\* The client disconnects and the handler's future is dropped.
Abort(p) ==
    /\ pc[p] # "idle"
    /\ Fault
    /\ Goto(p, "idle")
    /\ loc' = [loc EXCEPT ![p] = NoLoc]
    /\ spared' = IF From(p, "prune_msgs") THEN spared \cup loc[p].stale ELSE spared
    /\ UNCHANGED <<repo, now, drawn, gone, sent, fetched, late>>

\* The server process starts again in the same environment, with nothing.
Restart ==
    /\ Fault
    /\ clients' = [c \in Clients |-> NoRecord]
    /\ messages' = <<>>
    /\ pc' = [p \in Tasks |-> "idle"]
    /\ loc' = [p \in Tasks |-> NoLoc]
    /\ gone' = gone \cup {c \in Clients : Live(c)}
    /\ UNCHANGED <<now, drawn, sent, fetched, late, spared>>

Tick ==
    /\ now < MaxTime
    /\ now' = now + 1
    /\ UNCHANGED <<repo, pc, loc, faults, history>>

\* A client registers once; with the id it was given it can ask anything.
Request(p) ==
    \/ \E c \in Clients \ drawn : Start(p, "register", c, None)
    \/ \E op \in {"heartbeat", "fetch", "verify"}, c \in drawn : Start(p, op, c, None)
    \/ sent < MaxMsgs /\ \E c, d \in drawn : Start(p, "signal", c, d)

Step(p) ==
    \/ PruneClients(p) \/ PruneMessages(p)
    \/ Count(p) \/ Insert(p)
    \/ Verify(p) \/ Update(p) \/ Add(p) \/ Drain(p)

Next ==
    /\ \/ \E p \in Tasks : Request(p) \/ Step(p) \/ Reply(p) \/ Abort(p)
       \/ Restart
       \/ Tick
    /\ UNCHANGED env

Spec == Init /\ [][Next]_vars

-----------------------------------------------------------------------------
\* Type invariant: the repository and the handlers' variables have the shapes
\* their Rust types give them.
TypeOK ==
    /\ env \in Environments
    /\ clients \in [Clients -> ClientRecord]
    /\ messages \in Seq(Envelope)
    /\ now \in Nat
    /\ pc \in [Tasks -> PCs]
    /\ loc \in [Tasks -> LocRecord]
    /\ faults \in Nat
    /\ drawn \subseteq Clients
    /\ gone \subseteq drawn
    /\ sent \in Nat
    /\ fetched \in [Clients -> Seq(Envelope)]
    /\ late \subseteq Nat
    /\ spared \subseteq gone

\* The server only ever runs over a plain connection to Redis if its operator
\* turned TLS off in so many words, and only ever with a push buffer that
\* broadcast::channel accepts, whatever else the environment holds.
StartsSafely ==
    /\ env.redis_url # "rediss" => env.require_tls = "no"
    /\ config.ws_push_buffer_capacity > 0

\* A client that was pruned stays pruned: a heartbeat that was verified
\* before another request's prune is refused and does not bring it back.
PrunedStaysPruned == \A c \in gone : ~Live(c)

\* Every message is handed out at most once, to its addressee, and in the
\* order in which messages were added, whatever fetches and prunes run
\* between a handler's verify_client and its access to the messages.
FetchedOnceInOrder ==
    \A c \in Clients :
        LET inbox == fetched[c] \o Retain(messages, To(c))
        IN  \A i \in 1..Len(inbox) :
                /\ inbox[i].to = c
                /\ i > 1 => inbox[i - 1].id < inbox[i].id

\* A message from or to a pruned client is about to be removed by the task
\* that pruned the client, or was added by a handler that had verified its
\* sender before the prune or named an addressee that had gone, or was spared
\* because the pruning task was dropped between its two locks.
OrphanExcused ==
    \A i \in 1..Len(messages) :
        LET e == messages[i]
        IN  \A c \in {e.from, e.to} \cap gone :
                \/ e.id \in late
                \/ c \in spared
                \/ \E p \in Tasks : From(p, "prune_msgs") /\ c \in loc[p].stale
=============================================================================
