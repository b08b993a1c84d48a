------------------------- MODULE HeartbeatLoopProofs -------------------------
(***************************************************************************)
(* Proofs about HeartbeatLoop, for any number of clients and server tasks, *)
(* any environment, and any bounds on the delay, the latency and the       *)
(* losses: the client's loop keeps its registration alive.                 *)
(***************************************************************************)
EXTENDS HeartbeatLoop, SessionRegistryProofs

-----------------------------------------------------------------------------
(* The inductive invariant.                                                *)

\* A registration or heartbeat under way.
Busy(p) == pc[p] # "idle" /\ loc[p].op \in {"register", "heartbeat"}

\* A client has at most one of them, and it knows of it.
RequestsOK ==
    \A p \in Tasks :
        /\ pc[p] = "idle" => loc[p].me = None
        /\ pc[p] = "update" => loc[p].op = "heartbeat"
        /\ pc[p] = "drain" => loc[p].op = "fetch"
        /\ Busy(p) => Phase(loc[p].me) =
                          IF loc[p].op = "register" THEN "registering" ELSE "waiting"
        /\ \A q \in Tasks : Busy(p) /\ Busy(q) /\ p # q => loc[p].me # loc[q].me

DrawnOK == \A c \in Clients : Phase(c) = "new" <=> c \notin drawn

\* The deadlines lie ahead, those of the requests within Latency.
OnTime ==
    \A c \in Clients :
        /\ Phase(c) \in {"registering", "armed", "waiting"} => now <= backend[c].due
        /\ Phase(c) \in {"registering", "waiting"} => backend[c].due <= now + Latency

\* A round of the loop, and how long the losses so far can have lasted.
Round == Interval + Latency
Age(c) == (backend[c].losses + 1) * Round

\* The Instant::now() that a request brings to the repository, or has brought,
\* is not older than the request.
RequestFresh(p) ==
    LET c == loc[p].me
    IN  ~backend[c].disposed =>
            /\ pc[p] \in {"insert", "update"} => backend[c].due <= loc[p].at + Latency
            /\ pc[p] = "done" => /\ loc[p].ok
                                 /\ Live(c)
                                 /\ backend[c].due <= clients[c].beat + Latency

\* The heartbeat that the registry knows of is no older than the losses allow.
ClientFresh(c) ==
    ~backend[c].disposed =>
        /\ Phase(c) # "stopped"
        /\ Phase(c) = "armed" => Live(c) /\ backend[c].due <= clients[c].beat + Age(c)
        /\ Phase(c) = "waiting" => Live(c) /\ backend[c].due <= clients[c].beat + Age(c) + Latency

Fresh == (\A p \in Tasks : Busy(p) => RequestFresh(p)) /\ (\A c \in Clients : ClientFresh(c))

LoopInv ==
    /\ RegistryInv
    /\ BackendTypeOK /\ RequestsOK /\ DrawnOK /\ OnTime
    /\ DisposeEndsLoop
    /\ TTLOutlastsLosses => Fresh

-----------------------------------------------------------------------------
(* Numbers.                                                                *)

LEMMA Rounds ==
  ASSUME NEW k \in Nat, NEW r \in Nat
  PROVE  /\ (k + 1) * r \in Nat
         /\ (k + 1) * r + r = ((k + 1) + 1) * r
         /\ (0 + 1) * r = r
OBVIOUS

LEMMA MoreRounds ==
  ASSUME NEW k \in Nat, NEW m \in Nat, k <= m, NEW r \in Nat
  PROVE  (k + 1) * r <= (m + 1) * r
<1>1. PICK d \in Nat : m = k + d
  <2>1. m - k \in Nat /\ m = k + (m - k)
    OBVIOUS
  <2>2. QED
    BY <2>1
<1>2. (m + 1) * r = (k + 1) * r + d * r
  BY <1>1
<1>3. d * r \in Nat /\ (k + 1) * r \in Nat
  OBVIOUS
<1>4. QED
  BY <1>2, <1>3

\* The configuration holds numbers, whatever the environment variables hold.
LEMMA Configured ==
  ASSUME env \in Environments
  PROVE  /\ config.session_ttl \in Nat
         /\ Interval \in Nat /\ Interval >= 1
         /\ Latency \in Nat /\ Round \in Nat /\ MaxLosses \in Nat
<1>1. /\ config.session_ttl = Number(env.session_ttl, DefaultSessionTTL)
      /\ config.heartbeat_interval = Number(env.heartbeat, DefaultHeartbeat)
  BY DEF config, FromEnv
<1>2. config.session_ttl \in Nat /\ config.heartbeat_interval \in Nat
  BY <1>1, DefaultsAssumption DEF Number
<1>3. Interval \in Nat /\ Interval >= 1
  BY <1>2, LoopAssumption DEF Interval
<1>4. QED
  BY <1>2, <1>3, LoopAssumption DEF Round

\* They do not change while the server runs.
LEMMA ConfigKept ==
  ASSUME UNCHANGED env
  PROVE  /\ Interval' = Interval /\ Round' = Round
         /\ TTLOutlastsLosses' = TTLOutlastsLosses
BY DEF Interval, Round, TTLOutlastsLosses, config

-----------------------------------------------------------------------------
(* What a step does to the loops.                                          *)

Phases == {"new", "registering", "armed", "waiting", "stopped", "failed"}

\* The other clients' loops do not move.
OthersLoop(c) == \A d \in Clients : d # c => backend'[d] = backend[d]

LEMMA BackendFields ==
  ASSUME BackendTypeOK, NEW c \in Clients
  PROVE  /\ backend[c] \in BackendRecord
         /\ backend[c].phase \in Phases /\ backend[c].due \in Nat
         /\ backend[c].losses \in Nat /\ backend[c].losses <= MaxLosses
         /\ backend[c].disposed \in BOOLEAN /\ backend[c].zombie \in BOOLEAN
BY LoopAssumption DEF BackendTypeOK, BackendRecord, Phases

LEMMA BecomeEffect ==
  ASSUME BackendTypeOK, NEW c \in Clients, NEW phase \in Phases, NEW delay \in Nat,
         now \in Nat, Become(c, phase, delay)
  PROVE  /\ BackendTypeOK'
         /\ backend'[c].phase = phase /\ backend'[c].due = now + delay
         /\ backend'[c].losses = backend[c].losses
         /\ backend'[c].disposed = backend[c].disposed
         /\ backend'[c].zombie = backend[c].zombie
         /\ OthersLoop(c)
<1>1. PICK x \in Nat : x = now + delay
  OBVIOUS
<1>2. backend' = [backend EXCEPT ![c].phase = phase, ![c].due = x]
  BY <1>1 DEF Become
<1>3. QED
  BY <1>1, <1>2 DEF BackendTypeOK, BackendRecord, Phases, OthersLoop

LEMMA AnsweredEffect ==
  ASSUME TypeOK, BackendTypeOK, NEW p \in Tasks, NEW c \in Clients, Answered(p, c)
  PROVE  /\ BackendTypeOK'
         /\ backend'[c].phase = IF loc[p].ok THEN "armed" ELSE "stopped"
         /\ backend'[c].due = now + Interval
         /\ backend'[c].losses = 0
         /\ backend'[c].disposed = backend[c].disposed
         /\ backend'[c].zombie = backend[c].zombie
         /\ OthersLoop(c)
<1>1. PICK x \in Nat : x = now + Interval
  BY Configured DEF TypeOK
<1>2. PICK s \in Phases : s = IF loc[p].ok THEN "armed" ELSE "stopped"
  BY DEF Phases
<1>3. backend' = [backend EXCEPT ![c].phase = s, ![c].due = x, ![c].losses = 0]
  BY <1>1, <1>2 DEF Answered
<1>4. 0 \in 0..MaxLosses
  BY LoopAssumption
<1>5. QED
  BY ZenonT(60), <1>1, <1>2, <1>3, <1>4 DEF BackendTypeOK, BackendRecord, Phases, OthersLoop

LEMMA LostEffect ==
  ASSUME TypeOK, BackendTypeOK, NEW p \in Tasks, NEW c \in Clients, Lost(p, c)
  PROVE  /\ BackendTypeOK'
         /\ backend'[c].disposed = backend[c].disposed
         /\ backend'[c].zombie = backend[c].zombie
         /\ OthersLoop(c)
         /\ \/ Phase(c) = "registering" /\ backend'[c].phase = "failed"
            \/ /\ Phase(c) = "waiting" /\ backend'[c].phase = "armed"
               /\ backend'[c].due = now + Interval
               /\ ~backend[c].disposed => backend'[c].losses = backend[c].losses + 1
<1>1. PICK x \in Nat : x = now + Interval
  BY Configured DEF TypeOK
<1>2. CASE Phase(c) = "registering"
  <2>1. backend' = [backend EXCEPT ![c].phase = "failed"]
    BY <1>2 DEF Lost
  <2>2. QED
    BY <1>2, <2>1 DEF BackendTypeOK, BackendRecord, OthersLoop
<1>3. CASE Phase(c) # "registering"
  <2>1. PICK n : n = IF backend[c].disposed THEN backend[c].losses ELSE backend[c].losses + 1
    OBVIOUS
  <2>2. n \in 0..MaxLosses
    BY <1>3, <2>1, BackendFields, LoopAssumption DEF Lost
  <2>3. backend' = [backend EXCEPT ![c].phase = "armed", ![c].due = x, ![c].losses = n]
    BY <1>1, <1>3, <2>1 DEF Lost
  <2>4. Phase(c) = "waiting"
    BY <1>3 DEF Lost
  <2>5. QED
    BY ZenonT(60), <1>1, <2>1, <2>2, <2>3, <2>4 DEF BackendTypeOK, BackendRecord, OthersLoop
<1>4. QED
  BY <1>2, <1>3

LEMMA DisposeEffect ==
  ASSUME BackendTypeOK, NEW c \in Clients, Dispose(c)
  PROVE  /\ BackendTypeOK'
         /\ Phase(c) # "new" /\ ~backend[c].disposed
         /\ backend'[c].phase = IF Phase(c) = "armed" THEN "stopped" ELSE Phase(c)
         /\ backend'[c].due = backend[c].due
         /\ backend'[c].disposed = TRUE
         /\ Phase(c) \in {"registering", "waiting"} => backend'[c].zombie
         /\ OthersLoop(c)
         /\ UNCHANGED vars
<1>1. PICK s : s = IF Phase(c) = "armed" THEN "stopped" ELSE Phase(c)
  OBVIOUS
<1>2. s \in Phases
  BY <1>1, BackendFields DEF Phase, Phases
<1>3. PICK z : z = (Phase(c) \in {"registering", "waiting"})
  OBVIOUS
<1>z. z \in BOOLEAN /\ (Phase(c) \in {"registering", "waiting"} => z = TRUE)
  <2>1. CASE Phase(c) \in {"registering", "waiting"}
    <3>1. (Phase(c) \in {"registering", "waiting"}) = TRUE
      BY <2>1
    <3>2. z = TRUE
      BY <1>3, <3>1
    <3>3. QED
      BY <3>2
  <2>2. CASE ~(Phase(c) \in {"registering", "waiting"})
    <3>1. (Phase(c) \in {"registering", "waiting"}) = FALSE
      BY <2>2
    <3>2. z = FALSE
      BY <1>3, <3>1
    <3>3. QED
      BY <2>2, <3>2
  <2>3. QED
    BY <2>1, <2>2
<1>4. backend' = [backend EXCEPT ![c].phase = s, ![c].disposed = TRUE, ![c].zombie = z]
  BY <1>1, <1>3 DEF Dispose, Phase
<1>5. QED
  BY <1>1, <1>2, <1>z, <1>4 DEF Dispose, BackendTypeOK, BackendRecord, Phases, OthersLoop

-----------------------------------------------------------------------------
(* What a step of the server does to the request it is about.              *)

LEMMA StepEffect ==
  ASSUME RegistryInv, NEW p \in Tasks, Step(p)
  PROVE  /\ OthersStay(p)
         /\ loc'[p].op = loc[p].op /\ loc'[p].me = loc[p].me
         /\ pc[p] \notin {"idle", "done"} /\ pc'[p] # "idle"
         /\ UNCHANGED <<now, drawn>>
         /\ pc'[p] = "insert" => loc'[p].at = now
         /\ pc'[p] = "drain" => loc[p].op = "fetch"
         /\ pc'[p] = "update" =>
               loc[p].op = "heartbeat" /\ Live(loc[p].me) /\ loc'[p].at = now
<1>t. TypeOK /\ TasksOK
  BY DEF RegistryInv
<1>1. CASE PruneClients(p)
  <2>1. UNCHANGED <<now, drawn>>
    BY <1>1 DEF PruneClients
  <2>2. QED
    BY <1>1, <1>t, <2>1, PruneClientsEffect
<1>2. CASE PruneMessages(p)
  <2>1. UNCHANGED <<now, drawn>>
    BY <1>2 DEF PruneMessages, history
  <2>2. QED
    BY <1>2, <1>t, <2>1, PruneMessagesEffect
<1>3. CASE Count(p)
  <2>1. UNCHANGED <<now, drawn>>
    BY <1>3 DEF Count, history
  <2>2. QED
    BY <1>3, <1>t, <2>1, CountEffect
<1>f. ASSUME NEW ok \in BOOLEAN, Finish(p, ok), UNCHANGED <<now, drawn>>,
             pc[p] \notin {"idle", "done"}
      PROVE  /\ OthersStay(p)
             /\ loc'[p].op = loc[p].op /\ loc'[p].me = loc[p].me
             /\ pc'[p] = "done"
  BY <1>f, <1>t, FinishEffect
<1>4. CASE Insert(p) \/ Add(p) \/ Drain(p)
  <2>1. /\ Finish(p, TRUE) /\ UNCHANGED <<now, drawn>>
        /\ pc[p] \in {"insert", "add", "drain"}
    BY <1>4 DEF Insert, Add, Drain, From, history
  <2>2. QED
    BY <1>f, <2>1
<1>l. pc[p] # "idle" => Live(loc[p].me) \in BOOLEAN
  <2>1. pc[p] # "idle" => loc[p].me \in Clients
    BY <1>t DEF TasksOK, TypeOK
  <2>2. QED
    BY <1>t, <2>1 DEF TypeOK, Live, ClientRecord
<1>5. CASE Update(p)
  <2>1. Finish(p, Live(loc[p].me)) /\ UNCHANGED <<now, drawn>> /\ pc[p] = "update"
    BY <1>5 DEF Update, From, history
  <2>2. QED
    BY <1>f, <1>l, <2>1
<1>6. CASE Verify(p)
  <2>1. UNCHANGED <<now, drawn>> /\ pc[p] = "verify"
    BY <1>6 DEF Verify, From, history
  <2>2. CASE Finish(p, Live(loc[p].me))
    BY <1>f, <1>l, <2>1, <2>2
  <2>3. CASE Goto(p, AfterVerify[loc[p].op]) /\ loc[p].op # "verify"
    <3>1. loc[p].op \in {"heartbeat", "signal", "fetch"}
      BY <1>t, <2>1, <2>3 DEF TasksOK, TypeOK, LocRecord, Ops
    <3>2. AfterVerify[loc[p].op] \in {"update", "add", "drain"}
      BY <3>1 DEF AfterVerify
    <3>3. pc'[p] # "done"
      BY <1>t, <2>3, <3>2 DEF Goto, TypeOK
    <3>4. QED
      BY <1>6, <1>t, <2>1, <3>3, VerifyEffect
  <2>4. QED
    BY <1>6, <2>2, <2>3 DEF Verify
<1>7. QED
  BY <1>1, <1>2, <1>3, <1>4, <1>5, <1>6 DEF Step

\* A request that arrives, as its client sees it.
LEMMA ArrivalEffect ==
  ASSUME RegistryInv, NEW p \in Tasks, NEW op \in {"register", "heartbeat", "fetch"},
         NEW c \in Clients, Start(p, op, c, None)
  PROVE  /\ pc[p] = "idle" /\ pc'[p] = "prune_clients"
         /\ loc'[p].op = op /\ loc'[p].me = c
         /\ OthersStay(p)
         /\ drawn' = IF op = "register" THEN drawn \cup {c} ELSE drawn
         /\ UNCHANGED <<clients, now, gone>>
<1>1. TypeOK /\ op \in Ops /\ None \in Clients \cup {None}
  BY DEF RegistryInv, Ops
<1>2. PICK d \in Clients \cup {None} : d = None
  OBVIOUS
<1>3. Start(p, op, c, d)
  BY <1>2
<1>4. /\ pc[p] = "idle" /\ pc'[p] = IF op = "verify" THEN "verify" ELSE "prune_clients"
      /\ loc'[p].op = op /\ loc'[p].me = c
      /\ OthersStay(p)
  BY <1>1, <1>3, StartEffect
<1>5. QED
  BY <1>4 DEF Start, repo

\* A reply, or a request that is lost.
LEMMA EndEffect ==
  ASSUME RegistryInv, NEW p \in Tasks, Goto(p, "idle"), loc' = [loc EXCEPT ![p] = NoLoc]
  PROVE  /\ pc'[p] = "idle" /\ loc'[p].me = None
         /\ OthersStay(p)
BY IdleEffect, NoLocType DEF RegistryInv

-----------------------------------------------------------------------------
(* The registry's invariant holds under the loops' requests.               *)


\* The request is under way.
LEMMA Underway ==
  ASSUME LoopInv, NEW p \in Tasks, NEW c \in Clients, loc[p].me = c,
         loc[p].op \in {"register", "heartbeat"}
  PROVE  /\ pc[p] # "idle" /\ Busy(p)
         /\ Phase(c) = IF loc[p].op = "register" THEN "registering" ELSE "waiting"
<1>1. pc[p] # "idle"
  BY NoClientAssumption DEF LoopInv, RequestsOK
<1>2. Busy(p)
  BY <1>1 DEF Busy
<1>3. QED
  BY <1>1, <1>2 DEF LoopInv, RequestsOK

LEMMA LoopRegistry ==
  ASSUME LoopInv, [BNext]_bvars
  PROVE  RegistryInv'
<1> USE DEF LoopInv
<1>f. faults \in Nat /\ now \in Nat
  BY DEF RegistryInv, TypeOK
<1>1. ASSUME NEW p \in Tasks, UNCHANGED env,
             \/ \E c \in Clients \ drawn : Start(p, "register", c, None)
             \/ \E c \in drawn : Start(p, "heartbeat", c, None) \/ Start(p, "fetch", c, None)
      PROVE  RegistryInv'
  <2>1. Arrives(p) /\ faults' = faults
    BY <1>1 DEF Arrives, Start
  <2>2. QED
    BY <1>1, <1>f, <2>1, TaskStepKeeps DEF TaskStep
<1>2. ASSUME NEW p \in Tasks, UNCHANGED env, Step(p) \/ Reply(p)
      PROVE  RegistryInv'
  <2>1. faults' = faults
    BY <1>2 DEF Step, PruneClients, PruneMessages, Count, Insert, Verify, Update, Add, Drain,
       Reply
  <2>2. QED
    BY <1>2, <1>f, <2>1, TaskStepKeeps DEF TaskStep
<1>3. ASSUME NEW c \in Clients, NEW p \in Tasks, UNCHANGED env, Lost(p, c)
      PROVE  RegistryInv'
  <2>1. pc[p] # "idle"
    BY <1>3, Underway DEF Lost
  <2>2. Stops(p) /\ faults' = faults
    BY <1>3, <2>1 DEF Lost, Stops
  <2>3. QED
    BY <1>3, <1>f, <2>2, TaskStepKeeps DEF TaskStep
<1>4. ASSUME UNCHANGED vars
      PROVE  RegistryInv'
  BY <1>4, <1>f, ClockStep DEF vars, history
<1>5. ASSUME UNCHANGED env, BTick
      PROVE  RegistryInv'
  <2>1. now' \in Nat /\ UNCHANGED <<clients, messages, pc, loc, faults, history>>
    BY <1>5, <1>f DEF BTick, Tick, repo
  <2>2. QED
    BY <1>5, <2>1, ClockStep
<1>6. ASSUME NEW c \in Clients, NEW p \in Tasks, UNCHANGED env, Register(p, c)
      PROVE  RegistryInv'
  <2>1. c \notin drawn /\ Start(p, "register", c, None)
    BY <1>6 DEF Register, DrawnOK
  <2>2. QED
    BY <1>1, <1>6, <2>1
<1>7. ASSUME NEW c \in Clients, NEW p \in Tasks, UNCHANGED env, Fire(p, c)
      PROVE  RegistryInv'
  <2>1. c \in drawn /\ Start(p, "heartbeat", c, None)
    BY <1>7 DEF Fire, DrawnOK
  <2>2. QED
    BY <1>1, <1>7, <2>1
<1>8. ASSUME NEW c \in Clients, NEW p \in Tasks, UNCHANGED env, Answered(p, c)
      PROVE  RegistryInv'
  BY <1>2, <1>8 DEF Answered
<1>9. ASSUME UNCHANGED env, Other
      PROVE  RegistryInv'
  BY <1>1, <1>2, <1>9 DEF Other
<1>10. QED
  BY <1>3, <1>4, <1>5, <1>6, <1>7, <1>8, <1>9 DEF BNext, bvars, FireClosed, Dispose

-----------------------------------------------------------------------------
(* The loops.                                                              *)

\* A step of a client's loop, alone or with a step of the server.
LoopStep(c) ==
    \/ \E p \in Tasks : Register(p, c) \/ Fire(p, c) \/ Answered(p, c) \/ Lost(p, c)
    \/ FireClosed(c) \/ Dispose(c)

\* What a step of c's loop does to it.
LEMMA LoopEffect ==
  ASSUME LoopInv, NEW c \in Clients, LoopStep(c)
  PROVE  /\ BackendTypeOK'
         /\ OthersLoop(c)
         /\ Phase(c) # "new" => backend'[c].phase # "new"
         /\ backend[c].disposed => backend'[c].disposed
         /\ UNCHANGED now
         /\ backend'[c].phase \in {"registering", "armed", "waiting"} => now <= backend'[c].due
         /\ backend'[c].phase \in {"registering", "waiting"} => backend'[c].due <= now + Latency
         /\ backend'[c].disposed /\ backend'[c].phase \notin {"stopped", "failed"}
               => backend'[c].zombie
<1> USE DEF LoopInv
<1>t. TypeOK /\ BackendTypeOK /\ now \in Nat
  BY DEF RegistryInv, TypeOK
<1>n. Interval \in Nat /\ Interval >= 1 /\ Latency \in Nat
  BY <1>t, Configured DEF TypeOK
<1>o. /\ Phase(c) \in {"registering", "armed", "waiting"} => now <= backend[c].due
      /\ Phase(c) \in {"registering", "waiting"} => backend[c].due <= now + Latency
  BY DEF OnTime
<1>z. backend[c].disposed /\ Phase(c) \notin {"stopped", "failed"} => backend[c].zombie
  BY DEF DisposeEndsLoop
<1>p. {"registering", "armed", "waiting"} \subseteq Phases
  BY DEF Phases
<1>1. ASSUME NEW p \in Tasks, Register(p, c) \/ Fire(p, c)
      PROVE  /\ ~backend[c].disposed /\ UNCHANGED now
             /\ \/ Phase(c) = "new" /\ Become(c, "registering", Latency)
                \/ Phase(c) = "armed" /\ Become(c, "waiting", Latency)
  BY <1>1 DEF Register, Fire, Start
<1>2. CASE \E p \in Tasks : Register(p, c) \/ Fire(p, c)
  <2>1. /\ ~backend[c].disposed /\ UNCHANGED now
        /\ \/ Phase(c) = "new" /\ Become(c, "registering", Latency)
           \/ Phase(c) = "armed" /\ Become(c, "waiting", Latency)
    BY <1>1, <1>2
  <2>2. PICK ph \in {"registering", "waiting"} : Become(c, ph, Latency)
    BY <2>1
  <2>3. ph \in Phases
    BY <1>p
  <2>4. /\ BackendTypeOK' /\ OthersLoop(c)
        /\ backend'[c].phase = ph /\ backend'[c].due = now + Latency
        /\ backend'[c].disposed = backend[c].disposed
    BY <1>t, <1>n, <2>2, <2>3, BecomeEffect
  <2>5. QED
    BY <1>n, <1>t, <2>1, <2>2, <2>4
<1>3. CASE FireClosed(c)
  <2>1. Phase(c) = "armed" /\ Become(c, "armed", Interval) /\ UNCHANGED now
    BY <1>3 DEF FireClosed, vars
  <2>2. /\ BackendTypeOK' /\ OthersLoop(c)
        /\ backend'[c].phase = "armed" /\ backend'[c].due = now + Interval
        /\ backend'[c].disposed = backend[c].disposed
        /\ backend'[c].zombie = backend[c].zombie
    BY <1>t, <1>n, <1>p, <2>1, BecomeEffect
  <2>3. QED
    BY <1>n, <1>t, <1>z, <2>1, <2>2
<1>4. ASSUME NEW p \in Tasks, Answered(p, c)
      PROVE  /\ Phase(c) \in {"registering", "waiting"} /\ UNCHANGED now
             /\ BackendTypeOK' /\ OthersLoop(c)
             /\ backend'[c].phase \in {"armed", "stopped"}
             /\ backend'[c].due = now + Interval
             /\ backend'[c].disposed = backend[c].disposed
             /\ backend'[c].zombie = backend[c].zombie
  <2>1. Phase(c) \in {"registering", "waiting"} /\ UNCHANGED now
    BY <1>4 DEF Answered, Reply
  <2>2. QED
    BY <1>4, <1>t, <2>1, AnsweredEffect
<1>5. CASE \E p \in Tasks : Answered(p, c)
  <2>1. PICK p \in Tasks : Answered(p, c)
    BY <1>5
  <2>2. /\ Phase(c) \in {"registering", "waiting"} /\ UNCHANGED now
        /\ BackendTypeOK' /\ OthersLoop(c)
        /\ backend'[c].phase \in {"armed", "stopped"}
        /\ backend'[c].due = now + Interval
        /\ backend'[c].disposed = backend[c].disposed
        /\ backend'[c].zombie = backend[c].zombie
    BY <1>4, <2>1
  <2>3. QED
    BY <1>n, <1>t, <1>z, <2>2
<1>6. CASE \E p \in Tasks : Lost(p, c)
  <2>1. PICK p \in Tasks : Lost(p, c)
    BY <1>6
  <2>2. UNCHANGED now
    BY <2>1 DEF Lost
  <2>3. /\ BackendTypeOK' /\ OthersLoop(c)
        /\ backend'[c].disposed = backend[c].disposed
        /\ backend'[c].zombie = backend[c].zombie
        /\ \/ Phase(c) = "registering" /\ backend'[c].phase = "failed"
           \/ /\ Phase(c) = "waiting" /\ backend'[c].phase = "armed"
              /\ backend'[c].due = now + Interval
    BY <1>t, <2>1, LostEffect
  <2>4. QED
    BY <1>n, <1>t, <1>z, <2>2, <2>3
<1>7. CASE Dispose(c)
  <2>1. /\ BackendTypeOK' /\ OthersLoop(c)
        /\ Phase(c) # "new"
        /\ backend'[c].phase = IF Phase(c) = "armed" THEN "stopped" ELSE Phase(c)
        /\ backend'[c].due = backend[c].due
        /\ backend'[c].disposed = TRUE
        /\ Phase(c) \in {"registering", "waiting"} => backend'[c].zombie
        /\ UNCHANGED vars
    BY <1>7, <1>t, DisposeEffect
  <2>2. Phase(c) \in {"registering", "armed", "waiting", "stopped", "failed"}
    BY <1>t, <2>1, BackendFields DEF Phase, Phases
  <2>3. UNCHANGED now
    BY <2>1 DEF vars
  <2>4. QED
    BY <1>o, <2>1, <2>2, <2>3
<1>8. QED
  BY <1>2, <1>3, <1>5, <1>6, <1>7 DEF LoopStep

\* The types, the deadlines and what dispose() leaves running.
LEMMA LoopKept ==
  ASSUME LoopInv, [BNext]_bvars
  PROVE  BackendTypeOK' /\ OnTime' /\ DisposeEndsLoop'
<1> USE DEF LoopInv
<1>n. now \in Nat /\ now' \in Nat /\ Latency \in Nat
  BY LoopRegistry, LoopAssumption DEF RegistryInv, TypeOK
<1>1. ASSUME NEW c \in Clients, LoopStep(c)
      PROVE  BackendTypeOK' /\ OnTime' /\ DisposeEndsLoop'
  <2>1. BackendTypeOK' /\ OthersLoop(c) /\ UNCHANGED now
    BY <1>1, LoopEffect
  <2>2. OnTime'
    <3>1. ASSUME NEW d \in Clients
          PROVE  /\ backend'[d].phase \in {"registering", "armed", "waiting"}
                       => now <= backend'[d].due
                 /\ backend'[d].phase \in {"registering", "waiting"}
                       => backend'[d].due <= now + Latency
      <4>1. CASE d = c
        BY <1>1, <4>1, LoopEffect
      <4>2. CASE d # c
        BY <2>1, <4>2 DEF OnTime, OthersLoop, Phase
      <4>3. QED
        BY <4>1, <4>2
    <3>2. QED
      BY <2>1, <3>1 DEF OnTime, Phase
  <2>3. DisposeEndsLoop'
    <3>1. ASSUME NEW d \in Clients, backend'[d].disposed,
                 backend'[d].phase \notin {"stopped", "failed"}
          PROVE  backend'[d].zombie
      <4>1. CASE d = c
        BY <1>1, <3>1, <4>1, LoopEffect
      <4>2. CASE d # c
        BY <2>1, <3>1, <4>2 DEF DisposeEndsLoop, OthersLoop, Phase
      <4>3. QED
        BY <4>1, <4>2
    <3>2. QED
      BY <3>1 DEF DisposeEndsLoop, Phase
  <2>4. QED
    BY <2>1, <2>2, <2>3
<1>2. ASSUME UNCHANGED <<now, backend>>
      PROVE  BackendTypeOK' /\ OnTime' /\ DisposeEndsLoop'
  BY <1>2 DEF BackendTypeOK, OnTime, DisposeEndsLoop, Phase
<1>3. CASE BTick
  <2>1. now' = now + 1 /\ UNCHANGED backend
        /\ \A c \in Clients :
              Phase(c) \in {"registering", "armed", "waiting"} => now < backend[c].due
    BY <1>3 DEF BTick, Tick, InTime
  <2>2. OnTime'
    <3>1. ASSUME NEW c \in Clients
          PROVE  /\ Phase(c) \in {"registering", "armed", "waiting"} => now + 1 <= backend[c].due
                 /\ Phase(c) \in {"registering", "waiting"} => backend[c].due <= now + 1 + Latency
      <4>1. backend[c].due \in Nat
        BY BackendFields
      <4>2. QED
        BY <1>n, <2>1, <4>1 DEF OnTime
    <3>2. QED
      BY <2>1, <3>1 DEF OnTime, Phase
  <2>3. QED
    BY <2>1, <2>2 DEF BackendTypeOK, DisposeEndsLoop, Phase
<1>4. CASE Other
  <2>1. ASSUME NEW p \in Tasks, Step(p)
        PROVE  UNCHANGED now
    BY <2>1, StepEffect
  <2>2. UNCHANGED <<now, backend>>
    BY <1>4, <2>1 DEF Other, Start, Reply
  <2>3. QED
    BY <1>2, <2>2
<1>5. QED
  BY <1>1, <1>2, <1>3, <1>4 DEF BNext, bvars, vars, LoopStep

\* The requests of the tasks that do not move.
LEMMA RequestsKept ==
  ASSUME RequestsOK, NEW p \in Tasks, OthersStay(p),
         pc'[p] = "idle" => loc'[p].me = None,
         pc'[p] = "update" => loc'[p].op = "heartbeat",
         pc'[p] = "drain" => loc'[p].op = "fetch",
         Busy(p)' => backend'[loc'[p].me].phase =
                         IF loc'[p].op = "register" THEN "registering" ELSE "waiting",
         \A q \in Tasks : q # p /\ Busy(q) =>
             /\ backend'[loc[q].me].phase = Phase(loc[q].me)
             /\ Busy(p)' => loc[q].me # loc'[p].me
  PROVE  RequestsOK'
<1>1. ASSUME NEW q \in Tasks, q # p
      PROVE  pc'[q] = pc[q] /\ loc'[q] = loc[q] /\ (Busy(q)' <=> Busy(q))
  BY <1>1 DEF OthersStay, Busy
<1>2. ASSUME NEW q \in Tasks
      PROVE  /\ pc'[q] = "idle" => loc'[q].me = None
             /\ pc'[q] = "update" => loc'[q].op = "heartbeat"
             /\ pc'[q] = "drain" => loc'[q].op = "fetch"
             /\ Busy(q)' => backend'[loc'[q].me].phase =
                                IF loc'[q].op = "register" THEN "registering" ELSE "waiting"
  <2>1. CASE q = p
    BY <2>1
  <2>2. CASE q # p
    BY <1>1, <2>2 DEF RequestsOK, Phase
  <2>3. QED
    BY <2>1, <2>2
<1>3. ASSUME NEW q \in Tasks, NEW r \in Tasks, Busy(q)', Busy(r)', q # r
      PROVE  loc'[q].me # loc'[r].me
  <2>1. CASE q # p /\ r # p
    BY <1>1, <1>3, <2>1 DEF RequestsOK
  <2>2. CASE q = p
    BY <1>1, <1>3, <2>2
  <2>3. CASE r = p
    BY <1>1, <1>3, <2>3
  <2>4. QED
    BY <2>1, <2>2, <2>3
<1>4. QED
  BY <1>2, <1>3 DEF RequestsOK, Phase

\* A client whose loop has no request under way has no busy task.
LEMMA NobodyBusy ==
  ASSUME RequestsOK, NEW c \in Clients, Phase(c) \notin {"registering", "waiting"},
         NEW q \in Tasks, Busy(q)
  PROVE  loc[q].me # c
BY DEF RequestsOK

\* A busy task's request is a client's.
LEMMA BusyClient ==
  ASSUME RegistryInv, NEW q \in Tasks, Busy(q)
  PROVE  loc[q].me \in Clients
BY DEF RegistryInv, TasksOK, TypeOK, Busy

LEMMA LoopRequests ==
  ASSUME LoopInv, [BNext]_bvars
  PROVE  RequestsOK' /\ DrawnOK'
<1> USE DEF LoopInv
<1>c. \A q \in Tasks : Busy(q) => loc[q].me \in Clients
  BY BusyClient
<1>u. ASSUME UNCHANGED <<pc, loc, drawn>>, NEW c \in Clients, OthersLoop(c),
             Phase(c) \notin {"registering", "waiting"} \/ backend'[c].phase = Phase(c),
             Phase(c) # "new", backend'[c].phase # "new"
      PROVE  RequestsOK' /\ DrawnOK'
  <2>1. \A q \in Tasks : Busy(q)' <=> Busy(q)
    BY <1>u DEF Busy
  <2>2. \A q \in Tasks : Busy(q) => backend'[loc[q].me].phase = Phase(loc[q].me)
    BY <1>c, <1>u, NobodyBusy DEF OthersLoop, Phase
  <2>3. RequestsOK'
    BY <1>u, <2>1, <2>2 DEF RequestsOK, Phase
  <2>4. DrawnOK'
    BY <1>u DEF DrawnOK, OthersLoop, Phase
  <2>5. QED
    BY <2>3, <2>4
<1>v. ASSUME UNCHANGED <<pc, loc, drawn, backend>>
      PROVE  RequestsOK' /\ DrawnOK'
  <2>1. \A q \in Tasks : Busy(q)' <=> Busy(q)
    BY <1>v DEF Busy
  <2>2. QED
    BY <1>v, <2>1 DEF RequestsOK, DrawnOK, Phase
<1>1. ASSUME NEW c \in Clients, NEW p \in Tasks, Register(p, c) \/ Fire(p, c)
      PROVE  RequestsOK' /\ DrawnOK'
  <2>1. PICK op \in {"register", "heartbeat"} :
           /\ Start(p, op, c, None)
           /\ \/ op = "register" /\ Phase(c) = "new" /\ Become(c, "registering", Latency)
              \/ op = "heartbeat" /\ Phase(c) = "armed" /\ Become(c, "waiting", Latency)
    BY <1>1 DEF Register, Fire
  <2>2. /\ pc[p] = "idle" /\ pc'[p] = "prune_clients"
        /\ loc'[p].op = op /\ loc'[p].me = c
        /\ OthersStay(p)
        /\ drawn' = IF op = "register" THEN drawn \cup {c} ELSE drawn
    BY <2>1, ArrivalEffect
  <2>3. OthersLoop(c)
        /\ backend'[c].phase = IF op = "register" THEN "registering" ELSE "waiting"
    <3>1. now \in Nat /\ Latency \in Nat
      BY LoopAssumption DEF RegistryInv, TypeOK
    <3>2. {"registering", "waiting"} \subseteq Phases
      BY DEF Phases
    <3>3. QED
      BY <2>1, <3>1, <3>2, BecomeEffect
  <2>4. \A q \in Tasks : q # p /\ Busy(q) => loc[q].me # c /\ loc[q].me \in Clients
    BY <1>c, <2>1, NobodyBusy
  <2>5. RequestsOK'
    BY <2>2, <2>3, <2>4, RequestsKept DEF OthersLoop, Phase
  <2>6. DrawnOK'
    BY <2>1, <2>2, <2>3 DEF DrawnOK, OthersLoop, Phase
  <2>7. QED
    BY <2>5, <2>6
<1>2. ASSUME NEW c \in Clients, NEW p \in Tasks, Answered(p, c) \/ Lost(p, c)
      PROVE  RequestsOK' /\ DrawnOK'
  <2>1. /\ loc[p].me = c /\ loc[p].op \in {"register", "heartbeat"}
        /\ Goto(p, "idle") /\ loc' = [loc EXCEPT ![p] = NoLoc]
        /\ UNCHANGED drawn
    BY <1>2 DEF Answered, Lost, Reply, history
  <2>2. pc'[p] = "idle" /\ loc'[p].me = None /\ OthersStay(p) /\ ~Busy(p)'
    BY <2>1, EndEffect DEF Busy
  <2>3. Busy(p) /\ Phase(c) # "new"
    BY <2>1, Underway
  <2>4. OthersLoop(c) /\ backend'[c].phase # "new"
    <3>1. LoopStep(c)
      BY <1>2 DEF LoopStep
    <3>2. QED
      BY <2>3, <3>1, LoopEffect
  <2>5. \A q \in Tasks : q # p /\ Busy(q) => loc[q].me # c /\ loc[q].me \in Clients
    BY <1>c, <2>1, <2>3 DEF RequestsOK
  <2>6. RequestsOK'
    BY <2>2, <2>4, <2>5, RequestsKept DEF OthersLoop, Phase
  <2>7. DrawnOK'
    BY <2>1, <2>3, <2>4 DEF DrawnOK, OthersLoop, Phase
  <2>8. QED
    BY <2>6, <2>7
<1>3. ASSUME NEW c \in Clients, FireClosed(c)
      PROVE  RequestsOK' /\ DrawnOK'
  <2>1. LoopStep(c) /\ Phase(c) = "armed" /\ UNCHANGED <<pc, loc, drawn>>
    BY <1>3 DEF FireClosed, LoopStep, vars
  <2>2. QED
    BY <1>u, <2>1, LoopEffect
<1>4. ASSUME NEW c \in Clients, Dispose(c)
      PROVE  RequestsOK' /\ DrawnOK'
  <2>1. /\ Phase(c) # "new" /\ OthersLoop(c)
        /\ backend'[c].phase = IF Phase(c) = "armed" THEN "stopped" ELSE Phase(c)
        /\ UNCHANGED <<pc, loc, drawn>>
    BY <1>4, DisposeEffect DEF vars
  <2>2. QED
    BY <1>u, <2>1
<1>5. ASSUME UNCHANGED backend, NEW p \in Tasks, UNCHANGED drawn, OthersStay(p),
             pc'[p] = "idle" => loc'[p].me = None,
             pc'[p] = "update" => loc'[p].op = "heartbeat",
             pc'[p] = "drain" => loc'[p].op = "fetch",
             Busy(p)' => Busy(p) /\ loc'[p].op = loc[p].op /\ loc'[p].me = loc[p].me
      PROVE  RequestsOK' /\ DrawnOK'
  <2>1. Busy(p)' => backend'[loc'[p].me].phase =
                        IF loc'[p].op = "register" THEN "registering" ELSE "waiting"
    BY <1>5 DEF RequestsOK, Phase
  <2>2. \A q \in Tasks : q # p /\ Busy(q) =>
           /\ backend'[loc[q].me].phase = Phase(loc[q].me)
           /\ Busy(p)' => loc[q].me # loc'[p].me
    BY <1>5 DEF RequestsOK, Phase
  <2>3. RequestsOK'
    BY <1>5, <2>1, <2>2, RequestsKept
  <2>4. DrawnOK'
    BY <1>5 DEF DrawnOK, Phase
  <2>5. QED
    BY <2>3, <2>4
<1>6. ASSUME UNCHANGED backend, NEW p \in Tasks, NEW c \in drawn, Start(p, "fetch", c, None)
      PROVE  RequestsOK' /\ DrawnOK'
  <2>1. c \in Clients
    BY DEF RegistryInv, TypeOK
  <2>2. pc'[p] = "prune_clients" /\ loc'[p].op = "fetch" /\ OthersStay(p) /\ UNCHANGED drawn
    BY <1>6, <2>1, ArrivalEffect
  <2>3. ~Busy(p)'
    BY <2>2 DEF Busy
  <2>4. QED
    BY <1>5, <1>6, <2>2, <2>3
<1>7. ASSUME UNCHANGED backend, NEW p \in Tasks, Step(p)
      PROVE  RequestsOK' /\ DrawnOK'
  <2>1. /\ OthersStay(p)
        /\ loc'[p].op = loc[p].op /\ loc'[p].me = loc[p].me
        /\ pc[p] \notin {"idle", "done"} /\ pc'[p] # "idle"
        /\ UNCHANGED drawn
        /\ pc'[p] = "drain" => loc[p].op = "fetch"
        /\ pc'[p] = "update" => loc[p].op = "heartbeat"
    BY <1>7, StepEffect
  <2>2. Busy(p)' => Busy(p)
    BY <2>1 DEF Busy
  <2>3. QED
    BY <1>5, <1>7, <2>1, <2>2
<1>8. ASSUME UNCHANGED backend, NEW p \in Tasks, Reply(p)
      PROVE  RequestsOK' /\ DrawnOK'
  <2>1. Goto(p, "idle") /\ loc' = [loc EXCEPT ![p] = NoLoc] /\ UNCHANGED drawn
    BY <1>8 DEF Reply, history
  <2>2. pc'[p] = "idle" /\ loc'[p].me = None /\ OthersStay(p) /\ ~Busy(p)'
    BY <2>1, EndEffect DEF Busy
  <2>3. QED
    BY <1>5, <1>8, <2>1, <2>2
<1>9. CASE Other
  BY <1>6, <1>7, <1>8, <1>9 DEF Other
<1>10. CASE BTick
  BY <1>10, <1>v DEF BTick, Tick, history
<1>11. CASE UNCHANGED bvars
  BY <1>11, <1>v DEF bvars, vars
<1>12. QED
  BY <1>1, <1>2, <1>3, <1>4, <1>9, <1>10, <1>11 DEF BNext

-----------------------------------------------------------------------------
(* The registry knows of a heartbeat that is recent enough.                *)

\* What the assumption on the deployment amounts to: losses included, the last
\* heartbeat cannot be a TTL old before the next one's deadline.
LEMMA AgeFacts ==
  ASSUME TypeOK, BackendTypeOK, NEW c \in Clients
  PROVE  /\ Age(c) \in Nat /\ Latency \in Nat /\ config.session_ttl \in Nat
         /\ TTLOutlastsLosses => Age(c) + Latency < config.session_ttl
<1>1. /\ Latency \in Nat /\ Round \in Nat /\ MaxLosses \in Nat /\ config.session_ttl \in Nat
      /\ Interval \in Nat
  BY Configured DEF TypeOK
<1>2. backend[c].losses \in Nat /\ backend[c].losses <= MaxLosses
  BY BackendFields
<1>3. PICK k \in Nat : k = backend[c].losses
  BY <1>2
<1>4. PICK r \in Nat : r = Round
  BY <1>1
<1>5. Age(c) = (k + 1) * r
  BY <1>3, <1>4 DEF Age
<1>6. (k + 1) * r \in Nat /\ (MaxLosses + 1) * r \in Nat
  BY <1>1, Rounds
<1>7. (k + 1) * r <= (MaxLosses + 1) * r
  BY <1>1, <1>2, <1>3, MoreRounds
<1>8. TTLOutlastsLosses => config.session_ttl > (MaxLosses + 1) * r + Latency
  BY <1>4 DEF TTLOutlastsLosses, Round
<1>9. QED
  BY <1>1, <1>5, <1>6, <1>7, <1>8

\* A client in its loop is not stale.
LEMMA NotStale ==
  ASSUME LoopInv, TTLOutlastsLosses, NEW c \in Clients, ~backend[c].disposed,
         Phase(c) \in {"armed", "waiting"}
  PROVE  c \notin Stale
<1>1. now \in Nat /\ clients[c].beat \in Nat /\ backend[c].due \in Nat
  BY BackendFields DEF LoopInv, RegistryInv, TypeOK, ClientRecord
<1>2. now <= backend[c].due
  BY DEF LoopInv, OnTime
<1>3. backend[c].due <= clients[c].beat + Age(c) + Latency
  <2>1. Age(c) \in Nat /\ Latency \in Nat
    BY AgeFacts DEF LoopInv, RegistryInv
  <2>2. CASE Phase(c) = "armed"
    <3>1. backend[c].due <= clients[c].beat + Age(c)
      BY <2>2 DEF LoopInv, Fresh, ClientFresh
    <3>2. QED
      BY <1>1, <2>1, <3>1
  <2>3. CASE Phase(c) = "waiting"
    BY <2>3 DEF LoopInv, Fresh, ClientFresh
  <2>4. QED
    BY <2>2, <2>3
<1>4. Age(c) \in Nat /\ Latency \in Nat /\ config.session_ttl \in Nat
      /\ Age(c) + Latency < config.session_ttl
  BY AgeFacts DEF LoopInv, RegistryInv
<1>5. ~(clients[c].beat + config.session_ttl <= now)
  BY <1>1, <1>2, <1>3, <1>4
<1>6. QED
  BY <1>5 DEF Stale

\* Nor is one whose request has just been done.
LEMMA NotStaleDone ==
  ASSUME LoopInv, TTLOutlastsLosses, NEW p \in Tasks, Busy(p), pc[p] = "done",
         NEW c \in Clients, c = loc[p].me, ~backend[c].disposed
  PROVE  c \notin Stale
<1>1. now \in Nat /\ clients[c].beat \in Nat /\ backend[c].due \in Nat
  BY BackendFields DEF LoopInv, RegistryInv, TypeOK, ClientRecord
<1>2. Phase(c) \in {"registering", "waiting"}
  BY DEF LoopInv, RequestsOK
<1>3. now <= backend[c].due
  BY <1>2 DEF LoopInv, OnTime
<1>4. backend[c].due <= clients[c].beat + Latency
  BY DEF LoopInv, Fresh, RequestFresh
<1>5. Age(c) \in Nat /\ Latency \in Nat /\ config.session_ttl \in Nat
      /\ Age(c) + Latency < config.session_ttl
  BY AgeFacts DEF LoopInv, RegistryInv
<1>6. ~(clients[c].beat + config.session_ttl <= now)
  BY <1>1, <1>3, <1>4, <1>5
<1>7. QED
  BY <1>6 DEF Stale

\* What is known of a client whose loop does not move.
LEMMA ClientFreshKept ==
  ASSUME NEW c \in Clients, ClientFresh(c), backend'[c] = backend[c], UNCHANGED env,
         ~backend[c].disposed /\ Phase(c) \in {"armed", "waiting"} => clients'[c] = clients[c]
  PROVE  ClientFresh(c)'
BY ConfigKept DEF ClientFresh, Phase, Live, Age

\* And of a request whose task does not move.
LEMMA RequestFreshKept ==
  ASSUME RegistryInv, NEW p \in Tasks, Busy(p), RequestFresh(p),
         pc'[p] = pc[p], loc'[p] = loc[p],
         ~backend[loc[p].me].disposed => backend'[loc[p].me] = backend[loc[p].me],
         backend[loc[p].me].disposed => backend'[loc[p].me].disposed,
         ~backend[loc[p].me].disposed /\ pc[p] = "done"
             => clients'[loc[p].me] = clients[loc[p].me]
  PROVE  RequestFresh(p)'
BY DEF RequestFresh, Live

\* A step of one request leaves the others and the clients in their loops as
\* fresh as they were.
LEMMA FreshStep ==
  ASSUME LoopInv, TTLOutlastsLosses, NEW p \in Tasks, Step(p), UNCHANGED <<env, backend>>
  PROVE  Fresh'
<1> USE DEF LoopInv
<1>e. /\ OthersStay(p)
      /\ loc'[p].op = loc[p].op /\ loc'[p].me = loc[p].me
      /\ pc[p] \notin {"idle", "done"} /\ pc'[p] # "idle"
      /\ UNCHANGED now
      /\ pc'[p] = "insert" => loc'[p].at = now
      /\ pc'[p] = "update" => loc[p].op = "heartbeat" /\ Live(loc[p].me) /\ loc'[p].at = now
  BY StepEffect
<1>f. /\ \A q \in Tasks : Busy(q) => RequestFresh(q)
      /\ \A c \in Clients : ClientFresh(c)
  BY DEF Fresh
<1>t. now \in Nat /\ Latency \in Nat /\ clients \in [Clients -> ClientRecord]
  BY LoopAssumption DEF RegistryInv, TypeOK
<1>c. \A q \in Tasks : Busy(q) => loc[q].me \in Clients
  BY BusyClient
\* Only the clients matter of those that the step may change.
<1>o. ASSUME NEW q \in Tasks, q # p, Busy(q)',
             ~backend[loc[q].me].disposed /\ pc[q] = "done"
                => clients'[loc[q].me] = clients[loc[q].me]
      PROVE  RequestFresh(q)'
  <2>1. pc'[q] = pc[q] /\ loc'[q] = loc[q]
    BY <1>e, <1>o DEF OthersStay
  <2>2. Busy(q) /\ RequestFresh(q)
    BY <1>f, <1>o, <2>1 DEF Busy
  <2>3. QED
    BY <1>o, <2>1, <2>2, RequestFreshKept
\* A request that has not come to its time yet, or just has.
<1>p. ASSUME pc'[p] # "done"
      PROVE  Busy(p)' => RequestFresh(p)'
  <2>1. SUFFICES ASSUME Busy(p)', ~backend[loc[p].me].disposed, pc'[p] \in {"insert", "update"}
                 PROVE  backend[loc[p].me].due <= loc'[p].at + Latency
    BY <1>e, <1>p DEF RequestFresh
  <2>2. Busy(p)
    BY <1>e, <2>1 DEF Busy
  <2>3. Phase(loc[p].me) \in {"registering", "waiting"} /\ loc[p].me \in Clients
    BY <1>c, <2>2 DEF RequestsOK
  <2>4. backend[loc[p].me].due <= now + Latency
    BY <2>3 DEF OnTime
  <2>5. loc'[p].at = now
    BY <1>e, <2>1
  <2>6. QED
    BY <2>4, <2>5
<1>u. ASSUME UNCHANGED clients, Busy(p)' => RequestFresh(p)'
      PROVE  Fresh'
  <2>1. \A c \in Clients : ClientFresh(c)'
    BY <1>f, <1>u, ClientFreshKept
  <2>2. \A q \in Tasks : Busy(q)' => RequestFresh(q)'
    BY <1>o, <1>u
  <2>3. QED
    BY <2>1, <2>2 DEF Fresh
<1>1. CASE PruneClients(p)
  <2>1. \A c \in Clients : c \notin Stale => clients'[c] = clients[c]
    BY <1>1 DEF PruneClients
  <2>2. pc'[p] # "done"
    BY <1>1, PruneClientsEffect DEF RegistryInv
  <2>3. ASSUME NEW c \in Clients
        PROVE  ClientFresh(c)'
    BY <1>f, <2>1, ClientFreshKept, NotStale
  <2>4. ASSUME NEW q \in Tasks, q # p, Busy(q)'
        PROVE  RequestFresh(q)'
    <3>1. Busy(q)
      BY <1>e, <2>4 DEF OthersStay, Busy
    <3>2. PICK c \in Clients : c = loc[q].me
      BY <1>c, <3>1
    <3>3. ~backend[c].disposed /\ pc[q] = "done" => c \notin Stale
      BY <3>1, <3>2, NotStaleDone
    <3>4. QED
      BY <1>o, <2>1, <2>4, <3>2, <3>3
  <2>5. QED
    BY <1>p, <2>2, <2>3, <2>4 DEF Fresh
<1>2. CASE Insert(p)
  <2>1. /\ pc[p] = "insert" /\ Finish(p, TRUE)
        /\ clients' = [clients EXCEPT ![loc[p].me] = [live |-> TRUE, beat |-> loc[p].at]]
    BY <1>2 DEF Insert, From
  <2>2. Busy(p) /\ loc[p].op = "register" /\ loc[p].me \in Clients
        /\ Phase(loc[p].me) = "registering"
    <3>1. loc[p].op = "register"
      BY <2>1 DEF RegistryInv, TasksOK
    <3>2. Busy(p)
      BY <2>1, <3>1 DEF Busy
    <3>3. QED
      BY <1>c, <3>1, <3>2 DEF RequestsOK
  <2>3. pc'[p] = "done" /\ loc'[p].ok = TRUE
    BY <2>1, FinishEffect DEF RegistryInv
  <2>4. clients'[loc[p].me] = [live |-> TRUE, beat |-> loc[p].at]
        /\ \A c \in Clients : c # loc[p].me => clients'[c] = clients[c]
    BY <1>t, <2>1, <2>2
  <2>5. \A c \in Clients : ClientFresh(c)'
    BY <1>f, <2>2, <2>4, ClientFreshKept
  <2>6. RequestFresh(p)'
    <3>1. ~backend[loc[p].me].disposed => backend[loc[p].me].due <= loc[p].at + Latency
      BY <1>f, <2>1, <2>2 DEF RequestFresh
    <3>2. QED
      BY <1>e, <2>3, <2>4, <3>1 DEF RequestFresh, Live
  <2>7. ASSUME NEW q \in Tasks, q # p, Busy(q)'
        PROVE  RequestFresh(q)'
    <3>1. Busy(q)
      BY <1>e, <2>7 DEF OthersStay, Busy
    <3>2. loc[q].me # loc[p].me /\ loc[q].me \in Clients
      BY <1>c, <2>2, <2>7, <3>1 DEF RequestsOK
    <3>3. QED
      BY <1>o, <2>4, <2>7, <3>2
  <2>8. QED
    BY <2>5, <2>6, <2>7 DEF Fresh
<1>3. CASE Update(p)
  <2>1. /\ pc[p] = "update" /\ Finish(p, Live(loc[p].me))
        /\ IF Live(loc[p].me)
           THEN clients' = [clients EXCEPT ![loc[p].me].beat = loc[p].at]
           ELSE UNCHANGED clients
    BY <1>3 DEF Update, From
  <2>2. Busy(p) /\ loc[p].me \in Clients /\ Phase(loc[p].me) = "waiting"
    <3>1. loc[p].op = "heartbeat"
      BY <2>1 DEF RequestsOK
    <3>2. Busy(p)
      BY <2>1, <3>1 DEF Busy
    <3>3. QED
      BY <1>c, <3>1, <3>2 DEF RequestsOK
  <2>3. PICK c \in Clients : c = loc[p].me
    BY <2>2
  <2>4. pc'[p] = "done" /\ loc'[p].ok = Live(c)
    <3>1. Live(c) \in BOOLEAN
      BY <1>t DEF Live, ClientRecord
    <3>2. PICK ok \in BOOLEAN : ok = Live(c)
      BY <3>1
    <3>3. Finish(p, ok)
      BY <2>1, <2>3, <3>2
    <3>4. pc'[p] = "done" /\ loc'[p].ok = ok
      BY <3>3, FinishEffect DEF RegistryInv
    <3>5. QED
      BY <3>2, <3>4
  <2>5. \A d \in Clients : d # c => clients'[d] = clients[d]
    BY <1>t, <2>1, <2>3
  <2>6. loc[p].at \in Nat /\ backend[c].due \in Nat
    BY BackendFields DEF RegistryInv, TypeOK, LocRecord
  <2>7. ~backend[c].disposed =>
           /\ Live(c)
           /\ backend[c].due <= loc[p].at + Latency
           /\ clients'[c].live /\ clients'[c].beat = loc[p].at
    <3>1. ~backend[c].disposed => Live(c)
      BY <1>f, <2>2, <2>3 DEF ClientFresh
    <3>2. ~backend[c].disposed => backend[c].due <= loc[p].at + Latency
      BY <1>f, <2>1, <2>2, <2>3 DEF RequestFresh
    <3>3. Live(c) => clients'[c].live /\ clients'[c].beat = loc[p].at
      BY <1>t, <2>1, <2>3 DEF Live, ClientRecord
    <3>4. QED
      BY <3>1, <3>2, <3>3
  <2>8. ClientFresh(c)'
    <3>1. Age(c) \in Nat /\ Age(c)' = Age(c)
      BY AgeFacts, ConfigKept DEF RegistryInv, Age
    <3>2. ~backend[c].disposed =>
             backend[c].due <= clients'[c].beat + Age(c) + Latency
      BY <1>t, <2>6, <2>7, <3>1
    <3>3. Phase(c)' = "waiting"
      BY <2>2, <2>3 DEF Phase
    <3>4. QED
      BY <2>7, <3>1, <3>2, <3>3 DEF ClientFresh, Live
  <2>9. ASSUME NEW d \in Clients
        PROVE  ClientFresh(d)'
    BY <1>f, <2>5, <2>8, ClientFreshKept
  <2>10. RequestFresh(p)'
    BY <1>e, <2>3, <2>4, <2>7 DEF RequestFresh, Live
  <2>11. ASSUME NEW q \in Tasks, q # p, Busy(q)'
         PROVE  RequestFresh(q)'
    <3>1. Busy(q)
      BY <1>e, <2>11 DEF OthersStay, Busy
    <3>2. loc[q].me # c /\ loc[q].me \in Clients
      BY <1>c, <2>2, <2>3, <2>11, <3>1 DEF RequestsOK
    <3>3. QED
      BY <1>o, <2>5, <2>11, <3>2
  <2>12. QED
    BY <2>9, <2>10, <2>11 DEF Fresh
<1>4. CASE Verify(p)
  <2>1. UNCHANGED clients /\ pc[p] = "verify"
    BY <1>4 DEF Verify, From, repo
  <2>2. Busy(p) /\ pc'[p] = "done" => backend[loc[p].me].disposed
    <3>1. SUFFICES ASSUME Busy(p), pc'[p] = "done", ~backend[loc[p].me].disposed
                   PROVE  FALSE
      OBVIOUS
    <3>2. loc[p].op = "heartbeat"
      BY <2>1, <3>1 DEF RegistryInv, TasksOK, Busy
    <3>3. Phase(loc[p].me) = "waiting" /\ loc[p].me \in Clients
      BY <1>c, <3>1, <3>2 DEF RequestsOK
    <3>4. Live(loc[p].me)
      BY <1>f, <3>1, <3>3 DEF ClientFresh
    <3>5. Goto(p, AfterVerify[loc[p].op])
      BY <1>4, <3>2, <3>4 DEF Verify
    <3>6. pc'[p] = "update"
      BY <3>2, <3>5 DEF Goto, AfterVerify, RegistryInv, TypeOK
    <3>7. QED
      BY <3>1, <3>6
  <2>3. Busy(p)' => RequestFresh(p)'
    <3>1. CASE pc'[p] = "done"
      <4>1. Busy(p)' => Busy(p)
        BY <1>e DEF Busy
      <4>2. QED
        BY <1>e, <2>2, <3>1, <4>1 DEF RequestFresh
    <3>2. QED
      BY <1>p, <3>1
  <2>4. QED
    BY <1>u, <2>1, <2>3
<1>5. CASE PruneMessages(p) \/ Count(p)
  <2>1. UNCHANGED clients
    BY <1>5 DEF PruneMessages, Count, repo
  <2>2. pc'[p] # "done"
    BY <1>5, PruneMessagesEffect, CountEffect DEF RegistryInv
  <2>3. QED
    BY <1>p, <1>u, <2>1, <2>2
<1>6. CASE Add(p) \/ Drain(p)
  <2>1. UNCHANGED clients /\ pc[p] \in {"add", "drain"}
    BY <1>6 DEF Add, Drain, From
  <2>2. loc[p].op \notin {"register", "heartbeat"}
    BY <2>1 DEF RegistryInv, TasksOK, RequestsOK
  <2>3. ~Busy(p)'
    BY <1>e, <2>2 DEF Busy
  <2>4. QED
    BY <1>u, <2>1, <2>3
<1>7. QED
  BY <1>1, <1>2, <1>3, <1>4, <1>5, <1>6 DEF Step

\* A step of c's loop, its request being p: the other requests and loops stay
\* as they were.
LEMMA FreshLoop ==
  ASSUME LoopInv, TTLOutlastsLosses, UNCHANGED <<env, clients>>, NEW c \in Clients, OthersLoop(c),
         backend[c].disposed => backend'[c].disposed, ClientFresh(c)',
         NEW p \in Tasks, OthersStay(p), Busy(p)' => RequestFresh(p)',
         \A q \in Tasks : q # p /\ Busy(q) /\ ~backend'[c].disposed => loc[q].me # c
  PROVE  Fresh'
<1> USE DEF LoopInv
<1>f. /\ \A q \in Tasks : Busy(q) => RequestFresh(q)
      /\ \A d \in Clients : ClientFresh(d)
  BY DEF Fresh
<1>1. ASSUME NEW d \in Clients
      PROVE  ClientFresh(d)'
  BY <1>f, ClientFreshKept DEF OthersLoop
<1>2. ASSUME NEW q \in Tasks, q # p, Busy(q)'
      PROVE  RequestFresh(q)'
  <2>1. pc'[q] = pc[q] /\ loc'[q] = loc[q] /\ Busy(q)
    BY <1>2 DEF OthersStay, Busy
  <2>2. loc[q].me \in Clients
    BY <2>1, BusyClient
  <2>3. CASE loc[q].me # c
    <3>1. backend'[loc[q].me] = backend[loc[q].me]
      BY <2>2, <2>3 DEF OthersLoop
    <3>2. QED
      BY <1>f, <2>1, <3>1, RequestFreshKept
  <2>4. CASE loc[q].me = c
    <3>1. backend'[c].disposed
      BY <1>2, <2>1, <2>4
    <3>2. QED
      BY <2>1, <2>4, <3>1 DEF RequestFresh
  <2>5. QED
    BY <2>3, <2>4
<1>3. QED
  BY <1>1, <1>2 DEF Fresh

LEMMA LoopFresh ==
  ASSUME LoopInv, TTLOutlastsLosses, [BNext]_bvars
  PROVE  Fresh'
<1> USE DEF LoopInv
<1>f. /\ \A q \in Tasks : Busy(q) => RequestFresh(q)
      /\ \A c \in Clients : ClientFresh(c)
  BY DEF Fresh
<1>t. TypeOK /\ now \in Nat /\ Latency \in Nat /\ Interval \in Nat /\ Round = Interval + Latency
  BY Configured DEF RegistryInv, TypeOK, Round
<1>n. UNCHANGED env
  BY DEF BNext, bvars, vars
<1>s. ASSUME NEW c \in Clients
      PROVE  /\ clients[c].beat \in Nat
             /\ backend[c].due \in Nat /\ backend[c].losses \in Nat
             /\ backend[c].disposed \in BOOLEAN
             /\ Age(c) \in Nat
  BY <1>t, BackendFields, AgeFacts DEF TypeOK, ClientRecord
\* Nothing that matters changes.
<1>v. ASSUME UNCHANGED <<pc, loc, clients, backend>>
      PROVE  Fresh'
  <2>1. \A c \in Clients : ClientFresh(c)'
    BY <1>f, <1>n, <1>v, ClientFreshKept
  <2>2. ASSUME NEW q \in Tasks, Busy(q)'
        PROVE  RequestFresh(q)'
    <3>1. Busy(q)
      BY <1>v, <2>2 DEF Busy
    <3>2. QED
      BY <1>f, <1>v, <3>1, RequestFreshKept
  <2>3. QED
    BY <2>1, <2>2 DEF Fresh
\* A task that is not about a heartbeat or a registration afterwards.
<1>w. ASSUME UNCHANGED <<clients, backend>>, NEW p \in Tasks, OthersStay(p), ~Busy(p)'
      PROVE  Fresh'
  <2>1. \A c \in Clients : ClientFresh(c)'
    BY <1>f, <1>n, <1>w, ClientFreshKept
  <2>2. ASSUME NEW q \in Tasks, Busy(q)'
        PROVE  RequestFresh(q)'
    <3>1. q # p /\ Busy(q) /\ pc'[q] = pc[q] /\ loc'[q] = loc[q]
      BY <1>w, <2>2 DEF Busy, OthersStay
    <3>2. QED
      BY <1>f, <1>w, <3>1, RequestFreshKept
  <2>3. QED
    BY <2>1, <2>2 DEF Fresh
<1>1. ASSUME NEW c \in Clients, NEW p \in Tasks, Register(p, c) \/ Fire(p, c)
      PROVE  Fresh'
  <2>1. PICK op \in {"register", "heartbeat"} :
           /\ Start(p, op, c, None)
           /\ ~backend[c].disposed
           /\ \/ op = "register" /\ Phase(c) = "new" /\ Become(c, "registering", Latency)
              \/ op = "heartbeat" /\ Phase(c) = "armed" /\ now = backend[c].due
                    /\ Become(c, "waiting", Latency)
    BY <1>1 DEF Register, Fire
  <2>2. pc'[p] = "prune_clients" /\ OthersStay(p) /\ UNCHANGED clients
    BY <2>1, ArrivalEffect
  <2>3. RequestFresh(p)'
    BY <2>2 DEF RequestFresh
  <2>4. /\ OthersLoop(c)
        /\ backend'[c].phase = IF op = "register" THEN "registering" ELSE "waiting"
        /\ backend'[c].due = now + Latency
        /\ backend'[c].losses = backend[c].losses
        /\ backend'[c].disposed = backend[c].disposed
    <3>1. {"registering", "waiting"} \subseteq Phases
      BY DEF Phases
    <3>2. QED
      BY <1>t, <2>1, <3>1, BecomeEffect
  <2>5. ClientFresh(c)'
    <3>1. Age(c)' = Age(c)
      BY <1>n, <2>4, ConfigKept DEF Age
    <3>2. CASE op = "register"
      BY <2>4, <3>2 DEF ClientFresh, Phase
    <3>3. CASE op = "heartbeat"
      <4>1. Live(c) /\ now <= clients[c].beat + Age(c)
        BY <1>f, <2>1, <3>3 DEF ClientFresh
      <4>2. now + Latency <= clients[c].beat + Age(c) + Latency
        BY <1>s, <1>t, <4>1
      <4>3. QED
        BY <2>2, <2>4, <3>1, <3>3, <4>1, <4>2 DEF ClientFresh, Phase, Live
    <3>4. QED
      BY <3>2, <3>3
  <2>6. \A q \in Tasks : Busy(q) => loc[q].me # c
    BY <2>1, NobodyBusy
  <2>7. QED
    BY <1>n, <2>2, <2>3, <2>4, <2>5, <2>6, FreshLoop
<1>2. ASSUME NEW c \in Clients, NEW p \in Tasks, Answered(p, c) \/ Lost(p, c)
      PROVE  Fresh'
  <2>1. /\ loc[p].me = c /\ loc[p].op \in {"register", "heartbeat"}
        /\ Goto(p, "idle") /\ loc' = [loc EXCEPT ![p] = NoLoc]
        /\ UNCHANGED clients
    BY <1>2 DEF Answered, Lost, Reply, repo
  <2>2. pc'[p] = "idle" /\ OthersStay(p) /\ ~Busy(p)'
    BY <2>1, EndEffect DEF Busy
  <2>3. Busy(p) /\ Phase(c) \in {"registering", "waiting"}
    BY <2>1, Underway
  <2>4. \A q \in Tasks : q # p /\ Busy(q) => loc[q].me # c
    BY <2>1, <2>3 DEF RequestsOK
  <2>5. now <= backend[c].due
    BY <2>3 DEF OnTime
  <2>6. ClientFresh(c)' /\ OthersLoop(c) /\ backend'[c].disposed = backend[c].disposed
    <3>1. CASE Answered(p, c)
      <4>1. /\ backend'[c].phase = IF loc[p].ok THEN "armed" ELSE "stopped"
            /\ backend'[c].due = now + Interval
            /\ backend'[c].losses = 0
            /\ backend'[c].disposed = backend[c].disposed
            /\ OthersLoop(c)
        BY <1>t, <3>1, AnsweredEffect
      <4>2. pc[p] = "done"
        BY <3>1 DEF Answered, Reply, From
      <4>3. ~backend[c].disposed => loc[p].ok /\ Live(c)
                                    /\ backend[c].due <= clients[c].beat + Latency
        BY <1>f, <2>1, <2>3, <4>2 DEF RequestFresh
      <4>4. Age(c)' = Round
        <5>1. Age(c)' = (0 + 1) * Round
          BY <1>n, <4>1, ConfigKept DEF Age
        <5>2. PICK r \in Nat : r = Round
          BY <1>t
        <5>3. (0 + 1) * r = r
          BY Rounds
        <5>4. QED
          BY <5>1, <5>2, <5>3
      <4>5. ~backend[c].disposed => now + Interval <= clients[c].beat + Round
        BY <1>s, <1>t, <2>5, <4>3
      <4>6. QED
        BY <2>1, <4>1, <4>3, <4>4, <4>5 DEF ClientFresh, Phase, Live
    <3>2. CASE Lost(p, c)
      <4>1. /\ backend'[c].disposed = backend[c].disposed
            /\ OthersLoop(c)
            /\ \/ Phase(c) = "registering" /\ backend'[c].phase = "failed"
               \/ /\ Phase(c) = "waiting" /\ backend'[c].phase = "armed"
                  /\ backend'[c].due = now + Interval
                  /\ ~backend[c].disposed => backend'[c].losses = backend[c].losses + 1
        BY <1>t, <3>2, LostEffect
      <4>2. CASE Phase(c) = "registering"
        <5>1. backend'[c].phase = "failed"
          BY <4>1, <4>2
        <5>2. QED
          BY <4>1, <5>1 DEF ClientFresh, Phase
      <4>3. CASE Phase(c) = "waiting" /\ ~backend[c].disposed
        <5>1. Live(c) /\ backend[c].due <= clients[c].beat + Age(c) + Latency
          BY <1>f, <4>3 DEF ClientFresh
        <5>2. Age(c)' = Age(c) + Round
          <6>1. PICK k \in Nat : k = backend[c].losses
            BY <1>s
          <6>2. PICK r \in Nat : r = Round
            BY <1>t
          <6>3. Age(c) = (k + 1) * r /\ Age(c)' = ((k + 1) + 1) * r
            BY <1>n, <4>1, <4>3, <6>1, <6>2, ConfigKept DEF Age
          <6>4. (k + 1) * r + r = ((k + 1) + 1) * r
            BY Rounds
          <6>5. QED
            BY <6>2, <6>3, <6>4
        <5>3. now + Interval <= clients[c].beat + (Age(c) + Round)
          BY <1>s, <1>t, <2>5, <5>1
        <5>4. backend'[c].phase = "armed" /\ backend'[c].due = now + Interval
          BY <4>1, <4>3
        <5>5. QED
          BY <2>1, <4>1, <5>1, <5>2, <5>3, <5>4 DEF ClientFresh, Phase, Live
      <4>4. CASE backend[c].disposed
        BY <4>1, <4>4 DEF ClientFresh
      <4>5. QED
        BY <2>3, <4>1, <4>2, <4>3, <4>4
    <3>3. QED
      BY <1>2, <3>1, <3>2
  <2>7. QED
    BY <1>n, <2>1, <2>2, <2>4, <2>6, FreshLoop
\* The loops of a disposed backend.
<1>3. ASSUME NEW c \in Clients, FireClosed(c) \/ Dispose(c)
      PROVE  Fresh'
  <2>1. UNCHANGED <<pc, loc, clients>>
    BY <1>3 DEF FireClosed, Dispose, vars
  <2>2. OthersLoop(c) /\ backend'[c].disposed
    <3>1. CASE FireClosed(c)
      <4>1. backend[c].disposed /\ LoopStep(c)
        BY <3>1 DEF FireClosed, LoopStep
      <4>2. QED
        BY <4>1, LoopEffect
    <3>2. CASE Dispose(c)
      BY <3>2, DisposeEffect
    <3>3. QED
      BY <1>3, <3>1, <3>2
  <2>3. ClientFresh(c)'
    BY <2>2 DEF ClientFresh
  <2>4. \A d \in Clients : ClientFresh(d)'
    BY <1>f, <1>n, <2>1, <2>2, <2>3, ClientFreshKept DEF OthersLoop
  <2>5. ASSUME NEW q \in Tasks, Busy(q)'
        PROVE  RequestFresh(q)'
    <3>1. Busy(q) /\ pc'[q] = pc[q] /\ loc'[q] = loc[q]
      BY <2>1, <2>5 DEF Busy
    <3>2. loc[q].me \in Clients
      BY <3>1, BusyClient
    <3>3. CASE loc[q].me = c
      BY <2>2, <3>1, <3>3 DEF RequestFresh
    <3>4. CASE loc[q].me # c
      <4>1. backend'[loc[q].me] = backend[loc[q].me]
        BY <2>2, <3>2, <3>4 DEF OthersLoop
      <4>2. QED
        BY <1>f, <2>1, <3>1, <4>1, RequestFreshKept
    <3>5. QED
      BY <3>3, <3>4
  <2>6. QED
    BY <2>4, <2>5 DEF Fresh
<1>4. CASE Other
  <2>1. PICK p \in Tasks :
           \/ \E c \in drawn : Start(p, "fetch", c, None)
           \/ Step(p)
           \/ Reply(p)
    BY <1>4 DEF Other
  <2>2. UNCHANGED backend
    BY <1>4 DEF Other
  <2>3. CASE Step(p)
    BY <1>n, <2>2, <2>3, FreshStep
  <2>4. CASE \E c \in drawn : Start(p, "fetch", c, None)
    <3>1. PICK c \in Clients : Start(p, "fetch", c, None)
      BY <1>t, <2>4 DEF TypeOK
    <3>2. loc'[p].op = "fetch" /\ OthersStay(p) /\ UNCHANGED clients
      BY <3>1, ArrivalEffect
    <3>3. ~Busy(p)'
      BY <3>2 DEF Busy
    <3>4. QED
      BY <1>w, <2>2, <3>2, <3>3
  <2>5. CASE Reply(p)
    <3>1. Goto(p, "idle") /\ loc' = [loc EXCEPT ![p] = NoLoc] /\ UNCHANGED clients
      BY <2>5 DEF Reply, repo
    <3>2. OthersStay(p) /\ ~Busy(p)'
      BY <3>1, EndEffect DEF Busy
    <3>3. QED
      BY <1>w, <2>2, <3>1, <3>2
  <2>6. QED
    BY <2>1, <2>3, <2>4, <2>5
<1>5. CASE BTick
  BY <1>5, <1>v DEF BTick, Tick, repo
<1>6. CASE UNCHANGED bvars
  BY <1>6, <1>v DEF bvars, vars
<1>7. QED
  BY <1>1, <1>2, <1>3, <1>4, <1>5, <1>6 DEF BNext

-----------------------------------------------------------------------------
(* Theorems.                                                               *)

LEMMA LoopInit == BInit => LoopInv
<1> SUFFICES ASSUME BInit
             PROVE  LoopInv
  OBVIOUS
<1>1. RegistryInv
  BY RegistryInit DEF BInit
<1>2. /\ pc = [p \in Tasks |-> "idle"] /\ loc = [p \in Tasks |-> NoLoc]
      /\ drawn = {}
      /\ backend = [c \in Clients |-> [phase |-> "new", due |-> 0, losses |-> 0,
                                       disposed |-> FALSE, zombie |-> FALSE]]
  BY DEF BInit, Init
<1>3. BackendTypeOK
  BY <1>2, LoopAssumption DEF BackendTypeOK, BackendRecord
<1>4. RequestsOK
  BY <1>2 DEF RequestsOK, Busy, NoLoc
<1>5. DrawnOK /\ OnTime /\ DisposeEndsLoop
  BY <1>2 DEF DrawnOK, OnTime, DisposeEndsLoop, Phase
<1>6. Fresh
  BY <1>2 DEF Fresh, Busy, ClientFresh, Phase
<1>7. QED
  BY <1>1, <1>3, <1>4, <1>5, <1>6 DEF LoopInv

LEMMA LoopKeeps ==
  ASSUME LoopInv, [BNext]_bvars
  PROVE  LoopInv'
<1>1. UNCHANGED env
  BY DEF BNext, bvars, vars
<1>2. TTLOutlastsLosses' => TTLOutlastsLosses
  BY <1>1, ConfigKept
<1>3. QED
  BY <1>2, LoopRegistry, LoopKept, LoopRequests, LoopFresh DEF LoopInv

THEOREM LoopInductive == BSpec => []LoopInv
<1>1. LoopInv /\ [BNext]_bvars => LoopInv'
  BY LoopKeeps
<1>2. QED
  BY <1>1, LoopInit, PTL DEF BSpec

\* The loop's phases, deadlines and counts keep their types: in particular no
\* more heartbeats of a client are lost in a row than the losses allowed for.
THEOREM LoopTypes == BSpec => []BackendTypeOK
<1>1. LoopInv => BackendTypeOK
  BY DEF LoopInv
<1>2. QED
  BY <1>1, LoopInductive, PTL

\* A client whose heartbeats go out on time is never pruned and never refused,
\* if the configured TTL outlasts the losses: for every number of clients and
\* requests, and every interval, latency and number of losses.
THEOREM LoopStaysRegistered == BSpec => []OnTimeStaysRegistered
<1>1. LoopInv => OnTimeStaysRegistered
  BY DEF LoopInv, OnTimeStaysRegistered, Fresh, ClientFresh
<1>2. QED
  BY <1>1, LoopInductive, PTL

\* dispose() ends the loop for good, unless it came during a request.
THEOREM DisposedLoopEnds == BSpec => []DisposeEndsLoop
<1>1. LoopInv => DisposeEndsLoop
  BY DEF LoopInv
<1>2. QED
  BY <1>1, LoopInductive, PTL
=============================================================================
