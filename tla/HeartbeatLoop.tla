---------------------------- MODULE HeartbeatLoop ----------------------------
(***************************************************************************)
(* The client's heartbeat loop (http_signaling_backend.dart) against the   *)
(* server's registry: each client registers once, then sends a heartbeat   *)
(* one interval after the reply to the last one, for as long as it is not  *)
(* refused.  A request that fails with an exception (a connection reset, a *)
(* server restart) is tried again after the interval.                      *)
(*                                                                         *)
(* A client's request is one task of SessionRegistry.  The clock waits for *)
(* what is due: a timer fires in its tick, and a request is answered or    *)
(* lost within Latency ticks.                                              *)
(***************************************************************************)
EXTENDS SessionRegistry

CONSTANTS
    MaxDelay,   \* the longest interval the client accepts (3600 s), in ticks
    Latency,    \* how long a request can take
    MaxLosses   \* how many heartbeats of a client can be lost in a row

ASSUME LoopAssumption ==
    MaxDelay \in Nat \ {0} /\ Latency \in Nat \ {0} /\ MaxLosses \in Nat

VARIABLE backend    \* HttpSignalingBackend, by the client id it is given

bvars == <<vars, backend>>

\* due is when the timer fires, or the time by which the request has ended;
\* disposed and zombie: dispose() was called, and called during a heartbeat.
BackendRecord == [phase: {"new", "registering", "armed", "waiting", "stopped", "failed"},
                  due: Nat, losses: 0..MaxLosses, disposed: BOOLEAN, zombie: BOOLEAN]

BInit ==
    /\ Init
    /\ backend = [c \in Clients |-> [phase |-> "new", due |-> 0, losses |-> 0,
                                     disposed |-> FALSE, zombie |-> FALSE]]

-----------------------------------------------------------------------------
\* The interval in the server's replies, clamped to 1..3600 seconds.
Interval ==
    CASE config.heartbeat_interval < 1 -> 1
      [] config.heartbeat_interval > MaxDelay -> MaxDelay
      [] OTHER -> config.heartbeat_interval

\* The session TTL outlasts the losses: what the deployment has to see to.
TTLOutlastsLosses ==
    config.session_ttl > (MaxLosses + 1) * (Interval + Latency) + Latency

Phase(c) == backend[c].phase

\* Mutant: a deadline on the wrong side of the present.
BecomeLate(c, phase, delay) ==
    backend' = [backend EXCEPT ![c].phase = phase, ![c].due = now - delay]

Become(c, phase, delay) ==
    backend' = [backend EXCEPT ![c].phase = phase, ![c].due = now + delay]

\* register(): the request leaves.
Register(p, c) ==
    /\ Phase(c) = "new"
    /\ ~backend[c].disposed
    /\ Start(p, "register", c, None)
    /\ Become(c, "registering", Latency)

\* The timer of _scheduleNextHeartbeat: heartbeat() posts the request.
Fire(p, c) ==
    /\ Phase(c) = "armed" /\ now = backend[c].due
    /\ ~backend[c].disposed
    /\ Start(p, "heartbeat", c, None)
    /\ Become(c, "waiting", Latency)

\* The closed http client throws at once, and the timer is armed again.
FireClosed(c) ==
    /\ Phase(c) = "armed" /\ now = backend[c].due
    /\ backend[c].disposed
    /\ Become(c, "armed", Interval)
    /\ UNCHANGED vars

\* Mutant: the next heartbeat is timed from a delay that has already run once.
AnsweredTwiceTheDelay(p, c) ==
    /\ Phase(c) \in {"registering", "waiting"}
    /\ loc[p].me = c /\ loc[p].op \in {"register", "heartbeat"}
    /\ Reply(p)
    /\ backend' = [backend EXCEPT ![c].phase = IF loc[p].ok THEN "armed" ELSE "stopped",
                                  ![c].due = now + 3 * Interval, ![c].losses = 0]

\* The reply: after a 200 the next heartbeat is scheduled, after anything else
\* heartbeat() gives null and none is.
Answered(p, c) ==
    /\ Phase(c) \in {"registering", "waiting"}
    /\ loc[p].me = c /\ loc[p].op \in {"register", "heartbeat"}
    /\ Reply(p)
    /\ backend' = [backend EXCEPT ![c].phase = IF loc[p].ok THEN "armed" ELSE "stopped",
                                  ![c].due = now + Interval, ![c].losses = 0]

\* The request or its reply is lost and the client's await throws: a
\* heartbeat is tried again later, register() is not.
Lost(p, c) ==
    /\ Phase(c) \in {"registering", "waiting"}
    /\ loc[p].me = c /\ loc[p].op \in {"register", "heartbeat"}
    /\ Goto(p, "idle")
    /\ loc' = [loc EXCEPT ![p] = NoLoc]
    /\ spared' = IF From(p, "prune_msgs") THEN spared \cup loc[p].stale ELSE spared
    /\ UNCHANGED <<repo, now, faults, drawn, gone, sent, fetched, late>>
    /\ IF Phase(c) = "registering"
       THEN backend' = [backend EXCEPT ![c].phase = "failed"]
       ELSE /\ backend[c].disposed \/ backend[c].losses < MaxLosses
            /\ backend' = [backend EXCEPT
                              ![c].phase = "armed", ![c].due = now + Interval,
                              ![c].losses = IF backend[c].disposed THEN @ ELSE @ + 1]

\* Mutant: the timer is not cancelled.
DisposeKeepsTimer(c) ==
    /\ ~backend[c].disposed
    /\ Phase(c) # "new"
    /\ backend' = [backend EXCEPT ![c].disposed = TRUE,
                                  ![c].zombie = Phase(c) \in {"registering", "waiting"}]
    /\ UNCHANGED vars

\* dispose(): cancels the timer and closes the http client.  A request that is
\* under way then fails, or its reply was already in.
Dispose(c) ==
    /\ ~backend[c].disposed
    /\ Phase(c) # "new"
    /\ backend' = [backend EXCEPT ![c].phase = IF @ = "armed" THEN "stopped" ELSE @,
                                  ![c].disposed = TRUE,
                                  ![c].zombie = Phase(c) \in {"registering", "waiting"}]
    /\ UNCHANGED vars

\* Other requests prune too; a fetch is one of them.
Other ==
    /\ \E p \in Tasks :
          \/ \E c \in drawn : Start(p, "fetch", c, None)
          \/ Step(p)
          \/ loc[p].op \notin {"register", "heartbeat"} /\ Reply(p)
    /\ UNCHANGED backend

InTime == \A c \in Clients :
              Phase(c) \in {"registering", "armed", "waiting"} => now < backend[c].due

BTick == InTime /\ Tick /\ UNCHANGED backend

BNext ==
    /\ \/ \E c \in Clients :
             \/ \E p \in Tasks : Register(p, c) \/ Fire(p, c) \/ Answered(p, c) \/ Lost(p, c)
             \/ FireClosed(c) \/ Dispose(c)
       \/ Other
       \/ BTick
    /\ UNCHANGED env

BSpec == BInit /\ [][BNext]_bvars

-----------------------------------------------------------------------------
\* Type invariant: phases and deadlines of the client's loop.
BackendTypeOK == backend \in [Clients -> BackendRecord]

\* A client whose heartbeats go out on time is never pruned and never refused,
\* as long as no more than MaxLosses heartbeats in a row get lost and the
\* configured TTL outlasts them.  (With SIGNALING_SESSION_TTL_SECS and
\* SIGNALING_HEARTBEAT_SECS unset or unreadable, 30 and 30, it does not.)
OnTimeStaysRegistered ==
    TTLOutlastsLosses => \A c \in Clients :
        ~backend[c].disposed =>
            /\ Phase(c) \in {"armed", "waiting"} => Live(c)
            /\ Phase(c) = "stopped" => c \notin gone

\* dispose() ends the loop, unless a request is under way at that moment: its
\* completion arms the timer again, and the closed http client keeps it going.
DisposeEndsLoop ==
    \A c \in Clients : backend[c].disposed /\ Phase(c) \notin {"stopped", "failed"} => backend[c].zombie
=============================================================================
