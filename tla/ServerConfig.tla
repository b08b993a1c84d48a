----------------------------- MODULE ServerConfig -----------------------------
(***************************************************************************)
(* The signalling server's configuration (config.rs) and the check it has  *)
(* to pass before the server starts (run_server): what becomes of the      *)
(* environment variables that the registry, the push hub and the link to   *)
(* Redis depend on.  The TTLs of the rendezvous are read like session_ttl; *)
(* they are constants of Rendezvous.  Addresses and names are left out.    *)
(***************************************************************************)
EXTENDS Naturals

CONSTANTS
    DefaultSessionTTL,   \* DEFAULT_SESSION_TTL_SECS, in ticks
    DefaultHeartbeat,    \* DEFAULT_HEARTBEAT_INTERVAL_SECS, in ticks
    DefaultCapacity,     \* DEFAULT_WS_PUSH_BUFFER_CAPACITY
    Unset,               \* a variable that is not set
    Garbage,             \* a value that does not parse
    Environments         \* bound: the environments the server is started in

RawNumber == Nat \cup {Unset, Garbage}
RawFlag == {"yes", "no", Unset, Garbage}

ASSUME DefaultsAssumption ==
    /\ {DefaultSessionTTL, DefaultHeartbeat, DefaultCapacity} \subseteq Nat \ {0}
    /\ {Unset, Garbage} \cap Nat = {}
ASSUME EnvironmentsAssumption ==
    Environments \subseteq [session_ttl: RawNumber, heartbeat: RawNumber, capacity: RawNumber,
                            require_tls: RawFlag, redis_url: {"rediss", "redis", Unset}]

VARIABLE env    \* the environment the process was started in

\* raw.parse().ok() ... unwrap_or(default).
Number(raw, default) == IF raw \in Nat THEN raw ELSE default

\* Mutant: whatever is not a clear yes counts as no.
FlagOnlyYes(raw, default) == raw = "yes"

\* "1", "true", "yes" and "0", "false", "no"; anything else is the default.
Flag(raw, default) ==
    CASE raw = "yes" -> TRUE
      [] raw = "no" -> FALSE
      [] OTHER -> default

\* The push buffer: 0 is filtered out like what does not parse.
Capacity(raw) == IF Number(raw, 0) > 0 THEN Number(raw, 0) ELSE DefaultCapacity

FromEnv(e) ==
    [session_ttl |-> Number(e.session_ttl, DefaultSessionTTL),
     heartbeat_interval |-> Number(e.heartbeat, DefaultHeartbeat),
     redis_require_tls |-> Flag(e.require_tls, TRUE),
     ws_push_buffer_capacity |-> Capacity(e.capacity)]

\* run_server: bails unless the URL (by default a plain one) is rediss://.
Serves(e) == FromEnv(e).redis_require_tls => e.redis_url = "rediss"

config == FromEnv(env)

EnvInit == env \in Environments /\ Serves(env)
=============================================================================
