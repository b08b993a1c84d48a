--------------------------- MODULE MCHeartbeatLoop ---------------------------
(* HeartbeatLoop on a small instance for TLC.                              *)
EXTENDS HeartbeatLoop, TLC

Symmetry == Permutations(Tasks) \cup Permutations(Clients)

\* A TTL of six intervals, as in a deployment, with a configured interval of 0,
\* which the client takes for 1.
MCEnvironments ==
    {[session_ttl |-> 6, heartbeat |-> 0, capacity |-> Unset,
      require_tls |-> "no", redis_url |-> "redis"]}
=============================================================================
