-------------------------- MODULE MCSessionRegistry --------------------------
(* SessionRegistry on a small instance for TLC.                            *)
EXTENDS SessionRegistry, TLC

Symmetry == Permutations(Tasks) \cup Permutations(Clients)

\* The defaults without TLS, a TTL of 0 (which parses) with TLS, and two
\* environments in which the server does not start.
MCEnvironments ==
    {[session_ttl |-> Unset, heartbeat |-> Unset, capacity |-> 0,
      require_tls |-> "no", redis_url |-> Unset],
     [session_ttl |-> 0, heartbeat |-> Garbage, capacity |-> Garbage,
      require_tls |-> Garbage, redis_url |-> "rediss"],
     [session_ttl |-> Garbage, heartbeat |-> 1, capacity |-> 2,
      require_tls |-> Garbage, redis_url |-> "redis"],
     [session_ttl |-> 1, heartbeat |-> 1, capacity |-> 2,
      require_tls |-> Unset, redis_url |-> Unset]}
=============================================================================
