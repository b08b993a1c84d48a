---------------------------- MODULE MCRendezvous ----------------------------
(* Rendezvous on a small instance for TLC.                                 *)
EXTENDS Rendezvous, TLC

\* Tasks, mailbox ids and tokens are interchangeable.
Symmetry == Permutations(Requests) \cup Permutations(Mailboxes) \cup Permutations(Tokens)
=============================================================================
