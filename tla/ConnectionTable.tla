--------------------------- MODULE ConnectionTable ---------------------------
(***************************************************************************)
(* The bridge's table of connections (mobile-bridge/src/api/transfer.rs):  *)
(* CONNECTIONS, one map per machine behind a tokio Mutex, and the calls    *)
(* that spawn a task that locks it.  start_file_transfer and               *)
(* start_file_receive keep the guard for as long as their transfer runs    *)
(* (NativeTransfer says how); the other tasks hold it for one step.        *)
(*                                                                         *)
(* One connection per machine and its "file_transfer" channel are          *)
(* modelled.  Tasks are spawned on a runtime of many threads, so those     *)
(* that wait for the lock get it in any order.                             *)
(***************************************************************************)
EXTENDS Naturals, FiniteSets

CONSTANTS
    Sends,         \* calls of start_file_transfer
    Receives,      \* calls of start_file_receive
    Machines,      \* the two ends of the connection
    None,          \* no call
    MaxRegister    \* bound: register_connection calls on a machine

Calls == Sends \cup Receives

ASSUME TableAssumption ==
    /\ None \notin Calls /\ Sends \cap Receives = {}
    /\ MaxRegister \in Nat

VARIABLES
    registered,   \* how often the machine's handle has been inserted
    channel,      \* whether the handle in the table has the data channel
    adding,       \* add_data_channel has returned and its task has not run
    owner,        \* the call whose task holds the CONNECTIONS guard
    at,           \* the machine of each call
    pc            \* where each call's task is

table == <<registered, channel, adding>>
tvars == <<registered, channel, adding, owner, at, pc>>

PCs == {"new", "spawned", "begin", "sent", "accept", "join_reader", "join_writer",
        "receive", "ok", "error", "not_found"}
Over == {"ok", "error", "not_found"}

TableInit ==
    /\ registered = [m \in Machines |-> 0]
    /\ channel = [m \in Machines |-> FALSE]
    /\ adding = [m \in Machines |-> FALSE]
    /\ owner = [m \in Machines |-> None]
    /\ at \in [Calls -> Machines]
    /\ pc = [c \in Calls |-> "new"]

Goto(c, label) == pc' = [pc EXCEPT ![c] = label]

\* register_connection: the new handle has no channels.
RegisterConnection(m) ==
    /\ registered[m] < MaxRegister
    /\ owner[m] = None
    /\ registered' = [registered EXCEPT ![m] = @ + 1]
    /\ channel' = [channel EXCEPT ![m] = FALSE]
    /\ UNCHANGED <<adding, owner, at, pc>>

\* add_data_channel spawns a task and returns Ok ...
AddDataChannel(m) ==
    /\ ~adding[m] /\ ~channel[m]
    /\ adding' = [adding EXCEPT ![m] = TRUE]
    /\ UNCHANGED <<registered, channel, owner, at, pc>>

\* ... which inserts the channel if the connection is there by then.
InsertChannel(m) ==
    /\ adding[m] /\ owner[m] = None
    /\ adding' = [adding EXCEPT ![m] = FALSE]
    /\ channel' = [channel EXCEPT ![m] = registered[m] > 0]
    /\ UNCHANGED <<registered, owner, at, pc>>

\* start_file_transfer and start_file_receive spawn a task and return Ok.
StartCall(c) ==
    /\ pc[c] = "new"
    /\ Goto(c, "spawned")
    /\ UNCHANGED <<table, owner, at>>

\* The task has the guard; without the channel in the table it is over.
LockTable(c) ==
    /\ pc[c] = "spawned" /\ owner[at[c]] = None
    /\ IF registered[at[c]] > 0 /\ channel[at[c]]
       THEN owner' = [owner EXCEPT ![at[c]] = c] /\ Goto(c, "begin")
       ELSE Goto(c, "not_found") /\ UNCHANGED owner
    /\ UNCHANGED <<table, at>>

\* The transfer's future is ready, and the guard is dropped.
EndCall(c, outcome) ==
    /\ Goto(c, outcome)
    /\ owner' = [owner EXCEPT ![at[c]] = None]
    /\ UNCHANGED <<table, at>>

TableStep ==
    \/ \E m \in Machines : RegisterConnection(m) \/ AddDataChannel(m) \/ InsertChannel(m)
    \/ \E c \in Calls : StartCall(c) \/ LockTable(c)
=============================================================================
