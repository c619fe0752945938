---------------------------- MODULE MappingStore ----------------------------
(***************************************************************************)
(* What the port-mapping API of the hub promises, independently of locks,  *)
(* sockets and crashes: a durable table of mappings, at most one per       *)
(* public socket, changed one entry at a time, and answers that agree with *)
(* the table.  Forwarding.tla is shown to implement this specification     *)
(* with state.json as the table.                                           *)
(***************************************************************************)
CONSTANTS
    Ids,            \* mapping identifiers
    Drafts,         \* mappings an administrator may ask for
    SocketOf(_),    \* the public socket a mapping listens on
    None

VARIABLES
    store,          \* [Ids -> Drafts \cup {None}]: the durable table
    reply           \* [Ids -> ...]: the last answer given about an id

Init ==
    /\ store = [id \in Ids |-> None]
    /\ reply = [id \in Ids |-> "none"]

\* A mapping enters the table before it is acknowledged, and only on a
\* socket no other mapping of the table has.
Create(id, m) ==
    /\ store[id] = None
    /\ reply[id] = "none"
    /\ \A other \in Ids : store[other] # None => SocketOf(store[other]) # SocketOf(m)
    /\ store' = [store EXCEPT ![id] = m]
    /\ UNCHANGED reply

Delete(id) ==
    /\ store[id] # None
    /\ store' = [store EXCEPT ![id] = None]
    /\ UNCHANGED reply

AckCreate(id) ==
    /\ store[id] # None
    /\ reply[id] = "none"
    /\ reply' = [reply EXCEPT ![id] = "created"]
    /\ UNCHANGED store

\* A refused mapping is not in the table, and never enters it (Create).
Refuse(id) ==
    /\ store[id] = None
    /\ reply[id] = "none"
    /\ reply' = [reply EXCEPT ![id] = "refused"]
    /\ UNCHANGED store

AckDelete(id) ==
    /\ store[id] = None
    /\ reply' = [reply EXCEPT ![id] = "deleted"]
    /\ UNCHANGED store

Next ==
    \E id \in Ids :
        \/ \E m \in Drafts : Create(id, m)
        \/ Delete(id)
        \/ AckCreate(id)
        \/ Refuse(id)
        \/ AckDelete(id)

vars == <<store, reply>>

Spec == Init /\ [][Next]_vars
=============================================================================
