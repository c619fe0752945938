--------------------------- MODULE DeviceRegistry ---------------------------
(***************************************************************************)
(* What enrolment promises, independently of requests, of the kernel's     *)
(* peers, of failing calls and of crashes: a durable registry to which a   *)
(* code admits one device, with the address the code was made for, and     *)
(* agents that hold nothing but a device of their own in that registry.    *)
(* Enrollment.tla is shown to implement this specification with the        *)
(* devices of state.json as the registry.                                  *)
(***************************************************************************)
CONSTANTS
    Agents,
    Code,           \* [code, ip]: a code, and the address it is made for or NoIP
    Device,         \* [id, key, ip, code]: id begins with the agent
    ServerIP, NoIP, None

VARIABLES
    issued,         \* the codes the administrator has handed out
    registry,       \* the devices on disk
    config          \* [Agents -> Device \cup {None}]: what an agent has stored

Init ==
    /\ issued = {}
    /\ registry = {}
    /\ config = [a \in Agents |-> None]

\* No code is handed out twice.
Issue(x) ==
    /\ \A y \in issued : y.code # x.code
    /\ issued' = issued \cup {x}
    /\ UNCHANGED <<registry, config>>

\* A device enters with a code that was handed out and admitted nobody yet,
\* with the address of that code, and takes nothing another device has.
Register(d) ==
    /\ \E x \in issued : x.code = d.code /\ x.ip \in {NoIP, d.ip}
    /\ \A e \in registry : e.code # d.code /\ e.key # d.key /\ e.ip # d.ip
    /\ d.ip # ServerIP
    /\ registry' = registry \cup {d}
    /\ UNCHANGED <<issued, config>>

\* An agent learns of a device after it was registered, and only of its own.
Enrol(a, d) ==
    /\ config[a] = None
    /\ d \in registry /\ d.id[1] = a
    /\ config' = [config EXCEPT ![a] = d]
    /\ UNCHANGED <<issued, registry>>

Next ==
    \/ \E x \in Code : Issue(x)
    \/ \E d \in Device : Register(d)
    \/ \E a \in Agents, d \in Device : Enrol(a, d)

vars == <<issued, registry, config>>

Spec == Init /\ [][Next]_vars
=============================================================================
