----------------------------- MODULE ExitPolicy -----------------------------
(***************************************************************************)
(* Exit policies of the hub (internal/server/server.go: putPolicy,         *)
(* updateDevice, dialPolicy, setActive) and the proxy entries that dial    *)
(* through them (internal/core/proxy.go and localproxy.go, and the agent's *)
(* entry, which reaches the hub with a CONNECT of its own).                *)
(*                                                                         *)
(* dialPolicy copies the policy and the exits under mu and dials without   *)
(* it, so administrators change both while a dial is under way.  Time is   *)
(* counted only against the deadline of a dial, in seconds: an exit that   *)
(* answers or refuses costs nothing, one that is silent costs the timeout  *)
(* of an attempt or what is left of the deadline.                          *)
(***************************************************************************)
EXTENDS Naturals, Sequences, FiniteSets

CONSTANTS
    Sources,        \* devices that use the proxy
    Exits,          \* devices that can be exits
    Edited,         \* bound: exits whose proxy port administrators change
    Policies,       \* policies an administrator puts
    Ports,          \* proxy ports; NoPort (0) when none is shared
    Conns,          \* concurrent proxy connections
    Entries,        \* subset of {"hub", "agent", "plain"}
    PlainTime,      \* stands for no deadline
    MaxCrashes,     \* bound on the number of crashes
    NoPort, None

AttemptTimeout == 6

\* CONNECT and SOCKS5 dials get 20 s, a CONNECT that comes from an agent is
\* given up by the agent after 10 s, plain HTTP requests have no deadline.
Deadline(entry) == CASE entry = "hub" -> 20 [] entry = "agent" -> 10 [] OTHER -> PlainTime

ASSUME ExitPolicyConstants ==
    /\ \A p \in Policies : /\ p.exits \in Seq(Exits)
                           /\ p.onFailure \in {"block", "direct"}
    /\ Entries \subseteq {"hub", "agent", "plain"}
    /\ Edited \subseteq Exits
    /\ PlainTime \in Nat /\ MaxCrashes \in Nat
    /\ NoPort \notin Ports
    /\ None \notin Policies
    /\ {"DIRECT", "BLOCKED", "FAILED", "NONE"} \cap Exits = {}

VARIABLES
    up, crashes,
    policy, port, active,               \* the state in memory
    diskPolicy, diskPort, diskActive,   \* state.json
    acked,          \* history: the last policy of a source answered with 200
    carried,        \* history: exits that carried a connection of a source
    pc,             \* [Conns -> "idle" | "trying" | "direct" | "settle"]
    dial            \* [Conns -> the variables of dialPolicy]

memory == <<policy, port, active>>
disk   == <<diskPolicy, diskPort, diskActive>>
vars   == <<up, crashes, memory, disk, acked, carried, pc, dial>>

Results == Exits \cup {"DIRECT", "BLOCKED", "FAILED", "NONE"}
Actives == Exits \cup {"DIRECT", "NONE"}

\* left is what remains of the deadline.  History: how many exits were silent,
\* whether one (or the direct dial) was starved, come to without time left, and
\* whether the policy granted a direct dial.
NoDial == [src |-> None, exits |-> <<>>, onFailure |-> "block", deadline |-> 0, left |-> 0,
           result |-> "NONE", silent |-> 0, starved |-> FALSE, granted |-> FALSE]

Dials == [src : Sources \cup {None},
          exits : Seq([exit : Exits, port : Ports \cup {NoPort}]),
          onFailure : {"block", "direct"}, deadline : Nat, left : Nat, result : Results,
          silent : Nat, starved : BOOLEAN, granted : BOOLEAN]

TypeOK ==
    /\ up \in BOOLEAN /\ crashes \in 0..MaxCrashes
    /\ policy \in [Sources -> Policies \cup {None}]
    /\ diskPolicy \in [Sources -> Policies \cup {None}]
    /\ acked \in [Sources -> Policies \cup {None}]
    /\ port \in [Exits -> Ports \cup {NoPort}]
    /\ diskPort \in [Exits -> Ports \cup {NoPort}]
    /\ active \in [Sources -> Actives]
    /\ diskActive \in [Sources -> Actives]
    /\ carried \in [Sources -> SUBSET Actives]
    /\ pc \in [Conns -> {"idle", "trying", "direct", "settle"}]
    /\ dial \in [Conns -> Dials]

Init ==
    /\ up = TRUE /\ crashes = 0
    /\ policy = [s \in Sources |-> None] /\ diskPolicy = policy
    /\ acked = policy
    /\ port \in [Exits -> Ports \cup {NoPort}] /\ diskPort = port
    /\ \A d \in Exits \ Edited : port[d] # NoPort
    /\ active = [s \in Sources |-> "NONE"] /\ diskActive = active
    /\ carried = [s \in Sources |-> {}]
    /\ pc = [c \in Conns |-> "idle"]
    /\ dial = [c \in Conns |-> NoDial]

\* core.Save writes the whole state or leaves the old file.
SaveState ==
    /\ diskPolicy' = policy'
    /\ diskPort' = port'
    /\ diskActive' = active'

(***************************************************************************)
(* The administrator; each handler is one section under mu.                *)
(***************************************************************************)
ValidPolicy(p) ==
    /\ Len(p.exits) <= 20
    /\ \A i \in 1..Len(p.exits) : port[p.exits[i]] # NoPort
    /\ \A i, j \in 1..Len(p.exits) : p.exits[i] = p.exits[j] => i = j

PutPolicyNoRollback(s, p) ==
    /\ up /\ ValidPolicy(p)
    /\ policy' = [policy EXCEPT ![s] = p]
    /\ active' = [active EXCEPT ![s] = "NONE"]
    /\ UNCHANGED port
    /\ \/ SaveState /\ acked' = [acked EXCEPT ![s] = p]
       \/ UNCHANGED <<disk, acked>>
    /\ UNCHANGED <<up, crashes, carried, pc, dial>>

PutPolicy(s, p) ==
    /\ up /\ ValidPolicy(p)
    /\ \/ /\ policy' = [policy EXCEPT ![s] = p]
          /\ active' = [active EXCEPT ![s] = "NONE"]
          /\ UNCHANGED port
          /\ SaveState
          /\ acked' = [acked EXCEPT ![s] = p]
       \/ UNCHANGED <<memory, disk, acked>>      \* not saved, 500
    /\ UNCHANGED <<up, crashes, carried, pc, dial>>

\* updateDevice may clear or change the port of an exit that policies use.
UpdateDevice(d, q) ==
    /\ up
    /\ \/ /\ port' = [port EXCEPT ![d] = q]
          /\ UNCHANGED <<policy, active>>
          /\ SaveState
       \/ UNCHANGED <<memory, disk>>
    /\ UNCHANGED <<up, crashes, acked, carried, pc, dial>>

\* probe, heartbeat and the other handlers save the whole state.
Persist ==
    /\ up
    /\ UNCHANGED memory
    /\ SaveState
    /\ UNCHANGED <<up, crashes, acked, carried, pc, dial>>

(***************************************************************************)
(* dialPolicy.                                                             *)
(***************************************************************************)
PolicyOf(s) ==
    IF policy[s] = None THEN [exits |-> <<>>, onFailure |-> "block"] ELSE policy[s]

DialBegin(c, s, entry) ==
    /\ up /\ pc[c] = "idle"
    /\ LET p == PolicyOf(s) IN
       dial' = [dial EXCEPT ![c] =
          [src |-> s,
           exits |-> [i \in 1..Len(p.exits) |-> [exit |-> p.exits[i], port |-> port[p.exits[i]]]],
           onFailure |-> p.onFailure,
           deadline |-> Deadline(entry), left |-> Deadline(entry),
           result |-> "NONE",
           silent |-> 0, starved |-> FALSE,
           granted |-> acked[s] # None /\ acked[s].onFailure = "direct"]]
    /\ pc' = [pc EXCEPT ![c] = "trying"]
    /\ UNCHANGED <<up, crashes, memory, disk, acked, carried>>

Settle(c, r) ==
    /\ pc' = [pc EXCEPT ![c] = "settle"]
    /\ dial' = [dial EXCEPT ![c].result = r]

\* The exit connects to the destination.  Without time left, or without a
\* port, an attempt cannot succeed.
AttemptSucceeds(c) ==
    /\ pc[c] = "trying" /\ dial[c].exits # <<>>
    /\ dial[c].left > 0
    /\ Head(dial[c].exits).port # NoPort
    /\ Settle(c, Head(dial[c].exits).exit)
    /\ carried' = [carried EXCEPT ![dial[c].src] = @ \cup {Head(dial[c].exits).exit}]
    /\ UNCHANGED <<up, crashes, memory, disk, acked>>

WaitWithoutTimeout(c) == dial[c].left

\* What a silent exit costs: the timeout of an attempt, within the deadline.
Wait(c) == IF dial[c].left < AttemptTimeout THEN dial[c].left ELSE AttemptTimeout

\* A dial whose next exit failed after some time, and one whose direct dial
\* failed; neither had its turn if there was no time left.
Tried(d, spent) ==
    [d EXCEPT !.exits = Tail(@), !.left = @ - spent,
              !.silent = @ + (IF spent > 0 THEN 1 ELSE 0), !.starved = @ \/ d.left = 0]
Failed(d) == [d EXCEPT !.result = "FAILED", !.starved = @ \/ d.left = 0]

\* The exit refuses at once, or stays silent.
AttemptFails(c) ==
    /\ pc[c] = "trying" /\ dial[c].exits # <<>>
    /\ \E spent \in {0, Wait(c)} :
        dial' = [dial EXCEPT ![c] = Tried(dial[c], spent)]
    /\ UNCHANGED <<up, crashes, memory, disk, acked, carried, pc>>

ExhaustedAlwaysDirect(c) ==
    /\ pc[c] = "trying" /\ dial[c].exits = <<>>
    /\ pc' = [pc EXCEPT ![c] = "direct"]
    /\ UNCHANGED <<up, crashes, memory, disk, acked, carried, dial>>

\* Every exit failed: fall back or stop.
Exhausted(c) ==
    /\ pc[c] = "trying" /\ dial[c].exits = <<>>
    /\ IF dial[c].onFailure = "direct"
       THEN pc' = [pc EXCEPT ![c] = "direct"] /\ UNCHANGED dial
       ELSE Settle(c, "BLOCKED")
    /\ UNCHANGED <<up, crashes, memory, disk, acked, carried>>

DirectSucceeds(c) ==
    /\ pc[c] = "direct" /\ dial[c].left > 0
    /\ Settle(c, "DIRECT")
    /\ carried' = [carried EXCEPT ![dial[c].src] = @ \cup {"DIRECT"}]
    /\ UNCHANGED <<up, crashes, memory, disk, acked>>

DirectFails(c) ==
    /\ pc[c] = "direct"
    /\ pc' = [pc EXCEPT ![c] = "settle"]
    /\ dial' = [dial EXCEPT ![c] = Failed(dial[c])]
    /\ UNCHANGED <<up, crashes, memory, disk, acked, carried>>

ActiveFirst(c) ==
    IF dial[c].result = "FAILED" THEN "DIRECT"
    ELSE IF dial[c].result = "BLOCKED" THEN "NONE" ELSE dial[c].result

\* What setActive is given; a failed direct dial does not call it.
ActiveAfter(c) ==
    IF dial[c].result = "FAILED" THEN active[dial[c].src]
    ELSE IF dial[c].result = "BLOCKED" THEN "NONE" ELSE dial[c].result

\* setActive in a section of its own, for the policy of that moment, and the
\* answer to the client.
SetActive(c) ==
    /\ pc[c] = "settle"
    /\ active' = IF policy[dial[c].src] = None THEN active
                 ELSE [active EXCEPT ![dial[c].src] = ActiveAfter(c)]
    /\ pc' = [pc EXCEPT ![c] = "idle"]
    /\ dial' = [dial EXCEPT ![c] = NoDial]
    /\ UNCHANGED <<up, crashes, policy, port, disk, acked, carried>>

(***************************************************************************)
(* Crash and restart.                                                      *)
(***************************************************************************)
Crash ==
    /\ up /\ crashes < MaxCrashes
    /\ up' = FALSE /\ crashes' = crashes + 1
    /\ policy' = [s \in Sources |-> None]
    /\ port' = [d \in Exits |-> NoPort]
    /\ active' = [s \in Sources |-> "NONE"]
    /\ pc' = [c \in Conns |-> "idle"]
    /\ dial' = [c \in Conns |-> NoDial]
    /\ UNCHANGED <<disk, acked, carried>>

Restart ==
    /\ ~ up
    /\ up' = TRUE
    /\ policy' = diskPolicy /\ port' = diskPort /\ active' = diskActive
    /\ UNCHANGED <<crashes, disk, acked, carried, pc, dial>>

DialStep(c) ==
    \/ AttemptSucceeds(c)
    \/ AttemptFails(c)
    \/ Exhausted(c)
    \/ DirectSucceeds(c)
    \/ DirectFails(c)
    \/ SetActive(c)

Next ==
    \/ \E s \in Sources, p \in Policies : PutPolicy(s, p)
    \/ \E d \in Edited, q \in Ports \cup {NoPort} : UpdateDevice(d, q)
    \/ Persist
    \/ \E c \in Conns, s \in Sources, entry \in Entries : DialBegin(c, s, entry)
    \/ \E c \in Conns : DialStep(c)
    \/ Crash
    \/ Restart

Spec == Init /\ [][Next]_vars

(***************************************************************************)
(* Properties.                                                             *)
(***************************************************************************)
\* Fail closed ("未配置策略时阻止代理出站", app.js 149; localproxy.go 16: "neither
\* silently falls back to direct"): a connection goes to its destination
\* directly only if, when it began, the last policy acknowledged for its source
\* said so; a policy that could not be saved, and a crash, never open it.
DirectOnlyWhenGranted ==
    \A c \in Conns : pc[c] = "direct" \/ dial[c].result = "DIRECT" => dial[c].granted

\* The policy that is in force is the acknowledged one, and a restart finds it
\* on disk.
PolicyDurable ==
    \A s \in Sources : diskPolicy[s] = acked[s] /\ (up => policy[s] = acked[s])

\* The exit the console names ("最近成功出口", app.js 151) has really carried a
\* connection of that source, also when dials end late, after the policy was
\* replaced or after a restart.
ActiveWasCarried ==
    \A s \in Sources : active[s] # "NONE" => active[s] \in carried[s]

\* An exit, or the direct fallback, goes without its turn only if exits before
\* it were silent for the whole deadline of the connection: four of them at the
\* entries of the hub, two at an agent's.  Exits that refuse, whatever their
\* number, and administrators who change the policy take no one's turn.
StarvedOnlyBySilence ==
    \A c \in Conns : dial[c].starved => AttemptTimeout * dial[c].silent >= dial[c].deadline

\* "按顺序尝试；全部失败时可阻止或直连" (README 11): a connection is given up only
\* after each of its exits, and the direct fallback if there is one, had time
\* to answer.
EveryExitHasItsTurn ==
    \A c \in Conns :
        pc[c] = "settle" /\ dial[c].result \in {"BLOCKED", "FAILED"} => ~ dial[c].starved
=============================================================================
