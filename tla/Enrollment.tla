----------------------------- MODULE Enrollment -----------------------------
(***************************************************************************)
(* Enrolment of devices: the one-time codes and the device registry of the *)
(* hub (internal/server/server.go: createCode, join, reconcilePeers, New), *)
(* the join operation of the Windows agents (internal/agent/agent.go), the *)
(* HTTPS request between them, and the WireGuard peer table of the hub's   *)
(* kernel, which outlives the hub's process but not a reboot.              *)
(*                                                                         *)
(* The hub's join holds mu from its first check to its answer, so joins    *)
(* exclude each other and the other handlers; reconcilePeers runs wg       *)
(* without mu and interleaves with a join, and a crash can fall between    *)
(* any two of its steps.                                                   *)
(***************************************************************************)
EXTENDS Naturals, Sequences, FiniteSets, FiniteSetsExt

CONSTANTS
    Agents,         \* Windows agents
    Adopters,       \* those that take over an existing tunnel ("adopt")
    TunnelKey,      \* [Adopters -> Keys]: public key of that tunnel
    Keys,           \* WireGuard public keys
    Codes,          \* values core.Token can return for a code
    Hosts,          \* assignable addresses of the private network
    ServerIP,       \* the hub's own address
    HandedTo,       \* [Agents -> SUBSET (Hosts \cup {NoIP})]: the address in
                    \* the codes the administrator hands to an agent
    PrePeers,       \* [Keys -> Seq(Hosts)]: allowed-ips of the peers of wg0.conf
    MaxCodes,       \* 100 in the code
    MaxAttempts,    \* bound: joins an agent tries
    MaxFaults,      \* bound: crashes, reboots, failing saves and wg calls
    NoIP, None

ASSUME EnrollmentConstants ==
    /\ Adopters \subseteq Agents
    /\ TunnelKey \in [Adopters -> Keys]
    /\ Hosts \subseteq Nat /\ IsFiniteSet(Hosts)
    /\ ServerIP \in Nat
    /\ NoIP \notin Hosts \cup {ServerIP}
    /\ PrePeers \in [Keys -> Seq(Hosts)]
    /\ \A k, l \in Keys : \A i \in DOMAIN PrePeers[k], j \in DOMAIN PrePeers[l] :
          PrePeers[k][i] = PrePeers[l][j] => k = l /\ i = j
    /\ HandedTo \in [Agents -> SUBSET ((Hosts \ {ServerIP}) \cup {NoIP})]
    /\ MaxCodes \in Nat /\ MaxAttempts \in Nat /\ MaxFaults \in Nat

Request == [agent : Agents, n : 1..MaxAttempts, key : Keys, code : Codes]
\* The token of the request stands for the random ID and Token of the device.
Device  == [id : Agents \X (1..MaxAttempts), key : Keys, ip : Hosts, code : Codes]
Code    == [code : Codes, ip : Hosts \cup {NoIP}]
Joining == [req : Request, ip : Hosts, adopted : BOOLEAN, step : {"wg", "save", "undo"}]

ASSUME NoneAssumption == None \notin Joining \cup Device

VARIABLES
    up, faults,
    codes,          \* s.codes
    issued,         \* history: every code that was created
    devices,        \* s.state.Devices without the hub itself
    disk,           \* Devices of state.json
    joining,        \* the join that holds mu, or None
    allowed,        \* wg show allowed-ips: [Keys -> Seq(Hosts)]
    recon,          \* reconcilePeers: "idle", "show" or "set"
    reconDevices, reconSeen,
    requests,       \* join requests on their way to the hub
    replies,        \* answers on their way to an agent that waits
    pc, attempt,    \* the agents: "new", "waiting" or "joined"
    config,         \* agent config: the device it holds, or None
    usedKeys,       \* history: keys that were generated or read
    interrupted     \* history: keys whose join a crash or a failing wg cut off

hub    == <<codes, issued, devices, disk, joining>>
wg     == <<allowed, recon, reconDevices, reconSeen>>
agents == <<pc, attempt, config, usedKeys>>
vars   == <<up, faults, hub, wg, requests, replies, agents, interrupted>>

TypeOK ==
    /\ up \in BOOLEAN
    /\ faults \in 0..MaxFaults
    /\ codes \subseteq Code /\ issued \subseteq Code
    /\ devices \subseteq Device /\ disk \subseteq Device
    /\ joining \in Joining \cup {None}
    /\ allowed \in [Keys -> Seq(Hosts)]
    /\ recon \in {"idle", "show", "set"}
    /\ reconDevices \subseteq Device
    /\ reconSeen \in [Keys -> Seq(Hosts)]
    /\ requests \subseteq Request
    /\ replies \subseteq [agent : Agents, n : 1..MaxAttempts, device : Device \cup {None}]
    /\ pc \in [Agents -> {"new", "waiting", "joined"}]
    /\ attempt \in [Agents -> 0..MaxAttempts]
    /\ config \in [Agents -> Device \cup {None}]
    /\ usedKeys \subseteq Keys
    /\ interrupted \subseteq Keys

Init ==
    /\ up = TRUE
    /\ faults = 0
    /\ codes = {} /\ issued = {}
    /\ devices = {} /\ disk = {}
    /\ joining = None
    /\ allowed = PrePeers
    /\ recon = "idle"
    /\ reconDevices = {}
    /\ reconSeen = [k \in Keys |-> <<>>]
    /\ requests = {} /\ replies = {}
    /\ pc = [a \in Agents |-> "new"]
    /\ attempt = [a \in Agents |-> 0]
    /\ config = [a \in Agents |-> None]
    /\ usedKeys = {k \in Keys : PrePeers[k] # <<>>}
    /\ interrupted = {}

Fault == faults < MaxFaults /\ faults' = faults + 1

(***************************************************************************)
(* WireGuard (external).  An address belongs to one peer: giving it to a   *)
(* peer takes it from the others, and "allowed-ips" replaces what the peer *)
(* had.  A peer without addresses is as good as no peer.                   *)
(***************************************************************************)
Without(s, ip) ==
    LET at == {i \in DOMAIN s : s[i] = ip}
        n  == CHOOSE i \in at : TRUE IN
    IF at = {} THEN s
    ELSE [i \in 1..(Len(s) - 1) |-> IF i < n THEN s[i] ELSE s[i + 1]]
WgSet(k, ip) == [x \in Keys |-> IF x = k THEN <<ip>> ELSE Without(allowed[x], ip)]
WgRemove(k) == [allowed EXCEPT ![k] = <<>>]

\* The addresses of a peer, and what join and reconcilePeers look at: the
\* first one, field 1 of the peer's line in the output of wg.
Addresses(table, k) == {table[k][i] : i \in DOMAIN table[k]}
HeldBy(table, ip) == {k \in Keys : table[k] # <<>> /\ Head(table[k]) = ip}

(***************************************************************************)
(* createCode and the passing of ten minutes.  createCode drops expired    *)
(* codes before it counts, and join treats an expired code as none, so an  *)
(* expired code is one that is gone.                                       *)
(***************************************************************************)
CreateCode(c, ip) ==
    /\ up /\ joining = None
    /\ \A x \in issued : x.code # c
    /\ Cardinality(codes) < MaxCodes
    /\ codes' = codes \cup {[code |-> c, ip |-> ip]}
    /\ issued' = issued \cup {[code |-> c, ip |-> ip]}
    /\ UNCHANGED <<up, faults, devices, disk, joining, wg, requests, replies, agents,
                   interrupted>>

ExpireCode(x) ==
    /\ x \in codes
    /\ codes' = codes \ {x}
    /\ UNCHANGED <<up, faults, issued, devices, disk, joining, wg, requests, replies,
                   agents, interrupted>>

(***************************************************************************)
(* The agent's join (its op lock admits one at a time).                    *)
(***************************************************************************)
\* adopt reads the key of the tunnel, otherwise a key pair is generated.
KeysFor(a) == IF a \in Adopters THEN {TunnelKey[a]} ELSE Keys \ usedKeys

AgentSend(a, x, k) ==
    /\ pc[a] = "new" /\ config[a] = None
    /\ attempt[a] < MaxAttempts
    /\ x \in issued /\ x.ip \in HandedTo[a]
    /\ k \in KeysFor(a)
    /\ usedKeys' = usedKeys \cup {k}
    /\ attempt' = [attempt EXCEPT ![a] = @ + 1]
    /\ requests' = requests \cup
          {[agent |-> a, n |-> attempt[a] + 1, key |-> k, code |-> x.code]}
    /\ pc' = [pc EXCEPT ![a] = "waiting"]
    /\ UNCHANGED <<up, faults, hub, wg, replies, config, interrupted>>

\* The 8 s of the client are over or the connection breaks: the request may
\* already be lost, may still reach the hub, or the answer is lost.
AgentGivesUp(a) ==
    /\ pc[a] = "waiting"
    /\ pc' = [pc EXCEPT ![a] = "new"]
    /\ replies' = {m \in replies : m.agent # a}
    /\ \/ requests' = {m \in requests : m.agent # a}
       \/ UNCHANGED requests
    /\ UNCHANGED <<up, faults, hub, wg, attempt, config, usedKeys, interrupted>>

\* core.Save may fail: then the agent stays as it was.
AgentReceives(a, m) ==
    /\ pc[a] = "waiting"
    /\ m \in replies /\ m.agent = a
    /\ replies' = replies \ {m}
    /\ \/ /\ m.device # None
          /\ config' = [config EXCEPT ![a] = m.device]
          /\ pc' = [pc EXCEPT ![a] = "joined"]
          /\ UNCHANGED faults
       \/ /\ m.device # None /\ Fault
          /\ pc' = [pc EXCEPT ![a] = "new"]
          /\ UNCHANGED config
       \/ /\ m.device = None
          /\ pc' = [pc EXCEPT ![a] = "new"]
          /\ UNCHANGED <<config, faults>>
    /\ UNCHANGED <<up, hub, wg, requests, attempt, usedKeys, interrupted>>

(***************************************************************************)
(* The hub's join.                                                         *)
(***************************************************************************)
\* The answer reaches the agent only if it still waits for this request.
Answer(r, d) ==
    replies' = IF pc[r.agent] = "waiting" /\ attempt[r.agent] = r.n
               THEN replies \cup {[agent |-> r.agent, n |-> r.n, device |-> d]}
               ELSE replies

\* The code as join finds it; NoCode is answered 403.
LiveCode(r) == {x \in codes : x.code = r.code}

\* 409: the key, or the address of the code, is already a device's.
AlreadyRegistered(r, x) ==
    \E d \in devices : d.key = r.key \/ (x.ip # NoIP /\ d.ip = x.ip)

AddressForTaken(x) ==
    IF x.ip # NoIP THEN x.ip
    ELSE LET free == {ip \in Hosts : /\ ip # ServerIP
                                     /\ \A k \in Keys : ip \notin Addresses(allowed, k)}
         IN  IF free = {} THEN NoIP ELSE Min(free)

\* The address of the code, or the first that no peer and no device has.
AddressFor(x) ==
    IF x.ip # NoIP THEN x.ip
    ELSE LET free == {ip \in Hosts : /\ ip # ServerIP
                                     /\ \A k \in Keys : ip \notin Addresses(allowed, k)
                                     /\ \A d \in devices : d.ip # ip}
         IN  IF free = {} THEN NoIP ELSE Min(free)

RouteNeverChecked(r, ip) == FALSE

\* "Adoption must match the existing peer": 409 when another key has ip.
RouteOfAnother(r, ip) == \E k \in HeldBy(allowed, ip) : k # r.key

JoinRefuse(r) ==
    /\ up /\ joining = None /\ r \in requests
    /\ requests' = requests \ {r}
    /\ Answer(r, None)
    /\ \/ LiveCode(r) = {} /\ UNCHANGED faults
       \/ \E x \in LiveCode(r) :
            \/ AlreadyRegistered(r, x) /\ UNCHANGED faults
            \/ /\ ~ AlreadyRegistered(r, x)
               /\ \/ Fault                          \* wg show fails
                  \/ AddressFor(x) = NoIP /\ UNCHANGED faults
                  \/ /\ AddressFor(x) # NoIP
                     /\ RouteOfAnother(r, AddressFor(x))
                     /\ UNCHANGED faults
    /\ UNCHANGED <<up, hub, wg, agents, interrupted>>

JoinAccept(r) ==
    /\ up /\ joining = None /\ r \in requests
    /\ \E x \in LiveCode(r) :
        LET ip == AddressFor(x) IN
        /\ ~ AlreadyRegistered(r, x)
        /\ ip # NoIP
        /\ ~ RouteOfAnother(r, ip)
        /\ LET adopted == r.key \in HeldBy(allowed, ip) IN
           joining' = [req |-> r, ip |-> ip, adopted |-> adopted,
                       step |-> IF adopted THEN "save" ELSE "wg"]
    /\ requests' = requests \ {r}
    /\ UNCHANGED <<up, faults, codes, issued, devices, disk, wg, replies, agents,
                   interrupted>>

\* wg set peer K allowed-ips ip/32; 500 when it fails.  A call that is killed
\* after its 8 s may have taken effect, and nothing undoes it.
JoinWg ==
    /\ joining # None /\ joining.step = "wg"
    /\ \/ /\ allowed' = WgSet(joining.req.key, joining.ip)
          /\ joining' = [joining EXCEPT !.step = "save"]
          /\ UNCHANGED <<faults, replies, interrupted>>
       \/ /\ Fault
          /\ joining' = None
          /\ Answer(joining.req, None)
          /\ \/ UNCHANGED <<allowed, interrupted>>
             \/ /\ allowed' = WgSet(joining.req.key, joining.ip)
                /\ interrupted' = interrupted \cup {joining.req.key}
    /\ UNCHANGED <<up, codes, issued, devices, disk, recon, reconDevices, reconSeen,
                   requests, agents>>

NewDevice == [id |-> <<joining.req.agent, joining.req.n>>, key |-> joining.req.key,
              ip |-> joining.ip, code |-> joining.req.code]

JoinSaveKeepsCode ==
    /\ joining # None /\ joining.step = "save"
    /\ devices' = devices \cup {NewDevice}
    /\ disk' = devices'
    /\ Answer(joining.req, NewDevice)
    /\ joining' = None
    /\ UNCHANGED <<up, faults, codes, issued, wg, requests, agents, interrupted>>

JoinSaveIgnoresError ==
    /\ joining # None /\ joining.step = "save"
    /\ devices' = devices \cup {NewDevice}
    /\ disk' \in {disk, devices'}
    /\ codes' = codes \ LiveCode(joining.req)
    /\ Answer(joining.req, NewDevice)
    /\ joining' = None
    /\ UNCHANGED <<up, faults, issued, wg, requests, agents, interrupted>>

JoinSave ==
    /\ joining # None /\ joining.step = "save"
    /\ devices' = devices \cup {NewDevice}
    /\ disk' = devices'
    /\ codes' = codes \ LiveCode(joining.req)
    /\ Answer(joining.req, NewDevice)
    /\ joining' = None
    /\ UNCHANGED <<up, faults, issued, wg, requests, agents, interrupted>>

JoinSaveFailsAlwaysUndoes ==
    /\ joining # None /\ joining.step = "save"
    /\ Fault
    /\ joining' = [joining EXCEPT !.step = "undo"]
    /\ UNCHANGED <<up, codes, issued, devices, disk, wg, requests, replies, agents,
                   interrupted>>

\* persist fails: the device is dropped again, the code stays.
JoinSaveFails ==
    /\ joining # None /\ joining.step = "save"
    /\ Fault
    /\ IF joining.adopted
       THEN joining' = None /\ Answer(joining.req, None)
       ELSE joining' = [joining EXCEPT !.step = "undo"] /\ UNCHANGED replies
    /\ UNCHANGED <<up, codes, issued, devices, disk, wg, requests, agents, interrupted>>

JoinUndoKeepsPeer ==
    /\ joining # None /\ joining.step = "undo"
    /\ joining' = None
    /\ Answer(joining.req, None)
    /\ UNCHANGED <<up, faults, codes, issued, devices, disk, wg, requests, agents,
                   interrupted>>

\* wg set peer K remove, its error ignored: one that took effect nevertheless
\* is like one that succeeds.
JoinUndo ==
    /\ joining # None /\ joining.step = "undo"
    /\ \/ allowed' = WgRemove(joining.req.key) /\ UNCHANGED <<faults, interrupted>>
       \/ /\ Fault
          /\ interrupted' = interrupted \cup {joining.req.key}
          /\ UNCHANGED allowed
    /\ joining' = None
    /\ Answer(joining.req, None)
    /\ UNCHANGED <<up, codes, issued, devices, disk, recon, reconDevices, reconSeen,
                   requests, agents>>

(***************************************************************************)
(* reconcilePeers, first at start and then every minute: only the snapshot *)
(* of the devices is taken under mu.                                       *)
(***************************************************************************)
ReconcileSnapshot ==
    /\ up /\ joining = None /\ recon = "idle"
    /\ reconDevices' = devices
    /\ recon' = "show"
    /\ UNCHANGED <<up, faults, hub, allowed, reconSeen, requests, replies, agents,
                   interrupted>>

ReconcileShow ==
    /\ recon = "show"
    /\ \/ reconSeen' = allowed /\ recon' = "set" /\ UNCHANGED <<faults, reconDevices>>
       \/ /\ Fault
          /\ recon' = "idle"
          /\ reconDevices' = {}
          /\ UNCHANGED reconSeen
    /\ UNCHANGED <<up, hub, allowed, requests, replies, agents, interrupted>>

ReconcileKnownPeersOnly(d) ==
    /\ recon = "set" /\ d \in reconDevices
    /\ reconDevices' = reconDevices \ {d}
    /\ IF HeldBy(reconSeen, d.ip) = {} /\ reconSeen[d.key] # <<>>
       THEN allowed' = WgSet(d.key, d.ip)
       ELSE UNCHANGED allowed
    /\ UNCHANGED <<up, faults, hub, recon, reconSeen, requests, replies, agents,
                   interrupted>>

\* A peer is set only if nobody had the address when the table was read.  The
\* error of wg is ignored.
ReconcileSet(d) ==
    /\ recon = "set" /\ d \in reconDevices
    /\ reconDevices' = reconDevices \ {d}
    /\ \/ /\ HeldBy(reconSeen, d.ip) = {}
          /\ allowed' = WgSet(d.key, d.ip)
          /\ UNCHANGED faults
       \/ /\ HeldBy(reconSeen, d.ip) = {}
          /\ Fault
          /\ UNCHANGED allowed
       \/ /\ HeldBy(reconSeen, d.ip) # {}
          /\ UNCHANGED <<allowed, faults>>
    /\ UNCHANGED <<up, hub, recon, reconSeen, requests, replies, agents, interrupted>>

ReconcileEnd ==
    /\ recon = "set" /\ reconDevices = {}
    /\ recon' = "idle"
    /\ reconSeen' = [k \in Keys |-> <<>>]
    /\ UNCHANGED <<up, faults, hub, allowed, reconDevices, requests, replies, agents,
                   interrupted>>

(***************************************************************************)
(* Crash of the process, reboot of the machine, restart.                   *)
(***************************************************************************)
Down(table) ==
    /\ up /\ Fault
    /\ up' = FALSE
    /\ allowed' = table
    /\ codes' = {}
    /\ devices' = {}
    /\ interrupted' = IF joining # None /\ joining.step \in {"save", "undo"} /\ ~ joining.adopted
                      THEN interrupted \cup {joining.req.key} ELSE interrupted
    /\ joining' = None
    /\ recon' = "idle"
    /\ reconDevices' = {}
    /\ reconSeen' = [k \in Keys |-> <<>>]
    /\ requests' = {}
    /\ UNCHANGED <<issued, disk, replies, agents>>

Crash  == Down(allowed)
Reboot == Down(PrePeers)

Restart ==
    /\ ~ up
    /\ up' = TRUE
    /\ devices' = disk
    /\ UNCHANGED <<faults, codes, issued, disk, joining, wg, requests, replies, agents,
                   interrupted>>

JoinStep ==
    \/ \E r \in requests : JoinRefuse(r) \/ JoinAccept(r)
    \/ JoinWg
    \/ JoinSave
    \/ JoinSaveFails
    \/ JoinUndo

ReconcileStep ==
    \/ ReconcileSnapshot
    \/ ReconcileShow
    \/ \E d \in reconDevices : ReconcileSet(d)
    \/ ReconcileEnd

AgentStep(a) ==
    \/ \E m \in replies : AgentReceives(a, m)
    \/ AgentGivesUp(a)

Next ==
    \/ \E c \in Codes, ip \in UNION {HandedTo[a] : a \in Agents} : CreateCode(c, ip)
    \/ \E x \in codes : ExpireCode(x)
    \/ \E a \in Agents, x \in issued, k \in Keys : AgentSend(a, x, k)
    \/ \E a \in Agents : AgentStep(a)
    \/ JoinStep
    \/ ReconcileStep
    \/ Crash
    \/ Reboot
    \/ Restart

Spec == Init /\ [][Next]_vars

(***************************************************************************)
(* Goroutines run, the HTTP client gives up after 8 s, and the service     *)
(* manager restarts the hub (Restart=on-failure).  reconcilePeers is       *)
(* called every minute; its snapshot waits for mu, which a fair mutex      *)
(* grants (strong fairness).                                               *)
(***************************************************************************)
Fairness ==
    /\ WF_vars(JoinStep)
    /\ SF_vars(ReconcileStep)
    /\ \A a \in Agents : WF_vars(AgentStep(a))
    /\ WF_vars(Restart)

FairSpec == Spec /\ Fairness

(***************************************************************************)
(* Properties.                                                             *)
(***************************************************************************)
\* The registry, in memory and on disk, never holds two devices with one key
\* or one address, nor a device with the hub's address: join checks both, but
\* against a registry that a failed save, a crash or a reboot may change.
DevicesDistinct ==
    \A set \in {devices, disk} :
        /\ \A d, e \in set : d.key = e.key \/ d.ip = e.ip => d = e
        /\ \A d \in set : d.ip # ServerIP

\* A code admits one device ("单次", README 9), however often it is sent, and
\* also when answers are lost or the hub restarts.
CodeSingleUse == \A d, e \in disk \cup devices : d.code = e.code => d = e

\* An agent that stored an answer is in the registry with exactly that
\* identity, in memory and on disk, after any crash: an acknowledged join is
\* never lost.
EnrolledIsRegistered ==
    \A a \in Agents : config[a] # None =>
        config[a] \in disk /\ (up => config[a] \in devices)

\* "Never overwrite another peer's route" (server.go 299): no step of a join
\* or of reconcilePeers, which acts on a table it read earlier, moves an
\* address from one peer to another.  (A reboot reloads wg0.conf.)  It holds as
\* long as no code carries an address that is not the first one of its peer.
RouteNeverMoves ==
    [][up' => \A k, l \in Keys : k # l =>
           Addresses(allowed, k) \cap Addresses(allowed', l) = {}]_vars

\* When no join is under way, every address of the kernel's table belongs to
\* a peer of wg0.conf or to a registered device; the only strays are keys of a
\* join that a crash or a failing wg interrupted.
NoStrayPeers ==
    up /\ joining = None =>
        \A k \in Keys : allowed[k] # <<>> =>
            \/ PrePeers[k] # <<>>
            \/ \E d \in devices : d.key = k
            \/ k \in interrupted

\* As long as codes carry the address documented for adoption, the tunnels of
\* wg0.conf keep their addresses whatever fails: joins that are refused, that
\* cannot be saved and are undone, and reconcilePeers leave them alone.
TunnelsKept == \A k \in Keys : Addresses(PrePeers, k) \subseteq Addresses(allowed, k)

\* "服务端会校验既有 IP 与公钥是否对应" (README 63): a tunnel that was adopted is
\* registered with an address its key already had.
AdoptedAddressMatches ==
    \A a \in Adopters : config[a] # None => config[a].ip \in Addresses(PrePeers, TunnelKey[a])

\* The hub and the agents implement the durable registry of DeviceRegistry,
\* with the devices of state.json as the registry: whatever is sent again, is
\* lost, fails or crashes, codes, registry and agents change as it allows.
Registry == INSTANCE DeviceRegistry WITH registry <- disk
ImplementsRegistry == Registry!Spec

\* Once faults stop, every registered device has its route and keeps it:
\* reconcilePeers repairs what a reboot or an interrupted join left.
DevicesRouted == <>[](up /\ \A d \in devices : d.ip \in Addresses(allowed, d.key))
=============================================================================
