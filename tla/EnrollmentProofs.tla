-------------------------- MODULE EnrollmentProofs --------------------------
(***************************************************************************)
(* Proofs about Enrollment, for any number of agents, keys, codes, joins   *)
(* and faults.  What the registry promises is proved of every              *)
(* configuration; that routes stay where they are needs the codes to be as *)
(* the documentation asks for (DocumentedCodes).                           *)
(***************************************************************************)
EXTENDS Enrollment, FiniteSetTheorems, WellFoundedInduction, TLAPS

\* The registry in memory is the one on disk, except while the hub is down.
MirrorInv ==
    /\ up => devices = disk
    /\ ~ up => devices = {} /\ joining = None
    /\ reconDevices \subseteq disk

\* A join that holds mu checked key and address against the registry, and that
\* cannot have changed since.
DistinctInv ==
    /\ codes \subseteq issued
    /\ \A x \in issued : x.ip # ServerIP
    /\ \A d, e \in disk : d.key = e.key \/ d.ip = e.ip => d = e
    /\ \A d \in disk : d.ip # ServerIP
    /\ joining # None =>
          /\ joining.ip # ServerIP
          /\ \A d \in disk : d.key # joining.req.key /\ d.ip # joining.ip

\* A live code was not used, nor will a used one be issued again.
CodeInv ==
    /\ \A d, e \in disk : d.code = e.code => d = e
    /\ \A x \in codes, d \in disk : x.code # d.code
    /\ \A d \in disk : \E x \in issued : x.code = d.code
    /\ joining # None =>
          /\ \E x \in issued : x.code = joining.req.code
          /\ \A d \in disk : d.code # joining.req.code

\* What an agent was told, or stored, is on disk.
ReplyInv ==
    /\ \A m \in replies : m.device # None => m.device \in disk
    /\ \A a \in Agents : config[a] # None => config[a] \in disk

\* Peers of the kernel's table that a join under way has added.
Added(k) ==
    /\ joining # None /\ joining.req.key = k
    /\ joining.step \in {"save", "undo"} /\ ~ joining.adopted

StrayInv ==
    /\ joining # None /\ joining.adopted => joining.step = "save"
    /\ \A k \in Keys : allowed[k] # <<>> =>
          PrePeers[k] # <<>> \/ (\E d \in disk : d.key = k) \/ k \in interrupted \/ Added(k)

\* What the refinement of the registry needs in addition: the address of the
\* join under way is that of its code, an answer is about the agent it goes to,
\* and an agent that waits holds nothing yet.
AdmitInv ==
    /\ joining # None =>
          \E x \in issued : x.code = joining.req.code /\ x.ip \in {NoIP, joining.ip}
    /\ \A m \in replies : m.device # None => m.device.id[1] = m.agent
    /\ \A a \in Agents : config[a] # None => pc[a] = "joined"

IndInv ==
    TypeOK /\ MirrorInv /\ DistinctInv /\ CodeInv /\ ReplyInv /\ StrayInv

-----------------------------------------------------------------------------
\* Codes as the documentation asks for them: the code for a tunnel that is to be
\* adopted has the address of that tunnel, and no code has an address that is
\* not the first one of its peer (server.go looks at no other).
DocumentedCodes ==
    \A a \in Agents :
        /\ \A ip \in HandedTo[a] \ {NoIP}, k \in Keys :
              ip \in Addresses(PrePeers, k) => ip = Head(PrePeers[k])
        /\ a \in Adopters /\ PrePeers[TunnelKey[a]] # <<>> =>
              HandedTo[a] \subseteq {Head(PrePeers[TunnelKey[a]])}

\* No peer but k has the address.
Owned(table, ip, k) == \A x \in Keys : x # k => ip \notin Addresses(table, x)

TunnelInv ==
    \A k \in Keys :
        /\ PrePeers[k] # <<>> => /\ allowed[k] = PrePeers[k]
                                 /\ recon = "set" => reconSeen[k] = PrePeers[k]
        /\ PrePeers[k] = <<>> => Len(allowed[k]) <= 1

\* An address is one peer's; that of a device, and of a join under way, is its
\* own or nobody's.
OwnedInv ==
    /\ \A k, l \in Keys : k # l => Addresses(allowed, k) \cap Addresses(allowed, l) = {}
    /\ \A d \in disk : Owned(allowed, d.ip, d.key)
    /\ joining # None => Owned(allowed, joining.ip, joining.req.key)

\* The key of a tunnel comes with the address of the tunnel, all the way.
AdoptInv ==
    /\ \A x, y \in issued : x.code = y.code => x = y
    /\ \A x \in issued : x.ip # NoIP =>
          \A k \in Keys : x.ip \in Addresses(PrePeers, k) => x.ip = Head(PrePeers[k])
    /\ \A k \in Keys : PrePeers[k] # <<>> => k \in usedKeys
    /\ \A r \in requests :
          /\ \E x \in issued : x.code = r.code
          /\ PrePeers[r.key] # <<>> =>
                \A x \in issued : x.code = r.code => x.ip = Head(PrePeers[r.key])
    /\ joining # None /\ PrePeers[joining.req.key] # <<>> =>
          joining.adopted /\ joining.ip = Head(PrePeers[joining.req.key])
    /\ \A d \in disk : PrePeers[d.key] # <<>> => d.ip = Head(PrePeers[d.key])

RouteInv == TunnelInv /\ OwnedInv /\ AdoptInv
-----------------------------------------------------------------------------
(* The operators.                                                          *)

LEMMA MinExists ==
    ASSUME NEW S \in SUBSET Nat, S # {}
    PROVE  Min(S) \in S
<1> DEFINE R == {ss \in Nat \X Nat : ss[1] < ss[2]}
<1>1. R = OpToRel(<, Nat)
  BY Zenon DEF OpToRel
<1>2. IsWellFoundedOn(R, Nat)
  BY <1>1, NatLessThanWellFounded
<1>3. \A x, y \in Nat : y < x => <<y, x>> \in R
  OBVIOUS
<1> HIDE DEF R
<1>4. PICK x \in S : \A y \in S : ~ (<<y, x>> \in R)
  BY <1>2, WFMin
<1>5. \A y \in S : x <= y
  <2> TAKE y \in S
  <2>1. ~ (y < x)
    BY <1>3, <1>4
  <2> QED
    BY <2>1
<1> QED
  BY <1>5 DEF Min

\* The address join chooses is assignable, and free unless the code names it.
LEMMA AddressChosen ==
    ASSUME NEW x \in Code, x.ip # ServerIP, AddressFor(x) # NoIP
    PROVE  /\ AddressFor(x) \in Hosts /\ AddressFor(x) # ServerIP
           /\ x.ip # NoIP => AddressFor(x) = x.ip
           /\ x.ip = NoIP => /\ \A k \in Keys : AddressFor(x) \notin Addresses(allowed, k)
                             /\ \A d \in devices : d.ip # AddressFor(x)
<1>1. CASE x.ip # NoIP
  BY <1>1 DEF AddressFor, Code
<1>2. CASE x.ip = NoIP
  <2> DEFINE free == {ip \in Hosts : /\ ip # ServerIP
                                     /\ \A k \in Keys : ip \notin Addresses(allowed, k)
                                     /\ \A d \in devices : d.ip # ip}
  <2>1. AddressFor(x) = IF free = {} THEN NoIP ELSE Min(free)
    BY <1>2 DEF AddressFor
  <2>2. free # {} /\ AddressFor(x) = Min(free)
    BY <2>1
  <2>3. free \in SUBSET Nat
    BY EnrollmentConstants
  <2>4. AddressFor(x) \in free
    BY <2>2, <2>3, MinExists
  <2> QED
    BY <1>2, <2>4
<1> QED
  BY <1>1, <1>2

LEMMA WithoutFacts ==
    ASSUME NEW s \in Seq(Hosts), NEW ip
    PROVE  /\ Without(s, ip) \in Seq(Hosts)
           /\ Without(s, ip) # <<>> => s # <<>>
           /\ (\A i \in DOMAIN s : s[i] # ip) => Without(s, ip) = s
<1> DEFINE at == {i \in DOMAIN s : s[i] = ip}
           n  == CHOOSE i \in at : TRUE
           w  == [i \in 1..(Len(s) - 1) |-> IF i < n THEN s[i] ELSE s[i + 1]]
<1>1. Without(s, ip) = IF at = {} THEN s ELSE w
  BY DEF Without
<1>2. CASE at = {}
  BY <1>1, <1>2
<1>3. CASE at # {}
  <2>1. n \in 1..Len(s) /\ Len(s) \in Nat \ {0} /\ s # <<>> /\ s[n] = ip /\ n \in DOMAIN s
    BY <1>3
  <2> HIDE DEF n
  <2>2. w \in Seq(Hosts)
    <3>1. \A i \in 1..(Len(s) - 1) : (IF i < n THEN s[i] ELSE s[i + 1]) \in Hosts
      BY <2>1
    <3>2. w \in [1..(Len(s) - 1) -> Hosts] /\ Len(s) - 1 \in Nat
      BY <2>1, <3>1
    <3> HIDE DEF w
    <3> QED
      BY <3>2
  <2> QED
    BY <1>1, <1>3, <2>1, <2>2
<1> QED
  BY <1>2, <1>3

\* Giving an address to a peer.
LEMMA SetFacts ==
    ASSUME allowed \in [Keys -> Seq(Hosts)], NEW k \in Keys, NEW ip \in Hosts
    PROVE  /\ WgSet(k, ip) \in [Keys -> Seq(Hosts)]
           /\ \A x \in Keys : WgSet(k, ip)[x] # <<>> => x = k \/ allowed[x] # <<>>
           /\ Owned(allowed, ip, k) => WgSet(k, ip) = [allowed EXCEPT ![k] = <<ip>>]
<1>1. \A x \in Keys : /\ Without(allowed[x], ip) \in Seq(Hosts)
                      /\ Without(allowed[x], ip) # <<>> => allowed[x] # <<>>
                      /\ ip \notin Addresses(allowed, x) => Without(allowed[x], ip) = allowed[x]
  <2> TAKE x \in Keys
  <2>1. allowed[x] \in Seq(Hosts)
    OBVIOUS
  <2>2. ip \notin Addresses(allowed, x) => \A i \in DOMAIN allowed[x] : allowed[x][i] # ip
    BY DEF Addresses
  <2> QED
    BY <2>1, <2>2, WithoutFacts
<1>2. <<ip>> \in Seq(Hosts)
  OBVIOUS
<1>3. WgSet(k, ip) \in [Keys -> Seq(Hosts)]
  BY <1>1, <1>2 DEF WgSet
<1>4. \A x \in Keys : WgSet(k, ip)[x] # <<>> => x = k \/ allowed[x] # <<>>
  BY <1>1 DEF WgSet
<1>5. ASSUME Owned(allowed, ip, k) PROVE WgSet(k, ip) = [allowed EXCEPT ![k] = <<ip>>]
  BY <1>1, <1>5 DEF WgSet, Owned
<1> QED
  BY <1>3, <1>4, <1>5

\* The parts of the join under way.
LEMMA JoiningParts ==
    ASSUME TypeOK, joining # None
    PROVE  /\ joining.req \in Request /\ joining.ip \in Hosts /\ joining.adopted \in BOOLEAN
           /\ joining.step \in {"wg", "save", "undo"} /\ joining.req.key \in Keys
           /\ joining.req.agent \in Agents /\ joining.req.n \in 1..MaxAttempts
           /\ joining.req.code \in Codes
           /\ NewDevice \in Device /\ NewDevice.key = joining.req.key
           /\ NewDevice.ip = joining.ip /\ NewDevice.code = joining.req.code
           /\ NewDevice.id[1] = joining.req.agent
<1>1. joining \in Joining
  BY DEF TypeOK
<1>2. /\ joining.req \in Request /\ joining.ip \in Hosts /\ joining.adopted \in BOOLEAN
      /\ joining.step \in {"wg", "save", "undo"}
  BY <1>1 DEF Joining
<1>3. /\ joining.req.key \in Keys /\ joining.req.agent \in Agents /\ joining.req.code \in Codes
      /\ joining.req.n \in 1..MaxAttempts
  BY <1>2 DEF Request
<1>4. NewDevice \in Device /\ NewDevice.key = joining.req.key
      /\ NewDevice.ip = joining.ip /\ NewDevice.code = joining.req.code
  BY <1>2, <1>3 DEF NewDevice, Device
<1>5. NewDevice.id[1] = joining.req.agent
  BY <1>3 DEF NewDevice
<1> QED
  BY <1>2, <1>3, <1>4, <1>5

LEMMA AnswerFacts ==
    ASSUME TypeOK, NEW r \in Request, NEW d \in Device \cup {None}, Answer(r, d)
    PROVE  /\ replies' \subseteq [agent : Agents, n : 1..MaxAttempts, device : Device \cup {None}]
           /\ \A m \in replies' : m \in replies \/ (m.device = d /\ m.agent = r.agent)
<1> DEFINE m == [agent |-> r.agent, n |-> r.n, device |-> d]
<1>1. m \in [agent : Agents, n : 1..MaxAttempts, device : Device \cup {None}]
      /\ m.device = d /\ m.agent = r.agent
  BY DEF Request
<1>2. replies' = replies \/ replies' = replies \cup {m}
  BY DEF Answer
<1> HIDE DEF m
<1> QED
  BY <1>1, <1>2 DEF TypeOK

\* A join that was accepted: what the checks under mu have established.
LEMMA AcceptFacts ==
    ASSUME TypeOK, MirrorInv, DistinctInv, NEW r \in requests, JoinAccept(r)
    PROVE  \E x \in codes :
              /\ x.code = r.code /\ up /\ joining = None
              /\ joining' \in Joining /\ joining' # None /\ joining'.req = r
              /\ joining'.ip = AddressFor(x)
              /\ joining'.adopted = (r.key \in HeldBy(allowed, AddressFor(x)))
              /\ joining'.step = (IF r.key \in HeldBy(allowed, AddressFor(x)) THEN "save" ELSE "wg")
              /\ joining'.ip # ServerIP
              /\ \A d \in devices : d.key # r.key /\ d.ip # joining'.ip
              /\ x.ip # NoIP => joining'.ip = x.ip
              /\ x.ip = NoIP => \A k \in Keys : joining'.ip \notin Addresses(allowed, k)
              /\ ~ RouteOfAnother(r, joining'.ip)
<1>1. PICK x \in LiveCode(r) :
          LET ip == AddressFor(x) adopted == r.key \in HeldBy(allowed, ip) IN
          /\ ~ AlreadyRegistered(r, x) /\ ip # NoIP /\ ~ RouteOfAnother(r, ip)
          /\ joining' = [req |-> r, ip |-> ip, adopted |-> adopted,
                         step |-> IF adopted THEN "save" ELSE "wg"]
  BY DEF JoinAccept
<1>2. x \in codes /\ x.code = r.code /\ x \in Code /\ x.ip # ServerIP
  BY <1>1 DEF LiveCode, TypeOK, DistinctInv
<1> DEFINE ip == AddressFor(x)  adopted == r.key \in HeldBy(allowed, ip)
<1>3. /\ ip \in Hosts /\ ip # ServerIP /\ (x.ip # NoIP => ip = x.ip)
      /\ x.ip = NoIP => /\ \A k \in Keys : ip \notin Addresses(allowed, k)
                        /\ \A d \in devices : d.ip # ip
  BY <1>1, <1>2, AddressChosen
<1>4. r \in Request
  BY DEF TypeOK
<1>5. adopted \in BOOLEAN
  OBVIOUS
<1> HIDE DEF ip, adopted
<1>6. joining' = [req |-> r, ip |-> ip, adopted |-> adopted,
                  step |-> IF adopted THEN "save" ELSE "wg"]
  BY <1>1 DEF ip, adopted
<1>7. joining' \in Joining /\ joining'.req = r /\ joining'.ip = ip
      /\ joining'.adopted = adopted /\ joining'.step = IF adopted THEN "save" ELSE "wg"
  BY <1>3, <1>4, <1>5, <1>6 DEF Joining
<1>8. \A d \in devices : d.key # r.key /\ d.ip # ip
  BY <1>1, <1>3 DEF AlreadyRegistered
<1>9. joining' # None
  BY <1>7, NoneAssumption
<1>10. up /\ joining = None
  BY DEF JoinAccept
<1>11. ~ RouteOfAnother(r, ip)
  BY <1>1 DEF ip
<1> QED
  <2> x \in codes
    BY <1>2
  <2> WITNESS x \in codes
  <2>1. ip = AddressFor(x) /\ adopted = (r.key \in HeldBy(allowed, AddressFor(x)))
    BY DEF ip, adopted
  <2> QED
    BY <1>2, <1>3, <1>7, <1>8, <1>9, <1>10, <1>11, <2>1, Zenon

-----------------------------------------------------------------------------
(* The registry.                                                           *)

LEMMA TypeDown ==
    ASSUME TypeOK, NEW table \in [Keys -> Seq(Hosts)], Down(table)
    PROVE  TypeOK'
<1>1. faults' \in 0..MaxFaults
  BY EnrollmentConstants DEF Down, Fault, TypeOK
<1>2. interrupted' \subseteq Keys
  <2>1. joining # None => joining.req.key \in Keys
    BY JoiningParts
  <2> QED
    BY <2>1 DEF Down, TypeOK
<1>3. <<>> \in Seq(Hosts) /\ reconSeen' \in [Keys -> Seq(Hosts)]
  BY DEF Down
<1> QED
  BY <1>1, <1>2, <1>3 DEF Down, TypeOK, agents

LEMMA TypeStep == TypeOK /\ MirrorInv /\ DistinctInv /\ [Next]_vars => TypeOK'
<1> SUFFICES ASSUME TypeOK, MirrorInv, DistinctInv, [Next]_vars PROVE TypeOK'
  OBVIOUS
<1>1. ASSUME NEW c \in Codes, NEW ip \in UNION {HandedTo[a] : a \in Agents}, CreateCode(c, ip)
      PROVE  TypeOK'
  <2>1. ip \in Hosts \cup {NoIP}
    BY EnrollmentConstants
  <2>2. [code |-> c, ip |-> ip] \in Code
    BY <2>1 DEF Code
  <2>3. codes' \subseteq Code /\ issued' \subseteq Code
    BY <1>1, <2>2 DEF CreateCode, TypeOK
  <2> QED
    BY <1>1, <2>3 DEF CreateCode, TypeOK, wg, agents
<1>2. ASSUME NEW x \in codes, ExpireCode(x) PROVE TypeOK'
  BY <1>2 DEF ExpireCode, TypeOK, hub, wg, agents
<1>3. ASSUME NEW a \in Agents, NEW x \in issued, NEW k \in Keys, AgentSend(a, x, k)
      PROVE  TypeOK'
  <2>1. x \in Code /\ x.code \in Codes
    BY DEF TypeOK, Code
  <2>2. attempt[a] + 1 \in 1..MaxAttempts /\ attempt' \in [Agents -> 0..MaxAttempts]
    BY <1>3, EnrollmentConstants DEF AgentSend, TypeOK
  <2>3. [agent |-> a, n |-> attempt[a] + 1, key |-> k, code |-> x.code] \in Request
    BY <2>1, <2>2 DEF Request
  <2>4. requests' \subseteq Request
    BY <1>3, <2>3 DEF AgentSend, TypeOK
  <2>5. pc' \in [Agents -> {"new", "waiting", "joined"}] /\ usedKeys' \subseteq Keys
    BY <1>3 DEF AgentSend, TypeOK
  <2> QED
    BY <1>3, <2>2, <2>4, <2>5 DEF AgentSend, TypeOK, hub, wg
<1>4. ASSUME NEW a \in Agents, NEW m \in replies, AgentReceives(a, m) PROVE TypeOK'
  <2>1. m.device \in Device \cup {None}
    BY DEF TypeOK
  <2>2. /\ replies' = replies \ {m}
        /\ faults' = faults \/ (faults < MaxFaults /\ faults' = faults + 1)
        /\ config' = config \/ (m.device # None /\ config' = [config EXCEPT ![a] = m.device])
        /\ pc' = [pc EXCEPT ![a] = "joined"] \/ pc' = [pc EXCEPT ![a] = "new"]
    BY <1>4 DEF AgentReceives, Fault
  <2>3. faults' \in 0..MaxFaults
    BY <2>2, EnrollmentConstants DEF TypeOK
  <2>4. config' \in [Agents -> Device \cup {None}] /\ pc' \in [Agents -> {"new", "waiting", "joined"}]
    BY <2>1, <2>2 DEF TypeOK
  <2> QED
    BY <1>4, <2>2, <2>3, <2>4 DEF AgentReceives, TypeOK, hub, wg
<1>5. ASSUME NEW a \in Agents, AgentGivesUp(a) PROVE TypeOK'
  BY <1>5 DEF AgentGivesUp, TypeOK, hub, wg, agents
<1>6. ASSUME NEW r \in requests, JoinRefuse(r) PROVE TypeOK'
  <2>1. r \in Request /\ Answer(r, None)
    BY <1>6 DEF JoinRefuse, TypeOK
  <2>2. replies' \subseteq [agent : Agents, n : 1..MaxAttempts, device : Device \cup {None}]
    BY <2>1, AnswerFacts
  <2>3. faults' = faults \/ (faults < MaxFaults /\ faults' = faults + 1)
    BY <1>6 DEF JoinRefuse, Fault
  <2>4. faults' \in 0..MaxFaults
    BY <2>3, EnrollmentConstants DEF TypeOK
  <2> QED
    BY <1>6, <2>2, <2>4 DEF JoinRefuse, TypeOK, hub, wg, agents
<1>7. ASSUME NEW r \in requests, JoinAccept(r) PROVE TypeOK'
  <2>1. joining' \in Joining
    BY <1>7, AcceptFacts
  <2> QED
    BY <1>7, <2>1 DEF JoinAccept, TypeOK, wg, agents
<1>8. CASE JoinWg
  <2>1. joining # None
    BY <1>8 DEF JoinWg
  <2>2. Answer(joining.req, None) \/ UNCHANGED replies
    BY <1>8 DEF JoinWg
  <2>3. replies' \subseteq [agent : Agents, n : 1..MaxAttempts, device : Device \cup {None}]
    BY <2>1, <2>2, JoiningParts, AnswerFacts DEF TypeOK
  <2>4. WgSet(joining.req.key, joining.ip) \in [Keys -> Seq(Hosts)]
    BY <2>1, JoiningParts, SetFacts DEF TypeOK
  <2>5. allowed' \in [Keys -> Seq(Hosts)]
    BY <1>8, <2>4 DEF JoinWg, TypeOK
  <2>6. joining' \in Joining \cup {None}
    BY <1>8, <2>1 DEF JoinWg, TypeOK, Joining
  <2>7. faults' \in 0..MaxFaults
    BY <1>8, EnrollmentConstants DEF JoinWg, Fault, TypeOK
  <2>8. interrupted' \subseteq Keys
    BY <1>8, <2>1, JoiningParts DEF JoinWg, TypeOK
  <2> QED
    BY <1>8, <2>3, <2>5, <2>6, <2>7, <2>8 DEF JoinWg, TypeOK, agents
<1>9. CASE JoinSave
  <2>1. joining # None /\ Answer(joining.req, NewDevice)
    BY <1>9 DEF JoinSave
  <2>2. NewDevice \in Device /\ joining.req \in Request
    BY <2>1, JoiningParts
  <2>3. replies' \subseteq [agent : Agents, n : 1..MaxAttempts, device : Device \cup {None}]
    BY <2>1, <2>2, AnswerFacts
  <2> QED
    BY <1>9, <2>2, <2>3 DEF JoinSave, TypeOK, wg, agents
<1>10. CASE JoinSaveFails
  <2>1. joining # None
    BY <1>10 DEF JoinSaveFails
  <2>2. Answer(joining.req, None) \/ UNCHANGED replies
    BY <1>10 DEF JoinSaveFails
  <2>3. replies' \subseteq [agent : Agents, n : 1..MaxAttempts, device : Device \cup {None}]
    BY <2>1, <2>2, JoiningParts, AnswerFacts DEF TypeOK
  <2>4. joining' \in Joining \cup {None}
    BY <1>10, <2>1 DEF JoinSaveFails, TypeOK, Joining
  <2>5. faults' \in 0..MaxFaults
    BY <1>10, EnrollmentConstants DEF JoinSaveFails, Fault, TypeOK
  <2> QED
    BY <1>10, <2>3, <2>4, <2>5 DEF JoinSaveFails, TypeOK, wg, agents
<1>11. CASE JoinUndo
  <2>1. joining # None
    BY <1>11 DEF JoinUndo
  <2>2. Answer(joining.req, None) \/ UNCHANGED replies
    BY <1>11 DEF JoinUndo
  <2>3. replies' \subseteq [agent : Agents, n : 1..MaxAttempts, device : Device \cup {None}]
    BY <2>1, <2>2, JoiningParts, AnswerFacts DEF TypeOK
  <2>4. joining.req.key \in Keys
    BY <2>1, JoiningParts
  <2>5. allowed' \in [Keys -> Seq(Hosts)] /\ interrupted' \subseteq Keys
    <3>1. [allowed EXCEPT ![joining.req.key] = <<>>] \in [Keys -> Seq(Hosts)]
      BY <2>4 DEF TypeOK
    <3> QED
      BY <1>11, <2>4, <3>1 DEF JoinUndo, WgRemove, TypeOK
  <2>6. faults' \in 0..MaxFaults
    BY <1>11, EnrollmentConstants DEF JoinUndo, Fault, TypeOK
  <2> QED
    BY <1>11, <2>3, <2>5, <2>6 DEF JoinUndo, TypeOK, agents
<1>12. CASE ReconcileSnapshot
  BY <1>12 DEF ReconcileSnapshot, TypeOK, hub, wg, agents
<1>13. CASE ReconcileShow
  <2>1. faults' \in 0..MaxFaults
    BY <1>13, EnrollmentConstants DEF ReconcileShow, Fault, TypeOK
  <2> QED
    BY <1>13, <2>1 DEF ReconcileShow, TypeOK, hub, agents
<1>14. ASSUME NEW d \in reconDevices, ReconcileSet(d) PROVE TypeOK'
  <2>1. d.key \in Keys /\ d.ip \in Hosts
    BY DEF TypeOK, Device
  <2>2. WgSet(d.key, d.ip) \in [Keys -> Seq(Hosts)]
    BY <2>1, SetFacts DEF TypeOK
  <2>3. faults' \in 0..MaxFaults
    BY <1>14, EnrollmentConstants DEF ReconcileSet, Fault, TypeOK
  <2>4. allowed' \in [Keys -> Seq(Hosts)]
    BY <1>14, <2>2 DEF ReconcileSet, TypeOK
  <2> QED
    BY <1>14, <2>3, <2>4 DEF ReconcileSet, TypeOK, hub, agents
<1>15. CASE ReconcileEnd
  BY <1>15 DEF ReconcileEnd, TypeOK, hub, wg, agents
<1>16. CASE Crash
  BY <1>16, TypeDown DEF Crash, TypeOK
<1>17. CASE Reboot
  BY <1>17, TypeDown, EnrollmentConstants DEF Reboot
<1>18. CASE Restart
  BY <1>18 DEF Restart, TypeOK, hub, wg, agents
<1>19. CASE UNCHANGED vars
  BY <1>19 DEF vars, TypeOK, hub, wg, agents
<1> QED
  BY <1>1, <1>2, <1>3, <1>4, <1>5, <1>6, <1>7, <1>8, <1>9, <1>10, <1>11, <1>12, <1>13,
     <1>14, <1>15, <1>16, <1>17, <1>18, <1>19 DEF Next, AgentStep, JoinStep, ReconcileStep

LEMMA MirrorStep == TypeOK /\ MirrorInv /\ [Next]_vars => MirrorInv'
<1> SUFFICES ASSUME TypeOK, MirrorInv, [Next]_vars PROVE MirrorInv'
  OBVIOUS
<1>1. ASSUME NEW c \in Codes, NEW ip \in UNION {HandedTo[a] : a \in Agents}, CreateCode(c, ip)
      PROVE  MirrorInv'
  BY <1>1 DEF CreateCode, TypeOK, MirrorInv, hub, wg, agents
<1>2. ASSUME NEW x \in codes, ExpireCode(x) PROVE MirrorInv'
  BY <1>2 DEF ExpireCode, TypeOK, MirrorInv, hub, wg, agents
<1>3. ASSUME NEW a \in Agents, NEW x \in issued, NEW k \in Keys, AgentSend(a, x, k)
      PROVE  MirrorInv'
  BY <1>3 DEF AgentSend, TypeOK, MirrorInv, hub, wg, agents
<1>4. ASSUME NEW a \in Agents, NEW m \in replies, AgentReceives(a, m) PROVE MirrorInv'
  BY <1>4 DEF AgentReceives, Fault, TypeOK, MirrorInv, hub, wg, agents
<1>5. ASSUME NEW a \in Agents, AgentGivesUp(a) PROVE MirrorInv'
  BY <1>5 DEF AgentGivesUp, TypeOK, MirrorInv, hub, wg, agents
<1>6. ASSUME NEW r \in requests, JoinRefuse(r) PROVE MirrorInv'
  BY <1>6 DEF JoinRefuse, Fault, TypeOK, MirrorInv, hub, wg, agents
<1>7. ASSUME NEW r \in requests, JoinAccept(r) PROVE MirrorInv'
  BY <1>7 DEF JoinAccept, TypeOK, MirrorInv, hub, wg, agents
<1>8. CASE JoinWg
  BY <1>8 DEF JoinWg, Fault, TypeOK, MirrorInv, hub, wg, agents
<1>9. CASE JoinSave
  BY <1>9 DEF JoinSave, TypeOK, MirrorInv, hub, wg, agents
<1>10. CASE JoinSaveFails
  BY <1>10 DEF JoinSaveFails, Fault, TypeOK, MirrorInv, hub, wg, agents
<1>11. CASE JoinUndo
  BY <1>11 DEF JoinUndo, Fault, TypeOK, MirrorInv, hub, wg, agents
<1>12. CASE ReconcileSnapshot
  BY <1>12 DEF ReconcileSnapshot, TypeOK, MirrorInv, hub, wg, agents
<1>13. CASE ReconcileShow
  BY <1>13 DEF ReconcileShow, Fault, TypeOK, MirrorInv, hub, wg, agents
<1>14. ASSUME NEW d \in reconDevices, ReconcileSet(d) PROVE MirrorInv'
  BY <1>14 DEF ReconcileSet, Fault, TypeOK, MirrorInv, hub, wg, agents
<1>15. CASE ReconcileEnd
  BY <1>15 DEF ReconcileEnd, TypeOK, MirrorInv, hub, wg, agents
<1>16. CASE Crash
  BY <1>16 DEF Crash, Down, Fault, TypeOK, MirrorInv, hub, wg, agents
<1>17. CASE Reboot
  BY <1>17 DEF Reboot, Down, Fault, TypeOK, MirrorInv, hub, wg, agents
<1>18. CASE Restart
  BY <1>18 DEF Restart, TypeOK, MirrorInv, hub, wg, agents
<1>19. CASE UNCHANGED vars
  BY <1>19 DEF vars, TypeOK, MirrorInv, hub, wg, agents
<1> QED
  BY <1>1, <1>2, <1>3, <1>4, <1>5, <1>6, <1>7, <1>8, <1>9, <1>10, <1>11, <1>12, <1>13,
     <1>14, <1>15, <1>16, <1>17, <1>18, <1>19 DEF Next, AgentStep, JoinStep, ReconcileStep

LEMMA DistinctStep == TypeOK /\ MirrorInv /\ DistinctInv /\ [Next]_vars => DistinctInv'
<1> SUFFICES ASSUME TypeOK, MirrorInv, DistinctInv, [Next]_vars PROVE DistinctInv'
  OBVIOUS
<1>1. ASSUME NEW c \in Codes, NEW ip \in UNION {HandedTo[a] : a \in Agents}, CreateCode(c, ip)
      PROVE  DistinctInv'
  <2>1. ip # ServerIP
    BY EnrollmentConstants
  <2>2. [code |-> c, ip |-> ip].ip = ip
    OBVIOUS
  <2> QED
    BY <1>1, <2>1, <2>2 DEF CreateCode, DistinctInv
<1>2. ASSUME NEW x \in codes, ExpireCode(x) PROVE DistinctInv'
  BY <1>2 DEF ExpireCode, DistinctInv, hub, wg, agents
<1>3. ASSUME NEW a \in Agents, NEW x \in issued, NEW k \in Keys, AgentSend(a, x, k)
      PROVE  DistinctInv'
  BY <1>3 DEF AgentSend, DistinctInv, hub, wg, agents
<1>4. ASSUME NEW a \in Agents, NEW m \in replies, AgentReceives(a, m) PROVE DistinctInv'
  BY <1>4 DEF AgentReceives, Fault, DistinctInv, hub, wg, agents
<1>5. ASSUME NEW a \in Agents, AgentGivesUp(a) PROVE DistinctInv'
  BY <1>5 DEF AgentGivesUp, DistinctInv, hub, wg, agents
<1>6. ASSUME NEW r \in requests, JoinRefuse(r) PROVE DistinctInv'
  BY <1>6 DEF JoinRefuse, Fault, DistinctInv, hub, wg, agents
<1>7. ASSUME NEW r \in requests, JoinAccept(r) PROVE DistinctInv'
  <2>1. /\ joining'.req = r /\ joining'.ip # ServerIP /\ up
        /\ \A d \in devices : d.key # r.key /\ d.ip # joining'.ip
    BY <1>7, AcceptFacts
  <2>2. UNCHANGED <<codes, issued, disk>>
    BY <1>7 DEF JoinAccept
  <2>3. \A d \in disk : d.key # r.key /\ d.ip # joining'.ip
    BY <2>1 DEF MirrorInv
  <2> QED
    BY <2>1, <2>2, <2>3 DEF DistinctInv
<1>8. CASE JoinWg
  <2>1. UNCHANGED <<codes, issued, disk>> /\ joining # None
    BY <1>8 DEF JoinWg
  <2>2. joining' = None \/ (joining'.req = joining.req /\ joining'.ip = joining.ip)
    BY <1>8, <2>1 DEF JoinWg, TypeOK, Joining
  <2> QED
    BY <2>1, <2>2 DEF DistinctInv
<1>9. CASE JoinSave
  <2>1. /\ joining # None /\ joining' = None /\ issued' = issued /\ codes' \subseteq codes
        /\ disk' = devices \cup {NewDevice}
    BY <1>9 DEF JoinSave
  <2>2. devices = disk
    BY <2>1 DEF MirrorInv
  <2>3. NewDevice.key = joining.req.key /\ NewDevice.ip = joining.ip
    BY <2>1, JoiningParts
  <2> HIDE DEF NewDevice
  <2> QED
    BY <2>1, <2>2, <2>3 DEF DistinctInv
<1>10. CASE JoinSaveFails
  <2>1. UNCHANGED <<codes, issued, disk>> /\ joining # None
    BY <1>10 DEF JoinSaveFails
  <2>2. joining' = None \/ (joining'.req = joining.req /\ joining'.ip = joining.ip)
    BY <1>10, <2>1 DEF JoinSaveFails, TypeOK, Joining
  <2> QED
    BY <2>1, <2>2 DEF DistinctInv
<1>11. CASE JoinUndo
  BY <1>11 DEF JoinUndo, Fault, DistinctInv, hub, wg, agents
<1>12. CASE ReconcileSnapshot
  BY <1>12 DEF ReconcileSnapshot, DistinctInv, hub, wg, agents
<1>13. CASE ReconcileShow
  BY <1>13 DEF ReconcileShow, Fault, DistinctInv, hub, wg, agents
<1>14. ASSUME NEW d \in reconDevices, ReconcileSet(d) PROVE DistinctInv'
  BY <1>14 DEF ReconcileSet, Fault, DistinctInv, hub, wg, agents
<1>15. CASE ReconcileEnd
  BY <1>15 DEF ReconcileEnd, DistinctInv, hub, wg, agents
<1>16. CASE Crash
  BY <1>16 DEF Crash, Down, Fault, DistinctInv, hub, wg, agents
<1>17. CASE Reboot
  BY <1>17 DEF Reboot, Down, Fault, DistinctInv, hub, wg, agents
<1>18. CASE Restart
  BY <1>18 DEF Restart, DistinctInv, hub, wg, agents
<1>19. CASE UNCHANGED vars
  BY <1>19 DEF vars, DistinctInv, hub, wg, agents
<1> QED
  BY <1>1, <1>2, <1>3, <1>4, <1>5, <1>6, <1>7, <1>8, <1>9, <1>10, <1>11, <1>12, <1>13,
     <1>14, <1>15, <1>16, <1>17, <1>18, <1>19 DEF Next, AgentStep, JoinStep, ReconcileStep

LEMMA CodeStep == TypeOK /\ MirrorInv /\ DistinctInv /\ CodeInv /\ [Next]_vars => CodeInv'
<1> SUFFICES ASSUME TypeOK, MirrorInv, DistinctInv, CodeInv, [Next]_vars PROVE CodeInv'
  OBVIOUS
<1>1. ASSUME NEW c \in Codes, NEW ip \in UNION {HandedTo[a] : a \in Agents}, CreateCode(c, ip)
      PROVE  CodeInv'
  <2> DEFINE y == [code |-> c, ip |-> ip]
  <2>1. /\ codes' = codes \cup {y} /\ issued' = issued \cup {y} /\ y.code = c
        /\ UNCHANGED <<disk, joining>> /\ \A x \in issued : x.code # c
    BY <1>1 DEF CreateCode
  <2> HIDE DEF y
  <2>2. \A d \in disk : d.code # c
    BY <2>1 DEF CodeInv
  <2> QED
    BY <2>1, <2>2 DEF CodeInv
<1>2. ASSUME NEW x \in codes, ExpireCode(x) PROVE CodeInv'
  BY <1>2 DEF ExpireCode, CodeInv, hub, wg, agents
<1>3. ASSUME NEW a \in Agents, NEW x \in issued, NEW k \in Keys, AgentSend(a, x, k)
      PROVE  CodeInv'
  BY <1>3 DEF AgentSend, CodeInv, hub, wg, agents
<1>4. ASSUME NEW a \in Agents, NEW m \in replies, AgentReceives(a, m) PROVE CodeInv'
  BY <1>4 DEF AgentReceives, Fault, CodeInv, hub, wg, agents
<1>5. ASSUME NEW a \in Agents, AgentGivesUp(a) PROVE CodeInv'
  BY <1>5 DEF AgentGivesUp, CodeInv, hub, wg, agents
<1>6. ASSUME NEW r \in requests, JoinRefuse(r) PROVE CodeInv'
  BY <1>6 DEF JoinRefuse, Fault, CodeInv, hub, wg, agents
<1>7. ASSUME NEW r \in requests, JoinAccept(r) PROVE CodeInv'
  <2>1. \E x \in codes : x.code = r.code /\ joining'.req = r
    BY <1>7, AcceptFacts
  <2>2. UNCHANGED <<codes, issued, disk>>
    BY <1>7 DEF JoinAccept
  <2> QED
    BY <2>1, <2>2 DEF CodeInv, DistinctInv
<1>8. CASE JoinWg
  <2>1. UNCHANGED <<codes, issued, disk>> /\ joining # None
    BY <1>8 DEF JoinWg
  <2>2. joining' = None \/ joining'.req = joining.req
    BY <1>8, <2>1 DEF JoinWg, TypeOK, Joining
  <2> QED
    BY <2>1, <2>2 DEF CodeInv
<1>9. CASE JoinSave
  <2>1. /\ joining # None /\ joining' = None /\ issued' = issued
        /\ codes' = codes \ LiveCode(joining.req) /\ disk' = devices \cup {NewDevice}
    BY <1>9 DEF JoinSave
  <2>2. devices = disk
    BY <2>1 DEF MirrorInv
  <2>3. NewDevice.code = joining.req.code
    BY <2>1, JoiningParts
  <2>4. \A x \in codes' : x \in codes /\ x.code # joining.req.code
    BY <2>1 DEF LiveCode
  <2> HIDE DEF NewDevice
  <2> QED
    BY <2>1, <2>2, <2>3, <2>4 DEF CodeInv
<1>10. CASE JoinSaveFails
  <2>1. UNCHANGED <<codes, issued, disk>> /\ joining # None
    BY <1>10 DEF JoinSaveFails
  <2>2. joining' = None \/ joining'.req = joining.req
    BY <1>10, <2>1 DEF JoinSaveFails, TypeOK, Joining
  <2> QED
    BY <2>1, <2>2 DEF CodeInv
<1>11. CASE JoinUndo
  BY <1>11 DEF JoinUndo, Fault, CodeInv, hub, wg, agents
<1>12. CASE ReconcileSnapshot
  BY <1>12 DEF ReconcileSnapshot, CodeInv, hub, wg, agents
<1>13. CASE ReconcileShow
  BY <1>13 DEF ReconcileShow, Fault, CodeInv, hub, wg, agents
<1>14. ASSUME NEW d \in reconDevices, ReconcileSet(d) PROVE CodeInv'
  BY <1>14 DEF ReconcileSet, Fault, CodeInv, hub, wg, agents
<1>15. CASE ReconcileEnd
  BY <1>15 DEF ReconcileEnd, CodeInv, hub, wg, agents
<1>16. CASE Crash
  BY <1>16 DEF Crash, Down, Fault, CodeInv, hub, wg, agents
<1>17. CASE Reboot
  BY <1>17 DEF Reboot, Down, Fault, CodeInv, hub, wg, agents
<1>18. CASE Restart
  BY <1>18 DEF Restart, CodeInv, hub, wg, agents
<1>19. CASE UNCHANGED vars
  BY <1>19 DEF vars, CodeInv, hub, wg, agents
<1> QED
  BY <1>1, <1>2, <1>3, <1>4, <1>5, <1>6, <1>7, <1>8, <1>9, <1>10, <1>11, <1>12, <1>13,
     <1>14, <1>15, <1>16, <1>17, <1>18, <1>19 DEF Next, AgentStep, JoinStep, ReconcileStep

LEMMA ReplyStep == TypeOK /\ MirrorInv /\ ReplyInv /\ [Next]_vars => ReplyInv'
<1> SUFFICES ASSUME TypeOK, MirrorInv, ReplyInv, [Next]_vars PROVE ReplyInv'
  OBVIOUS
<1>1. ASSUME NEW c \in Codes, NEW ip \in UNION {HandedTo[a] : a \in Agents}, CreateCode(c, ip)
      PROVE  ReplyInv'
  BY <1>1 DEF CreateCode, ReplyInv, hub, wg, agents
<1>2. ASSUME NEW x \in codes, ExpireCode(x) PROVE ReplyInv'
  BY <1>2 DEF ExpireCode, ReplyInv, hub, wg, agents
<1>3. ASSUME NEW a \in Agents, NEW x \in issued, NEW k \in Keys, AgentSend(a, x, k)
      PROVE  ReplyInv'
  BY <1>3 DEF AgentSend, ReplyInv, hub, wg, agents
<1>4. ASSUME NEW a \in Agents, NEW m \in replies, AgentReceives(a, m) PROVE ReplyInv'
  <2>1. /\ replies' \subseteq replies /\ disk' = disk
        /\ config' = config \/ (m.device # None /\ config' = [config EXCEPT ![a] = m.device])
    BY <1>4 DEF AgentReceives, hub
  <2> QED
    BY <2>1 DEF ReplyInv, TypeOK
<1>5. ASSUME NEW a \in Agents, AgentGivesUp(a) PROVE ReplyInv'
  BY <1>5 DEF AgentGivesUp, ReplyInv, hub, wg, agents
<1>6. ASSUME NEW r \in requests, JoinRefuse(r) PROVE ReplyInv'
  <2>1. r \in Request /\ Answer(r, None) /\ UNCHANGED <<disk, config>>
    BY <1>6 DEF JoinRefuse, TypeOK, hub, agents
  <2>2. \A m \in replies' : m \in replies \/ m.device = None
    BY <2>1, AnswerFacts
  <2> QED
    BY <2>1, <2>2 DEF ReplyInv
<1>7. ASSUME NEW r \in requests, JoinAccept(r) PROVE ReplyInv'
  BY <1>7 DEF JoinAccept, ReplyInv, hub, wg, agents
<1>8. CASE JoinWg
  <2>1. joining # None /\ UNCHANGED <<disk, config>>
    BY <1>8 DEF JoinWg, agents
  <2>2. Answer(joining.req, None) \/ UNCHANGED replies
    BY <1>8 DEF JoinWg
  <2>3. \A m \in replies' : m \in replies \/ m.device = None
    BY <2>1, <2>2, JoiningParts, AnswerFacts
  <2> QED
    BY <2>1, <2>3 DEF ReplyInv
<1>9. CASE JoinSave
  <2>1. /\ joining # None /\ Answer(joining.req, NewDevice) /\ config' = config
        /\ disk' = devices \cup {NewDevice}
    BY <1>9 DEF JoinSave, agents
  <2>2. devices = disk
    BY <2>1 DEF MirrorInv
  <2>3. NewDevice \in Device /\ joining.req \in Request
    BY <2>1, JoiningParts
  <2>4. \A m \in replies' : m \in replies \/ m.device = NewDevice
    BY <2>1, <2>3, AnswerFacts
  <2> HIDE DEF NewDevice
  <2> QED
    BY <2>1, <2>2, <2>4 DEF ReplyInv
<1>10. CASE JoinSaveFails
  <2>1. joining # None /\ UNCHANGED <<disk, config>>
    BY <1>10 DEF JoinSaveFails, agents
  <2>2. Answer(joining.req, None) \/ UNCHANGED replies
    BY <1>10 DEF JoinSaveFails
  <2>3. \A m \in replies' : m \in replies \/ m.device = None
    BY <2>1, <2>2, JoiningParts, AnswerFacts
  <2> QED
    BY <2>1, <2>3 DEF ReplyInv
<1>11. CASE JoinUndo
  <2>1. joining # None /\ UNCHANGED <<disk, config>>
    BY <1>11 DEF JoinUndo, agents
  <2>2. Answer(joining.req, None) \/ UNCHANGED replies
    BY <1>11 DEF JoinUndo
  <2>3. \A m \in replies' : m \in replies \/ m.device = None
    BY <2>1, <2>2, JoiningParts, AnswerFacts
  <2> QED
    BY <2>1, <2>3 DEF ReplyInv
<1>12. CASE ReconcileSnapshot
  BY <1>12 DEF ReconcileSnapshot, ReplyInv, hub, wg, agents
<1>13. CASE ReconcileShow
  BY <1>13 DEF ReconcileShow, Fault, ReplyInv, hub, wg, agents
<1>14. ASSUME NEW d \in reconDevices, ReconcileSet(d) PROVE ReplyInv'
  BY <1>14 DEF ReconcileSet, Fault, ReplyInv, hub, wg, agents
<1>15. CASE ReconcileEnd
  BY <1>15 DEF ReconcileEnd, ReplyInv, hub, wg, agents
<1>16. CASE Crash
  BY <1>16 DEF Crash, Down, Fault, ReplyInv, hub, wg, agents
<1>17. CASE Reboot
  BY <1>17 DEF Reboot, Down, Fault, ReplyInv, hub, wg, agents
<1>18. CASE Restart
  BY <1>18 DEF Restart, ReplyInv, hub, wg, agents
<1>19. CASE UNCHANGED vars
  BY <1>19 DEF vars, ReplyInv, hub, wg, agents
<1> QED
  BY <1>1, <1>2, <1>3, <1>4, <1>5, <1>6, <1>7, <1>8, <1>9, <1>10, <1>11, <1>12, <1>13,
     <1>14, <1>15, <1>16, <1>17, <1>18, <1>19 DEF Next, AgentStep, JoinStep, ReconcileStep

LEMMA StrayStep == TypeOK /\ MirrorInv /\ DistinctInv /\ StrayInv /\ [Next]_vars => StrayInv'
<1> SUFFICES ASSUME TypeOK, MirrorInv, DistinctInv, StrayInv, [Next]_vars
             PROVE  StrayInv'
  OBVIOUS
<1>1. ASSUME NEW c \in Codes, NEW ip \in UNION {HandedTo[a] : a \in Agents}, CreateCode(c, ip)
      PROVE  StrayInv'
  BY <1>1 DEF CreateCode, StrayInv, Added, hub, wg, agents
<1>2. ASSUME NEW x \in codes, ExpireCode(x) PROVE StrayInv'
  BY <1>2 DEF ExpireCode, StrayInv, Added, hub, wg, agents
<1>3. ASSUME NEW a \in Agents, NEW x \in issued, NEW k \in Keys, AgentSend(a, x, k)
      PROVE  StrayInv'
  BY <1>3 DEF AgentSend, StrayInv, Added, hub, wg, agents
<1>4. ASSUME NEW a \in Agents, NEW m \in replies, AgentReceives(a, m) PROVE StrayInv'
  BY <1>4 DEF AgentReceives, Fault, StrayInv, Added, hub, wg, agents
<1>5. ASSUME NEW a \in Agents, AgentGivesUp(a) PROVE StrayInv'
  BY <1>5 DEF AgentGivesUp, StrayInv, Added, hub, wg, agents
<1>6. ASSUME NEW r \in requests, JoinRefuse(r) PROVE StrayInv'
  BY <1>6 DEF JoinRefuse, Fault, StrayInv, Added, hub, wg, agents
<1>7. ASSUME NEW r \in requests, JoinAccept(r) PROVE StrayInv'
  <2>1. /\ joining'.adopted => joining'.step = "save"
        /\ joining = None
    BY <1>7, AcceptFacts
  <2>2. UNCHANGED <<allowed, disk, interrupted>>
    BY <1>7 DEF JoinAccept, wg
  <2> QED
    BY <2>1, <2>2 DEF StrayInv, Added
<1>8. CASE JoinWg
  <2>1. joining # None /\ joining.step = "wg" /\ UNCHANGED disk
    BY <1>8 DEF JoinWg
  <2>2. ~ joining.adopted /\ \A k : ~ Added(k)
    BY <2>1 DEF StrayInv, Added
  <2>3. joining.req.key \in Keys /\ joining.ip \in Hosts /\ joining \in Joining
    BY <2>1, JoiningParts DEF TypeOK
  <2>4. CASE UNCHANGED <<allowed, interrupted>> /\ joining' = None
    BY <2>1, <2>2, <2>4 DEF StrayInv
  <2>5. ASSUME allowed' = WgSet(joining.req.key, joining.ip)
        PROVE  \A k \in Keys : allowed'[k] # <<>> => k = joining.req.key \/ allowed[k] # <<>>
    BY <2>3, <2>5, SetFacts DEF TypeOK
  <2>6. CASE /\ allowed' = WgSet(joining.req.key, joining.ip) /\ joining' = None
             /\ interrupted' = interrupted \cup {joining.req.key}
    BY <2>1, <2>2, <2>5, <2>6 DEF StrayInv
  <2>7. CASE /\ allowed' = WgSet(joining.req.key, joining.ip) /\ UNCHANGED interrupted
             /\ joining' = [joining EXCEPT !.step = "save"]
    <3>1. /\ joining'.step = "save" /\ joining'.req = joining.req
          /\ joining'.adopted = joining.adopted /\ joining' \in Joining
      BY <2>3, <2>7 DEF Joining
    <3>2. joining' # None
      BY <3>1, NoneAssumption
    <3>3. Added(joining.req.key)'
      BY <2>2, <3>1, <3>2 DEF Added
    <3> QED
      BY <2>1, <2>2, <2>5, <2>7, <3>1, <3>3 DEF StrayInv
  <2> QED
    BY <1>8, <2>4, <2>6, <2>7 DEF JoinWg
<1>9. CASE JoinSave
  <2>1. /\ joining # None /\ joining' = None /\ disk' = devices \cup {NewDevice}
        /\ UNCHANGED <<allowed, interrupted>>
    BY <1>9 DEF JoinSave, wg
  <2>2. devices = disk
    BY <2>1 DEF MirrorInv
  <2>3. NewDevice.key = joining.req.key
    BY <2>1, JoiningParts
  <2> HIDE DEF NewDevice
  <2> QED
    BY <2>1, <2>2, <2>3 DEF StrayInv, Added
<1>10. CASE JoinSaveFails
  <2>1. joining # None /\ joining.step = "save" /\ UNCHANGED <<allowed, disk, interrupted>>
    BY <1>10 DEF JoinSaveFails, wg
  <2>2. joining.adopted \in BOOLEAN /\ joining \in Joining
    BY <2>1, JoiningParts DEF TypeOK
  <2>3. CASE joining.adopted
    <3>1. joining' = None
      BY <1>10, <2>3 DEF JoinSaveFails
    <3> QED
      BY <2>1, <2>3, <3>1 DEF StrayInv, Added
  <2>4. CASE ~ joining.adopted
    <3>1. joining' = [joining EXCEPT !.step = "undo"]
      BY <1>10, <2>4 DEF JoinSaveFails
    <3>2. /\ joining'.step = "undo" /\ joining'.req = joining.req
          /\ joining'.adopted = joining.adopted /\ joining' \in Joining
      BY <2>2, <3>1 DEF Joining
    <3>3. joining' # None
      BY <3>2, NoneAssumption
    <3> QED
      BY <2>1, <2>4, <3>2, <3>3 DEF StrayInv, Added
  <2> QED
    BY <2>2, <2>3, <2>4
<1>11. CASE JoinUndo
  <2>1. joining # None /\ joining.step = "undo" /\ joining' = None /\ disk' = disk
    BY <1>11 DEF JoinUndo
  <2>2. \A k \in Keys : Added(k) => k = joining.req.key
    BY DEF Added
  <2>3. CASE allowed' = WgRemove(joining.req.key) /\ interrupted' = interrupted
    <3>1. \A k \in Keys : allowed'[k] # <<>> => k # joining.req.key /\ allowed[k] # <<>>
      BY <2>3 DEF WgRemove, TypeOK
    <3> QED
      BY <2>1, <2>2, <2>3, <3>1 DEF StrayInv
  <2>4. CASE allowed' = allowed /\ interrupted' = interrupted \cup {joining.req.key}
    BY <2>1, <2>2, <2>4 DEF StrayInv
  <2> QED
    BY <1>11, <2>3, <2>4 DEF JoinUndo
<1>12. CASE ReconcileSnapshot
  BY <1>12 DEF ReconcileSnapshot, StrayInv, Added, hub, wg, agents
<1>13. CASE ReconcileShow
  BY <1>13 DEF ReconcileShow, Fault, StrayInv, Added, hub, wg, agents
<1>14. ASSUME NEW d \in reconDevices, ReconcileSet(d) PROVE StrayInv'
  <2>1. d \in disk /\ d.key \in Keys /\ d.ip \in Hosts /\ UNCHANGED <<disk, joining, interrupted>>
    BY <1>14 DEF ReconcileSet, MirrorInv, TypeOK, Device, hub
  <2>2. allowed' = allowed \/ allowed' = WgSet(d.key, d.ip)
    BY <1>14 DEF ReconcileSet
  <2>3. \A k \in Keys : allowed'[k] # <<>> => k = d.key \/ allowed[k] # <<>>
    BY <2>1, <2>2, SetFacts DEF TypeOK
  <2> QED
    BY <2>1, <2>3 DEF StrayInv, Added
<1>15. CASE ReconcileEnd
  BY <1>15 DEF ReconcileEnd, StrayInv, Added, hub, wg, agents
<1>16. CASE Crash
  <2>1. Down(allowed)
    BY <1>16 DEF Crash
  <2>2. joining' = None /\ allowed' = allowed /\ disk' = disk /\ interrupted \subseteq interrupted'
    BY <2>1 DEF Down
  <2>3. \A k \in Keys : Added(k) => k \in interrupted'
    BY <2>1 DEF Down, Added
  <2> QED
    BY <2>2, <2>3 DEF StrayInv
<1>17. CASE Reboot
  <2>1. Down(PrePeers)
    BY <1>17 DEF Reboot
  <2>2. joining' = None /\ allowed' = PrePeers /\ disk' = disk /\ interrupted \subseteq interrupted'
    BY <2>1 DEF Down
  <2>3. \A k \in Keys : Added(k) => k \in interrupted'
    BY <2>1 DEF Down, Added
  <2> QED
    BY <2>2, <2>3 DEF StrayInv
<1>18. CASE Restart
  BY <1>18 DEF Restart, StrayInv, Added, hub, wg, agents
<1>19. CASE UNCHANGED vars
  BY <1>19 DEF vars, StrayInv, Added, hub, wg, agents
<1> QED
  BY <1>1, <1>2, <1>3, <1>4, <1>5, <1>6, <1>7, <1>8, <1>9, <1>10, <1>11, <1>12, <1>13,
     <1>14, <1>15, <1>16, <1>17, <1>18, <1>19 DEF Next, AgentStep, JoinStep, ReconcileStep

LEMMA IndInit == Init => IndInv
<1> SUFFICES ASSUME Init PROVE IndInv
  OBVIOUS
<1>1. TypeOK
  <2>1. 0 \in 0..MaxAttempts /\ 0 \in 0..MaxFaults /\ PrePeers \in [Keys -> Seq(Hosts)]
    BY EnrollmentConstants
  <2>2. <<>> \in Seq(Hosts)
    OBVIOUS
  <2> QED
    BY <2>1, <2>2 DEF Init, TypeOK
<1>2. MirrorInv /\ DistinctInv /\ CodeInv /\ ReplyInv /\ StrayInv
  BY DEF Init, MirrorInv, DistinctInv, CodeInv, ReplyInv, StrayInv
<1> QED
  BY <1>1, <1>2 DEF IndInv

LEMMA IndStep == IndInv /\ [Next]_vars => IndInv'
BY TypeStep, MirrorStep, DistinctStep, CodeStep, ReplyStep, StrayStep DEF IndInv

\* The invariant of the registry, the codes and the table of peers.
THEOREM Invariance == Spec => []IndInv
BY IndInit, IndStep, PTL DEF Spec

\* Every variable has its type; in particular every device has an assignable
\* address (server.go, nextIP).
THEOREM TypeCorrect == Spec => []TypeOK
<1>1. IndInv => TypeOK
  BY DEF IndInv
<1> QED
  BY <1>1, Invariance, PTL

\* No two devices share a key or an address, on disk or in memory, and none has
\* the address of the hub (server.go, join).
THEOREM KeysAndAddressesUnique == Spec => []DevicesDistinct
<1>1. IndInv => DevicesDistinct
  BY DEF IndInv, MirrorInv, DistinctInv, DevicesDistinct, TypeOK
<1> QED
  BY <1>1, Invariance, PTL

\* A code admits one device, whatever is lost and however often the hub
\* restarts (server.go, createCode and join).
THEOREM OneDevicePerCode == Spec => []CodeSingleUse
<1>1. IndInv => CodeSingleUse
  BY DEF IndInv, MirrorInv, CodeInv, CodeSingleUse, TypeOK
<1> QED
  BY <1>1, Invariance, PTL

\* A device that was told it is enrolled stays in the registry (server.go, join
\* answers after persist).
THEOREM JoinIsDurable == Spec => []EnrolledIsRegistered
<1>1. IndInv => EnrolledIsRegistered
  BY DEF IndInv, MirrorInv, ReplyInv, EnrolledIsRegistered
<1> QED
  BY <1>1, Invariance, PTL

\* No peer is left in the kernel's table by a join that failed, unless its undo
\* did not run or did not succeed (server.go, join).
THEOREM PeersAccountedFor == Spec => []NoStrayPeers
<1>1. IndInv => NoStrayPeers
  BY DEF IndInv, MirrorInv, StrayInv, Added, NoStrayPeers
<1> QED
  BY <1>1, Invariance, PTL

-----------------------------------------------------------------------------
(* The registry is that of DeviceRegistry.                                 *)

LEMMA AdmitStep == IndInv /\ AdmitInv /\ [Next]_vars => AdmitInv'
<1> SUFFICES ASSUME TypeOK, MirrorInv, DistinctInv, AdmitInv, [Next]_vars PROVE AdmitInv'
  BY DEF IndInv
<1>1. ASSUME NEW c \in Codes, NEW ip \in UNION {HandedTo[a] : a \in Agents}, CreateCode(c, ip)
      PROVE  AdmitInv'
  <2>1. issued \subseteq issued' /\ UNCHANGED <<joining, replies, config, pc>>
    BY <1>1 DEF CreateCode, agents
  <2> QED
    BY <2>1 DEF AdmitInv
<1>2. ASSUME NEW x \in codes, ExpireCode(x) PROVE AdmitInv'
  BY <1>2 DEF ExpireCode, AdmitInv, agents
<1>3. ASSUME NEW a \in Agents, NEW x \in issued, NEW k \in Keys, AgentSend(a, x, k)
      PROVE  AdmitInv'
  <2>1. /\ UNCHANGED <<issued, joining, replies, config>> /\ config[a] = None
        /\ pc' = [pc EXCEPT ![a] = "waiting"]
    BY <1>3 DEF AgentSend, hub
  <2> QED
    BY <2>1 DEF AdmitInv, TypeOK
<1>4. ASSUME NEW a \in Agents, NEW m \in replies, AgentReceives(a, m) PROVE AdmitInv'
  <2>1. /\ UNCHANGED <<issued, joining>> /\ replies' \subseteq replies /\ pc[a] = "waiting"
        /\ \/ config' = [config EXCEPT ![a] = m.device] /\ pc' = [pc EXCEPT ![a] = "joined"]
           \/ config' = config /\ pc' = [pc EXCEPT ![a] = "new"]
    BY <1>4 DEF AgentReceives, hub
  <2> QED
    BY <2>1 DEF AdmitInv, TypeOK
<1>5. ASSUME NEW a \in Agents, AgentGivesUp(a) PROVE AdmitInv'
  <2>1. /\ UNCHANGED <<issued, joining, config>> /\ replies' \subseteq replies
        /\ pc[a] = "waiting" /\ pc' = [pc EXCEPT ![a] = "new"]
    BY <1>5 DEF AgentGivesUp, hub
  <2> QED
    BY <2>1 DEF AdmitInv, TypeOK
<1>6. ASSUME NEW r \in requests, JoinRefuse(r) PROVE AdmitInv'
  <2>1. r \in Request /\ Answer(r, None) /\ UNCHANGED <<issued, joining, config, pc>>
    BY <1>6 DEF JoinRefuse, TypeOK, hub, agents
  <2>2. \A m \in replies' : m \in replies \/ m.device = None
    BY <2>1, AnswerFacts
  <2> QED
    BY <2>1, <2>2 DEF AdmitInv
<1>7. ASSUME NEW r \in requests, JoinAccept(r) PROVE AdmitInv'
  <2>1. \E x \in codes : x.code = r.code /\ joining'.req = r /\ (x.ip # NoIP => joining'.ip = x.ip)
    BY <1>7, AcceptFacts
  <2>2. UNCHANGED <<issued, replies, config, pc>>
    BY <1>7 DEF JoinAccept, agents
  <2> QED
    BY <2>1, <2>2 DEF AdmitInv, DistinctInv
<1>8. CASE JoinWg \/ JoinSaveFails \/ JoinUndo
  <2>1. joining # None /\ UNCHANGED <<issued, config, pc>>
    BY <1>8 DEF JoinWg, JoinSaveFails, JoinUndo, agents
  <2>2. Answer(joining.req, None) \/ UNCHANGED replies
    BY <1>8 DEF JoinWg, JoinSaveFails, JoinUndo
  <2>3. \A m \in replies' : m \in replies \/ m.device = None
    BY <2>1, <2>2, JoiningParts, AnswerFacts
  <2>4. joining' = None \/ (joining'.req = joining.req /\ joining'.ip = joining.ip)
    BY <1>8, <2>1 DEF JoinWg, JoinSaveFails, JoinUndo, TypeOK, Joining
  <2> QED
    BY <2>1, <2>3, <2>4 DEF AdmitInv
<1>9. CASE JoinSave
  <2>1. /\ joining # None /\ joining' = None /\ Answer(joining.req, NewDevice)
        /\ UNCHANGED <<issued, config, pc>>
    BY <1>9 DEF JoinSave, agents
  <2>2. /\ NewDevice \in Device /\ joining.req \in Request
        /\ NewDevice.id[1] = joining.req.agent
    BY <2>1, JoiningParts
  <2> HIDE DEF NewDevice
  <2>3. \A m \in replies' :
           m \in replies \/ (m.device = NewDevice /\ m.agent = joining.req.agent)
    BY <2>1, <2>2, AnswerFacts
  <2> QED
    BY <2>1, <2>2, <2>3 DEF AdmitInv
<1>10. CASE ReconcileStep \/ Restart \/ UNCHANGED vars
  <2>1. UNCHANGED <<issued, joining, replies, config, pc>>
    BY <1>10 DEF ReconcileStep, ReconcileSnapshot, ReconcileShow, ReconcileSet, ReconcileEnd,
                 Restart, vars, hub, agents
  <2> QED
    BY <2>1 DEF AdmitInv
<1>11. CASE Crash \/ Reboot
  BY <1>11 DEF Crash, Reboot, Down, AdmitInv, agents
<1> QED
  BY <1>1, <1>2, <1>3, <1>4, <1>5, <1>6, <1>7, <1>8, <1>9, <1>10, <1>11
     DEF Next, AgentStep, JoinStep

\* A new code, a join that is saved and an agent that stores its answer are
\* the steps of the registry; nothing else changes it.
LEMMA RegistryStep == IndInv /\ AdmitInv /\ [Next]_vars => [Registry!Next]_(Registry!vars)
<1> SUFFICES ASSUME IndInv, AdmitInv, [Next]_vars PROVE [Registry!Next]_(Registry!vars)
  OBVIOUS
<1> USE DEF Registry!vars
<1>1. ASSUME NEW c \in Codes, NEW ip \in UNION {HandedTo[a] : a \in Agents}, CreateCode(c, ip)
      PROVE  Registry!Next
  <2> DEFINE y == [code |-> c, ip |-> ip]
  <2>1. ip \in Hosts \cup {NoIP}
    BY EnrollmentConstants
  <2>2. y \in Code /\ y.code = c
    BY <2>1 DEF Code
  <2>3. Registry!Issue(y)
    BY <1>1, <2>2 DEF CreateCode, Registry!Issue, agents
  <2> HIDE DEF y
  <2> QED
    BY <2>2, <2>3 DEF Registry!Next
<1>2. CASE JoinSave
  <2>1. /\ joining # None /\ disk' = devices \cup {NewDevice} /\ UNCHANGED <<issued, config>>
    BY <1>2 DEF JoinSave, agents
  <2>2. devices = disk
    BY <2>1 DEF IndInv, MirrorInv
  <2>3. /\ NewDevice \in Device /\ NewDevice.key = joining.req.key
        /\ NewDevice.ip = joining.ip /\ NewDevice.code = joining.req.code
    BY <2>1, JoiningParts DEF IndInv
  <2> HIDE DEF NewDevice
  <2>4. \E x \in issued : x.code = NewDevice.code /\ x.ip \in {NoIP, NewDevice.ip}
    BY <2>1, <2>3 DEF AdmitInv
  <2>5. \A e \in disk : /\ e.code # NewDevice.code /\ e.key # NewDevice.key
                        /\ e.ip # NewDevice.ip
    BY <2>1, <2>3 DEF IndInv, DistinctInv, CodeInv
  <2>6. NewDevice.ip # ServerIP
    BY <2>1, <2>3 DEF IndInv, DistinctInv
  <2>7. Registry!Register(NewDevice)
    BY <2>1, <2>2, <2>4, <2>5, <2>6 DEF Registry!Register
  <2> QED
    BY <2>3, <2>7 DEF Registry!Next
<1>3. ASSUME NEW a \in Agents, NEW m \in replies, AgentReceives(a, m)
      PROVE  Registry!Next \/ UNCHANGED Registry!vars
  <2>1. /\ pc[a] = "waiting" /\ m.agent = a /\ UNCHANGED <<issued, disk>>
        /\ \/ m.device # None /\ config' = [config EXCEPT ![a] = m.device]
           \/ UNCHANGED config
    BY <1>3 DEF AgentReceives, hub
  <2>2. CASE m.device # None /\ config' = [config EXCEPT ![a] = m.device]
    <3>1. m.device \in disk /\ m.device \in Device /\ m.device.id[1] = a /\ config[a] = None
      BY <2>1, <2>2 DEF IndInv, ReplyInv, TypeOK, AdmitInv
    <3>2. Registry!Enrol(a, m.device)
      BY <2>1, <2>2, <3>1 DEF Registry!Enrol
    <3> QED
      BY <3>1, <3>2 DEF Registry!Next
  <2> QED
    BY <2>1, <2>2
<1>4. ASSUME \/ \E x \in codes : ExpireCode(x)
             \/ \E a \in Agents, x \in issued, k \in Keys : AgentSend(a, x, k)
             \/ \E a \in Agents : AgentGivesUp(a)
      PROVE  UNCHANGED Registry!vars
  BY <1>4 DEF ExpireCode, AgentSend, AgentGivesUp, hub, agents
<1>5. ASSUME \/ \E r \in requests : JoinRefuse(r) \/ JoinAccept(r)
             \/ JoinWg \/ JoinSaveFails \/ JoinUndo
      PROVE  UNCHANGED Registry!vars
  BY <1>5 DEF JoinRefuse, JoinAccept, JoinWg, JoinSaveFails, JoinUndo, hub, agents
<1>6. CASE ReconcileStep
  BY <1>6 DEF ReconcileStep, ReconcileSnapshot, ReconcileShow, ReconcileSet, ReconcileEnd,
              hub, agents
<1>7. CASE Crash \/ Reboot \/ Restart \/ UNCHANGED vars
  BY <1>7 DEF Crash, Reboot, Down, Restart, vars, hub, agents
<1> QED
  BY <1>1, <1>2, <1>3, <1>4, <1>5, <1>6, <1>7 DEF Next, AgentStep, JoinStep

\* Enrolment implements the durable registry of DeviceRegistry: under lost and
\* repeated requests, failing saves, crashes and reboots a code admits one device
\* with the address it was made for, and an agent stores nothing but a device of
\* its own that is on disk (server.go, createCode and join; agent.go, join).
THEOREM RegistryImplemented == Spec => ImplementsRegistry
<1>1. Init => AdmitInv /\ Registry!Init
  BY DEF Init, AdmitInv, Registry!Init
<1>2. Spec => []AdmitInv
  BY <1>1, AdmitStep, Invariance, PTL DEF Spec
<1> QED
  BY <1>1, <1>2, RegistryStep, Invariance, PTL DEF Spec, ImplementsRegistry, Registry!Spec

-----------------------------------------------------------------------------
(* Routes, with codes as the documentation asks for them.                  *)

\* What is not at the first place is at none.
LEMMA FirstOnly ==
    ASSUME NEW s \in Seq(Hosts), Len(s) <= 1, NEW i \in DOMAIN s
    PROVE  s # <<>> /\ s[i] = Head(s)
OBVIOUS

\* An accepted join: its address is nobody else's, and the key of a tunnel takes
\* over the address of the tunnel.
LEMMA AcceptOwned ==
    ASSUME TypeOK, MirrorInv, DistinctInv, TunnelInv, AdoptInv, NEW r \in requests, JoinAccept(r)
    PROVE  /\ Owned(allowed, joining'.ip, r.key) /\ joining'.req = r
           /\ PrePeers[r.key] # <<>> => joining'.adopted /\ joining'.ip = Head(PrePeers[r.key])
<1>1. PICK x \in codes :
          /\ x.code = r.code /\ joining'.req = r
          /\ joining'.ip = AddressFor(x)
          /\ joining'.adopted = (r.key \in HeldBy(allowed, AddressFor(x)))
          /\ x.ip # NoIP => joining'.ip = x.ip
          /\ x.ip = NoIP => \A k \in Keys : joining'.ip \notin Addresses(allowed, k)
          /\ ~ RouteOfAnother(r, joining'.ip)
  BY AcceptFacts
<1> DEFINE ip == joining'.ip
<1>2. x \in issued /\ r \in Request /\ r.key \in Keys
  BY DEF DistinctInv, TypeOK, Request
<1>3. Owned(allowed, ip, r.key)
  <2> SUFFICES ASSUME NEW k \in Keys, k # r.key, ip \in Addresses(allowed, k)
               PROVE  FALSE
    BY DEF Owned
  <2>1. x.ip # NoIP /\ ip = x.ip
    BY <1>1
  <2>2. PICK i \in DOMAIN allowed[k] : ip = allowed[k][i]
    BY DEF Addresses
  <2>3. allowed[k] \in Seq(Hosts)
    BY DEF TypeOK
  <2>4. allowed[k] # <<>> /\ Head(allowed[k]) = ip
    <3>1. CASE PrePeers[k] # <<>>
      <4>1. allowed[k] = PrePeers[k]
        BY <3>1 DEF TunnelInv
      <4>2. x.ip \in Addresses(PrePeers, k)
        BY <2>1, <2>2, <4>1 DEF Addresses
      <4> QED
        BY <1>2, <2>1, <3>1, <4>1, <4>2 DEF AdoptInv
    <3>2. CASE PrePeers[k] = <<>>
      BY <2>2, <2>3, <3>2, FirstOnly DEF TunnelInv
    <3> QED
      BY <3>1, <3>2
  <2>5. k \in HeldBy(allowed, ip)
    BY <2>4 DEF HeldBy
  <2> QED
    BY <1>1, <2>5 DEF RouteOfAnother
<1>4. ASSUME PrePeers[r.key] # <<>> PROVE joining'.adopted /\ ip = Head(PrePeers[r.key])
  <2>1. x.ip = Head(PrePeers[r.key])
    BY <1>1, <1>2, <1>4 DEF AdoptInv
  <2>2. PrePeers[r.key] \in Seq(Hosts)
    BY <1>2, EnrollmentConstants
  <2>3. Head(PrePeers[r.key]) \in Hosts
    BY <1>4, <2>2
  <2>4. x.ip # NoIP
    BY <2>1, <2>3, EnrollmentConstants
  <2>5. allowed[r.key] = PrePeers[r.key]
    BY <1>2, <1>4 DEF TunnelInv
  <2>6. r.key \in HeldBy(allowed, ip)
    BY <1>1, <1>2, <1>4, <2>1, <2>4, <2>5 DEF HeldBy
  <2> QED
    BY <1>1, <2>1, <2>4, <2>6
<1> QED
  BY <1>1, <1>3, <1>4

\* Giving an address to the peer that alone may have it.
LEMMA SetKeepsRoutes ==
    ASSUME TypeOK, TunnelInv, OwnedInv, NEW k \in Keys, NEW ip \in Hosts,
           PrePeers[k] = <<>>, Owned(allowed, ip, k), allowed' = WgSet(k, ip)
    PROVE  /\ \A x \in Keys : x # k => allowed'[x] = allowed[x]
           /\ \A x \in Keys : x # k => Addresses(allowed', x) = Addresses(allowed, x)
           /\ allowed'[k] = <<ip>> /\ Addresses(allowed', k) = {ip} /\ Len(allowed'[k]) <= 1
           /\ \A x, y \in Keys : x # y => Addresses(allowed', x) \cap Addresses(allowed', y) = {}
           /\ \A x, y \in Keys : x # y => Addresses(allowed, x) \cap Addresses(allowed', y) = {}
           /\ \A z, j : z # ip /\ Owned(allowed, z, j) => Owned(allowed', z, j)
           /\ Owned(allowed', ip, k)
<1>1. allowed' = [allowed EXCEPT ![k] = <<ip>>] /\ allowed \in [Keys -> Seq(Hosts)]
  BY SetFacts DEF TypeOK
<1>2. (\A x \in Keys : x # k => allowed'[x] = allowed[x]) /\ allowed'[k] = <<ip>>
  BY <1>1
<1>3. \A x \in Keys : x # k => Addresses(allowed', x) = Addresses(allowed, x)
  BY <1>2 DEF Addresses
<1>4. Addresses(allowed', k) = {ip} /\ Len(allowed'[k]) <= 1
  BY <1>2 DEF Addresses
<1>5. \A x \in Keys : x # k => ip \notin Addresses(allowed, x)
  BY DEF Owned
<1>6. /\ \A x, y \in Keys : x # y => Addresses(allowed', x) \cap Addresses(allowed', y) = {}
      /\ \A x, y \in Keys : x # y => Addresses(allowed, x) \cap Addresses(allowed', y) = {}
  BY <1>3, <1>4, <1>5 DEF OwnedInv
<1>7. /\ \A z, j : z # ip /\ Owned(allowed, z, j) => Owned(allowed', z, j)
      /\ Owned(allowed', ip, k)
  BY <1>3, <1>4, <1>5 DEF Owned
<1> QED
  BY <1>2, <1>3, <1>4, <1>6, <1>7

\* The same for a peer that is removed.
LEMMA RemoveKeepsRoutes ==
    ASSUME TypeOK, TunnelInv, OwnedInv, NEW k \in Keys, PrePeers[k] = <<>>, allowed' = WgRemove(k)
    PROVE  /\ \A x \in Keys : x # k => allowed'[x] = allowed[x]
           /\ Len(allowed'[k]) <= 1
           /\ \A x \in Keys : Addresses(allowed', x) \subseteq Addresses(allowed, x)
<1>1. (\A x \in Keys : x # k => allowed'[x] = allowed[x]) /\ allowed'[k] = <<>>
  BY DEF WgRemove, TypeOK
<1>2. \A x \in Keys : x # k => Addresses(allowed', x) = Addresses(allowed, x)
  BY <1>1 DEF Addresses
<1>3. Addresses(allowed', k) = {}
  BY <1>1 DEF Addresses
<1> QED
  BY <1>1, <1>2, <1>3

\* reconcilePeers never touches a tunnel: somebody had its address, the tunnel.
LEMMA ReconcileSetsNoTunnel ==
    ASSUME TypeOK, MirrorInv, TunnelInv, OwnedInv, AdoptInv, NEW d \in reconDevices, ReconcileSet(d),
           allowed' # allowed
    PROVE  /\ d.key \in Keys /\ d.ip \in Hosts /\ d \in disk /\ PrePeers[d.key] = <<>>
           /\ Owned(allowed, d.ip, d.key) /\ allowed' = WgSet(d.key, d.ip)
<1>1. /\ d \in disk /\ d.key \in Keys /\ d.ip \in Hosts
  BY DEF MirrorInv, TypeOK, Device
<1>2. allowed' = WgSet(d.key, d.ip) /\ HeldBy(reconSeen, d.ip) = {} /\ recon = "set"
  BY DEF ReconcileSet
<1>3. ASSUME PrePeers[d.key] # <<>> PROVE FALSE
  <2>1. reconSeen[d.key] = PrePeers[d.key] /\ d.ip = Head(PrePeers[d.key])
    BY <1>1, <1>2, <1>3 DEF TunnelInv, AdoptInv
  <2> QED
    BY <1>1, <1>2, <1>3, <2>1 DEF HeldBy
<1> QED
  BY <1>1, <1>2, <1>3 DEF OwnedInv

LEMMA TunnelStep ==
    TypeOK /\ MirrorInv /\ DistinctInv /\ StrayInv /\ RouteInv /\ [Next]_vars => TunnelInv'
<1> SUFFICES ASSUME TypeOK, MirrorInv, DistinctInv, StrayInv,
                    TunnelInv, OwnedInv, AdoptInv, [Next]_vars
             PROVE  TunnelInv'
  BY DEF RouteInv
<1>1. ASSUME NEW c \in Codes, NEW ip \in UNION {HandedTo[a] : a \in Agents}, CreateCode(c, ip)
      PROVE  TunnelInv'
  BY <1>1 DEF CreateCode, TunnelInv, hub, wg, agents
<1>2. ASSUME NEW x \in codes, ExpireCode(x) PROVE TunnelInv'
  BY <1>2 DEF ExpireCode, TunnelInv, hub, wg, agents
<1>3. ASSUME NEW a \in Agents, NEW x \in issued, NEW k \in Keys, AgentSend(a, x, k)
      PROVE  TunnelInv'
  BY <1>3 DEF AgentSend, TunnelInv, hub, wg, agents
<1>4. ASSUME NEW a \in Agents, NEW m \in replies, AgentReceives(a, m) PROVE TunnelInv'
  BY <1>4 DEF AgentReceives, Fault, TunnelInv, hub, wg, agents
<1>5. ASSUME NEW a \in Agents, AgentGivesUp(a) PROVE TunnelInv'
  BY <1>5 DEF AgentGivesUp, TunnelInv, hub, wg, agents
<1>6. ASSUME NEW r \in requests, JoinRefuse(r) PROVE TunnelInv'
  BY <1>6 DEF JoinRefuse, Fault, TunnelInv, hub, wg, agents
<1>7. ASSUME NEW r \in requests, JoinAccept(r) PROVE TunnelInv'
  BY <1>7 DEF JoinAccept, TunnelInv, hub, wg, agents
<1>8. CASE JoinWg
  <2>1. joining # None /\ joining.step = "wg"
    BY <1>8 DEF JoinWg
  <2>2. joining.req.key \in Keys /\ joining.ip \in Hosts /\ PrePeers[joining.req.key] = <<>>
        /\ Owned(allowed, joining.ip, joining.req.key)
    BY <2>1, JoiningParts DEF StrayInv, AdoptInv, OwnedInv
  <2>3. UNCHANGED <<recon, reconSeen>>
    BY <1>8 DEF JoinWg
  <2>4. CASE allowed' = allowed
    BY <2>3, <2>4 DEF TunnelInv
  <2>5. CASE allowed' = WgSet(joining.req.key, joining.ip)
    <3>1. /\ \A x \in Keys : x # joining.req.key => allowed'[x] = allowed[x]
          /\ Len(allowed'[joining.req.key]) <= 1
      BY <2>2, <2>5, SetKeepsRoutes
    <3> QED
      BY <2>2, <2>3, <3>1 DEF TunnelInv
  <2> QED
    BY <1>8, <2>4, <2>5 DEF JoinWg
<1>9. CASE JoinSave
  BY <1>9 DEF JoinSave, TunnelInv, hub, wg, agents
<1>10. CASE JoinSaveFails
  BY <1>10 DEF JoinSaveFails, Fault, TunnelInv, hub, wg, agents
<1>11. CASE JoinUndo
  <2>1. joining # None /\ joining.step = "undo"
    BY <1>11 DEF JoinUndo
  <2>2. joining.req.key \in Keys /\ PrePeers[joining.req.key] = <<>>
    BY <2>1, JoiningParts DEF StrayInv, AdoptInv
  <2>3. UNCHANGED <<recon, reconSeen>>
    BY <1>11 DEF JoinUndo
  <2>4. CASE allowed' = allowed
    BY <2>3, <2>4 DEF TunnelInv
  <2>5. CASE allowed' = WgRemove(joining.req.key)
    <3>1. /\ \A x \in Keys : x # joining.req.key => allowed'[x] = allowed[x]
          /\ Len(allowed'[joining.req.key]) <= 1
      BY <2>2, <2>5, RemoveKeepsRoutes
    <3> QED
      BY <2>2, <2>3, <3>1 DEF TunnelInv
  <2> QED
    BY <1>11, <2>4, <2>5 DEF JoinUndo
<1>12. CASE ReconcileSnapshot
  BY <1>12 DEF ReconcileSnapshot, TunnelInv, hub, wg, agents
<1>13. CASE ReconcileShow
  BY <1>13 DEF ReconcileShow, Fault, TunnelInv, hub, wg, agents
<1>14. ASSUME NEW d \in reconDevices, ReconcileSet(d) PROVE TunnelInv'
  <2>1. UNCHANGED <<recon, reconSeen>>
    BY <1>14 DEF ReconcileSet
  <2>2. CASE allowed' = allowed
    BY <2>1, <2>2 DEF TunnelInv
  <2>3. CASE allowed' # allowed
    <3>1. /\ d.key \in Keys /\ d.ip \in Hosts /\ PrePeers[d.key] = <<>>
          /\ Owned(allowed, d.ip, d.key) /\ allowed' = WgSet(d.key, d.ip)
      BY <1>14, <2>3, ReconcileSetsNoTunnel
    <3>2. /\ \A x \in Keys : x # d.key => allowed'[x] = allowed[x]
          /\ Len(allowed'[d.key]) <= 1
      BY <3>1, SetKeepsRoutes
    <3> QED
      BY <2>1, <3>1, <3>2 DEF TunnelInv
  <2> QED
    BY <2>2, <2>3
<1>15. CASE ReconcileEnd
  BY <1>15 DEF ReconcileEnd, TunnelInv, hub, wg, agents
<1>16. CASE Crash
  BY <1>16 DEF Crash, Down, Fault, TunnelInv, hub, wg, agents
<1>17. CASE Reboot
  <2>1. allowed' = PrePeers /\ recon' = "idle"
    BY <1>17 DEF Reboot, Down
  <2>2. \A k \in Keys : PrePeers[k] = <<>> => Len(PrePeers[k]) <= 1
    OBVIOUS
  <2> QED
    BY <2>1, <2>2 DEF TunnelInv
<1>18. CASE Restart
  BY <1>18 DEF Restart, TunnelInv, hub, wg, agents
<1>19. CASE UNCHANGED vars
  BY <1>19 DEF vars, TunnelInv, hub, wg, agents
<1> QED
  BY <1>1, <1>2, <1>3, <1>4, <1>5, <1>6, <1>7, <1>8, <1>9, <1>10, <1>11, <1>12, <1>13,
     <1>14, <1>15, <1>16, <1>17, <1>18, <1>19 DEF Next, AgentStep, JoinStep, ReconcileStep

LEMMA OwnedStep ==
    TypeOK /\ MirrorInv /\ DistinctInv /\ StrayInv /\ RouteInv /\ [Next]_vars => OwnedInv'
<1> SUFFICES ASSUME TypeOK, MirrorInv, DistinctInv, StrayInv,
                    TunnelInv, OwnedInv, AdoptInv, [Next]_vars
             PROVE  OwnedInv'
  BY DEF RouteInv
<1>1. ASSUME NEW c \in Codes, NEW ip \in UNION {HandedTo[a] : a \in Agents}, CreateCode(c, ip)
      PROVE  OwnedInv'
  BY <1>1 DEF CreateCode, OwnedInv, hub, wg, agents
<1>2. ASSUME NEW x \in codes, ExpireCode(x) PROVE OwnedInv'
  BY <1>2 DEF ExpireCode, OwnedInv, hub, wg, agents
<1>3. ASSUME NEW a \in Agents, NEW x \in issued, NEW k \in Keys, AgentSend(a, x, k)
      PROVE  OwnedInv'
  BY <1>3 DEF AgentSend, OwnedInv, hub, wg, agents
<1>4. ASSUME NEW a \in Agents, NEW m \in replies, AgentReceives(a, m) PROVE OwnedInv'
  BY <1>4 DEF AgentReceives, Fault, OwnedInv, hub, wg, agents
<1>5. ASSUME NEW a \in Agents, AgentGivesUp(a) PROVE OwnedInv'
  BY <1>5 DEF AgentGivesUp, OwnedInv, hub, wg, agents
<1>6. ASSUME NEW r \in requests, JoinRefuse(r) PROVE OwnedInv'
  BY <1>6 DEF JoinRefuse, Fault, OwnedInv, hub, wg, agents
<1>7. ASSUME NEW r \in requests, JoinAccept(r) PROVE OwnedInv'
  <2>1. Owned(allowed, joining'.ip, r.key) /\ joining'.req = r
    BY <1>7, AcceptOwned
  <2>2. UNCHANGED <<allowed, disk>>
    BY <1>7 DEF JoinAccept, wg
  <2> QED
    BY <2>1, <2>2 DEF OwnedInv
<1>8. CASE JoinWg
  <2>1. joining # None /\ joining.step = "wg"
    BY <1>8 DEF JoinWg
  <2>2. joining.req.key \in Keys /\ joining.ip \in Hosts /\ PrePeers[joining.req.key] = <<>>
        /\ Owned(allowed, joining.ip, joining.req.key)
    BY <2>1, JoiningParts DEF StrayInv, AdoptInv, OwnedInv
  <2>3. disk' = disk
    BY <1>8 DEF JoinWg
  <2>4. joining' = None \/ (joining'.req = joining.req /\ joining'.ip = joining.ip)
    BY <1>8, <2>1 DEF JoinWg, TypeOK, Joining
  <2>5. CASE allowed' = allowed
    BY <2>1, <2>3, <2>4, <2>5 DEF OwnedInv
  <2>6. CASE allowed' = WgSet(joining.req.key, joining.ip)
    <3>1. /\ \A x, y \in Keys : x # y => Addresses(allowed', x) \cap Addresses(allowed', y) = {}
          /\ \A z, j : z # joining.ip /\ Owned(allowed, z, j) => Owned(allowed', z, j)
          /\ Owned(allowed', joining.ip, joining.req.key)
      BY <2>2, <2>6, SetKeepsRoutes
    <3>2. \A d \in disk : d.ip # joining.ip /\ Owned(allowed, d.ip, d.key)
      BY <2>1 DEF DistinctInv, OwnedInv
    <3> QED
      BY <2>3, <2>4, <3>1, <3>2 DEF OwnedInv
  <2> QED
    BY <1>8, <2>5, <2>6 DEF JoinWg
<1>9. CASE JoinSave
  <2>1. /\ joining # None /\ joining' = None /\ allowed' = allowed
        /\ disk' = devices \cup {NewDevice}
    BY <1>9 DEF JoinSave, wg
  <2>2. devices = disk
    BY <2>1 DEF MirrorInv
  <2>3. NewDevice.key = joining.req.key /\ NewDevice.ip = joining.ip
    BY <2>1, JoiningParts
  <2> HIDE DEF NewDevice
  <2> QED
    BY <2>1, <2>2, <2>3 DEF OwnedInv
<1>10. CASE JoinSaveFails
  <2>1. joining # None /\ UNCHANGED <<allowed, disk>>
    BY <1>10 DEF JoinSaveFails, wg
  <2>2. joining' = None \/ (joining'.req = joining.req /\ joining'.ip = joining.ip)
    BY <1>10, <2>1 DEF JoinSaveFails, TypeOK, Joining
  <2> QED
    BY <2>1, <2>2 DEF OwnedInv
<1>11. CASE JoinUndo
  <2>1. joining # None /\ joining.step = "undo"
    BY <1>11 DEF JoinUndo
  <2>2. joining.req.key \in Keys /\ PrePeers[joining.req.key] = <<>>
    BY <2>1, JoiningParts DEF StrayInv, AdoptInv
  <2>3. disk' = disk /\ joining' = None
    BY <1>11 DEF JoinUndo
  <2>4. CASE allowed' = allowed
    BY <2>3, <2>4 DEF OwnedInv
  <2>5. CASE allowed' = WgRemove(joining.req.key)
    <3>1. \A x \in Keys : Addresses(allowed', x) \subseteq Addresses(allowed, x)
      BY <2>2, <2>5, RemoveKeepsRoutes
    <3> QED
      BY <2>3, <3>1 DEF OwnedInv, Owned
  <2> QED
    BY <1>11, <2>4, <2>5 DEF JoinUndo
<1>12. CASE ReconcileSnapshot
  BY <1>12 DEF ReconcileSnapshot, OwnedInv, hub, wg, agents
<1>13. CASE ReconcileShow
  BY <1>13 DEF ReconcileShow, Fault, OwnedInv, hub, wg, agents
<1>14. ASSUME NEW d \in reconDevices, ReconcileSet(d) PROVE OwnedInv'
  <2>1. UNCHANGED <<disk, joining>>
    BY <1>14 DEF ReconcileSet, hub
  <2>2. CASE allowed' = allowed
    BY <2>1, <2>2 DEF OwnedInv
  <2>3. CASE allowed' # allowed
    <3>1. /\ d.key \in Keys /\ d.ip \in Hosts /\ d \in disk /\ PrePeers[d.key] = <<>>
          /\ Owned(allowed, d.ip, d.key) /\ allowed' = WgSet(d.key, d.ip)
      BY <1>14, <2>3, ReconcileSetsNoTunnel
    <3>2. /\ \A x, y \in Keys : x # y => Addresses(allowed', x) \cap Addresses(allowed', y) = {}
          /\ \A z, j : z # d.ip /\ Owned(allowed, z, j) => Owned(allowed', z, j)
          /\ Owned(allowed', d.ip, d.key)
      BY <3>1, SetKeepsRoutes
    <3>3. \A e \in disk : e.ip # d.ip \/ e = d
      BY <3>1 DEF DistinctInv
    <3>4. joining # None => joining.ip # d.ip
      BY <3>1 DEF DistinctInv
    <3> QED
      BY <2>1, <3>2, <3>3, <3>4 DEF OwnedInv
  <2> QED
    BY <2>2, <2>3
<1>15. CASE ReconcileEnd
  BY <1>15 DEF ReconcileEnd, OwnedInv, hub, wg, agents
<1>16. CASE Crash
  BY <1>16 DEF Crash, Down, Fault, OwnedInv, hub, wg, agents
<1>17. CASE Reboot
  <2>1. allowed' = PrePeers /\ joining' = None /\ disk' = disk
    BY <1>17 DEF Reboot, Down
  <2>2. \A k \in Keys : Addresses(PrePeers, k) \subseteq Addresses(allowed, k)
    BY DEF Addresses, TunnelInv
  <2> QED
    BY <2>1, <2>2 DEF OwnedInv, Owned
<1>18. CASE Restart
  BY <1>18 DEF Restart, OwnedInv, hub, wg, agents
<1>19. CASE UNCHANGED vars
  BY <1>19 DEF vars, OwnedInv, hub, wg, agents
<1> QED
  BY <1>1, <1>2, <1>3, <1>4, <1>5, <1>6, <1>7, <1>8, <1>9, <1>10, <1>11, <1>12, <1>13,
     <1>14, <1>15, <1>16, <1>17, <1>18, <1>19 DEF Next, AgentStep, JoinStep, ReconcileStep

\* Codes and requests carry the address of the tunnel up to join.
LEMMA AdoptStep ==
    /\ DocumentedCodes
    /\ TypeOK /\ MirrorInv /\ DistinctInv /\ StrayInv /\ RouteInv
    /\ [Next]_vars
    => AdoptInv'
<1> SUFFICES ASSUME DocumentedCodes, TypeOK, MirrorInv, DistinctInv, StrayInv,
                    TunnelInv, OwnedInv, AdoptInv, [Next]_vars
             PROVE  AdoptInv'
  BY DEF RouteInv
<1>1. ASSUME NEW c \in Codes, NEW ip \in UNION {HandedTo[a] : a \in Agents}, CreateCode(c, ip)
      PROVE  AdoptInv'
  <2> DEFINE y == [code |-> c, ip |-> ip]
  <2>1. /\ issued' = issued \cup {y} /\ y.code = c /\ y.ip = ip
        /\ \A x \in issued : x.code # c
        /\ UNCHANGED <<disk, joining, requests, usedKeys>>
    BY <1>1 DEF CreateCode, agents
  <2> HIDE DEF y
  <2>2. ip # NoIP => \A k \in Keys : ip \in Addresses(PrePeers, k) => ip = Head(PrePeers[k])
    BY DEF DocumentedCodes
  <2>3. \A r \in requests : r.code # c
    BY <2>1 DEF AdoptInv
  <2> QED
    BY <2>1, <2>2, <2>3 DEF AdoptInv
<1>2. ASSUME NEW x \in codes, ExpireCode(x) PROVE AdoptInv'
  BY <1>2 DEF ExpireCode, AdoptInv, hub, wg, agents
<1>3. ASSUME NEW a \in Agents, NEW x \in issued, NEW k \in Keys, AgentSend(a, x, k)
      PROVE  AdoptInv'
  <2> DEFINE q == [agent |-> a, n |-> attempt[a] + 1, key |-> k, code |-> x.code]
  <2>1. /\ requests' = requests \cup {q} /\ q.key = k /\ q.code = x.code
        /\ UNCHANGED <<disk, joining, issued>> /\ usedKeys \subseteq usedKeys'
    BY <1>3 DEF AgentSend, hub
  <2> HIDE DEF q
  <2>2. ASSUME PrePeers[k] # <<>> PROVE x.ip = Head(PrePeers[k])
    <3>1. a \in Adopters /\ k = TunnelKey[a] /\ x.ip \in HandedTo[a]
      BY <1>3, <2>2 DEF AgentSend, KeysFor, AdoptInv
    <3> QED
      BY <2>2, <3>1 DEF DocumentedCodes
  <2>3. \A y \in issued : y.code = x.code => y = x
    BY DEF AdoptInv
  <2> QED
    BY <2>1, <2>2, <2>3 DEF AdoptInv
<1>4. ASSUME NEW a \in Agents, NEW m \in replies, AgentReceives(a, m) PROVE AdoptInv'
  BY <1>4 DEF AgentReceives, Fault, AdoptInv, hub, wg, agents
<1>5. ASSUME NEW a \in Agents, AgentGivesUp(a) PROVE AdoptInv'
  BY <1>5 DEF AgentGivesUp, AdoptInv, hub, wg, agents
<1>6. ASSUME NEW r \in requests, JoinRefuse(r) PROVE AdoptInv'
  BY <1>6 DEF JoinRefuse, Fault, AdoptInv, hub, wg, agents
<1>7. ASSUME NEW r \in requests, JoinAccept(r) PROVE AdoptInv'
  <2>1. /\ joining'.req = r
        /\ PrePeers[r.key] # <<>> => joining'.adopted /\ joining'.ip = Head(PrePeers[r.key])
    BY <1>7, AcceptOwned
  <2>2. UNCHANGED <<disk, issued, usedKeys>> /\ requests' \subseteq requests
    BY <1>7 DEF JoinAccept, agents
  <2> QED
    BY <2>1, <2>2 DEF AdoptInv
<1>8. CASE JoinWg
  <2>1. joining # None /\ UNCHANGED <<disk, issued, requests, usedKeys>>
    BY <1>8 DEF JoinWg, agents
  <2>2. \/ joining' = None
        \/ /\ joining'.req = joining.req /\ joining'.ip = joining.ip
           /\ joining'.adopted = joining.adopted
    BY <1>8, <2>1 DEF JoinWg, TypeOK, Joining
  <2> QED
    BY <2>1, <2>2 DEF AdoptInv
<1>9. CASE JoinSave
  <2>1. /\ joining # None /\ joining' = None /\ UNCHANGED <<issued, requests, usedKeys>>
        /\ disk' = devices \cup {NewDevice}
    BY <1>9 DEF JoinSave, agents
  <2>2. devices = disk
    BY <2>1 DEF MirrorInv
  <2>3. NewDevice.key = joining.req.key /\ NewDevice.ip = joining.ip
    BY <2>1, JoiningParts
  <2> HIDE DEF NewDevice
  <2> QED
    BY <2>1, <2>2, <2>3 DEF AdoptInv
<1>10. CASE JoinSaveFails
  <2>1. joining # None /\ UNCHANGED <<disk, issued, requests, usedKeys>>
    BY <1>10 DEF JoinSaveFails, agents
  <2>2. \/ joining' = None
        \/ /\ joining'.req = joining.req /\ joining'.ip = joining.ip
           /\ joining'.adopted = joining.adopted
    BY <1>10, <2>1 DEF JoinSaveFails, TypeOK, Joining
  <2> QED
    BY <2>1, <2>2 DEF AdoptInv
<1>11. CASE JoinUndo
  BY <1>11 DEF JoinUndo, Fault, AdoptInv, hub, wg, agents
<1>12. CASE ReconcileSnapshot
  BY <1>12 DEF ReconcileSnapshot, AdoptInv, hub, wg, agents
<1>13. CASE ReconcileShow
  BY <1>13 DEF ReconcileShow, Fault, AdoptInv, hub, wg, agents
<1>14. ASSUME NEW d \in reconDevices, ReconcileSet(d) PROVE AdoptInv'
  BY <1>14 DEF ReconcileSet, Fault, AdoptInv, hub, wg, agents
<1>15. CASE ReconcileEnd
  BY <1>15 DEF ReconcileEnd, AdoptInv, hub, wg, agents
<1>16. CASE Crash
  BY <1>16 DEF Crash, Down, Fault, AdoptInv, hub, wg, agents
<1>17. CASE Reboot
  BY <1>17 DEF Reboot, Down, Fault, AdoptInv, hub, wg, agents
<1>18. CASE Restart
  BY <1>18 DEF Restart, AdoptInv, hub, wg, agents
<1>19. CASE UNCHANGED vars
  BY <1>19 DEF vars, AdoptInv, hub, wg, agents
<1> QED
  BY <1>1, <1>2, <1>3, <1>4, <1>5, <1>6, <1>7, <1>8, <1>9, <1>10, <1>11, <1>12, <1>13,
     <1>14, <1>15, <1>16, <1>17, <1>18, <1>19 DEF Next, AgentStep, JoinStep, ReconcileStep

LEMMA RouteInit == Init => RouteInv
<1> SUFFICES ASSUME Init PROVE RouteInv
  OBVIOUS
<1>1. TunnelInv
  BY DEF Init, TunnelInv
<1>2. OwnedInv
  <2>1. \A k, l \in Keys : k # l => Addresses(PrePeers, k) \cap Addresses(PrePeers, l) = {}
    BY EnrollmentConstants DEF Addresses
  <2> QED
    BY <2>1 DEF Init, OwnedInv
<1>3. AdoptInv
  BY DEF Init, AdoptInv
<1> QED
  BY <1>1, <1>2, <1>3 DEF RouteInv

\* With codes as documented, the routes invariant holds as well.
THEOREM RouteInvariance == DocumentedCodes => (Spec => [](IndInv /\ RouteInv))
<1> SUFFICES ASSUME DocumentedCodes PROVE Spec => [](IndInv /\ RouteInv)
  OBVIOUS
<1>1. Init => IndInv /\ RouteInv
  BY IndInit, RouteInit
<1>2. IndInv /\ RouteInv /\ [Next]_vars => (IndInv /\ RouteInv)'
  BY IndStep, TunnelStep, OwnedStep, AdoptStep DEF IndInv, RouteInv
<1> QED
  BY <1>1, <1>2, PTL DEF Spec

\* The tunnels of wg0.conf keep their addresses, whatever joins fail and however
\* late reconcilePeers acts on what it read (server.go, join, reconcilePeers).
THEOREM TunnelsStay == DocumentedCodes => (Spec => []TunnelsKept)
<1> SUFFICES ASSUME DocumentedCodes PROVE Spec => []TunnelsKept
  OBVIOUS
<1>1. RouteInv => TunnelsKept
  BY DEF RouteInv, TunnelInv, TunnelsKept, Addresses
<1>2. Spec => [](IndInv /\ RouteInv)
  BY RouteInvariance
<1> QED
  BY <1>1, <1>2, PTL

\* No step of the hub that is up moves an address from one peer to another
\* ("Never overwrite another peer's route", server.go).
LEMMA NoRouteMoves ==
    ASSUME IndInv, RouteInv, [Next]_vars, up'
    PROVE  \A k, l \in Keys : k # l => Addresses(allowed, k) \cap Addresses(allowed', l) = {}
<1> USE DEF IndInv, RouteInv
<1>1. CASE allowed' = allowed
  BY <1>1 DEF OwnedInv
<1>2. CASE JoinWg /\ allowed' # allowed
  <2>1. joining # None /\ joining.step = "wg"
    BY <1>2 DEF JoinWg
  <2>2. joining.req.key \in Keys /\ joining.ip \in Hosts /\ PrePeers[joining.req.key] = <<>>
        /\ Owned(allowed, joining.ip, joining.req.key)
    BY <2>1, JoiningParts DEF StrayInv, AdoptInv, OwnedInv
  <2>3. allowed' = WgSet(joining.req.key, joining.ip)
    BY <1>2 DEF JoinWg
  <2> QED
    BY <2>2, <2>3, SetKeepsRoutes
<1>3. CASE JoinUndo /\ allowed' # allowed
  <2>1. joining # None /\ joining.step = "undo"
    BY <1>3 DEF JoinUndo
  <2>2. joining.req.key \in Keys /\ PrePeers[joining.req.key] = <<>>
    BY <2>1, JoiningParts DEF StrayInv, AdoptInv
  <2>3. allowed' = WgRemove(joining.req.key)
    BY <1>3 DEF JoinUndo
  <2>4. \A x \in Keys : Addresses(allowed', x) \subseteq Addresses(allowed, x)
    BY <2>2, <2>3, RemoveKeepsRoutes
  <2> QED
    BY <2>4 DEF OwnedInv
<1>4. ASSUME NEW d \in reconDevices, ReconcileSet(d), allowed' # allowed
      PROVE  \A k, l \in Keys : k # l => Addresses(allowed, k) \cap Addresses(allowed', l) = {}
  <2>1. /\ d.key \in Keys /\ d.ip \in Hosts /\ PrePeers[d.key] = <<>>
        /\ Owned(allowed, d.ip, d.key) /\ allowed' = WgSet(d.key, d.ip)
    BY <1>4, ReconcileSetsNoTunnel
  <2> QED
    BY <2>1, SetKeepsRoutes
<1>5. \/ allowed' = allowed \/ JoinWg \/ JoinUndo \/ \E d \in reconDevices : ReconcileSet(d)
  <2>1. ASSUME NEW t, Down(t) PROVE FALSE
    BY <2>1 DEF Down
  <2> QED
    BY <2>1 DEF Next, vars, AgentStep, JoinStep, ReconcileStep, CreateCode, ExpireCode, AgentSend,
       AgentReceives, AgentGivesUp, JoinRefuse, JoinAccept, JoinSave, JoinSaveFails,
       ReconcileSnapshot, ReconcileShow, ReconcileEnd, Crash, Reboot, Restart, wg
<1> QED
  BY <1>1, <1>2, <1>3, <1>4, <1>5

\* So with codes as documented, routes never move from peer to peer.
THEOREM RoutesStay == DocumentedCodes => (Spec => RouteNeverMoves)
<1> SUFFICES ASSUME DocumentedCodes PROVE Spec => RouteNeverMoves
  OBVIOUS
<1>1. IndInv /\ RouteInv /\ [Next]_vars =>
        [up' => \A k, l \in Keys : k # l =>
                   Addresses(allowed, k) \cap Addresses(allowed', l) = {}]_vars
  BY NoRouteMoves
<1>2. Spec => [](IndInv /\ RouteInv)
  BY RouteInvariance
<1> QED
  BY <1>1, <1>2, PTL DEF Spec, RouteNeverMoves
=============================================================================
