-------------------------- MODULE RemoteHubProofs --------------------------
(***************************************************************************)
(* Proofs about RemoteHub, for any number of devices, connections and      *)
(* browsers: a session of an agent ends with its browser, a browser with   *)
(* its device, and the table of an agent keeps to its limit.               *)
(***************************************************************************)
EXTENDS RemoteHub, FiniteSetTheorems, TLAPS

Msg(type, b) == [type |-> type, sid |-> b]

\* The handlers that will still send "close" to the connection k.
Live(k) == {b \in Browsers : pc[b] \in {"open", "closing"} /\ agent[b] = k}

\* What the agent holds, in its table S or with an offer not yet read in q, is
\* live, or a "close" comes after it.
Kept(q, S, L) ==
    /\ \A b \in S : b \in L \/ \E i \in 1..Len(q) : q[i] = Msg("close", b)
    /\ \A i \in 1..Len(q), b \in Browsers : q[i] = Msg("offer", b) =>
          b \in L \/ \E j \in 1..Len(q) : i < j /\ q[j] = Msg("close", b)

Types ==
    /\ agents \in [Devices -> Conns \cup {None}]
    /\ browsers \subseteq Browsers
    /\ hubEnd \in [Conns -> {"absent", "open", "gone"}]
    /\ agentEnd \in [Conns -> {"absent", "open", "gone"}]
    /\ link \in [Conns -> BOOLEAN]
    /\ toAgent \in [Conns -> Seq(Message)]
    /\ errs \in [Conns -> SUBSET Browsers]
    /\ sessions \in [Conns -> SUBSET Browsers]
    /\ pc \in [Browsers -> {"idle", "upgrading", "open", "closing", "leaving", "done"}]
    /\ device \in [Browsers -> Devices \cup {None}]
    /\ agent \in [Browsers -> Conns \cup {None}]
    /\ offered \in [Browsers -> BOOLEAN]
    /\ wsOpen \in [Browsers -> BOOLEAN]
    /\ admin \in BOOLEAN

\* A connection that works is open at both ends and the one in the registry.
LinkInv ==
    \A k \in Conns : link[k] =>
        hubEnd[k] = "open" /\ agentEnd[k] = "open" /\ agents[DeviceOf[k]] = k

\* The agent forgets a connection with its sessions and what it did not read.
EndInv ==
    \A k \in Conns : agentEnd[k] # "open" => sessions[k] = {} /\ toAgent[k] = <<>>

RegistryInv == \A d \in Devices : agents[d] # None => DeviceOf[agents[d]] = d

HandlerInv ==
    \A b \in Browsers :
        /\ pc[b] # "idle" => agent[b] \in Conns /\ device[b] = DeviceOf[agent[b]]
        /\ pc[b] \in {"open", "closing", "leaving"} => b \in browsers
        /\ pc[b] \in {"idle", "upgrading"} => ~ offered[b]

KeptInv == \A k \in Conns : link[k] => Kept(toAgent[k], sessions[k], Live(k))

\* More than OfferedSessionsFollowAgent says, and inductive: any session with an
\* offer, whatever became of the connection it was sent to.
FollowInv ==
    \A b \in Browsers : pc[b] = "open" /\ wsOpen[b] /\ offered[b] => agents[device[b]] # None

FewInv ==
    \A k \in Conns : IsFiniteSet(sessions[k]) /\ Cardinality(sessions[k]) <= MaxSessions

IndInv ==
    Types /\ LinkInv /\ EndInv /\ RegistryInv /\ HandlerInv /\ KeptInv /\ FollowInv /\ FewInv
-----------------------------------------------------------------------------
(* Messages to an agent.                                                   *)

LEMMA KeptGrows ==
    ASSUME NEW q, NEW S, NEW L, NEW M, Kept(q, S, L), L \subseteq M
    PROVE  Kept(q, S, M)
BY DEF Kept

LEMMA KeptAppend ==
    ASSUME NEW q \in Seq(Message), NEW S \in SUBSET Browsers, NEW L, NEW b \in Browsers,
           Kept(q, S, L)
    PROVE  /\ Append(q, Msg("offer", b)) \in Seq(Message)
           /\ Append(q, Msg("close", b)) \in Seq(Message)
           /\ b \in L => Kept(Append(q, Msg("offer", b)), S, L)
           /\ Kept(Append(q, Msg("close", b)), S, L \ {b})
<1>1. \A t \in {"offer", "close"} : Msg(t, b) \in Message
  BY DEF Msg, Message
<1>2. /\ Msg("offer", b) # Msg("close", b)
      /\ \A c \in Browsers : Msg("offer", c) = Msg("offer", b) => c = b
      /\ \A c \in Browsers : Msg("offer", c) # Msg("close", b)
      /\ \A c \in Browsers : Msg("close", c) # Msg("offer", b)
  <2>1. \A t, c : Msg(t, c).type = t /\ Msg(t, c).sid = c
    BY DEF Msg
  <2> QED
    BY <2>1
<1>3. ASSUME NEW x \in Message
      PROVE  /\ Append(q, x) \in Seq(Message) /\ Len(q) \in Nat /\ Len(Append(q, x)) = Len(q) + 1
             /\ \A i \in 1..Len(q) : Append(q, x)[i] = q[i]
             /\ Append(q, x)[Len(q) + 1] = x
             /\ 1..Len(Append(q, x)) = 1..Len(q) \cup {Len(q) + 1}
             /\ \A i \in 1..Len(q) : i < Len(q) + 1
  OBVIOUS
<1>4. ASSUME b \in L PROVE Kept(Append(q, Msg("offer", b)), S, L)
  <2> DEFINE r == Append(q, Msg("offer", b))
  <2>1. /\ 1..Len(r) = 1..Len(q) \cup {Len(q) + 1} /\ r[Len(q) + 1] = Msg("offer", b)
        /\ \A i \in 1..Len(q) : r[i] = q[i]
    BY <1>1, <1>3
  <2> HIDE DEF r
  <2> QED
    BY <1>2, <1>4, <2>1 DEF Kept, r
<1>5. Kept(Append(q, Msg("close", b)), S, L \ {b})
  <2> DEFINE r == Append(q, Msg("close", b))
  <2>1. /\ 1..Len(r) = 1..Len(q) \cup {Len(q) + 1} /\ r[Len(q) + 1] = Msg("close", b)
        /\ \A i \in 1..Len(q) : r[i] = q[i] /\ i < Len(q) + 1
    BY <1>1, <1>3
  <2> HIDE DEF r
  <2>2. \A c \in S : c \in L \ {b} \/ \E i \in 1..Len(r) : r[i] = Msg("close", c)
    BY <2>1 DEF Kept
  <2>3. ASSUME NEW i \in 1..Len(r), NEW c \in Browsers, r[i] = Msg("offer", c)
        PROVE  c \in L \ {b} \/ \E j \in 1..Len(r) : i < j /\ r[j] = Msg("close", c)
    BY <1>2, <2>1, <2>3 DEF Kept
  <2> QED
    BY <2>2, <2>3 DEF Kept, r
<1> QED
  BY <1>1, <1>3, <1>4, <1>5

LEMMA KeptRead ==
    ASSUME NEW q \in Seq(Message), NEW S \in SUBSET Browsers, NEW L, q # <<>>, Kept(q, S, L)
    PROVE  /\ Head(q) \in Message /\ Head(q).sid \in Browsers /\ Tail(q) \in Seq(Message)
           /\ Head(q).type = "offer" => Kept(Tail(q), S \cup {Head(q).sid}, L) /\ Kept(Tail(q), S, L)
           /\ Head(q).type = "close" => Kept(Tail(q), S \ {Head(q).sid}, L)
<1> DEFINE m == Head(q)  r == Tail(q)
<1>1. /\ m \in Message /\ m = q[1] /\ r \in Seq(Message) /\ Len(q) \in Nat \ {0} /\ Len(r) = Len(q) - 1
      /\ \A i \in 1..Len(r) : r[i] = q[i + 1]
  OBVIOUS
<1>2. m.sid \in Browsers /\ m = Msg(m.type, m.sid)
  BY <1>1 DEF Message, Msg
<1>3. \A t, u, b, c : Msg(t, b) = Msg(u, c) => t = u /\ b = c
  <2>1. \A t, c : Msg(t, c).type = t /\ Msg(t, c).sid = c
    BY DEF Msg
  <2> QED
    BY <2>1
<1> HIDE DEF m, r
<1>4. /\ \A i \in 1..Len(q) : i = 1 \/ (i - 1 \in 1..Len(r) /\ r[i - 1] = q[i])
      /\ \A i \in 1..Len(r) : i + 1 \in 1..Len(q) /\ r[i] = q[i + 1]
      /\ 1 \in 1..Len(q)
  BY <1>1
<1>5. \A i \in 1..Len(r), b \in Browsers : r[i] = Msg("offer", b) =>
         b \in L \/ \E j \in 1..Len(r) : i < j /\ r[j] = Msg("close", b)
  <2> SUFFICES ASSUME NEW i \in 1..Len(r), NEW b \in Browsers, r[i] = Msg("offer", b), b \notin L
               PROVE  \E j \in 1..Len(r) : i < j /\ r[j] = Msg("close", b)
    OBVIOUS
  <2>1. i + 1 \in 1..Len(q) /\ q[i + 1] = Msg("offer", b)
    BY <1>4
  <2>2. PICK j \in 1..Len(q) : i + 1 < j /\ q[j] = Msg("close", b)
    BY <2>1 DEF Kept
  <2>3. j - 1 \in 1..Len(r) /\ i < j - 1 /\ r[j - 1] = Msg("close", b)
    BY <1>1, <1>4, <2>2
  <2> QED
    BY <2>3
<1>6. ASSUME NEW b \in S, m # Msg("close", b)
      PROVE  b \in L \/ \E i \in 1..Len(r) : r[i] = Msg("close", b)
  <2> SUFFICES ASSUME b \notin L PROVE \E i \in 1..Len(r) : r[i] = Msg("close", b)
    OBVIOUS
  <2>1. PICK j \in 1..Len(q) : q[j] = Msg("close", b)
    BY DEF Kept
  <2>2. j - 1 \in 1..Len(r) /\ r[j - 1] = Msg("close", b)
    BY <1>1, <1>4, <1>6, <2>1
  <2> QED
    BY <2>2
<1>7. ASSUME m = Msg("offer", m.sid)
      PROVE  m.sid \in L \/ \E i \in 1..Len(r) : r[i] = Msg("close", m.sid)
  <2> SUFFICES ASSUME m.sid \notin L
               PROVE  \E i \in 1..Len(r) : r[i] = Msg("close", m.sid)
    OBVIOUS
  <2>1. PICK j \in 1..Len(q) : 1 < j /\ q[j] = Msg("close", m.sid)
    BY <1>1, <1>2, <1>4, <1>7 DEF Kept
  <2>2. j - 1 \in 1..Len(r) /\ r[j - 1] = Msg("close", m.sid)
    BY <1>4, <2>1
  <2> QED
    BY <2>2
<1>8. ASSUME m.type = "offer" PROVE Kept(r, S \cup {m.sid}, L) /\ Kept(r, S, L)
  <2>1. \A b : m # Msg("close", b)
    BY <1>2, <1>3, <1>8
  <2> QED
    BY <1>2, <1>5, <1>6, <1>7, <1>8, <2>1 DEF Kept
<1>9. ASSUME m.type = "close" PROVE Kept(r, S \ {m.sid}, L)
  <2>1. \A b : b # m.sid => m # Msg("close", b)
    BY <1>2, <1>3
  <2> QED
    BY <1>5, <1>6, <2>1 DEF Kept
<1> QED
  BY <1>1, <1>2, <1>8, <1>9 DEF m, r

-----------------------------------------------------------------------------
(* The invariant, part by part.                                            *)

LEMMA IndInit == Init => IndInv
<1> SUFFICES ASSUME Init PROVE IndInv
  OBVIOUS
<1>1. <<>> \in Seq(Message)
  OBVIOUS
<1>2. Types
  BY <1>1 DEF Init, Types
<1>3. LinkInv /\ EndInv /\ RegistryInv /\ HandlerInv /\ KeptInv /\ FollowInv
  BY DEF Init, LinkInv, EndInv, RegistryInv, HandlerInv, KeptInv, FollowInv
<1>4. FewInv
  BY FS_EmptySet, RemoteHubConstants DEF Init, FewInv
<1> QED
  BY <1>2, <1>3, <1>4 DEF IndInv

LEMMA TypesStep == Types /\ HandlerInv /\ [Next]_vars => Types'
<1> SUFFICES ASSUME Types, HandlerInv, [Next]_vars PROVE Types'
  OBVIOUS
<1>1. ASSUME NEW k \in Conns, AgentConnects(k) PROVE Types'
  BY <1>1, RemoteHubConstants DEF AgentConnects, Types, handlers
<1>2. ASSUME NEW k \in Conns, Break(k) PROVE Types'
  BY <1>2 DEF Break, Types, registry, ends, wire, handlers
<1>3. ASSUME NEW k \in Conns, HubEnds(k) PROVE Types'
  <2>1. agents' \in [Devices -> Conns \cup {None}]
    BY <1>3, RemoteHubConstants DEF HubEnds, Types
  <2>2. wsOpen' \in [Browsers -> BOOLEAN]
    <3>1. \A d : CloseBrowsersOf(d) \in [Browsers -> BOOLEAN]
      BY DEF CloseBrowsersOf, Types
    <3> QED
      BY <1>3, <3>1 DEF HubEnds, Types
  <2> QED
    BY <1>3, <2>1, <2>2 DEF HubEnds, Types
<1>4. ASSUME NEW k \in Conns, AgentEnds(k) PROVE Types'
  BY <1>4 DEF AgentEnds, Types, registry, ends, wire, handlers
<1>5. ASSUME NEW k \in Conns, AgentReads(k) PROVE Types'
  <2>1. toAgent[k] \in Seq(Message) /\ toAgent[k] # <<>>
    BY <1>5 DEF AgentReads, Types
  <2>2. Tail(toAgent[k]) \in Seq(Message) /\ Head(toAgent[k]).sid \in Browsers
    <3>1. Tail(toAgent[k]) \in Seq(Message) /\ Head(toAgent[k]) \in Message
      BY <2>1
    <3> QED
      BY <3>1 DEF Message
  <2>3. toAgent' \in [Conns -> Seq(Message)]
    BY <1>5, <2>2 DEF AgentReads, Types
  <2>4. sessions' \in [Conns -> SUBSET Browsers] /\ errs' \in [Conns -> SUBSET Browsers]
    <3> DEFINE c == Head(toAgent[k]).sid
    <3>1. /\ \/ sessions' = sessions
             \/ sessions' = [sessions EXCEPT ![k] = @ \cup {c}]
             \/ sessions' = [sessions EXCEPT ![k] = @ \ {c}]
          /\ errs' = errs \/ errs' = [errs EXCEPT ![k] = @ \cup {c}]
      BY <1>5 DEF AgentReads
    <3>2. c \in Browsers
      BY <2>2
    <3> HIDE DEF c
    <3>3. sessions \in [Conns -> SUBSET Browsers] /\ errs \in [Conns -> SUBSET Browsers]
      BY DEF Types
    <3>4. /\ [sessions EXCEPT ![k] = @ \cup {c}] \in [Conns -> SUBSET Browsers]
          /\ [sessions EXCEPT ![k] = @ \ {c}] \in [Conns -> SUBSET Browsers]
          /\ [errs EXCEPT ![k] = @ \cup {c}] \in [Conns -> SUBSET Browsers]
      BY <3>2, <3>3
    <3> QED
      BY <3>1, <3>3, <3>4
  <2> QED
    BY <1>5, <2>3, <2>4 DEF AgentReads, Types, registry, ends, handlers
<1>6. ASSUME NEW k \in Conns, NEW b \in Browsers, ForwardError(k, b) PROVE Types'
  BY <1>6 DEF ForwardError, Types, registry, ends, wire, handlers
<1>7. ASSUME NEW b \in Browsers, NEW d \in Devices, BrowserChecks(b, d) PROVE Types'
  BY <1>7 DEF BrowserChecks, Types, registry, ends, wire, handlers
<1>8. ASSUME NEW b \in Browsers, BrowserRegisters(b) PROVE Types'
  BY <1>8 DEF BrowserRegisters, Types, registry, ends, wire, handlers
<1>9. ASSUME NEW b \in Browsers, BrowserReadFails(b) PROVE Types'
  BY <1>9 DEF BrowserReadFails, Types, registry, ends, wire, handlers
<1>10. ASSUME NEW b \in Browsers, SendClose(b) PROVE Types'
  <2>1. agent[b] \in Conns /\ Msg("close", b) \in Message
    BY <1>10 DEF SendClose, HandlerInv, Msg, Message
  <2>2. toAgent' = toAgent \/ toAgent' = [toAgent EXCEPT ![agent[b]] = Append(@, Msg("close", b))]
    BY <1>10 DEF SendClose, Sent, Msg
  <2>3. toAgent' \in [Conns -> Seq(Message)]
    <3>1. toAgent \in [Conns -> Seq(Message)]
      BY DEF Types
    <3>2. Append(toAgent[agent[b]], Msg("close", b)) \in Seq(Message)
      BY <2>1, <3>1
    <3> QED
      BY <2>1, <2>2, <3>1, <3>2
  <2> QED
    BY <1>10, <2>3 DEF SendClose, Types, registry, ends
<1>11. ASSUME NEW b \in Browsers, Unregister(b) PROVE Types'
  BY <1>11 DEF Unregister, Types, registry, ends, wire, handlers
<1>12. ASSUME NEW b \in Browsers, BrowserOffers(b) PROVE Types'
  <2>1. agent[b] \in Conns /\ Msg("offer", b) \in Message
    BY <1>12 DEF BrowserOffers, HandlerInv, Msg, Message
  <2>2. toAgent' = toAgent \/ toAgent' = [toAgent EXCEPT ![agent[b]] = Append(@, Msg("offer", b))]
    BY <1>12 DEF BrowserOffers, Sent, Msg
  <2>3. toAgent' \in [Conns -> Seq(Message)]
    <3>1. toAgent \in [Conns -> Seq(Message)]
      BY DEF Types
    <3>2. Append(toAgent[agent[b]], Msg("offer", b)) \in Seq(Message)
      BY <2>1, <3>1
    <3> QED
      BY <2>1, <2>2, <3>1, <3>2
  <2> QED
    BY <1>12, <2>3 DEF BrowserOffers, Types, registry, ends
<1>13. ASSUME NEW b \in Browsers, BrowserQuits(b) PROVE Types'
  BY <1>13 DEF BrowserQuits, Types, registry, ends, wire, handlers
<1>14. ASSUME NEW b \in Browsers, BrowserPings(b) PROVE Types'
  BY <1>14 DEF BrowserPings, Types, registry, ends, wire, handlers
<1>15. ASSUME NEW b \in Browsers, BrowserLost(b) PROVE Types'
  BY <1>15 DEF BrowserLost, Types, registry, ends, wire, handlers
<1>16. CASE LoginEnds
  BY <1>16 DEF LoginEnds, Types, registry, ends, wire, handlers
<1>17. CASE UNCHANGED vars
  BY <1>17 DEF vars, Types, registry, ends, wire, handlers
<1> QED
  BY <1>1, <1>2, <1>3, <1>4, <1>5, <1>6, <1>7, <1>8, <1>9, <1>10, <1>11, <1>12, <1>13, <1>14,
     <1>15, <1>16, <1>17 DEF Next, HandlerStep, ConnStep

\* HubEnds and a new connection of the device are what changes the registry.
LEMMA LinkStep == Types /\ LinkInv /\ [Next]_vars => LinkInv'
<1> SUFFICES ASSUME Types, LinkInv, [Next]_vars PROVE LinkInv'
  OBVIOUS
<1>1. ASSUME NEW k \in Conns, AgentConnects(k) PROVE LinkInv'
  <2> USE <1>1, RemoteHubConstants
  <2>1. /\ agents'[DeviceOf[k]] = k /\ hubEnd'[k] = "open" /\ agentEnd'[k] = "open"
        /\ \A d \in Devices : d # DeviceOf[k] => agents'[d] = agents[d]
    BY DEF AgentConnects, Types
  <2>2. ASSUME NEW x \in Conns, x # k, link'[x]
        PROVE  /\ link[x] /\ x # agents[DeviceOf[k]]
               /\ hubEnd'[x] = hubEnd[x] /\ agentEnd'[x] = agentEnd[x]
    BY <2>2 DEF AgentConnects, Types
  <2>3. ASSUME NEW x \in Conns, x # k, link'[x]
        PROVE  hubEnd'[x] = "open" /\ agentEnd'[x] = "open" /\ agents'[DeviceOf[x]] = x
    BY <2>1, <2>2, <2>3 DEF LinkInv
  <2> QED
    BY <2>1, <2>3 DEF LinkInv
<1>2. ASSUME NEW k \in Conns, Break(k) PROVE LinkInv'
  BY <1>2, RemoteHubConstants DEF Break, Types, LinkInv, registry, ends, wire, handlers
<1>3. ASSUME NEW k \in Conns, HubEnds(k) PROVE LinkInv'
  <2>1. \A x \in Conns : link[x] => x # k /\ agents[DeviceOf[x]] = x
    BY <1>3 DEF HubEnds, LinkInv
  <2>2. UNCHANGED <<link, agentEnd>> /\ hubEnd' = [hubEnd EXCEPT ![k] = "gone"]
    BY <1>3 DEF HubEnds
  <2>3. \/ agents' = agents
        \/ agents[DeviceOf[k]] = k /\ agents' = [agents EXCEPT ![DeviceOf[k]] = None]
    BY <1>3 DEF HubEnds
  <2>4. \A x \in Conns : link[x] => agents'[DeviceOf[x]] = x
    BY <2>1, <2>3, RemoteHubConstants DEF Types
  <2> QED
    BY <2>1, <2>2, <2>4 DEF LinkInv, Types
<1>4. ASSUME NEW k \in Conns, AgentEnds(k) PROVE LinkInv'
  BY <1>4, RemoteHubConstants DEF AgentEnds, Types, LinkInv, registry, ends, wire, handlers
<1>5. ASSUME NEW k \in Conns, AgentReads(k) PROVE LinkInv'
  BY <1>5, RemoteHubConstants DEF AgentReads, Types, LinkInv, registry, ends, wire, handlers
<1>6. ASSUME NEW k \in Conns, NEW b \in Browsers, ForwardError(k, b) PROVE LinkInv'
  BY <1>6, RemoteHubConstants DEF ForwardError, Types, LinkInv, registry, ends, wire, handlers
<1>7. ASSUME NEW b \in Browsers, NEW d \in Devices, BrowserChecks(b, d) PROVE LinkInv'
  BY <1>7, RemoteHubConstants DEF BrowserChecks, Types, LinkInv, registry, ends, wire,
     handlers
<1>8. ASSUME NEW b \in Browsers, BrowserRegisters(b) PROVE LinkInv'
  BY <1>8, RemoteHubConstants DEF BrowserRegisters, Types, LinkInv, registry, ends, wire,
     handlers
<1>9. ASSUME NEW b \in Browsers, BrowserReadFails(b) PROVE LinkInv'
  BY <1>9, RemoteHubConstants DEF BrowserReadFails, Types, LinkInv, registry, ends, wire,
     handlers
<1>10. ASSUME NEW b \in Browsers, SendClose(b) PROVE LinkInv'
  BY <1>10, RemoteHubConstants DEF SendClose, HubClosed, Sent, Types, LinkInv, registry, ends,
     wire, handlers
<1>11. ASSUME NEW b \in Browsers, Unregister(b) PROVE LinkInv'
  BY <1>11, RemoteHubConstants DEF Unregister, Types, LinkInv, registry, ends, wire, handlers
<1>12. ASSUME NEW b \in Browsers, BrowserOffers(b) PROVE LinkInv'
  BY <1>12, RemoteHubConstants DEF BrowserOffers, HubClosed, Sent, Types, LinkInv, registry,
     ends, wire, handlers
<1>13. ASSUME NEW b \in Browsers, BrowserQuits(b) PROVE LinkInv'
  BY <1>13, RemoteHubConstants DEF BrowserQuits, Types, LinkInv, registry, ends, wire, handlers
<1>14. ASSUME NEW b \in Browsers, BrowserPings(b) PROVE LinkInv'
  BY <1>14, RemoteHubConstants DEF BrowserPings, Types, LinkInv, registry, ends, wire, handlers
<1>15. ASSUME NEW b \in Browsers, BrowserLost(b) PROVE LinkInv'
  BY <1>15, RemoteHubConstants DEF BrowserLost, Types, LinkInv, registry, ends, wire, handlers
<1>16. CASE LoginEnds
  BY <1>16, RemoteHubConstants DEF LoginEnds, Types, LinkInv, registry, ends, wire, handlers
<1>17. CASE UNCHANGED vars
  BY <1>17, RemoteHubConstants DEF vars, Types, LinkInv, registry, ends, wire, handlers
<1> QED
  BY <1>1, <1>2, <1>3, <1>4, <1>5, <1>6, <1>7, <1>8, <1>9, <1>10, <1>11, <1>12, <1>13, <1>14,
     <1>15, <1>16, <1>17 DEF Next, HandlerStep, ConnStep

\* Nothing is sent to an agent that forgot the connection: it does not work.
LEMMA EndStep == Types /\ LinkInv /\ EndInv /\ HandlerInv /\ [Next]_vars => EndInv'
<1> SUFFICES ASSUME Types, LinkInv, EndInv, HandlerInv, [Next]_vars PROVE EndInv'
  OBVIOUS
<1>1. ASSUME NEW k \in Conns, AgentConnects(k) PROVE EndInv'
  BY <1>1 DEF AgentConnects, Types, LinkInv, EndInv, HandlerInv, registry, ends, wire,
     handlers
<1>2. ASSUME NEW k \in Conns, Break(k) PROVE EndInv'
  BY <1>2 DEF Break, Types, LinkInv, EndInv, HandlerInv, registry, ends, wire, handlers
<1>3. ASSUME NEW k \in Conns, HubEnds(k) PROVE EndInv'
  BY <1>3 DEF HubEnds, CloseBrowsersOf, Types, LinkInv, EndInv, HandlerInv, registry, ends,
     wire, handlers
<1>4. ASSUME NEW k \in Conns, AgentEnds(k) PROVE EndInv'
  BY <1>4 DEF AgentEnds, Types, LinkInv, EndInv, HandlerInv, registry, ends, wire, handlers
<1>5. ASSUME NEW k \in Conns, AgentReads(k) PROVE EndInv'
  BY <1>5 DEF AgentReads, Types, LinkInv, EndInv, HandlerInv, registry, ends, wire, handlers
<1>6. ASSUME NEW k \in Conns, NEW b \in Browsers, ForwardError(k, b) PROVE EndInv'
  BY <1>6 DEF ForwardError, Types, LinkInv, EndInv, HandlerInv, registry, ends, wire, handlers
<1>7. ASSUME NEW b \in Browsers, NEW d \in Devices, BrowserChecks(b, d) PROVE EndInv'
  BY <1>7 DEF BrowserChecks, Types, LinkInv, EndInv, HandlerInv, registry, ends, wire,
     handlers
<1>8. ASSUME NEW b \in Browsers, BrowserRegisters(b) PROVE EndInv'
  BY <1>8 DEF BrowserRegisters, Types, LinkInv, EndInv, HandlerInv, registry, ends, wire,
     handlers
<1>9. ASSUME NEW b \in Browsers, BrowserReadFails(b) PROVE EndInv'
  BY <1>9 DEF BrowserReadFails, Types, LinkInv, EndInv, HandlerInv, registry, ends, wire,
     handlers
<1>10. ASSUME NEW b \in Browsers, SendClose(b) PROVE EndInv'
  BY <1>10 DEF SendClose, HubClosed, Sent, Types, LinkInv, EndInv, HandlerInv, registry, ends,
     wire, handlers
<1>11. ASSUME NEW b \in Browsers, Unregister(b) PROVE EndInv'
  BY <1>11 DEF Unregister, Types, LinkInv, EndInv, HandlerInv, registry, ends, wire, handlers
<1>12. ASSUME NEW b \in Browsers, BrowserOffers(b) PROVE EndInv'
  BY <1>12 DEF BrowserOffers, HubClosed, Sent, Types, LinkInv, EndInv, HandlerInv, registry,
     ends, wire, handlers
<1>13. ASSUME NEW b \in Browsers, BrowserQuits(b) PROVE EndInv'
  BY <1>13 DEF BrowserQuits, Types, LinkInv, EndInv, HandlerInv, registry, ends, wire, handlers
<1>14. ASSUME NEW b \in Browsers, BrowserPings(b) PROVE EndInv'
  BY <1>14 DEF BrowserPings, Types, LinkInv, EndInv, HandlerInv, registry, ends, wire, handlers
<1>15. ASSUME NEW b \in Browsers, BrowserLost(b) PROVE EndInv'
  BY <1>15 DEF BrowserLost, Types, LinkInv, EndInv, HandlerInv, registry, ends, wire, handlers
<1>16. CASE LoginEnds
  BY <1>16 DEF LoginEnds, Types, LinkInv, EndInv, HandlerInv, registry, ends, wire, handlers
<1>17. CASE UNCHANGED vars
  BY <1>17 DEF vars, Types, LinkInv, EndInv, HandlerInv, registry, ends, wire, handlers
<1> QED
  BY <1>1, <1>2, <1>3, <1>4, <1>5, <1>6, <1>7, <1>8, <1>9, <1>10, <1>11, <1>12, <1>13, <1>14,
     <1>15, <1>16, <1>17 DEF Next, HandlerStep, ConnStep

LEMMA RegistryStep == Types /\ RegistryInv /\ [Next]_vars => RegistryInv'
<1> SUFFICES ASSUME Types, RegistryInv, [Next]_vars PROVE RegistryInv'
  OBVIOUS
<1>1. ASSUME NEW k \in Conns, AgentConnects(k) PROVE RegistryInv'
  BY <1>1, RemoteHubConstants DEF AgentConnects, Types, RegistryInv, registry, ends, wire,
     handlers
<1>2. ASSUME NEW k \in Conns, Break(k) PROVE RegistryInv'
  BY <1>2, RemoteHubConstants DEF Break, Types, RegistryInv, registry, ends, wire, handlers
<1>3. ASSUME NEW k \in Conns, HubEnds(k) PROVE RegistryInv'
  BY <1>3, RemoteHubConstants DEF HubEnds, CloseBrowsersOf, Types, RegistryInv, registry,
     ends, wire, handlers
<1>4. ASSUME NEW k \in Conns, AgentEnds(k) PROVE RegistryInv'
  BY <1>4, RemoteHubConstants DEF AgentEnds, Types, RegistryInv, registry, ends, wire,
     handlers
<1>5. ASSUME NEW k \in Conns, AgentReads(k) PROVE RegistryInv'
  BY <1>5, RemoteHubConstants DEF AgentReads, Types, RegistryInv, registry, ends, wire,
     handlers
<1>6. ASSUME NEW k \in Conns, NEW b \in Browsers, ForwardError(k, b) PROVE RegistryInv'
  BY <1>6, RemoteHubConstants DEF ForwardError, Types, RegistryInv, registry, ends, wire,
     handlers
<1>7. ASSUME NEW b \in Browsers, NEW d \in Devices, BrowserChecks(b, d)
      PROVE  RegistryInv'
  BY <1>7, RemoteHubConstants DEF BrowserChecks, Types, RegistryInv, registry, ends, wire,
     handlers
<1>8. ASSUME NEW b \in Browsers, BrowserRegisters(b) PROVE RegistryInv'
  BY <1>8, RemoteHubConstants DEF BrowserRegisters, Types, RegistryInv, registry, ends, wire,
     handlers
<1>9. ASSUME NEW b \in Browsers, BrowserReadFails(b) PROVE RegistryInv'
  BY <1>9, RemoteHubConstants DEF BrowserReadFails, Types, RegistryInv, registry, ends, wire,
     handlers
<1>10. ASSUME NEW b \in Browsers, SendClose(b) PROVE RegistryInv'
  BY <1>10, RemoteHubConstants DEF SendClose, HubClosed, Sent, Types, RegistryInv, registry,
     ends, wire, handlers
<1>11. ASSUME NEW b \in Browsers, Unregister(b) PROVE RegistryInv'
  BY <1>11, RemoteHubConstants DEF Unregister, Types, RegistryInv, registry, ends, wire,
     handlers
<1>12. ASSUME NEW b \in Browsers, BrowserOffers(b) PROVE RegistryInv'
  BY <1>12, RemoteHubConstants DEF BrowserOffers, HubClosed, Sent, Types, RegistryInv,
     registry, ends, wire, handlers
<1>13. ASSUME NEW b \in Browsers, BrowserQuits(b) PROVE RegistryInv'
  BY <1>13, RemoteHubConstants DEF BrowserQuits, Types, RegistryInv, registry, ends, wire,
     handlers
<1>14. ASSUME NEW b \in Browsers, BrowserPings(b) PROVE RegistryInv'
  BY <1>14, RemoteHubConstants DEF BrowserPings, Types, RegistryInv, registry, ends, wire,
     handlers
<1>15. ASSUME NEW b \in Browsers, BrowserLost(b) PROVE RegistryInv'
  BY <1>15, RemoteHubConstants DEF BrowserLost, Types, RegistryInv, registry, ends, wire,
     handlers
<1>16. CASE LoginEnds
  BY <1>16, RemoteHubConstants DEF LoginEnds, Types, RegistryInv, registry, ends, wire,
     handlers
<1>17. CASE UNCHANGED vars
  BY <1>17, RemoteHubConstants DEF vars, Types, RegistryInv, registry, ends, wire, handlers
<1> QED
  BY <1>1, <1>2, <1>3, <1>4, <1>5, <1>6, <1>7, <1>8, <1>9, <1>10, <1>11, <1>12, <1>13, <1>14,
     <1>15, <1>16, <1>17 DEF Next, HandlerStep, ConnStep

LEMMA HandlerInvStep == Types /\ RegistryInv /\ HandlerInv /\ [Next]_vars => HandlerInv'
<1> SUFFICES ASSUME Types, RegistryInv, HandlerInv, [Next]_vars PROVE HandlerInv'
  OBVIOUS
<1>1. ASSUME NEW k \in Conns, AgentConnects(k) PROVE HandlerInv'
  BY <1>1 DEF AgentConnects, Types, RegistryInv, HandlerInv, registry, ends, wire, handlers
<1>2. ASSUME NEW k \in Conns, Break(k) PROVE HandlerInv'
  BY <1>2 DEF Break, Types, RegistryInv, HandlerInv, registry, ends, wire, handlers
<1>3. ASSUME NEW k \in Conns, HubEnds(k) PROVE HandlerInv'
  BY <1>3 DEF HubEnds, CloseBrowsersOf, Types, RegistryInv, HandlerInv, registry, ends, wire,
     handlers
<1>4. ASSUME NEW k \in Conns, AgentEnds(k) PROVE HandlerInv'
  BY <1>4 DEF AgentEnds, Types, RegistryInv, HandlerInv, registry, ends, wire, handlers
<1>5. ASSUME NEW k \in Conns, AgentReads(k) PROVE HandlerInv'
  BY <1>5 DEF AgentReads, Types, RegistryInv, HandlerInv, registry, ends, wire, handlers
<1>6. ASSUME NEW k \in Conns, NEW b \in Browsers, ForwardError(k, b) PROVE HandlerInv'
  BY <1>6 DEF ForwardError, Types, RegistryInv, HandlerInv, registry, ends, wire, handlers
<1>7. ASSUME NEW b \in Browsers, NEW d \in Devices, BrowserChecks(b, d)
      PROVE  HandlerInv'
  BY <1>7 DEF BrowserChecks, Types, RegistryInv, HandlerInv, registry, ends, wire, handlers
<1>8. ASSUME NEW b \in Browsers, BrowserRegisters(b) PROVE HandlerInv'
  BY <1>8 DEF BrowserRegisters, Types, RegistryInv, HandlerInv, registry, ends, wire, handlers
<1>9. ASSUME NEW b \in Browsers, BrowserReadFails(b) PROVE HandlerInv'
  BY <1>9 DEF BrowserReadFails, Types, RegistryInv, HandlerInv, registry, ends, wire, handlers
<1>10. ASSUME NEW b \in Browsers, SendClose(b) PROVE HandlerInv'
  BY <1>10 DEF SendClose, HubClosed, Sent, Types, RegistryInv, HandlerInv, registry, ends,
     wire, handlers
<1>11. ASSUME NEW b \in Browsers, Unregister(b) PROVE HandlerInv'
  BY <1>11 DEF Unregister, Types, RegistryInv, HandlerInv, registry, ends, wire, handlers
<1>12. ASSUME NEW b \in Browsers, BrowserOffers(b) PROVE HandlerInv'
  BY <1>12 DEF BrowserOffers, HubClosed, Sent, Types, RegistryInv, HandlerInv, registry, ends,
     wire, handlers
<1>13. ASSUME NEW b \in Browsers, BrowserQuits(b) PROVE HandlerInv'
  BY <1>13 DEF BrowserQuits, Types, RegistryInv, HandlerInv, registry, ends, wire, handlers
<1>14. ASSUME NEW b \in Browsers, BrowserPings(b) PROVE HandlerInv'
  BY <1>14 DEF BrowserPings, Types, RegistryInv, HandlerInv, registry, ends, wire, handlers
<1>15. ASSUME NEW b \in Browsers, BrowserLost(b) PROVE HandlerInv'
  BY <1>15 DEF BrowserLost, Types, RegistryInv, HandlerInv, registry, ends, wire, handlers
<1>16. CASE LoginEnds
  BY <1>16 DEF LoginEnds, Types, RegistryInv, HandlerInv, registry, ends, wire, handlers
<1>17. CASE UNCHANGED vars
  BY <1>17 DEF vars, Types, RegistryInv, HandlerInv, registry, ends, wire, handlers
<1> QED
  BY <1>1, <1>2, <1>3, <1>4, <1>5, <1>6, <1>7, <1>8, <1>9, <1>10, <1>11, <1>12, <1>13, <1>14,
     <1>15, <1>16, <1>17 DEF Next, HandlerStep, ConnStep

LEMMA FollowStep == Types /\ HandlerInv /\ FollowInv /\ [Next]_vars => FollowInv'
<1> SUFFICES ASSUME Types, HandlerInv, FollowInv, [Next]_vars PROVE FollowInv'
  OBVIOUS
<1>1. ASSUME NEW k \in Conns, AgentConnects(k) PROVE FollowInv'
  BY <1>1, RemoteHubConstants DEF AgentConnects, Types, HandlerInv, FollowInv, registry, ends,
     wire, handlers
<1>2. ASSUME NEW k \in Conns, Break(k) PROVE FollowInv'
  BY <1>2, RemoteHubConstants DEF Break, Types, HandlerInv, FollowInv, registry, ends, wire,
     handlers
<1>3. ASSUME NEW k \in Conns, HubEnds(k) PROVE FollowInv'
  <2> DEFINE d == DeviceOf[k]
  <2>1. UNCHANGED <<pc, offered, device>> /\ d \in Devices
    BY <1>3, RemoteHubConstants DEF HubEnds
  <2>2. CASE agents[d] = k
    <3>1. wsOpen' = CloseBrowsersOf(d) /\ agents' = [agents EXCEPT ![d] = None]
      BY <1>3, <2>2 DEF HubEnds
    <3>2. \A b \in Browsers :
             pc[b] = "open" /\ wsOpen'[b] /\ offered[b] => device[b] # d /\ agents[device[b]] # None
      BY <3>1 DEF CloseBrowsersOf, HandlerInv, FollowInv
    <3>3. \A b \in Browsers : device[b] # d => agents'[device[b]] = agents[device[b]]
      BY <3>1 DEF Types
    <3> QED
      BY <2>1, <3>2, <3>3 DEF FollowInv
  <2>3. CASE agents[d] # k
    BY <1>3, <2>1, <2>3 DEF HubEnds, FollowInv
  <2> QED
    BY <2>2, <2>3
<1>4. ASSUME NEW k \in Conns, AgentEnds(k) PROVE FollowInv'
  BY <1>4, RemoteHubConstants DEF AgentEnds, Types, HandlerInv, FollowInv, registry, ends,
     wire, handlers
<1>5. ASSUME NEW k \in Conns, AgentReads(k) PROVE FollowInv'
  BY <1>5, RemoteHubConstants DEF AgentReads, Types, HandlerInv, FollowInv, registry, ends,
     wire, handlers
<1>6. ASSUME NEW k \in Conns, NEW b \in Browsers, ForwardError(k, b) PROVE FollowInv'
  BY <1>6, RemoteHubConstants DEF ForwardError, Types, HandlerInv, FollowInv, registry, ends,
     wire, handlers
<1>7. ASSUME NEW b \in Browsers, NEW d \in Devices, BrowserChecks(b, d) PROVE FollowInv'
  BY <1>7, RemoteHubConstants DEF BrowserChecks, Types, HandlerInv, FollowInv, registry, ends,
     wire, handlers
<1>8. ASSUME NEW b \in Browsers, BrowserRegisters(b) PROVE FollowInv'
  BY <1>8, RemoteHubConstants DEF BrowserRegisters, Types, HandlerInv, FollowInv, registry,
     ends, wire, handlers
<1>9. ASSUME NEW b \in Browsers, BrowserReadFails(b) PROVE FollowInv'
  BY <1>9, RemoteHubConstants DEF BrowserReadFails, Types, HandlerInv, FollowInv, registry,
     ends, wire, handlers
<1>10. ASSUME NEW b \in Browsers, SendClose(b) PROVE FollowInv'
  BY <1>10, RemoteHubConstants DEF SendClose, HubClosed, Sent, Types, HandlerInv, FollowInv,
     registry, ends, wire, handlers
<1>11. ASSUME NEW b \in Browsers, Unregister(b) PROVE FollowInv'
  BY <1>11, RemoteHubConstants DEF Unregister, Types, HandlerInv, FollowInv, registry, ends,
     wire, handlers
<1>12. ASSUME NEW b \in Browsers, BrowserOffers(b) PROVE FollowInv'
  <2>1. /\ UNCHANGED <<agents, device, wsOpen>> /\ offered' = [offered EXCEPT ![b] = TRUE]
        /\ pc[b] = "open"
    BY <1>12 DEF BrowserOffers, registry
  <2>2. CASE HubClosed(agent[b])
    <3>1. pc' = [pc EXCEPT ![b] = "closing"]
      BY <1>12, <2>2 DEF BrowserOffers
    <3> QED
      BY <2>1, <3>1 DEF Types, FollowInv
  <2>3. CASE ~ HubClosed(agent[b])
    <3>1. pc' = pc
      BY <1>12, <2>3 DEF BrowserOffers
    <3>2. agents[device[b]] # None
      BY <2>1, <2>3, RemoteHubConstants DEF HubClosed, HandlerInv
    <3> QED
      BY <2>1, <3>1, <3>2 DEF Types, FollowInv
  <2> QED
    BY <2>2, <2>3
<1>13. ASSUME NEW b \in Browsers, BrowserQuits(b) PROVE FollowInv'
  BY <1>13, RemoteHubConstants DEF BrowserQuits, Types, HandlerInv, FollowInv, registry, ends,
     wire, handlers
<1>14. ASSUME NEW b \in Browsers, BrowserPings(b) PROVE FollowInv'
  BY <1>14, RemoteHubConstants DEF BrowserPings, Types, HandlerInv, FollowInv, registry, ends,
     wire, handlers
<1>15. ASSUME NEW b \in Browsers, BrowserLost(b) PROVE FollowInv'
  BY <1>15, RemoteHubConstants DEF BrowserLost, Types, HandlerInv, FollowInv, registry, ends,
     wire, handlers
<1>16. CASE LoginEnds
  BY <1>16, RemoteHubConstants DEF LoginEnds, Types, HandlerInv, FollowInv, registry, ends,
     wire, handlers
<1>17. CASE UNCHANGED vars
  BY <1>17, RemoteHubConstants DEF vars, Types, HandlerInv, FollowInv, registry, ends, wire,
     handlers
<1> QED
  BY <1>1, <1>2, <1>3, <1>4, <1>5, <1>6, <1>7, <1>8, <1>9, <1>10, <1>11, <1>12, <1>13, <1>14,
     <1>15, <1>16, <1>17 DEF Next, HandlerStep, ConnStep

\* Steps that send nothing to an agent, end no handler and make no link work.
LEMMA KeptFrame ==
    ASSUME KeptInv, UNCHANGED <<toAgent, sessions>>,
           \A k \in Conns : link'[k] => link[k],
           \A k \in Conns : Live(k) \subseteq Live(k)'
    PROVE  KeptInv'
<1> SUFFICES ASSUME NEW k \in Conns, link'[k]
             PROVE  Kept(toAgent[k], sessions[k], Live(k)')
  BY DEF KeptInv
<1>1. Kept(toAgent[k], sessions[k], Live(k))
  BY DEF KeptInv
<1> QED
  BY <1>1, KeptGrows

\* SendClose ends a handler: its "close" goes to the agent unless the connection
\* no longer works.
LEMMA KeptStep == Types /\ LinkInv /\ EndInv /\ HandlerInv /\ KeptInv /\ [Next]_vars => KeptInv'
<1> SUFFICES ASSUME Types, LinkInv, EndInv, HandlerInv, KeptInv, [Next]_vars
             PROVE  KeptInv'
  OBVIOUS
<1>1. ASSUME NEW k \in Conns, AgentConnects(k) PROVE KeptInv'
  <2>1. sessions[k] = {} /\ toAgent[k] = <<>>
    BY <1>1, RemoteHubConstants DEF AgentConnects, EndInv
  <2>2. UNCHANGED <<sessions, toAgent, pc, agent>> /\ \A x \in Conns : x # k /\ link'[x] => link[x]
    BY <1>1 DEF AgentConnects, handlers
  <2>3. \A L : Kept(<<>>, {}, L)
    BY DEF Kept
  <2>4. ASSUME NEW x \in Conns, link'[x] PROVE Kept(toAgent[x], sessions[x], Live(x))
    BY <2>1, <2>2, <2>3, <2>4 DEF KeptInv
  <2> QED
    BY <2>2, <2>4 DEF KeptInv, Live
<1>2. ASSUME NEW k \in Conns, Break(k) PROVE KeptInv'
  BY <1>2, KeptFrame DEF Break, Types, Live, registry, ends, wire, handlers
<1>3. ASSUME NEW k \in Conns, HubEnds(k) PROVE KeptInv'
  BY <1>3, KeptFrame DEF HubEnds, CloseBrowsersOf, Types, Live, registry, ends, wire, handlers
<1>4. ASSUME NEW k \in Conns, AgentEnds(k) PROVE KeptInv'
  <2>1. ~ link[k] /\ UNCHANGED <<link, pc, agent>>
        /\ \A x \in Conns : x # k => sessions'[x] = sessions[x] /\ toAgent'[x] = toAgent[x]
    BY <1>4 DEF AgentEnds, handlers, Types
  <2> QED
    BY <2>1 DEF KeptInv, Live
<1>5. ASSUME NEW k \in Conns, AgentReads(k) PROVE KeptInv'
  <2>1. UNCHANGED <<link, pc, agent>>
        /\ \A x \in Conns : x # k => sessions'[x] = sessions[x] /\ toAgent'[x] = toAgent[x]
    BY <1>5 DEF AgentReads, ends, handlers, Types
  <2>2. ASSUME link[k] PROVE Kept(toAgent'[k], sessions'[k], Live(k))
    <3> DEFINE q == toAgent[k]  S == sessions[k]  c == Head(toAgent[k]).sid
    <3>1. q \in Seq(Message) /\ S \in SUBSET Browsers /\ q # <<>> /\ Kept(q, S, Live(k))
      BY <1>5, <2>2 DEF AgentReads, Types, KeptInv
    <3>2. toAgent'[k] = Tail(q)
          /\ \/ Head(q).type = "offer" /\ sessions'[k] = S \cup {c}
             \/ Head(q).type = "offer" /\ sessions'[k] = S
             \/ Head(q).type = "close" /\ sessions'[k] = S \ {c}
      BY <1>5 DEF AgentReads, Types
    <3> HIDE DEF q, S
    <3>3. /\ Head(q).type = "offer" =>
                Kept(Tail(q), S \cup {Head(q).sid}, Live(k)) /\ Kept(Tail(q), S, Live(k))
          /\ Head(q).type = "close" => Kept(Tail(q), S \ {Head(q).sid}, Live(k))
      BY <3>1, KeptRead
    <3>4. c = Head(q).sid
      BY DEF q
    <3> QED
      BY <3>2, <3>3, <3>4
  <2> QED
    BY <2>1, <2>2 DEF KeptInv, Live
<1>6. ASSUME NEW k \in Conns, NEW b \in Browsers, ForwardError(k, b) PROVE KeptInv'
  BY <1>6, KeptFrame DEF ForwardError, Types, Live, registry, ends, wire, handlers
<1>7. ASSUME NEW b \in Browsers, NEW d \in Devices, BrowserChecks(b, d) PROVE KeptInv'
  BY <1>7, KeptFrame DEF BrowserChecks, Types, Live, registry, ends, wire, handlers
<1>8. ASSUME NEW b \in Browsers, BrowserRegisters(b) PROVE KeptInv'
  BY <1>8, KeptFrame DEF BrowserRegisters, Types, Live, registry, ends, wire, handlers
<1>9. ASSUME NEW b \in Browsers, BrowserReadFails(b) PROVE KeptInv'
  BY <1>9, KeptFrame DEF BrowserReadFails, Types, Live, registry, ends, wire, handlers
<1>10. ASSUME NEW b \in Browsers, SendClose(b) PROVE KeptInv'
  <2>1. /\ UNCHANGED <<link, sessions, agent>> /\ pc[b] = "closing"
        /\ agent[b] \in Conns /\ pc' = [pc EXCEPT ![b] = "leaving"]
    BY <1>10 DEF SendClose, ends, HandlerInv
  <2> DEFINE a == agent[b]
  <2>2. \A x \in Conns : Live(x)' = Live(x) \ {b} /\ (x # a => b \notin Live(x))
    BY <2>1 DEF Live, Types
  <2>3. \A x \in Conns : x # a => toAgent'[x] = toAgent[x]
    BY <1>10, <2>1 DEF SendClose, Sent, Types
  <2>4. ASSUME link[a] PROVE Kept(toAgent'[a], sessions[a], Live(a) \ {b})
    <3>1. ~ HubClosed(a)
      BY <2>1, <2>4 DEF HubClosed, LinkInv
    <3>2. toAgent' = [toAgent EXCEPT ![a] = Append(@, Msg("close", b))]
      BY <1>10, <2>4, <3>1 DEF SendClose, Sent, Msg
    <3>3. toAgent'[a] = Append(toAgent[a], Msg("close", b))
      BY <2>1, <3>2 DEF Types
    <3>4. toAgent[a] \in Seq(Message) /\ sessions[a] \in SUBSET Browsers
          /\ Kept(toAgent[a], sessions[a], Live(a))
      BY <2>1, <2>4 DEF Types, KeptInv
    <3>5. Kept(Append(toAgent[a], Msg("close", b)), sessions[a], Live(a) \ {b})
      BY <3>4, KeptAppend
    <3> QED
      BY <3>3, <3>5
  <2> HIDE DEF a
  <2>5. \A x \in Conns : x # a => Live(x)' = Live(x)
    BY <2>2
  <2> QED
    BY <2>1, <2>2, <2>3, <2>4, <2>5 DEF KeptInv
<1>11. ASSUME NEW b \in Browsers, Unregister(b) PROVE KeptInv'
  BY <1>11, KeptFrame DEF Unregister, Types, Live, registry, ends, wire, handlers
<1>12. ASSUME NEW b \in Browsers, BrowserOffers(b) PROVE KeptInv'
  <2>1. /\ UNCHANGED <<link, sessions, agent>> /\ pc[b] = "open"
        /\ agent[b] \in Conns
    BY <1>12 DEF BrowserOffers, ends, HandlerInv
  <2>2. CASE toAgent' = toAgent
    BY <1>12, <2>1, <2>2, KeptFrame DEF BrowserOffers, Types, Live
  <2>3. CASE toAgent' = [toAgent EXCEPT ![agent[b]] = Append(@, Msg("offer", b))] /\ pc' = pc
    <3> DEFINE a == agent[b]
    <3>1. b \in Live(a)
      BY <2>1 DEF Live
    <3>2. ASSUME link[a]
          PROVE  Kept(Append(toAgent[a], Msg("offer", b)), sessions[a], Live(a))
      <4>1. toAgent[a] \in Seq(Message) /\ sessions[a] \in SUBSET Browsers
            /\ Kept(toAgent[a], sessions[a], Live(a))
        BY <2>1, <3>2 DEF Types, KeptInv
      <4> QED
        BY <3>1, <4>1, KeptAppend
    <3>3. \A x \in Conns : IF x = a THEN toAgent'[x] = Append(toAgent[a], Msg("offer", b))
                                    ELSE toAgent'[x] = toAgent[x]
      BY <2>1, <2>3 DEF Types
    <3>4. \A x : Live(x)' = Live(x)
      BY <2>1, <2>3 DEF Live
    <3> HIDE DEF a
    <3> QED
      BY <2>1, <3>2, <3>3, <3>4 DEF KeptInv
  <2>4. \/ toAgent' = toAgent
        \/ toAgent' = [toAgent EXCEPT ![agent[b]] = Append(@, Msg("offer", b))] /\ pc' = pc
    BY <1>12 DEF BrowserOffers, Sent, Msg
  <2> QED
    BY <2>2, <2>3, <2>4
<1>13. ASSUME NEW b \in Browsers, BrowserQuits(b) PROVE KeptInv'
  BY <1>13, KeptFrame DEF BrowserQuits, Types, Live, registry, ends, wire, handlers
<1>14. ASSUME NEW b \in Browsers, BrowserPings(b) PROVE KeptInv'
  BY <1>14, KeptFrame DEF BrowserPings, Types, Live, registry, ends, wire, handlers
<1>15. ASSUME NEW b \in Browsers, BrowserLost(b) PROVE KeptInv'
  BY <1>15, KeptFrame DEF BrowserLost, Types, Live, registry, ends, wire, handlers
<1>16. CASE LoginEnds
  BY <1>16, KeptFrame DEF LoginEnds, Types, Live, registry, ends, wire, handlers
<1>17. CASE UNCHANGED vars
  BY <1>17, KeptFrame DEF vars, Types, Live, registry, ends, wire, handlers
<1> QED
  BY <1>1, <1>2, <1>3, <1>4, <1>5, <1>6, <1>7, <1>8, <1>9, <1>10, <1>11, <1>12, <1>13, <1>14,
     <1>15, <1>16, <1>17 DEF Next, HandlerStep, ConnStep

LEMMA FewStep == Types /\ FewInv /\ [Next]_vars => FewInv'
<1> SUFFICES ASSUME Types, FewInv, [Next]_vars PROVE FewInv'
  OBVIOUS
<1>1. ASSUME NEW k \in Conns, AgentConnects(k) PROVE FewInv'
  BY <1>1 DEF AgentConnects, FewInv, registry, ends, wire, handlers
<1>2. ASSUME NEW k \in Conns, Break(k) PROVE FewInv'
  BY <1>2 DEF Break, FewInv, registry, ends, wire, handlers
<1>3. ASSUME NEW k \in Conns, HubEnds(k) PROVE FewInv'
  BY <1>3 DEF HubEnds, CloseBrowsersOf, FewInv, registry, ends, wire, handlers
<1>4. ASSUME NEW k \in Conns, AgentEnds(k) PROVE FewInv'
  <2>1. \A x \in Conns : sessions'[x] = {} \/ sessions'[x] = sessions[x]
    BY <1>4 DEF AgentEnds, Types
  <2>2. IsFiniteSet({}) /\ Cardinality({}) <= MaxSessions
    BY FS_EmptySet, RemoteHubConstants
  <2> QED
    BY <2>1, <2>2 DEF FewInv
<1>5. ASSUME NEW k \in Conns, AgentReads(k) PROVE FewInv'
  <2> DEFINE S == sessions[k]  c == Head(toAgent[k]).sid
  <2>1. /\ \/ sessions'[k] = S \cup {c} /\ c \notin S /\ Cardinality(S) < MaxSessions
           \/ sessions'[k] = S
           \/ sessions'[k] = S \ {c}
        /\ \A x \in Conns : x # k => sessions'[x] = sessions[x]
    BY <1>5 DEF AgentReads, Types
  <2>2. IsFiniteSet(S) /\ Cardinality(S) <= MaxSessions /\ Cardinality(S) \in Nat
    BY FS_CardinalityType DEF FewInv
  <2> HIDE DEF S, c
  <2>3. /\ IsFiniteSet(S \cup {c}) /\ (c \notin S => Cardinality(S \cup {c}) = Cardinality(S) + 1)
        /\ IsFiniteSet(S \ {c}) /\ Cardinality(S \ {c}) <= Cardinality(S)
        /\ Cardinality(S \ {c}) \in Nat
    <3>1. IsFiniteSet(S \cup {c}) /\ (c \notin S => Cardinality(S \cup {c}) = Cardinality(S) + 1)
      BY <2>2, FS_AddElement
    <3>2. S \ {c} \subseteq S
      OBVIOUS
    <3> QED
      BY <2>2, <3>1, <3>2, FS_Subset, FS_CardinalityType
  <2>4. IsFiniteSet(sessions'[k]) /\ Cardinality(sessions'[k]) <= MaxSessions
    <3>1. CASE sessions'[k] = S
      BY <2>2, <3>1
    <3>2. CASE sessions'[k] = S \ {c}
      BY <2>2, <2>3, <3>2, RemoteHubConstants
    <3>3. CASE sessions'[k] = S \cup {c} /\ c \notin S /\ Cardinality(S) < MaxSessions
      <4>1. Cardinality(S \cup {c}) <= MaxSessions
        BY <2>2, <2>3, <3>3, RemoteHubConstants
      <4> QED
        BY <2>3, <3>3, <4>1
    <3> QED
      BY <2>1, <3>1, <3>2, <3>3
  <2> QED
    BY <2>1, <2>4 DEF FewInv
<1>6. ASSUME NEW k \in Conns, NEW b \in Browsers, ForwardError(k, b) PROVE FewInv'
  BY <1>6 DEF ForwardError, FewInv, registry, ends, wire, handlers
<1>7. ASSUME NEW b \in Browsers, NEW d \in Devices, BrowserChecks(b, d) PROVE FewInv'
  BY <1>7 DEF BrowserChecks, FewInv, registry, ends, wire, handlers
<1>8. ASSUME NEW b \in Browsers, BrowserRegisters(b) PROVE FewInv'
  BY <1>8 DEF BrowserRegisters, FewInv, registry, ends, wire, handlers
<1>9. ASSUME NEW b \in Browsers, BrowserReadFails(b) PROVE FewInv'
  BY <1>9 DEF BrowserReadFails, FewInv, registry, ends, wire, handlers
<1>10. ASSUME NEW b \in Browsers, SendClose(b) PROVE FewInv'
  BY <1>10 DEF SendClose, HubClosed, Sent, FewInv, registry, ends, wire, handlers
<1>11. ASSUME NEW b \in Browsers, Unregister(b) PROVE FewInv'
  BY <1>11 DEF Unregister, FewInv, registry, ends, wire, handlers
<1>12. ASSUME NEW b \in Browsers, BrowserOffers(b) PROVE FewInv'
  BY <1>12 DEF BrowserOffers, HubClosed, Sent, FewInv, registry, ends, wire, handlers
<1>13. ASSUME NEW b \in Browsers, BrowserQuits(b) PROVE FewInv'
  BY <1>13 DEF BrowserQuits, FewInv, registry, ends, wire, handlers
<1>14. ASSUME NEW b \in Browsers, BrowserPings(b) PROVE FewInv'
  BY <1>14 DEF BrowserPings, FewInv, registry, ends, wire, handlers
<1>15. ASSUME NEW b \in Browsers, BrowserLost(b) PROVE FewInv'
  BY <1>15 DEF BrowserLost, FewInv, registry, ends, wire, handlers
<1>16. CASE LoginEnds
  BY <1>16 DEF LoginEnds, FewInv, registry, ends, wire, handlers
<1>17. CASE UNCHANGED vars
  BY <1>17 DEF vars, FewInv, registry, ends, wire, handlers
<1> QED
  BY <1>1, <1>2, <1>3, <1>4, <1>5, <1>6, <1>7, <1>8, <1>9, <1>10, <1>11, <1>12, <1>13, <1>14,
     <1>15, <1>16, <1>17 DEF Next, HandlerStep, ConnStep

-----------------------------------------------------------------------------
(* The theorems.                                                           *)

\* The invariant of the registry, the connections and the handlers.
THEOREM Invariance == Spec => []IndInv
<1>1. Init => IndInv
  BY IndInit
<1>2. IndInv /\ [Next]_vars => IndInv'
  BY TypesStep, LinkStep, EndStep, RegistryStep, HandlerInvStep, FollowStep, KeptStep, FewStep
     DEF IndInv
<1> QED
  BY <1>1, <1>2, PTL DEF Spec

\* Every variable has its type, and no agent ever has more than MaxSessions
\* sessions on a connection (agent/remote.go, remoteConnect).
THEOREM TypeCorrect == Spec => []TypeOK
<1>1. IndInv => TypeOK
  BY DEF IndInv, Types, FewInv, TypeOK
<1> QED
  BY <1>1, Invariance, PTL

\* No session of an agent outlives its browser (server/remote.go, the deferred
\* function of remoteBrowser; agent/remote.go, "close").
THEOREM SessionsEndWithBrowsers == Spec => []SessionsHaveBrowsers
<1>1. IndInv => SessionsHaveBrowsers
  <2> SUFFICES ASSUME IndInv, NEW k \in Conns, link[k], NEW b \in sessions[k]
               PROVE  \/ pc[b] \in {"open", "closing"} /\ agent[b] = k
                      \/ \E i \in 1..Len(toAgent[k]) :
                            toAgent[k][i] = [type |-> "close", sid |-> b]
    BY DEF SessionsHaveBrowsers
  <2> QED
    BY DEF IndInv, KeptInv, Kept, Live, Msg
<1> QED
  BY <1>1, Invariance, PTL

\* A session that has made its offer does not stay open when its device goes
\* offline (server/remote.go, remoteAgent).
THEOREM SessionsFollowTheDevice == Spec => []OfferedSessionsFollowAgent
<1>1. IndInv => OfferedSessionsFollowAgent
  BY DEF IndInv, FollowInv, OfferedSessionsFollowAgent
<1> QED
  BY <1>1, Invariance, PTL
=============================================================================
