------------------------------ MODULE RemoteHub ------------------------------
(***************************************************************************)
(* Signalling of remote sessions: the hub's two WebSocket handlers         *)
(* (internal/server/remote.go: remoteAgent, remoteBrowser) and the agent's *)
(* end with its table of sessions (internal/agent/remote.go:               *)
(* remoteConnect).  A handler is one goroutine; the hub's registry is      *)
(* guarded by remoteHub's mutex, which is not held while a handler writes  *)
(* to a socket or upgrades a connection, so what remoteBrowser read before *)
(* its upgrade may be stale afterwards.                                    *)
(*                                                                         *)
(* The payload of answers and relayed messages carries no state of this    *)
(* component; what is sent on a socket whose peer is gone is lost without  *)
(* an error until the hub closes its end.                                  *)
(***************************************************************************)
EXTENDS Naturals, Sequences, FiniteSets

CONSTANTS
    Devices,
    Conns,          \* connections of agents
    DeviceOf,       \* [Conns -> Devices]
    Browsers,       \* browser sessions (sid), each used once
    MaxBrowsers,    \* 32 in the code
    MaxSessions,    \* 8 in the code
    None

ASSUME RemoteHubConstants ==
    /\ DeviceOf \in [Conns -> Devices]
    /\ MaxBrowsers \in Nat /\ MaxSessions \in Nat
    /\ None \notin Conns \cup Devices

VARIABLES
    agents,         \* s.remote.agents: [Devices -> Conns \cup {None}]
    browsers,       \* s.remote.browsers: registered sids
    hubEnd,         \* [Conns -> "absent" | "open" | "gone"]: remoteAgent
    agentEnd,       \* [Conns -> "absent" | "open" | "gone"]: remoteConnect
    link,           \* the network and both sockets still work
    toAgent,        \* messages the hub wrote and the agent has not read
    errs,           \* errors the agent wrote: [Conns -> SUBSET Browsers]
    sessions,       \* the agent's table: [Conns -> SUBSET Browsers]
    pc,             \* remoteBrowser: "idle" "upgrading" "open" "closing"
                    \* "leaving" "done"
    device, agent,  \* its variables id and agent
    offered,
    wsOpen,         \* the browser's socket
    admin           \* the administrator's login is valid

registry == <<agents, browsers>>
ends     == <<hubEnd, agentEnd, link>>
wire     == <<toAgent, errs, sessions>>
handlers == <<pc, device, agent, offered, wsOpen>>
vars     == <<registry, ends, wire, handlers, admin>>

Message == [type : {"offer", "close"}, sid : Browsers]

TypeOK ==
    /\ agents \in [Devices -> Conns \cup {None}]
    /\ browsers \subseteq Browsers
    /\ hubEnd \in [Conns -> {"absent", "open", "gone"}]
    /\ agentEnd \in [Conns -> {"absent", "open", "gone"}]
    /\ link \in [Conns -> BOOLEAN]
    /\ toAgent \in [Conns -> Seq(Message)]
    /\ errs \in [Conns -> SUBSET Browsers]
    /\ sessions \in [Conns -> {set \in SUBSET Browsers : Cardinality(set) <= MaxSessions}]
    /\ pc \in [Browsers -> {"idle", "upgrading", "open", "closing", "leaving", "done"}]
    /\ device \in [Browsers -> Devices \cup {None}]
    /\ agent \in [Browsers -> Conns \cup {None}]
    /\ offered \in [Browsers -> BOOLEAN]
    /\ wsOpen \in [Browsers -> BOOLEAN]
    /\ admin \in BOOLEAN

Init ==
    /\ agents = [d \in Devices |-> None]
    /\ browsers = {}
    /\ hubEnd = [k \in Conns |-> "absent"]
    /\ agentEnd = [k \in Conns |-> "absent"]
    /\ link = [k \in Conns |-> FALSE]
    /\ toAgent = [k \in Conns |-> <<>>]
    /\ errs = [k \in Conns |-> {}]
    /\ sessions = [k \in Conns |-> {}]
    /\ pc = [b \in Browsers |-> "idle"]
    /\ device = [b \in Browsers |-> None]
    /\ agent = [b \in Browsers |-> None]
    /\ offered = [b \in Browsers |-> FALSE]
    /\ wsOpen = [b \in Browsers |-> FALSE]
    /\ admin = TRUE

(***************************************************************************)
(* Agent connections.                                                      *)
(***************************************************************************)
\* remoteConnect dials and remoteAgent registers the connection; a connection
\* the registry still holds is replaced and closed.  The agent has one
\* connection at a time; the hub may not yet have noticed that the last broke.
\* The name k is used again once nothing refers to the connection it stood for.
AgentConnects(k) ==
    LET d == DeviceOf[k]  old == agents[d] IN
    /\ hubEnd[k] # "open"
    /\ \A b \in Browsers : agent[b] = k => pc[b] = "done"
    /\ \A x \in Conns : DeviceOf[x] = d => agentEnd[x] # "open"
    /\ agents' = [agents EXCEPT ![d] = k]
    /\ hubEnd' = [hubEnd EXCEPT ![k] = "open"]
    /\ agentEnd' = [agentEnd EXCEPT ![k] = "open"]
    /\ link' = [x \in Conns |-> IF x = k THEN TRUE ELSE IF x = old THEN FALSE ELSE link[x]]
    /\ errs' = [errs EXCEPT ![k] = {}]
    /\ UNCHANGED <<browsers, toAgent, sessions, handlers, admin>>

\* A network failure or a timeout of 75 s; neither end has noticed.
Break(k) ==
    /\ link[k]
    /\ link' = [link EXCEPT ![k] = FALSE]
    /\ UNCHANGED <<registry, hubEnd, agentEnd, wire, handlers, admin>>

CloseBrowsersOf(d) ==
    [b \in Browsers |-> IF b \in browsers /\ device[b] = d THEN FALSE ELSE wsOpen[b]]

HubEndsQuietly(k) ==
    LET d == DeviceOf[k] IN
    /\ hubEnd[k] = "open" /\ ~ link[k]
    /\ hubEnd' = [hubEnd EXCEPT ![k] = "gone"]
    /\ errs' = [errs EXCEPT ![k] = {}]
    /\ agents' = IF agents[d] = k THEN [agents EXCEPT ![d] = None] ELSE agents
    /\ UNCHANGED <<browsers, agentEnd, link, toAgent, sessions, handlers, admin>>

\* remoteAgent's read fails: only the connection that is still registered
\* takes the device offline and its browsers with it.
HubEnds(k) ==
    LET d == DeviceOf[k] IN
    /\ hubEnd[k] = "open" /\ ~ link[k]
    /\ hubEnd' = [hubEnd EXCEPT ![k] = "gone"]
    /\ errs' = [errs EXCEPT ![k] = {}]
    /\ IF agents[d] = k
       THEN agents' = [agents EXCEPT ![d] = None] /\ wsOpen' = CloseBrowsersOf(d)
       ELSE UNCHANGED <<agents, wsOpen>>
    /\ UNCHANGED <<browsers, agentEnd, link, toAgent, sessions, pc, device, agent, offered,
                   admin>>

\* remoteConnect's read fails: every session of the connection is closed.
AgentEnds(k) ==
    /\ agentEnd[k] = "open" /\ ~ link[k]
    /\ agentEnd' = [agentEnd EXCEPT ![k] = "gone"]
    /\ sessions' = [sessions EXCEPT ![k] = {}]
    /\ toAgent' = [toAgent EXCEPT ![k] = <<>>]
    /\ UNCHANGED <<registry, hubEnd, link, errs, handlers, admin>>

\* The agent reads a message; what was written before a failure may still
\* arrive.  remote.New may fail, and the table may be full.
AgentReads(k) ==
    /\ agentEnd[k] = "open" /\ toAgent[k] # <<>>
    /\ toAgent' = [toAgent EXCEPT ![k] = Tail(@)]
    /\ LET m == Head(toAgent[k]) IN
       \/ /\ m.type = "offer"
          /\ m.sid \notin sessions[k] /\ Cardinality(sessions[k]) < MaxSessions
          /\ sessions' = [sessions EXCEPT ![k] = @ \cup {m.sid}]
          /\ UNCHANGED errs
       \/ /\ m.type = "offer"
          /\ errs' = [errs EXCEPT ![k] = @ \cup {m.sid}]
          /\ UNCHANGED sessions
       \/ /\ m.type = "close"
          /\ sessions' = [sessions EXCEPT ![k] = @ \ {m.sid}]
          /\ UNCHANGED errs
    /\ UNCHANGED <<registry, ends, handlers, admin>>

\* remoteAgent forwards an error to the browser, whose Link then closes its
\* socket (remote-ui.js: fail).
ForwardError(k, b) ==
    /\ hubEnd[k] = "open" /\ b \in errs[k]
    /\ errs' = [errs EXCEPT ![k] = @ \ {b}]
    /\ wsOpen' = [wsOpen EXCEPT ![b] = @ /\ ~ (b \in browsers /\ device[b] = DeviceOf[k])]
    /\ UNCHANGED <<registry, ends, toAgent, sessions, pc, device, agent, offered, admin>>

(***************************************************************************)
(* remoteBrowser.                                                          *)
(***************************************************************************)
\* The checks before the upgrade; agent and the count are not read again.
BrowserChecks(b, d) ==
    /\ pc[b] = "idle" /\ admin
    /\ Cardinality(browsers) < MaxBrowsers
    /\ agents[d] # None
    /\ pc' = [pc EXCEPT ![b] = "upgrading"]
    /\ device' = [device EXCEPT ![b] = d]
    /\ agent' = [agent EXCEPT ![b] = agents[d]]
    /\ UNCHANGED <<registry, ends, wire, offered, wsOpen, admin>>

BrowserRegisters(b) ==
    /\ pc[b] = "upgrading"
    /\ \/ /\ pc' = [pc EXCEPT ![b] = "open"]
          /\ browsers' = browsers \cup {b}
          /\ wsOpen' = [wsOpen EXCEPT ![b] = TRUE]
       \/ /\ pc' = [pc EXCEPT ![b] = "done"]           \* the upgrade fails
          /\ UNCHANGED <<browsers, wsOpen>>
    /\ UNCHANGED <<agents, ends, wire, device, agent, offered, admin>>

\* signalConn.send on a connection of an agent: an error only if the hub has
\* closed its end; lost when the link is broken.
Sent(k, m) ==
    toAgent' = IF link[k] THEN [toAgent EXCEPT ![k] = Append(@, m)] ELSE toAgent

\* Closed by the hub (a replaced connection is closed at once).
HubClosed(k) == hubEnd[k] = "gone" \/ agents[DeviceOf[k]] # k

\* The offer goes to the connection that was read before the upgrade.
BrowserOffers(b) ==
    /\ pc[b] = "open" /\ wsOpen[b] /\ admin /\ ~ offered[b]
    /\ offered' = [offered EXCEPT ![b] = TRUE]
    /\ IF HubClosed(agent[b])
       THEN pc' = [pc EXCEPT ![b] = "closing"] /\ UNCHANGED toAgent
       ELSE Sent(agent[b], [type |-> "offer", sid |-> b]) /\ UNCHANGED pc
    /\ UNCHANGED <<registry, ends, errs, sessions, device, agent, wsOpen, admin>>

\* A relayed message fails, a second offer, relay before an offer, close, or
\* any message after the login ended: the handler returns.
BrowserQuits(b) ==
    /\ pc[b] = "open" /\ wsOpen[b]
    /\ pc' = [pc EXCEPT ![b] = "closing"]
    /\ UNCHANGED <<registry, ends, wire, device, agent, offered, wsOpen, admin>>

PingIgnoresLogin(b) ==
    /\ pc[b] = "open" /\ wsOpen[b]
    /\ UNCHANGED vars

\* The Link pings every 20 s; the handler first checks the login again.
BrowserPings(b) ==
    /\ pc[b] = "open" /\ wsOpen[b]
    /\ pc' = IF admin THEN pc ELSE [pc EXCEPT ![b] = "closing"]
    /\ UNCHANGED <<registry, ends, wire, device, agent, offered, wsOpen, admin>>

\* The page is closed, the network fails, or 30 minutes are over.
BrowserLost(b) ==
    /\ wsOpen[b]
    /\ wsOpen' = [wsOpen EXCEPT ![b] = FALSE]
    /\ UNCHANGED <<registry, ends, wire, pc, device, agent, offered, admin>>

BrowserReadFails(b) ==
    /\ pc[b] = "open" /\ ~ wsOpen[b]
    /\ pc' = [pc EXCEPT ![b] = "closing"]
    /\ UNCHANGED <<registry, ends, wire, device, agent, offered, wsOpen, admin>>

ForgetsToClose(b) ==
    /\ pc[b] = "closing"
    /\ pc' = [pc EXCEPT ![b] = "leaving"]
    /\ UNCHANGED <<registry, ends, wire, device, agent, offered, wsOpen, admin>>

\* The deferred function first tells the agent, then leaves the registry.
SendClose(b) ==
    /\ pc[b] = "closing"
    /\ pc' = [pc EXCEPT ![b] = "leaving"]
    /\ IF HubClosed(agent[b])
       THEN UNCHANGED toAgent
       ELSE Sent(agent[b], [type |-> "close", sid |-> b])
    /\ UNCHANGED <<registry, ends, errs, sessions, device, agent, offered, wsOpen, admin>>

Unregister(b) ==
    /\ pc[b] = "leaving"
    /\ pc' = [pc EXCEPT ![b] = "done"]
    /\ browsers' = browsers \ {b}
    /\ wsOpen' = [wsOpen EXCEPT ![b] = FALSE]
    /\ UNCHANGED <<agents, ends, wire, device, agent, offered, admin>>

\* logout, or the 12 hours of a login are over.
LoginEnds ==
    /\ admin
    /\ admin' = FALSE
    /\ UNCHANGED <<registry, ends, wire, handlers>>

HandlerStep(b) ==
    \/ BrowserRegisters(b)
    \/ BrowserReadFails(b)
    \/ SendClose(b)
    \/ Unregister(b)

ConnStep(k) ==
    \/ HubEnds(k)
    \/ AgentEnds(k)
    \/ AgentReads(k)
    \/ \E b \in Browsers : ForwardError(k, b)

Next ==
    \/ \E k \in Conns : AgentConnects(k) \/ Break(k) \/ ConnStep(k)
    \/ \E b \in Browsers, d \in Devices : BrowserChecks(b, d)
    \/ \E b \in Browsers :
        \/ HandlerStep(b)
        \/ BrowserOffers(b)
        \/ BrowserQuits(b)
        \/ BrowserPings(b)
        \/ BrowserLost(b)
    \/ LoginEnds

Spec == Init /\ [][Next]_vars

(***************************************************************************)
(* Goroutines run, broken connections are noticed (75 s read deadlines),   *)
(* and an open page pings every 20 s.                                      *)
(***************************************************************************)
Fairness ==
    /\ \A b \in Browsers : WF_vars(HandlerStep(b)) /\ WF_vars(BrowserPings(b))
    /\ \A k \in Conns : WF_vars(HubEnds(k)) /\ WF_vars(AgentEnds(k)) /\ WF_vars(AgentReads(k))

FairSpec == Spec /\ Fairness

(***************************************************************************)
(* Properties.                                                             *)
(***************************************************************************)
\* No session of an agent outlives its browser: as long as the connection
\* works, the browser's handler is still there and holds this connection, or
\* its "close" is on the way.
SessionsHaveBrowsers ==
    \A k \in Conns : agentEnd[k] = "open" /\ link[k] =>
        \A b \in sessions[k] :
            \/ pc[b] \in {"open", "closing"} /\ agent[b] = k
            \/ \E i \in 1..Len(toAgent[k]) : toAgent[k][i] = [type |-> "close", sid |-> b]

\* A session whose offer was accepted by a connection that is gone is open
\* only if the device has reconnected since: it is not left on the screen
\* after the device went offline.
OfferedSessionsFollowAgent ==
    \A b \in Browsers :
        pc[b] = "open" /\ wsOpen[b] /\ offered[b] /\ hubEnd[agent[b]] = "gone"
            => agents[device[b]] # None

\* "管理会话失效后在下一次信令心跳关闭" (README 75): once the login has ended, every
\* browser session is closed, and with it the session on the device, which may
\* by then be a direct connection the hub does not see.
LoginEndClosesSessions ==
    ~ admin ~> /\ \A b \in Browsers : pc[b] \in {"idle", "done"}
               /\ \A k \in Conns : sessions[k] = {}
=============================================================================
