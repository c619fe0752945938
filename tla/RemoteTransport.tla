--------------------------- MODULE RemoteTransport ---------------------------
(***************************************************************************)
(* One remote session: the Link of the console (web/static/remote-ui.js)   *)
(* and the Session of the device (internal/remote/session.go).  Calls and  *)
(* answers travel on a direct WebRTC channel or, once an end gives it up,  *)
(* through the hub (RemoteHub).  Each end switches on its own, the device  *)
(* when the first relayed call reaches it or when it sees the channel      *)
(* closed, and nothing orders the two paths.                               *)
(*                                                                         *)
(* A long answer is sent in chunks, each on the path of that moment; two   *)
(* chunks show all that more would.  Unsolicited terminal output takes the *)
(* way of an answer and carries no state of this component.                *)
(***************************************************************************)
EXTENDS Naturals, Sequences, FiniteSets

CONSTANTS
    MaxCalls,       \* bound: calls of the console
    Long,           \* calls whose answer needs two chunks
    MaxQueue,       \* 64 in the code
    MaxParts,       \* 4 in the code
    None

Calls == 1..MaxCalls

ASSUME RemoteTransportConstants ==
    /\ MaxCalls \in Nat /\ MaxQueue \in Nat \ {0} /\ MaxParts \in Nat \ {0}
    /\ Long \subseteq Calls
    /\ None \notin Calls

VARIABLES
    \* The Link.
    offered,
    timer,          \* the 12 s of fallback are running
    ready, relay, closed,
    seq, pending,
    parts,          \* [Calls -> chunks of the answer received so far]
    \* The Session.
    ctx,            \* its context: "none" before New, "live", "done"
    running,        \* run has not returned
    viaRelay,       \* Session.relay
    held,           \* a direct call past the check of relay, or None
    queue,          \* calls accepted, and how they came
    answering,      \* the answer being sent: [call, n], or None
    executed,       \* history: the calls handled, and how they came
    \* The direct channel and what is under way.
    path,           \* "new", "up" or "down"
    here,           \* readyState at the console
    there,          \* readyState at the device
    dcUp, dcDown, wsUp, wsDown

linkState == <<offered, timer, ready, relay, closed, seq, pending, parts>>
session   == <<ctx, running, viaRelay, held, queue, answering, executed>>
channel   == <<path, here, there>>
wires     == <<dcUp, dcDown, wsUp, wsDown>>
vars      == <<linkState, session, channel, wires>>

Ways  == {"direct", "relay"}
Taken == [call : Calls, way : Ways]
Chunk == [call : Calls, n : 1..2, last : BOOLEAN]

\* The answers of which some chunks, and not all, have been received.
Incomplete == {c \in Calls : parts[c] # <<>>}

Init ==
    /\ offered = FALSE /\ timer = FALSE
    /\ ready = FALSE /\ relay = FALSE /\ closed = FALSE
    /\ seq = 0 /\ pending = {}
    /\ parts = [c \in Calls |-> <<>>]
    /\ ctx = "none" /\ running = FALSE /\ viaRelay = FALSE
    /\ held = None /\ queue = <<>> /\ answering = None /\ executed = <<>>
    /\ path = "new" /\ here = "connecting" /\ there = "connecting"
    /\ dcUp = <<>> /\ dcDown = <<>> /\ wsUp = <<>> /\ wsDown = <<>>

(***************************************************************************)
(* The direct channel, of the WebRTC libraries.                            *)
(***************************************************************************)
PathComesUp ==
    /\ path = "new" /\ ctx = "live" /\ ~ closed
    /\ path' = "up"
    /\ UNCHANGED <<linkState, session, here, there, wires>>

\* The path fails or an end closes it: what is under way on it is lost.
PathFails ==
    /\ path = "up"
    /\ path' = "down"
    /\ dcUp' = <<>> /\ dcDown' = <<>>
    /\ UNCHANGED <<linkState, session, here, there, wsUp, wsDown>>

\* OnDataChannel: the device has the channel.
DeviceHasChannel ==
    /\ path = "up" /\ there = "connecting"
    /\ there' = "open"
    /\ UNCHANGED <<linkState, session, path, here, wires>>

\* An end learns, late, that the channel is gone.
ChannelCloses ==
    /\ path = "down"
    /\ \/ here = "open" /\ here' = "closed" /\ UNCHANGED there
       \/ there = "open" /\ there' = "closed" /\ UNCHANGED here
    /\ UNCHANGED <<linkState, session, path, wires>>

(***************************************************************************)
(* The Link of the console.                                                *)
(***************************************************************************)
\* ws.onopen, once the candidates are gathered; the offer starts the Session.
SendOffer ==
    /\ ~ closed /\ ~ offered
    /\ offered' = TRUE /\ timer' = TRUE
    /\ UNCHANGED <<ready, relay, closed, seq, pending, parts, session, channel, wires>>

\* dc.onopen.
ChannelOpens ==
    /\ path = "up" /\ here = "connecting" /\ ~ closed
    /\ here' = "open"
    /\ ready' = (ready \/ ~ relay)
    /\ UNCHANGED <<offered, timer, relay, closed, seq, pending, parts, session, path,
                   there, wires>>

\* useRelay; no caller is reached before the offer, or on a closed Link.
UseRelay == relay' = TRUE /\ ready' = TRUE

\* The 12 s after the offer are over.
FallbackTimer ==
    /\ ~ closed /\ timer
    /\ timer' = FALSE
    /\ IF here # "open" THEN UseRelay ELSE UNCHANGED <<relay, ready>>
    /\ UNCHANGED <<offered, closed, seq, pending, parts, session, channel, wires>>

\* onconnectionstatechange says "failed", or "disconnected", which may pass.
Disconnected ==
    /\ ~ closed /\ offered /\ ~ relay
    /\ UseRelay
    /\ UNCHANGED <<offered, timer, closed, seq, pending, parts, session, channel, wires>>

CallOnBothWays ==
    /\ ready /\ ~ closed /\ seq < MaxCalls
    /\ seq' = seq + 1
    /\ pending' = pending \cup {seq + 1}
    /\ UseRelay
    /\ dcUp' = IF here = "open" /\ path = "up" THEN Append(dcUp, seq + 1) ELSE dcUp
    /\ wsUp' = Append(wsUp, seq + 1)
    /\ UNCHANGED <<offered, timer, closed, parts, session, channel, dcDown, wsDown>>

\* call: a channel that has failed unnoticed swallows it.
Call ==
    /\ ready /\ ~ closed /\ seq < MaxCalls
    /\ seq' = seq + 1
    /\ pending' = pending \cup {seq + 1}
    /\ \/ /\ ~ relay /\ here = "open"
          /\ dcUp' = IF path = "up" THEN Append(dcUp, seq + 1) ELSE dcUp
          /\ UNCHANGED <<ready, relay, wsUp>>
       \/ /\ relay \/ here # "open"
          /\ UseRelay
          /\ wsUp' = Append(wsUp, seq + 1)
          /\ UNCHANGED dcUp
    /\ UNCHANGED <<offered, timer, closed, parts, session, channel, dcDown, wsDown>>

CallTimeoutUnlessRelayed(c) ==
    /\ c \in pending /\ ~ relay
    /\ pending' = pending \ {c}
    /\ UNCHANGED <<offered, timer, ready, relay, closed, seq, parts, session, channel,
                   wires>>

\* A call is given up after 30 s.
CallTimeout(c) ==
    /\ c \in pending
    /\ pending' = pending \ {c}
    /\ UNCHANGED <<offered, timer, ready, relay, closed, seq, parts, session, channel,
                   wires>>

\* fail and close: every pending call is rejected, both connections go.
Closes ==
    /\ closed' = TRUE
    /\ pending' = {}
    /\ parts' = [c \in Calls |-> <<>>]

\* The WebSocket ends, the hub reports an error or the dialog is closed.
LinkEnds ==
    /\ ~ closed
    /\ Closes
    /\ UNCHANGED <<offered, timer, ready, relay, seq, session, channel, wires>>

\* receive: an answer in one piece, or the next chunk of a long one.  Chunks
\* that are not the whole answer do not parse: through the hub that ends the
\* Link, the handler of the direct channel only throws.
Receive(m, way) ==
    LET got     == Append(parts[m.call], m.n)
        toomany == Cardinality(Incomplete \cup {m.call}) > MaxParts
        broken  == m.last /\ got # <<1, 2>>
        fails   == toomany \/ (broken /\ way = "relay") IN
    \/ /\ m.call \notin Long
       /\ pending' = pending \ {m.call}
       /\ UNCHANGED <<closed, parts>>
    \/ /\ m.call \in Long /\ fails
       /\ Closes
    \/ /\ m.call \in Long /\ ~ fails
       /\ parts' = [parts EXCEPT ![m.call] = IF m.last THEN <<>> ELSE got]
       /\ pending' = IF m.last /\ ~ broken THEN pending \ {m.call} ELSE pending
       /\ UNCHANGED closed

\* dc.onmessage.
ReceiveDirect ==
    /\ ~ closed /\ here = "open" /\ dcDown # <<>>
    /\ Receive(Head(dcDown), "direct")
    /\ dcDown' = Tail(dcDown)
    /\ UNCHANGED <<offered, timer, ready, relay, seq, session, channel, dcUp, wsUp, wsDown>>

\* ws.onmessage.
ReceiveRelay ==
    /\ ~ closed /\ wsDown # <<>>
    /\ Receive(Head(wsDown), "relay")
    /\ wsDown' = Tail(wsDown)
    /\ UNCHANGED <<offered, timer, ready, relay, seq, session, channel, dcUp, dcDown, wsUp>>

(***************************************************************************)
(* The Session of the device.                                              *)
(***************************************************************************)
\* New; where it fails the hub's error ends the Link.
New ==
    /\ offered /\ ctx = "none"
    /\ ctx' = "live" /\ running' = TRUE
    /\ UNCHANGED <<linkState, viaRelay, held, queue, answering, executed, channel, wires>>

\* accept never waits: a full queue ends the session.
Accept(c, way) ==
    \/ /\ Len(queue) < MaxQueue
       /\ queue' = Append(queue, [call |-> c, way |-> way])
       /\ UNCHANGED ctx
    \/ /\ ctx = "live" /\ Len(queue) = MaxQueue
       /\ ctx' = "done"
       /\ UNCHANGED queue
    \/ /\ ctx = "done"
       /\ UNCHANGED <<ctx, queue>>

DirectAlwaysTaken ==
    /\ there = "open" /\ dcUp # <<>> /\ held = None
    /\ dcUp' = Tail(dcUp)
    /\ held' = Head(dcUp)
    /\ UNCHANGED <<linkState, ctx, running, viaRelay, queue, answering, executed, channel,
                   dcDown, wsUp, wsDown>>

\* OnMessage reads relay under mu and accepts after the unlock.
DirectArrives ==
    /\ there = "open" /\ dcUp # <<>> /\ held = None
    /\ dcUp' = Tail(dcUp)
    /\ held' = IF viaRelay THEN None ELSE Head(dcUp)
    /\ UNCHANGED <<linkState, ctx, running, viaRelay, queue, answering, executed, channel,
                   dcDown, wsUp, wsDown>>

DirectAccepted ==
    /\ held # None
    /\ Accept(held, "direct")
    /\ held' = None
    /\ UNCHANGED <<linkState, running, viaRelay, answering, executed, channel, wires>>

\* Relay.
RelayArrives ==
    /\ wsUp # <<>> /\ ctx # "none"
    /\ wsUp' = Tail(wsUp)
    /\ viaRelay' = TRUE
    /\ Accept(Head(wsUp), "relay")
    /\ UNCHANGED <<linkState, running, held, answering, executed, channel, dcUp, dcDown, wsDown>>

\* run takes a call and handles it.  The select may still take one when the
\* context is cancelled.
Handle ==
    /\ running /\ queue # <<>> /\ answering = None
    /\ queue' = Tail(queue)
    /\ executed' = Append(executed, Head(queue))
    /\ answering' = [call |-> Head(queue).call, n |-> 1]
    /\ UNCHANGED <<linkState, ctx, running, viaRelay, held, channel, wires>>

\* send: on to the next chunk, if there is one.
NextChunk ==
    answering' = IF answering.call \in Long /\ answering.n = 1
                 THEN [answering EXCEPT !.n = 2] ELSE None

\* sendBytes chooses the path for every chunk; a channel that has failed
\* unnoticed swallows it.
SendChunk ==
    /\ running /\ answering # None
    /\ NextChunk
    /\ LET m == [call |-> answering.call, n |-> answering.n,
                 last |-> answering.call \notin Long \/ answering.n = 2] IN
       \/ /\ ~ viaRelay /\ there = "open"
          /\ dcDown' = IF path = "up" THEN Append(dcDown, m) ELSE dcDown
          /\ UNCHANGED wsDown
       \/ /\ viaRelay \/ there # "open"
          /\ wsDown' = IF closed THEN wsDown ELSE Append(wsDown, m)
          /\ UNCHANGED dcDown
    /\ UNCHANGED <<linkState, ctx, running, viaRelay, held, queue, executed, channel, dcUp,
                   wsUp>>

\* The peer is too slow or the agent's connection is gone: run gives up.
SendFails ==
    /\ running /\ answering # None
    /\ ctx' = "done" /\ running' = FALSE
    /\ answering' = None
    /\ UNCHANGED <<linkState, viaRelay, held, queue, executed, channel, wires>>

\* The hub says close, 30 minutes are over or the agent reconnects.
SessionEnds ==
    /\ ctx = "live"
    /\ ctx' = "done"
    /\ UNCHANGED <<linkState, running, viaRelay, held, queue, answering, executed, channel,
                   wires>>

RunReturns ==
    /\ running /\ ctx = "done" /\ answering = None
    /\ running' = FALSE
    /\ UNCHANGED <<linkState, ctx, viaRelay, held, queue, answering, executed, channel, wires>>

Next ==
    \/ PathComesUp
    \/ PathFails
    \/ DeviceHasChannel
    \/ ChannelCloses
    \/ SendOffer
    \/ ChannelOpens
    \/ FallbackTimer
    \/ Disconnected
    \/ Call
    \/ \E c \in Calls : CallTimeout(c)
    \/ LinkEnds
    \/ ReceiveDirect
    \/ ReceiveRelay
    \/ New
    \/ DirectArrives
    \/ DirectAccepted
    \/ RelayArrives
    \/ Handle
    \/ SendChunk
    \/ SendFails
    \/ SessionEnds
    \/ RunReturns

Spec == Init /\ [][Next]_vars

(***************************************************************************)
(* The timers of the page fire; nothing else is promised: the path may     *)
(* never come up, the device may never answer.                             *)
(***************************************************************************)
Fairness ==
    /\ WF_vars(FallbackTimer)
    /\ \A c \in Calls : WF_vars(CallTimeout(c))

FairSpec == Spec /\ Fairness

-----------------------------------------------------------------------------
(* The types, with the capacity of the queue and the limit on parts.       *)
TypeOK ==
    /\ {offered, timer, ready, relay, closed, running, viaRelay} \subseteq BOOLEAN
    /\ seq \in 0..MaxCalls
    /\ pending \subseteq Calls
    /\ parts \in [Calls -> Seq(1..2)]
    /\ Cardinality(Incomplete) <= MaxParts
    /\ ctx \in {"none", "live", "done"}
    /\ held \in Calls \cup {None}
    /\ queue \in Seq(Taken) /\ Len(queue) <= MaxQueue
    /\ answering \in [call : Calls, n : 1..2] \cup {None}
    /\ executed \in Seq(Taken)
    /\ path \in {"new", "up", "down"}
    /\ {here, there} \subseteq {"connecting", "open", "closed"}
    /\ dcUp \in Seq(Calls) /\ wsUp \in Seq(Calls)
    /\ dcDown \in Seq(Chunk) /\ wsDown \in Seq(Chunk)

(* A call of the console is handled at most once, whatever path it and the *)
(* calls around it take: a call is sent on one path only, and a switch     *)
(* repeats none of those under way (remote-ui.js call, session.go Relay).  *)
ExecutedOnce ==
    \A i, j \in DOMAIN executed : i # j => executed[i].call # executed[j].call

(* Calls are handled in the order they were made, but for one: the direct  *)
(* call that OnMessage held between its check of relay and accept while    *)
(* the first relayed call was accepted (session.go OnMessage, Relay).      *)
OneCallOvertaken ==
    LET late == {j \in DOMAIN executed :
                    \E i \in 1..(j - 1) : executed[i].call > executed[j].call} IN
    /\ Cardinality(late) <= 1
    /\ \A j \in late : executed[j].way = "direct"

(* After the offer the Link becomes usable or is closed, even if the path  *)
(* never comes up and no event tells so (remote-ui.js fallback, useRelay); *)
(* and no call stays pending for ever, whichever path swallowed it or its  *)
(* answer (remote-ui.js call, fail, close).                                *)
CallsSettle ==
    /\ offered ~> ready \/ closed
    /\ \A c \in Calls : c \in pending ~> c \notin pending
=============================================================================
