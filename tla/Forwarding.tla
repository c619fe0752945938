----------------------------- MODULE Forwarding -----------------------------
(***************************************************************************)
(* Public port mappings of the hub (internal/server/forward.go).           *)
(*                                                                         *)
(* The administrator's requests are goroutines of the HTTP server; Run     *)
(* (server.go) restores the saved mappings in a goroutine of its own that  *)
(* is started before the API listens, so both may be first.  forwardMu is  *)
(* held for the whole of putMapping, deleteMapping and restoreMappings; mu *)
(* guards the state and is held only for the sections that are one action  *)
(* here.  Probes and other handlers save the whole state under mu at any   *)
(* time (Persist).  A crash loses everything but state.json.               *)
(***************************************************************************)
EXTENDS Naturals, FiniteSets

CONSTANTS
    Requests,       \* concurrent API requests (goroutines)
    Ids,            \* mapping identifiers core.Token can return
    Drafts,         \* mappings an administrator asks for
    Devices,        \* registered devices (never removed)
    Cloud,          \* the device whose address is the server's own
    Sockets,        \* <<"tcp" or "udp", port>> of the host
    MaxCrashes,     \* bound on the number of crashes
    None, Free, Foreign, Nobody, Run

\* The kernel has one namespace of ports for TCP and HTTP mappings and one
\* for UDP mappings.
SocketOf(m) == <<IF m.proto = "udp" THEN "udp" ELSE "tcp", m.port>>

ASSUME ForwardingConstants ==
    /\ \A m \in Drafts : SocketOf(m) \in Sockets /\ m.enabled \in BOOLEAN
    /\ Cloud \in Devices
    /\ MaxCrashes \in Nat
    /\ None \notin Ids \cup Drafts
    /\ {Free, Foreign} \cap Ids = {}
    /\ Free # Foreign
    /\ Run # Nobody
    /\ {Run, Nobody} \cap Requests = {}

VARIABLES
    up,             \* the process runs
    crashes,
    mappings,       \* s.state.Mappings, by id (Error is in errors)
    errors,         \* ids whose Mapping.Error is not empty
    disk,           \* Mappings of state.json
    diskErrors,
    listener,       \* who listens on a socket of the host
    forwards,       \* ids with a stop function in s.forwards
    forwardMu,      \* holder of s.forwardMu
    pc, reqId, draft,   \* the requests
    run,            \* where Run is
    todo,           \* restoreMappings: mappings still to start
    issued,         \* ids core.Token has returned
    asked,          \* history: ids some request asked to delete
    reply           \* history: the last answer about an id

store == <<mappings, errors, disk, diskErrors>>
reqs  == <<pc, reqId, draft>>
vars  == <<up, crashes, store, listener, forwards, forwardMu, reqs, run,
           todo, issued, asked, reply>>

PutStates == {"putWait", "putListen", "putCommit", "putUndo", "putReply"}
DelStates == {"delWait", "delStop"}
RunStates == {"off", "restoreWait", "restoring", "serving", "stopped"}

TypeOK ==
    /\ up \in BOOLEAN
    /\ crashes \in 0..MaxCrashes
    /\ mappings \in [Ids -> Drafts \cup {None}]
    /\ disk \in [Ids -> Drafts \cup {None}]
    /\ errors \subseteq Ids
    /\ diskErrors \subseteq Ids
    /\ listener \in [Sockets -> Ids \cup {Free, Foreign}]
    /\ forwards \subseteq Ids
    /\ forwardMu \in Requests \cup {Run, Nobody}
    /\ pc \in [Requests -> {"idle"} \cup PutStates \cup DelStates]
    /\ reqId \in [Requests -> Ids \cup {None}]
    /\ draft \in [Requests -> Drafts \cup {None}]
    /\ run \in RunStates
    /\ todo \subseteq Ids
    /\ issued \subseteq Ids
    /\ asked \subseteq Ids
    /\ reply \in [Ids -> {"none", "created", "refused", "deleted"}]

Init ==
    /\ up = TRUE
    /\ crashes = 0
    /\ mappings = [id \in Ids |-> None]
    /\ disk = [id \in Ids |-> None]
    /\ errors = {}
    /\ diskErrors = {}
    /\ listener = [s \in Sockets |-> Free]
    /\ forwards = {}
    /\ forwardMu = Nobody
    /\ pc = [p \in Requests |-> "idle"]
    /\ reqId = [p \in Requests |-> None]
    /\ draft = [p \in Requests |-> None]
    /\ run = "restoreWait"
    /\ todo = {}
    /\ issued = {}
    /\ asked = {}
    /\ reply = [id \in Ids |-> "none"]

Present(id) == mappings[id] # None

\* startMapping: net.Listen fails when anyone, this process included,
\* already has the socket.
CanListen(m) == listener[SocketOf(m)] = Free

StoppedHalfClosed(ids) == [s \in Sockets |-> IF listener[s] \in ids THEN None ELSE listener[s]]

\* The stop function of id: the sockets it holds are closed.  Those of TCP and
\* HTTP (startMapping) and of UDP (startUDP) do the same.
Stopped(ids) == [s \in Sockets |-> IF listener[s] \in ids THEN Free ELSE listener[s]]

\* core.Save replaces state.json as its last step: after an error the old
\* file is there, after success the new one.
SaveNew(newMappings, newErrors, ok) ==
    IF ok THEN disk' = newMappings /\ diskErrors' = newErrors
          ELSE UNCHANGED <<disk, diskErrors>>

Return(p) ==
    /\ pc' = [pc EXCEPT ![p] = "idle"]
    /\ reqId' = [reqId EXCEPT ![p] = None]
    /\ draft' = [draft EXCEPT ![p] = None]

Goto(p, label) ==
    /\ pc' = [pc EXCEPT ![p] = label]
    /\ UNCHANGED <<reqId, draft>>

(***************************************************************************)
(* putMapping.  The identifier is drawn when the request arrives instead   *)
(* of after validation; nobody can see it earlier.                         *)
(***************************************************************************)
PutArrive(p, m, id) ==
    /\ up /\ pc[p] = "idle" /\ id \notin issued
    /\ issued' = issued \cup {id}
    /\ pc' = [pc EXCEPT ![p] = "putWait"]
    /\ reqId' = [reqId EXCEPT ![p] = id]
    /\ draft' = [draft EXCEPT ![p] = m]
    /\ UNCHANGED <<up, crashes, store, listener, forwards, forwardMu, run, todo,
                   asked, reply>>

ValidMappingIgnoringProtocol(m) ==
    /\ m.port >= 1024
    /\ m.device \in Devices
    /\ ~ (m.device = Cloud /\ m.port = m.target)
    /\ \A id \in Ids : Present(id) => mappings[id].port # m.port \/ mappings[id].proto # m.proto

\* validateMapping: TCP and HTTP mappings share their ports.
ValidMapping(m) ==
    /\ m.port >= 1024
    /\ m.device \in Devices
    /\ ~ (m.device = Cloud /\ m.port = m.target)
    /\ \A id \in Ids : Present(id) => SocketOf(mappings[id]) # SocketOf(m)

PutRefuse(p) ==
    /\ reply' = [reply EXCEPT ![reqId[p]] = "refused"]
    /\ Return(p)
    /\ forwardMu' = Nobody

PutValidate(p) ==
    /\ pc[p] = "putWait" /\ forwardMu = Nobody
    /\ \/ /\ ~ ValidMapping(draft[p])
          /\ PutRefuse(p)
       \/ /\ ValidMapping(draft[p])
          /\ forwardMu' = p
          /\ Goto(p, IF draft[p].enabled THEN "putListen" ELSE "putCommit")
          /\ UNCHANGED reply
    /\ UNCHANGED <<up, crashes, store, listener, forwards, run, todo, issued, asked>>

PutListen(p) ==
    /\ pc[p] = "putListen"
    /\ \/ /\ ~ CanListen(draft[p])
          /\ PutRefuse(p)
          /\ UNCHANGED listener
       \/ /\ CanListen(draft[p])
          /\ listener' = [listener EXCEPT ![SocketOf(draft[p])] = reqId[p]]
          /\ Goto(p, "putCommit")
          /\ UNCHANGED <<forwardMu, reply>>
    /\ UNCHANGED <<up, crashes, store, forwards, run, todo, issued, asked>>

PutCommitKeeps(p) ==
    /\ pc[p] = "putCommit"
    /\ \E ok \in BOOLEAN :
        LET added == [mappings EXCEPT ![reqId[p]] = draft[p]] IN
        /\ SaveNew(added, errors, ok)
        /\ mappings' = added
        /\ Goto(p, IF ok THEN "putReply" ELSE "putUndo")
    /\ UNCHANGED <<up, crashes, errors, listener, forwards, forwardMu, run, todo,
                   issued, asked, reply>>

\* One section under mu: append, save, and drop the mapping if saving fails.
PutCommit(p) ==
    /\ pc[p] = "putCommit"
    /\ \E ok \in BOOLEAN :
        LET added == [mappings EXCEPT ![reqId[p]] = draft[p]] IN
        /\ SaveNew(added, errors, ok)
        /\ mappings' = IF ok THEN added ELSE mappings
        /\ Goto(p, IF ok THEN "putReply" ELSE "putUndo")
    /\ UNCHANGED <<up, crashes, errors, listener, forwards, forwardMu, run, todo,
                   issued, asked, reply>>

PutUndoLeaks(p) ==
    /\ pc[p] = "putUndo"
    /\ PutRefuse(p)
    /\ UNCHANGED <<up, crashes, store, listener, forwards, run, todo, issued, asked>>

PutUndo(p) ==
    /\ pc[p] = "putUndo"
    /\ listener' = Stopped({reqId[p]})
    /\ PutRefuse(p)
    /\ UNCHANGED <<up, crashes, store, forwards, run, todo, issued, asked>>

PutReply(p) ==
    /\ pc[p] = "putReply"
    /\ forwards' = IF draft[p].enabled THEN forwards \cup {reqId[p]} ELSE forwards
    /\ reply' = [reply EXCEPT ![reqId[p]] = "created"]
    /\ Return(p)
    /\ forwardMu' = Nobody
    /\ UNCHANGED <<up, crashes, store, listener, run, todo, issued, asked>>

(***************************************************************************)
(* deleteMapping.                                                          *)
(***************************************************************************)
DeleteArrive(p, id) ==
    /\ up /\ pc[p] = "idle" /\ id \in issued
    /\ pc' = [pc EXCEPT ![p] = "delWait"]
    /\ reqId' = [reqId EXCEPT ![p] = id]
    /\ asked' = asked \cup {id}
    /\ UNCHANGED <<up, crashes, store, listener, forwards, forwardMu, draft, run,
                   todo, issued, reply>>

DeleteMissingKeepsLock(p) ==
    /\ pc[p] = "delWait" /\ forwardMu = Nobody
    /\ ~ Present(reqId[p])
    /\ Return(p)
    /\ forwardMu' = p
    /\ UNCHANGED <<up, crashes, store, listener, forwards, run, todo, issued, asked, reply>>

DeleteMissing(p) ==
    /\ pc[p] = "delWait" /\ forwardMu = Nobody
    /\ ~ Present(reqId[p])
    /\ Return(p)
    /\ UNCHANGED <<up, crashes, store, listener, forwards, forwardMu, run, todo,
                   issued, asked, reply>>

DeleteCommitStopsFirst(p) ==
    /\ pc[p] = "delWait" /\ forwardMu = Nobody
    /\ Present(reqId[p])
    /\ listener' = Stopped({reqId[p]})
    /\ \E ok \in BOOLEAN :
        LET removed == [mappings EXCEPT ![reqId[p]] = None]
            left    == errors \ {reqId[p]} IN
        /\ SaveNew(removed, left, ok)
        /\ mappings' = IF ok THEN removed ELSE mappings
        /\ errors' = IF ok THEN left ELSE errors
        /\ IF ok THEN Goto(p, "delStop") /\ forwardMu' = p
                 ELSE Return(p) /\ UNCHANGED forwardMu
    /\ UNCHANGED <<up, crashes, forwards, run, todo, issued, asked, reply>>

DeleteCommitNoRollback(p) ==
    /\ pc[p] = "delWait" /\ forwardMu = Nobody
    /\ Present(reqId[p])
    /\ \E ok \in BOOLEAN :
        LET removed == [mappings EXCEPT ![reqId[p]] = None]
            left    == errors \ {reqId[p]} IN
        /\ SaveNew(removed, left, ok)
        /\ mappings' = removed
        /\ errors' = left
        /\ \/ /\ ok
              /\ forwardMu' = p
              /\ Goto(p, "delStop")
              /\ UNCHANGED <<listener, forwards>>
           \/ /\ ~ ok
              /\ listener' = Stopped({reqId[p]})
              /\ forwards' = forwards \ {reqId[p]}
              /\ Return(p)
              /\ UNCHANGED forwardMu
    /\ UNCHANGED <<up, crashes, run, todo, issued, asked, reply>>

DeleteCommit(p) ==
    /\ pc[p] = "delWait" /\ forwardMu = Nobody
    /\ Present(reqId[p])
    /\ \E ok \in BOOLEAN :
        LET removed == [mappings EXCEPT ![reqId[p]] = None]
            left    == errors \ {reqId[p]} IN
        /\ SaveNew(removed, left, ok)
        /\ mappings' = IF ok THEN removed ELSE mappings
        /\ errors' = IF ok THEN left ELSE errors
        /\ IF ok THEN Goto(p, "delStop") /\ forwardMu' = p
                 ELSE Return(p) /\ UNCHANGED forwardMu
    /\ UNCHANGED <<up, crashes, listener, forwards, run, todo, issued, asked, reply>>

DeleteStop(p) ==
    /\ pc[p] = "delStop"
    /\ listener' = IF reqId[p] \in forwards THEN Stopped({reqId[p]}) ELSE listener
    /\ forwards' = forwards \ {reqId[p]}
    /\ reply' = [reply EXCEPT ![reqId[p]] = "deleted"]
    /\ Return(p)
    /\ forwardMu' = Nobody
    /\ UNCHANGED <<up, crashes, store, run, todo, issued, asked>>

(***************************************************************************)
(* restoreMappings, called once by Run; forwardMu is held throughout.      *)
(***************************************************************************)
RestoreSnapshot ==
    /\ run = "restoreWait" /\ forwardMu = Nobody
    /\ todo' = {id \in Ids : Present(id) /\ mappings[id].enabled}
    /\ run' = "restoring"
    /\ forwardMu' = Run
    /\ UNCHANGED <<up, crashes, store, listener, forwards, reqs, issued, asked, reply>>

RestoreStart(id) ==
    /\ run = "restoring" /\ id \in todo
    /\ CanListen(mappings[id])
    /\ listener' = [listener EXCEPT ![SocketOf(mappings[id])] = id]
    /\ forwards' = forwards \cup {id}
    /\ todo' = todo \ {id}
    /\ UNCHANGED <<up, crashes, store, forwardMu, reqs, run, issued, asked, reply>>

\* startMapping failed: Error is set in memory only; the next save of anyone
\* writes it to state.json.
RestoreFail(id) ==
    /\ run = "restoring" /\ id \in todo
    /\ ~ CanListen(mappings[id])
    /\ errors' = errors \cup {id}
    /\ todo' = todo \ {id}
    /\ UNCHANGED <<up, crashes, mappings, disk, diskErrors, listener, forwards,
                   forwardMu, reqs, run, issued, asked, reply>>

RestoreDone ==
    /\ run = "restoring" /\ todo = {}
    /\ run' = "serving"
    /\ forwardMu' = Nobody
    /\ UNCHANGED <<up, crashes, store, listener, forwards, reqs, todo, issued, asked,
                   reply>>

(***************************************************************************)
(* The rest of the process, the host and the operator.                     *)
(***************************************************************************)
\* probe, heartbeat, updateDevice, putPolicy and join save the whole state.
Persist ==
    /\ up
    /\ SaveNew(mappings, errors, TRUE)
    /\ UNCHANGED <<up, crashes, mappings, errors, listener, forwards, forwardMu, reqs,
                   run, todo, issued, asked, reply>>

\* Another program of the host takes or gives back a socket.
ForeignBind(s) ==
    /\ listener[s] = Free
    /\ listener' = [listener EXCEPT ![s] = Foreign]
    /\ UNCHANGED <<up, crashes, store, forwards, forwardMu, reqs, run, todo, issued,
                   asked, reply>>

ForeignRelease(s) ==
    /\ listener[s] = Foreign
    /\ listener' = [listener EXCEPT ![s] = Free]
    /\ UNCHANGED <<up, crashes, store, forwards, forwardMu, reqs, run, todo, issued,
                   asked, reply>>

\* Run after an interrupt: every forward is stopped, s.forwards is left as it
\* is, and requests that are under way still run until the process exits.
Shutdown ==
    /\ run = "serving" /\ forwardMu = Nobody
    /\ listener' = Stopped(forwards)
    /\ run' = "stopped"
    /\ UNCHANGED <<up, crashes, store, forwards, forwardMu, reqs, todo, issued, asked,
                   reply>>

\* A crash, a kill, or the exit that ends a shutdown: the kernel closes the
\* sockets, requests under way get no answer.
Crash ==
    /\ up /\ crashes < MaxCrashes
    /\ crashes' = crashes + 1
    /\ up' = FALSE
    /\ mappings' = [id \in Ids |-> None]
    /\ errors' = {}
    /\ listener' = Stopped(Ids)
    /\ forwards' = {}
    /\ forwardMu' = Nobody
    /\ pc' = [p \in Requests |-> "idle"]
    /\ reqId' = [p \in Requests |-> None]
    /\ draft' = [p \in Requests |-> None]
    /\ run' = "off"
    /\ todo' = {}
    /\ UNCHANGED <<disk, diskErrors, issued, asked, reply>>

\* New loads state.json; main starts Run and then serves the API.
Restart ==
    /\ ~ up
    /\ up' = TRUE
    /\ mappings' = disk
    /\ errors' = diskErrors
    /\ run' = "restoreWait"
    /\ UNCHANGED <<crashes, disk, diskErrors, listener, forwards, forwardMu, reqs,
                   todo, issued, asked, reply>>

RequestStep(p) ==
    \/ PutValidate(p)
    \/ PutListen(p)
    \/ PutCommit(p)
    \/ PutUndo(p)
    \/ PutReply(p)
    \/ DeleteMissing(p)
    \/ DeleteCommit(p)
    \/ DeleteStop(p)

RestoreStep ==
    \/ RestoreSnapshot
    \/ \E id \in Ids : RestoreStart(id) \/ RestoreFail(id)
    \/ RestoreDone

Next ==
    \/ \E p \in Requests, m \in Drafts, id \in Ids : PutArrive(p, m, id)
    \/ \E p \in Requests, id \in Ids : DeleteArrive(p, id)
    \/ \E p \in Requests : RequestStep(p)
    \/ RestoreStep
    \/ Persist
    \/ \E s \in Sockets : ForeignBind(s) \/ ForeignRelease(s)
    \/ Shutdown
    \/ Crash
    \/ Restart

Spec == Init /\ [][Next]_vars

(***************************************************************************)
(* A goroutine that can run is run.  sync.Mutex hands itself to a waiter   *)
(* that has waited too long, so a request that waits for forwardMu gets it *)
(* (strong fairness); the operator's service manager restarts the hub.     *)
(***************************************************************************)
Fairness ==
    /\ \A p \in Requests : SF_vars(RequestStep(p))
    /\ SF_vars(RestoreStep)
    /\ WF_vars(Restart)

FairSpec == Spec /\ Fairness

(***************************************************************************)
(* Properties.                                                             *)
(***************************************************************************)
\* No two mappings of the state, in memory or on disk, share a socket of the
\* host (validateMapping), whatever requests race and whatever a failed save
\* or a restart put back.
SocketsUnique ==
    \A i, j \in Ids :
        /\ mappings[i] # None /\ mappings[j] # None /\ i # j
              => SocketOf(mappings[i]) # SocketOf(mappings[j])
        /\ disk[i] # None /\ disk[j] # None /\ i # j
              => SocketOf(disk[i]) # SocketOf(disk[j])

\* Between requests every socket this process listens on belongs to an
\* enabled mapping of the state and has its stop function in s.forwards: a
\* failed save, a failed start, a deletion or a restore leaks no listener.
NoLeakedListener ==
    forwardMu = Nobody =>
        \A s \in Sockets : listener[s] \in Ids =>
            LET id == listener[s] IN
            /\ id \in forwards
            /\ Present(id)
            /\ mappings[id].enabled
            /\ SocketOf(mappings[id]) = s

\* Once the restore is over, a mapping the console counts as listening
\* (enabled, no error: app.js 126 and 160) has its listener, between requests,
\* also after a deletion that could not be saved.
ListedMappingsListen ==
    run = "serving" /\ forwardMu = Nobody =>
        \A id \in Ids : Present(id) /\ mappings[id].enabled /\ id \notin errors
            => listener[SocketOf(mappings[id])] = id

\* An answer is durable: a mapping that was acknowledged is on disk until
\* somebody asks to delete it; one that was refused or whose deletion was
\* acknowledged is neither on disk, nor in memory, nor listening, and no crash,
\* restart or late save brings it back.
AnswersDurable ==
    \A id \in Ids :
        /\ reply[id] = "created" /\ disk[id] = None => id \in asked
        /\ reply[id] \in {"refused", "deleted"} =>
              /\ disk[id] = None
              /\ mappings[id] = None
              /\ \A s \in Sockets : listener[s] # id

\* The detailed handlers implement the atomic, durable table.
Store == INSTANCE MappingStore WITH store <- disk
ImplementsStore == Store!Spec

\* Every request is answered unless the process dies, and every restore ends:
\* nobody waits for forwardMu for ever.
RequestsEnd ==
    /\ \A p \in Requests : pc[p] # "idle" ~> pc[p] = "idle"
    /\ run = "restoreWait" ~> run \in {"serving", "off"}

(***************************************************************************)
(* The inductive invariant behind the safety properties, by parts          *)
(* (ForwardingProofs.tla).                                                 *)
(***************************************************************************)
Holding == {"putListen", "putCommit", "putUndo", "putReply", "delStop"}
Fresh   == {"putWait", "putListen", "putCommit", "putUndo"}

\* forwardMu is held exactly while a handler or the restore is inside.
LockInv ==
    /\ \A p \in Requests : forwardMu = p <=> pc[p] \in Holding
    /\ forwardMu = Run <=> run = "restoring"

\* Memory and disk agree on the mappings; a process that is down has nothing.
MemoryInv ==
    /\ up => mappings = disk
    /\ ~ up => /\ forwardMu = Nobody
               /\ run = "off"
               /\ \A p \in Requests : pc[p] = "idle"
               /\ \A id \in Ids : mappings[id] = None
               /\ \A s \in Sockets : listener[s] \notin Ids

\* What the variables of a request say about the state at each point.
RequestInv ==
    /\ \A p \in Requests : pc[p] # "idle" => reqId[p] \in issued
    /\ \A p \in Requests : pc[p] \in PutStates => draft[p] \in Drafts
    /\ \A p \in Requests : pc[p] \in DelStates => reqId[p] \in asked
    /\ \A p, q \in Requests :
          pc[p] \in PutStates /\ pc[q] \in PutStates /\ reqId[p] = reqId[q] => p = q
    /\ \A p \in Requests : pc[p] \in PutStates => reply[reqId[p]] = "none"
    /\ \A p \in Requests : pc[p] \in Fresh => mappings[reqId[p]] = None /\ disk[reqId[p]] = None
    /\ \A p \in Requests : pc[p] = "putReply" => mappings[reqId[p]] = draft[p]
    /\ \A p \in Requests : pc[p] = "delStop" => mappings[reqId[p]] = None
    /\ \A p, q \in Requests :
          pc[p] = "delStop" /\ pc[q] \in PutStates => reqId[p] # reqId[q]
    /\ \A id \in Ids \ issued : disk[id] = None /\ mappings[id] = None /\ reply[id] = "none"

\* The mapping a request is adding has its socket for itself.
ClaimInv ==
    /\ \A p \in Requests : pc[p] = "putListen" => draft[p].enabled
    /\ \A p \in Requests : pc[p] \in {"putListen", "putCommit"} =>
          \A id \in Ids : Present(id) => SocketOf(mappings[id]) # SocketOf(draft[p])
    /\ \A p \in Requests : pc[p] \in {"putCommit", "putReply"} /\ draft[p].enabled =>
          listener[SocketOf(draft[p])] = reqId[p]

\* Who may own a socket of this process.
Settled(s) ==
    /\ listener[s] \in forwards
    /\ Present(listener[s])
    /\ mappings[listener[s]].enabled
    /\ SocketOf(mappings[listener[s]]) = s

Starting(s) == \E p \in Requests :
    /\ pc[p] \in {"putCommit", "putUndo", "putReply"}
    /\ reqId[p] = listener[s]
    /\ draft[p].enabled
    /\ SocketOf(draft[p]) = s

Stopping(s) == \E p \in Requests :
    pc[p] = "delStop" /\ reqId[p] = listener[s] /\ listener[s] \in forwards

ListenerInv ==
    \A s \in Sockets : listener[s] \in Ids => Settled(s) \/ Starting(s) \/ Stopping(s)

\* A mapping that is enabled, has no error and needs no restoring any more.
Served(id) ==
    /\ Present(id)
    /\ mappings[id].enabled
    /\ id \notin errors
    /\ run = "restoring" => id \notin todo

ServingInv ==
    /\ run = "restoring" => \A id \in todo : Present(id) /\ mappings[id].enabled
    /\ run \in {"restoring", "serving"} =>
          \A id \in Ids : Served(id) => listener[SocketOf(mappings[id])] = id

IndInv ==
    /\ TypeOK
    /\ LockInv
    /\ MemoryInv
    /\ RequestInv
    /\ SocketsUnique
    /\ ClaimInv
    /\ ListenerInv
    /\ ServingInv
    /\ AnswersDurable
=============================================================================
