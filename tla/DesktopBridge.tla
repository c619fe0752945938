---------------------------- MODULE DesktopBridge ----------------------------
(***************************************************************************)
(* The way of a desktop request through a Windows device: desktopRequest   *)
(* of the agent service (internal/agent/remote.go), which runs in session  *)
(* 0 and cannot see the desktop; the tray program that fetches jobs from   *)
(* it (desktop/remote-desktop.cjs); and the helper processes that the tray *)
(* starts to type and click (cmd/netconductor/input_windows.go).           *)
(*                                                                         *)
(* The lines of a helper carry no id: the tray takes the next line as the  *)
(* reply to the input it waits for, while helpers are replaced after a     *)
(* timeout, an exit or a locked screen.                                    *)
(***************************************************************************)
EXTENDS Naturals, Sequences, FiniteSets

CONSTANTS
    Requests,       \* calls of desktopRequest, for a picture or an input
    MaxQueue,       \* 32 in the code
    MaxHelpers,     \* bound: helper processes
    Release,        \* the input the tray sends on its own
    None

ASSUME DesktopBridgeConstants ==
    /\ MaxQueue \in Nat \ {0} /\ MaxHelpers \in Nat
    /\ Release \notin Requests /\ None \notin Requests /\ Release # None

Helpers == 1..MaxHelpers
Inputs  == Requests \cup {Release}

VARIABLES
    \* The agent.
    req,            \* [Requests -> progress of desktopRequest]
    waiting,        \* desktopBridge.pending
    queue,
    box,            \* [Requests -> buffered result]
    expired,        \* history: timed out before the tray took them
    \* The tray.
    job,            \* the job in the loop, or None
    result,         \* its result once it has one, or None
    stopped, locked,
    helper,         \* the current one, or 0
    pending,        \* the input whose line is awaited, or None
    \* The helpers.
    started,        \* how many
    stdin,          \* [Helpers -> inputs not read yet]
    ended,          \* those whose stdin the tray ended
    stdout,         \* [Helpers -> inputs whose lines are not read yet]
    running,        \* helpers that have not exited
    held,           \* those that hold a key or a button down
    performed       \* history: inputs given to Windows

agent   == <<req, waiting, queue, box, expired>>
tray    == <<job, result, stopped, locked, helper, pending>>
helpers == <<started, stdin, ended, stdout, running, held, performed>>
vars    == <<agent, tray, helpers>>

\* What a reply says: which input was performed, a picture, or an error.
Results == Inputs \cup {"picture", "error"}

Init ==
    /\ req = [r \in Requests |-> "idle"]
    /\ waiting = {} /\ queue = <<>>
    /\ box = [r \in Requests |-> None]
    /\ expired = {}
    /\ job = None /\ result = None
    /\ stopped = FALSE /\ locked = FALSE
    /\ helper = 0 /\ pending = None
    /\ started = 0
    /\ stdin = [h \in Helpers |-> <<>>]
    /\ stdout = [h \in Helpers |-> <<>>]
    /\ ended = {} /\ running = {} /\ held = {} /\ performed = {}

(***************************************************************************)
(* The agent.                                                              *)
(***************************************************************************)
\* desktopRequest registers itself before it queues the job.
RequestBegins(r) ==
    /\ req[r] = "idle"
    /\ req' = [req EXCEPT ![r] = "queuing"]
    /\ waiting' = waiting \cup {r}
    /\ UNCHANGED <<queue, box, expired, tray, helpers>>

RequestQueued(r) ==
    /\ req[r] = "queuing" /\ Len(queue) < MaxQueue
    /\ queue' = Append(queue, r)
    /\ req' = [req EXCEPT ![r] = "queued"]
    /\ UNCHANGED <<waiting, box, expired, tray, helpers>>

\* Eight seconds are over, or the session has ended.
RequestTimeout(r) ==
    /\ req[r] \in {"queuing", "queued", "taken"}
    /\ req' = [req EXCEPT ![r] = "failed"]
    /\ waiting' = waiting \ {r}
    /\ expired' = IF req[r] = "taken" THEN expired ELSE expired \cup {r}
    /\ UNCHANGED <<queue, box, tray, helpers>>

RequestAnswered(r) ==
    /\ req[r] = "taken" /\ box[r] # None
    /\ req' = [req EXCEPT ![r] = IF box[r] = "error" THEN "failed" ELSE "ok"]
    /\ waiting' = waiting \ {r}
    /\ UNCHANGED <<queue, box, expired, tray, helpers>>

(***************************************************************************)
(* The loop of the tray.                                                   *)
(***************************************************************************)
TakeUnchecked ==
    /\ ~ stopped /\ job = None /\ queue # <<>>
    /\ queue' = Tail(queue)
    /\ job' = Head(queue)
    /\ req' = IF Head(queue) \in waiting THEN [req EXCEPT ![Head(queue)] = "taken"] ELSE req
    /\ UNCHANGED <<waiting, box, expired, result, stopped, locked, helper, pending, helpers>>

\* api("next"): desktopNext skips a job nobody waits for any more.
Take ==
    /\ ~ stopped /\ job = None /\ queue # <<>>
    /\ queue' = Tail(queue)
    /\ \/ /\ Head(queue) \in waiting
          /\ job' = Head(queue)
          /\ req' = [req EXCEPT ![Head(queue)] = "taken"]
       \/ /\ Head(queue) \notin waiting
          /\ UNCHANGED <<job, req>>
    /\ UNCHANGED <<waiting, box, expired, result, stopped, locked, helper, pending, helpers>>

\* A locked screen refuses every job.
JobRefused ==
    /\ job # None /\ result = None /\ pending # job /\ locked
    /\ result' = "error"
    /\ UNCHANGED <<agent, job, stopped, locked, helper, pending, helpers>>

\* The job is a frame: desktopCapturer gives a picture or nothing.
JobFrame ==
    /\ job # None /\ result = None /\ pending # job /\ ~ locked
    /\ result' \in {"picture", "error"}
    /\ UNCHANGED <<agent, job, stopped, locked, helper, pending, helpers>>

InputNeverBusy(w) ==
    LET h == IF helper = 0 THEN started + 1 ELSE helper IN
    /\ h \in Helpers
    /\ helper' = h
    /\ started' = IF helper = 0 THEN h ELSE started
    /\ running' = IF helper = 0 THEN running \cup {h} ELSE running
    /\ pending' = w
    /\ stdin' = IF h \in ended THEN stdin ELSE [stdin EXCEPT ![h] = Append(@, w)]
    /\ UNCHANGED result

\* input: starts a helper if there is none, and only then finds out whether
\* another input is pending.
Input(w) ==
    LET h == IF helper = 0 THEN started + 1 ELSE helper IN
    /\ h \in Helpers
    /\ helper' = h
    /\ started' = IF helper = 0 THEN h ELSE started
    /\ running' = IF helper = 0 THEN running \cup {h} ELSE running
    /\ pending' = IF pending = None THEN w ELSE pending
    /\ stdin' = IF pending = None /\ h \notin ended
                THEN [stdin EXCEPT ![h] = Append(@, w)] ELSE stdin
    /\ result' = IF pending # None /\ w = job THEN "error" ELSE result

\* The job is an input.
JobInput ==
    /\ job # None /\ result = None /\ pending # job /\ ~ locked
    /\ Input(job)
    /\ UNCHANGED <<agent, job, stopped, locked, ended, stdout, held, performed>>

\* The helper cannot be started: the error event rejects whatever is pending.
SpawnFails ==
    /\ job # None /\ result = None /\ pending # job /\ ~ locked
    /\ helper = 0
    /\ result' = "error"
    /\ pending' = None
    /\ UNCHANGED <<agent, job, stopped, locked, helper, helpers>>

\* The interval releases the keys after three quiet seconds.
ReleaseTimer ==
    /\ ~ stopped /\ helper # 0 /\ pending = None
    /\ Input(Release)
    /\ UNCHANGED <<agent, job, stopped, locked, ended, stdout, held, performed>>

\* api("reply"): desktopReply drops what nobody waits for.
Reply ==
    /\ job # None /\ result # None
    /\ box' = IF job \in waiting /\ box[job] = None THEN [box EXCEPT ![job] = result] ELSE box
    /\ job' = None /\ result' = None
    /\ UNCHANGED <<req, waiting, queue, expired, stopped, locked, helper, pending, helpers>>

\* The call fails; the loop rests for two seconds and goes on.
ReplyFails ==
    /\ job # None /\ result # None
    /\ job' = None /\ result' = None
    /\ UNCHANGED <<agent, stopped, locked, helper, pending, helpers>>

StdinLeftOpen == UNCHANGED ended

\* helper?.stdin.end()
EndStdin == ended' = IF helper = 0 THEN ended ELSE ended \cup {helper}

\* The tray quits: it ends the stdin of the helper and starts no new job.
Stop ==
    /\ ~ stopped
    /\ stopped' = TRUE
    /\ EndStdin
    /\ UNCHANGED <<agent, job, result, locked, helper, pending, started, stdin, stdout, running,
                   held, performed>>

\* The process ends; Windows closes the stdin of its helpers.
TrayExits ==
    /\ stopped
    /\ ended' = ended \cup running
    /\ job' = None /\ result' = None /\ pending' = None
    /\ helper' = 0
    /\ UNCHANGED <<agent, stopped, locked, started, stdin, stdout, running, held, performed>>

LockScreen ==
    /\ ~ locked
    /\ locked' = TRUE
    /\ EndStdin
    /\ helper' = 0
    /\ UNCHANGED <<agent, job, result, stopped, pending, started, stdin, stdout, running, held,
                   performed>>

UnlockScreen ==
    /\ locked
    /\ locked' = FALSE
    /\ UNCHANGED <<agent, job, result, stopped, helper, pending, helpers>>

(***************************************************************************)
(* The helpers, and what the tray hears of them.                           *)
(***************************************************************************)
\* The promise of the pending input settles.
Settle(value) ==
    /\ pending' = None
    /\ result' = IF pending = job /\ job # None THEN value ELSE result

\* What a helper holds after an input: every key of its own is released, or
\* some key goes down or is the last to come up.
HeldAfter(h, w) ==
    IF w = Release THEN {held \ {h}} ELSE {held \cup {h}, held \ {h}}

\* inputMain reads an input, performs it and prints a line.
HelperWorks(h) ==
    /\ h \in running /\ stdin[h] # <<>>
    /\ stdin' = [stdin EXCEPT ![h] = Tail(@)]
    /\ stdout' = [stdout EXCEPT ![h] = Append(@, Head(stdin[h]))]
    /\ performed' = performed \cup {Head(stdin[h])}
    /\ held' \in HeldAfter(h, Head(stdin[h]))
    /\ UNCHANGED <<agent, tray, started, ended, running>>

\* The line handler ignores a helper that is no longer the current one.  The
\* line says that the input was done, or an error.
ReadLine(h) ==
    /\ stdout[h] # <<>>
    /\ stdout' = [stdout EXCEPT ![h] = Tail(@)]
    /\ IF h = helper /\ pending # None
       THEN \E value \in {Head(stdout[h]), "error"} : Settle(value)
       ELSE UNCHANGED <<pending, result>>
    /\ UNCHANGED <<agent, job, stopped, locked, helper, started, stdin, ended, running,
                   held, performed>>

\* A helper exits at the end of its stdin, when it releases what it holds, or
\* because it fails, when a key may stay down for good; its lines may still
\* be read after the exit event.
HelperExits(h) ==
    /\ h \in running
    /\ held' = held \ {h}
    /\ running' = running \ {h}
    /\ stdin' = [stdin EXCEPT ![h] = <<>>]
    /\ \/ /\ h = helper
          /\ helper' = 0
          /\ Settle("error")
       \/ /\ h # helper
          /\ UNCHANGED <<helper, pending, result>>
    /\ UNCHANGED <<agent, job, stopped, locked, started, ended, stdout, performed>>

InputTimeoutNeedsHelper ==
    /\ pending # None /\ helper # 0
    /\ Settle("error")
    /\ helper' = 0
    /\ running' = running \ {helper} /\ held' = held \ {helper}
    /\ stdin' = [h \in Helpers |-> IF h = helper THEN <<>> ELSE stdin[h]]
    /\ UNCHANGED <<agent, job, stopped, locked, started, ended, stdout, performed>>

\* No line for two seconds: the helper, if any, is killed.
InputTimeout ==
    /\ pending # None
    /\ Settle("error")
    /\ helper' = 0
    /\ running' = running \ {helper} /\ held' = held \ {helper}
    /\ stdin' = [h \in Helpers |-> IF h = helper THEN <<>> ELSE stdin[h]]
    /\ UNCHANGED <<agent, job, stopped, locked, started, ended, stdout, performed>>

\* The loop with a job in hand, until it waits for a helper.
TrayStep ==
    \/ JobRefused
    \/ JobFrame
    \/ JobInput
    \/ SpawnFails
    \/ Reply
    \/ ReplyFails

Next ==
    \/ \E r \in Requests :
        \/ RequestBegins(r)
        \/ RequestQueued(r)
        \/ RequestTimeout(r)
        \/ RequestAnswered(r)
    \/ Take
    \/ TrayStep
    \/ ReleaseTimer
    \/ Stop
    \/ TrayExits
    \/ LockScreen
    \/ UnlockScreen
    \/ \E h \in Helpers : HelperWorks(h) \/ ReadLine(h) \/ HelperExits(h)
    \/ InputTimeout

Spec == Init /\ [][Next]_vars

\* A helper whose stdin was ended reads what is left and exits.
LastSteps(h) == h \in ended /\ (HelperWorks(h) \/ HelperExits(h))

(***************************************************************************)
(* Timers fire, the loop of the tray goes on and a tray that quits ends.   *)
(* No helper is trusted to answer, only to exit at the end of its stdin.   *)
(***************************************************************************)
Fairness ==
    /\ WF_vars(TrayStep)
    /\ WF_vars(InputTimeout)
    /\ WF_vars(ReleaseTimer)
    /\ WF_vars(TrayExits)
    /\ \A h \in Helpers : WF_vars(LastSteps(h))

FairSpec == Spec /\ Fairness

-----------------------------------------------------------------------------
(* The types, with the capacity of the queue of the agent.                 *)
TypeOK ==
    /\ req \in [Requests -> {"idle", "queuing", "queued", "taken", "ok", "failed"}]
    /\ waiting \subseteq Requests /\ expired \subseteq Requests
    /\ queue \in Seq(Requests) /\ Len(queue) <= MaxQueue
    /\ box \in [Requests -> Results \cup {None}]
    /\ job \in Requests \cup {None}
    /\ result \in Results \cup {None}
    /\ {stopped, locked} \subseteq BOOLEAN
    /\ helper \in 0..started /\ started \in 0..MaxHelpers
    /\ pending \in Inputs \cup {None}
    /\ stdin \in [Helpers -> Seq(Inputs)] /\ stdout \in [Helpers -> Seq(Inputs)]
    /\ ended \subseteq 1..started /\ running \subseteq 1..started
    /\ held \subseteq running /\ performed \subseteq Inputs

(* An input reported as done was itself performed: the line that settled   *)
(* it was its own, although lines carry no id and helpers are replaced     *)
(* while they still print (remote-desktop.cjs, the line handler).          *)
DoneMeansPerformed ==
    \A r \in Requests : req[r] = "ok" =>
        box[r] = "picture" \/ (box[r] = r /\ r \in performed)

(* A request that timed out before the tray took it is never carried out,  *)
(* however late the tray comes to it (remote.go desktopNext).              *)
ExpiredNotPerformed == expired \cap performed = {}

(* The loop of the tray never hangs in a job: not on a silent helper, nor  *)
(* on one that a locked screen took away (remote-desktop.cjs, the timer of *)
(* input).                                                                 *)
TrayGoesOn == \A r \in Requests : job = r ~> job # r

(* A key or button that an input pressed does not stay down while its      *)
(* helper lives, although the console that would send the release may be   *)
(* gone: the interval releases it, or the end of the helper after a locked *)
(* screen or a quit (remote-desktop.cjs, input_windows.go release).        *)
KeysComeUp == \A h \in Helpers : h \in held ~> h \notin held
=============================================================================
