------------------------------- MODULE Console -------------------------------
(***************************************************************************)
(* The page of the console (web/static/app.js), as the hub serves it to    *)
(* administrators and as the desktop shell shows it to the user of a       *)
(* device (agent), with what the hub or the local service does to the      *)
(* session cookie and to the state it displays.                            *)
(*                                                                         *)
(* Requests overlap: a refresh every 3 s, the submissions of forms, and    *)
(* login and logout.  Answers come back in any order.  What a page shows   *)
(* is abstracted to the version of the state it was rendered from.         *)
(***************************************************************************)
EXTENDS Naturals, FiniteSets

CONSTANTS
    Slots,          \* requests under way at a time
    MaxOps,         \* bound: requests of the user
    MaxVersion,     \* bound: changes of the displayed state
    MaxLost,        \* bound: requests that fail on the way
    MaxEnds,        \* bound: restarts of the hub
    None

Submissions == {"save", "enroll", "apply"}

Answered == [kind : {"", "ok", "denied", "refused", "lost"}, v : Nat]
Requests == [op : {"state", "login", "logout", "status", "work"} \cup Submissions,
             token : Nat, form : Nat, answer : Answered]

ASSUME ConsoleConstants ==
    /\ Slots \subseteq Nat /\ IsFiniteSet(Slots)
    /\ {MaxOps, MaxVersion, MaxLost, MaxEnds} \subseteq Nat
    /\ None \notin Requests

VARIABLES
    \* The hub, or the local service.
    sessions,       \* valid session tokens
    tokens,         \* how many were given out
    version,        \* of the state
    \* The browser.
    cookie,         \* a session token, or 0
    reqs,           \* [Slots -> a request, or None]
    \* The page.
    agent,
    authenticated, refreshing,
    screen,         \* "blank", "login" or "app": what is in #app
    shown,          \* the version of "state"
    dialog,         \* what #dialog shows
    form,           \* the number of the form it shows, or 0
    codes,          \* enrolment codes whose 30 ms timer runs
    socket, term,   \* the globals, as numbers of terminals, or 0
    live,           \* terminals whose WebSocket is not closed
    \* History and bounds.
    saved,          \* the newest version the user was told is saved
    ops, lost, ends

hub   == <<sessions, tokens, version, ends>>
shell == <<socket, term, live>>
vars  == <<hub, cookie, reqs, agent, authenticated, refreshing, screen, shown, dialog, form,
           codes, shell, saved, ops, lost>>

NoAnswer == [kind |-> "", v |-> 0]

Request(op) == [op |-> op, token |-> cookie,
                form |-> IF op \in Submissions THEN form ELSE 0, answer |-> NoAnswer]

\* The script ends with a first refresh().
Init ==
    /\ agent \in BOOLEAN
    /\ cookie \in (IF agent THEN {0} ELSE {0, 1})
    /\ sessions = {1} /\ tokens = 1
    /\ form = 0 /\ codes = 0
    /\ version = 1 /\ shown = 0 /\ saved = 0
    /\ refreshing = TRUE
    /\ \E s \in Slots :
          /\ \A r \in Slots : s <= r
          /\ reqs = [r \in Slots |-> IF r = s THEN Request("state") ELSE None]
    /\ authenticated = FALSE
    /\ screen = "blank" /\ dialog = "none"
    /\ socket = 0 /\ term = 0 /\ live = {}
    /\ ops = 0 /\ lost = 0 /\ ends = 0

(***************************************************************************)
(* The other end of a request.                                             *)
(***************************************************************************)
Answer(s, kind, v) == reqs' = [reqs EXCEPT ![s].answer = [kind |-> kind, v |-> v]]

Pending(s, Op) == reqs[s] # None /\ reqs[s].op \in Op /\ reqs[s].answer = NoAnswer

\* A wrong password, or more than ten attempts in a minute.
HubLogin(s) ==
    /\ Pending(s, {"login"})
    /\ \/ /\ tokens' = tokens + 1
          /\ sessions' = sessions \cup {tokens'}
          /\ Answer(s, "ok", tokens')
       \/ /\ Answer(s, "denied", 0) \/ Answer(s, "refused", 0)
          /\ UNCHANGED <<tokens, sessions>>
    /\ UNCHANGED <<version, ends>>

HubLogout(s) ==
    /\ Pending(s, {"logout"})
    /\ sessions' = sessions \ {reqs[s].token}
    /\ Answer(s, "ok", 0)
    /\ UNCHANGED <<tokens, version, ends>>

\* guard: the local service of an agent asks for no session.
Authorized(s) == agent \/ reqs[s].token \in sessions

HubState(s) ==
    /\ Pending(s, {"state"})
    /\ IF Authorized(s) THEN Answer(s, "ok", version) ELSE Answer(s, "denied", 0)
    /\ UNCHANGED hub

HubSave(s) ==
    /\ Pending(s, {"save", "enroll", "work"})
    /\ \/ /\ Authorized(s) /\ version < MaxVersion
          /\ version' = version + 1
          /\ Answer(s, "ok", version')
       \/ /\ Authorized(s)
          /\ Answer(s, "refused", 0)
          /\ UNCHANGED version
       \/ /\ ~ Authorized(s)
          /\ Answer(s, "denied", 0)
          /\ UNCHANGED version
    /\ UNCHANGED <<sessions, tokens, ends>>

\* systemProxy of the desktop shell.
ShellAnswers(s) ==
    /\ Pending(s, {"status", "apply"})
    /\ Answer(s, "ok", 0) \/ Answer(s, "refused", 0)
    /\ UNCHANGED hub

Answers(s) ==
    /\ HubLogin(s) \/ HubLogout(s) \/ HubState(s) \/ HubSave(s) \/ ShellAnswers(s)
    /\ UNCHANGED <<cookie, agent, authenticated, refreshing, screen, shown, dialog, form, codes,
                   shell, saved, ops, lost>>

\* A request fails before or after the hub has worked on it.
Lose(s) ==
    /\ reqs[s] # None /\ reqs[s].answer.kind # "lost"
    /\ lost < MaxLost
    /\ lost' = lost + 1
    /\ Answer(s, "lost", 0)
    /\ UNCHANGED <<hub, cookie, agent, authenticated, refreshing, screen, shown, dialog, form,
                   codes, shell, saved, ops>>

\* Heartbeats and other administrators.
HubChanges ==
    /\ version < MaxVersion
    /\ version' = version + 1
    /\ UNCHANGED <<sessions, tokens, ends, cookie, reqs, agent, authenticated, refreshing, screen,
                   shown, dialog, form, codes, shell, saved, ops, lost>>

\* The hub restarts, or sessions expire.
SessionsEnd ==
    /\ ends < MaxEnds /\ sessions # {}
    /\ ends' = ends + 1
    /\ sessions' = {}
    /\ live' \in {live, {}}
    /\ UNCHANGED <<tokens, version, cookie, reqs, agent, authenticated, refreshing, screen, shown,
                   dialog, form, codes, socket, term, saved, ops, lost>>

(***************************************************************************)
(* refresh() and api().                                                    *)
(***************************************************************************)
RefreshUnguarded(s) ==
    /\ reqs' = [reqs EXCEPT ![s] = Request("state")]
    /\ refreshing' = TRUE

\* refresh(), in slot s, which is free or becomes free in this step.
Refresh(s) ==
    \/ /\ refreshing
       /\ reqs' = [reqs EXCEPT ![s] = None]
       /\ UNCHANGED refreshing
    \/ /\ ~ refreshing
       /\ reqs' = [reqs EXCEPT ![s] = Request("state")]
       /\ refreshing' = TRUE

Free(s) == reqs[s] = None /\ \A r \in Slots : r < s => reqs[r] # None

Tick(s) ==
    /\ agent \/ authenticated
    /\ Free(s)
    /\ Refresh(s)
    /\ UNCHANGED <<hub, cookie, agent, authenticated, screen, shown, dialog, form, codes, shell,
                   saved, ops, lost>>

Arrived(s, Op, Kind) == reqs[s] # None /\ reqs[s].op \in Op /\ reqs[s].answer.kind \in Kind

Failures == {"denied", "refused", "lost"}

\* api() throws; a 401 shows the login form.
Failed(s) ==
    IF reqs[s].answer.kind = "denied" /\ ~ agent
    THEN authenticated' = FALSE /\ screen' = "login"
    ELSE UNCHANGED <<authenticated, screen>>

RefreshedUnseen(s) ==
    /\ shown' = reqs[s].answer.v
    /\ screen' = "app"
    /\ UNCHANGED authenticated

\* state = ..., authenticated = true, render().
Refreshed(s) ==
    /\ shown' = reqs[s].answer.v
    /\ authenticated' = TRUE
    /\ screen' = "app"

\* The desktop shows the frame of the page with an error; in a browser a line
\* of it changes, or nothing.
RefreshFailed(s) ==
    /\ IF agent THEN screen' = "app" /\ UNCHANGED authenticated ELSE Failed(s)
    /\ UNCHANGED shown

ClearedOnSuccess(s) == refreshing' = (refreshing /\ reqs[s].answer.kind # "ok")

\* finally { refreshing = false }
Finally(s) == refreshing' = FALSE

StateArrives(s) ==
    /\ \/ Arrived(s, {"state"}, {"ok"}) /\ Refreshed(s)
       \/ Arrived(s, {"state"}, Failures) /\ RefreshFailed(s)
    /\ Finally(s)
    /\ reqs' = [reqs EXCEPT ![s] = None]
    /\ UNCHANGED <<hub, cookie, agent, dialog, form, codes, shell, saved, ops, lost>>

(***************************************************************************)
(* Login and logout.  The cookie changes when the answer arrives.          *)
(***************************************************************************)
Click(s, op) ==
    /\ ops < MaxOps
    /\ ops' = ops + 1
    /\ Free(s)
    /\ reqs' = [reqs EXCEPT ![s] = Request(op)]

\* The dialog is modal: the page behind it takes no clicks.
OnPage(where) == screen = where /\ dialog = "none"

Login(s) ==
    /\ OnPage("login")
    /\ Click(s, "login")
    /\ UNCHANGED <<hub, cookie, agent, authenticated, refreshing, screen, shown, dialog, form,
                   codes, shell, saved, lost>>

LoginArrives(s) ==
    /\ \/ /\ Arrived(s, {"login"}, {"ok"})
          /\ cookie' = reqs[s].answer.v
          /\ authenticated' = TRUE
          /\ IF refreshing
             THEN reqs' = [reqs EXCEPT ![s] = None] /\ UNCHANGED refreshing
             ELSE /\ reqs' = [reqs EXCEPT ![s] = [Request("state") EXCEPT !.token = cookie']]
                  /\ refreshing' = TRUE
          /\ UNCHANGED screen
       \/ /\ Arrived(s, {"login"}, Failures)
          /\ Failed(s)
          /\ reqs' = [reqs EXCEPT ![s] = None]
          /\ UNCHANGED <<cookie, refreshing>>
    /\ UNCHANGED <<hub, agent, shown, dialog, form, codes, shell, saved, ops, lost>>

Logout(s) ==
    /\ OnPage("app") /\ ~ agent
    /\ Click(s, "logout")
    /\ UNCHANGED <<hub, cookie, agent, authenticated, refreshing, screen, shown, dialog, form,
                   codes, shell, saved, lost>>

LogoutArrives(s) ==
    /\ \/ /\ Arrived(s, {"logout"}, {"ok"})
          /\ cookie' = 0
          /\ authenticated' = FALSE /\ screen' = "login"
       \/ /\ Arrived(s, {"logout"}, Failures)
          /\ Failed(s)
          /\ UNCHANGED cookie
    /\ reqs' = [reqs EXCEPT ![s] = None]
    /\ UNCHANGED <<hub, agent, refreshing, shown, dialog, form, codes, shell, saved, ops, lost>>

(***************************************************************************)
(* Forms.                                                                  *)
(***************************************************************************)
\* Forms, and below terminals, are numbered with what no other one under way
\* has.
Unused(Used) == CHOOSE n \in 1..(Cardinality(Used) + 1) : n \notin Used

\* modal().
NewForm ==
    /\ dialog' = "form"
    /\ form' = Unused({reqs[s].form : s \in {r \in Slots : reqs[r] # None}})

\* The form of a device; those of a policy, a mapping, a deletion, an enrolment,
\* a join and a share open in the same way, with modal().
OpenForm ==
    /\ OnPage("app") /\ shown # 0
    /\ NewForm
    /\ UNCHANGED <<hub, cookie, reqs, agent, authenticated, refreshing, screen, shown, codes,
                   shell, saved, ops, lost>>

\* "system-proxy" asks the shell before it shows its form.
AskStatus(s) ==
    /\ OnPage("app") /\ shown # 0 /\ agent
    /\ Click(s, "status")
    /\ UNCHANGED <<hub, cookie, agent, authenticated, refreshing, screen, shown, dialog, form,
                   codes, shell, saved, lost>>

StatusArrives(s) ==
    /\ \/ Arrived(s, {"status"}, {"ok"}) /\ NewForm
       \/ Arrived(s, {"status"}, Failures) /\ UNCHANGED <<dialog, form>>
    /\ reqs' = [reqs EXCEPT ![s] = None]
    /\ UNCHANGED <<hub, cookie, agent, authenticated, refreshing, screen, shown, codes, shell,
                   saved, ops, lost>>

\* onsubmit; the button is disabled until the answer is there.
Submit(s, op) ==
    /\ dialog = "form"
    /\ \A r \in Slots : reqs[r] # None => reqs[r].form # form
    /\ op = "apply" => agent
    /\ op = "enroll" => ~ agent
    /\ Click(s, op)
    /\ UNCHANGED <<hub, cookie, agent, authenticated, refreshing, screen, shown, dialog, form,
                   codes, shell, saved, lost>>

\* dlg.close() closes whatever the dialog shows by now.
SaveArrives(s) ==
    /\ \/ /\ Arrived(s, Submissions, {"ok"})
          /\ dialog' = "none" /\ form' = 0
          /\ codes' = IF reqs[s].op = "enroll" THEN codes + 1 ELSE codes
          /\ saved' = IF reqs[s].answer.v > saved THEN reqs[s].answer.v ELSE saved
          /\ Refresh(s)
          /\ UNCHANGED <<authenticated, screen>>
       \/ /\ Arrived(s, Submissions, Failures)
          /\ Failed(s)
          /\ reqs' = [reqs EXCEPT ![s] = None]
          /\ UNCHANGED <<dialog, form, codes, saved, refreshing>>
    /\ UNCHANGED <<hub, cookie, agent, shown, shell, ops, lost>>

\* "diagnose" and "repair" have no form.
Work(s) ==
    /\ OnPage("app") /\ agent
    /\ Click(s, "work")
    /\ UNCHANGED <<hub, cookie, agent, authenticated, refreshing, screen, shown, dialog, form,
                   codes, shell, saved, lost>>

WorkArrives(s) ==
    /\ \/ /\ Arrived(s, {"work"}, {"ok"})
          /\ saved' = IF reqs[s].answer.v > saved THEN reqs[s].answer.v ELSE saved
          /\ Refresh(s)
       \/ /\ Arrived(s, {"work"}, Failures)
          /\ reqs' = [reqs EXCEPT ![s] = None]
          /\ UNCHANGED <<saved, refreshing>>
    /\ UNCHANGED <<hub, cookie, agent, authenticated, screen, shown, dialog, form, codes, shell,
                   ops, lost>>

\* The code replaces what the dialog shows.
CodeTimer ==
    /\ codes > 0
    /\ codes' = codes - 1
    /\ dialog' = "code" /\ form' = 0
    /\ UNCHANGED <<hub, cookie, reqs, agent, authenticated, refreshing, screen, shown, shell,
                   saved, ops, lost>>

(***************************************************************************)
(* The terminal of devices that have no remote session.                    *)
(***************************************************************************)
CloseDialog ==
    /\ dialog # "none"
    /\ live' = live \ {socket}
    /\ socket' = 0 /\ term' = 0
    /\ dialog' = "none" /\ form' = 0
    /\ UNCHANGED <<hub, cookie, reqs, agent, authenticated, refreshing, screen, shown, codes,
                   saved, ops, lost>>

\* The Escape key: the handler of "cancel" keeps "socket".
Escape ==
    /\ dialog # "none"
    /\ live' = live \ {socket}
    /\ term' = 0
    /\ dialog' = "none" /\ form' = 0
    /\ UNCHANGED <<hub, cookie, reqs, agent, authenticated, refreshing, screen, shown, codes,
                   socket, saved, ops, lost>>

LeftOpen == live

\* closeDialog() at the start of openSSH.
AfterClose == live \ {socket}

OpenSSH ==
    /\ OnPage("app") /\ shown # 0 /\ ~ agent
    /\ socket' = Unused(AfterClose) /\ term' = socket'
    /\ live' = AfterClose \cup {socket'}
    /\ dialog' = "terminal"
    /\ UNCHANGED <<hub, cookie, reqs, agent, authenticated, refreshing, screen, shown, form, codes,
                   saved, ops, lost>>

\* The hub or the network closes a terminal.
SocketEnds(w) ==
    /\ w \in live
    /\ live' = live \ {w}
    /\ UNCHANGED <<hub, cookie, reqs, agent, authenticated, refreshing, screen, shown, dialog,
                   form, codes, socket, term, saved, ops, lost>>

-----------------------------------------------------------------------------
Arrives(s) ==
    \/ StateArrives(s) \/ LoginArrives(s) \/ LogoutArrives(s)
    \/ StatusArrives(s) \/ SaveArrives(s) \/ WorkArrives(s)

User(s) ==
    \/ Login(s) \/ Logout(s) \/ AskStatus(s) \/ Work(s)
    \/ \E op \in Submissions : Submit(s, op)

Next ==
    \/ \E s \in Slots : Answers(s) \/ Lose(s) \/ Arrives(s) \/ Tick(s) \/ User(s)
    \/ HubChanges \/ SessionsEnd
    \/ OpenForm \/ CodeTimer
    \/ CloseDialog \/ Escape \/ OpenSSH
    \/ \E w \in live : SocketEnds(w)

Spec == Init /\ [][Next]_vars

\* The interval fires; the hub or the network ends every request.
FairSpec ==
    /\ Spec
    /\ WF_vars(\E s \in Slots : Tick(s))
    /\ \A s \in Slots : WF_vars(Answers(s) \/ Arrives(s))

-----------------------------------------------------------------------------
IsRefresh(s) == reqs[s] # None /\ reqs[s].op = "state"

(* The types; "refreshing" is true exactly while a refresh is under way.   *)
TypeOK ==
    /\ {agent, authenticated, refreshing} \subseteq BOOLEAN
    /\ screen \in {"blank", "login", "app"}
    /\ dialog \in {"none", "form", "code", "terminal"}
    /\ sessions \subseteq 1..tokens /\ cookie \in 0..tokens
    /\ shown \in 0..version /\ saved \in 0..version
    /\ {tokens, version, form, socket, term} \subseteq Nat /\ live \subseteq Nat
    /\ reqs \in [Slots -> Requests \cup {None}]
    /\ \A s, r \in Slots : IsRefresh(s) /\ IsRefresh(r) => s = r
    /\ refreshing <=> \E s \in Slots : IsRefresh(s)

(* The page never goes back to an older state, although refreshes are      *)
(* started by a timer, by every save and by a login (app.js, refresh).     *)
ShownNeverGoesBack == [][shown' >= shown]_vars

(* What the page reported as saved is on display after a while, also when  *)
(* the refresh of the save found an older one under way, or failed: or the *)
(* user is asked to log in (app.js, modal and refresh).                    *)
SavedIsShown ==
    \A v \in 2..MaxVersion : (saved = v) ~> (shown >= v \/ screen = "login")

(* A page whose session is over does not stay on display: not after a      *)
(* logout that an older refresh overtakes, and not after a restart of the  *)
(* hub (app.js, logout, refresh and the interval).                         *)
StaleScreenEnds ==
    (screen = "app" /\ ~ agent /\ cookie \notin sessions)
        ~> (screen = "login" \/ cookie \in sessions)

(* A terminal that is not closed is the one that closing the dialog        *)
(* closes, also after a late save has hidden it (app.js, openSSH and       *)
(* closeDialog): no shell stays open without a way to end it.              *)
NoShellLeftOpen ==
    /\ live \subseteq {socket}
    /\ dialog = "terminal" => term = socket
=============================================================================
