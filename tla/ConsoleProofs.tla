---------------------------- MODULE ConsoleProofs ----------------------------
(***************************************************************************)
(* Proofs about Console: the page never shows an older state than it did,  *)
(* and no terminal stays open unseen, for any number of requests, versions *)
(* and restarts of the hub.  After them, proofs about DesktopShell, whose  *)
(* window shows that page.                                                 *)
(***************************************************************************)
EXTENDS Console, DesktopShell, FiniteSetTheorems, TLAPS

\* What an answer under way carries: the token of a login is one that was given
\* out, and a version is no newer than the hub's; the answer to a refresh is no
\* older than what the page shows, since a refresh alone changes that.
AnswerInv ==
    \A s \in Slots :
        reqs[s] # None /\ reqs[s].answer.kind = "ok" =>
            /\ reqs[s].op = "login" => reqs[s].answer.v <= tokens
            /\ reqs[s].op # "login" => reqs[s].answer.v <= version
            /\ reqs[s].op = "state" => shown <= reqs[s].answer.v

IndInv == TypeOK /\ AnswerInv /\ NoShellLeftOpen

-----------------------------------------------------------------------------
(* Numbers of forms and of terminals.                                      *)

\* There is always one that is not used.
LEMMA UnusedType ==
    ASSUME NEW Used, IsFiniteSet(Used)
    PROVE  Unused(Used) \in Nat
<1>1. Cardinality(Used) \in Nat
  BY FS_CardinalityType
<1>2. ASSUME 1..(Cardinality(Used) + 1) \subseteq Used PROVE FALSE
  <2>1. Cardinality(1..(Cardinality(Used) + 1)) <= Cardinality(Used)
    BY <1>2, FS_Subset
  <2>2. Cardinality(1..(Cardinality(Used) + 1)) = Cardinality(Used) + 1
    BY <1>1, FS_Interval
  <2> QED
    BY <1>1, <2>1, <2>2
<1>3. \E n \in 1..(Cardinality(Used) + 1) : n \notin Used
  BY <1>2
<1> QED
  BY <1>1, <1>3 DEF Unused

LEMMA FormType ==
    ASSUME TypeOK, NewForm
    PROVE  form' \in Nat
<1> DEFINE Busy == {r \in Slots : reqs[r] # None}
<1>1. IsFiniteSet(Busy)
  BY ConsoleConstants, FS_Subset DEF ConsoleConstants
<1> DEFINE f == [s \in Busy |-> reqs[s].form]
<1>2. IsFiniteSet({f[s] : s \in Busy})
  <2> HIDE DEF Busy
  <2>1. f \in Surjection(Busy, {f[s] : s \in Busy})
    BY DEF Surjection
  <2> QED
    BY <1>1, <2>1, FS_Surjection
<1>3. {f[s] : s \in Busy} = {reqs[s].form : s \in Busy}
  OBVIOUS
<1> QED
  BY <1>2, <1>3, UnusedType DEF NewForm

-----------------------------------------------------------------------------
(* Requests.                                                               *)

LEMMA RequestType ==
    ASSUME TypeOK, NEW s \in Slots, reqs[s] # None
    PROVE  /\ reqs[s] \in Requests
           /\ reqs[s].answer.v \in Nat
BY DEF TypeOK, Requests, Answered

LEMMA NewRequest ==
    ASSUME TypeOK, NEW op \in {"state", "login", "logout", "status", "work"} \cup Submissions
    PROVE  /\ Request(op) \in Requests /\ Request(op) # None
           /\ Request(op).op = op /\ Request(op).answer.kind = ""
<1>1. cookie \in Nat /\ form \in Nat
  BY DEF TypeOK
<1>2. NoAnswer \in Answered /\ NoAnswer.kind = ""
  BY DEF NoAnswer, Answered
<1>3. Request(op) \in Requests /\ Request(op).op = op /\ Request(op).answer = NoAnswer
  BY <1>1, <1>2 DEF Request, Requests
<1> QED
  BY <1>2, <1>3, ConsoleConstants DEF ConsoleConstants

\* The part of the invariant that is about requests.
ReqInv ==
    /\ reqs \in [Slots -> Requests \cup {None}]
    /\ \A s, r \in Slots : IsRefresh(s) /\ IsRefresh(r) => s = r
    /\ refreshing <=> \E s \in Slots : IsRefresh(s)
    /\ AnswerInv

\* The hub gives an answer.
LEMMA AnswerStep ==
    ASSUME IndInv, NEW s \in Slots, reqs[s] # None,
           NEW kind \in {"ok", "denied", "refused", "lost"}, NEW v \in Nat,
           Answer(s, kind, v),
           UNCHANGED <<refreshing, shown>>,
           tokens' \in Nat, tokens <= tokens', version' \in Nat, version <= version',
           kind = "ok" => /\ reqs[s].op = "login" => v <= tokens'
                          /\ reqs[s].op # "login" => v <= version'
                          /\ reqs[s].op = "state" => shown <= v
    PROVE  ReqInv'
<1> DEFINE a == [kind |-> kind, v |-> v]
           q == [reqs[s] EXCEPT !.answer = a]
<1>1. reqs[s] \in Requests /\ a \in Answered
  BY RequestType DEF IndInv, Answered
<1>2. q \in Requests /\ q # None /\ q.op = reqs[s].op /\ q.answer = a
  BY <1>1, ConsoleConstants DEF ConsoleConstants, Requests
<1>3. reqs' = [reqs EXCEPT ![s] = q]
  BY DEF Answer, IndInv, TypeOK
<1> HIDE DEF q
<1>4. reqs' \in [Slots -> Requests \cup {None}] /\ reqs'[s] = q
  BY <1>2, <1>3 DEF IndInv, TypeOK
<1>5. \A r \in Slots \ {s} : reqs'[r] = reqs[r]
  BY <1>3 DEF IndInv, TypeOK
<1>6. \A r \in Slots : IsRefresh(r)' <=> IsRefresh(r)
  BY <1>2, <1>4, <1>5 DEF IsRefresh
<1>7. AnswerInv'
  <2>1. ASSUME NEW r \in Slots, r # s, reqs'[r] # None, reqs'[r].answer.kind = "ok"
        PROVE  /\ reqs'[r].op = "login" => reqs'[r].answer.v <= tokens'
               /\ reqs'[r].op # "login" => reqs'[r].answer.v <= version'
               /\ reqs'[r].op = "state" => shown' <= reqs'[r].answer.v
    <3>1. reqs[r] # None /\ reqs'[r] = reqs[r] /\ reqs[r].answer.v \in Nat
      BY <1>5, <2>1, RequestType DEF IndInv
    <3> QED
      BY <2>1, <3>1 DEF IndInv, AnswerInv, TypeOK
  <2>2. q.answer.kind = kind /\ q.answer.v = v
    BY <1>2
  <2> QED
    BY <1>2, <1>4, <2>1, <2>2 DEF AnswerInv
<1> QED
  BY <1>4, <1>6, <1>7 DEF ReqInv, IndInv, TypeOK

\* A slot becomes free; with a refresh in it, the page may show its answer.
LEMMA FreedStep ==
    ASSUME IndInv, NEW s \in Slots, reqs' = [reqs EXCEPT ![s] = None],
           refreshing' \in BOOLEAN, refreshing' <=> (refreshing /\ ~ IsRefresh(s)),
           shown' = shown \/ IsRefresh(s),
           UNCHANGED <<tokens, version>>
    PROVE  ReqInv'
<1>1. /\ reqs' \in [Slots -> Requests \cup {None}] /\ reqs'[s] = None
      /\ \A r \in Slots \ {s} : reqs'[r] = reqs[r]
  BY DEF IndInv, TypeOK
<1>2. \A r \in Slots : IsRefresh(r)' <=> (IsRefresh(r) /\ r # s)
  BY <1>1 DEF IsRefresh
<1>3. AnswerInv'
  BY <1>1 DEF AnswerInv, IndInv, TypeOK, IsRefresh
<1> QED
  BY <1>1, <1>2, <1>3 DEF ReqInv, IndInv, TypeOK

\* A request that is no refresh starts in a free slot.
LEMMA StartStep ==
    ASSUME IndInv, NEW s \in Slots, reqs[s] = None,
           NEW op \in {"login", "logout", "status", "work"} \cup Submissions,
           reqs' = [reqs EXCEPT ![s] = Request(op)],
           UNCHANGED <<refreshing, shown, tokens, version>>
    PROVE  ReqInv'
<1> DEFINE q == Request(op)
<1>1. q \in Requests /\ q # None /\ q.op # "state" /\ q.answer.kind = ""
  BY NewRequest DEF IndInv, Submissions
<1> HIDE DEF q
<1>2. /\ reqs' \in [Slots -> Requests \cup {None}] /\ reqs'[s] = q
      /\ \A r \in Slots \ {s} : reqs'[r] = reqs[r]
  BY <1>1 DEF IndInv, TypeOK, q
<1>3. \A r \in Slots : IsRefresh(r)' <=> IsRefresh(r)
  BY <1>1, <1>2 DEF IsRefresh
<1>4. AnswerInv'
  BY <1>1, <1>2 DEF AnswerInv, IndInv
<1> QED
  BY <1>2, <1>3, <1>4 DEF ReqInv, IndInv, TypeOK

\* A refresh starts, when there is none, in a slot that is free or becomes so.
LEMMA RefreshStep ==
    ASSUME IndInv, NEW s \in Slots, ~ refreshing, refreshing' = TRUE,
           NEW q \in Requests, q # None, q.op = "state", q.answer.kind = "",
           reqs' = [reqs EXCEPT ![s] = q],
           UNCHANGED <<shown, tokens, version>>
    PROVE  ReqInv'
<1>1. /\ reqs' \in [Slots -> Requests \cup {None}] /\ reqs'[s] = q
      /\ \A r \in Slots \ {s} : reqs'[r] = reqs[r]
  BY DEF IndInv, TypeOK
<1>2. \A r \in Slots : IsRefresh(r)' <=> r = s
  BY <1>1 DEF IsRefresh, IndInv, TypeOK
<1>3. AnswerInv'
  BY <1>1 DEF AnswerInv, IndInv
<1> QED
  BY <1>1, <1>2, <1>3 DEF ReqInv

-----------------------------------------------------------------------------
(* The steps.                                                              *)

\* The part of the invariant that is about the page and the hub.
PageInv ==
    /\ {agent, authenticated, refreshing} \subseteq BOOLEAN
    /\ screen \in {"blank", "login", "app"}
    /\ dialog \in {"none", "form", "code", "terminal"}
    /\ sessions \subseteq 1..tokens /\ cookie \in 0..tokens
    /\ shown \in 0..version /\ saved \in 0..version
    /\ {tokens, version, form, socket, term} \subseteq Nat /\ live \subseteq Nat

LEMMA Parts == IndInv <=> PageInv /\ ReqInv /\ NoShellLeftOpen
BY DEF IndInv, TypeOK, PageInv, ReqInv

LEMMA InitIndInv ==
    ASSUME Init
    PROVE  IndInv
<1> PICK s \in Slots : reqs = [r \in Slots |-> IF r = s THEN Request("state") ELSE None]
  BY DEF Init
<1>1. PageInv
  <2>1. cookie \in 0..1 /\ tokens = 1 /\ sessions = {1}
    BY DEF Init
  <2>2. {agent, authenticated, refreshing} \subseteq BOOLEAN
    BY DEF Init
  <2>3. version = 1 /\ shown = 0 /\ saved = 0 /\ form = 0 /\ socket = 0 /\ term = 0 /\ live = {}
        /\ screen = "blank" /\ dialog = "none"
    BY DEF Init
  <2> QED
    BY <2>1, <2>2, <2>3 DEF PageInv
<1>2. Request("state") \in Requests /\ Request("state") # None /\ Request("state").op = "state"
      /\ Request("state").answer.kind = ""
  <2>1. cookie \in Nat /\ form \in Nat
    BY DEF Init
  <2>2. Request("state") \in Requests /\ Request("state").op = "state"
        /\ Request("state").answer.kind = ""
    BY <2>1 DEF Request, Requests, Answered, NoAnswer
  <2> QED
    BY <2>2, ConsoleConstants DEF ConsoleConstants
<1> DEFINE q == Request("state")
<1> HIDE DEF q
<1>3. reqs = [r \in Slots |-> IF r = s THEN q ELSE None] /\ refreshing = TRUE
  BY DEF q, Init
<1>4. q \in Requests /\ q # None /\ q.op = "state" /\ q.answer.kind = ""
  BY <1>2 DEF q
<1>5. ReqInv
  BY <1>3, <1>4 DEF ReqInv, IsRefresh, AnswerInv
<1>6. NoShellLeftOpen
  BY DEF Init, NoShellLeftOpen
<1> QED
  BY <1>1, <1>5, <1>6, Parts

\* The other end of a request.
LEMMA AnswersStep ==
    ASSUME IndInv, NEW s \in Slots, Answers(s) \/ Lose(s)
    PROVE  PageInv' /\ ReqInv'
<1> USE DEF shell, hub
<1>0. PageInv /\ TypeOK
  BY Parts DEF IndInv
<1>1. CASE HubLogin(s) /\ Answers(s)
  <2>1. PICK kind \in {"ok", "denied", "refused"}, v \in Nat :
          /\ Answer(s, kind, v) /\ tokens' \in Nat /\ tokens <= tokens'
          /\ kind = "ok" => v <= tokens'
          /\ sessions' \subseteq 1..tokens'
    <3>1. tokens \in Nat /\ sessions \subseteq 1..tokens
      BY <1>0 DEF PageInv
    <3>2. CASE /\ tokens' = tokens + 1 /\ sessions' = sessions \cup {tokens'}
               /\ Answer(s, "ok", tokens')
      <4>1. tokens' \in Nat /\ tokens <= tokens' /\ sessions' \subseteq 1..tokens'
        BY <3>1, <3>2
      <4> QED
        BY <3>2, <4>1
    <3>3. CASE /\ Answer(s, "denied", 0) \/ Answer(s, "refused", 0)
               /\ UNCHANGED <<tokens, sessions>>
      <4>1. tokens' \in Nat /\ tokens <= tokens' /\ sessions' \subseteq 1..tokens'
        BY <3>1, <3>3
      <4> QED
        BY <3>3, <4>1
    <3> QED
      BY <1>1, <3>2, <3>3 DEF HubLogin
  <2>2. reqs[s] # None /\ reqs[s].op = "login" /\ UNCHANGED <<refreshing, shown, version>>
    BY <1>1 DEF HubLogin, Pending, Answers
  <2>3. ReqInv'
    BY <1>0, <2>1, <2>2, AnswerStep DEF PageInv
  <2> QED
    BY <1>0, <1>1, <2>1, <2>3 DEF Answers, HubLogin, PageInv
<1>2. CASE HubLogout(s) /\ Answers(s)
  <2>1. reqs[s] # None /\ reqs[s].op = "logout" /\ Answer(s, "ok", 0)
        /\ UNCHANGED <<refreshing, shown, version, tokens>>
    BY <1>2 DEF HubLogout, Pending, Answers
  <2>2. ReqInv'
    BY <1>0, <2>1, AnswerStep DEF PageInv
  <2> QED
    BY <1>0, <1>2, <2>2 DEF Answers, HubLogout, PageInv
<1>3. CASE HubState(s) /\ Answers(s)
  <2>1. PICK kind \in {"ok", "denied"}, v \in Nat :
          Answer(s, kind, v) /\ (kind = "ok" => v = version)
    BY <1>0, <1>3 DEF HubState, PageInv
  <2>2. reqs[s] # None /\ reqs[s].op = "state" /\ UNCHANGED <<refreshing, shown, version, tokens>>
    BY <1>3 DEF HubState, Pending, Answers
  <2>3. ReqInv'
    BY <1>0, <2>1, <2>2, AnswerStep DEF PageInv
  <2> QED
    BY <1>0, <1>3, <2>3 DEF Answers, HubState, PageInv
<1>4. CASE HubSave(s) /\ Answers(s)
  <2>1. PICK kind \in {"ok", "denied", "refused"}, v \in Nat :
          /\ Answer(s, kind, v) /\ version' \in Nat /\ version <= version'
          /\ kind = "ok" => v <= version'
    BY <1>0, <1>4 DEF HubSave, PageInv
  <2>2. /\ reqs[s] # None /\ reqs[s].op # "login" /\ reqs[s].op # "state"
        /\ UNCHANGED <<refreshing, shown, tokens>>
    BY <1>4 DEF HubSave, Pending, Answers
  <2>3. ReqInv'
    BY <1>0, <2>1, <2>2, AnswerStep DEF PageInv
  <2> QED
    BY <1>0, <1>4, <2>1, <2>3 DEF Answers, HubSave, PageInv
<1>5. CASE ShellAnswers(s) /\ Answers(s)
  <2>1. PICK kind \in {"ok", "refused"} : Answer(s, kind, 0)
    BY <1>5 DEF ShellAnswers
  <2>2. /\ reqs[s] # None /\ reqs[s].op # "login" /\ reqs[s].op # "state"
        /\ UNCHANGED <<refreshing, shown, tokens, version>>
    BY <1>5 DEF ShellAnswers, Pending, Answers
  <2>3. ReqInv'
    BY <1>0, <2>1, <2>2, AnswerStep DEF PageInv
  <2> QED
    BY <1>0, <1>5, <2>3 DEF Answers, ShellAnswers, PageInv
<1>6. CASE Lose(s)
  <2>1. /\ reqs[s] # None /\ Answer(s, "lost", 0)
        /\ UNCHANGED <<refreshing, shown, tokens, version>>
    BY <1>6 DEF Lose
  <2>2. ReqInv'
    BY <1>0, <2>1, AnswerStep DEF PageInv
  <2> QED
    BY <1>0, <1>6, <2>2 DEF Lose, PageInv
<1> QED
  BY <1>1, <1>2, <1>3, <1>4, <1>5, <1>6 DEF Answers

\* A refresh starts, unless one is under way.
LEMMA RefreshCall ==
    ASSUME IndInv, NEW s \in Slots, ~ IsRefresh(s), Refresh(s),
           UNCHANGED <<shown, tokens, version>>
    PROVE  ReqInv' /\ refreshing' \in BOOLEAN
<1>0. TypeOK
  BY DEF IndInv
<1>1. CASE refreshing
  <2>1. reqs' = [reqs EXCEPT ![s] = None] /\ refreshing' = refreshing
    BY <1>1 DEF Refresh
  <2> QED
    BY <1>0, <2>1, FreedStep DEF TypeOK
<1>2. CASE ~ refreshing
  <2>1. reqs' = [reqs EXCEPT ![s] = Request("state")] /\ refreshing' = TRUE
    BY <1>2 DEF Refresh
  <2> QED
    BY <1>0, <1>2, <2>1, NewRequest, RefreshStep
<1> QED
  BY <1>1, <1>2

\* The answers of refreshes, logins, logouts and forms, and the clicks of the user.
LEMMA ArrivesStep ==
    ASSUME IndInv, NEW s \in Slots, Arrives(s) \/ Tick(s)
    PROVE  PageInv' /\ ReqInv'
<1> USE DEF shell, hub
<1>0. PageInv /\ TypeOK /\ AnswerInv
  BY Parts DEF IndInv
<1>a. ASSUME reqs[s] # None PROVE reqs[s].answer.v \in Nat
  BY <1>0, <1>a, RequestType
<1>b. ASSUME Failed(s)
      PROVE  authenticated' \in BOOLEAN /\ screen' \in {"blank", "login", "app"}
  BY <1>0, <1>b DEF Failed, PageInv
<1>1. CASE StateArrives(s)
  <2>1. IsRefresh(s)
    BY <1>1 DEF StateArrives, Arrived, IsRefresh
  <2>2. ReqInv'
    BY <1>1, <2>1, FreedStep DEF StateArrives, Finally
  <2>3. authenticated' \in BOOLEAN /\ screen' \in {"blank", "login", "app"}
        /\ shown' \in 0..version
    <3>1. CASE Arrived(s, {"state"}, {"ok"}) /\ Refreshed(s)
      BY <1>0, <1>a, <3>1 DEF Refreshed, PageInv, AnswerInv, Arrived
    <3>2. CASE RefreshFailed(s)
      BY <1>0, <1>b, <3>2 DEF RefreshFailed, PageInv
    <3> QED
      BY <1>1, <3>1, <3>2 DEF StateArrives
  <2> QED
    BY <1>0, <1>1, <2>2, <2>3 DEF StateArrives, Finally, PageInv
<1>2. CASE LoginArrives(s)
  <2>1. reqs[s] # None /\ reqs[s].op = "login" /\ ~ IsRefresh(s)
    BY <1>2 DEF LoginArrives, Arrived, IsRefresh
  <2>2. CASE Arrived(s, {"login"}, {"ok"}) /\ cookie' = reqs[s].answer.v
             /\ authenticated' = TRUE /\ screen' = screen
             /\ refreshing /\ reqs' = [reqs EXCEPT ![s] = None] /\ refreshing' = refreshing
    <3>1. ReqInv'
      BY <1>0, <1>2, <2>1, <2>2, FreedStep DEF LoginArrives, PageInv
    <3>2. cookie' \in 0..tokens
      BY <1>0, <1>a, <2>1, <2>2 DEF AnswerInv, Arrived, PageInv
    <3> QED
      BY <1>0, <1>2, <2>2, <3>1, <3>2 DEF LoginArrives, PageInv
  <2>3. CASE Arrived(s, {"login"}, {"ok"}) /\ cookie' = reqs[s].answer.v
             /\ authenticated' = TRUE /\ screen' = screen /\ ~ refreshing /\ refreshing' = TRUE
             /\ reqs' = [reqs EXCEPT ![s] = [Request("state") EXCEPT !.token = cookie']]
    <3> DEFINE q == [Request("state") EXCEPT !.token = cookie']
    <3>1. cookie' \in 0..tokens /\ cookie' \in Nat
      BY <1>0, <1>a, <2>1, <2>3 DEF AnswerInv, Arrived, PageInv
    <3>2. q \in Requests /\ q.op = "state" /\ q.answer.kind = ""
      <4> DEFINE r == Request("state")
      <4>1. r \in Requests /\ r.op = "state" /\ r.answer.kind = ""
        BY <1>0, NewRequest
      <4> HIDE DEF r
      <4>2. /\ [r EXCEPT !.token = cookie'] \in Requests
            /\ [r EXCEPT !.token = cookie'].op = r.op
            /\ [r EXCEPT !.token = cookie'].answer = r.answer
        BY <3>1, <4>1 DEF Requests
      <4> QED
        BY <4>1, <4>2 DEF r
    <3>3. q # None
      BY <3>2, ConsoleConstants DEF ConsoleConstants
    <3>4. ReqInv'
      BY <1>2, <2>3, <3>2, <3>3, RefreshStep DEF LoginArrives
    <3> QED
      BY <1>0, <1>2, <2>3, <3>1, <3>4 DEF LoginArrives, PageInv
  <2>4. CASE Failed(s) /\ reqs' = [reqs EXCEPT ![s] = None] /\ UNCHANGED <<cookie, refreshing>>
    <3>1. ReqInv'
      BY <1>0, <1>2, <2>1, <2>4, FreedStep DEF LoginArrives, PageInv
    <3> QED
      BY <1>0, <1>b, <1>2, <2>4, <3>1 DEF LoginArrives, PageInv
  <2> QED
    BY <1>2, <2>2, <2>3, <2>4 DEF LoginArrives
<1>3. CASE LogoutArrives(s)
  <2>1. ~ IsRefresh(s)
    BY <1>3 DEF LogoutArrives, Arrived, IsRefresh
  <2>2. ReqInv'
    BY <1>0, <1>3, <2>1, FreedStep DEF LogoutArrives, PageInv
  <2>3. authenticated' \in BOOLEAN /\ screen' \in {"blank", "login", "app"} /\ cookie' \in 0..tokens
    <3>1. CASE cookie' = 0 /\ authenticated' = FALSE /\ screen' = "login"
      <4>1. 0 \in 0..tokens
        BY <1>0 DEF PageInv
      <4> QED
        BY <3>1, <4>1
    <3>2. CASE Failed(s) /\ cookie' = cookie
      BY <1>0, <1>b, <3>2 DEF PageInv
    <3> QED
      BY <1>3, <3>1, <3>2 DEF LogoutArrives
  <2> QED
    BY <1>0, <1>3, <2>2, <2>3 DEF LogoutArrives, PageInv
<1>4. CASE StatusArrives(s)
  <2>1. ~ IsRefresh(s)
    BY <1>4 DEF StatusArrives, Arrived, IsRefresh
  <2>2. ReqInv'
    BY <1>0, <1>4, <2>1, FreedStep DEF StatusArrives, PageInv
  <2>3. form' \in Nat /\ dialog' \in {"none", "form", "code", "terminal"}
    BY <1>0, <1>4, FormType DEF StatusArrives, NewForm, PageInv
  <2> QED
    BY <1>0, <1>4, <2>2, <2>3 DEF StatusArrives, PageInv
<1>5. CASE SaveArrives(s)
  <2>1. reqs[s] # None /\ reqs[s].op \notin {"state", "login"} /\ ~ IsRefresh(s)
    BY <1>5 DEF SaveArrives, Arrived, IsRefresh, Submissions
  <2>2. /\ saved' \in 0..version /\ form' \in Nat
        /\ dialog' \in {"none", "form", "code", "terminal"}
        /\ authenticated' \in BOOLEAN /\ screen' \in {"blank", "login", "app"}
    BY <1>0, <1>5, <1>a, <1>b, <2>1 DEF SaveArrives, Arrived, AnswerInv, PageInv
  <2>3. ReqInv' /\ refreshing' \in BOOLEAN
    BY <1>0, <1>5, <2>1, FreedStep, RefreshCall DEF SaveArrives, PageInv
  <2> QED
    BY <1>0, <1>5, <2>2, <2>3 DEF SaveArrives, PageInv
<1>6. CASE WorkArrives(s)
  <2>1. reqs[s] # None /\ reqs[s].op \notin {"state", "login"} /\ ~ IsRefresh(s)
    BY <1>6 DEF WorkArrives, Arrived, IsRefresh
  <2>2. saved' \in 0..version
    BY <1>0, <1>6, <1>a, <2>1 DEF WorkArrives, Arrived, AnswerInv, PageInv
  <2>3. ReqInv' /\ refreshing' \in BOOLEAN
    BY <1>0, <1>6, <2>1, FreedStep, RefreshCall DEF WorkArrives, PageInv
  <2> QED
    BY <1>0, <1>6, <2>2, <2>3 DEF WorkArrives, PageInv
<1>7. CASE Tick(s)
  <2>1. ReqInv' /\ refreshing' \in BOOLEAN
    BY <1>0, <1>7, RefreshCall DEF Tick, Free, IsRefresh
  <2> QED
    BY <1>0, <1>7, <2>1 DEF Tick, PageInv
<1> QED
  BY <1>1, <1>2, <1>3, <1>4, <1>5, <1>6, <1>7 DEF Arrives

LEMMA UserStep ==
    ASSUME IndInv, NEW s \in Slots, User(s)
    PROVE  PageInv' /\ ReqInv'
<1> USE DEF shell, hub
<1>1. PICK op \in {"login", "logout", "status", "work"} \cup Submissions :
        /\ Click(s, op)
        /\ UNCHANGED <<hub, cookie, agent, authenticated, refreshing, screen, shown, dialog, form,
                       codes, shell, saved, lost>>
  BY DEF User, Login, Logout, AskStatus, Work, Submit
<1>2. ReqInv'
  BY <1>1, StartStep DEF Click, Free
<1>3. PageInv'
  BY <1>1, Parts DEF PageInv
<1> QED
  BY <1>2, <1>3

\* The rest leaves requests alone.
LEMMA OtherStep ==
    ASSUME IndInv,
           \/ HubChanges \/ SessionsEnd \/ OpenForm \/ CodeTimer
           \/ CloseDialog \/ Escape \/ OpenSSH
           \/ \E w \in live : SocketEnds(w)
           \/ UNCHANGED vars
    PROVE  PageInv' /\ ReqInv' /\ shown' = shown
<1> USE DEF shell, hub
<1>0. PageInv /\ ReqInv /\ TypeOK /\ NoShellLeftOpen
  BY Parts DEF IndInv
<1>1. CASE HubChanges
  <2>1. AnswerInv'
    BY <1>0, <1>1, RequestType DEF HubChanges, AnswerInv, ReqInv, PageInv
  <2> QED
    BY <1>0, <1>1, <2>1 DEF HubChanges, ReqInv, IsRefresh, PageInv
<1> DEFINE Same == UNCHANGED <<reqs, refreshing, shown, tokens, version>>
<1>2. ASSUME Same PROVE ReqInv'
  BY <1>0, <1>2 DEF ReqInv, IsRefresh, AnswerInv
<1>3. CASE SessionsEnd
  BY <1>0, <1>2, <1>3 DEF SessionsEnd, PageInv
<1>4. CASE OpenForm
  <2>1. form' \in Nat
    BY <1>0, <1>4, FormType DEF OpenForm
  <2> QED
    BY <1>0, <1>2, <1>4, <2>1 DEF OpenForm, NewForm, PageInv
<1>5. CASE CodeTimer
  BY <1>0, <1>2, <1>5 DEF CodeTimer, PageInv
<1>6. CASE CloseDialog
  <2>1. live' \subseteq Nat
    BY <1>0, <1>6 DEF CloseDialog, PageInv
  <2> QED
    BY <1>0, <1>2, <1>6, <2>1 DEF CloseDialog, PageInv
<1>7. CASE Escape
  <2>1. live' \subseteq Nat
    BY <1>0, <1>7 DEF Escape, PageInv
  <2> QED
    BY <1>0, <1>2, <1>7, <2>1 DEF Escape, PageInv
<1>8. CASE OpenSSH
  <2>1. AfterClose = {}
    BY <1>0 DEF AfterClose, NoShellLeftOpen
  <2>2. Unused(AfterClose) \in Nat
    BY <2>1, UnusedType, FS_EmptySet
  <2>3. socket' \in Nat /\ term' \in Nat /\ live' \subseteq Nat
    BY <1>8, <2>1, <2>2 DEF OpenSSH
  <2> QED
    BY <1>0, <1>2, <1>8, <2>3 DEF OpenSSH, PageInv
<1>9. CASE \E w \in live : SocketEnds(w)
  BY <1>0, <1>2, <1>9 DEF SocketEnds, PageInv
<1>10. CASE UNCHANGED vars
  BY <1>0, <1>2, <1>10 DEF vars, PageInv
<1> QED
  BY <1>1, <1>3, <1>4, <1>5, <1>6, <1>7, <1>8, <1>9, <1>10

\* openSSH closes the terminal there is before it opens another, and the two
\* ways to close the dialog close the one that "socket" names.
LEMMA NoShellStep ==
    ASSUME NoShellLeftOpen, [Next]_vars
    PROVE  NoShellLeftOpen'
<1> USE DEF NoShellLeftOpen, shell
<1>1. ASSUME NEW s \in Slots, Answers(s) \/ Lose(s) PROVE NoShellLeftOpen'
  BY <1>1 DEF Answers, Lose
<1>2. ASSUME NEW s \in Slots, Arrives(s) \/ Tick(s) PROVE NoShellLeftOpen'
  BY <1>2 DEF Arrives, StateArrives, LoginArrives, LogoutArrives, StatusArrives, SaveArrives,
              WorkArrives, Tick, NewForm
<1>3. ASSUME NEW s \in Slots, User(s) PROVE NoShellLeftOpen'
  BY <1>3 DEF User, Login, Logout, AskStatus, Work, Submit
<1>4. CASE HubChanges \/ SessionsEnd \/ OpenForm \/ CodeTimer
  BY <1>4 DEF HubChanges, SessionsEnd, OpenForm, NewForm, CodeTimer
<1>5. CASE CloseDialog \/ Escape
  BY <1>5 DEF CloseDialog, Escape
<1>6. CASE OpenSSH
  BY <1>6 DEF OpenSSH, AfterClose
<1>7. CASE \E w \in live : SocketEnds(w)
  BY <1>7 DEF SocketEnds
<1>8. CASE UNCHANGED vars
  BY <1>8 DEF vars
<1> QED
  BY <1>1, <1>2, <1>3, <1>4, <1>5, <1>6, <1>7, <1>8 DEF Next

\* The parts together are an invariant of the page and the hub.
THEOREM Invariance == Spec => []IndInv
<1>1. Init => IndInv
  BY InitIndInv
<1>2. IndInv /\ [Next]_vars => IndInv'
  <2> SUFFICES ASSUME IndInv, [Next]_vars PROVE IndInv'
    OBVIOUS
  <2>1. PageInv' /\ ReqInv'
    BY AnswersStep, ArrivesStep, UserStep, OtherStep DEF Next
  <2>2. NoShellLeftOpen'
    BY NoShellStep DEF IndInv
  <2> QED
    BY <2>1, <2>2 DEF IndInv, TypeOK, PageInv, ReqInv
<1> QED
  BY <1>1, <1>2, PTL DEF Spec

\* No terminal is open that closing the dialog would not close (openSSH and
\* closeDialog in app.js).
THEOREM ShellsAreClosed == Spec => []NoShellLeftOpen
<1>1. IndInv => NoShellLeftOpen
  BY DEF IndInv
<1> QED
  BY <1>1, Invariance, PTL

\* The page never goes back to an older state (refresh in app.js): "refreshing"
\* keeps a second refresh away, so an answer finds the page as the hub found it
\* or older.
THEOREM PageGoesForward == Spec => ShownNeverGoesBack
<1>1. IndInv /\ [Next]_vars => [shown' >= shown]_vars
  <2> SUFFICES ASSUME IndInv, Next PROVE shown' >= shown
    OBVIOUS
  <2> USE DEF shell, hub
  <2>0. shown \in Nat
    BY DEF IndInv, TypeOK
  <2>1. ASSUME NEW s \in Slots, StateArrives(s) PROVE shown' >= shown
    <3>1. CASE Arrived(s, {"state"}, {"ok"}) /\ Refreshed(s)
      BY <2>0, <3>1, RequestType DEF Refreshed, Arrived, IndInv, AnswerInv
    <3>2. CASE RefreshFailed(s)
      BY <2>0, <3>2 DEF RefreshFailed
    <3> QED
      BY <2>1, <3>1, <3>2 DEF StateArrives
  <2>2. ASSUME NEW s \in Slots,
               \/ Answers(s) \/ Lose(s) \/ Tick(s) \/ User(s)
               \/ LoginArrives(s) \/ LogoutArrives(s) \/ StatusArrives(s)
               \/ SaveArrives(s) \/ WorkArrives(s)
        PROVE  shown' = shown
    BY <2>2 DEF Answers, Lose, Tick, User, Login, Logout, AskStatus, Work, Submit,
                LoginArrives, LogoutArrives, StatusArrives, SaveArrives, WorkArrives
  <2> QED
    BY <2>0, <2>1, <2>2, OtherStep DEF Next, Arrives
<1> QED
  BY <1>1, Invariance, PTL DEF Spec, ShownNeverGoesBack

-----------------------------------------------------------------------------
(***************************************************************************)
(* The desktop shell, whose window shows the page: what system-proxy.ps1   *)
(* does to the settings of the user, for any number of runs of the script, *)
(* killed wherever, and any changes the user makes.                        *)
(***************************************************************************)

\* Process s restores, and has written the value of n.
Written(s, n) ==
    /\ script[s] # Absent /\ script[s].read # Absent
    /\ \/ script[s].pc = "ProxyServer" /\ n = "ProxyEnable"
       \/ script[s].pc = "ProxyOverride" /\ n # "ProxyOverride"
       \/ script[s].pc = "remove"

\* A process that has read the settings will save them as the backup that was
\* missing; one that writes our values has a backup, and one that restores
\* writes what the backup holds.
ScriptInv(s) ==
    /\ At(s, "save") => /\ backup = Absent /\ script[s].read # Absent
                        /\ \A n \in Names : script[s].read[n] # Ours
    /\ script[s].pc \in Names => backup # Absent
    /\ script[s].pc \in Names /\ script[s].read # Absent => script[s].read = backup
    /\ script[s].pc = "remove" => script[s].read # Absent
    /\ \A n \in Names : Written(s, n) => reg[n] # Ours

\* As long as no two scripts ran at once, our values are only where a backup
\* without them is.
SoloInv ==
    ~ overlapped =>
        /\ \A s, r \in Scripts : script[s] # Absent /\ script[r] # Absent => s = r
        /\ \A s \in Scripts : script[s] # Absent => ScriptInv(s)
        /\ backup # Absent => \A n \in Names : backup[n] # Ours
        /\ backup = Absent => \A n \in Names : reg[n] # Ours

\* And as long as the user does not change them either, the backup, or without
\* one the registry, has the values of the user.
OriginalInv ==
    ~ overlapped /\ ~ changed =>
        /\ IF backup # Absent THEN backup = users ELSE reg = users
        /\ \A s \in Scripts : At(s, "save") => script[s].read = users
        /\ \A s \in Scripts, n \in Names : Written(s, n) => reg[n] = users[n]
        /\ restored => reg = users

DesktopInv == ShellTypeOK /\ SoloInv /\ OriginalInv

LEMMA DesktopInit ==
    ASSUME ShellInit
    PROVE  DesktopInv
<1> USE DesktopShellConstants DEF ShellInit, Settings
<1>1. ShellTypeOK
  BY DEF ShellTypeOK
<1>2. SoloInv
  BY DEF SoloInv
<1>3. OriginalInv
  BY DEF OriginalInv, At, Written
<1> QED
  BY <1>1, <1>2, <1>3 DEF DesktopInv

\* The steps of the window and of the service.
Outside ==
    \/ Ready \/ Show \/ Loaded \/ LoadFails \/ ReloadTimer \/ Reload
    \/ CloseWindow \/ Quit \/ Closed
    \/ ServiceFlips

LEMMA OutsideType ==
    ASSUME ShellTypeOK, Outside
    PROVE  ShellTypeOK' /\ UNCHANGED proxy
<1> USE DEF ShellTypeOK, proxy, ui
<1>1. CASE Ready
  BY <1>1 DEF Ready, ShowWindow
<1>2. CASE Show
  BY <1>2 DEF Show, ShowWindow
<1>3. CASE Loaded
  BY <1>3 DEF Loaded
<1>4. CASE LoadFails
  BY <1>4 DEF LoadFails
<1>5. CASE ReloadTimer
  BY <1>5 DEF ReloadTimer
<1>6. CASE Reload
  BY <1>6 DEF Reload
<1>7. CASE CloseWindow
  BY <1>7 DEF CloseWindow, Hide
<1>8. CASE Quit
  BY <1>8 DEF Quit, BeforeQuit
<1>9. CASE Closed
  BY <1>9 DEF Closed
<1>10. CASE ServiceFlips
  BY <1>10 DEF ServiceFlips
<1> QED
  BY <1>1, <1>2, <1>3, <1>4, <1>5, <1>6, <1>7, <1>8, <1>9, <1>10 DEF Outside

\* A process is a record.
LEMMA ProcessType ==
    ASSUME ShellTypeOK, NEW s \in Scripts, script[s] # Absent
    PROVE  /\ script[s] \in Processes
           /\ script[s].pc \in Names \cup {"enable", "save", "restore", "remove", "notify"}
           /\ script[s].read \in Settings \cup {Absent}
BY DEF ShellTypeOK, Processes

LEMMA NewProcess ==
    ASSUME NEW pc \in Names \cup {"enable", "save", "restore", "remove", "notify"},
           NEW read \in Settings \cup {Absent}
    PROVE  /\ [pc |-> pc, read |-> read] \in Processes
           /\ [pc |-> pc, read |-> read] # Absent
BY DesktopShellConstants DEF Processes

\* Goto changes the place of one process.
LEMMA GotoScript ==
    ASSUME ShellTypeOK, NEW s \in Scripts, script[s] # Absent,
           NEW pc \in Names \cup {"enable", "save", "restore", "remove", "notify"},
           Goto(s, pc)
    PROVE  script' = [script EXCEPT ![s] = [pc |-> pc, read |-> script[s].read]]
<1>1. script[s] \in Processes
  BY ProcessType
<1>2. [script[s] EXCEPT !.pc = pc] = [pc |-> pc, read |-> script[s].read]
  BY <1>1 DEF Processes
<1> QED
  BY <1>2 DEF Goto, ShellTypeOK

\* A step of process s replaces its record, and leaves it running.
LEMMA ScriptStepShape ==
    ASSUME ShellTypeOK, NEW s \in Scripts, ScriptStep(s)
    PROVE  /\ script[s] # Absent
           /\ script'[s] \in Processes /\ script'[s] # Absent
           /\ script' = [script EXCEPT ![s] = script'[s]]
           /\ reg' \in Settings /\ backup' \in Settings \cup {Absent}
<1> USE DEF At, ShellTypeOK
<1>1. CASE ReadSettings(s)
  <2> DEFINE q == IF backup # Absent THEN [pc |-> "ProxyEnable", read |-> Absent]
                  ELSE [pc |-> "save", read |-> reg]
  <2>1. q \in Processes /\ q # Absent
    BY NewProcess DEF Names
  <2>2. script' = [script EXCEPT ![s] = q]
    BY <1>1 DEF ReadSettings
  <2> HIDE DEF q
  <2> QED
    BY <1>1, <2>1, <2>2 DEF ReadSettings
<1>2. CASE SaveBackup(s)
  <2> DEFINE q == [pc |-> "ProxyEnable", read |-> Absent]
  <2>1. q \in Processes /\ q # Absent
    BY NewProcess DEF Names
  <2>2. script' = [script EXCEPT ![s] = q] /\ backup' = script[s].read
    BY <1>2 DEF SaveBackup
  <2> HIDE DEF q
  <2> QED
    BY <1>2, <2>1, <2>2, ProcessType DEF SaveBackup
<1>3. CASE SetValue(s)
  <2>1. PICK n \in Names :
          /\ At(s, n)
          /\ reg' = [reg EXCEPT ![n] = IF script[s].read = Absent THEN Ours
                                          ELSE script[s].read[n]]
          /\ Goto(s, IF n = "ProxyOverride" /\ script[s].read # Absent
                          THEN "remove" ELSE After(n))
    BY <1>3 DEF SetValue
  <2>2. After(n) \in Names \cup {"notify"}
    BY DEF After, Names
  <2>3. script[s].read \in Settings \cup {Absent}
    BY <2>1, ProcessType
  <2>4. reg' \in Settings
    BY <2>1, <2>3 DEF Settings
  <2>5. PICK pc \in Names \cup {"remove", "notify"} :
          script' = [script EXCEPT ![s] = [pc |-> pc, read |-> script[s].read]]
    BY <2>1, <2>2, GotoScript
  <2> QED
    BY <1>3, <2>1, <2>3, <2>4, <2>5, NewProcess DEF SetValue
<1>4. CASE ReadBackup(s)
  <2> DEFINE q == [pc |-> "ProxyEnable", read |-> backup]
  <2>1. q \in Processes /\ q # Absent
    BY NewProcess DEF Names
  <2>2. script' = [script EXCEPT ![s] = q]
    BY <1>4 DEF ReadBackup
  <2> HIDE DEF q
  <2> QED
    BY <1>4, <2>1, <2>2 DEF ReadBackup
<1>5. CASE RemoveBackup(s)
  <2>1. script' = [script EXCEPT ![s] = [pc |-> "notify", read |-> script[s].read]]
    BY <1>5, GotoScript DEF RemoveBackup
  <2> QED
    BY <1>5, <2>1, NewProcess, ProcessType DEF RemoveBackup
<1> QED
  BY <1>1, <1>2, <1>3, <1>4, <1>5 DEF ScriptStep

LEMMA TypeStep ==
    ASSUME ShellTypeOK, [ShellNext]_shellVars
    PROVE  ShellTypeOK'
<1>1. CASE Outside
  BY <1>1, OutsideType
<1>2. ASSUME NEW s \in Scripts, NEW action \in {"enable", "restore"}, RunScript(s, action)
      PROVE ShellTypeOK'
  BY <1>2, NewProcess DEF RunScript, ShellTypeOK, ui
<1>3. ASSUME NEW s \in Scripts, ScriptStep(s) PROVE ShellTypeOK'
  <2>1. restored' \in BOOLEAN
    BY <1>3 DEF ScriptStep, At
  <2> QED
    BY <1>3, <2>1, ScriptStepShape DEF ScriptStep, ShellTypeOK, ui
<1>4. ASSUME NEW s \in Scripts, ScriptEnds(s) PROVE ShellTypeOK'
  BY <1>4 DEF ScriptEnds, ShellTypeOK, ui
<1>5. ASSUME NEW N \in {Names, {"ProxyEnable"}}, NEW u \in Choices, UserChanges(N, u)
      PROVE ShellTypeOK'
  BY <1>5 DEF UserChanges, ShellTypeOK, ui, Settings
<1>6. CASE UNCHANGED shellVars
  BY <1>6 DEF shellVars, ui, proxy, ShellTypeOK
<1> QED
  BY <1>1, <1>2, <1>3, <1>4, <1>5, <1>6 DEF ShellNext, Outside

\* A single process at a time: our values, the backup and what the process has
\* read.
LEMMA SoloStep ==
    ASSUME ShellTypeOK, SoloInv, [ShellNext]_shellVars
    PROVE  SoloInv'
<1> SUFFICES ASSUME ~ overlapped'
             PROVE  /\ \A s, r \in Scripts : script'[s] # Absent /\ script'[r] # Absent => s = r
                    /\ \A s \in Scripts : script'[s] # Absent => ScriptInv(s)'
                    /\ backup' # Absent => \A n \in Names : backup'[n] # Ours
                    /\ backup' = Absent => \A n \in Names : reg'[n] # Ours
  BY DEF SoloInv
<1>0. CASE UNCHANGED proxy
  BY <1>0 DEF proxy, SoloInv, ScriptInv, Written, At
<1>1. ASSUME NEW s \in Scripts, NEW action \in {"enable", "restore"}, RunScript(s, action)
      PROVE SoloInv'
  <2>1. ~ overlapped /\ \A r \in Scripts : script[r] = Absent
    BY <1>1 DEF RunScript, Running, ShellTypeOK
  <2>2. script'[s].pc = action /\ \A r \in Scripts \ {s} : script'[r] = Absent
    BY <1>1, <2>1 DEF RunScript, ShellTypeOK
  <2>3. ScriptInv(s)'
    BY <2>2 DEF ScriptInv, At, Written, Names
  <2> QED
    BY <1>1, <2>1, <2>2, <2>3 DEF SoloInv, RunScript
<1>2. ASSUME NEW s \in Scripts, ScriptStep(s) PROVE SoloInv'
  <2>0. /\ ~ overlapped /\ script[s] # Absent /\ script'[s] # Absent
        /\ script[s].read \in Settings \cup {Absent}
        /\ ScriptInv(s)
        /\ \A r \in Scripts \ {s} : script'[r] = Absent
    BY <1>2, ScriptStepShape, ProcessType DEF ScriptStep, SoloInv, ShellTypeOK
  <2> SUFFICES /\ ScriptInv(s)'
               /\ backup' # Absent => \A n \in Names : backup'[n] # Ours
               /\ backup' = Absent => \A n \in Names : reg'[n] # Ours
    BY <2>0 DEF SoloInv
  <2> USE DEF At
  <2>1. CASE ReadSettings(s)
    <3>1. CASE backup # Absent
      <4>1. script'[s] = [pc |-> "ProxyEnable", read |-> Absent]
        BY <2>1, <3>1 DEF ReadSettings, ShellTypeOK
      <4> QED
        BY <2>0, <2>1, <3>1, <4>1 DEF ReadSettings, SoloInv, ScriptInv, Written, Names
    <3>2. CASE backup = Absent
      <4>1. script'[s] = [pc |-> "save", read |-> reg]
        BY <2>1, <3>2 DEF ReadSettings, ShellTypeOK
      <4>2. reg # Absent /\ \A n \in Names : reg[n] # Ours
        BY <2>0, <3>2, DesktopShellConstants DEF SoloInv, ShellTypeOK
      <4> QED
        BY <2>1, <3>2, <4>1, <4>2 DEF ReadSettings, ScriptInv, Written, Names
    <3> QED
      BY <3>1, <3>2
  <2>2. CASE SaveBackup(s)
    <3>1. script'[s] = [pc |-> "ProxyEnable", read |-> Absent]
      BY <2>2 DEF SaveBackup, ShellTypeOK
    <3> QED
      BY <2>0, <2>2, <3>1 DEF SaveBackup, ScriptInv, Written, Names
  <2>3. CASE SetValue(s)
    <3>1. PICK n \in Names :
            /\ At(s, n)
            /\ reg' = [reg EXCEPT ![n] = IF script[s].read = Absent THEN Ours
                                            ELSE script[s].read[n]]
            /\ Goto(s, IF n = "ProxyOverride" /\ script[s].read # Absent
                            THEN "remove" ELSE After(n))
      BY <2>3 DEF SetValue
    <3> DEFINE pc == IF n = "ProxyOverride" /\ script[s].read # Absent
                        THEN "remove" ELSE After(n)
    <3>2. script'[s] = [pc |-> pc, read |-> script[s].read]
      BY <2>0, <3>1, GotoScript DEF ShellTypeOK, Names, After
    <3>3. backup' = backup /\ backup # Absent
      BY <2>0, <2>3, <3>1 DEF SetValue, ScriptInv
    <3>4. CASE script[s].read = Absent
      BY <2>0, <3>1, <3>2, <3>3, <3>4 DEF SoloInv, ScriptInv, Written, After, Names
    <3>5. CASE script[s].read # Absent
      <4>1. script[s].read = backup /\ \A m \in Names : backup[m] # Ours
        BY <2>0, <3>1, <3>3, <3>5 DEF ScriptInv, SoloInv
      <4>2. \A m \in Names : Written(s, m)' => m = n \/ Written(s, m)
        BY <2>0, <3>1, <3>2, <3>5 DEF Written, After, Names
      <4>3. \A m \in Names : Written(s, m)' => reg'[m] # Ours
        BY <2>0, <3>1, <3>5, <4>1, <4>2 DEF ScriptInv, ShellTypeOK, Settings
      <4> QED
        BY <3>1, <3>2, <3>3, <3>5, <4>1, <4>3 DEF ScriptInv, After, Names
    <3> QED
      BY <3>4, <3>5
  <2>4. CASE ReadBackup(s)
    <3>1. script'[s] = [pc |-> "ProxyEnable", read |-> backup]
      BY <2>4 DEF ReadBackup, ShellTypeOK
    <3> QED
      BY <2>0, <2>4, <3>1 DEF ReadBackup, SoloInv, ScriptInv, Written, Names
  <2>5. CASE RemoveBackup(s)
    <3>1. script'[s] = [pc |-> "notify", read |-> script[s].read]
      BY <2>5, GotoScript DEF RemoveBackup, ShellTypeOK
    <3>2. \A n \in Names : Written(s, n)
      BY <2>0, <2>5 DEF RemoveBackup, ScriptInv, Written
    <3> QED
      BY <2>0, <2>5, <3>1, <3>2 DEF RemoveBackup, ScriptInv, Written, Names
  <2> QED
    BY <1>2, <2>1, <2>2, <2>3, <2>4, <2>5 DEF ScriptStep
<1>3. ASSUME NEW s \in Scripts, ScriptEnds(s) PROVE SoloInv'
  <2>1. ~ overlapped /\ \A r \in Scripts : script'[r] = Absent
    BY <1>3 DEF ScriptEnds, ShellTypeOK, SoloInv
  <2> QED
    BY <1>3, <2>1 DEF SoloInv, ScriptEnds
<1>4. ASSUME NEW N \in {Names, {"ProxyEnable"}}, NEW u \in Choices, UserChanges(N, u)
      PROVE SoloInv'
  <2>1. \A n \in Names : reg[n] # Ours => reg'[n] # Ours
    BY <1>4, DesktopShellConstants DEF UserChanges
  <2> QED
    BY <1>4, <2>1 DEF SoloInv, UserChanges, ScriptInv, Written, At
<1>5. CASE Outside
  BY <1>0, <1>5, OutsideType
<1>6. CASE UNCHANGED shellVars
  BY <1>0, <1>6 DEF shellVars
<1> QED
  BY <1>1, <1>2, <1>3, <1>4, <1>5, <1>6 DEF ShellNext, Outside, SoloInv

\* The values of the user, while the user leaves them alone.
LEMMA OriginalStep ==
    ASSUME ShellTypeOK, SoloInv, OriginalInv, [ShellNext]_shellVars
    PROVE  OriginalInv'
<1> SUFFICES ASSUME ~ overlapped', ~ changed'
             PROVE  /\ IF backup' # Absent THEN backup' = users' ELSE reg' = users'
                    /\ \A s \in Scripts : At(s, "save")' => script'[s].read = users'
                    /\ \A s \in Scripts, n \in Names : Written(s, n)' => reg'[n] = users'[n]
                    /\ restored' => reg' = users'
  BY DEF OriginalInv
<1>0. CASE UNCHANGED proxy
  BY <1>0 DEF proxy, OriginalInv, Written, At
<1>1. ASSUME NEW s \in Scripts, NEW action \in {"enable", "restore"}, RunScript(s, action)
      PROVE OriginalInv'
  <2>1. ~ overlapped /\ ~ changed /\ \A r \in Scripts : script[r] = Absent
    BY <1>1 DEF RunScript, Running, ShellTypeOK
  <2>2. script'[s].pc = action /\ \A r \in Scripts \ {s} : script'[r] = Absent
    BY <1>1, <2>1 DEF RunScript, ShellTypeOK
  <2> QED
    BY <1>1, <2>1, <2>2 DEF OriginalInv, RunScript, At, Written
<1>2. ASSUME NEW s \in Scripts, ScriptStep(s) PROVE OriginalInv'
  <2>0. /\ ~ overlapped /\ ~ changed /\ users' = users
        /\ script[s] # Absent /\ script'[s] # Absent
        /\ script[s].read \in Settings \cup {Absent}
        /\ ScriptInv(s) /\ restored' = At(s, "remove")
        /\ \A r \in Scripts \ {s} : script'[r] = Absent
    BY <1>2, ScriptStepShape, ProcessType DEF ScriptStep, SoloInv, ShellTypeOK
  <2> SUFFICES /\ IF backup' # Absent THEN backup' = users ELSE reg' = users
               /\ At(s, "save")' => script'[s].read = users
               /\ \A n \in Names : Written(s, n)' => reg'[n] = users[n]
               /\ At(s, "remove") => reg' = users
    BY <2>0 DEF OriginalInv, At, Written
  <2> USE DEF At
  <2>1. CASE ReadSettings(s)
    <3>1. CASE backup # Absent
      <4>1. script'[s] = [pc |-> "ProxyEnable", read |-> Absent]
        BY <2>1, <3>1 DEF ReadSettings, ShellTypeOK
      <4> QED
        BY <2>0, <2>1, <3>1, <4>1 DEF ReadSettings, OriginalInv, Written, Names
    <3>2. CASE backup = Absent
      <4>1. script'[s] = [pc |-> "save", read |-> reg]
        BY <2>1, <3>2 DEF ReadSettings, ShellTypeOK
      <4> QED
        BY <2>0, <2>1, <3>2, <4>1 DEF ReadSettings, OriginalInv, Written, Names
    <3> QED
      BY <3>1, <3>2
  <2>2. CASE SaveBackup(s)
    <3>1. script'[s] = [pc |-> "ProxyEnable", read |-> Absent]
      BY <2>2 DEF SaveBackup, ShellTypeOK
    <3> QED
      BY <2>0, <2>2, <3>1 DEF SaveBackup, OriginalInv, ScriptInv, Written, Names
  <2>3. CASE SetValue(s)
    <3>1. PICK n \in Names :
            /\ At(s, n)
            /\ reg' = [reg EXCEPT ![n] = IF script[s].read = Absent THEN Ours
                                            ELSE script[s].read[n]]
            /\ Goto(s, IF n = "ProxyOverride" /\ script[s].read # Absent
                            THEN "remove" ELSE After(n))
      BY <2>3 DEF SetValue
    <3> DEFINE pc == IF n = "ProxyOverride" /\ script[s].read # Absent
                        THEN "remove" ELSE After(n)
    <3>2. script'[s] = [pc |-> pc, read |-> script[s].read]
      BY <2>0, <3>1, GotoScript DEF ShellTypeOK, Names, After
    <3>3. backup' = backup /\ backup # Absent /\ backup = users
      BY <2>0, <2>3, <3>1 DEF SetValue, ScriptInv, OriginalInv
    <3>4. CASE script[s].read = Absent
      BY <2>0, <3>1, <3>2, <3>3, <3>4 DEF Written, After, Names
    <3>5. CASE script[s].read # Absent
      <4>1. script[s].read = users
        BY <2>0, <3>1, <3>3, <3>5 DEF ScriptInv
      <4>2. \A m \in Names : Written(s, m)' => m = n \/ Written(s, m)
        BY <2>0, <3>1, <3>2, <3>5 DEF Written, After, Names
      <4>3. \A m \in Names : Written(s, m)' => reg'[m] = users[m]
        BY <2>0, <3>1, <3>5, <4>1, <4>2 DEF OriginalInv, ShellTypeOK, Settings
      <4> QED
        BY <3>1, <3>2, <3>3, <4>3 DEF After, Names
    <3> QED
      BY <3>4, <3>5
  <2>4. CASE ReadBackup(s)
    <3>1. script'[s] = [pc |-> "ProxyEnable", read |-> backup]
      BY <2>4 DEF ReadBackup, ShellTypeOK
    <3> QED
      BY <2>0, <2>4, <3>1 DEF ReadBackup, OriginalInv, Written, Names
  <2>5. CASE RemoveBackup(s)
    <3>1. script'[s] = [pc |-> "notify", read |-> script[s].read]
      BY <2>5, GotoScript DEF RemoveBackup, ShellTypeOK
    <3>2. \A n \in Names : Written(s, n)
      BY <2>0, <2>5 DEF RemoveBackup, ScriptInv, Written
    <3>3. reg = users
      BY <2>0, <3>2 DEF OriginalInv, ShellTypeOK, Settings
    <3> QED
      BY <2>5, <3>1, <3>3 DEF RemoveBackup, Written, Names
  <2> QED
    BY <1>2, <2>1, <2>2, <2>3, <2>4, <2>5 DEF ScriptStep
<1>3. ASSUME NEW s \in Scripts, ScriptEnds(s) PROVE OriginalInv'
  <2>1. \A r \in Scripts : script'[r] = Absent
    BY <1>3 DEF ScriptEnds, ShellTypeOK, SoloInv
  <2> QED
    BY <1>3, <2>1 DEF OriginalInv, ScriptEnds, At, Written
<1>4. ASSUME NEW N \in {Names, {"ProxyEnable"}}, NEW u \in Choices, UserChanges(N, u)
      PROVE OriginalInv'
  <2>1. ~ changed /\ backup = Absent /\ \A s \in Scripts : script[s] = Absent
    BY <1>4 DEF UserChanges, Running, ShellTypeOK
  <2> QED
    BY <1>4, <2>1 DEF UserChanges, OriginalInv, At, Written
<1>5. CASE Outside
  BY <1>0, <1>5, OutsideType
<1>6. CASE UNCHANGED shellVars
  BY <1>0, <1>6 DEF shellVars
<1> QED
  BY <1>1, <1>2, <1>3, <1>4, <1>5, <1>6 DEF ShellNext, Outside, OriginalInv

\* The parts together are an invariant of the shell.
THEOREM DesktopInvariance == ShellSpec => []DesktopInv
<1>1. ShellInit => DesktopInv
  BY DesktopInit
<1>2. DesktopInv /\ [ShellNext]_shellVars => DesktopInv'
  BY TypeStep, SoloStep, OriginalStep DEF DesktopInv
<1> QED
  BY <1>1, <1>2, PTL DEF ShellSpec

\* Our values never stand in the registry without a backup of the user's, unless
\* two scripts ran at once: whatever number of enables and restores is run and
\* wherever they are killed (system-proxy.ps1).
THEOREM BackupForOurs == ShellSpec => []OursHaveBackup
<1>1. DesktopInv => OursHaveBackup
  BY DEF DesktopInv, SoloInv, OursHaveBackup
<1> QED
  BY <1>1, DesktopInvariance, PTL

\* A completed restore gives the user back what was there before the first of
\* the enables (system-proxy.ps1).
THEOREM RestoreIsExact == ShellSpec => []RestoreGivesOriginal
<1>1. DesktopInv => RestoreGivesOriginal
  BY DEF DesktopInv, OriginalInv, RestoreGivesOriginal
<1> QED
  BY <1>1, DesktopInvariance, PTL
=============================================================================
