------------------------ MODULE DesktopBridgeProofs ------------------------
(***************************************************************************)
(* Proofs about DesktopBridge, for any number of requests and helpers: the *)
(* line that settles an input is its own, and what the agent gave up       *)
(* before the tray took it is never carried out.                           *)
(***************************************************************************)
EXTENDS DesktopBridge, TLAPS

\* A helper has one input in its pipes at most, read or not; at the current
\* one it is the pending input, and what is in a stdout was performed.
LineInv ==
    \A h \in Helpers :
        /\ stdin[h] = <<>> \/ stdout[h] = <<>>
        /\ Len(stdin[h]) <= 1 /\ Len(stdout[h]) <= 1
        /\ h > started => stdin[h] = <<>> /\ stdout[h] = <<>>
        /\ stdout[h] # <<>> => Head(stdout[h]) \in performed
        /\ h = helper /\ stdin[h] # <<>> => pending = Head(stdin[h])
        /\ h = helper /\ stdout[h] # <<>> => pending = Head(stdout[h])

\* What was said of a job, and what the agent buffers of it, is true of it.
ReplyInv ==
    /\ job = None => result = None
    /\ result \in {None, "picture", "error"} \/ (result = job /\ job \in performed)
    /\ \A r \in Requests :
        /\ box[r] \in {None, "picture", "error"} \/ (box[r] = r /\ r \in performed)
        /\ req[r] = "ok" => box[r] \notin {None, "error"}

\* The request has not come to the tray.
Untouched(r) ==
    /\ r # job /\ r # pending /\ r \notin performed
    /\ \A h \in Helpers : stdin[h] # <<>> => Head(stdin[h]) # r

TakenInv ==
    \A r \in Requests :
        /\ r \in expired => req[r] = "failed" /\ r \notin waiting
        /\ req[r] \in {"idle", "queuing", "queued"} \/ r \in expired => Untouched(r)

IndInv == TypeOK /\ LineInv /\ ReplyInv /\ TakenInv

LEMMA InitIndInv ==
    ASSUME Init
    PROVE  IndInv
<1> USE DesktopBridgeConstants DEF DesktopBridgeConstants, Init
<1>1. TypeOK
  <2>1. helper \in 0..started /\ started \in 0..MaxHelpers
    OBVIOUS
  <2>2. stdin \in [Helpers -> Seq(Inputs)] /\ stdout \in [Helpers -> Seq(Inputs)]
    OBVIOUS
  <2>3. queue \in Seq(Requests) /\ Len(queue) <= MaxQueue
    OBVIOUS
  <2> QED
    BY <2>1, <2>2, <2>3 DEF TypeOK
<1>2. LineInv /\ ReplyInv
  BY DEF LineInv, ReplyInv, Helpers
<1>3. TakenInv
  BY DEF TakenInv, Untouched
<1> QED
  BY <1>1, <1>2, <1>3 DEF IndInv

-----------------------------------------------------------------------------
(* Pipes that hold one input.                                              *)

LEMMA TakeLast ==
    ASSUME NEW S, NEW q \in Seq(S), q # <<>>
    PROVE  /\ Head(q) \in S /\ Tail(q) \in Seq(S)
           /\ Len(q) <= 1 => Tail(q) = <<>>
OBVIOUS

LEMMA PutFirst ==
    ASSUME NEW S, NEW w \in S
    PROVE  /\ Append(<<>>, w) \in Seq(S) /\ Append(<<>>, w) # <<>>
           /\ Len(Append(<<>>, w)) = 1 /\ Head(Append(<<>>, w)) = w
OBVIOUS

\* What Input does to the pipes: it writes to one that is empty.
LEMMA InputShape ==
    ASSUME TypeOK, LineInv, NEW w \in Inputs, Input(w)
    PROVE  \E h \in Helpers :
             /\ helper' = h /\ started' \in 0..MaxHelpers /\ h <= started'
             /\ started <= started' /\ running' \subseteq 1..started' /\ running \subseteq running'
             /\ h # helper => stdin[h] = <<>> /\ stdout[h] = <<>>
             /\ \/ pending # None /\ pending' = pending /\ stdin' = stdin
                \/ pending = None /\ pending' = w /\ stdin' = stdin
                   /\ stdin[h] = <<>> /\ stdout[h] = <<>>
                \/ pending = None /\ pending' = w /\ stdin[h] = <<>> /\ stdout[h] = <<>>
                   /\ stdin' = [stdin EXCEPT ![h] = Append(<<>>, w)]
<1> DEFINE h == IF helper = 0 THEN started + 1 ELSE helper
<1>1. h \in Helpers /\ helper' = h
  BY DEF Input
<1>2. /\ started' \in 0..MaxHelpers /\ h <= started' /\ started <= started'
      /\ running' \subseteq 1..started' /\ running \subseteq running'
  BY DEF Input, TypeOK, Helpers
<1>3. h # helper => stdin[h] = <<>> /\ stdout[h] = <<>>
  BY <1>1 DEF TypeOK, LineInv, Helpers
<1>4. pending = None => stdin[h] = <<>> /\ stdout[h] = <<>>
  <2> SUFFICES ASSUME pending = None, h = helper
               PROVE  stdin[h] = <<>> /\ stdout[h] = <<>>
    BY <1>3
  <2>1. \A x \in Inputs : x # None
    BY DesktopBridgeConstants DEF DesktopBridgeConstants, Inputs
  <2>2. /\ stdin[h] # <<>> => Head(stdin[h]) \in Inputs
        /\ stdout[h] # <<>> => Head(stdout[h]) \in Inputs
    BY <1>1, TakeLast DEF TypeOK
  <2> QED
    BY <1>1, <2>1, <2>2 DEF LineInv
<1>5. \/ pending # None /\ pending' = pending /\ stdin' = stdin
      \/ pending = None /\ pending' = w /\ stdin' = stdin
      \/ pending = None /\ pending' = w /\ stdin' = [stdin EXCEPT ![h] = Append(<<>>, w)]
  BY <1>1, <1>4 DEF Input
<1> HIDE DEF h
<1> QED
  BY <1>1, <1>2, <1>3, <1>4, <1>5

-----------------------------------------------------------------------------
(* The steps.                                                              *)

\* The steps of the agent: no pipe changes, nothing is performed.
LEMMA AgentStep ==
    ASSUME IndInv, NEW r \in Requests,
           \/ RequestBegins(r) \/ RequestQueued(r)
           \/ RequestTimeout(r) \/ RequestAnswered(r)
    PROVE  IndInv'
<1> USE DEF IndInv, tray, helpers
<1>1. UNCHANGED <<tray, helpers, box>>
  BY DEF RequestBegins, RequestQueued, RequestTimeout, RequestAnswered
<1>2. LineInv'
  BY <1>1 DEF LineInv
<1>3. CASE RequestBegins(r)
  BY <1>1, <1>2, <1>3 DEF RequestBegins, TypeOK, ReplyInv, TakenInv, Untouched
<1>4. CASE RequestQueued(r)
  <2>1. queue' \in Seq(Requests) /\ Len(queue') <= MaxQueue
    BY <1>4, DesktopBridgeConstants DEF RequestQueued, TypeOK, DesktopBridgeConstants
  <2>2. TypeOK'
    BY <1>1, <1>4, <2>1 DEF RequestQueued, TypeOK
  <2> QED
    BY <1>1, <1>2, <1>4, <2>2 DEF RequestQueued, TypeOK, ReplyInv, TakenInv, Untouched
<1>5. CASE RequestTimeout(r)
  BY <1>1, <1>2, <1>5 DEF RequestTimeout, TypeOK, ReplyInv, TakenInv, Untouched
<1>6. CASE RequestAnswered(r)
  <2>1. TypeOK'
    BY <1>1, <1>6 DEF RequestAnswered, TypeOK
  <2>2. ReplyInv'
    BY <1>1, <1>6 DEF RequestAnswered, TypeOK, ReplyInv
  <2>3. TakenInv'
    BY <1>1, <1>6 DEF RequestAnswered, TypeOK, TakenInv, Untouched
  <2> QED
    BY <1>2, <2>1, <2>2, <2>3
<1> QED
  BY <1>3, <1>4, <1>5, <1>6

\* A job nobody waits for is skipped; one that is taken has not expired.
LEMMA TakeStep ==
    ASSUME IndInv, Take
    PROVE  IndInv'
<1> USE DEF IndInv, helpers
<1>1. Head(queue) \in Requests /\ Tail(queue) \in Seq(Requests) /\ Len(Tail(queue)) <= MaxQueue
  BY DesktopBridgeConstants DEF Take, TypeOK, DesktopBridgeConstants
<1>2. LineInv'
  BY DEF Take, LineInv
<1>3. CASE Head(queue) \in waiting
  <2>1. job = None /\ job' = Head(queue) /\ req' = [req EXCEPT ![Head(queue)] = "taken"]
        /\ Head(queue) \notin expired
    BY <1>1, <1>3 DEF Take, TakenInv
  <2>2. TypeOK'
    BY <1>1, <2>1 DEF Take, TypeOK
  <2>3. ReplyInv'
    BY <1>1, <2>1 DEF Take, TypeOK, ReplyInv
  <2>4. TakenInv'
    BY <1>1, <2>1 DEF Take, TypeOK, TakenInv, Untouched
  <2> QED
    BY <1>2, <2>2, <2>3, <2>4
<1>4. CASE Head(queue) \notin waiting
  <2>1. UNCHANGED <<job, req>>
    BY <1>4 DEF Take
  <2> QED
    BY <1>1, <1>2, <2>1 DEF Take, TypeOK, ReplyInv, TakenInv, Untouched
<1> QED
  BY <1>3, <1>4

\* Input, of a job or a release.
LEMMA InputStep ==
    ASSUME IndInv, NEW w \in Inputs, Input(w), w = job \/ w = Release, w # None,
           job # None \/ w = Release, pending = None \/ w = job,
           UNCHANGED <<agent, job, stopped, locked, ended, stdout, held, performed>>
    PROVE  IndInv'
<1> USE DEF IndInv, agent
<1> PICK h \in Helpers :
       /\ helper' = h /\ started' \in 0..MaxHelpers /\ h <= started'
       /\ started <= started' /\ running' \subseteq 1..started' /\ running \subseteq running'
       /\ h # helper => stdin[h] = <<>> /\ stdout[h] = <<>>
       /\ \/ pending # None /\ pending' = pending /\ stdin' = stdin
          \/ pending = None /\ pending' = w /\ stdin' = stdin
             /\ stdin[h] = <<>> /\ stdout[h] = <<>>
          \/ pending = None /\ pending' = w /\ stdin[h] = <<>> /\ stdout[h] = <<>>
             /\ stdin' = [stdin EXCEPT ![h] = Append(<<>>, w)]
  BY InputShape
<1>1. result' \in {result, "error"} /\ (result' # result => job # None)
  BY DesktopBridgeConstants DEF Input, DesktopBridgeConstants
<1>2. /\ Append(<<>>, w) \in Seq(Inputs) /\ Append(<<>>, w) # <<>>
      /\ Len(Append(<<>>, w)) = 1 /\ Head(Append(<<>>, w)) = w
  BY PutFirst
<1>3. TypeOK'
  <2>1. stdin' \in [Helpers -> Seq(Inputs)]
    BY <1>2 DEF TypeOK
  <2>2. helper' \in 0..started' /\ ended \subseteq 1..started'
    BY DEF TypeOK, Helpers
  <2>3. pending' \in Inputs \cup {None} /\ result' \in Results \cup {None}
    BY <1>1 DEF TypeOK, Results
  <2> QED
    BY <2>1, <2>2, <2>3 DEF TypeOK
<1>4. LineInv'
  <2>1. \A k \in Helpers : k > started' => k > started /\ k # h
    BY DEF TypeOK, Helpers
  <2>2. \A k \in Helpers \ {h} : stdin'[k] = stdin[k]
    BY DEF TypeOK
  <2>3. stdin'[h] = stdin[h] \/ (stdin'[h] = Append(<<>>, w) /\ pending' = w)
    BY DEF TypeOK
  <2>4. Len(<<>>) = 0
    OBVIOUS
  <2>5. ASSUME NEW k \in Helpers, k # h
        PROVE  /\ stdin'[k] = <<>> \/ stdout'[k] = <<>>
               /\ Len(stdin'[k]) <= 1 /\ Len(stdout'[k]) <= 1
               /\ k > started' => stdin'[k] = <<>> /\ stdout'[k] = <<>>
               /\ stdout'[k] # <<>> => Head(stdout'[k]) \in performed'
               /\ k # helper'
    BY <2>1, <2>2, <2>5 DEF LineInv
  <2>6. /\ stdin'[h] = <<>> \/ stdout'[h] = <<>>
        /\ Len(stdin'[h]) <= 1 /\ Len(stdout'[h]) <= 1
        /\ ~ (h > started')
        /\ stdout'[h] # <<>> => Head(stdout'[h]) \in performed'
        /\ stdin'[h] # <<>> => pending' = Head(stdin'[h])
        /\ stdout'[h] # <<>> => pending' = Head(stdout'[h])
    <3>1. ~ (h > started')
      BY DEF TypeOK, Helpers
    <3>2. CASE stdin[h] = <<>> /\ stdout[h] = <<>>
      <4>1. stdout' = stdout
        OBVIOUS
      <4>2. CASE stdin'[h] = stdin[h]
        BY <2>4, <3>1, <3>2, <4>1, <4>2
      <4>3. CASE stdin'[h] = Append(<<>>, w) /\ pending' = w
        BY <1>2, <2>4, <3>1, <3>2, <4>1, <4>3
      <4> QED
        BY <2>3, <4>2, <4>3
    <3>3. CASE ~ (stdin[h] = <<>> /\ stdout[h] = <<>>)
      BY <3>1, <3>3 DEF LineInv
    <3> QED
      BY <3>2, <3>3
  <2> QED
    BY <2>5, <2>6 DEF LineInv
<1>5. ReplyInv'
  BY <1>1 DEF ReplyInv
<1>6. TakenInv'
  <2>1. ASSUME NEW r \in Requests, Untouched(r) PROVE Untouched(r)'
    <3>1. r # w
      BY <2>1, DesktopBridgeConstants DEF Untouched, DesktopBridgeConstants
    <3>2. \A k \in Helpers : stdin'[k] = stdin[k] \/ stdin'[k] = Append(<<>>, w)
      BY DEF TypeOK
    <3> QED
      BY <1>2, <2>1, <3>1, <3>2 DEF Untouched
  <2> QED
    BY <2>1 DEF TakenInv
<1> QED
  BY <1>3, <1>4, <1>5, <1>6

\* The loop of the tray, apart from inputs.
LEMMA TrayLoopStep ==
    ASSUME IndInv, JobRefused \/ JobFrame \/ SpawnFails \/ Reply \/ ReplyFails
    PROVE  IndInv'
<1> USE DEF IndInv, agent, helpers
<1>1. CASE JobRefused \/ JobFrame
  <2>1. UNCHANGED <<agent, job, stopped, locked, helper, pending, helpers>>
        /\ job # None /\ result' \in {"picture", "error"}
    BY <1>1 DEF JobRefused, JobFrame
  <2> QED
    BY <2>1 DEF TypeOK, Results, LineInv, ReplyInv, TakenInv, Untouched
<1>2. CASE SpawnFails
  <2>1. \A h \in Helpers : h # helper
    BY <1>2 DEF SpawnFails, Helpers
  <2>2. \A r \in Requests : r # None
    BY DesktopBridgeConstants DEF DesktopBridgeConstants
  <2>3. TypeOK' /\ ReplyInv'
    BY <1>2 DEF SpawnFails, TypeOK, Results, ReplyInv
  <2>4. LineInv'
    BY <1>2, <2>1 DEF SpawnFails, LineInv
  <2>5. TakenInv'
    BY <1>2, <2>2 DEF SpawnFails, TakenInv, Untouched
  <2> QED
    BY <2>3, <2>4, <2>5
<1>3. CASE Reply \/ ReplyFails
  <2>1. /\ job' = None /\ result' = None /\ job \in Requests
        /\ UNCHANGED <<req, waiting, queue, expired, stopped, locked, helper, pending, helpers>>
        /\ box' = box \/ (box' = [box EXCEPT ![job] = result] /\ box[job] = None)
    BY <1>3 DEF Reply, ReplyFails, TypeOK
  <2>2. TypeOK'
    BY <2>1 DEF TypeOK
  <2>3. LineInv'
    BY <2>1 DEF LineInv
  <2>4. ReplyInv'
    BY <2>1 DEF TypeOK, ReplyInv
  <2>5. TakenInv'
    BY <2>1, DesktopBridgeConstants DEF TakenInv, Untouched, DesktopBridgeConstants
  <2> QED
    BY <2>2, <2>3, <2>4, <2>5
<1> QED
  BY <1>1, <1>2, <1>3

\* Quitting and the lock of the screen.
LEMMA TrayEndsStep ==
    ASSUME IndInv, Stop \/ TrayExits \/ LockScreen \/ UnlockScreen
    PROVE  IndInv'
<1> USE DEF IndInv, agent, helpers
<1>1. \A h \in Helpers : h # 0
  BY DEF Helpers
<1>2. \A r \in Requests : r # None
  BY DesktopBridgeConstants DEF DesktopBridgeConstants
<1>3. ended' \subseteq 1..started
  <2>1. helper # 0 => helper \in 1..started
    BY DEF TypeOK
  <2>2. ASSUME EndStdin PROVE ended' \subseteq 1..started
    BY <2>1, <2>2 DEF EndStdin, TypeOK
  <2> QED
    BY <2>2 DEF Stop, TrayExits, LockScreen, UnlockScreen, TypeOK
<1>4. CASE Stop \/ UnlockScreen
  <2>1. UNCHANGED <<agent, job, result, helper, pending, started, stdin, stdout, running,
                    held, performed>>
        /\ stopped' \in BOOLEAN /\ locked' \in BOOLEAN
    BY <1>4 DEF Stop, UnlockScreen, TypeOK
  <2>2. TypeOK'
    BY <1>3, <2>1 DEF TypeOK
  <2>3. LineInv' /\ ReplyInv' /\ TakenInv'
    BY <2>1 DEF LineInv, ReplyInv, TakenInv, Untouched
  <2> QED
    BY <2>2, <2>3
<1>5. CASE TrayExits
  <2>1. TypeOK'
    BY <1>3, <1>5 DEF TrayExits, TypeOK
  <2>2. LineInv' /\ ReplyInv' /\ TakenInv'
    BY <1>1, <1>2, <1>5 DEF TrayExits, LineInv, ReplyInv, TakenInv, Untouched
  <2> QED
    BY <2>1, <2>2
<1>6. CASE LockScreen
  <2>1. TypeOK'
    BY <1>3, <1>6 DEF LockScreen, TypeOK
  <2>2. LineInv' /\ ReplyInv' /\ TakenInv'
    BY <1>1, <1>2, <1>6 DEF LockScreen, LineInv, ReplyInv, TakenInv, Untouched
  <2> QED
    BY <2>1, <2>2
<1> QED
  BY <1>4, <1>5, <1>6

\* inputMain performs the only input in its pipe.
LEMMA WorksStep ==
    ASSUME IndInv, NEW h \in Helpers, HelperWorks(h)
    PROVE  IndInv'
<1> USE DEF IndInv, agent, tray
<1> DEFINE w == Head(stdin[h])
<1>1. w \in Inputs /\ Tail(stdin[h]) = <<>> /\ stdout[h] = <<>>
  BY TakeLast DEF HelperWorks, LineInv, TypeOK
<1>2. /\ Append(<<>>, w) \in Seq(Inputs) /\ Append(<<>>, w) # <<>>
      /\ Len(Append(<<>>, w)) = 1 /\ Head(Append(<<>>, w)) = w
  BY <1>1, PutFirst
<1> HIDE DEF w
<1>3. /\ stdin[h] # <<>> /\ stdin' = [stdin EXCEPT ![h] = <<>>]
      /\ stdout' = [stdout EXCEPT ![h] = Append(<<>>, w)]
      /\ performed' = performed \cup {w}
      /\ held' \subseteq running /\ w = Head(stdin[h])
  BY <1>1 DEF HelperWorks, HeldAfter, TypeOK, w
<1>4. TypeOK'
  <2>1. stdin' \in [Helpers -> Seq(Inputs)] /\ stdout' \in [Helpers -> Seq(Inputs)]
    BY <1>2, <1>3 DEF TypeOK
  <2> QED
    BY <1>1, <1>3, <2>1 DEF HelperWorks, TypeOK
<1>5. LineInv'
  <2>1. /\ stdin'[h] = <<>> /\ stdout'[h] = Append(<<>>, w)
        /\ \A k \in Helpers \ {h} : stdin'[k] = stdin[k] /\ stdout'[k] = stdout[k]
    BY <1>3 DEF TypeOK
  <2>2. Len(<<>>) = 0
    OBVIOUS
  <2> QED
    BY <1>2, <1>3, <2>1, <2>2 DEF HelperWorks, LineInv
<1>6. ReplyInv'
  BY <1>3 DEF HelperWorks, ReplyInv
<1>7. TakenInv'
  <2>1. ASSUME NEW r \in Requests, Untouched(r) PROVE Untouched(r)'
    BY <1>3, <2>1 DEF HelperWorks, Untouched, TypeOK
  <2> QED
    BY <2>1 DEF HelperWorks, TakenInv
<1> QED
  BY <1>4, <1>5, <1>6, <1>7

\* A line of the current helper is the reply to the pending input.
LEMMA ReadLineStep ==
    ASSUME IndInv, NEW h \in Helpers, ReadLine(h)
    PROVE  IndInv'
<1> USE DEF IndInv, agent
<1>1. /\ stdout[h] # <<>> /\ Head(stdout[h]) \in Inputs /\ Tail(stdout[h]) = <<>>
      /\ Head(stdout[h]) \in performed /\ stdin[h] = <<>>
  BY TakeLast DEF ReadLine, LineInv, TypeOK
<1>2. stdout' = [stdout EXCEPT ![h] = <<>>]
  BY <1>1 DEF ReadLine
<1>3. /\ pending' \in {pending, None} /\ (h = helper => pending' = None)
      /\ result' = result \/ (job # None /\ result' \in {job, "error"} /\ pending = job /\ h = helper)
  <2>1. CASE h = helper /\ pending # None
    <3>1. pending = Head(stdout[h])
      BY <1>1, <2>1 DEF LineInv
    <3> QED
      BY <2>1, <3>1 DEF ReadLine, Settle
  <2>2. CASE ~ (h = helper /\ pending # None)
    BY <2>2 DEF ReadLine
  <2> QED
    BY <2>1, <2>2
<1>4. result' = result \/ (job # None /\ result' \in {job, "error"} /\ job \in performed)
  BY <1>1, <1>3 DEF LineInv
<1>5. TypeOK'
  <2>1. stdout' \in [Helpers -> Seq(Inputs)]
    BY <1>2 DEF TypeOK
  <2>2. result' \in Results \cup {None}
    BY <1>3 DEF TypeOK, Results, Inputs
  <2> QED
    BY <1>3, <2>1, <2>2 DEF ReadLine, TypeOK
<1>6. LineInv'
  <2>1. /\ stdout'[h] = <<>> /\ \A k \in Helpers \ {h} : stdout'[k] = stdout[k]
    BY <1>2 DEF TypeOK
  <2>2. Len(<<>>) = 0
    OBVIOUS
  <2>3. h # helper => pending' = pending
    BY DEF ReadLine
  <2> QED
    BY <1>1, <2>1, <2>2, <2>3 DEF ReadLine, LineInv
<1>7. ReplyInv'
  BY <1>4 DEF ReadLine, ReplyInv
<1>8. TakenInv'
  BY <1>3, DesktopBridgeConstants DEF ReadLine, TakenInv, Untouched, DesktopBridgeConstants
<1> QED
  BY <1>5, <1>6, <1>7, <1>8

\* A helper exits or is killed: what it has not read is gone.
LEMMA ExitStep ==
    ASSUME IndInv, InputTimeout \/ \E h \in Helpers : HelperExits(h)
    PROVE  IndInv'
<1> USE DEF IndInv, agent
<1>1. /\ UNCHANGED <<agent, job, stopped, locked, started, ended, stdout, performed>>
      /\ running' \subseteq running /\ held' \subseteq running'
      /\ DOMAIN stdin' = Helpers
      /\ stdin' = [k \in Helpers |-> stdin'[k]]
      /\ \A k \in Helpers : stdin'[k] \in {stdin[k], <<>>}
  BY DEF InputTimeout, HelperExits, TypeOK
<1>2. \/ helper' = 0 /\ pending' = None /\ (result' = result \/ (job # None /\ result' = "error"))
      \/ UNCHANGED <<helper, pending, result>>
  BY DEF InputTimeout, HelperExits, Settle
<1>3. \A h \in Helpers : h # 0
  BY DEF Helpers
<1>4. TypeOK'
  <2>1. stdin' \in [Helpers -> Seq(Inputs)]
    <3>1. \A k \in Helpers : stdin[k] \in Seq(Inputs) /\ <<>> \in Seq(Inputs)
      BY DEF TypeOK
    <3>2. \A k \in Helpers : stdin'[k] \in Seq(Inputs)
      BY <1>1, <3>1
    <3> QED
      BY <1>1, <3>2
  <2>2. helper' \in 0..started /\ result' \in Results \cup {None} /\ pending' \in Inputs \cup {None}
    BY <1>2 DEF TypeOK, Results
  <2> QED
    BY <1>1, <2>1, <2>2 DEF TypeOK
<1>5. LineInv'
  <2>1. Len(<<>>) = 0
    OBVIOUS
  <2> QED
    BY <1>1, <1>2, <1>3, <2>1 DEF LineInv
<1>6. ReplyInv'
  BY <1>1, <1>2 DEF ReplyInv
<1>7. TakenInv'
  BY <1>1, <1>2, DesktopBridgeConstants DEF TakenInv, Untouched, DesktopBridgeConstants
<1> QED
  BY <1>4, <1>5, <1>6, <1>7

\* The parts together are an invariant of agent, tray and helpers.
THEOREM Invariance == Spec => []IndInv
<1>1. Init => IndInv
  BY InitIndInv
<1>2. IndInv /\ [Next]_vars => IndInv'
  <2> SUFFICES ASSUME IndInv, [Next]_vars PROVE IndInv'
    OBVIOUS
  <2>1. CASE JobInput
    <3>1. job \in Inputs /\ job # None /\ Input(job)
      BY <2>1 DEF JobInput, IndInv, TypeOK, Inputs
    <3> QED
      BY <2>1, <3>1, InputStep DEF JobInput
  <2>2. CASE ReleaseTimer
    <3>1. Release \in Inputs /\ Release # None /\ Input(Release) /\ pending = None
      BY <2>2, DesktopBridgeConstants DEF ReleaseTimer, Inputs, DesktopBridgeConstants
    <3> QED
      BY <2>2, <3>1, InputStep DEF ReleaseTimer
  <2>3. CASE UNCHANGED vars
    BY <2>3 DEF IndInv, vars, agent, tray, helpers, TypeOK, LineInv, ReplyInv, TakenInv, Untouched
  <2> QED
    BY <2>1, <2>2, <2>3, AgentStep, TakeStep, TrayLoopStep, TrayEndsStep, WorksStep,
       ReadLineStep, ExitStep DEF Next, TrayStep
<1> QED
  BY <1>1, <1>2, PTL DEF Spec

\* An input that desktopRequest reports as done was performed itself, although
\* the lines of the helpers carry no id and helpers are replaced at any time.
THEOREM DoneIsPerformed == Spec => []DoneMeansPerformed
<1>1. IndInv => DoneMeansPerformed
  BY DEF IndInv, ReplyInv, DoneMeansPerformed
<1> QED
  BY <1>1, Invariance, PTL

\* A request that expired before the tray took it is never carried out
\* (desktopNext), however late the tray comes.
THEOREM ExpiredIsDropped == Spec => []ExpiredNotPerformed
<1>1. IndInv => ExpiredNotPerformed
  BY DEF IndInv, TypeOK, TakenInv, Untouched, ExpiredNotPerformed
<1> QED
  BY <1>1, Invariance, PTL
=============================================================================
