-------------------------- MODULE ExitPolicyProofs --------------------------
(***************************************************************************)
(* Proofs about ExitPolicy, for every set of sources, exits, policies and  *)
(* connections and every number of crashes.                                *)
(***************************************************************************)
EXTENDS ExitPolicy, TLAPS

\* A connection under way has a source; dialPolicy falls back to a direct dial
\* only for a copied policy that says so, and that policy was acknowledged.
DialInv ==
    \A c \in Conns :
        /\ pc[c] # "idle" => dial[c].src \in Sources
        /\ pc[c] # "settle" => dial[c].result = "NONE"
        /\ dial[c].onFailure = "direct" => dial[c].granted
        /\ pc[c] = "direct" => dial[c].onFailure = "direct"
        /\ dial[c].result = "DIRECT" => dial[c].granted

\* A success that setActive has not recorded yet, and the exit in the file, have
\* carried a connection too.
CarriedInv ==
    /\ ActiveWasCarried
    /\ \A s \in Sources : diskActive[s] # "NONE" => diskActive[s] \in carried[s]
    /\ \A c \in Conns :
        pc[c] = "settle" /\ dial[c].result \in Exits \cup {"DIRECT"} =>
            dial[c].result \in carried[dial[c].src]

IndInv == TypeOK /\ DialInv /\ PolicyDurable /\ CarriedInv

LEMMA InitIndInv ==
    ASSUME Init
    PROVE  IndInv
<1> USE ExitPolicyConstants DEF ExitPolicyConstants, Init, NoDial
<1>1. TypeOK
  BY DEF TypeOK, Dials, Results, Actives
<1>2. DialInv /\ PolicyDurable /\ CarriedInv
  BY DEF DialInv, PolicyDurable, CarriedInv, ActiveWasCarried
<1> QED
  BY <1>1, <1>2 DEF IndInv

Copies == [exit : Exits, port : Ports \cup {NoPort}]

\* The variables of a dial that has not begun, of one after an attempt that
\* failed, and of one whose result is known.
LEMMA NoDialType == NoDial \in Dials
BY DEF NoDial, Dials, Results

LEMMA AttemptType ==
    ASSUME NEW d \in Dials, d.exits # <<>>, NEW spent \in 0..d.left
    PROVE  /\ Head(d.exits).exit \in Exits
           /\ Tried(d, spent) \in Dials
           /\ \A f \in {"src", "onFailure", "result", "granted"} : Tried(d, spent)[f] = d[f]
<1>1. d.exits \in Seq(Copies) /\ d.left \in Nat
  BY DEF Dials, Copies
<1>2. Head(d.exits) \in Copies /\ Tail(d.exits) \in Seq(Copies) /\ d.left - spent \in Nat
  BY <1>1
<1> DEFINE n == d.silent + (IF spent > 0 THEN 1 ELSE 0)
<1>3. n \in Nat
  BY DEF Dials
<1> HIDE DEF n
<1>4. Tried(d, spent) = [d EXCEPT !.exits = Tail(@), !.left = @ - spent,
                                  !.silent = n, !.starved = @ \/ d.left = 0]
  BY DEF Tried, n
<1> DEFINE rest == Tail(d.exits)  left == d.left - spent  starved == d.starved \/ d.left = 0
<1>5. rest \in Seq(Copies) /\ left \in Nat /\ starved \in BOOLEAN
  BY <1>2 DEF Dials
<1>6. Tried(d, spent) = [d EXCEPT !.exits = rest, !.left = left, !.silent = n,
                                  !.starved = starved]
  BY <1>4 DEF Dials
<1> HIDE DEF rest, left, starved
<1>7. Tried(d, spent) \in Dials
  BY <1>3, <1>5, <1>6 DEF Dials, Copies
<1>8. \A f \in {"src", "onFailure", "result", "granted"} : Tried(d, spent)[f] = d[f]
  BY <1>6 DEF Dials
<1>9. Head(d.exits).exit \in Exits
  BY <1>2 DEF Copies
<1> QED
  BY <1>7, <1>8, <1>9

LEMMA WaitType ==
    ASSUME NEW c \in Conns, dial[c] \in Dials
    PROVE  Wait(c) \in 0..dial[c].left /\ 0 \in 0..dial[c].left
BY DEF Wait, AttemptTimeout, Dials

LEMMA FailedType ==
    ASSUME NEW d \in Dials
    PROVE  Failed(d) \in Dials
BY DEF Failed, Dials, Results

LEMMA SettleType ==
    ASSUME dial \in [Conns -> Dials], NEW c \in Conns, NEW r \in Results, Settle(c, r)
    PROVE  dial' \in [Conns -> Dials]
<1>1. [dial[c] EXCEPT !.result = r] \in Dials
  BY DEF Dials
<1> QED
  BY <1>1 DEF Settle

\* Types.
LEMMA TypeStep ==
    ASSUME TypeOK, DialInv, [Next]_vars
    PROVE  TypeOK'
<1> USE DEF TypeOK, memory, disk
<1>0. \A c \in Conns : dial[c] \in Dials
  OBVIOUS
<1>1. ASSUME NEW s \in Sources, NEW p \in Policies, PutPolicy(s, p) PROVE TypeOK'
  BY <1>1 DEF PutPolicy, SaveState, Actives
<1>2. ASSUME NEW d \in Edited, NEW q \in Ports \cup {NoPort}, UpdateDevice(d, q)
      PROVE TypeOK'
  BY <1>2 DEF UpdateDevice, SaveState
<1>3. ASSUME Persist PROVE TypeOK'
  BY <1>3 DEF Persist, SaveState
<1>4. ASSUME NEW c \in Conns, NEW s \in Sources, NEW entry \in Entries,
             DialBegin(c, s, entry)
      PROVE TypeOK'
  <2> DEFINE p == PolicyOf(s)
             copy == [i \in 1..Len(p.exits) |-> [exit |-> p.exits[i], port |-> port[p.exits[i]]]]
  <2>1. p.exits \in Seq(Exits) /\ p.onFailure \in {"block", "direct"}
    BY ExitPolicyConstants DEF ExitPolicyConstants, PolicyOf
  <2>2. Deadline(entry) \in Nat
    BY ExitPolicyConstants DEF ExitPolicyConstants, Deadline
  <2>3. copy \in Seq([exit : Exits, port : Ports \cup {NoPort}])
    BY <2>1
  <2>4. dial' \in [Conns -> Dials]
    <3> HIDE DEF p, copy
    <3> QED
    BY <1>4, <2>1, <2>2, <2>3 DEF DialBegin, Dials, Results, p, copy
  <2> QED
    BY <1>4, <2>4 DEF DialBegin
<1>5. ASSUME NEW c \in Conns, AttemptSucceeds(c) PROVE TypeOK'
  <2>1. Head(dial[c].exits).exit \in Exits
    BY <1>5, <1>0, AttemptType, WaitType DEF AttemptSucceeds
  <2>2. dial' \in [Conns -> Dials]
    BY <1>5, <2>1, SettleType DEF AttemptSucceeds, Results
  <2>3. carried' \in [Sources -> SUBSET Actives]
    BY <1>5, <2>1 DEF AttemptSucceeds, Actives
  <2> QED
    BY <1>5, <2>2, <2>3 DEF AttemptSucceeds, Settle
<1>6. ASSUME NEW c \in Conns, AttemptFails(c) PROVE TypeOK'
  <2>1. PICK spent \in {0, Wait(c)} : dial' = [dial EXCEPT ![c] = Tried(dial[c], spent)]
    BY <1>6 DEF AttemptFails
  <2>2. spent \in 0..dial[c].left
    BY <1>0, WaitType
  <2>3. Tried(dial[c], spent) \in Dials
    BY <1>6, <1>0, <2>2, AttemptType DEF AttemptFails
  <2> QED
    BY <1>6, <2>1, <2>3 DEF AttemptFails
<1>7. ASSUME NEW c \in Conns, Exhausted(c) PROVE TypeOK'
  BY <1>7, SettleType DEF Exhausted, Settle, Results
<1>8. ASSUME NEW c \in Conns, DirectSucceeds(c) PROVE TypeOK'
  <2>1. dial' \in [Conns -> Dials]
    BY <1>8, SettleType DEF DirectSucceeds, Results
  <2>2. carried' \in [Sources -> SUBSET Actives]
    BY <1>8 DEF DirectSucceeds, Actives
  <2> QED
    BY <1>8, <2>1, <2>2 DEF DirectSucceeds, Settle
<1>9. ASSUME NEW c \in Conns, DirectFails(c) PROVE TypeOK'
  <2>1. dial' \in [Conns -> Dials]
    BY <1>9, <1>0, FailedType DEF DirectFails
  <2> QED
    BY <1>9, <2>1 DEF DirectFails
<1>10. ASSUME NEW c \in Conns, SetActive(c) PROVE TypeOK'
  <2>1. NoDial \in Dials
    BY NoDialType
  <2>2. ActiveAfter(c) \in Actives \/ dial[c].src \notin Sources
    BY DEF ActiveAfter, Dials, Results, Actives
  <2> QED
    BY <1>10, <2>1, <2>2 DEF SetActive
<1>11. ASSUME Crash PROVE TypeOK'
  <2>1. crashes' \in 0..MaxCrashes
    BY <1>11, ExitPolicyConstants DEF ExitPolicyConstants, Crash
  <2> QED
    BY <1>11, <2>1, NoDialType DEF Crash, Actives
<1>12. ASSUME Restart PROVE TypeOK'
  BY <1>12 DEF Restart
<1>13. CASE UNCHANGED vars
  BY <1>13 DEF vars
<1> QED
  BY <1>1, <1>2, <1>3, <1>4, <1>5, <1>6, <1>7, <1>8, <1>9, <1>10, <1>11, <1>12,
     <1>13 DEF Next, DialStep

\* The policy in memory is the acknowledged one, and so is the one in the file:
\* putPolicy takes its change back when it cannot be saved.
LEMMA PolicyStep ==
    ASSUME TypeOK, PolicyDurable, [Next]_vars
    PROVE  PolicyDurable'
<1> USE DEF PolicyDurable, memory, disk
<1>1. ASSUME NEW s \in Sources, NEW p \in Policies, PutPolicy(s, p) PROVE PolicyDurable'
  BY <1>1 DEF PutPolicy, SaveState, TypeOK
<1>2. ASSUME NEW d \in Edited, NEW q \in Ports \cup {NoPort}, UpdateDevice(d, q)
      PROVE PolicyDurable'
  BY <1>2 DEF UpdateDevice, SaveState
<1>3. ASSUME Persist PROVE PolicyDurable'
  BY <1>3 DEF Persist, SaveState
<1>4. ASSUME NEW c \in Conns, NEW s \in Sources, NEW entry \in Entries,
             DialBegin(c, s, entry)
      PROVE PolicyDurable'
  BY <1>4 DEF DialBegin
<1>5. ASSUME NEW c \in Conns, DialStep(c) PROVE PolicyDurable'
  BY <1>5 DEF DialStep, AttemptSucceeds, AttemptFails, Exhausted, DirectSucceeds,
              DirectFails, SetActive
<1>6. ASSUME Crash PROVE PolicyDurable'
  BY <1>6 DEF Crash
<1>7. ASSUME Restart PROVE PolicyDurable'
  BY <1>7 DEF Restart
<1>8. CASE UNCHANGED vars
  BY <1>8 DEF vars
<1> QED
  BY <1>1, <1>2, <1>3, <1>4, <1>5, <1>6, <1>7, <1>8 DEF Next

\* What a dial holds.  The copy of the policy is made from what was acknowledged
\* (PolicyDurable), and never changes.
LEMMA DialInvStep ==
    ASSUME TypeOK, DialInv, PolicyDurable, [Next]_vars
    PROVE  DialInv'
<1> USE DEF DialInv, memory, disk
<1>0. \A c \in Conns : dial[c] \in Dials
  BY DEF TypeOK
<1>1. ASSUME NEW s \in Sources, NEW p \in Policies, PutPolicy(s, p) PROVE DialInv'
  BY <1>1 DEF PutPolicy
<1>2. ASSUME NEW d \in Edited, NEW q \in Ports \cup {NoPort}, UpdateDevice(d, q)
      PROVE DialInv'
  BY <1>2 DEF UpdateDevice
<1>3. ASSUME Persist PROVE DialInv'
  BY <1>3 DEF Persist
<1>4. ASSUME NEW c \in Conns, NEW s \in Sources, NEW entry \in Entries,
             DialBegin(c, s, entry)
      PROVE DialInv'
  <2>1. PolicyOf(s).onFailure = "direct" => acked[s] # None /\ acked[s].onFailure = "direct"
    BY <1>4 DEF PolicyDurable, PolicyOf, DialBegin
  <2> QED
    BY <1>4, <2>1 DEF DialBegin, TypeOK
<1>5. ASSUME NEW c \in Conns, AttemptSucceeds(c) PROVE DialInv'
  <2>1. Head(dial[c].exits).exit # "DIRECT"
    BY <1>5, <1>0, AttemptType, WaitType, ExitPolicyConstants
       DEF AttemptSucceeds, ExitPolicyConstants
  <2> QED
    BY <1>5, <2>1 DEF AttemptSucceeds, Settle, TypeOK, Dials
<1>6. ASSUME NEW c \in Conns, AttemptFails(c) PROVE DialInv'
  <2>1. PICK spent \in {0, Wait(c)} : dial' = [dial EXCEPT ![c] = Tried(dial[c], spent)]
    BY <1>6 DEF AttemptFails
  <2>2. \A f \in {"src", "onFailure", "result", "granted"} :
           Tried(dial[c], spent)[f] = dial[c][f]
    BY <1>6, <1>0, AttemptType, WaitType DEF AttemptFails
  <2> QED
    BY <1>6, <2>1, <2>2 DEF AttemptFails, TypeOK
<1>7. ASSUME NEW c \in Conns, Exhausted(c) PROVE DialInv'
  <2>1. CASE dial[c].onFailure = "direct"
    BY <1>7, <2>1 DEF Exhausted, TypeOK
  <2>2. CASE dial[c].onFailure # "direct"
    <3>1. Settle(c, "BLOCKED") /\ pc[c] = "trying"
      BY <1>7, <2>2 DEF Exhausted
    <3> QED
      BY <3>1 DEF Settle, TypeOK, Dials
  <2> QED
    BY <2>1, <2>2
<1>8. ASSUME NEW c \in Conns, DirectSucceeds(c) PROVE DialInv'
  BY <1>8 DEF DirectSucceeds, Settle, TypeOK, Dials
<1>9. ASSUME NEW c \in Conns, DirectFails(c) PROVE DialInv'
  BY <1>9 DEF DirectFails, Failed, TypeOK, Dials
<1>10. ASSUME NEW c \in Conns, SetActive(c) PROVE DialInv'
  BY <1>10 DEF SetActive, NoDial, TypeOK
<1>11. ASSUME Crash PROVE DialInv'
  BY <1>11 DEF Crash, NoDial
<1>12. ASSUME Restart PROVE DialInv'
  BY <1>12 DEF Restart
<1>13. CASE UNCHANGED vars
  BY <1>13 DEF vars
<1> QED
  BY <1>1, <1>2, <1>3, <1>4, <1>5, <1>6, <1>7, <1>8, <1>9, <1>10, <1>11, <1>12,
     <1>13 DEF Next, DialStep

\* What the console will name: every place an exit is remembered in, on its way
\* from dialPolicy over setActive to the file and back, names one that carried.
LEMMA CarriedStep ==
    ASSUME TypeOK, DialInv, CarriedInv, [Next]_vars
    PROVE  CarriedInv'
<1> USE DEF CarriedInv, ActiveWasCarried, memory, disk
<1>0. \A c \in Conns : dial[c] \in Dials
  BY DEF TypeOK
<1>1. ASSUME NEW s \in Sources, NEW p \in Policies, PutPolicy(s, p) PROVE CarriedInv'
  BY <1>1 DEF PutPolicy, SaveState, TypeOK
<1>2. ASSUME NEW d \in Edited, NEW q \in Ports \cup {NoPort}, UpdateDevice(d, q)
      PROVE CarriedInv'
  BY <1>2 DEF UpdateDevice, SaveState
<1>3. ASSUME Persist PROVE CarriedInv'
  BY <1>3 DEF Persist, SaveState
<1>4. ASSUME NEW c \in Conns, NEW s \in Sources, NEW entry \in Entries,
             DialBegin(c, s, entry)
      PROVE CarriedInv'
  BY <1>4 DEF DialBegin, TypeOK
<1>5. ASSUME NEW c \in Conns, AttemptSucceeds(c) PROVE CarriedInv'
  BY <1>5, <1>0 DEF AttemptSucceeds, Settle, TypeOK, DialInv, Dials
<1>6. ASSUME NEW c \in Conns, AttemptFails(c) PROVE CarriedInv'
  BY <1>6 DEF AttemptFails, TypeOK
<1>7. ASSUME NEW c \in Conns, Exhausted(c) PROVE CarriedInv'
  <2>1. CASE dial[c].onFailure = "direct"
    BY <1>7, <2>1 DEF Exhausted, TypeOK
  <2>2. CASE dial[c].onFailure # "direct"
    <3>1. Settle(c, "BLOCKED") /\ UNCHANGED <<memory, disk, carried>>
      BY <1>7, <2>2 DEF Exhausted
    <3>2. "BLOCKED" \notin Exits
      BY ExitPolicyConstants DEF ExitPolicyConstants
    <3> QED
      BY <3>1, <3>2 DEF Settle, TypeOK, Dials
  <2> QED
    BY <2>1, <2>2
<1>8. ASSUME NEW c \in Conns, DirectSucceeds(c) PROVE CarriedInv'
  BY <1>8 DEF DirectSucceeds, Settle, TypeOK, DialInv, Dials
<1>9. ASSUME NEW c \in Conns, DirectFails(c) PROVE CarriedInv'
  <2>1. Failed(dial[c]).result = "FAILED" /\ "FAILED" \notin Exits
    BY <1>0, ExitPolicyConstants DEF Failed, Dials, ExitPolicyConstants
  <2> QED
    BY <1>9, <2>1 DEF DirectFails, TypeOK
<1>10. ASSUME NEW c \in Conns, SetActive(c) PROVE CarriedInv'
  <2> DEFINE s == dial[c].src
  <2>1. s \in Sources /\ dial[c].result \in Results
    BY <1>10, <1>0 DEF SetActive, DialInv, Dials
  <2>2. ActiveAfter(c) # "NONE" => ActiveAfter(c) \in carried[s]
    BY <1>10, <2>1 DEF SetActive, ActiveAfter, Results
  <2> QED
    BY <1>10, <2>1, <2>2 DEF SetActive, TypeOK
<1>11. ASSUME Crash PROVE CarriedInv'
  BY <1>11 DEF Crash
<1>12. ASSUME Restart PROVE CarriedInv'
  BY <1>12 DEF Restart
<1>13. CASE UNCHANGED vars
  BY <1>13 DEF vars
<1> QED
  BY <1>1, <1>2, <1>3, <1>4, <1>5, <1>6, <1>7, <1>8, <1>9, <1>10, <1>11, <1>12,
     <1>13 DEF Next, DialStep

\* The parts together are an invariant of the hub.
THEOREM Invariance == Spec => []IndInv
<1>1. Init => IndInv
  BY InitIndInv
<1>2. IndInv /\ [Next]_vars => IndInv'
  BY TypeStep, PolicyStep, DialInvStep, CarriedStep DEF IndInv
<1> QED
  BY <1>1, <1>2, PTL DEF Spec

\* The state has its types.
THEOREM TypeCorrect == Spec => []TypeOK
<1>1. IndInv => TypeOK
  BY DEF IndInv
<1> QED
  BY <1>1, Invariance, PTL

\* Fail closed: dialPolicy reaches a destination without an exit only for a
\* source whose acknowledged policy said so when the connection began, whatever
\* administrators do meanwhile, and across saves that fail and crashes.
THEOREM FailClosed == Spec => []DirectOnlyWhenGranted
<1>1. IndInv => DirectOnlyWhenGranted
  BY DEF IndInv, DialInv, DirectOnlyWhenGranted
<1> QED
  BY <1>1, Invariance, PTL

\* An acknowledged policy is in force and survives every restart (putPolicy).
THEOREM AcknowledgedPolicyDurable == Spec => []PolicyDurable
<1>1. IndInv => PolicyDurable
  BY DEF IndInv
<1> QED
  BY <1>1, Invariance, PTL

\* The exit that the console names has carried a connection of that source,
\* although setActive runs late and in a section of its own.
THEOREM NamedExitCarried == Spec => []ActiveWasCarried
<1>1. IndInv => ActiveWasCarried
  BY DEF IndInv, CarriedInv
<1> QED
  BY <1>1, Invariance, PTL

-----------------------------------------------------------------------------
(***************************************************************************)
(* Time.  An agent gives up after 10 s and a CONNECT at the hub after 20 s *)
(* (EveryExitHasItsTurn is violated), but only silent exits use time up,   *)
(* and none of them more than the timeout of an attempt.                   *)
(***************************************************************************)
\* What is left, and what the silent exits can have taken, make the deadline.
TurnInv ==
    \A c \in Conns :
        /\ dial[c].left + AttemptTimeout * dial[c].silent >= dial[c].deadline
        /\ dial[c].starved => dial[c].left = 0

LEMMA TriedTurn ==
    ASSUME NEW d \in Dials, d.left + AttemptTimeout * d.silent >= d.deadline,
           d.starved => d.left = 0,
           NEW spent \in 0..d.left, spent <= AttemptTimeout
    PROVE  LET e == Tried(d, spent) IN
           /\ e.left + AttemptTimeout * e.silent >= e.deadline
           /\ e.starved => e.left = 0
<1>1. {d.left, d.silent, d.deadline} \subseteq Nat /\ d.starved \in BOOLEAN
  BY DEF Dials
<1>2. /\ Tried(d, spent).left = d.left - spent
      /\ Tried(d, spent).deadline = d.deadline
      /\ Tried(d, spent).silent = d.silent + (IF spent > 0 THEN 1 ELSE 0)
      /\ Tried(d, spent).starved = (d.starved \/ d.left = 0)
  BY DEF Tried, Dials
<1>3. CASE spent = 0
  BY <1>1, <1>2, <1>3 DEF AttemptTimeout
<1>4. CASE spent > 0
  BY <1>1, <1>2, <1>4 DEF AttemptTimeout
<1> QED
  BY <1>3, <1>4

LEMMA TurnStep ==
    ASSUME TypeOK, TurnInv, [Next]_vars
    PROVE  TurnInv'
<1> USE DEF TurnInv, memory, disk
<1>0. \A c \in Conns : dial[c] \in Dials
  BY DEF TypeOK
<1>1. ASSUME NEW s \in Sources, NEW p \in Policies, PutPolicy(s, p) PROVE TurnInv'
  BY <1>1 DEF PutPolicy
<1>2. ASSUME NEW d \in Edited, NEW q \in Ports \cup {NoPort}, UpdateDevice(d, q)
      PROVE TurnInv'
  BY <1>2 DEF UpdateDevice
<1>3. ASSUME Persist PROVE TurnInv'
  BY <1>3 DEF Persist
<1>4. ASSUME NEW c \in Conns, NEW s \in Sources, NEW entry \in Entries,
             DialBegin(c, s, entry)
      PROVE TurnInv'
  <2>1. Deadline(entry) \in Nat
    BY ExitPolicyConstants DEF ExitPolicyConstants, Deadline
  <2>2. /\ dial'[c].left = Deadline(entry) /\ dial'[c].deadline = Deadline(entry)
        /\ dial'[c].silent = 0 /\ dial'[c].starved = FALSE
    BY <1>4 DEF DialBegin, TypeOK
  <2>3. \A k \in Conns \ {c} : dial'[k] = dial[k]
    BY <1>4 DEF DialBegin, TypeOK
  <2> QED
    BY <2>1, <2>2, <2>3 DEF AttemptTimeout
<1>5. ASSUME NEW c \in Conns, AttemptSucceeds(c) PROVE TurnInv'
  BY <1>5 DEF AttemptSucceeds, Settle, TypeOK, Dials
<1>6. ASSUME NEW c \in Conns, AttemptFails(c) PROVE TurnInv'
  <2>1. PICK spent \in {0, Wait(c)} : dial' = [dial EXCEPT ![c] = Tried(dial[c], spent)]
    BY <1>6 DEF AttemptFails
  <2>2. spent \in 0..dial[c].left /\ spent <= AttemptTimeout
    BY <1>0, WaitType DEF Wait, AttemptTimeout, Dials
  <2>3. LET e == Tried(dial[c], spent) IN
        /\ e.left + AttemptTimeout * e.silent >= e.deadline
        /\ e.starved => e.left = 0
    BY <1>0, <2>2, TriedTurn
  <2> QED
    BY <1>6, <2>1, <2>3 DEF AttemptFails, TypeOK
<1>7. ASSUME NEW c \in Conns, Exhausted(c) PROVE TurnInv'
  <2>1. CASE dial[c].onFailure = "direct"
    BY <1>7, <2>1 DEF Exhausted, TypeOK
  <2>2. CASE dial[c].onFailure # "direct"
    <3>1. Settle(c, "BLOCKED")
      BY <1>7, <2>2 DEF Exhausted
    <3> QED
      BY <3>1 DEF Settle, TypeOK, Dials
  <2> QED
    BY <2>1, <2>2
<1>8. ASSUME NEW c \in Conns, DirectSucceeds(c) PROVE TurnInv'
  BY <1>8 DEF DirectSucceeds, Settle, TypeOK, Dials
<1>9. ASSUME NEW c \in Conns, DirectFails(c) PROVE TurnInv'
  <2>1. /\ Failed(dial[c]).starved = (dial[c].starved \/ dial[c].left = 0)
        /\ \A f \in {"left", "silent", "deadline"} : Failed(dial[c])[f] = dial[c][f]
    BY <1>0 DEF Failed, Dials
  <2> QED
    BY <1>9, <2>1 DEF DirectFails, TypeOK
<1>10. ASSUME NEW c \in Conns, SetActive(c) PROVE TurnInv'
  BY <1>10 DEF SetActive, NoDial, TypeOK, AttemptTimeout
<1>11. ASSUME Crash PROVE TurnInv'
  BY <1>11 DEF Crash, NoDial, AttemptTimeout
<1>12. ASSUME Restart PROVE TurnInv'
  BY <1>12 DEF Restart
<1>13. CASE UNCHANGED vars
  BY <1>13 DEF vars
<1> QED
  BY <1>1, <1>2, <1>3, <1>4, <1>5, <1>6, <1>7, <1>8, <1>9, <1>10, <1>11, <1>12,
     <1>13 DEF Next, DialStep

\* An exit of a policy, or its direct fallback, misses its turn only after the
\* exits before it were silent for the whole deadline (dialPolicy): whatever the
\* deadline, the number of exits and the changes to policies meanwhile.  With
\* six seconds an attempt the first four exits are tried in time at the hub
\* (20 s), and the first two for a CONNECT of an agent (10 s).
THEOREM TurnUnlessSilence == Spec => []StarvedOnlyBySilence
<1>1. Init => TurnInv
  BY DEF Init, TurnInv, NoDial, AttemptTimeout
<1>2. IndInv /\ TurnInv /\ [Next]_vars => TurnInv'
  BY TurnStep DEF IndInv
<1>3. IndInv /\ TurnInv => StarvedOnlyBySilence
  <2> SUFFICES ASSUME IndInv, TurnInv, NEW c \in Conns, dial[c].starved
               PROVE  AttemptTimeout * dial[c].silent >= dial[c].deadline
    BY DEF StarvedOnlyBySilence
  <2>1. dial[c].left = 0 /\ dial[c].left + AttemptTimeout * dial[c].silent >= dial[c].deadline
    BY DEF TurnInv
  <2>2. {dial[c].silent, dial[c].deadline} \subseteq Nat
    BY DEF IndInv, TypeOK, Dials
  <2> QED
    BY <2>1, <2>2 DEF AttemptTimeout
<1> QED
  BY <1>1, <1>2, <1>3, Invariance, PTL DEF Spec
=============================================================================
