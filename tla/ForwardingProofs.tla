-------------------------- MODULE ForwardingProofs --------------------------
(***************************************************************************)
(* Proofs about Forwarding, for every number of requests, mappings,        *)
(* sockets and crashes.  IndInv is shown inductive part by part, one lemma *)
(* per part and in it one step per action; the safety properties and the   *)
(* refinement of MappingStore follow from it.                              *)
(***************************************************************************)
EXTENDS Forwarding, TLAPS

\* The initial state satisfies every part of the invariant.
LEMMA InitIndInv ==
    ASSUME Init
    PROVE  IndInv
<1> USE ForwardingConstants DEF ForwardingConstants, Init
<1>1. TypeOK
  BY DEF TypeOK, PutStates, DelStates, RunStates
<1>2. LockInv /\ MemoryInv
  BY DEF LockInv, MemoryInv, Holding
<1>3. RequestInv /\ SocketsUnique /\ AnswersDurable
  BY DEF RequestInv, SocketsUnique, AnswersDurable, PutStates, DelStates, Fresh
<1>4. ClaimInv /\ ListenerInv /\ ServingInv
  BY DEF ClaimInv, ListenerInv, ServingInv
<1> QED
  BY <1>1, <1>2, <1>3, <1>4 DEF IndInv

\* Types.  A request's identifier and draft are real ones while it runs
\* (RequestInv), so what the handlers write has its type.
LEMMA TypeStep ==
    ASSUME TypeOK, RequestInv, [Next]_vars
    PROVE  TypeOK'
<1> USE ForwardingConstants DEF ForwardingConstants, TypeOK, RequestInv,
        PutStates, DelStates, RunStates, store, reqs
<1>1. ASSUME NEW p \in Requests, NEW m \in Drafts, NEW id \in Ids, PutArrive(p, m, id)
      PROVE TypeOK'
  BY <1>1 DEF PutArrive
<1>2. ASSUME NEW p \in Requests, NEW id \in Ids, DeleteArrive(p, id) PROVE TypeOK'
  BY <1>2 DEF DeleteArrive
<1>3. ASSUME NEW p \in Requests, PutValidate(p) PROVE TypeOK'
  BY <1>3 DEF PutValidate, PutRefuse, Return, Goto, SaveNew
<1>4. ASSUME NEW p \in Requests, PutListen(p) PROVE TypeOK'
  BY <1>4 DEF PutListen, PutRefuse, Return, Goto, CanListen
<1>5. ASSUME NEW p \in Requests, PutCommit(p) PROVE TypeOK'
  BY <1>5 DEF PutCommit, Goto, SaveNew
<1>6. ASSUME NEW p \in Requests, PutUndo(p) PROVE TypeOK'
  BY <1>6 DEF PutUndo, PutRefuse, Return, Stopped
<1>7. ASSUME NEW p \in Requests, PutReply(p) PROVE TypeOK'
  BY <1>7 DEF PutReply, Return
<1>8. ASSUME NEW p \in Requests, DeleteMissing(p) PROVE TypeOK'
  BY <1>8 DEF DeleteMissing, Return
<1>9. ASSUME NEW p \in Requests, DeleteCommit(p) PROVE TypeOK'
  BY <1>9 DEF DeleteCommit, Return, Goto, SaveNew
<1>10. ASSUME NEW p \in Requests, DeleteStop(p) PROVE TypeOK'
  BY <1>10 DEF DeleteStop, Return, Stopped
<1>11. ASSUME RestoreSnapshot PROVE TypeOK'
  BY <1>11 DEF RestoreSnapshot
<1>12. ASSUME NEW id \in Ids, RestoreStart(id) PROVE TypeOK'
  <2>1. \A s : [listener EXCEPT ![s] = id] \in [Sockets -> Ids \cup {Free, Foreign}]
    <3>1. listener \in [Sockets -> Ids \cup {Free, Foreign}]
      OBVIOUS
    <3> QED
      BY <3>1, Zenon
  <2>2. listener' \in [Sockets -> Ids \cup {Free, Foreign}]
    BY <1>12, <2>1 DEF RestoreStart
  <2>3. forwards' \subseteq Ids /\ todo' \subseteq Ids
    BY <1>12 DEF RestoreStart
  <2> QED
    BY <1>12, <2>2, <2>3 DEF RestoreStart
<1>13. ASSUME NEW id \in Ids, RestoreFail(id) PROVE TypeOK'
  BY <1>13 DEF RestoreFail, CanListen
<1>14. ASSUME RestoreDone PROVE TypeOK'
  BY <1>14 DEF RestoreDone
<1>15. ASSUME Persist PROVE TypeOK'
  BY <1>15 DEF Persist, SaveNew
<1>16. ASSUME NEW s \in Sockets, ForeignBind(s) PROVE TypeOK'
  BY <1>16 DEF ForeignBind
<1>17. ASSUME NEW s \in Sockets, ForeignRelease(s) PROVE TypeOK'
  BY <1>17 DEF ForeignRelease
<1>18. ASSUME Shutdown PROVE TypeOK'
  BY <1>18 DEF Shutdown, Stopped
<1>19. ASSUME Crash PROVE TypeOK'
  <2>1. crashes' \in 0..MaxCrashes
    BY <1>19 DEF Crash
  <2>2. listener' \in [Sockets -> Ids \cup {Free, Foreign}]
    BY <1>19 DEF Crash, Stopped
  <2>3. /\ mappings' \in [Ids -> Drafts \cup {None}]
        /\ pc' \in [Requests -> {"idle"} \cup PutStates \cup DelStates]
        /\ reqId' \in [Requests -> Ids \cup {None}]
        /\ draft' \in [Requests -> Drafts \cup {None}]
    BY <1>19 DEF Crash
  <2> QED
    BY <1>19, <2>1, <2>2, <2>3 DEF Crash
<1>20. ASSUME Restart PROVE TypeOK'
  BY <1>20 DEF Restart
<1>21. CASE UNCHANGED vars
  BY <1>21 DEF vars
<1> QED
  BY <1>1, <1>2, <1>3, <1>4, <1>5, <1>6, <1>7, <1>8, <1>9, <1>10, <1>11, <1>12,
     <1>13, <1>14,
     <1>15, <1>16, <1>17, <1>18, <1>19, <1>20, <1>21 DEF Next, RequestStep, RestoreStep

\* forwardMu: whoever is past validation or between the commit and the stop of
\* a deletion holds it, and so does the restore.
LEMMA LockStep ==
    ASSUME TypeOK, LockInv, MemoryInv, [Next]_vars
    PROVE  LockInv'
<1> USE ForwardingConstants DEF ForwardingConstants, TypeOK, LockInv,
        MemoryInv, Holding, PutStates, DelStates, RunStates, store, reqs
<1>1. ASSUME NEW p \in Requests, NEW m \in Drafts, NEW id \in Ids, PutArrive(p, m, id)
      PROVE LockInv'
  BY <1>1 DEF PutArrive
<1>2. ASSUME NEW p \in Requests, NEW id \in Ids, DeleteArrive(p, id) PROVE LockInv'
  BY <1>2 DEF DeleteArrive
<1>3. ASSUME NEW p \in Requests, PutValidate(p) PROVE LockInv'
  BY <1>3 DEF PutValidate, PutRefuse, Return, Goto, SaveNew
<1>4. ASSUME NEW p \in Requests, PutListen(p) PROVE LockInv'
  BY <1>4 DEF PutListen, PutRefuse, Return, Goto, CanListen
<1>5. ASSUME NEW p \in Requests, PutCommit(p) PROVE LockInv'
  BY <1>5 DEF PutCommit, Goto, SaveNew
<1>6. ASSUME NEW p \in Requests, PutUndo(p) PROVE LockInv'
  BY <1>6 DEF PutUndo, PutRefuse, Return, Stopped
<1>7. ASSUME NEW p \in Requests, PutReply(p) PROVE LockInv'
  BY <1>7 DEF PutReply, Return
<1>8. ASSUME NEW p \in Requests, DeleteMissing(p) PROVE LockInv'
  BY <1>8 DEF DeleteMissing, Return
<1>9. ASSUME NEW p \in Requests, DeleteCommit(p) PROVE LockInv'
  BY <1>9 DEF DeleteCommit, Return, Goto, SaveNew
<1>10. ASSUME NEW p \in Requests, DeleteStop(p) PROVE LockInv'
  BY <1>10 DEF DeleteStop, Return, Stopped
<1>11. ASSUME RestoreSnapshot PROVE LockInv'
  BY <1>11 DEF RestoreSnapshot
<1>12. ASSUME NEW id \in Ids, RestoreStart(id) PROVE LockInv'
  BY <1>12 DEF RestoreStart, CanListen
<1>13. ASSUME NEW id \in Ids, RestoreFail(id) PROVE LockInv'
  BY <1>13 DEF RestoreFail, CanListen
<1>14. ASSUME RestoreDone PROVE LockInv'
  BY <1>14 DEF RestoreDone
<1>15. ASSUME Persist PROVE LockInv'
  BY <1>15 DEF Persist, SaveNew
<1>16. ASSUME NEW s \in Sockets, ForeignBind(s) PROVE LockInv'
  BY <1>16 DEF ForeignBind
<1>17. ASSUME NEW s \in Sockets, ForeignRelease(s) PROVE LockInv'
  BY <1>17 DEF ForeignRelease
<1>18. ASSUME Shutdown PROVE LockInv'
  BY <1>18 DEF Shutdown, Stopped
<1>19. ASSUME Crash PROVE LockInv'
  BY <1>19 DEF Crash, Stopped
<1>20. ASSUME Restart PROVE LockInv'
  BY <1>20 DEF Restart
<1>21. CASE UNCHANGED vars
  BY <1>21 DEF vars
<1> QED
  BY <1>1, <1>2, <1>3, <1>4, <1>5, <1>6, <1>7, <1>8, <1>9, <1>10, <1>11, <1>12,
     <1>13, <1>14,
     <1>15, <1>16, <1>17, <1>18, <1>19, <1>20, <1>21 DEF Next, RequestStep, RestoreStep

\* Memory and disk agree on the mappings after every section under mu.
LEMMA MemoryStep ==
    ASSUME TypeOK, LockInv, MemoryInv, [Next]_vars
    PROVE  MemoryInv'
<1> USE ForwardingConstants DEF ForwardingConstants, TypeOK, LockInv,
        MemoryInv, Holding, PutStates, DelStates, RunStates, store, reqs
<1>1. ASSUME NEW p \in Requests, NEW m \in Drafts, NEW id \in Ids, PutArrive(p, m, id)
      PROVE MemoryInv'
  BY <1>1 DEF PutArrive
<1>2. ASSUME NEW p \in Requests, NEW id \in Ids, DeleteArrive(p, id)
      PROVE MemoryInv'
  BY <1>2 DEF DeleteArrive
<1>3. ASSUME NEW p \in Requests, PutValidate(p) PROVE MemoryInv'
  BY <1>3 DEF PutValidate, PutRefuse, Return, Goto, SaveNew
<1>4. ASSUME NEW p \in Requests, PutListen(p) PROVE MemoryInv'
  BY <1>4 DEF PutListen, PutRefuse, Return, Goto, CanListen
<1>5. ASSUME NEW p \in Requests, PutCommit(p) PROVE MemoryInv'
  BY <1>5 DEF PutCommit, Goto, SaveNew
<1>6. ASSUME NEW p \in Requests, PutUndo(p) PROVE MemoryInv'
  BY <1>6 DEF PutUndo, PutRefuse, Return, Stopped
<1>7. ASSUME NEW p \in Requests, PutReply(p) PROVE MemoryInv'
  BY <1>7 DEF PutReply, Return
<1>8. ASSUME NEW p \in Requests, DeleteMissing(p) PROVE MemoryInv'
  BY <1>8 DEF DeleteMissing, Return
<1>9. ASSUME NEW p \in Requests, DeleteCommit(p) PROVE MemoryInv'
  BY <1>9 DEF DeleteCommit, Return, Goto, SaveNew
<1>10. ASSUME NEW p \in Requests, DeleteStop(p) PROVE MemoryInv'
  BY <1>10 DEF DeleteStop, Return, Stopped
<1>11. ASSUME RestoreSnapshot PROVE MemoryInv'
  BY <1>11 DEF RestoreSnapshot
<1>12. ASSUME NEW id \in Ids, RestoreStart(id) PROVE MemoryInv'
  BY <1>12 DEF RestoreStart, CanListen
<1>13. ASSUME NEW id \in Ids, RestoreFail(id) PROVE MemoryInv'
  BY <1>13 DEF RestoreFail, CanListen
<1>14. ASSUME RestoreDone PROVE MemoryInv'
  BY <1>14 DEF RestoreDone
<1>15. ASSUME Persist PROVE MemoryInv'
  BY <1>15 DEF Persist, SaveNew
<1>16. ASSUME NEW s \in Sockets, ForeignBind(s) PROVE MemoryInv'
  BY <1>16 DEF ForeignBind
<1>17. ASSUME NEW s \in Sockets, ForeignRelease(s) PROVE MemoryInv'
  BY <1>17 DEF ForeignRelease
<1>18. ASSUME Shutdown PROVE MemoryInv'
  BY <1>18 DEF Shutdown, Stopped
<1>19. ASSUME Crash PROVE MemoryInv'
  BY <1>19 DEF Crash, Stopped
<1>20. ASSUME Restart PROVE MemoryInv'
  BY <1>20 DEF Restart
<1>21. CASE UNCHANGED vars
  BY <1>21 DEF vars
<1> QED
  BY <1>1, <1>2, <1>3, <1>4, <1>5, <1>6, <1>7, <1>8, <1>9, <1>10, <1>11, <1>12,
     <1>13, <1>14,
     <1>15, <1>16, <1>17, <1>18, <1>19, <1>20, <1>21 DEF Next, RequestStep, RestoreStep

\* Requests.  A committing deletion holds forwardMu, so no request that adds
\* the same mapping is under way (DeleteCommit).
LEMMA RequestStepInv ==
    ASSUME TypeOK, LockInv, MemoryInv, RequestInv, [Next]_vars
    PROVE  RequestInv'
<1> USE ForwardingConstants DEF ForwardingConstants, TypeOK, LockInv,
        MemoryInv, RequestInv, Fresh, Holding, PutStates, DelStates, store,
        reqs
<1>1. ASSUME NEW p \in Requests, NEW m \in Drafts, NEW id \in Ids, PutArrive(p, m, id)
      PROVE RequestInv'
  BY <1>1 DEF PutArrive
<1>2. ASSUME NEW p \in Requests, NEW id \in Ids, DeleteArrive(p, id)
      PROVE RequestInv'
  BY <1>2 DEF DeleteArrive
<1>3. ASSUME NEW p \in Requests, PutValidate(p) PROVE RequestInv'
  BY <1>3 DEF PutValidate, PutRefuse, Return, Goto, SaveNew
<1>4. ASSUME NEW p \in Requests, PutListen(p) PROVE RequestInv'
  BY <1>4 DEF PutListen, PutRefuse, Return, Goto, CanListen
<1>5. ASSUME NEW p \in Requests, PutCommit(p) PROVE RequestInv'
  BY <1>5 DEF PutCommit, Goto, SaveNew
<1>6. ASSUME NEW p \in Requests, PutUndo(p) PROVE RequestInv'
  BY <1>6 DEF PutUndo, PutRefuse, Return, Stopped
<1>7. ASSUME NEW p \in Requests, PutReply(p) PROVE RequestInv'
  BY <1>7 DEF PutReply, Return
<1>8. ASSUME NEW p \in Requests, DeleteMissing(p) PROVE RequestInv'
  BY <1>8 DEF DeleteMissing, Return
<1>9. ASSUME NEW p \in Requests, DeleteCommit(p) PROVE RequestInv'
  <2> USE <1>9
  <2>1. \A q \in Requests : pc[q] \notin Holding
    BY DEF DeleteCommit
  <2>2. \A q \in Requests : pc[q] \in PutStates => pc[q] = "putWait" /\ reqId[q] # reqId[p]
    BY <2>1 DEF DeleteCommit, Present
  <2>3. /\ \A id \in Ids : mappings'[id] \in {mappings[id], None} /\ disk'[id] \in {disk[id], None}
        /\ pc[p] = "delWait" /\ pc'[p] \in {"idle", "delStop"}
        /\ pc'[p] = "delStop" => reqId' = reqId /\ mappings'[reqId[p]] = None
        /\ \A q \in Requests \ {p} : pc'[q] = pc[q] /\ reqId'[q] = reqId[q] /\ draft'[q] = draft[q]
        /\ UNCHANGED <<issued, asked, reply>>
    BY DEF DeleteCommit, Return, Goto, SaveNew
  <2>4. \A q \in Requests \ {p} : pc[q] \in {"idle", "putWait", "delWait"}
    BY <2>1
  <2> QED
    BY <2>2, <2>3, <2>4
<1>10. ASSUME NEW p \in Requests, DeleteStop(p) PROVE RequestInv'
  BY <1>10 DEF DeleteStop, Return, Stopped
<1>11. ASSUME RestoreSnapshot PROVE RequestInv'
  BY <1>11 DEF RestoreSnapshot
<1>12. ASSUME NEW id \in Ids, RestoreStart(id) PROVE RequestInv'
  BY <1>12 DEF RestoreStart, CanListen
<1>13. ASSUME NEW id \in Ids, RestoreFail(id) PROVE RequestInv'
  BY <1>13 DEF RestoreFail, CanListen
<1>14. ASSUME RestoreDone PROVE RequestInv'
  BY <1>14 DEF RestoreDone
<1>15. ASSUME Persist PROVE RequestInv'
  BY <1>15 DEF Persist, SaveNew
<1>16. ASSUME NEW s \in Sockets, ForeignBind(s) PROVE RequestInv'
  BY <1>16 DEF ForeignBind
<1>17. ASSUME NEW s \in Sockets, ForeignRelease(s) PROVE RequestInv'
  BY <1>17 DEF ForeignRelease
<1>18. ASSUME Shutdown PROVE RequestInv'
  BY <1>18 DEF Shutdown, Stopped
<1>19. ASSUME Crash PROVE RequestInv'
  BY <1>19 DEF Crash, Stopped
<1>20. ASSUME Restart PROVE RequestInv'
  BY <1>20 DEF Restart
<1>21. CASE UNCHANGED vars
  BY <1>21 DEF vars
<1> QED
  BY <1>1, <1>2, <1>3, <1>4, <1>5, <1>6, <1>7, <1>8, <1>9, <1>10, <1>11, <1>12,
     <1>13, <1>14,
     <1>15, <1>16, <1>17, <1>18, <1>19, <1>20, <1>21 DEF Next, RequestStep, RestoreStep

\* Sockets.  The mapping a request adds was validated under forwardMu and
\* still has its socket for itself when it is committed (ClaimInv).
LEMMA UniqueStep ==
    ASSUME TypeOK, MemoryInv, ClaimInv, SocketsUnique, [Next]_vars
    PROVE  SocketsUnique'
<1> USE ForwardingConstants DEF ForwardingConstants, TypeOK, MemoryInv,
        ClaimInv, SocketsUnique, Present, PutStates, DelStates, store, reqs
<1>1. ASSUME NEW p \in Requests, NEW m \in Drafts, NEW id \in Ids, PutArrive(p, m, id)
      PROVE SocketsUnique'
  BY <1>1 DEF PutArrive
<1>2. ASSUME NEW p \in Requests, NEW id \in Ids, DeleteArrive(p, id)
      PROVE SocketsUnique'
  BY <1>2 DEF DeleteArrive
<1>3. ASSUME NEW p \in Requests, PutValidate(p) PROVE SocketsUnique'
  BY <1>3 DEF PutValidate, PutRefuse, Return, Goto, SaveNew
<1>4. ASSUME NEW p \in Requests, PutListen(p) PROVE SocketsUnique'
  BY <1>4 DEF PutListen, PutRefuse, Return, Goto, CanListen
<1>5. ASSUME NEW p \in Requests, PutCommit(p) PROVE SocketsUnique'
  BY <1>5 DEF PutCommit, Goto, SaveNew
<1>6. ASSUME NEW p \in Requests, PutUndo(p) PROVE SocketsUnique'
  BY <1>6 DEF PutUndo, PutRefuse, Return, Stopped
<1>7. ASSUME NEW p \in Requests, PutReply(p) PROVE SocketsUnique'
  BY <1>7 DEF PutReply, Return
<1>8. ASSUME NEW p \in Requests, DeleteMissing(p) PROVE SocketsUnique'
  BY <1>8 DEF DeleteMissing, Return
<1>9. ASSUME NEW p \in Requests, DeleteCommit(p) PROVE SocketsUnique'
  BY <1>9 DEF DeleteCommit, Return, Goto, SaveNew
<1>10. ASSUME NEW p \in Requests, DeleteStop(p) PROVE SocketsUnique'
  BY <1>10 DEF DeleteStop, Return, Stopped
<1>11. ASSUME RestoreSnapshot PROVE SocketsUnique'
  BY <1>11 DEF RestoreSnapshot
<1>12. ASSUME NEW id \in Ids, RestoreStart(id) PROVE SocketsUnique'
  BY <1>12 DEF RestoreStart, CanListen
<1>13. ASSUME NEW id \in Ids, RestoreFail(id) PROVE SocketsUnique'
  BY <1>13 DEF RestoreFail, CanListen
<1>14. ASSUME RestoreDone PROVE SocketsUnique'
  BY <1>14 DEF RestoreDone
<1>15. ASSUME Persist PROVE SocketsUnique'
  BY <1>15 DEF Persist, SaveNew
<1>16. ASSUME NEW s \in Sockets, ForeignBind(s) PROVE SocketsUnique'
  BY <1>16 DEF ForeignBind
<1>17. ASSUME NEW s \in Sockets, ForeignRelease(s) PROVE SocketsUnique'
  BY <1>17 DEF ForeignRelease
<1>18. ASSUME Shutdown PROVE SocketsUnique'
  BY <1>18 DEF Shutdown, Stopped
<1>19. ASSUME Crash PROVE SocketsUnique'
  BY <1>19 DEF Crash, Stopped
<1>20. ASSUME Restart PROVE SocketsUnique'
  BY <1>20 DEF Restart
<1>21. CASE UNCHANGED vars
  BY <1>21 DEF vars
<1> QED
  BY <1>1, <1>2, <1>3, <1>4, <1>5, <1>6, <1>7, <1>8, <1>9, <1>10, <1>11, <1>12,
     <1>13, <1>14,
     <1>15, <1>16, <1>17, <1>18, <1>19, <1>20, <1>21 DEF Next, RequestStep, RestoreStep

\* What validation and startMapping established for a request stays true
\* until it has committed, because only the holder of forwardMu adds mappings.
LEMMA ClaimStep ==
    ASSUME TypeOK, LockInv, MemoryInv, RequestInv, ClaimInv, [Next]_vars
    PROVE  ClaimInv'
<1> USE ForwardingConstants DEF ForwardingConstants, TypeOK, LockInv,
        MemoryInv, RequestInv, ClaimInv, Present, ValidMapping,
            Fresh, Holding, PutStates, DelStates, store, reqs
<1>1. ASSUME NEW p \in Requests, NEW m \in Drafts, NEW id \in Ids, PutArrive(p, m, id)
      PROVE ClaimInv'
  BY <1>1 DEF PutArrive
<1>2. ASSUME NEW p \in Requests, NEW id \in Ids, DeleteArrive(p, id) PROVE ClaimInv'
  BY <1>2 DEF DeleteArrive
<1>3. ASSUME NEW p \in Requests, PutValidate(p) PROVE ClaimInv'
  BY <1>3 DEF PutValidate, PutRefuse, Return, Goto, SaveNew
<1>4. ASSUME NEW p \in Requests, PutListen(p) PROVE ClaimInv'
  BY <1>4 DEF PutListen, PutRefuse, Return, Goto, CanListen
<1>5. ASSUME NEW p \in Requests, PutCommit(p) PROVE ClaimInv'
  BY <1>5 DEF PutCommit, Goto, SaveNew
<1>6. ASSUME NEW p \in Requests, PutUndo(p) PROVE ClaimInv'
  BY <1>6 DEF PutUndo, PutRefuse, Return, Stopped
<1>7. ASSUME NEW p \in Requests, PutReply(p) PROVE ClaimInv'
  BY <1>7 DEF PutReply, Return
<1>8. ASSUME NEW p \in Requests, DeleteMissing(p) PROVE ClaimInv'
  BY <1>8 DEF DeleteMissing, Return
<1>9. ASSUME NEW p \in Requests, DeleteCommit(p) PROVE ClaimInv'
  BY <1>9 DEF DeleteCommit, Return, Goto, SaveNew
<1>10. ASSUME NEW p \in Requests, DeleteStop(p) PROVE ClaimInv'
  BY <1>10 DEF DeleteStop, Return, Stopped
<1>11. ASSUME RestoreSnapshot PROVE ClaimInv'
  BY <1>11 DEF RestoreSnapshot
<1>12. ASSUME NEW id \in Ids, RestoreStart(id) PROVE ClaimInv'
  BY <1>12 DEF RestoreStart, CanListen
<1>13. ASSUME NEW id \in Ids, RestoreFail(id) PROVE ClaimInv'
  BY <1>13 DEF RestoreFail, CanListen
<1>14. ASSUME RestoreDone PROVE ClaimInv'
  BY <1>14 DEF RestoreDone
<1>15. ASSUME Persist PROVE ClaimInv'
  BY <1>15 DEF Persist, SaveNew
<1>16. ASSUME NEW s \in Sockets, ForeignBind(s) PROVE ClaimInv'
  BY <1>16 DEF ForeignBind
<1>17. ASSUME NEW s \in Sockets, ForeignRelease(s) PROVE ClaimInv'
  BY <1>17 DEF ForeignRelease
<1>18. ASSUME Shutdown PROVE ClaimInv'
  BY <1>18 DEF Shutdown, Stopped
<1>19. ASSUME Crash PROVE ClaimInv'
  BY <1>19 DEF Crash, Stopped
<1>20. ASSUME Restart PROVE ClaimInv'
  BY <1>20 DEF Restart
<1>21. CASE UNCHANGED vars
  BY <1>21 DEF vars
<1> QED
  BY <1>1, <1>2, <1>3, <1>4, <1>5, <1>6, <1>7, <1>8, <1>9, <1>10, <1>11, <1>12,
     <1>13, <1>14,
     <1>15, <1>16, <1>17, <1>18, <1>19, <1>20, <1>21 DEF Next, RequestStep, RestoreStep

\* Every listener of the process is settled, being started or being stopped.
LEMMA ListenerStep ==
    ASSUME TypeOK, LockInv, MemoryInv, RequestInv, ClaimInv, SocketsUnique,
           ListenerInv, ServingInv, [Next]_vars
    PROVE  ListenerInv'
<1> USE ForwardingConstants DEF ForwardingConstants, TypeOK, LockInv,
        MemoryInv, RequestInv, ClaimInv, SocketsUnique,
            ListenerInv, ServingInv, Settled, Starting, Stopping, Present, Fresh, Holding,
            PutStates, DelStates, store, reqs
<1>1. ASSUME NEW p \in Requests, NEW m \in Drafts, NEW id \in Ids, PutArrive(p, m, id)
      PROVE ListenerInv'
  BY <1>1 DEF PutArrive
<1>2. ASSUME NEW p \in Requests, NEW id \in Ids, DeleteArrive(p, id)
      PROVE ListenerInv'
  BY <1>2 DEF DeleteArrive
<1>3. ASSUME NEW p \in Requests, PutValidate(p) PROVE ListenerInv'
  BY <1>3 DEF PutValidate, PutRefuse, Return, Goto, SaveNew
<1>4. ASSUME NEW p \in Requests, PutListen(p) PROVE ListenerInv'
  BY <1>4 DEF PutListen, PutRefuse, Return, Goto, CanListen
<1>5. ASSUME NEW p \in Requests, PutCommit(p) PROVE ListenerInv'
  BY <1>5 DEF PutCommit, Goto, SaveNew
<1>6. ASSUME NEW p \in Requests, PutUndo(p) PROVE ListenerInv'
  BY <1>6 DEF PutUndo, PutRefuse, Return, Stopped
<1>7. ASSUME NEW p \in Requests, PutReply(p) PROVE ListenerInv'
  BY <1>7 DEF PutReply, Return
<1>8. ASSUME NEW p \in Requests, DeleteMissing(p) PROVE ListenerInv'
  BY <1>8 DEF DeleteMissing, Return
<1>9. ASSUME NEW p \in Requests, DeleteCommit(p) PROVE ListenerInv'
  BY <1>9 DEF DeleteCommit, Return, Goto, SaveNew
<1>10. ASSUME NEW p \in Requests, DeleteStop(p) PROVE ListenerInv'
  BY <1>10 DEF DeleteStop, Return, Stopped
<1>11. ASSUME RestoreSnapshot PROVE ListenerInv'
  BY <1>11 DEF RestoreSnapshot
<1>12. ASSUME NEW id \in Ids, RestoreStart(id) PROVE ListenerInv'
  BY <1>12 DEF RestoreStart, CanListen
<1>13. ASSUME NEW id \in Ids, RestoreFail(id) PROVE ListenerInv'
  BY <1>13 DEF RestoreFail, CanListen
<1>14. ASSUME RestoreDone PROVE ListenerInv'
  BY <1>14 DEF RestoreDone
<1>15. ASSUME Persist PROVE ListenerInv'
  BY <1>15 DEF Persist, SaveNew
<1>16. ASSUME NEW s \in Sockets, ForeignBind(s) PROVE ListenerInv'
  BY <1>16 DEF ForeignBind
<1>17. ASSUME NEW s \in Sockets, ForeignRelease(s) PROVE ListenerInv'
  BY <1>17 DEF ForeignRelease
<1>18. ASSUME Shutdown PROVE ListenerInv'
  BY <1>18 DEF Shutdown, Stopped
<1>19. ASSUME Crash PROVE ListenerInv'
  BY <1>19 DEF Crash, Stopped
<1>20. ASSUME Restart PROVE ListenerInv'
  BY <1>20 DEF Restart
<1>21. CASE UNCHANGED vars
  BY <1>21 DEF vars
<1> QED
  BY <1>1, <1>2, <1>3, <1>4, <1>5, <1>6, <1>7, <1>8, <1>9, <1>10, <1>11, <1>12,
     <1>13, <1>14,
     <1>15, <1>16, <1>17, <1>18, <1>19, <1>20, <1>21 DEF Next, RequestStep, RestoreStep

\* Every mapping that needs no restoring any more and has no error listens.
LEMMA ServingStep ==
    ASSUME TypeOK, LockInv, MemoryInv, RequestInv, ClaimInv, SocketsUnique,
           ListenerInv, ServingInv, [Next]_vars
    PROVE  ServingInv'
<1> USE ForwardingConstants DEF ForwardingConstants, TypeOK, LockInv,
        MemoryInv, RequestInv, ClaimInv, SocketsUnique,
            ListenerInv, ServingInv, Settled, Starting, Stopping, Served, Present, Fresh,
            Holding, PutStates, DelStates, store, reqs
<1>1. ASSUME NEW p \in Requests, NEW m \in Drafts, NEW id \in Ids, PutArrive(p, m, id)
      PROVE ServingInv'
  BY <1>1 DEF PutArrive
<1>2. ASSUME NEW p \in Requests, NEW id \in Ids, DeleteArrive(p, id)
      PROVE ServingInv'
  BY <1>2 DEF DeleteArrive
<1>3. ASSUME NEW p \in Requests, PutValidate(p) PROVE ServingInv'
  BY <1>3 DEF PutValidate, PutRefuse, Return, Goto, SaveNew
<1>4. ASSUME NEW p \in Requests, PutListen(p) PROVE ServingInv'
  BY <1>4 DEF PutListen, PutRefuse, Return, Goto, CanListen
<1>5. ASSUME NEW p \in Requests, PutCommit(p) PROVE ServingInv'
  BY <1>5 DEF PutCommit, Goto, SaveNew
<1>6. ASSUME NEW p \in Requests, PutUndo(p) PROVE ServingInv'
  BY <1>6 DEF PutUndo, PutRefuse, Return, Stopped
<1>7. ASSUME NEW p \in Requests, PutReply(p) PROVE ServingInv'
  BY <1>7 DEF PutReply, Return
<1>8. ASSUME NEW p \in Requests, DeleteMissing(p) PROVE ServingInv'
  BY <1>8 DEF DeleteMissing, Return
<1>9. ASSUME NEW p \in Requests, DeleteCommit(p) PROVE ServingInv'
  BY <1>9 DEF DeleteCommit, Return, Goto, SaveNew
<1>10. ASSUME NEW p \in Requests, DeleteStop(p) PROVE ServingInv'
  BY <1>10 DEF DeleteStop, Return, Stopped
<1>11. ASSUME RestoreSnapshot PROVE ServingInv'
  BY <1>11 DEF RestoreSnapshot
<1>12. ASSUME NEW id \in Ids, RestoreStart(id) PROVE ServingInv'
  BY <1>12 DEF RestoreStart, CanListen
<1>13. ASSUME NEW id \in Ids, RestoreFail(id) PROVE ServingInv'
  BY <1>13 DEF RestoreFail, CanListen
<1>14. ASSUME RestoreDone PROVE ServingInv'
  BY <1>14 DEF RestoreDone
<1>15. ASSUME Persist PROVE ServingInv'
  BY <1>15 DEF Persist, SaveNew
<1>16. ASSUME NEW s \in Sockets, ForeignBind(s) PROVE ServingInv'
  BY <1>16 DEF ForeignBind
<1>17. ASSUME NEW s \in Sockets, ForeignRelease(s) PROVE ServingInv'
  BY <1>17 DEF ForeignRelease
<1>18. ASSUME Shutdown PROVE ServingInv'
  BY <1>18 DEF Shutdown, Stopped
<1>19. ASSUME Crash PROVE ServingInv'
  BY <1>19 DEF Crash, Stopped
<1>20. ASSUME Restart PROVE ServingInv'
  BY <1>20 DEF Restart
<1>21. CASE UNCHANGED vars
  BY <1>21 DEF vars
<1> QED
  BY <1>1, <1>2, <1>3, <1>4, <1>5, <1>6, <1>7, <1>8, <1>9, <1>10, <1>11, <1>12,
     <1>13, <1>14,
     <1>15, <1>16, <1>17, <1>18, <1>19, <1>20, <1>21 DEF Next, RequestStep, RestoreStep

\* Answers.  A refused or deleted mapping has no listener left: the one it
\* had was being started or stopped by the request that answers (ListenerInv).
LEMMA AnswersStep ==
    ASSUME TypeOK, LockInv, MemoryInv, RequestInv, ListenerInv, ServingInv,
           AnswersDurable, [Next]_vars
    PROVE  AnswersDurable'
<1> USE ForwardingConstants DEF ForwardingConstants, TypeOK, LockInv,
        MemoryInv, RequestInv, ListenerInv, ServingInv,
            AnswersDurable, Settled, Starting, Stopping, Present, Fresh, Holding,
            PutStates, DelStates, store, reqs
<1>1. ASSUME NEW p \in Requests, NEW m \in Drafts, NEW id \in Ids, PutArrive(p, m, id)
      PROVE AnswersDurable'
  BY <1>1 DEF PutArrive
<1>2. ASSUME NEW p \in Requests, NEW id \in Ids, DeleteArrive(p, id)
      PROVE AnswersDurable'
  BY <1>2 DEF DeleteArrive
<1>3. ASSUME NEW p \in Requests, PutValidate(p) PROVE AnswersDurable'
  BY <1>3 DEF PutValidate, PutRefuse, Return, Goto, SaveNew
<1>4. ASSUME NEW p \in Requests, PutListen(p) PROVE AnswersDurable'
  BY <1>4 DEF PutListen, PutRefuse, Return, Goto, CanListen
<1>5. ASSUME NEW p \in Requests, PutCommit(p) PROVE AnswersDurable'
  BY <1>5 DEF PutCommit, Goto, SaveNew
<1>6. ASSUME NEW p \in Requests, PutUndo(p) PROVE AnswersDurable'
  BY <1>6 DEF PutUndo, PutRefuse, Return, Stopped
<1>7. ASSUME NEW p \in Requests, PutReply(p) PROVE AnswersDurable'
  BY <1>7 DEF PutReply, Return
<1>8. ASSUME NEW p \in Requests, DeleteMissing(p) PROVE AnswersDurable'
  BY <1>8 DEF DeleteMissing, Return
<1>9. ASSUME NEW p \in Requests, DeleteCommit(p) PROVE AnswersDurable'
  BY <1>9 DEF DeleteCommit, Return, Goto, SaveNew
<1>10. ASSUME NEW p \in Requests, DeleteStop(p) PROVE AnswersDurable'
  BY <1>10 DEF DeleteStop, Return, Stopped
<1>11. ASSUME RestoreSnapshot PROVE AnswersDurable'
  BY <1>11 DEF RestoreSnapshot
<1>12. ASSUME NEW id \in Ids, RestoreStart(id) PROVE AnswersDurable'
  BY <1>12 DEF RestoreStart, CanListen
<1>13. ASSUME NEW id \in Ids, RestoreFail(id) PROVE AnswersDurable'
  BY <1>13 DEF RestoreFail, CanListen
<1>14. ASSUME RestoreDone PROVE AnswersDurable'
  BY <1>14 DEF RestoreDone
<1>15. ASSUME Persist PROVE AnswersDurable'
  BY <1>15 DEF Persist, SaveNew
<1>16. ASSUME NEW s \in Sockets, ForeignBind(s) PROVE AnswersDurable'
  BY <1>16 DEF ForeignBind
<1>17. ASSUME NEW s \in Sockets, ForeignRelease(s) PROVE AnswersDurable'
  BY <1>17 DEF ForeignRelease
<1>18. ASSUME Shutdown PROVE AnswersDurable'
  BY <1>18 DEF Shutdown, Stopped
<1>19. ASSUME Crash PROVE AnswersDurable'
  BY <1>19 DEF Crash, Stopped
<1>20. ASSUME Restart PROVE AnswersDurable'
  BY <1>20 DEF Restart
<1>21. CASE UNCHANGED vars
  BY <1>21 DEF vars
<1> QED
  BY <1>1, <1>2, <1>3, <1>4, <1>5, <1>6, <1>7, <1>8, <1>9, <1>10, <1>11, <1>12,
     <1>13, <1>14,
     <1>15, <1>16, <1>17, <1>18, <1>19, <1>20, <1>21 DEF Next, RequestStep, RestoreStep

\* IndInv is an invariant of the specification.
THEOREM Invariance == Spec => []IndInv
<1>1. Init => IndInv
  BY InitIndInv
<1>2. IndInv /\ [Next]_vars => IndInv'
  BY TypeStep, LockStep, MemoryStep, RequestStepInv, UniqueStep, ClaimStep,
     ListenerStep, ServingStep, AnswersStep DEF IndInv
<1> QED
  BY <1>1, <1>2, PTL DEF Spec

\* Every variable keeps its type.
THEOREM TypeCorrect == Spec => []TypeOK
  BY Invariance, PTL DEF IndInv

\* No two mappings, in memory or in state.json, ever share a socket of the
\* host, whatever requests, failed saves and restarts (validateMapping).
THEOREM SocketsStayUnique == Spec => []SocketsUnique
  BY Invariance, PTL DEF IndInv

\* An answer of putMapping or deleteMapping is durable across failed saves,
\* late saves, crashes and restarts.
THEOREM AnswersStayDurable == Spec => []AnswersDurable
  BY Invariance, PTL DEF IndInv

\* No handler leaks a listener: when nobody holds forwardMu no request is
\* starting or stopping one, so every listener is settled.
THEOREM NoListenerLeaks == Spec => []NoLeakedListener
<1>1. IndInv => NoLeakedListener
  <2> SUFFICES ASSUME IndInv, forwardMu = Nobody,
                      NEW s \in Sockets, listener[s] \in Ids
               PROVE  Settled(s)
    BY DEF NoLeakedListener, Settled
  <2>1. \A p \in Requests : pc[p] \notin Holding
    BY ForwardingConstants DEF ForwardingConstants, IndInv, LockInv
  <2>2. ~ Starting(s) /\ ~ Stopping(s)
    BY <2>1 DEF Starting, Stopping, Holding
  <2> QED
    BY <2>2 DEF IndInv, ListenerInv
<1> QED
  BY Invariance, <1>1, PTL

\* Once the restore is over, what the console counts as listening listens.
THEOREM ListedMappingsServed == Spec => []ListedMappingsListen
<1>1. IndInv => ListedMappingsListen
  BY DEF IndInv, ServingInv, Served, ListedMappingsListen
<1> QED
  BY Invariance, <1>1, PTL


\* Every step of the hub is a step of the durable table or leaves it alone.
LEMMA StoreStep ==
    ASSUME IndInv, [Next]_vars
    PROVE  [Store!Next]_(Store!vars)
<1> USE DEF Store!vars, store, reqs
<1>1. ASSUME NEW p \in Requests, NEW m \in Drafts, NEW id \in Ids, PutArrive(p, m, id)
      PROVE [Store!Next]_(Store!vars)
  BY <1>1 DEF PutArrive
<1>2. ASSUME NEW p \in Requests, NEW id \in Ids, DeleteArrive(p, id)
      PROVE [Store!Next]_(Store!vars)
  BY <1>2 DEF DeleteArrive
<1>3. ASSUME NEW p \in Requests, PutValidate(p) PROVE [Store!Next]_(Store!vars)
  <2>1. reqId[p] \in Ids /\ (Store!Refuse(reqId[p]) \/ UNCHANGED <<disk, reply>>)
    BY <1>3 DEF PutValidate, PutRefuse, Store!Refuse, IndInv, RequestInv,
       TypeOK, Fresh, PutStates
  <2> QED
    BY <2>1 DEF Store!Next
<1>4. ASSUME NEW p \in Requests, PutListen(p) PROVE [Store!Next]_(Store!vars)
  <2>1. reqId[p] \in Ids /\ (Store!Refuse(reqId[p]) \/ UNCHANGED <<disk, reply>>)
    BY <1>4 DEF PutListen, PutRefuse, Store!Refuse, IndInv, RequestInv,
       TypeOK, Fresh, PutStates
  <2> QED
    BY <2>1 DEF Store!Next
<1>5. ASSUME NEW p \in Requests, PutCommit(p) PROVE [Store!Next]_(Store!vars)
  <2>1. CASE UNCHANGED disk
    BY <1>5, <2>1 DEF PutCommit
  <2>2. CASE disk' = [disk EXCEPT ![reqId[p]] = draft[p]]
    <3>1. reqId[p] \in Ids /\ draft[p] \in Drafts
      BY <1>5 DEF PutCommit, IndInv, RequestInv, TypeOK, PutStates
    <3>2. Store!Create(reqId[p], draft[p])
      BY <1>5, <2>2, <3>1 DEF PutCommit, Store!Create, IndInv, RequestInv, ClaimInv,
         MemoryInv, Present, Fresh, PutStates
    <3> QED
      BY <3>1, <3>2 DEF Store!Next
  <2>3. disk' \in {disk, [disk EXCEPT ![reqId[p]] = draft[p]]}
    BY <1>5 DEF PutCommit, SaveNew, IndInv, MemoryInv
  <2> QED
    BY <2>1, <2>2, <2>3
<1>6. ASSUME NEW p \in Requests, PutUndo(p) PROVE [Store!Next]_(Store!vars)
  <2>1. reqId[p] \in Ids /\ (Store!Refuse(reqId[p]) \/ UNCHANGED <<disk, reply>>)
    BY <1>6 DEF PutUndo, PutRefuse, Store!Refuse, IndInv, RequestInv, TypeOK,
       Fresh, PutStates
  <2> QED
    BY <2>1 DEF Store!Next
<1>7. ASSUME NEW p \in Requests, PutReply(p) PROVE [Store!Next]_(Store!vars)
  <2>1. reqId[p] \in Ids /\ Store!AckCreate(reqId[p])
    BY <1>7, ForwardingConstants DEF PutReply, Store!AckCreate, IndInv,
       RequestInv, MemoryInv,
       TypeOK, PutStates, ForwardingConstants
  <2> QED
    BY <2>1 DEF Store!Next
<1>8. ASSUME NEW p \in Requests, DeleteMissing(p) PROVE [Store!Next]_(Store!vars)
  BY <1>8 DEF DeleteMissing
<1>9. ASSUME NEW p \in Requests, DeleteCommit(p) PROVE [Store!Next]_(Store!vars)
  <2>1. CASE UNCHANGED disk
    BY <1>9, <2>1 DEF DeleteCommit
  <2>2. CASE disk' = [disk EXCEPT ![reqId[p]] = None]
    <3>1. reqId[p] \in Ids
      BY <1>9 DEF DeleteCommit, IndInv, RequestInv, TypeOK
    <3>2. Store!Delete(reqId[p])
      BY <1>9, <2>2, <3>1 DEF DeleteCommit, Store!Delete, IndInv, MemoryInv, Present
    <3> QED
      BY <3>1, <3>2 DEF Store!Next
  <2>3. disk' \in {disk, [disk EXCEPT ![reqId[p]] = None]}
    BY <1>9 DEF DeleteCommit, SaveNew, IndInv, MemoryInv
  <2> QED
    BY <2>1, <2>2, <2>3
<1>10. ASSUME NEW p \in Requests, DeleteStop(p) PROVE [Store!Next]_(Store!vars)
  <2>1. reqId[p] \in Ids /\ Store!AckDelete(reqId[p])
    BY <1>10 DEF DeleteStop, Store!AckDelete, IndInv, RequestInv, MemoryInv, TypeOK
  <2> QED
    BY <2>1 DEF Store!Next
<1>11. ASSUME RestoreSnapshot PROVE [Store!Next]_(Store!vars)
  BY <1>11 DEF RestoreSnapshot
<1>12. ASSUME NEW id \in Ids, RestoreStart(id) PROVE [Store!Next]_(Store!vars)
  BY <1>12 DEF RestoreStart
<1>13. ASSUME NEW id \in Ids, RestoreFail(id) PROVE [Store!Next]_(Store!vars)
  BY <1>13 DEF RestoreFail
<1>14. ASSUME RestoreDone PROVE [Store!Next]_(Store!vars)
  BY <1>14 DEF RestoreDone
<1>15. ASSUME Persist PROVE [Store!Next]_(Store!vars)
  BY <1>15 DEF Persist, SaveNew, IndInv, MemoryInv
<1>16. ASSUME NEW s \in Sockets, ForeignBind(s) PROVE [Store!Next]_(Store!vars)
  BY <1>16 DEF ForeignBind
<1>17. ASSUME NEW s \in Sockets, ForeignRelease(s) PROVE [Store!Next]_(Store!vars)
  BY <1>17 DEF ForeignRelease
<1>18. ASSUME Shutdown PROVE [Store!Next]_(Store!vars)
  BY <1>18 DEF Shutdown
<1>19. ASSUME Crash PROVE [Store!Next]_(Store!vars)
  BY <1>19 DEF Crash
<1>20. ASSUME Restart PROVE [Store!Next]_(Store!vars)
  BY <1>20 DEF Restart
<1>21. CASE UNCHANGED vars
  BY <1>21 DEF vars
<1> QED
  BY <1>1, <1>2, <1>3, <1>4, <1>5, <1>6, <1>7, <1>8, <1>9, <1>10, <1>11, <1>12,
     <1>13, <1>14,
     <1>15, <1>16, <1>17, <1>18, <1>19, <1>20, <1>21 DEF Next, RequestStep, RestoreStep

\* putMapping, deleteMapping and restoreMappings, with their locks, sockets,
\* failed saves, crashes and restarts, implement the durable table.
THEOREM StoreImplemented == Spec => ImplementsStore
<1>1. Init => Store!Init
  BY DEF Init, Store!Init
<1>2. IndInv /\ [Next]_vars => [Store!Next]_(Store!vars)
  BY StoreStep
<1> QED
  BY <1>1, <1>2, Invariance, PTL DEF Spec, ImplementsStore, Store!Spec
=============================================================================
