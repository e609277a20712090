-------------------------- MODULE FileLockProofs --------------------------
(***************************************************************************)
(* The file lock excludes, for every number of processes, callers, crashes *)
(* and calls.                                                              *)
(***************************************************************************)
EXTENDS FileLock, TLAPS

\* One file-system call of a caller, or its start, wait or failure.
ClientStep(c) == Begin(c) \/ CodeStep(c) \/ Retry(c) \/ Timeout(c) \/ Throw(c)

RuntimeStep ==
  RuntimeMkdir \/ RuntimeEnter \/ RuntimeLeave \/ RuntimeRmdir \/ DirectoryAges

\* What an entry or lock record looks like.
LEMMA Records ==
  /\ NoLock \in LockStates /\ UnknownLock \in LockStates
  /\ NoLock.kind = "none" /\ UnknownLock.kind = "unknown"
  /\ \A n \in Nat : DirLock(n) \in LockStates /\ DirLock(n).kind = "dir"
  /\ \A c \in Clients, n \in Nat :
       Token(c, n) \in Tokens /\ Token(c, n).client = c /\ Token(c, n).n = n
       /\ Token(c, n).kind = "pid"
  /\ Tokens \subseteq LockStates
  /\ \A t \in Tokens : t.client \in Clients /\ t.n \in Nat /\ t.kind = "pid"
                       /\ t = Token(t.client, t.n)
  /\ \A x \in LockStates : x.n \in Nat /\ (x.kind = "pid" => x \in Tokens)
BY DEF NoLock, UnknownLock, DirLock, LockStates, Token, Tokens

\* The runtime touches the lock path and nothing else of the callers' world.
LEMMA RuntimeFrame ==
  RuntimeStep =>
    UNCHANGED <<alive, pc, call, published, seen, gateDir, entries, crashes, faults>>
<1>1. RuntimeStep => Callers' = Callers
  BY DEF RuntimeStep, RuntimeMkdir, RuntimeEnter, RuntimeLeave, RuntimeRmdir, DirectoryAges
<1>2. QED
  BY <1>1 DEF Callers

-----------------------------------------------------------------------------
(* Type correctness *)

LEMMA TypeOKInit == Init => TypeOK
<1> SUFFICES ASSUME Init PROVE TypeOK
  OBVIOUS
<1>1. NoLock \in LockStates /\ UnknownLock \in LockStates
  BY Records
<1>2. /\ alive \in [Procs -> BOOLEAN] /\ pc \in [Clients -> Labels]
      /\ call \in [Clients -> Nat] /\ published \in [Clients -> BOOLEAN]
      /\ seen \in [Clients -> LockStates] /\ lock \in LockStates
  BY <1>1 DEF Init, Labels
<1>3. gateDir \in BOOLEAN /\ entries \subseteq Tokens /\ entries = {}
  BY DEF Init
<1>4. runtime \in {"out", "owner", "inside"} /\ aged \subseteq Nat /\ crashes \in Nat
      /\ faults \subseteq FaultKinds /\ dirs \in Nat
  BY DEF Init
<1>5. QED
  BY <1>2, <1>3, <1>4 DEF TypeOK

\* A caller's step leaves every variable in its type.
LEMMA TypeOKClient ==
  ASSUME TypeOK, NEW c \in Clients, ClientStep(c)
  PROVE  TypeOK'
<1>1. NoLock \in LockStates /\ Mine(c) \in Tokens /\ Mine(c) \in LockStates
      /\ entries \subseteq LockStates
  BY Records DEF Mine, TypeOK
<1> USE <1>1 DEF TypeOK, Labels, GatePoints, ProtectedPoints, HoldingPoints, At,
        Goto, Observe, Forget, Environment
<1>2. CASE Begin(c)
  BY <1>2 DEF Begin
<1>3. CASE StatGate(c)
  BY <1>3 DEF StatGate
<1>4. CASE RenameGate(c)
  <2>1. \/ gateDir' = TRUE /\ entries' = {Mine(c)} /\ Goto(c, "readLock")
        \/ gateDir' = gateDir /\ entries' = entries /\ Goto(c, "listGate")
    BY <1>4 DEF RenameGate
  <2>2. UNCHANGED <<call, published, seen, lock, faults, Environment>>
    BY <1>4 DEF RenameGate
  <2>3. QED
    BY <2>1, <2>2
<1>5. CASE ListGate(c)
  BY <1>5 DEF ListGate
<1>6. CASE ProbeEntry(c)
  BY <1>6 DEF ProbeEntry
<1>7. CASE UnlinkEntry(c)
  BY <1>7 DEF UnlinkEntry
<1>8. CASE RmdirGate(c)
  BY <1>8 DEF RmdirGate
<1>9. CASE ReadLock(c)
  BY <1>9 DEF ReadLock
<1>10. CASE ProbeOwner(c)
  BY <1>10 DEF ProbeOwner
<1>11. CASE RereadLock(c)
  BY <1>11 DEF RereadLock
<1>12. CASE RemoveLock(c)
  BY <1>12 DEF RemoveLock
<1>13. CASE StatLock(c)
  BY <1>13 DEF StatLock
<1>14. CASE LinkLock(c)
  BY <1>14 DEF LinkLock
<1>15. CASE ProtectedThrows(c)
  BY <1>15 DEF ProtectedThrows, MayThrow
<1>16. CASE UnlinkOwnEntry(c)
  BY <1>16 DEF UnlinkOwnEntry
<1>17. CASE RmdirOwnGate(c)
  BY <1>17 DEF RmdirOwnGate, Returned, Rethrown
<1>18. CASE CleanupThrows(c)
  BY <1>18 DEF CleanupThrows, CleanupPoints, Rethrown, MayThrow
<1>19. CASE Retry(c)
  BY <1>19 DEF Retry
<1>20. CASE Timeout(c)
  BY <1>20 DEF Timeout
<1>21. CASE Finish(c)
  BY <1>21 DEF Finish
<1>22. CASE ReleaseRead(c)
  BY <1>22 DEF ReleaseRead
<1>23. CASE ReleaseUnlink(c)
  BY <1>23 DEF ReleaseUnlink
<1>24. CASE ReleaseThrows(c)
  BY <1>24 DEF ReleaseThrows, MayThrow
<1>25. CASE GateThrows(c)
  BY <1>25 DEF GateThrows, GatePoints, MayThrow
<1> HIDE DEF TypeOK
<1>26. QED
  BY <1>2, <1>3, <1>4, <1>5, <1>6, <1>7, <1>8, <1>9, <1>10, <1>11, <1>12, <1>13, <1>14, <1>15, <1>16, <1>17, <1>18, <1>19, <1>20, <1>21, <1>22, <1>23, <1>24, <1>25 DEF ClientStep, CodeStep, Throw

\* So does a crash, a reused pid and a step of the runtime.
LEMMA TypeOKEnvironment ==
  ASSUME TypeOK, (\E p \in Procs : Crash(p) \/ ReusePid(p)) \/ RuntimeStep
  PROVE  TypeOK'
<1> USE DEF TypeOK, Labels
<1>1. CASE \E p \in Procs : Crash(p)
  <2>1. NoLock \in LockStates
    BY Records
  <2>2. PICK p \in Procs : Crash(p)
    BY <1>1
  <2>3. alive' \in [Procs -> BOOLEAN] /\ crashes' \in Nat
    BY <2>2 DEF Crash
  <2>4. pc' \in [Clients -> Labels]
    BY <2>2 DEF Crash
  <2>5. published' \in [Clients -> BOOLEAN]
    BY <2>2 DEF Crash
  <2>6. seen' \in [Clients -> LockStates]
    BY <2>1, <2>2 DEF Crash
  <2>7. QED
    BY <2>2, <2>3, <2>4, <2>5, <2>6 DEF Crash
<1>2. CASE \E p \in Procs : ReusePid(p)
  BY <1>2 DEF ReusePid
<1>3. CASE RuntimeStep
  <2>1. UNCHANGED <<alive, pc, call, published, seen, gateDir, entries, crashes, faults>>
    BY <1>3, RuntimeFrame
  <2>2. CASE RuntimeMkdir
    <3>1. dirs' \in Nat /\ lock' = DirLock(dirs') /\ aged' = aged /\ runtime' = "owner"
      BY <2>2 DEF RuntimeMkdir
    <3>2. QED
      BY <2>1, <3>1, Records
  <2>3. CASE RuntimeEnter \/ RuntimeLeave
    BY <2>1, <2>3 DEF RuntimeEnter, RuntimeLeave
  <2>4. CASE RuntimeRmdir
    BY <2>1, <2>4, Records DEF RuntimeRmdir
  <2>5. CASE DirectoryAges
    <3>1. aged' = aged \cup {lock.n} /\ lock' = lock /\ runtime' = runtime /\ dirs' = dirs
      BY <2>5 DEF DirectoryAges
    <3>2. lock.n \in Nat
      BY Records
    <3>3. QED
      BY <2>1, <3>1, <3>2
  <2>6. QED
    BY <1>3, <2>2, <2>3, <2>4, <2>5 DEF RuntimeStep
<1> HIDE DEF TypeOK
<1>4. QED
  BY <1>1, <1>2, <1>3

\* Every variable keeps its type, and gate entries lie in an existing directory.
THEOREM TypeCorrect == Spec => []TypeOK
<1>1. TypeOK /\ [Next]_vars => TypeOK'
  <2> SUFFICES ASSUME TypeOK, [Next]_vars PROVE TypeOK'
    OBVIOUS
  <2>1. CASE UNCHANGED vars
    BY <2>1 DEF vars, TypeOK
  <2>2. CASE \E c \in Clients : ClientStep(c)
    BY <2>2, TypeOKClient
  <2>3. CASE (\E p \in Procs : Crash(p) \/ ReusePid(p)) \/ RuntimeStep
    BY <2>3, TypeOKEnvironment
  <2>4. QED
    BY <2>1, <2>2, <2>3 DEF Next, ClientStep, RuntimeStep
<1>2. QED
  BY <1>1, TypeOKInit, PTL DEF Spec

-----------------------------------------------------------------------------
(* The inductive invariant *)

\* The call that drew token t has ended, or died with its process.
Over(t) ==
  \/ t.n < call[t.client]
  \/ t.n = call[t.client] /\ pc[t.client] = "idle"

\* Tokens on disk and in a recovery's memory were drawn by a call.
Drawn(t) == t.n <= call[t.client]

AllDrawn ==
  /\ \A e \in entries : Drawn(e)
  /\ lock.kind = "pid" => Drawn(lock)
  /\ \A c \in Clients : seen[c].kind = "pid" => Drawn(seen[c])

DeadIdle == \A c \in Clients : ~alive[ProcOf[c]] => pc[c] = "idle"

\* What a recovery is about to remove was left by a call that is over; under the gate
\* it is still the lock it judged.
RecoveryInv ==
  \A c \in Clients :
    /\ pc[c] \in {"probeEntry", "unlinkEntry"} => seen[c].kind = "pid"
    /\ pc[c] = "unlinkEntry" => Over(seen[c])
    /\ pc[c] \in {"rereadLock", "removeLock"} /\ seen[c].kind = "pid" => Over(seen[c])
    /\ pc[c] = "removeLock" /\ seen[c].kind = "pid" /\ lock.kind = "pid" => lock = seen[c]

PublishedPoints == HoldingPoints \cup CleanupPoints

\* `published` is exactly the knowledge that the lock file is one's own.
PublishedInv ==
  \A c \in Clients :
    /\ published[c] => lock = Mine(c) /\ pc[c] \in PublishedPoints
    /\ pc[c] \in HoldingPoints => published[c]

IInv ==
  /\ TypeOK
  /\ AllDrawn
  /\ DeadIdle
  /\ GateExclusion
  /\ RecoveryInv
  /\ PublishedInv
-----------------------------------------------------------------------------
(* What a caller's step changes *)

\* A step of c changes nothing private to another caller; it draws a token exactly when
\* c was idle.
LEMMA ClientFrame ==
  ASSUME TypeOK, NEW c \in Clients, ClientStep(c)
  PROVE  /\ alive' = alive /\ runtime' = runtime /\ alive[ProcOf[c]]
         /\ \A d \in Clients \ {c} :
              /\ pc'[d] = pc[d] /\ call'[d] = call[d]
              /\ published'[d] = published[d] /\ seen'[d] = seen[d]
         /\ pc[c] = "idle" => call'[c] = call[c] + 1
         /\ pc[c] # "idle" => call'[c] = call[c]
<1> USE DEF TypeOK, At, Goto, Observe, Forget, Environment, CanRun
<1>1. CASE Begin(c)
  BY <1>1 DEF Begin
<1>2. CASE StatGate(c)
  BY <1>2 DEF StatGate
<1>3. CASE RenameGate(c)
  BY <1>3 DEF RenameGate
<1>4. CASE ListGate(c)
  BY <1>4 DEF ListGate
<1>5. CASE ProbeEntry(c)
  BY <1>5 DEF ProbeEntry
<1>6. CASE UnlinkEntry(c)
  BY <1>6 DEF UnlinkEntry
<1>7. CASE RmdirGate(c)
  BY <1>7 DEF RmdirGate
<1>8. CASE ReadLock(c)
  BY <1>8 DEF ReadLock
<1>9. CASE ProbeOwner(c)
  BY <1>9 DEF ProbeOwner
<1>10. CASE RereadLock(c)
  BY <1>10 DEF RereadLock
<1>11. CASE RemoveLock(c)
  BY <1>11 DEF RemoveLock
<1>12. CASE StatLock(c)
  BY <1>12 DEF StatLock
<1>13. CASE LinkLock(c)
  BY <1>13 DEF LinkLock
<1>14. CASE ProtectedThrows(c)
  BY <1>14 DEF ProtectedThrows
<1>15. CASE UnlinkOwnEntry(c)
  BY <1>15 DEF UnlinkOwnEntry
<1>16. CASE RmdirOwnGate(c)
  BY <1>16 DEF RmdirOwnGate, Returned, Rethrown
<1>17. CASE CleanupThrows(c)
  BY <1>17 DEF CleanupThrows, CleanupPoints, Rethrown
<1>18. CASE Retry(c)
  BY <1>18 DEF Retry
<1>19. CASE Timeout(c)
  BY <1>19 DEF Timeout
<1>20. CASE Finish(c)
  BY <1>20 DEF Finish
<1>21. CASE ReleaseRead(c)
  BY <1>21 DEF ReleaseRead
<1>22. CASE ReleaseUnlink(c)
  BY <1>22 DEF ReleaseUnlink
<1>23. CASE ReleaseThrows(c)
  BY <1>23 DEF ReleaseThrows
<1>24. CASE GateThrows(c)
  BY <1>24 DEF GateThrows, GatePoints
<1> HIDE DEF TypeOK
<1>25. QED
  BY <1>1, <1>2, <1>3, <1>4, <1>5, <1>6, <1>7, <1>8, <1>9, <1>10, <1>11, <1>12, <1>13, <1>14, <1>15, <1>16, <1>17, <1>18, <1>19, <1>20, <1>21, <1>22, <1>23, <1>24 DEF ClientStep, CodeStep, Throw

\* The gate changes by the publication of one's own entry in an empty gate, by a
\* recovery's unlink, by one's own unlink, or by an rmdir when it is empty.
LEMMA GateEffect ==
  ASSUME TypeOK, NEW c \in Clients, ClientStep(c)
  PROVE  \/ /\ entries' = entries
            /\ gateDir' = gateDir \/ entries = {}
            /\ pc'[c] \in ProtectedPoints => pc[c] \in ProtectedPoints
         \/ /\ pc[c] = "renameGate" /\ entries = {}
            /\ entries' = {Mine(c)} /\ gateDir' = TRUE
         \/ /\ pc[c] = "unlinkEntry" /\ pc'[c] = "rmdirGate"
            /\ entries' = entries \ {seen[c]} /\ gateDir' = gateDir
         \/ /\ pc[c] \in {"unlinkOwnEntry", "unwindEntry"}
            /\ pc'[c] \in {"rmdirOwnGate", "unwindGate"}
            /\ entries' = entries \ {Mine(c)} /\ gateDir' = gateDir
<1> USE DEF TypeOK, At, Goto, Observe, Forget, Environment, ProtectedPoints
<1>1. CASE Begin(c)
  BY <1>1 DEF Begin
<1>2. CASE StatGate(c)
  BY <1>2 DEF StatGate
<1>3. CASE RenameGate(c)
  BY <1>3 DEF RenameGate
<1>4. CASE ListGate(c)
  BY <1>4 DEF ListGate
<1>5. CASE ProbeEntry(c)
  BY <1>5 DEF ProbeEntry
<1>6. CASE UnlinkEntry(c)
  BY <1>6 DEF UnlinkEntry
<1>7. CASE RmdirGate(c)
  BY <1>7 DEF RmdirGate
<1>8. CASE ReadLock(c)
  BY <1>8 DEF ReadLock
<1>9. CASE ProbeOwner(c)
  BY <1>9 DEF ProbeOwner
<1>10. CASE RereadLock(c)
  BY <1>10 DEF RereadLock
<1>11. CASE RemoveLock(c)
  BY <1>11 DEF RemoveLock
<1>12. CASE StatLock(c)
  BY <1>12 DEF StatLock
<1>13. CASE LinkLock(c)
  BY <1>13 DEF LinkLock
<1>14. CASE ProtectedThrows(c)
  BY <1>14 DEF ProtectedThrows
<1>15. CASE UnlinkOwnEntry(c)
  BY <1>15 DEF UnlinkOwnEntry
<1>16. CASE RmdirOwnGate(c)
  BY <1>16 DEF RmdirOwnGate, Returned, Rethrown
<1>17. CASE CleanupThrows(c)
  BY <1>17 DEF CleanupThrows, CleanupPoints, Rethrown
<1>18. CASE Retry(c)
  BY <1>18 DEF Retry
<1>19. CASE Timeout(c)
  BY <1>19 DEF Timeout
<1>20. CASE Finish(c)
  BY <1>20 DEF Finish
<1>21. CASE ReleaseRead(c)
  BY <1>21 DEF ReleaseRead
<1>22. CASE ReleaseUnlink(c)
  BY <1>22 DEF ReleaseUnlink
<1>23. CASE ReleaseThrows(c)
  BY <1>23 DEF ReleaseThrows
<1>24. CASE GateThrows(c)
  BY <1>24 DEF GateThrows, GatePoints
<1> HIDE DEF TypeOK
<1>25. QED
  BY <1>1, <1>2, <1>3, <1>4, <1>5, <1>6, <1>7, <1>8, <1>9, <1>10, <1>11, <1>12, <1>13, <1>14, <1>15, <1>16, <1>17, <1>18, <1>19, <1>20, <1>21, <1>22, <1>23, <1>24 DEF ClientStep, CodeStep, Throw

\* The lock changes by a removal under the gate, by a publication where there was none,
\* or by the release; `published` follows.
LEMMA LockEffect ==
  ASSUME TypeOK, NEW c \in Clients, ClientStep(c)
  PROVE  \/ /\ lock' = lock
            /\ published'[c] => published[c]
            /\ published'[c] => pc'[c] \in PublishedPoints \/ pc[c] \notin PublishedPoints
            /\ pc'[c] \in HoldingPoints =>
                 published'[c] = published[c] /\ (pc[c] \in HoldingPoints \/ published[c])
         \/ /\ pc[c] = "removeLock" /\ lock.kind = seen[c].kind
            /\ lock' = NoLock /\ pc'[c] = "statLock" /\ published'[c] = published[c]
         \/ /\ pc[c] = "linkLock" /\ lock = NoLock
            /\ lock' = Mine(c) /\ pc'[c] = "unlinkOwnEntry"
         \/ /\ pc[c] = "releaseUnlink" /\ published'[c] = FALSE
            /\ lock' \in {lock, NoLock} /\ pc'[c] = "idle"
<1> USE DEF TypeOK, At, Goto, Observe, Forget, Environment, PublishedPoints, CleanupPoints,
        HoldingPoints
<1>1. CASE Begin(c)
  BY <1>1 DEF Begin
<1>2. CASE StatGate(c)
  BY <1>2 DEF StatGate
<1>3. CASE RenameGate(c)
  BY <1>3 DEF RenameGate
<1>4. CASE ListGate(c)
  BY <1>4 DEF ListGate
<1>5. CASE ProbeEntry(c)
  BY <1>5 DEF ProbeEntry
<1>6. CASE UnlinkEntry(c)
  BY <1>6 DEF UnlinkEntry
<1>7. CASE RmdirGate(c)
  BY <1>7 DEF RmdirGate
<1>8. CASE ReadLock(c)
  BY <1>8 DEF ReadLock
<1>9. CASE ProbeOwner(c)
  BY <1>9 DEF ProbeOwner
<1>10. CASE RereadLock(c)
  BY <1>10 DEF RereadLock
<1>11. CASE RemoveLock(c)
  BY <1>11 DEF RemoveLock
<1>12. CASE StatLock(c)
  BY <1>12 DEF StatLock
<1>13. CASE LinkLock(c)
  BY <1>13 DEF LinkLock
<1>14. CASE ProtectedThrows(c)
  BY <1>14 DEF ProtectedThrows
<1>15. CASE UnlinkOwnEntry(c)
  BY <1>15 DEF UnlinkOwnEntry
<1>16. CASE RmdirOwnGate(c)
  BY <1>16 DEF RmdirOwnGate, Returned, Rethrown
<1>17. CASE CleanupThrows(c)
  BY <1>17 DEF CleanupThrows, CleanupPoints, Rethrown
<1>18. CASE Retry(c)
  BY <1>18 DEF Retry
<1>19. CASE Timeout(c)
  BY <1>19 DEF Timeout
<1>20. CASE Finish(c)
  BY <1>20 DEF Finish
<1>21. CASE ReleaseRead(c)
  BY <1>21 DEF ReleaseRead
<1>22. CASE ReleaseUnlink(c)
  BY <1>22 DEF ReleaseUnlink
<1>23. CASE ReleaseThrows(c)
  BY <1>23 DEF ReleaseThrows
<1>24. CASE GateThrows(c)
  BY <1>24 DEF GateThrows, GatePoints
<1> HIDE DEF TypeOK
<1>25. QED
  BY <1>1, <1>2, <1>3, <1>4, <1>5, <1>6, <1>7, <1>8, <1>9, <1>10, <1>11, <1>12, <1>13, <1>14, <1>15, <1>16, <1>17, <1>18, <1>19, <1>20, <1>21, <1>22, <1>23, <1>24 DEF ClientStep, CodeStep, Throw

\* What a recovery remembers comes from the disk, and it goes on only after the probe.
LEMMA RecoveryEffect ==
  ASSUME TypeOK, NEW c \in Clients, ClientStep(c)
  PROVE  /\ seen'[c] = seen[c] \/ seen'[c] = NoLock \/ seen'[c] = lock \/ seen'[c] \in entries
         /\ pc'[c] = "probeEntry" => seen'[c] \in entries
         /\ pc'[c] = "unlinkEntry" =>
              pc[c] = "probeEntry" /\ seen'[c] = seen[c] /\ ~PidAlive(seen[c])
         /\ pc'[c] = "rereadLock" =>
              pc[c] = "probeOwner" /\ seen'[c] = seen[c] /\ Abandoned(c)
         /\ pc'[c] = "removeLock" =>
              pc[c] = "rereadLock" /\ seen'[c] = seen[c] /\ lock' = lock /\ lock = seen[c]
<1> USE DEF TypeOK, At, Goto, Observe, Forget, Environment
<1>1. CASE Begin(c)
  BY <1>1 DEF Begin
<1>2. CASE StatGate(c)
  BY <1>2 DEF StatGate
<1>3. CASE RenameGate(c)
  BY <1>3 DEF RenameGate
<1>4. CASE ListGate(c)
  BY <1>4 DEF ListGate
<1>5. CASE ProbeEntry(c)
  BY <1>5 DEF ProbeEntry
<1>6. CASE UnlinkEntry(c)
  BY <1>6 DEF UnlinkEntry
<1>7. CASE RmdirGate(c)
  BY <1>7 DEF RmdirGate
<1>8. CASE ReadLock(c)
  BY <1>8 DEF ReadLock
<1>9. CASE ProbeOwner(c)
  BY <1>9 DEF ProbeOwner
<1>10. CASE RereadLock(c)
  BY <1>10 DEF RereadLock
<1>11. CASE RemoveLock(c)
  BY <1>11 DEF RemoveLock
<1>12. CASE StatLock(c)
  BY <1>12 DEF StatLock
<1>13. CASE LinkLock(c)
  BY <1>13 DEF LinkLock
<1>14. CASE ProtectedThrows(c)
  BY <1>14 DEF ProtectedThrows
<1>15. CASE UnlinkOwnEntry(c)
  BY <1>15 DEF UnlinkOwnEntry
<1>16. CASE RmdirOwnGate(c)
  BY <1>16 DEF RmdirOwnGate, Returned, Rethrown
<1>17. CASE CleanupThrows(c)
  BY <1>17 DEF CleanupThrows, CleanupPoints, Rethrown
<1>18. CASE Retry(c)
  BY <1>18 DEF Retry
<1>19. CASE Timeout(c)
  BY <1>19 DEF Timeout
<1>20. CASE Finish(c)
  BY <1>20 DEF Finish
<1>21. CASE ReleaseRead(c)
  BY <1>21 DEF ReleaseRead
<1>22. CASE ReleaseUnlink(c)
  BY <1>22 DEF ReleaseUnlink
<1>23. CASE ReleaseThrows(c)
  BY <1>23 DEF ReleaseThrows
<1>24. CASE GateThrows(c)
  BY <1>24 DEF GateThrows, GatePoints
<1> HIDE DEF TypeOK
<1>25. QED
  BY <1>1, <1>2, <1>3, <1>4, <1>5, <1>6, <1>7, <1>8, <1>9, <1>10, <1>11, <1>12, <1>13, <1>14, <1>15, <1>16, <1>17, <1>18, <1>19, <1>20, <1>21, <1>22, <1>23, <1>24 DEF ClientStep, CodeStep, Throw

\* A call gives up its lock only by removing it, unless the release throws, and its gate
\* entry only by unlinking it, unless the cleanup throws.
LEMMA FaultEffect ==
  ASSUME TypeOK, NEW c \in Clients, ClientStep(c)
  PROVE  /\ faults \subseteq faults'
         /\ lock' # lock /\ lock' # NoLock => published'[c]
         /\ published[c] /\ ~published'[c] =>
              lock' = NoLock \/ lock.kind = "dir" \/ lock # Mine(c) \/ "release" \in faults'
         /\ pc'[c] \in ProtectedPoints \/ pc[c] \notin ProtectedPoints
            \/ Mine(c) \notin entries' \/ "cleanup" \in faults'
         /\ entries' # entries /\ Mine(c) \in entries' => pc'[c] \in ProtectedPoints \/ Mine(c) \in entries
<1> USE DEF TypeOK, At, Goto, Observe, Forget, Environment, ProtectedPoints
<1>1. CASE Begin(c)
  BY <1>1 DEF Begin
<1>2. CASE StatGate(c)
  BY <1>2 DEF StatGate
<1>3. CASE RenameGate(c)
  BY <1>3 DEF RenameGate
<1>4. CASE ListGate(c)
  BY <1>4 DEF ListGate
<1>5. CASE ProbeEntry(c)
  BY <1>5 DEF ProbeEntry
<1>6. CASE UnlinkEntry(c)
  BY <1>6 DEF UnlinkEntry
<1>7. CASE RmdirGate(c)
  BY <1>7 DEF RmdirGate
<1>8. CASE ReadLock(c)
  BY <1>8 DEF ReadLock
<1>9. CASE ProbeOwner(c)
  BY <1>9 DEF ProbeOwner
<1>10. CASE RereadLock(c)
  BY <1>10 DEF RereadLock
<1>11. CASE RemoveLock(c)
  BY <1>11 DEF RemoveLock
<1>12. CASE StatLock(c)
  BY <1>12 DEF StatLock
<1>13. CASE LinkLock(c)
  BY <1>13 DEF LinkLock
<1>14. CASE ProtectedThrows(c)
  BY <1>14 DEF ProtectedThrows, MayThrow
<1>15. CASE UnlinkOwnEntry(c)
  BY <1>15 DEF UnlinkOwnEntry
<1>16. CASE RmdirOwnGate(c)
  BY <1>16 DEF RmdirOwnGate, Returned, Rethrown
<1>17. CASE CleanupThrows(c)
  BY <1>17 DEF CleanupThrows, CleanupPoints, Rethrown, MayThrow
<1>18. CASE Retry(c)
  BY <1>18 DEF Retry
<1>19. CASE Timeout(c)
  BY <1>19 DEF Timeout
<1>20. CASE Finish(c)
  BY <1>20 DEF Finish
<1>21. CASE ReleaseRead(c)
  BY <1>21 DEF ReleaseRead
<1>22. CASE ReleaseUnlink(c)
  BY <1>22 DEF ReleaseUnlink
<1>23. CASE ReleaseThrows(c)
  BY <1>23 DEF ReleaseThrows, MayThrow
<1>24. CASE GateThrows(c)
  BY <1>24 DEF GateThrows, GatePoints, MayThrow
<1> HIDE DEF TypeOK
<1>25. QED
  BY <1>1, <1>2, <1>3, <1>4, <1>5, <1>6, <1>7, <1>8, <1>9, <1>10, <1>11, <1>12, <1>13, <1>14, <1>15, <1>16, <1>17, <1>18, <1>19, <1>20, <1>21, <1>22, <1>23, <1>24 DEF ClientStep, CodeStep, Throw

-----------------------------------------------------------------------------
(* The invariant is inductive *)

\* A call that is over stays over, and a drawn token stays drawn.
LEMMA OverStable ==
  ASSUME TypeOK, NEW c \in Clients, ClientStep(c)
  PROVE  \A t \in Tokens :
           /\ Over(t) => \/ t.n < call'[t.client]
                         \/ t.n = call'[t.client] /\ pc'[t.client] = "idle"
           /\ Drawn(t) => t.n <= call'[t.client]
<1> SUFFICES ASSUME NEW t \in Tokens
             PROVE  /\ Over(t) => \/ t.n < call'[t.client]
                                  \/ t.n = call'[t.client] /\ pc'[t.client] = "idle"
                    /\ Drawn(t) => t.n <= call'[t.client]
  OBVIOUS
<1>1. t.n \in Nat /\ t.client \in Clients
  BY Records
<1>2. call[t.client] \in Nat /\ call'[t.client] \in Nat /\ call[t.client] <= call'[t.client]
  BY <1>1, ClientFrame DEF TypeOK
<1>3. CASE t.client = c
  BY <1>1, <1>2, <1>3, ClientFrame DEF Over, Drawn
<1>4. CASE t.client # c
  BY <1>1, <1>2, <1>4, ClientFrame DEF Over, Drawn
<1>5. QED
  BY <1>3, <1>4

LEMMA DeadIdleClient ==
  ASSUME TypeOK, DeadIdle, NEW c \in Clients, ClientStep(c)
  PROVE  DeadIdle'
BY ClientFrame DEF DeadIdle

LEMMA AllDrawnClient ==
  ASSUME TypeOK, TypeOK', AllDrawn, NEW c \in Clients, ClientStep(c)
  PROVE  AllDrawn'
<1>1. Mine(c) \in Tokens /\ Drawn(Mine(c))
  BY Records DEF Mine, Drawn, TypeOK
<1>2. NoLock.kind # "pid"
  BY Records
<1>3. ASSUME NEW e \in entries' PROVE e.n <= call'[e.client]
  <2>1. e \in Tokens /\ Drawn(e)
    BY <1>1, <1>3, GateEffect DEF AllDrawn, TypeOK
  <2>2. QED
    BY <2>1, OverStable
<1>4. ASSUME lock'.kind = "pid" PROVE lock'.n <= call'[lock'.client]
  <2>1. lock' \in Tokens /\ Drawn(lock')
    BY <1>1, <1>2, <1>4, LockEffect, Records DEF AllDrawn, TypeOK
  <2>2. QED
    BY <2>1, OverStable
<1>5. ASSUME NEW d \in Clients, seen'[d].kind = "pid"
      PROVE  seen'[d].n <= call'[seen'[d].client]
  <2>1. seen'[d] \in Tokens
    BY <1>5, Records DEF TypeOK
  <2>2. Drawn(seen'[d])
    <3>1. CASE d # c
      BY <1>5, <3>1, ClientFrame DEF AllDrawn
    <3>2. CASE d = c
      BY <1>2, <1>5, <3>2, RecoveryEffect DEF AllDrawn
    <3>3. QED
      BY <3>1, <3>2
  <2>3. QED
    BY <2>1, <2>2, OverStable
<1>6. QED
  BY <1>3, <1>4, <1>5 DEF AllDrawn, Drawn

LEMMA GateExclusionClient ==
  ASSUME TypeOK, GateExclusion, RecoveryInv, NEW c \in Clients, ClientStep(c)
  PROVE  GateExclusion'
<1> SUFFICES ASSUME NEW d \in Clients, pc'[d] \in ProtectedPoints
             PROVE  gateDir' /\ entries' = {Mine(d)'}
  BY DEF GateExclusion
<1>1. pc'[d] # "idle" /\ Mine(d) \in Tokens /\ Mine(d).client = d /\ Mine(d).n = call[d]
      /\ call[d] \in Nat
  BY Records DEF Mine, TypeOK, ProtectedPoints
<1>2. CASE d = c
  <2>1. pc[c] \in ProtectedPoints \/ pc[c] = "renameGate" => Mine(d)' = Mine(d)
    BY <1>2, ClientFrame DEF Mine, ProtectedPoints
  <2>2. CASE pc[c] \in ProtectedPoints /\ entries' = entries
    <3>1. gateDir /\ entries = {Mine(c)}
      BY <2>2 DEF GateExclusion
    <3>2. gateDir'
      BY <2>2, <3>1, GateEffect
    <3>3. QED
      BY <1>2, <2>1, <2>2, <3>1, <3>2
  <2>3. CASE pc[c] = "renameGate" /\ entries' = {Mine(c)} /\ gateDir' = TRUE
    BY <1>2, <2>1, <2>3
  <2>4. QED
    BY <1>2, <2>2, <2>3, GateEffect DEF ProtectedPoints
<1>3. CASE d # c
  <2>1. pc[d] \in ProtectedPoints /\ Mine(d)' = Mine(d)
    BY <1>3, ClientFrame DEF Mine
  <2>2. gateDir /\ entries = {Mine(d)} /\ pc[d] # "idle"
    BY <2>1 DEF GateExclusion, ProtectedPoints
  <2>3. ASSUME pc[c] = "unlinkEntry" PROVE seen[c] # Mine(d)
    <3>1. Over(seen[c])
      BY <2>3 DEF RecoveryInv
    <3>2. ~Over(Mine(d))
      BY <1>1, <2>2 DEF Over
    <3>3. QED
      BY <3>1, <3>2
  <2>4. ASSUME pc[c] \in {"unlinkOwnEntry", "unwindEntry"} PROVE FALSE
    <3>1. entries = {Mine(c)}
      BY <2>4 DEF GateExclusion, ProtectedPoints
    <3>2. Mine(c).client = c
      BY Records DEF Mine, TypeOK
    <3>3. QED
      BY <1>1, <1>3, <2>2, <3>1, <3>2
  <2>5. QED
    BY <2>1, <2>2, <2>3, <2>4, GateEffect
<1>4. QED
  BY <1>2, <1>3

LEMMA RecoveryInvClient ==
  ASSUME TypeOK, TypeOK', AllDrawn, DeadIdle, GateExclusion, RecoveryInv,
         NEW c \in Clients, ClientStep(c)
  PROVE  RecoveryInv'
<1>1. entries \subseteq Tokens /\ NoLock.kind # "pid" /\ Mine(c).client = c
      /\ \A d \in Clients : Mine(d).client = d
  BY Records DEF Mine, TypeOK
\* A dead owner's call is over.
<1>2. ASSUME seen[c].kind = "pid", ~PidAlive(seen[c]) PROVE Over(seen[c])
  <2>1. seen[c] \in Tokens /\ seen[c].client \in Clients /\ seen[c].n \in Nat
    BY <1>2, Records DEF TypeOK
  <2>2. pc[seen[c].client] = "idle" /\ Drawn(seen[c]) /\ call[seen[c].client] \in Nat
    BY <1>2, <2>1 DEF DeadIdle, PidAlive, AllDrawn, TypeOK
  <2>3. QED
    BY <2>1, <2>2 DEF Over, Drawn
<1>3. ASSUME NEW d \in Clients, seen'[d].kind = "pid", Over(seen'[d])
      PROVE  \/ seen'[d].n < call'[seen'[d].client]
             \/ seen'[d].n = call'[seen'[d].client] /\ pc'[seen'[d].client] = "idle"
  <2>1. seen'[d] \in Tokens
    BY <1>3, Records DEF TypeOK
  <2>2. QED
    BY <1>3, <2>1, OverStable
<1>4. ASSUME NEW d \in Clients, pc'[d] \in {"probeEntry", "unlinkEntry"}
      PROVE  seen'[d].kind = "pid"
  <2>1. CASE d # c
    BY <1>4, <2>1, ClientFrame DEF RecoveryInv
  <2>2. CASE d = c /\ pc'[c] = "probeEntry"
    BY <1>1, <2>2, RecoveryEffect, Records
  <2>3. CASE d = c /\ pc'[c] = "unlinkEntry"
    BY <2>3, RecoveryEffect DEF RecoveryInv
  <2>4. QED
    BY <1>4, <2>1, <2>2, <2>3
<1>5. ASSUME NEW d \in Clients, pc'[d] = "unlinkEntry"
      PROVE  Over(seen'[d]) /\ seen'[d].kind = "pid"
  <2>1. seen'[d].kind = "pid"
    BY <1>4, <1>5
  <2>2. CASE d # c
    BY <1>5, <2>1, <2>2, ClientFrame DEF RecoveryInv
  <2>3. CASE d = c
    BY <1>2, <1>5, <2>1, <2>3, RecoveryEffect
  <2>4. QED
    BY <2>1, <2>2, <2>3
<1>6. ASSUME NEW d \in Clients, pc'[d] \in {"rereadLock", "removeLock"},
             seen'[d].kind = "pid"
      PROVE  Over(seen'[d])
  <2>1. CASE d # c
    BY <1>6, <2>1, ClientFrame DEF RecoveryInv
  <2>2. CASE d = c /\ pc'[c] = "rereadLock"
    BY <1>2, <1>6, <2>2, RecoveryEffect DEF Abandoned
  <2>3. CASE d = c /\ pc'[c] = "removeLock"
    BY <1>6, <2>3, RecoveryEffect DEF RecoveryInv
  <2>4. QED
    BY <1>6, <2>1, <2>2, <2>3
<1>7. ASSUME NEW d \in Clients, pc'[d] = "removeLock", seen'[d].kind = "pid",
             lock'.kind = "pid"
      PROVE  lock' = seen'[d]
  <2>1. CASE d = c
    BY <1>7, <2>1, RecoveryEffect
  <2>2. CASE d # c
    <3>1. pc[d] = "removeLock" /\ seen'[d] = seen[d]
      BY <1>7, <2>2, ClientFrame
    <3>2. pc[c] # "linkLock"
      BY <1>1, <2>2, <3>1 DEF GateExclusion, ProtectedPoints
    <3>3. lock' = lock
      BY <1>1, <1>7, <3>2, LockEffect
    <3>4. QED
      BY <1>7, <3>1, <3>3 DEF RecoveryInv
  <2>3. QED
    BY <2>1, <2>2
<1>8. QED
  BY <1>3, <1>4, <1>5, <1>6, <1>7 DEF RecoveryInv, Over

LEMMA PublishedInvClient ==
  ASSUME TypeOK, GateExclusion, RecoveryInv, PublishedInv,
         NEW c \in Clients, ClientStep(c)
  PROVE  PublishedInv'
<1>1. \A d \in Clients : /\ Mine(d).kind = "pid" /\ Mine(d).client = d
                         /\ Mine(d).n = call[d] /\ call[d] \in Nat
  BY Records DEF Mine, TypeOK
<1>2. NoLock.kind # "pid"
  BY Records
<1>3. ASSUME NEW d \in Clients, d # c, published[d]
      PROVE  lock' = lock
  <2>1. lock = Mine(d) /\ pc[d] \in PublishedPoints
    BY <1>3 DEF PublishedInv
  <2>2. ~Over(lock)
    BY <1>1, <2>1 DEF Over, PublishedPoints, CleanupPoints, HoldingPoints
  <2>3. ASSUME pc[c] = "removeLock" /\ lock.kind = seen[c].kind PROVE FALSE
    BY <1>1, <2>1, <2>2, <2>3 DEF RecoveryInv
  <2>4. ASSUME pc[c] = "releaseUnlink" PROVE FALSE
    BY <1>1, <1>3, <2>1, <2>4 DEF PublishedInv, HoldingPoints
  <2>5. lock # NoLock
    BY <1>1, <1>2, <2>1
  <2>6. QED
    BY <2>3, <2>4, <2>5, LockEffect
<1>4. ASSUME NEW d \in Clients, d # c
      PROVE  /\ published'[d] => lock' = Mine(d)' /\ pc'[d] \in PublishedPoints
             /\ pc'[d] \in HoldingPoints => published'[d]
  BY <1>3, <1>4, ClientFrame DEF PublishedInv, Mine
<1>5. ASSUME pc[c] # "idle" PROVE Mine(c)' = Mine(c)
  BY <1>5, ClientFrame DEF Mine
<1>6. /\ published'[c] => lock' = Mine(c)' /\ pc'[c] \in PublishedPoints
      /\ pc'[c] \in HoldingPoints => published'[c]
  <2>1. CASE lock' = lock /\ (published'[c] => published[c])
             /\ (published'[c] => pc'[c] \in PublishedPoints \/ pc[c] \notin PublishedPoints)
             /\ (pc'[c] \in HoldingPoints =>
                   published'[c] = published[c] /\ (pc[c] \in HoldingPoints \/ published[c]))
    <3>1. published[c] => lock = Mine(c) /\ pc[c] \in PublishedPoints /\ pc[c] # "idle"
      BY DEF PublishedInv, PublishedPoints, CleanupPoints, HoldingPoints
    <3>2. pc[c] \in HoldingPoints => published[c]
      BY DEF PublishedInv
    <3>3. QED
      BY <1>5, <2>1, <3>1, <3>2
  <2>2. CASE pc[c] = "removeLock" /\ pc'[c] = "statLock" /\ published'[c] = published[c]
    BY <2>2 DEF PublishedInv, PublishedPoints, CleanupPoints, HoldingPoints
  <2>3. CASE pc[c] = "linkLock" /\ lock' = Mine(c) /\ pc'[c] = "unlinkOwnEntry"
    BY <1>5, <2>3 DEF PublishedPoints, CleanupPoints, HoldingPoints
  <2>4. CASE published'[c] = FALSE /\ pc'[c] = "idle"
    BY <2>4 DEF HoldingPoints
  <2>5. QED
    BY <2>1, <2>2, <2>3, <2>4, LockEffect
<1>7. QED
  BY <1>4, <1>6 DEF PublishedInv

\* A crash ends calls and changes no file.
LEMMA IInvCrash ==
  ASSUME IInv, TypeOK', NEW p \in Procs, Crash(p)
  PROVE  IInv'
<1>1. \A d \in Clients :
        /\ pc'[d] # "idle" => /\ ProcOf[d] # p /\ pc'[d] = pc[d]
                              /\ published'[d] = published[d] /\ seen'[d] = seen[d]
        /\ pc[d] = "idle" => pc'[d] = "idle"
        /\ published'[d] => published[d] /\ pc'[d] = pc[d]
        /\ seen'[d] = seen[d] \/ seen'[d] = NoLock
        /\ ProcOf[d] = p => pc'[d] = "idle"
  BY DEF Crash, IInv, TypeOK
<1>2. UNCHANGED <<call, entries, gateDir, lock>> /\ \A q \in Procs \ {p} : alive'[q] = alive[q]
  BY DEF Crash, IInv, TypeOK
<1>3. NoLock.kind # "pid"
  BY Records
<1>4. AllDrawn'
  BY <1>1, <1>2, <1>3 DEF IInv, AllDrawn, Drawn
<1>5. DeadIdle'
  BY <1>1, <1>2, ConstantsAssumption DEF IInv, DeadIdle
<1>6. GateExclusion'
  BY <1>1, <1>2 DEF IInv, GateExclusion, ProtectedPoints, Mine
<1>7. RecoveryInv'
  <2>1. \A t \in Tokens : Over(t) =>
          \/ t.n < call'[t.client]
          \/ t.n = call'[t.client] /\ pc'[t.client] = "idle"
    BY <1>1, <1>2, Records DEF Over
  <2>2. \A d \in Clients : seen[d].kind = "pid" => seen[d] \in Tokens
    BY Records DEF IInv, TypeOK
  <2>3. QED
    BY <1>1, <1>2, <2>1, <2>2 DEF IInv, RecoveryInv, Over
<1>8. PublishedInv'
  BY <1>1, <1>2 DEF IInv, PublishedInv, HoldingPoints, Mine
<1>9. QED
  BY <1>4, <1>5, <1>6, <1>7, <1>8 DEF IInv

\* A reused pid only makes a process live again.
LEMMA IInvReusePid ==
  ASSUME IInv, TypeOK', NEW p \in Procs, ReusePid(p)
  PROVE  IInv'
<1>1. UNCHANGED <<pc, call, published, seen, entries, gateDir, lock>>
  BY DEF ReusePid
<1>2. \A q \in Procs : alive[q] => alive'[q]
  BY DEF ReusePid, IInv, TypeOK
<1>3. DeadIdle'
  BY <1>1, <1>2, ConstantsAssumption DEF IInv, DeadIdle
<1>4. QED
  BY <1>1, <1>3 DEF IInv, AllDrawn, Drawn, GateExclusion, RecoveryInv, Over, PublishedInv, Mine

\* The runtime neither makes nor removes a lock file.
LEMMA IInvRuntime ==
  ASSUME IInv, TypeOK', RuntimeStep
  PROVE  IInv'
<1>1. UNCHANGED <<alive, pc, call, published, seen, entries, gateDir>>
  BY RuntimeFrame
<1>2. lock' = lock \/ (lock.kind # "pid" /\ lock'.kind # "pid")
  <2>1. NoLock.kind # "pid"
    BY Records
  <2>2. CASE RuntimeMkdir
    <3>1. dirs' \in Nat /\ lock = NoLock /\ lock' = DirLock(dirs')
      BY <2>2 DEF RuntimeMkdir, IInv, TypeOK
    <3>2. QED
      BY <2>1, <3>1, Records
  <2>3. QED
    BY <2>1, <2>2 DEF RuntimeStep, RuntimeEnter, RuntimeLeave, RuntimeRmdir, DirectoryAges
<1>3. \A d \in Clients : Mine(d).kind = "pid"
  BY Records DEF Mine, IInv, TypeOK
<1>4. AllDrawn' /\ DeadIdle' /\ GateExclusion'
  BY <1>1, <1>2 DEF IInv, AllDrawn, Drawn, DeadIdle, GateExclusion, Mine
<1>5. RecoveryInv'
  BY <1>1, <1>2 DEF IInv, RecoveryInv, Over
<1>6. PublishedInv'
  BY <1>1, <1>2, <1>3 DEF IInv, PublishedInv, Mine
<1>7. QED
  BY <1>4, <1>5, <1>6 DEF IInv

LEMMA IInvInit == Init => IInv
<1> SUFFICES ASSUME Init PROVE IInv
  OBVIOUS
<1>1. TypeOK
  BY TypeOKInit
<1>2. lock.kind # "pid" /\ NoLock.kind # "pid" /\ entries = {}
  BY Records DEF Init
<1>3. \A c \in Clients : pc[c] = "idle" /\ published[c] = FALSE /\ seen[c] = NoLock
  BY DEF Init
<1>4. QED
  BY <1>1, <1>2, <1>3 DEF IInv, AllDrawn, DeadIdle, GateExclusion, RecoveryInv, PublishedInv,
     ProtectedPoints, HoldingPoints

LEMMA IInvStep == IInv /\ [Next]_vars => IInv'
<1> SUFFICES ASSUME IInv, [Next]_vars PROVE IInv'
  OBVIOUS
<1>1. CASE UNCHANGED vars
  BY <1>1 DEF vars, IInv, TypeOK, AllDrawn, Drawn, DeadIdle, GateExclusion, RecoveryInv, Over,
     PublishedInv, Mine
<1>2. ASSUME NEW c \in Clients, ClientStep(c) PROVE IInv'
  <2>1. TypeOK'
    BY <1>2, TypeOKClient DEF IInv
  <2>2. QED
    BY <1>2, <2>1, AllDrawnClient, DeadIdleClient, GateExclusionClient, RecoveryInvClient,
       PublishedInvClient DEF IInv
<1>3. CASE (\E p \in Procs : Crash(p) \/ ReusePid(p)) \/ RuntimeStep
  <2>1. TypeOK'
    BY <1>3, TypeOKEnvironment DEF IInv
  <2>2. QED
    BY <1>3, <2>1, IInvCrash, IInvReusePid, IInvRuntime
<1>4. QED
  BY <1>1, <1>2, <1>3 DEF Next, ClientStep, RuntimeStep

THEOREM Inductive == Spec => []IInv
BY IInvInit, IInvStep, PTL DEF Spec

-----------------------------------------------------------------------------
(* What follows from it *)

\* The lock file of a call that has published it stays that call's until it releases it.
THEOREM HolderOwns == Spec => []HolderOwnsLock
<1>1. IInv => HolderOwnsLock
  BY DEF IInv, PublishedInv, HolderOwnsLock
<1>2. QED
  BY <1>1, Inductive, PTL

\* Only the call whose entry is in the gate is between its publication and its removal.
THEOREM GateExcludes == Spec => []GateExclusion
<1>1. IInv => GateExclusion
  BY DEF IInv
<1>2. QED
  BY <1>1, Inductive, PTL

\* Two callbacks of withFileLock never run at once.
THEOREM Mutex == Spec => []MutualExclusion
<1>1. IInv => MutualExclusion
  <2> SUFFICES ASSUME IInv, NEW c \in Clients, NEW d \in Clients,
                      pc[c] = "inside", pc[d] = "inside"
               PROVE  c = d
    BY DEF MutualExclusion
  <2>1. lock = Mine(c) /\ lock = Mine(d)
    BY DEF IInv, PublishedInv, HoldingPoints
  <2>2. Mine(c).client = c /\ Mine(d).client = d
    BY Records DEF Mine, IInv, TypeOK
  <2>3. QED
    BY <2>1, <2>2
<1>2. QED
  BY <1>1, Inductive, PTL

-----------------------------------------------------------------------------
(* The runtime that locks with a directory *)

\* Where no process takes over directories, recoveries remove lock files only, and the
\* runtime's directory stays until it removes it.
RuntimeInv ==
  TakeoverProcs = {} =>
    /\ \A c \in Clients : pc[c] \in {"rereadLock", "removeLock"} => seen[c].kind = "pid"
    /\ runtime \in {"owner", "inside"} => lock.kind = "dir"

\* A caller never removes or replaces such a directory.
LEMMA DirectorySafe ==
  ASSUME IInv, RuntimeInv, TakeoverProcs = {}, NEW c \in Clients, ClientStep(c),
         lock.kind = "dir"
  PROVE  lock' = lock
<1>1. NoLock.kind # "dir" /\ Mine(c).kind # "dir"
  BY Records DEF Mine, IInv, TypeOK
<1>2. pc[c] = "removeLock" => seen[c].kind = "pid"
  BY DEF RuntimeInv
<1>3. pc[c] # "releaseUnlink"
  BY <1>1 DEF IInv, PublishedInv, HoldingPoints
<1>4. QED
  BY <1>1, <1>2, <1>3, LockEffect DEF IInv

LEMMA RuntimeInvStep == IInv /\ RuntimeInv /\ [Next]_vars => RuntimeInv'
<1> SUFFICES ASSUME IInv, RuntimeInv, [Next]_vars, TakeoverProcs = {}
             PROVE  /\ \A c \in Clients :
                         pc'[c] \in {"rereadLock", "removeLock"} => seen'[c].kind = "pid"
                    /\ runtime' \in {"owner", "inside"} => lock'.kind = "dir"
  BY DEF RuntimeInv
<1>1. CASE UNCHANGED vars
  BY <1>1 DEF vars, RuntimeInv
<1>2. ASSUME NEW c \in Clients, ClientStep(c)
      PROVE  /\ \A d \in Clients :
                  pc'[d] \in {"rereadLock", "removeLock"} => seen'[d].kind = "pid"
             /\ runtime' \in {"owner", "inside"} => lock'.kind = "dir"
  <2>1. runtime' \in {"owner", "inside"} => lock'.kind = "dir"
    BY <1>2, DirectorySafe, ClientFrame DEF RuntimeInv, IInv
  <2>2. pc'[c] \in {"rereadLock", "removeLock"} => seen'[c].kind = "pid"
    BY <1>2, RecoveryEffect DEF RuntimeInv, IInv, Abandoned
  <2>3. QED
    BY <1>2, <2>1, <2>2, ClientFrame DEF RuntimeInv, IInv
<1>3. ASSUME NEW p \in Procs, Crash(p)
      PROVE  /\ \A d \in Clients :
                  pc'[d] \in {"rereadLock", "removeLock"} => seen'[d].kind = "pid"
             /\ runtime' \in {"owner", "inside"} => lock'.kind = "dir"
  BY <1>3 DEF Crash, RuntimeInv, IInv, TypeOK
<1>4. ASSUME NEW p \in Procs, ReusePid(p)
      PROVE  /\ \A d \in Clients :
                  pc'[d] \in {"rereadLock", "removeLock"} => seen'[d].kind = "pid"
             /\ runtime' \in {"owner", "inside"} => lock'.kind = "dir"
  BY <1>4 DEF ReusePid, RuntimeInv
<1>5. CASE RuntimeStep
  <2>1. \A d \in Clients :
          pc'[d] \in {"rereadLock", "removeLock"} => seen'[d].kind = "pid"
    BY <1>5, RuntimeFrame DEF RuntimeInv
  <2>2. CASE RuntimeMkdir
    <3>1. dirs' \in Nat /\ lock' = DirLock(dirs')
      BY <2>2 DEF RuntimeMkdir, IInv, TypeOK
    <3>2. QED
      BY <2>1, <3>1, Records
  <2>3. CASE RuntimeEnter \/ RuntimeLeave \/ RuntimeRmdir \/ DirectoryAges
    BY <2>1, <2>3 DEF RuntimeEnter, RuntimeLeave, RuntimeRmdir, DirectoryAges, RuntimeInv
  <2>4. QED
    BY <1>5, <2>2, <2>3 DEF RuntimeStep
<1>6. QED
  BY <1>1, <1>2, <1>3, <1>4, <1>5 DEF Next, ClientStep, RuntimeStep

THEOREM RuntimeInvariant == Spec => []RuntimeInv
<1>1. Init => RuntimeInv
  BY DEF Init, RuntimeInv
<1>2. QED
  BY <1>1, RuntimeInvStep, Inductive, PTL DEF Spec

\* No callback runs while a runtime holds the lock as a directory, if no process is
\* allowed to judge directories by their age.
THEOREM RuntimeExcludes == Spec => []RuntimeExclusion
<1>1. IInv /\ RuntimeInv => RuntimeExclusion
  <2> SUFFICES ASSUME IInv, RuntimeInv, TakeoverProcs = {}, runtime = "inside",
                      NEW c \in Clients, pc[c] = "inside"
               PROVE  FALSE
    BY DEF RuntimeExclusion
  <2>1. lock.kind = "dir" /\ lock = Mine(c)
    BY DEF RuntimeInv, IInv, PublishedInv, HoldingPoints
  <2>2. Mine(c).kind = "pid"
    BY Records DEF Mine, IInv, TypeOK
  <2>3. QED
    BY <2>1, <2>2
<1>2. QED
  BY <1>1, Inductive, RuntimeInvariant, PTL

\* Where no process takes over directories, only the runtime removes its own.
THEOREM DirectoryKept ==
  ASSUME TakeoverProcs = {}
  PROVE  Spec => FreshDirectoryKept
<1>1. IInv /\ RuntimeInv /\ [Next]_vars =>
        [lock.kind = "dir" /\ lock.n \notin aged /\ lock' # lock
           => runtime = "owner" /\ runtime' = "out"]_vars
  <2> SUFFICES ASSUME IInv, RuntimeInv, Next, lock.kind = "dir", lock' # lock
               PROVE  runtime = "owner" /\ runtime' = "out"
    BY DEF vars
  <2>1. ~\E c \in Clients : ClientStep(c)
    BY DirectorySafe
  <2>2. ~\E p \in Procs : Crash(p) \/ ReusePid(p)
    BY DEF Crash, ReusePid
  <2>3. lock # NoLock
    BY Records
  <2>4. RuntimeRmdir
    BY <2>1, <2>2, <2>3 DEF Next, ClientStep, RuntimeMkdir, RuntimeEnter, RuntimeLeave,
       DirectoryAges
  <2>5. QED
    BY <2>4 DEF RuntimeRmdir
<1>2. QED
  BY <1>1, Inductive, RuntimeInvariant, PTL DEF Spec, FreshDirectoryKept

-----------------------------------------------------------------------------
(* The protocol implements the mutual exclusion service *)

\* Somebody is in the critical section.
Busy == runtime = "inside" \/ \E c \in Clients : pc[c] = "inside"

\* Whoever is in the critical section owns the lock.
LEMMA CriticalIsHolder ==
  IInv => /\ Busy => Critical = {lock}
          /\ ~Busy => Critical = {}
<1> SUFFICES ASSUME IInv PROVE (Busy => Critical = {lock}) /\ (~Busy => Critical = {})
  OBVIOUS
<1>1. \A c \in Clients : pc[c] = "inside" => Mine(c) = lock
  BY DEF IInv, PublishedInv, HoldingPoints
<1>2. QED
  BY <1>1 DEF Busy, Critical

LEMMA BusyOwnsLock == IInv /\ RuntimeInv /\ TakeoverProcs = {} /\ Busy => lock # NoLock
<1>1. \A c \in Clients : IInv => Mine(c) # NoLock
  BY Records DEF Mine, IInv, TypeOK
<1>2. QED
  BY <1>1, Records DEF IInv, PublishedInv, HoldingPoints, RuntimeInv, Busy

\* The lock changes hands only outside every critical section, and through "none".
LEMMA HandsChange ==
  ASSUME IInv, RuntimeInv, TakeoverProcs = {}, [Next]_vars, lock' # lock
  PROVE  ~Busy /\ ~Busy' /\ (lock = NoLock \/ lock' = NoLock)
<1>1. ASSUME NEW c \in Clients, ClientStep(c)
      PROVE  ~Busy /\ ~Busy' /\ (lock = NoLock \/ lock' = NoLock)
  <2>1. runtime' = runtime /\ runtime # "inside"
    BY <1>1, DirectorySafe, ClientFrame DEF RuntimeInv, IInv
  <2>2. pc[c] \in {"removeLock", "linkLock", "releaseUnlink"}
        /\ pc'[c] \in {"statLock", "unlinkOwnEntry", "idle"}
        /\ (lock = NoLock \/ lock' = NoLock)
    BY <1>1, LockEffect DEF IInv
  <2>3. ASSUME NEW d \in Clients, d # c, pc[d] = "inside" PROVE FALSE
    <3>1. published[d] /\ lock = Mine(d)
      BY <2>3 DEF IInv, PublishedInv, HoldingPoints
    <3>2. pc'[d] = "inside" /\ published'[d] /\ Mine(d)' = Mine(d)
      BY <1>1, <2>3, <3>1, ClientFrame DEF IInv, Mine
    <3>3. PublishedInv'
      BY <1>1, PublishedInvClient DEF IInv
    <3>4. QED
      BY <3>1, <3>2, <3>3 DEF PublishedInv
  <2>4. QED
    BY <1>1, <2>1, <2>2, <2>3, ClientFrame DEF Busy, IInv
<1>2. CASE \E p \in Procs : Crash(p) \/ ReusePid(p)
  BY <1>2 DEF Crash, ReusePid
<1>3. CASE RuntimeStep
  <2>1. UNCHANGED pc
    BY <1>3, RuntimeFrame
  <2>2. CASE RuntimeMkdir
    <3>1. runtime = "out" /\ runtime' = "owner" /\ lock = NoLock
      BY <2>2 DEF RuntimeMkdir
    <3>2. QED
      BY <2>1, <3>1, BusyOwnsLock DEF Busy
  <2>3. CASE RuntimeRmdir
    <3>1. runtime = "owner" /\ runtime' = "out" /\ lock' = NoLock /\ lock.kind = "dir"
      BY <2>3 DEF RuntimeRmdir
    <3>2. \A c \in Clients : pc[c] # "inside"
      <4>1. \A c \in Clients : Mine(c).kind = "pid"
        BY Records DEF Mine, IInv, TypeOK
      <4>2. QED
        BY <3>1, <4>1 DEF IInv, PublishedInv, HoldingPoints
    <3>3. QED
      BY <2>1, <3>1, <3>2 DEF Busy
  <2>4. QED
    BY <1>3, <2>2, <2>3 DEF RuntimeStep, RuntimeEnter, RuntimeLeave, DirectoryAges
<1>4. CASE UNCHANGED vars
  BY <1>4 DEF vars
<1>5. QED
  BY <1>1, <1>2, <1>3, <1>4 DEF Next, ClientStep, RuntimeStep

\* Every step of the protocol is a grant, an entry, an exit or a release of the service,
\* or changes nothing the service sees.
THEOREM Implements ==
  ASSUME TakeoverProcs = {}
  PROVE  Spec => ImplementsService
<1>1. Init => Service!Init
  <2> SUFFICES ASSUME Init PROVE Service!Init
    OBVIOUS
  <2>1. lock \in LockStates /\ Critical = {}
    BY TypeOKInit DEF TypeOK, Init, Critical
  <2>2. QED
    BY <2>1 DEF Service!Init
<1>2. IInv /\ IInv' /\ RuntimeInv /\ RuntimeInv' /\ [Next]_vars
        => [Service!Next]_<<lock, Critical>>
  <2> SUFFICES ASSUME IInv, IInv', RuntimeInv, RuntimeInv', [Next]_vars
               PROVE  [Service!Next]_<<lock, Critical>>
    OBVIOUS
  <2>1. (Busy => Critical = {lock}) /\ (~Busy => Critical = {})
    BY CriticalIsHolder
  <2>2. (Busy => Critical = {lock})' /\ (~Busy => Critical = {})'
    <3>1. (IInv => (Busy => Critical = {lock}) /\ (~Busy => Critical = {}))'
      BY CriticalIsHolder, PTL
    <3>2. QED
      BY <3>1
  <2>3. lock' \in LockStates
    BY DEF IInv, TypeOK
  <2>4. CASE lock' # lock
    <3>1. Critical = {} /\ Critical' = {} /\ (lock = NoLock \/ lock' = NoLock)
      BY <2>1, <2>2, <2>4, HandsChange
    <3>2. QED
      BY <2>3, <2>4, <3>1 DEF Service!Next, Service!Grant, Service!Free
  <2>5. CASE lock' = lock
    <3>1. Busy => lock # NoLock
      BY BusyOwnsLock
    <3>2. Busy' => lock' # NoLock
      <4>1. (IInv /\ RuntimeInv /\ TakeoverProcs = {} /\ Busy => lock # NoLock)'
        BY BusyOwnsLock, PTL
      <4>2. QED
        BY <4>1
    <3>3. QED
      BY <2>1, <2>2, <2>5, <3>1, <3>2 DEF Service!Next, Service!Enter, Service!Leave
  <2>6. QED
    BY <2>4, <2>5
<1>3. QED
  BY <1>1, <1>2, Inductive, RuntimeInvariant, PTL DEF Spec, ImplementsService, Service!Spec

-----------------------------------------------------------------------------
(* Nothing of a live process is left behind *)

\* Its parts, for any lock and any entry.
LockAccounted ==
  lock.kind = "pid" /\ PidAlive(lock) /\ ProcOf[lock.client] \notin ReusedPids
  /\ "release" \notin faults
    => lock = Mine(lock.client) /\ published[lock.client]

EntriesAccounted ==
  \A e \in entries :
    PidAlive(e) /\ ProcOf[e.client] \notin ReusedPids /\ "cleanup" \notin faults
      => e = Mine(e.client) /\ pc[e.client] \in ProtectedPoints

LEMMA LockAccountedClient ==
  ASSUME IInv, LockAccounted, NEW c \in Clients, ClientStep(c)
  PROVE  LockAccounted'
<1> SUFFICES ASSUME lock'.kind = "pid", alive'[ProcOf[lock'.client]],
                    ProcOf[lock'.client] \notin ReusedPids, "release" \notin faults'
             PROVE  /\ lock' = Token(lock'.client, call'[lock'.client])
                    /\ published'[lock'.client]
  BY DEF LockAccounted, PidAlive, Mine
<1>1. Mine(c).client = c /\ NoLock.kind # "pid"
  BY Records DEF Mine, IInv, TypeOK
<1>2. CASE lock' # lock
  <2>1. pc[c] = "linkLock" /\ lock' = Mine(c) /\ published'[c]
    BY <1>1, <1>2, LockEffect, FaultEffect DEF IInv
  <2>2. Mine(c)' = Mine(c)
    BY <2>1, ClientFrame DEF IInv, Mine
  <2>3. QED
    BY <1>1, <2>1, <2>2 DEF Mine
<1>3. CASE lock' = lock
  <2>1. lock \in Tokens /\ lock.client \in Clients
    BY <1>3, Records DEF IInv, TypeOK
  <2>2. lock = Mine(lock.client) /\ published[lock.client] /\ pc[lock.client] # "idle"
    BY <1>3, <2>1, ClientFrame, FaultEffect
       DEF LockAccounted, PidAlive, IInv, PublishedInv, PublishedPoints, CleanupPoints,
           HoldingPoints
  <2>3. Mine(lock.client)' = Mine(lock.client)
    BY <2>1, <2>2, <1>3, ClientFrame DEF IInv, Mine
  <2>4. published'[lock.client]
    <3>1. CASE lock.client = c
      BY <1>1, <1>3, <2>2, <3>1, FaultEffect, Records DEF IInv
    <3>2. CASE lock.client # c
      BY <2>1, <2>2, <3>2, ClientFrame DEF IInv
    <3>3. QED
      BY <3>1, <3>2
  <2>5. QED
    BY <1>3, <2>2, <2>3, <2>4 DEF Mine
<1>4. QED
  BY <1>2, <1>3

LEMMA EntriesAccountedClient ==
  ASSUME IInv, EntriesAccounted, NEW c \in Clients, ClientStep(c)
  PROVE  EntriesAccounted'
<1> SUFFICES ASSUME NEW e \in entries', alive'[ProcOf[e.client]],
                    ProcOf[e.client] \notin ReusedPids, "cleanup" \notin faults'
             PROVE  e = Mine(e.client)' /\ pc'[e.client] \in ProtectedPoints
  BY DEF EntriesAccounted, PidAlive
<1>1. Mine(c) \in Tokens /\ Mine(c).client = c
  BY Records DEF Mine, IInv, TypeOK
<1>2. CASE e \in entries
  <2>1. e \in Tokens /\ e.client \in Clients
    BY <1>2, Records DEF IInv, TypeOK
  <2>2. e = Mine(e.client) /\ pc[e.client] \in ProtectedPoints
    BY <1>2, ClientFrame, FaultEffect DEF EntriesAccounted, PidAlive, IInv
  <2>3. Mine(e.client)' = Mine(e.client)
    BY <2>1, <2>2, ClientFrame DEF IInv, Mine, ProtectedPoints
  <2>4. pc'[e.client] \in ProtectedPoints
    <3>1. CASE e.client = c
      BY <2>2, <3>1, FaultEffect DEF IInv
    <3>2. CASE e.client # c
      BY <2>1, <2>2, <3>2, ClientFrame DEF IInv
    <3>3. QED
      BY <3>1, <3>2
  <2>5. QED
    BY <2>2, <2>3, <2>4
<1>3. CASE e \notin entries
  <2>1. e = Mine(c) /\ pc[c] = "renameGate"
    BY <1>3, GateEffect DEF IInv
  <2>2. Mine(c)' = Mine(c)
    BY <2>1, ClientFrame DEF IInv, Mine
  <2>3. pc'[c] \in ProtectedPoints
    BY <1>3, <2>1, FaultEffect DEF IInv
  <2>4. QED
    BY <1>1, <2>1, <2>2, <2>3
<1>4. QED
  BY <1>2, <1>3

LEMMA AccountedStep ==
  IInv /\ LockAccounted /\ EntriesAccounted /\ [Next]_vars
    => LockAccounted' /\ EntriesAccounted'
<1> SUFFICES ASSUME IInv, LockAccounted, EntriesAccounted, [Next]_vars
             PROVE  LockAccounted' /\ EntriesAccounted'
  OBVIOUS
<1> USE DEF LockAccounted, EntriesAccounted, PidAlive, Mine
<1>1. CASE UNCHANGED vars
  BY <1>1 DEF vars
<1>2. ASSUME NEW c \in Clients, ClientStep(c) PROVE LockAccounted' /\ EntriesAccounted'
  BY <1>2, LockAccountedClient, EntriesAccountedClient
<1>3. ASSUME NEW p \in Procs, Crash(p) PROVE LockAccounted' /\ EntriesAccounted'
  <2>1. UNCHANGED <<call, entries, lock, faults>>
    BY <1>3 DEF Crash
  <2>2. \A q \in Procs : alive'[q] => alive[q] /\ q # p
    BY <1>3 DEF Crash, IInv, TypeOK
  <2>3. \A c \in Clients : ProcOf[c] # p =>
          published'[c] = published[c] /\ pc'[c] = pc[c]
    BY <1>3 DEF Crash, IInv, TypeOK
  <2>4. (lock.kind = "pid" => lock.client \in Clients) /\ \A e \in entries : e.client \in Clients
    BY Records DEF IInv, TypeOK
  <2>5. QED
    BY <2>1, <2>2, <2>3, <2>4, ConstantsAssumption
<1>4. ASSUME NEW p \in Procs, ReusePid(p) PROVE LockAccounted' /\ EntriesAccounted'
  <2>1. UNCHANGED <<pc, call, published, entries, lock, faults>> /\ p \in ReusedPids
    BY <1>4 DEF ReusePid
  <2>2. \A q \in Procs : q \notin ReusedPids => alive'[q] = alive[q]
    BY <1>4, <2>1 DEF ReusePid, IInv, TypeOK
  <2>3. (lock.kind = "pid" => lock.client \in Clients) /\ \A e \in entries : e.client \in Clients
    BY Records DEF IInv, TypeOK
  <2>4. QED
    BY <2>1, <2>2, <2>3, ConstantsAssumption
<1>5. CASE RuntimeStep
  <2>1. UNCHANGED <<alive, pc, call, published, entries, faults>>
    BY <1>5, RuntimeFrame
  <2>2. lock' = lock \/ lock'.kind # "pid"
    <3>1. NoLock.kind # "pid"
      BY Records
    <3>2. CASE RuntimeMkdir
      <4>1. dirs' \in Nat /\ lock' = DirLock(dirs')
        BY <3>2 DEF RuntimeMkdir, IInv, TypeOK
      <4>2. QED
        BY <4>1, Records
    <3>3. QED
      BY <1>5, <3>1, <3>2 DEF RuntimeStep, RuntimeEnter, RuntimeLeave, RuntimeRmdir,
         DirectoryAges
  <2>3. QED
    BY <2>1, <2>2
<1>6. QED
  BY <1>1, <1>2, <1>3, <1>4, <1>5 DEF Next, ClientStep, RuntimeStep

\* A lock or gate entry of a live process belongs to a call in progress, unless the call
\* that removes it threw or the pid was used before.
THEOREM NothingLeft == Spec => []NothingStranded
<1>1. Init => LockAccounted /\ EntriesAccounted
  BY Records DEF Init, LockAccounted, EntriesAccounted
<1>2. LockAccounted /\ EntriesAccounted => NothingStranded
  BY DEF LockAccounted, EntriesAccounted, NothingStranded
<1>3. QED
  BY <1>1, <1>2, AccountedStep, Inductive, PTL DEF Spec
===========================================================================
