------------------------- MODULE LockedUpdateProofs -------------------------
(***************************************************************************)
(* An update under the lock is atomic, for any number of processes,        *)
(* callers, calls and crashes.                                             *)
(***************************************************************************)
EXTENDS LockedUpdate, FileLockProofs

\* Nobody removes the lock of a runtime that is at work: no process is allowed to, or
\* there is no such runtime.
LocksRespected == TakeoverProcs = {} \/ MaxDirs = 0

-----------------------------------------------------------------------------
(* The update runs the lock protocol *)

LEMMA LStep == [LNext]_<<vars, updateVars>> => [Next]_vars
BY DEF LNext, LockStep, Read, Publish, vars, updateVars

\* What the lock protocol guarantees it guarantees to the updates.
LEMMA RunsLock == LSpec => Spec
<1>1. LInit => Init
  BY DEF LInit
<1>2. QED
  BY <1>1, LStep, PTL DEF LSpec, Spec

\* A runtime that may make no directory never holds the lock.
NoRuntime == MaxDirs = 0 => runtime = "out"

LEMMA NoRuntimeStep == IInv /\ NoRuntime /\ [Next]_vars => NoRuntime'
<1> SUFFICES ASSUME IInv, runtime = "out", MaxDirs = 0, [Next]_vars
             PROVE  runtime' = "out"
  BY DEF NoRuntime
<1>1. CASE UNCHANGED vars
  BY <1>1 DEF vars
<1>2. CASE \E c \in Clients : ClientStep(c)
  BY <1>2, ClientFrame DEF IInv
<1>3. CASE \E p \in Procs : Crash(p) \/ ReusePid(p)
  BY <1>3 DEF Crash, ReusePid
<1>4. CASE RuntimeStep
  <2>1. ~(dirs < MaxDirs)
    BY DEF IInv, TypeOK
  <2>2. QED
    BY <1>4, <2>1 DEF RuntimeStep, RuntimeMkdir, RuntimeEnter, RuntimeLeave, RuntimeRmdir,
       DirectoryAges
<1>5. QED
  BY <1>1, <1>2, <1>3, <1>4 DEF Next, ClientStep, RuntimeStep

\* One writer at a time is in its callback.
OneWriter == \A v, w \in Writers : Locked(v) /\ Locked(w) => v = w

LEMMA Alone ==
  ASSUME LocksRespected, IInv, RuntimeInv, NoRuntime
  PROVE  OneWriter
<1>1. ASSUME NEW c \in Clients, pc[c] = "inside"
      PROVE  lock = Mine(c) /\ lock.kind = "pid" /\ lock.client = c
  <2>1. lock = Mine(c)
    BY <1>1 DEF IInv, PublishedInv, HoldingPoints
  <2>2. QED
    BY <2>1, Records DEF Mine, IInv, TypeOK
<1>2. ASSUME runtime = "inside" PROVE lock.kind = "dir"
  BY <1>2 DEF LocksRespected, RuntimeInv, NoRuntime
<1>3. QED
  BY <1>1, <1>2 DEF OneWriter, Writers, Locked

-----------------------------------------------------------------------------
(* The inductive invariant of the update *)

\* A callback past its read is still under the lock, and what it read is what the file
\* holds.
CopyInv ==
  \A w \in Writers :
    /\ stage[w] # "before" => Locked(w)
    /\ stage[w] = "read" => copy[w] = content

UInv == LTypeOK /\ CopyInv

LEMMA UpdateTyped == ASSUME IInv, NEW w \in Writers PROVE UpdateOf(w) \in LockStates
BY Records DEF UpdateOf, Writers, Mine, IInv, TypeOK

LEMMA UInvInit == LInit => UInv
BY DEF LInit, UInv, LTypeOK, CopyInv, Stages

LEMMA LockStepUInv == UInv /\ LockStep => UInv'
<1> SUFFICES ASSUME UInv, LockStep PROVE UInv'
  OBVIOUS
<1>1. /\ stage' = [w \in Writers |-> IF Locked(w)' THEN stage[w] ELSE "before"]
      /\ copy' = [w \in Writers |-> IF Locked(w)' THEN copy[w] ELSE {}]
      /\ content' = content
  BY DEF LockStep
<1>2. LTypeOK'
  BY <1>1 DEF UInv, LTypeOK, Stages
<1>3. CopyInv'
  BY <1>1 DEF UInv, CopyInv
<1>4. QED
  BY <1>2, <1>3 DEF UInv

LEMMA ReadUInv == ASSUME UInv, NEW w \in Writers, Read(w) PROVE UInv'
<1>1. \A v \in Writers : Locked(v)' <=> Locked(v)
  BY DEF Read, vars, Locked
<1>2. LTypeOK'
  BY DEF Read, UInv, LTypeOK, Stages
<1>3. Locked(w) /\ content' = content
  BY DEF Read, Runs
<1>4. CopyInv'
  BY <1>1, <1>3 DEF Read, UInv, LTypeOK, CopyInv
<1>5. QED
  BY <1>2, <1>4 DEF UInv

\* Nobody else can have read the file meanwhile.
LEMMA PublishUInv ==
  ASSUME IInv, OneWriter, UInv, NEW w \in Writers, Publish(w)
  PROVE  UInv' /\ content' = content \cup {UpdateOf(w)}
<1>1. \A v \in Writers : Locked(v)' <=> Locked(v)
  BY DEF Publish, vars, Locked
<1>2. Locked(w) /\ content' = content \cup {UpdateOf(w)}
  BY DEF Publish, Runs, UInv, CopyInv
<1>3. LTypeOK'
  BY <1>2, UpdateTyped DEF Publish, UInv, LTypeOK, Stages
<1>4. \A v \in Writers \ {w} : stage'[v] = stage[v] /\ stage[v] = "before"
  BY <1>2 DEF Publish, UInv, LTypeOK, CopyInv, OneWriter
<1>5. stage'[w] = "published"
  BY DEF Publish, UInv, LTypeOK
<1>6. CopyInv'
  BY <1>1, <1>2, <1>4, <1>5 DEF CopyInv
<1>7. QED
  BY <1>2, <1>3, <1>6 DEF UInv

LEMMA UStep ==
  ASSUME LocksRespected
  PROVE  IInv /\ RuntimeInv /\ NoRuntime /\ UInv /\ [LNext]_<<vars, updateVars>>
           => /\ UInv'
              /\ [\E w \in Writers : content' = content \cup {UpdateOf(w)}]_content
<1> SUFFICES ASSUME IInv, RuntimeInv, NoRuntime, UInv, [LNext]_<<vars, updateVars>>
             PROVE  /\ UInv'
                    /\ \/ \E w \in Writers : content' = content \cup {UpdateOf(w)}
                       \/ content' = content
  OBVIOUS
<1>1. OneWriter
  BY Alone
<1>2. CASE LockStep
  BY <1>2, LockStepUInv DEF LockStep
<1>3. CASE \E w \in Writers : Read(w)
  BY <1>3, ReadUInv DEF Read
<1>4. CASE \E w \in Writers : Publish(w)
  BY <1>1, <1>4, PublishUInv
<1>5. CASE UNCHANGED <<vars, updateVars>>
  BY <1>5 DEF vars, updateVars, UInv, LTypeOK, CopyInv, Locked
<1>6. QED
  BY <1>2, <1>3, <1>4, <1>5 DEF LNext

-----------------------------------------------------------------------------
(* What follows *)

\* The lock's guarantees hold throughout.
LEMMA LockHolds == LSpec => [](IInv /\ RuntimeInv /\ NoRuntime)
<1>1. Init => NoRuntime
  BY DEF Init, NoRuntime
<1>2. QED
  BY <1>1, NoRuntimeStep, RunsLock, Inductive, RuntimeInvariant, PTL DEF Spec

\* A callback that has read the file works on what the file holds until it publishes.
THEOREM UpdateInvariant ==
  ASSUME LocksRespected
  PROVE  LSpec => []UInv
BY UInvInit, UStep, LockHolds, PTL DEF LSpec

\* Every change of the file is one writer's update of all that it held: none is lost.
THEOREM NoUpdateLost ==
  ASSUME LocksRespected
  PROVE  LSpec => UpdatesAreAtomic
BY UStep, UpdateInvariant, LockHolds, PTL DEF LSpec, UpdatesAreAtomic
=============================================================================
