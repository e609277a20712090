------------------------------ MODULE FileLock ------------------------------
(***************************************************************************)
(* The cross-process file lock every board, inbox and store write of the   *)
(* application takes: agent-teams-controller/src/internal/fileLock.js and  *)
(* its desktop twin src/main/services/team/fileLock.ts (same protocol).    *)
(*                                                                         *)
(* A call publishes a lock file <file>.lock by a no-replace hard link, and *)
(* does so only while it owns the transition gate, a directory published   *)
(* by renaming a private one that already holds the owner's entry.  Locks  *)
(* and gates of dead processes are removed by whoever finds them.  Each    *)
(* action below is one file-system call; calls of different processes      *)
(* interleave anywhere, calls of one process only where its JavaScript     *)
(* returns to the event loop.                                              *)
(***************************************************************************)
EXTENDS Naturals, FiniteSets

CONSTANTS
  Procs,          \* process identifiers (pids)
  Clients,        \* callers of withFileLock / withFileLockSync
  ProcOf,         \* [Clients -> Procs]: the process a caller runs in
  SyncClients,    \* the callers that use withFileLockSync
  TakeoverProcs,  \* processes whose lock options let them remove an old runtime directory
  NoClient,       \* "no caller", in the records below
  MaxCalls,       \* [Clients -> Nat]: bound: calls each caller makes
  ReusedPids,     \* the pids the system hands to a new process after their owner died
  MaxCrashes,     \* bound: processes that die
  FaultKinds,     \* bound: the kinds of file-system calls that throw, once each
  MaxDirs         \* bound: acquisitions by a runtime that locks with a directory

ASSUME ConstantsAssumption ==
  /\ ProcOf \in [Clients -> Procs]
  /\ SyncClients \subseteq Clients
  /\ TakeoverProcs \subseteq Procs
  /\ NoClient \notin Clients
  /\ ReusedPids \subseteq Procs
  /\ FaultKinds \subseteq {"acquire", "cleanup", "release"}
  /\ MaxCalls \in [Clients -> Nat]
  /\ MaxCrashes \in Nat /\ MaxDirs \in Nat

VARIABLES
  alive,      \* [Procs -> BOOLEAN]
  pc,         \* [Clients -> Labels]: the next file-system call of each caller
  call,       \* [Clients -> Nat]: number of calls made; names the call's random token
  published,  \* [Clients -> BOOLEAN]: tryAcquire's local `published`
  seen,       \* [Clients -> lock records]: the entry or lock a recovery observed
  gateDir,    \* BOOLEAN: the gate directory exists
  entries,    \* the owner entries in it
  lock,       \* what <file>.lock is
  runtime,    \* where a directory-locking runtime is: "out", "owner", "inside"
  aged,       \* the lock directories older than staleTimeoutMs
  crashes,    \* Nat: processes that died
  faults,     \* the kinds of calls that have thrown
  dirs        \* Nat: lock directories made

vars == <<alive, pc, call, published, seen, gateDir, entries, lock, runtime,
          aged, crashes, faults, dirs>>

-----------------------------------------------------------------------------
(* File-system objects *)

\* The token of a caller's n-th call; a gate entry and a lock file both carry it
\* with its pid.
Token(c, n) == [kind |-> "pid", client |-> c, n |-> n]
Tokens == [kind : {"pid"}, client : Clients, n : Nat]

NoLock == [kind |-> "none", client |-> NoClient, n |-> 0]
\* A legacy anonymous or malformed lock file: no pid can be read from it.
UnknownLock == [kind |-> "unknown", client |-> NoClient, n |-> 0]
\* The n-th lock directory a runtime made; n stands for its inode and birth time.
DirLock(n) == [kind |-> "dir", client |-> NoClient, n |-> n]

LockStates == Tokens \cup {NoLock, UnknownLock} \cup
              [kind : {"dir"}, client : {NoClient}, n : Nat]

\* The token of the call caller c is making.
Mine(c) == Token(c, call[c])

\* isProcessAlive of the pid an entry or lock file names.
PidAlive(t) == alive[ProcOf[t.client]]

-----------------------------------------------------------------------------
(* Control points *)

\* acquireGate and recoverGate.
GatePoints == {"statGate", "renameGate", "listGate", "probeEntry", "unlinkEntry",
               "rmdirGate"}
\* tryAcquire while its entry is in the gate.  At "unwindEntry", and at "unwindGate"
\* after it, its `finally` runs with an error on its way out.
ProtectedPoints == {"readLock", "probeOwner", "rereadLock", "removeLock", "statLock",
                    "linkLock", "unlinkOwnEntry", "unwindEntry"}
\* The lock file, if published, is this call's.
HoldingPoints == {"inside", "releaseRead", "releaseUnlink"}
Labels == {"idle", "wait", "rmdirOwnGate", "unwindGate"} \cup GatePoints \cup ProtectedPoints
          \cup HoldingPoints

\* c's JavaScript is on its process's stack.  An asynchronous caller leaves it while
\* it sleeps between attempts and while its callback is pending; a synchronous one
\* spins and runs its callback on it.
OnStack(c) ==
  /\ pc[c] # "idle"
  /\ c \in SyncClients \/ pc[c] \notin {"wait", "inside"}

CanRun(c) ==
  /\ alive[ProcOf[c]]
  /\ \A d \in Clients \ {c} : ProcOf[d] = ProcOf[c] => ~OnStack(d)

At(c, l) == pc[c] = l /\ CanRun(c)
Goto(c, l) == pc' = [pc EXCEPT ![c] = l]
Observe(c, x) == seen' = [seen EXCEPT ![c] = x]
\* A recovery returns, and with it goes what it observed.
Forget(c) == Observe(c, NoLock)

-----------------------------------------------------------------------------
Init ==
  /\ alive = [p \in Procs |-> TRUE]
  /\ pc = [c \in Clients |-> "idle"]
  /\ call = [c \in Clients |-> 0]
  /\ published = [c \in Clients |-> FALSE]
  /\ seen = [c \in Clients |-> NoLock]
  /\ gateDir = FALSE
  /\ entries = {}
  /\ lock \in {NoLock, UnknownLock}
  /\ runtime = "out"
  /\ aged = {}
  /\ crashes = 0
  /\ faults = {}
  /\ dirs = 0

\* What a step of a caller's own code never changes.
Environment == <<alive, runtime, aged, crashes, dirs>>

\* One call of this kind throws.
MayThrow(kind) == kind \in FaultKinds \ faults /\ faults' = faults \cup {kind}

\* withFileLock draws one random token and starts its first attempt.
Begin(c) ==
  /\ At(c, "idle")
  /\ call[c] < MaxCalls[c]
  /\ call' = [call EXCEPT ![c] = @ + 1]
  /\ Goto(c, "statGate")
  /\ UNCHANGED <<published, seen, gateDir, entries, lock, faults, Environment>>

-----------------------------------------------------------------------------
(* acquireGate *)

\* An existing gate directory is only recovered in this attempt, never taken.
StatGate(c) ==
  /\ At(c, "statGate")
  /\ Goto(c, IF gateDir THEN "listGate" ELSE "renameGate")
  /\ UNCHANGED <<call, published, seen, gateDir, entries, lock, faults, Environment>>

\* Rename of the private candidate, which already holds the entry, onto the gate.
\* It replaces no directory but an empty one, and on Windows not even that.
RenameGate(c) ==
  /\ At(c, "renameGate")
  /\ \/ /\ entries = {}
        /\ gateDir' = TRUE
        /\ entries' = {Mine(c)}
        /\ Goto(c, "readLock")
     \/ /\ gateDir
        /\ Goto(c, "listGate")
        /\ UNCHANGED <<gateDir, entries>>
  /\ UNCHANGED <<call, published, seen, lock, faults, Environment>>

-----------------------------------------------------------------------------
(* recoverGate, which ends the attempt of a caller that met a gate *)

\* readdir: a single entry names its owner; none leaves the empty directory to
\* rmdir; more than one is an unknown state and is left alone.
ListGate(c) ==
  /\ At(c, "listGate")
  /\ \/ /\ gateDir /\ entries = {}
        /\ Goto(c, "rmdirGate")
        /\ UNCHANGED seen
     \/ \E e \in entries :
          /\ entries = {e}
          /\ Observe(c, e)
          /\ Goto(c, "probeEntry")
     \/ /\ ~gateDir \/ Cardinality(entries) > 1
        /\ Goto(c, "wait")
        /\ UNCHANGED seen
  /\ UNCHANGED <<call, published, gateDir, entries, lock, faults, Environment>>

\* Mutant: an occupied gate is never recovered, whoever owns it.
ProbeEntry_FailsClosed(c) ==
  /\ At(c, "probeEntry")
  /\ Goto(c, "wait") /\ Forget(c)
  /\ UNCHANGED <<call, published, gateDir, entries, lock, faults, Environment>>

\* lstat and read of the entry, whose content never changes, then the liveness
\* probe of its pid.
ProbeEntry(c) ==
  /\ At(c, "probeEntry")
  /\ IF seen[c] \in entries /\ ~PidAlive(seen[c])
       THEN Goto(c, "unlinkEntry") /\ UNCHANGED seen
       ELSE Goto(c, "wait") /\ Forget(c)
  /\ UNCHANGED <<call, published, gateDir, entries, lock, faults, Environment>>

\* Mutant: the recovery empties the directory instead of unlinking the dead token.
UnlinkEntry_Empties(c) ==
  /\ At(c, "unlinkEntry")
  /\ entries' = {}
  /\ Goto(c, "rmdirGate")
  /\ UNCHANGED <<call, published, seen, gateDir, lock, faults, Environment>>

\* The path names the dead token, so no successor's entry can be hit.
UnlinkEntry(c) ==
  /\ At(c, "unlinkEntry")
  /\ entries' = entries \ {seen[c]}
  /\ Goto(c, "rmdirGate")
  /\ UNCHANGED <<call, published, seen, gateDir, lock, faults, Environment>>

\* Mutant: the directory is taken for removed although it is not empty.
RmdirGate_Unchecked(c) ==
  /\ At(c, "rmdirGate")
  /\ gateDir' = FALSE
  /\ Goto(c, "wait")
  /\ Forget(c)
  /\ UNCHANGED <<call, published, entries, lock, faults, Environment>>

\* removeEmptyGate: rmdir of a nonempty or missing directory is not an error.
RmdirGate(c) ==
  /\ At(c, "rmdirGate")
  /\ gateDir' = (gateDir /\ entries # {})
  /\ Goto(c, "wait")
  /\ Forget(c)
  /\ UNCHANGED <<call, published, entries, lock, faults, Environment>>

-----------------------------------------------------------------------------
(* recoverDataLock, under the gate *)

\* First lstat and read of the lock path.  A missing, anonymous or malformed lock is
\* not recovered.
ReadLock(c) ==
  /\ At(c, "readLock")
  /\ IF lock.kind \in {"pid", "dir"}
       THEN Goto(c, "probeOwner") /\ Observe(c, lock)
       ELSE Goto(c, "statLock") /\ UNCHANGED seen
  /\ UNCHANGED <<call, published, gateDir, entries, lock, faults, Environment>>

\* Mutant: a lock file is taken over whether or not its process lives.
Abandoned_AnyOwner(c) ==
  \/ seen[c].kind = "pid"
  \/ seen[c].kind = "dir" /\ ProcOf[c] \in TakeoverProcs /\ seen[c].n \in aged

\* Mutant: every caller removes a runtime's directory it meets.
Abandoned_AnyDirectory(c) ==
  \/ seen[c].kind = "pid" /\ ~PidAlive(seen[c])
  \/ seen[c].kind = "dir"

\* Is what was read abandoned?  A pid's liveness decides for a file.  For a runtime
\* directory the controller and strict owners say no; others look at its age.
Abandoned(c) ==
  \/ seen[c].kind = "pid" /\ ~PidAlive(seen[c])
  \/ seen[c].kind = "dir" /\ ProcOf[c] \in TakeoverProcs /\ seen[c].n \in aged

ProbeOwner(c) ==
  /\ At(c, "probeOwner")
  /\ IF Abandoned(c)
       THEN Goto(c, "rereadLock") /\ UNCHANGED seen
       ELSE Goto(c, "statLock") /\ Forget(c)
  /\ UNCHANGED <<call, published, gateDir, entries, lock, faults, Environment>>

\* sameLock: the second read must find the same inode with the same content.
RereadLock(c) ==
  /\ At(c, "rereadLock")
  /\ IF lock = seen[c]
       THEN Goto(c, "removeLock") /\ UNCHANGED seen
       ELSE Goto(c, "statLock") /\ Forget(c)
  /\ UNCHANGED <<call, published, gateDir, entries, lock, faults, Environment>>

\* unlink of a file, rmdir of a directory: each by path, whatever object of that
\* kind is there now.
RemoveLock(c) ==
  /\ At(c, "removeLock")
  /\ lock' = IF lock.kind = seen[c].kind THEN NoLock ELSE lock
  /\ Goto(c, "statLock")
  /\ Forget(c)
  /\ UNCHANGED <<call, published, gateDir, entries, faults, Environment>>

-----------------------------------------------------------------------------
(* tryAcquire, under the gate *)

\* A lock that recovery left in place fails the attempt.
StatLock(c) ==
  /\ At(c, "statLock")
  /\ Goto(c, IF lock = NoLock THEN "linkLock" ELSE "unlinkOwnEntry")
  /\ UNCHANGED <<call, published, seen, gateDir, entries, lock, faults, Environment>>

\* Mutant: the candidate is renamed onto the lock path, which replaces a lock.
LinkLock_Replaces(c) ==
  /\ At(c, "linkLock")
  /\ lock' = Mine(c)
  /\ published' = [published EXCEPT ![c] = TRUE]
  /\ Goto(c, "unlinkOwnEntry")
  /\ UNCHANGED <<call, seen, gateDir, entries, faults, Environment>>

\* link publishes the complete private candidate and replaces nothing.
LinkLock(c) ==
  /\ At(c, "linkLock")
  /\ IF lock = NoLock
       THEN lock' = Mine(c) /\ published' = [published EXCEPT ![c] = TRUE]
       ELSE UNCHANGED <<lock, published>>
  /\ Goto(c, "unlinkOwnEntry")
  /\ UNCHANGED <<call, seen, gateDir, entries, faults, Environment>>

\* A call of acquireGate or recoverGate throws: there is only the private candidate to
\* remove, and the caller's call ends.
GateThrows(c) ==
  /\ pc[c] \in GatePoints /\ CanRun(c)
  /\ MayThrow("acquire")
  /\ Goto(c, "idle")
  /\ Forget(c)
  /\ UNCHANGED <<call, published, gateDir, entries, lock, Environment>>

\* A call under the gate throws (no hard links, no space, no permission), the last of
\* them the unlink of the private candidate after its link was made: the `finally`
\* still empties the gate.
ProtectedThrows(c) ==
  /\ \/ pc[c] \in {"readLock", "rereadLock", "removeLock", "statLock", "linkLock"}
     \/ pc[c] = "unlinkOwnEntry" /\ published[c]
  /\ CanRun(c)
  /\ MayThrow("acquire")
  /\ Goto(c, "unwindEntry")
  /\ Forget(c)
  /\ UNCHANGED <<call, published, gateDir, entries, lock, Environment>>

\* The `finally` of tryAcquire: the entry goes first, then the empty directory.
UnlinkOwnEntry(c) ==
  /\ pc[c] \in {"unlinkOwnEntry", "unwindEntry"} /\ CanRun(c)
  /\ entries' = entries \ {Mine(c)}
  /\ Goto(c, IF pc[c] = "unlinkOwnEntry" THEN "rmdirOwnGate" ELSE "unwindGate")
  /\ UNCHANGED <<call, published, seen, gateDir, lock, faults, Environment>>

\* Where tryAcquire leaves its caller: it returns `published`, and the callback starts
\* or the caller waits; or an error is rethrown, after a published lock was released,
\* because its callback will never run.
Returned(c) == IF published[c] THEN "inside" ELSE "wait"
Rethrown(c) == IF published[c] THEN "releaseRead" ELSE "idle"

\* Mutant: the cleanup removes the gate directory with whatever it holds.
RmdirOwnGate_Recursive(c) ==
  /\ pc[c] \in {"rmdirOwnGate", "unwindGate"} /\ CanRun(c)
  /\ gateDir' = FALSE
  /\ entries' = {}
  /\ Goto(c, IF pc[c] = "rmdirOwnGate" THEN Returned(c) ELSE Rethrown(c))
  /\ UNCHANGED <<call, published, seen, lock, faults, Environment>>

RmdirOwnGate(c) ==
  /\ pc[c] \in {"rmdirOwnGate", "unwindGate"} /\ CanRun(c)
  /\ gateDir' = (gateDir /\ entries # {})
  /\ Goto(c, IF pc[c] = "rmdirOwnGate" THEN Returned(c) ELSE Rethrown(c))
  /\ UNCHANGED <<call, published, seen, entries, lock, faults, Environment>>

CleanupPoints == {"unlinkOwnEntry", "unwindEntry", "rmdirOwnGate", "unwindGate"}

\* Mutant: the error is rethrown without undoing the publication.
CleanupThrows_Strands(c) ==
  /\ pc[c] \in CleanupPoints /\ CanRun(c)
  /\ MayThrow("cleanup")
  /\ published' = [published EXCEPT ![c] = FALSE]
  /\ Goto(c, "idle")
  /\ UNCHANGED <<call, seen, gateDir, entries, lock, Environment>>

\* Either cleanup call throws, and leaves the other undone.
CleanupThrows(c) ==
  /\ pc[c] \in CleanupPoints /\ CanRun(c)
  /\ MayThrow("cleanup")
  /\ Goto(c, Rethrown(c))
  /\ UNCHANGED <<call, published, seen, gateDir, entries, lock, Environment>>

-----------------------------------------------------------------------------
(* The acquisition loop, the callback and releaseLock *)

\* The deadline has not passed: another attempt with the same token.
Retry(c) ==
  /\ At(c, "wait")
  /\ Goto(c, "statGate")
  /\ UNCHANGED <<call, published, seen, gateDir, entries, lock, faults, Environment>>

\* Mutant: only the asynchronous loop looks at the deadline.
Timeout_AsyncOnly(c) ==
  /\ At(c, "wait") /\ c \notin SyncClients
  /\ Goto(c, "idle")
  /\ UNCHANGED <<call, published, seen, gateDir, entries, lock, faults, Environment>>

\* The deadline has passed: the call throws.
Timeout(c) ==
  /\ At(c, "wait")
  /\ Goto(c, "idle")
  /\ UNCHANGED <<call, published, seen, gateDir, entries, lock, faults, Environment>>

\* fn returned, threw, or its promise settled.
Finish(c) ==
  /\ At(c, "inside")
  /\ Goto(c, "releaseRead")
  /\ UNCHANGED <<call, published, seen, gateDir, entries, lock, faults, Environment>>

\* releaseLock goes on only if the lock carries this process's pid and this token.
ReleaseRead(c) ==
  /\ At(c, "releaseRead")
  /\ IF lock = Mine(c)
       THEN Goto(c, "releaseUnlink") /\ UNCHANGED published
       ELSE Goto(c, "idle") /\ published' = [published EXCEPT ![c] = FALSE]
  /\ UNCHANGED <<call, seen, gateDir, entries, lock, faults, Environment>>

\* The unlink is by path, outside the gate.
ReleaseUnlink(c) ==
  /\ At(c, "releaseUnlink")
  /\ lock' = IF lock.kind = "dir" THEN lock ELSE NoLock
  /\ published' = [published EXCEPT ![c] = FALSE]
  /\ Goto(c, "idle")
  /\ UNCHANGED <<call, seen, gateDir, entries, faults, Environment>>

\* releaseLock throws: the call ends and its lock file stays.
ReleaseThrows(c) ==
  /\ pc[c] \in {"releaseRead", "releaseUnlink"} /\ CanRun(c)
  /\ MayThrow("release")
  /\ published' = [published EXCEPT ![c] = FALSE]
  /\ Goto(c, "idle")
  /\ UNCHANGED <<call, seen, gateDir, entries, lock, Environment>>

-----------------------------------------------------------------------------
(* The environment *)

\* A process dies: its calls vanish, the files they made stay.
Crash(p) ==
  /\ alive[p]
  /\ crashes < MaxCrashes
  /\ crashes' = crashes + 1
  /\ alive' = [alive EXCEPT ![p] = FALSE]
  /\ pc' = [c \in Clients |-> IF ProcOf[c] = p THEN "idle" ELSE pc[c]]
  /\ published' = [c \in Clients |-> IF ProcOf[c] = p THEN FALSE ELSE published[c]]
  /\ seen' = [c \in Clients |-> IF ProcOf[c] = p THEN NoLock ELSE seen[c]]
  /\ UNCHANGED <<call, gateDir, entries, lock, runtime, aged, faults, dirs>>

\* A new process gets the dead one's pid.
ReusePid(p) ==
  /\ ~alive[p]
  /\ p \in ReusedPids
  /\ alive' = [alive EXCEPT ![p] = TRUE]
  /\ UNCHANGED <<pc, call, published, seen, gateDir, entries, lock, runtime, aged, crashes,
                 faults, dirs>>

Callers == <<alive, pc, call, published, seen, gateDir, entries, crashes, faults>>

\* A directory-locking runtime (proper-lockfile) knows nothing of the gate: mkdir of
\* the lock path, its critical section, rmdir.
RuntimeMkdir ==
  /\ runtime = "out" /\ lock = NoLock
  /\ dirs < MaxDirs
  /\ dirs' = dirs + 1
  /\ lock' = DirLock(dirs')
  /\ runtime' = "owner"
  /\ UNCHANGED <<aged, Callers>>

RuntimeEnter ==
  /\ runtime = "owner"
  /\ runtime' = "inside"
  /\ UNCHANGED <<lock, aged, dirs, Callers>>

RuntimeLeave ==
  /\ runtime = "inside"
  /\ runtime' = "owner"
  /\ UNCHANGED <<lock, aged, dirs, Callers>>

RuntimeRmdir ==
  /\ runtime = "owner"
  /\ lock' = IF lock.kind = "dir" THEN NoLock ELSE lock
  /\ runtime' = "out"
  /\ UNCHANGED <<aged, dirs, Callers>>

\* The directory has not been refreshed for longer than staleTimeoutMs.
DirectoryAges ==
  /\ lock.kind = "dir"
  /\ aged' = aged \cup {lock.n}
  /\ UNCHANGED <<lock, runtime, dirs, Callers>>

-----------------------------------------------------------------------------
\* The next file-system call of c's code, when it succeeds.
CodeStep(c) ==
  \/ StatGate(c) \/ RenameGate(c) \/ ListGate(c) \/ ProbeEntry(c) \/ UnlinkEntry(c)
  \/ RmdirGate(c) \/ ReadLock(c) \/ ProbeOwner(c) \/ RereadLock(c) \/ RemoveLock(c)
  \/ StatLock(c) \/ LinkLock(c) \/ UnlinkOwnEntry(c) \/ RmdirOwnGate(c)
  \/ Finish(c) \/ ReleaseRead(c) \/ ReleaseUnlink(c)

Throw(c) == GateThrows(c) \/ ProtectedThrows(c) \/ CleanupThrows(c) \/ ReleaseThrows(c)

Next ==
  \/ \E c \in Clients :
       Begin(c) \/ CodeStep(c) \/ Retry(c) \/ Timeout(c) \/ Throw(c)
  \/ \E p \in Procs : Crash(p) \/ ReusePid(p)
  \/ RuntimeMkdir \/ RuntimeEnter \/ RuntimeLeave \/ RuntimeRmdir
  \/ DirectoryAges

Spec == Init /\ [][Next]_vars

-----------------------------------------------------------------------------
(* Properties *)

\* Every variable has its type, and entries lie in an existing gate directory.
TypeOK ==
  /\ alive \in [Procs -> BOOLEAN]
  /\ pc \in [Clients -> Labels]
  /\ call \in [Clients -> Nat]
  /\ published \in [Clients -> BOOLEAN]
  /\ seen \in [Clients -> LockStates]
  /\ gateDir \in BOOLEAN
  /\ entries \subseteq Tokens /\ (entries # {} => gateDir)
  /\ lock \in LockStates
  /\ runtime \in {"out", "owner", "inside"}
  /\ aged \subseteq Nat
  /\ crashes \in Nat
  /\ faults \subseteq FaultKinds
  /\ dirs \in Nat

\* No two callbacks of withFileLock run at once, whatever crashes, pid reuse, throwing
\* calls and delayed recoveries happen.
MutualExclusion ==
  \A c, d \in Clients : pc[c] = "inside" /\ pc[d] = "inside" => c = d

\* While a call is between publishing its lock and releasing it, the lock file is the
\* one it published: nobody removed or replaced it, so its own unlink by path in
\* releaseLock cannot hit another's.
HolderOwnsLock ==
  \A c \in Clients : published[c] \/ pc[c] \in HoldingPoints => lock = Mine(c)

\* Only the call whose entry is in the gate touches the lock path under it: a delayed
\* unlink or rmdir by an earlier owner or recoverer never opens a successor's gate.
GateExclusion ==
  \A c \in Clients : pc[c] \in ProtectedPoints => gateDir /\ entries = {Mine(c)}

\* Without an age policy for directories, no callback runs while a runtime holds the
\* lock as a directory.
RuntimeExclusion ==
  TakeoverProcs = {} /\ runtime = "inside" => \A c \in Clients : pc[c] # "inside"

\* A lock or gate entry of a live process whose pid was never reused belongs to a call
\* in progress, unless the very call that removes it threw.  Nobody can reclaim such a
\* leftover before the process exits, so every other caller would time out.
NothingStranded ==
  LET Left(t) == PidAlive(t) /\ ProcOf[t.client] \notin ReusedPids
  IN /\ lock.kind = "pid" /\ Left(lock) /\ "release" \notin faults
           => lock = Mine(lock.client) /\ published[lock.client]
     /\ \A e \in entries : Left(e) /\ "cleanup" \notin faults
           => e = Mine(e.client) /\ pc[e.client] \in ProtectedPoints

\* A directory that is not older than the stale timeout is removed by its runtime only.
FreshDirectoryKept ==
  [][lock.kind = "dir" /\ lock.n \notin aged /\ lock' # lock
       => runtime = "owner" /\ runtime' = "out"]_vars

-----------------------------------------------------------------------------
(* The mutual exclusion service the protocol implements *)

Critical == {Mine(c) : c \in {d \in Clients : pc[d] = "inside"}} \cup
            (IF runtime = "inside" THEN {lock} ELSE {})

Service == INSTANCE ReclaimableLock
             WITH Owners <- LockStates \ {NoLock}, None <- NoLock,
                  holder <- lock, critical <- Critical

\* Every step of the protocol is a step of the service or invisible to it: a lock is
\* granted only when free, and leaves its owner only outside the critical section.
ImplementsService == Service!Spec

-----------------------------------------------------------------------------
(* Liveness *)

\* A caller parked in the event loop is resumed by it (SF: others of its process keep
\* taking the stack); code on the stack runs on.  Nothing is assumed of new calls,
\* deadlines, faults, crashes or the runtime.
Fairness ==
  \A c \in Clients :
    /\ WF_vars(CodeStep(c))
    /\ SF_vars(Retry(c) \/ Timeout(c) \/ Finish(c))

FairSpec == Spec /\ Fairness

\* What a dead process left, lock or gate entry, is removed while anyone keeps trying.
DeadOwnersReclaimed ==
  \A c \in Clients : \A n \in 1..MaxCalls[c] :
    LET t == Token(c, n)
    IN (~PidAlive(t) /\ (lock = t \/ t \in entries))
         ~> \/ PidAlive(t)
            \/ lock # t /\ t \notin entries
            \/ \A d \in Clients : pc[d] = "idle"

\* If deadlines pass, every call ends: also that of a synchronous caller which spins on
\* the lock of an asynchronous one whose process it blocks.
CallsEnd ==
  (\A c \in Clients : SF_vars(Timeout(c)))
    => \A c \in Clients : pc[c] # "idle" ~> pc[c] = "idle"
=============================================================================
