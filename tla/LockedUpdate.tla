---------------------------- MODULE LockedUpdate ----------------------------
(***************************************************************************)
(* What the lock is for: the update of a shared JSON file.  The callback   *)
(* of withFileLock reads the file, awaits, computes the next value and     *)
(* publishes it by renaming a complete private file onto the path          *)
(* (VersionedJsonStore.updateLocked; the recovery repository, the inbox    *)
(* writer and the controller's stores do the same).  The other modules     *)
(* take such an update as one step.  Here it is several, of callers of     *)
(* different processes that pause, throw and die between any two, beside   *)
(* a runtime that updates the same file under its own kind of lock.        *)
(***************************************************************************)
EXTENDS FileLock

VARIABLES
  content,    \* the file: the updates whose effect is in it
  stage,      \* [Writers -> Stages]: how far the writer's callback is
  copy        \* [Writers -> what the writer's callback read]

updateVars == <<content, stage, copy>>

\* A writer is a caller of withFileLock or, as NoClient, the runtime that locks with a
\* directory.
Writers == Clients \cup {NoClient}
Stages == {"before", "read", "published"}

\* The update a writer is making, named like the lock that protects it.
UpdateOf(w) == IF w = NoClient THEN DirLock(dirs) ELSE Mine(w)

\* The writer is between the grant of the lock and its release.
Locked(w) == IF w = NoClient THEN runtime = "inside" ELSE pc[w] = "inside"

\* Mutant: the store updates its file without the lock.
Runs_Unlocked(w) == w # NoClient => CanRun(w)

\* The callback can take a step.
Runs(w) == Locked(w) /\ (w # NoClient => CanRun(w))

LInit ==
  /\ Init
  /\ content = {}
  /\ stage = [w \in Writers |-> "before"]
  /\ copy = [w \in Writers |-> {}]

\* A step of the lock protocol.  A callback may return or throw at any stage, and a
\* process may die at any; the callback's locals go with it, the file stays.
LockStep ==
  /\ Next
  /\ stage' = [w \in Writers |-> IF Locked(w)' THEN stage[w] ELSE "before"]
  /\ copy' = [w \in Writers |-> IF Locked(w)' THEN copy[w] ELSE {}]
  /\ UNCHANGED content

\* readUnlocked, at the beginning of the callback; the inbox writer reads back what it
\* wrote and repeats both if it misses itself.
Read(w) ==
  /\ Runs(w) /\ stage[w] # "read"
  /\ copy' = [copy EXCEPT ![w] = content]
  /\ stage' = [stage EXCEPT ![w] = "read"]
  /\ UNCHANGED <<vars, content>>

\* The rename replaces the whole file by what was computed from the copy.  An updater
\* that throws, or changes nothing, never comes here.
Publish(w) ==
  /\ Runs(w) /\ stage[w] = "read"
  /\ content' = copy[w] \cup {UpdateOf(w)}
  /\ copy' = [copy EXCEPT ![w] = {}]
  /\ stage' = [stage EXCEPT ![w] = "published"]
  /\ UNCHANGED vars

LNext == LockStep \/ \E w \in Writers : Read(w) \/ Publish(w)

LSpec == LInit /\ [][LNext]_<<vars, updateVars>>

\* The fairness of the lock; none is needed of the callback's own steps, since a
\* callback may end at any stage.
FairLSpec == LSpec /\ Fairness

-----------------------------------------------------------------------------
(* Properties *)

LTypeOK ==
  /\ content \subseteq LockStates
  /\ stage \in [Writers -> Stages]
  /\ copy \in [Writers -> SUBSET LockStates]

\* The file only changes by one update, made to all that the file holds at that moment:
\* no update is lost to another that read the file before it, whoever pauses, throws,
\* dies or is reclaimed in between.  (Where a process takes over runtime directories this
\* fails, as FreshDirectoryKept does.)
UpdatesAreAtomic ==
  [][\E w \in Writers : content' = content \cup {UpdateOf(w)}]_content
=============================================================================
