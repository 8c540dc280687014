------------------------------ MODULE StateLock ------------------------------
(***************************************************************************)
(* The lock of one goal's files (base/state/state-lock.ts): a directory in *)
(* locks/goals made by mkdir, then a pid file written into it, and before  *)
(* it, when the goal has a directory already, the same in there, for       *)
(* processes of older versions.  One action is one awaited file-system     *)
(* call.  GoalState says what happens in between, while a process holds    *)
(* both.  A definition named for a slip stands before the one it gets      *)
(* wrong.                                                                  *)
(***************************************************************************)
EXTENDS Naturals

CONSTANTS
  Proc,                \* processes that use the goal
  NoProc, Bare, Dead,  \* no directory; one without a pid; one of a dead process
  WritesFail           \* a file operation may throw

ASSUME LockAssumption ==
  /\ Proc \cap {NoProc, Bare, Dead} = {} /\ NoProc # Bare /\ Bare # Dead /\ NoProc # Dead
  /\ WritesFail \in BOOLEAN

VARIABLES
  dir,      \* the two lock directories: their owner
  at,       \* of each process: the directory it is at, and its next call there
  needs,    \* needsLegacyLock of each process
  maker,    \* history: the process that made the stable directory that stands
  robbed,   \* history: a stable directory was removed under the process that made it
  orphaned  \* history: a process died, or a write failed, between mkdir and the pid

lockVars == <<dir, at, needs, maker, robbed, orphaned>>

Dirs == {"legacy", "stable"}
Place(d, s) == [dir |-> d, step |-> s]
Away == Place("legacy", "none")

LockInit ==
  /\ dir = [d \in Dirs |-> NoProc]
  /\ at = [p \in Proc |-> Away]
  /\ needs = [p \in Proc |-> FALSE]
  /\ maker = NoProc /\ robbed = FALSE /\ orphaned = FALSE

Here(p) == at[p].dir
AtStep(p, s) == at[p].step = s
Holding(p) == AtStep(p, "held")
Goes(p, d, s) == at' = [at EXCEPT ![p] = Place(d, s)]

-----------------------------------------------------------------------------

\* acquireLock: the legacy directory first, if the goal has a directory.
Ask(p, exists) ==
  /\ AtStep(p, "none")
  /\ needs' = [needs EXCEPT ![p] = exists]
  /\ Goes(p, IF exists THEN "legacy" ELSE "stable", "mkdir")
  /\ UNCHANGED <<dir, maker, robbed, orphaned>>

\* acquireLock throws; for the stable directory it gives the legacy one back first.
GivesUpKeeping(p) == Goes(p, "legacy", "none")
GivesUp(p) ==
  IF Here(p) = "stable" /\ needs[p] THEN Goes(p, "legacy", "free") ELSE Goes(p, "legacy", "none")

\* tryAcquire answered false: sleep and try again, until the time is up.
WaitOrGiveUp(p) == Goes(p, Here(p), "mkdir") \/ GivesUp(p)

\* mkdir: the directory is made, or is there (EEXIST) and looked at; not so when it
\* was removed by p just now.
Mkdir(p) ==
  /\ AtStep(p, "mkdir") \/ AtStep(p, "again")
  /\ IF dir[Here(p)] = NoProc
     THEN /\ dir' = [dir EXCEPT ![Here(p)] = Bare]
          /\ maker' = IF Here(p) = "stable" THEN p ELSE maker
          /\ Goes(p, Here(p), "pid")
     ELSE /\ IF AtStep(p, "again") THEN WaitOrGiveUp(p) ELSE Goes(p, Here(p), "look")
          /\ UNCHANGED <<dir, maker>>
  /\ UNCHANGED <<needs, robbed, orphaned>>

StaleIfUnnamed(d) == dir[d] \in {Dead, Bare}
\* The pid file names a process that is dead.
Stale(d) == dir[d] = Dead

\* clearStaleLock reads the pid.  One that cannot be read, or is alive, leaves
\* the directory alone; the second mkdir that follows at once adds nothing then.
Look(p) ==
  /\ AtStep(p, "look")
  /\ IF Stale(Here(p)) THEN Goes(p, Here(p), "remove")
     ELSE WaitOrGiveUp(p)
  /\ UNCHANGED <<dir, needs, maker, robbed, orphaned>>

\* Whose directory is removed now: p's own, or one made since it was looked at?
RemovesDir(p, d) ==
  /\ dir' = [dir EXCEPT ![d] = NoProc]
  /\ IF d = "stable"
     THEN /\ maker' = NoProc
          /\ robbed' = (robbed \/ (maker \in Proc \ {p} /\ at[maker].dir = d /\ at[maker].step \in {"pid", "held"}))
     ELSE UNCHANGED <<maker, robbed>>
  /\ UNCHANGED <<needs, orphaned>>

\* fsp.rm of the directory that was judged stale; mkdir again.
RemoveStale(p) ==
  /\ AtStep(p, "remove")
  /\ RemovesDir(p, Here(p))
  /\ Goes(p, Here(p), "again")

\* The pid is written.  When the directory is gone the write throws ENOENT, which
\* acquireLock takes, for the legacy directory, as no need for it.
WritePid(p) ==
  /\ AtStep(p, "pid")
  /\ dir' = [dir EXCEPT ![Here(p)] = IF @ = NoProc THEN NoProc ELSE p]
  /\ IF Here(p) = "legacy" THEN Goes(p, "stable", "mkdir")
     ELSE IF dir[Here(p)] = NoProc THEN GivesUp(p)
     ELSE Goes(p, "stable", "held")
  /\ UNCHANGED <<needs, maker, robbed, orphaned>>

\* Writing the pid throws: the directory stays as it is.
PidFails(p) ==
  /\ WritesFail /\ AtStep(p, "pid") /\ dir[Here(p)] # NoProc
  /\ orphaned' = TRUE
  /\ GivesUp(p)
  /\ UNCHANGED <<dir, needs, maker, robbed>>

\* releaseLock removes the stable directory, then the legacy one, whoever made them.
FreeStable(p) ==
  /\ Holding(p)
  /\ RemovesDir(p, "stable")
  /\ Goes(p, "legacy", "free")

FreeLegacy(p) ==
  /\ AtStep(p, "free")
  /\ RemovesDir(p, "legacy")
  /\ Goes(p, "legacy", "none")

\* The process dies: so does the pid in its directories.
LockDies(p) ==
  /\ dir' = [d \in Dirs |-> IF dir[d] = p THEN Dead ELSE dir[d]]
  /\ at' = [at EXCEPT ![p] = Away]
  /\ needs' = [needs EXCEPT ![p] = FALSE]
  /\ orphaned' = (orphaned \/ AtStep(p, "pid"))
  /\ UNCHANGED <<maker, robbed>>

Acquiring(p) == Mkdir(p) \/ Look(p) \/ RemoveStale(p) \/ WritePid(p) \/ PidFails(p)

-----------------------------------------------------------------------------
(* Properties *)

\* No live process leaves a directory behind that names it, on whichever way it
\* gives up or releases; and one that names nobody, which no one ever clears, is
\* on its way to be named, or its maker died or failed to write its pid.
NoLockLeft ==
  \A d \in Dirs :
    /\ \A p \in Proc : dir[d] = p =>
         at[p].step # "none" /\ (d = "stable" => at[p].dir = d /\ at[p].step = "held")
    /\ dir[d] = Bare => orphaned \/ \E p \in Proc : at[p] = Place(d, "pid")
=============================================================================
