----------------------------- MODULE JournalLock -----------------------------
(***************************************************************************)
(* The bracket around every operation of the journal queue, opened up:     *)
(* acquireJournalLock and withLockedState, one file-system call per step.  *)
(* Each process runs one operation, retrying when it is refused; what the  *)
(* operation does to the queue is abstracted to the name of the process    *)
(* that ran it.  The lock is a directory, with an owner.json inside that   *)
(* carries the time its maker began to wait (acquiredAt is startedAt).     *)
(* A removal (rmSync) and a rename are single steps.                       *)
(***************************************************************************)
EXTENDS Naturals, FiniteSets

CONSTANTS
  Proc,        \* processes sharing one journal path
  StaleAfter,  \* LOCK_STALE_MS
  Timeout,     \* LOCK_TIMEOUT_MS
  MaxNow,      \* bound on the clock
  MaxCrashes   \* bound on the processes that die

ASSUME TimesAssumption == StaleAfter \in Nat /\ Timeout \in Nat /\ MaxNow \in Nat /\ MaxCrashes \in Nat

VARIABLES
  now,      \* Date.now()
  pc,       \* the next file-system call of each process
  started,  \* startedAt of its current attempt
  dir,      \* the lock directory stands
  owner,    \* the acquiredAt in its owner.json, none when it is empty
  journal,  \* the operations in the journal file
  loaded,   \* what each process read of it
  maker,    \* history: the process that made the lock directory that stands
  robbed    \* history: the directory of a live holder was removed

lockVars == <<dir, owner, maker, robbed>>
vars == <<now, pc, started, journal, loaded, lockVars>>

Init ==
  /\ now = 0
  /\ pc = [p \in Proc |-> "idle"]
  /\ started = [p \in Proc |-> 0]
  /\ dir = FALSE
  /\ owner = {}
  /\ journal = {}
  /\ loaded = [p \in Proc |-> {}]
  /\ maker = {}
  /\ robbed = FALSE

Goto(p, there) == pc' = [pc EXCEPT ![p] = there]
At(p, here, there) == pc[p] = here /\ Goto(p, there)

\* The process has made the lock directory and not yet given it back.
Inside(p) == pc[p] \in {"own", "put", "load", "persist", "release"}

MakeDir(p) == dir' = TRUE /\ owner' = {} /\ maker' = {p} /\ UNCHANGED robbed

\* rmSync of the lock directory: robbed, if another process that made it needs it.
RemoveDir(p) ==
  /\ dir' = FALSE /\ owner' = {} /\ maker' = {}
  /\ robbed' = (robbed \/ \E q \in maker \ {p} : Inside(q))

-----------------------------------------------------------------------------

\* A call of withLockedState: startedAt is taken once, before the loop.
Start(p) ==
  /\ At(p, "idle", "mkdir")
  /\ started' = [started EXCEPT ![p] = now]
  /\ UNCHANGED <<now, journal, loaded, lockVars>>

\* mkdirSync(lockPath) made the directory.
MkdirRecursive(p) ==
  /\ At(p, "mkdir", "own")
  /\ MakeDir(p)
  /\ UNCHANGED <<now, started, journal, loaded>>
Mkdir(p) ==
  /\ ~dir
  /\ At(p, "mkdir", "own")
  /\ MakeDir(p)
  /\ UNCHANGED <<now, started, journal, loaded>>

\* EEXIST.
Exists(p) ==
  /\ dir
  /\ At(p, "mkdir", "check")
  /\ UNCHANGED <<now, started, journal, loaded, lockVars>>

\* atomicWriteJson(owner.json) first makes its directory again if it has gone.
EnsureOwnerDir(p) ==
  /\ At(p, "own", "put")
  /\ IF dir THEN UNCHANGED lockVars ELSE MakeDir(p)
  /\ UNCHANGED <<now, started, journal, loaded>>

\* ... then writes and renames owner.json, over one that is there.
PutExpiry(p) ==
  /\ dir
  /\ At(p, "put", "load")
  /\ owner' = {started[p] + StaleAfter}
  /\ UNCHANGED <<now, started, journal, loaded, dir, maker, robbed>>
PutOwner(p) ==
  /\ dir
  /\ At(p, "put", "load")
  /\ owner' = {started[p]}
  /\ UNCHANGED <<now, started, journal, loaded, dir, maker, robbed>>

\* ... or throws, when the directory went in between (ENOENT is no EEXIST).
PutFails(p) ==
  /\ ~dir
  /\ At(p, "put", "idle")
  /\ UNCHANGED <<now, started, journal, loaded, lockVars>>

\* The owner read after EEXIST lets a contender take the lock when it names no
\* time, or one too long ago.
TakeableBare == owner = {}
Takeable == owner = {} \/ \E at \in owner : now - at > StaleAfter

SeeTakeable(p) ==
  /\ Takeable
  /\ At(p, "check", "steal")
  /\ UNCHANGED <<now, started, journal, loaded, lockVars>>

\* A held lock: sleep and try again, or give up with an error.
SeeHeld(p) ==
  /\ ~Takeable
  /\ At(p, "check", IF now - started[p] > Timeout THEN "idle" ELSE "mkdir")
  /\ UNCHANGED <<now, started, journal, loaded, lockVars>>

\* rmSync(lockPath), whatever stands there by now.
Steal(p) ==
  /\ At(p, "steal", "mkdir")
  /\ RemoveDir(p)
  /\ UNCHANGED <<now, started, journal, loaded>>

\* loadFromDisk
Load(p) ==
  /\ At(p, "load", "persist")
  /\ loaded' = [loaded EXCEPT ![p] = journal]
  /\ UNCHANGED <<now, started, journal, lockVars>>

\* The mutator ran on what was loaded; persist renames the result into place.
Persist(p) ==
  /\ At(p, "persist", "release")
  /\ journal' = loaded[p] \cup {p}
  /\ UNCHANGED <<now, started, loaded, lockVars>>

\* release() removes the directory, without a look at its owner.
Release(p) ==
  /\ At(p, "release", "done")
  /\ RemoveDir(p)
  /\ UNCHANGED <<now, started, journal, loaded>>

\* The process dies and its directory stays; early enough for the directory to
\* grow stale within the bound on the clock.
Crash(p) ==
  /\ pc[p] \notin {"done", "dead"}
  /\ Cardinality({q \in Proc : pc[q] = "dead"}) < MaxCrashes
  /\ now + StaleAfter < MaxNow
  /\ Goto(p, "dead")
  /\ UNCHANGED <<now, started, journal, loaded, lockVars>>

Tick == now < MaxNow /\ now' = now + 1 /\ UNCHANGED <<pc, started, journal, loaded, lockVars>>

Step(p) ==
  \/ Start(p) \/ Mkdir(p) \/ Exists(p) \/ EnsureOwnerDir(p) \/ PutOwner(p) \/ PutFails(p)
  \/ SeeTakeable(p) \/ SeeHeld(p) \/ Steal(p)
  \/ Load(p) \/ Persist(p) \/ Release(p)

Next == Tick \/ \E p \in Proc : Step(p) \/ Crash(p)

Spec == Init /\ [][Next]_vars

\* A process that does not die keeps running, and time passes.
FairSpec == Spec /\ WF_vars(Tick) /\ \A p \in Proc : WF_vars(Step(p))

-----------------------------------------------------------------------------
(* Properties *)

TypeOK ==
  /\ now \in 0..MaxNow
  /\ pc \in [Proc -> {"idle", "mkdir", "check", "steal", "own", "put", "load", "persist", "release", "done", "dead"}]
  /\ started \in [Proc -> 0..MaxNow]
  /\ dir \in BOOLEAN /\ owner \in SUBSET (0..MaxNow) /\ maker \in SUBSET Proc
  /\ journal \in SUBSET Proc /\ loaded \in [Proc -> SUBSET Proc]
  /\ robbed \in BOOLEAN

\* At most one process is between its load and its persist.
OneInside == \A p, q \in Proc : pc[p] = "persist" /\ pc[q] = "persist" => p = q

\* Every operation that has persisted is still in the journal: processes
\* sharing a journal path do not clobber each other.
NoLostUpdate == \A p \in Proc : pc[p] \in {"release", "done"} => p \in journal

\* An update is lost, or two processes are inside, only after a contender (or a
\* holder giving back what is no longer its own) removed the directory of a
\* live holder: in the gap before owner.json exists, or after StaleAfter.
LossNeedsRobbery == ~robbed => OneInside /\ NoLostUpdate

\* A holder that died cannot block a survivor for ever: a process that is left
\* alone gets its operation done, retrying where it is refused.  (Two
\* contenders may go on taking each other's half-made lock.)
OrphanReclaimed ==
  \A p \in Proc : (\A q \in Proc \ {p} : pc[q] \in {"done", "dead"}) ~> pc[p] \in {"done", "dead"}
=============================================================================
