------------------------------ MODULE PidMutex ------------------------------
(***************************************************************************)
(* The mutex under the goal leases (withMutex in goal-lease-manager.ts,    *)
(* and the same code in leader-lock-manager.ts): a directory made by       *)
(* mkdir, then a pid file written into it.  Every file-system call is      *)
(* awaited, so two calls of one process interleave between any two of      *)
(* them.  This module has the steps to take and to give back the mutex;    *)
(* a module that extends it says what happens in between, from pc "body"   *)
(* to pc "unlock".  A definition named for a slip, such as MkdirOver before *)
(* Mkdir, is a wrong variant of the one it stands before.                  *)
(***************************************************************************)
EXTENDS Naturals

CONSTANTS
  Caller,       \* calls that may be under way, each of one process
  Proc,         \* processes
  MaxTries      \* MUTEX_MAX_ATTEMPTS

ASSUME MutexAssumption == MaxTries \in Nat

VARIABLES
  pc,       \* the next file-system call of each caller
  proc,     \* the process of the call: one while it is under way, else none
  tries,    \* attempts of its acquireMutex loop
  mutex,    \* the directory: {} absent, {"bare"} no pid file, else {a process}
  dead,     \* processes that died
  maker,    \* history: the caller that made the directory that stands
  robbed    \* history: the directory of a live call was removed under it

mutexVars == <<pc, proc, tries, mutex, dead, maker, robbed>>

Bare == {"bare"}

MutexInit ==
  /\ pc = [c \in Caller |-> "idle"] /\ proc = [c \in Caller |-> {}]
  /\ tries = [c \in Caller |-> 0]
  /\ mutex = {}
  /\ dead = {}
  /\ maker = {}
  /\ robbed = FALSE

Leave(c) == proc' = [proc EXCEPT ![c] = {}]
At(c, here, there) == pc[c] = here /\ pc' = [pc EXCEPT ![c] = there]

\* The caller has made the directory and not yet given it back.
Inside(c) == pc[c] \in {"pid", "body", "write", "unlock"}

\* fsp.rm of the directory, for caller c.
RemoveDir(c) ==
  /\ mutex' = {} /\ maker' = {}
  /\ robbed' = (robbed \/ \E d \in maker \ {c} : Inside(d))

-----------------------------------------------------------------------------

\* A call begins: acquireMutex enters its loop.
Enter(c, p) ==
  /\ p \notin dead
  /\ At(c, "idle", "mkdir")
  /\ proc' = [proc EXCEPT ![c] = {p}]
  /\ UNCHANGED <<tries, mutex, dead, maker, robbed>>

MkdirOver(c) ==
  /\ tries[c] < MaxTries
  /\ At(c, "mkdir", "pid")
  /\ tries' = [tries EXCEPT ![c] = @ + 1]
  /\ mutex' = Bare /\ maker' = {c}
  /\ UNCHANGED <<proc, dead, robbed>>
\* mkdir made the directory.
Mkdir(c) ==
  /\ tries[c] < MaxTries /\ mutex = {}
  /\ At(c, "mkdir", "pid")
  /\ tries' = [tries EXCEPT ![c] = @ + 1]
  /\ mutex' = Bare /\ maker' = {c}
  /\ UNCHANGED <<proc, dead, robbed>>

\* EEXIST: look at the pid file.
Exists(c) ==
  /\ tries[c] < MaxTries /\ mutex # {}
  /\ At(c, "mkdir", "check")
  /\ tries' = [tries EXCEPT ![c] = @ + 1]
  /\ UNCHANGED <<proc, mutex, dead, maker, robbed>>

\* The loop is over: the call throws, having done nothing.
TimedOut(c) ==
  /\ tries[c] = MaxTries
  /\ At(c, "mkdir", "idle") /\ Leave(c)
  /\ tries' = [tries EXCEPT ![c] = 0]
  /\ UNCHANGED <<mutex, dead, maker, robbed>>

WritePidOfCaller(c) ==
  /\ mutex # {}
  /\ At(c, "pid", "body")
  /\ mutex' = {c}
  /\ tries' = [tries EXCEPT ![c] = 0]
  /\ UNCHANGED <<proc, dead, maker, robbed>>
\* writeMutexPid
WritePid(c) ==
  /\ mutex # {}
  /\ At(c, "pid", "body")
  /\ mutex' = proc[c]
  /\ tries' = [tries EXCEPT ![c] = 0]
  /\ UNCHANGED <<proc, dead, maker, robbed>>

\* writeMutexPid throws when the directory went in between.
PidFails(c) ==
  /\ mutex = {}
  /\ At(c, "pid", "idle") /\ Leave(c)
  /\ tries' = [tries EXCEPT ![c] = 0]
  /\ UNCHANGED <<mutex, dead, maker, robbed>>

\* What clearStaleMutex clears: a directory without a pid, or with a dead one.
Clearable == mutex \cap (Proc \ dead) = {}

\* The pid file names a live process: sleep, try again.
SeeHeld(c) ==
  /\ ~Clearable
  /\ At(c, "check", "mkdir")
  /\ UNCHANGED <<proc, tries, mutex, dead, maker, robbed>>

\* It is to be cleared, the next call decided on.
SeeStale(c) ==
  /\ Clearable
  /\ At(c, "check", "clear")
  /\ UNCHANGED <<proc, tries, mutex, dead, maker, robbed>>

\* rm -rf, whatever stands there by now; then at once mkdir again.
Clear(c) ==
  /\ At(c, "clear", "mkdir")
  /\ RemoveDir(c)
  /\ UNCHANGED <<proc, tries, dead>>

\* releaseMutex, the finally of withMutex.
Unlock(c) ==
  /\ At(c, "unlock", "idle") /\ Leave(c)
  /\ RemoveDir(c)
  /\ UNCHANGED <<tries, dead>>

LockStep(c) ==
  \/ Mkdir(c) \/ Exists(c) \/ TimedOut(c) \/ WritePid(c) \/ PidFails(c)
  \/ SeeHeld(c) \/ SeeStale(c) \/ Clear(c)

\* A process dies: its calls end, its directory stays.
Die(p) ==
  /\ p \notin dead
  /\ dead' = dead \cup {p}
  /\ pc' = [c \in Caller |-> IF proc[c] = {p} THEN "idle" ELSE pc[c]]
  /\ proc' = [c \in Caller |-> proc[c] \ {p}]
  /\ tries' = [c \in Caller |-> IF proc[c] = {p} THEN 0 ELSE tries[c]]
  /\ UNCHANGED <<mutex, maker, robbed>>
=============================================================================
