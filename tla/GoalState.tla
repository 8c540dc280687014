------------------------------ MODULE GoalState ------------------------------
(***************************************************************************)
(* The state files of one goal and their write-ahead log                   *)
(* (base/state/state-manager.ts, state-manager-goal-write.ts,              *)
(* state-wal.ts, state-manager-wal.ts).  A write takes the goal's lock,    *)
(* whose steps StateLock has, logs its intent, renames the new files into  *)
(* place and logs the commit.                                              *)
(* A process that starts replays the intents without a commit, before its  *)
(* own first write and without the lock.  Daemon, chat, TUI and every CLI  *)
(* command are such processes.                                             *)
(*                                                                         *)
(* One action is what happens between two awaits.  The log is the set of   *)
(* its records: an intent stands in it where its number says, and of a     *)
(* commit only that it is there matters.  goal.json is known by            *)
(* the intent it was written for, observations.json by the entries it      *)
(* holds.  A call that does not get the lock, or that the write fence      *)
(* refuses, changes nothing.                                               *)
(***************************************************************************)
EXTENDS StateLock

CONSTANTS
  CompactEvery,  \* writes of one process between two compactions (100 in the code)
  MaxIntents,    \* bound on the writes
  MaxCrashes     \* bound on the crashes

ASSUME GoalStateAssumption ==
  /\ CompactEvery \in Nat \ {0}
  /\ MaxIntents \in Nat /\ MaxCrashes \in Nat

VARIABLES
  goal,     \* goal.json: the intent it was last written for, 0 at first
  obs,      \* observations.json: the entries, each known by its intent
  wal,      \* wal.jsonl: its intents and commits
  pc, hand, \* of each process: where it stands, the intent of its write
  todo,     \* of each process: what it read of the log, to replay or to keep
  count,    \* writeCount of each process
  issued,   \* intents logged so far; the timestamp of an intent is its number
  crashes,
  logged,   \* history: the intents ever logged
  collided, \* history: a replay wrote a file while a process held the lock, or
            \* put an older file in the place of a newer one
  shared    \* history: two processes were up at once, or a write has failed
            \* between its intent and its commit

files == <<goal, obs>>
history == <<logged, collided, shared>>
vars == <<files, wal, lockVars, pc, hand, todo, count, issued, crashes, history>>

-----------------------------------------------------------------------------
(* Intents and the log *)

WriteOps == {"save_goal", "append_observation", "append_observation_and_save_goal"}
WritesObs(i) == i.op # "save_goal"
WritesGoal(i) == i.op # "append_observation"

NoIntent == [op |-> "save_goal", id |-> 0, obs |-> {}]
Commit(i) == [op |-> "commit", id |-> i.id, obs |-> {}]

Committed(w, r) == \E c \in w : c.op = "commit" /\ c.id = r.id
\* What replayWAL applies, and what compactWAL keeps.
Uncommitted(w) == {r \in w : r.op # "commit" /\ ~Committed(w, r)}

Init ==
  /\ goal = 0 /\ obs = {} /\ wal = {}
  /\ LockInit
  /\ pc = [p \in Proc |-> "down"]
  /\ hand = [p \in Proc |-> NoIntent] /\ todo = [p \in Proc |-> {}]
  /\ count = [p \in Proc |-> 0]
  /\ issued = 0 /\ crashes = 0
  /\ logged = {} /\ collided = FALSE /\ shared = FALSE

Goto(p, from, to) == pc[p] = from /\ pc' = [pc EXCEPT ![p] = to]

-----------------------------------------------------------------------------
(* Start: StateManager.init and recoverStateManagerWAL.  A definition named for
   a slip stands before the one it gets wrong. *)

\* Where a replay goes on with what is left to apply.
Continue(p, left) ==
  /\ todo' = [todo EXCEPT ![p] = left]
  /\ pc' = [pc EXCEPT ![p] = IF left = {} THEN "idle" ELSE "replay"]

\* The process starts, and replayWAL reads the whole log.
Start(p) ==
  /\ pc[p] = "down"
  /\ Continue(p, Uncommitted(wal))
  /\ shared' = (shared \/ \E q \in Proc : pc[q] # "down")
  /\ UNCHANGED <<files, wal, lockVars, hand, count, issued, crashes, logged, collided>>

\* Intents are applied in the order they were logged in.
Oldest(p, r) == r \in todo[p] /\ \A q \in todo[p] : r.id <= q.id

Collides(older) == collided' = (collided \/ older \/ \E q \in Proc : Holding(q))

ReplayObs(p, r) ==
  /\ pc[p] = "replay" /\ WritesObs(r)
  /\ obs' = r.obs
  /\ Collides(~(obs \subseteq r.obs))
  /\ pc' = [pc EXCEPT ![p] = IF WritesGoal(r) THEN "replayGoal" ELSE "replayCommit"]
  /\ UNCHANGED <<goal, wal, lockVars, hand, todo, count, issued, crashes, logged, shared>>

ReplayGoal(p, r) ==
  /\ pc[p] = "replayGoal" \/ (pc[p] = "replay" /\ ~WritesObs(r))
  /\ goal' = r.id
  /\ Collides(goal > r.id)
  /\ pc' = [pc EXCEPT ![p] = "replayCommit"]
  /\ UNCHANGED <<obs, wal, lockVars, hand, todo, count, issued, crashes, logged, shared>>

ReplayCommitOmitted(r) == wal' = wal
ReplayCommitted(r) == wal' = wal \cup {Commit(r)}
ReplayCommit(p, r) ==
  /\ pc[p] = "replayCommit"
  /\ ReplayCommitted(r)
  /\ Continue(p, todo[p] \ {r})
  /\ UNCHANGED <<files, lockVars, hand, count, issued, crashes, history>>

Replay(p, r) == Oldest(p, r) /\ (ReplayObs(p, r) \/ ReplayGoal(p, r) \/ ReplayCommit(p, r))

-----------------------------------------------------------------------------
(* A write: protectedWrite and protectedReadModifyWrite *)

\* acquireLock begins.  The goal has a directory once something was logged in it.
TakeLock(p) ==
  /\ issued < MaxIntents
  /\ Goto(p, "idle", "lock")
  /\ Ask(p, issued > 0)
  /\ UNCHANGED <<files, wal, hand, todo, count, issued, crashes, history>>

\* Under the lock: saveGoal has its data, the appends read theirs first.
Begin(p, op) ==
  /\ pc' = [pc EXCEPT ![p] = IF op = "save_goal" THEN "intent" ELSE "read"]
  /\ hand' = [hand EXCEPT ![p].op = op]

\* A call of acquireLock or releaseLock; the last one lets the write begin or end.
LockStep(p) ==
  /\ \/ pc[p] = "lock" /\ Acquiring(p)
     \/ pc[p] = "unlock" /\ FreeStable(p)
     \/ FreeLegacy(p)
  /\ IF at'[p].step = "held"
     THEN \E op \in WriteOps : Begin(p, op)
     ELSE IF at'[p].step = "none"
     THEN pc' = [pc EXCEPT ![p] = "idle"] /\ UNCHANGED hand
     ELSE UNCHANGED <<pc, hand>>
  /\ UNCHANGED <<files, wal, todo, count, issued, crashes, history>>

\* buildData
ReadObs(p) ==
  /\ Goto(p, "read", "intent")
  /\ hand' = [hand EXCEPT ![p].obs = obs]
  /\ UNCHANGED <<files, wal, lockVars, todo, count, issued, crashes, history>>

LogIntent(p) ==
  LET id == issued + 1
      i == [op |-> hand[p].op, id |-> id,
            obs |-> IF WritesObs(hand[p]) THEN hand[p].obs \cup {id} ELSE {}]
  IN
  /\ issued < MaxIntents
  /\ Goto(p, "intent", IF WritesObs(i) THEN "writeObs" ELSE "writeGoal")
  /\ wal' = wal \cup {i}
  /\ hand' = [hand EXCEPT ![p] = i]
  /\ issued' = id /\ logged' = logged \cup {i}
  /\ UNCHANGED <<files, lockVars, todo, count, crashes, collided, shared>>

WriteObs(p) ==
  /\ Goto(p, "writeObs", IF WritesGoal(hand[p]) THEN "writeGoal" ELSE "commit")
  /\ obs' = hand[p].obs
  /\ UNCHANGED <<goal, wal, lockVars, hand, todo, count, issued, crashes, history>>

WriteGoal(p) ==
  /\ Goto(p, "writeGoal", "commit")
  /\ goal' = hand[p].id
  /\ UNCHANGED <<obs, wal, lockVars, hand, todo, count, issued, crashes, history>>

\* A write of a file, of the commit, or of the compacted log throws: the finally
\* releases the lock.
WriteFails(p) ==
  /\ WritesFail /\ pc[p] \in {"writeObs", "writeGoal", "commit", "compact", "swap"}
  /\ pc' = [pc EXCEPT ![p] = "unlock"]
  /\ todo' = [todo EXCEPT ![p] = {}]
  /\ hand' = [hand EXCEPT ![p] = NoIntent]
  /\ shared' = (shared \/ pc[p] \in {"writeObs", "writeGoal", "commit"})
  /\ UNCHANGED <<files, wal, lockVars, count, issued, crashes, logged, collided>>

LogCommit(p) ==
  /\ Goto(p, "commit", IF (count[p] + 1) % CompactEvery = 0 THEN "compact" ELSE "unlock")
  /\ wal' = wal \cup {Commit(hand[p])}
  /\ hand' = [hand EXCEPT ![p] = NoIntent]
  /\ count' = [count EXCEPT ![p] = @ + 1]
  /\ UNCHANGED <<files, lockVars, todo, issued, crashes, history>>

\* compactWAL reads the log, then renames what it keeps into its place.  The
\* compaction markers it writes around that are read by nobody.
CompactRead(p) ==
  /\ Goto(p, "compact", "swap")
  /\ todo' = [todo EXCEPT ![p] = Uncommitted(wal)]
  /\ UNCHANGED <<files, wal, lockVars, hand, count, issued, crashes, history>>

SwapEmpty(p) == wal' = {}
Swap(p) == wal' = todo[p]
CompactSwap(p) ==
  /\ Goto(p, "swap", "unlock")
  /\ Swap(p)
  /\ todo' = [todo EXCEPT ![p] = {}]
  /\ UNCHANGED <<files, lockVars, hand, count, issued, crashes, history>>

\* The process ends, at any point; its memory is gone and its pid is dead.
Crash(p) ==
  /\ pc[p] # "down" /\ crashes < MaxCrashes
  /\ pc' = [pc EXCEPT ![p] = "down"]
  /\ LockDies(p)
  /\ hand' = [hand EXCEPT ![p] = NoIntent] /\ todo' = [todo EXCEPT ![p] = {}]
  /\ count' = [count EXCEPT ![p] = 0]
  /\ crashes' = crashes + 1
  /\ UNCHANGED <<files, wal, issued, history>>

Recover(p) == Start(p) \/ \E r \in todo[p] : Replay(p, r)

Write(p) ==
  \/ TakeLock(p) \/ LockStep(p)
  \/ ReadObs(p) \/ LogIntent(p) \/ WriteObs(p) \/ WriteGoal(p) \/ WriteFails(p)
  \/ LogCommit(p) \/ CompactRead(p) \/ CompactSwap(p)

Next == \E p \in Proc : Recover(p) \/ Write(p) \/ Crash(p)

Spec == Init /\ [][Next]_vars

-----------------------------------------------------------------------------
(* Properties *)

Applied(i) == /\ WritesObs(i) => i.id \in obs
              /\ WritesGoal(i) => goal >= i.id
Pending(i) == i \in Uncommitted(wal)

\* What was logged is never lost, and a mix of old and new files is never left
\* unnoticed: each intent ever logged is in all of its files, or is still in the
\* log without a commit, so that the next start completes it.  Failing writes,
\* crashes, compactions and rival writers do not break this; only a replay
\* beside a live writer or of an old intent over newer files does, or a lock that
\* was taken from its holder.
LogCovers == collided \/ robbed \/ \A i \in logged : Applied(i) \/ Pending(i)

\* Two processes hold the lock at once only after the directory of one was
\* removed under it, and that takes a process that died: another judged its
\* directory stale, and came to remove it when it had been made anew.
LockExclusive ==
  /\ \A p, q \in Proc : Holding(p) /\ Holding(q) => p = q \/ robbed
  /\ robbed => crashes > 0

\* One process at a time, whose writes do not fail, never sees a replay undo a
\* newer write, wherever it crashes: in a write, a compaction or a replay.
ReplayUndoesNothing == collided => shared
=============================================================================
