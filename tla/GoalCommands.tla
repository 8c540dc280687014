---------------------------- MODULE GoalCommands ----------------------------
(***************************************************************************)
(* What the daemon does with a goal: the start, stop, pause and resume      *)
(* commands and the schedule's activations, as two dispatchers handle them  *)
(* side by side, beside the executions of the supervisor, the completion    *)
(* callback that turns a requested pause into a checkpoint, and the         *)
(* maintenance cycle.  Five pieces of state have to agree: the pause record *)
(* of a goal, the daemon's list of goals, the saved daemon state, the       *)
(* supervisor's set of stopped goals, and the activation in the journal.    *)
(* Each stretch of code between two awaits is one action.                   *)
(*                                                                         *)
(* Models runtime/daemon/runner-commands.ts, runner-startup.ts,             *)
(* persistence.ts, the dispatchers, the safe-pause store, and the parts of  *)
(* maintenance.ts and loop-supervisor.ts that touch this state.             *)
(*                                                                         *)
(* Left out: the contents of checkpoints and metadata, a save of the daemon *)
(* state that fails (the old one stays), suspension after crashes and lost  *)
(* claims (LoopSupervisor), attempts of a message (JournalQueue), and two   *)
(* maintenance cycles at once.  The definitions AsksForPauseUnlisted,       *)
(* StopsOnly, RecordOfRaw and DeadLetteredPending are wrong variants of     *)
(* those they stand before.                                                 *)
(***************************************************************************)
EXTENDS Naturals, Sequences, FiniteSets, SequencesExt

CONSTANTS Goals, MaxCommands, MaxPending, MaxFaults,
          Dispatchers           \* those in use: "commands", perhaps "events"

ASSUME DispatcherAssumption == Dispatchers \subseteq {"commands", "events"}
ASSUME BoundAssumption == {MaxCommands, MaxPending, MaxFaults} \subseteq Nat

VARIABLES
  phase,        \* the daemon: down, restored, starting, ready, running, stopping
  file,         \* the safe-pause records on disk
  mem,          \* state.safe_pause_goals
  current,      \* currentGoalIds, and state.active_goals that follow it
  interrupted,  \* state.interrupted_goals
  saved,        \* daemon-state.json
  bufs,         \* daemon states serialised and not yet renamed into place
  stopped,      \* stoppedGoals of the supervisor
  activation,   \* the goal_activated message of each goal in the journal
  run,          \* the execution of each goal
  cut,          \* goals with a task still marked running by a dead daemon
  maint,        \* the maintenance cycle: its step and its list of goals
  todo,         \* pending commands and events, in order
  calls,        \* what each dispatcher is handling
  orphans,      \* messages claimed by a daemon that died
  issued, faults,                   \* bounds
  intent        \* history: what each goal was asked for last, see below

disk == <<file, saved, cut>>
memory == <<mem, current, interrupted, stopped>>
queue == <<todo, orphans, issued>>
vars == <<phase, file, mem, current, interrupted, saved, bufs, stopped, activation,
          run, cut, maint, todo, calls, orphans, issued, faults, intent>>

\* "schedule" is the schedule_activated event; it is handled as a goal_start.
KindsOf(d) == IF d = "events" THEN {"schedule"} ELSE {"start", "stop", "pause", "resume"}
Kinds == UNION {KindsOf(d) : d \in Dispatchers}
Requests == [kind : Kinds, goal : Goals]

PauseStates == {"none", "pause_requested", "paused", "resumed", "emergency_stopped"}
Pausing == {"pause_requested", "paused"}

\* Callers of saveDaemonState: a dispatcher's handler, the completion of a
\* goal, the maintenance cycle.
Savers == Dispatchers \cup Goals \cup {"maintenance"}
States == [active : SUBSET Goals, interrupted : SUBSET Goals, ended : BOOLEAN]
NoBuf == [active |-> {}]
Idle == [at |-> "idle"]
CallsAt == {"load", "record", "save", "saveOnly", "checkpoint", "saveAgain"}
RunsAt == {"idle", "checked", "running", "finishing", "completed", "checkpoint",
           "savePaused", "settling"}

Up == phase # "down"
Fault == faults < MaxFaults /\ faults' = faults + 1

Init ==
  /\ phase = "down"
  /\ file = [g \in Goals |-> "none"] /\ mem = [g \in Goals |-> "none"]
  /\ current = {} /\ interrupted = {}
  /\ \E gs \in SUBSET Goals :
       /\ saved = [active |-> gs, interrupted |-> {}, ended |-> FALSE]
       /\ intent = [g \in Goals |-> IF g \in gs THEN "start" ELSE "none"]
  /\ bufs = [s \in Savers |-> NoBuf]
  /\ stopped = {}
  /\ activation = [g \in Goals |-> "none"]
  /\ run = [g \in Goals |-> "idle"]
  /\ cut = {}
  /\ maint = Idle
  /\ todo = <<>> /\ orphans = {} /\ calls = [d \in Dispatchers |-> Idle]
  /\ issued = 0 /\ faults = 0

(***************************************************************************)
(* intent[g] is the last request taken up for g: none, start, stop, pause   *)
(* or resume; "stopped before" is a stop taken up by an earlier daemon; it  *)
(* is "unclear" from when something else was under way on the goal at the   *)
(* same time, until the next request.  No action reads it.                  *)
(***************************************************************************)
Doubt(gs) == intent' = [g \in Goals |-> IF g \in gs THEN "unclear" ELSE intent[g]]
Inherited(asked) == IF asked = "stop" THEN "stopped before" ELSE asked

(***************************************************************************)
(* Requests: the gateway accepts commands, the schedule engine activations. *)
(* A pause or resume is accepted under a key of its goal: it replaces the   *)
(* one that is pending and is refused beside one that is claimed, so there  *)
(* is never a second one to replace.                                        *)
(***************************************************************************)
Handling(d) == calls[d].at # "idle"
Request(d) == [kind |-> calls[d].kind, goal |-> calls[d].goal]
Held == {Request(d) : d \in {e \in Dispatchers : Handling(e) /\ calls[e].held}}
Handled(g) == \E d \in Dispatchers : Handling(d) /\ calls[d].goal = g
Keyed(r) == r.kind \in {"pause", "resume", "schedule"}

Issue(r) ==
  /\ issued < MaxCommands /\ Len(todo) < MaxPending
  /\ issued' = issued + 1
  /\ todo' = IF ~Keyed(r) THEN Append(todo, r)
             ELSE IF r \in orphans \cup Held THEN todo
             ELSE Append(RemoveFirst(todo, r), r)
  /\ UNCHANGED <<phase, disk, memory, bufs, activation, run, maint, calls, orphans,
                 faults, intent>>

(***************************************************************************)
(* Saving daemon-state.json: the state is serialised, written to a file of  *)
(* its own and renamed; two savers may overtake each other.                 *)
(***************************************************************************)
DaemonState == [active |-> current, interrupted |-> interrupted, ended |-> FALSE]

\* A saver waits in saveDaemonState.
Saving(s) ==
  CASE s \in Dispatchers -> calls[s].at \in {"save", "saveOnly", "saveAgain"}
    [] s \in Goals -> run[s] \in {"finishing", "savePaused"}
    [] OTHER -> maint.at = "save"

Serialise(s) ==
  /\ Up /\ Saving(s) /\ bufs[s] = NoBuf
  /\ bufs' = [bufs EXCEPT ![s] = DaemonState]
  /\ UNCHANGED <<phase, disk, memory, activation, run, maint, calls, queue, faults, intent>>

Rename(s) ==
  /\ Up /\ Saving(s) /\ bufs[s] # NoBuf
  /\ saved' = bufs[s]
  /\ bufs' = [bufs EXCEPT ![s] = NoBuf]

\* Goals that an older state, written over a newer one, shows wrong.
ShownWrong(s) == (bufs[s].active \ current) \cup (current \ bufs[s].active)

(***************************************************************************)
(* The supervisor.                                                         *)
(***************************************************************************)
\* accept under the key of the goal: beside a claimed activation the new one
\* is refused, a pending one is replaced by it.
Enqueued(gs) == [g \in Goals |-> IF g \in gs /\ activation[g] = "none" THEN "pending"
                                 ELSE activation[g]]

ActivateGoals(gs) == stopped' = stopped \ gs /\ activation' = Enqueued(gs)

\* A poll claims the activation; a stopped goal's is acked.
Poll(g) ==
  /\ phase = "running" /\ activation[g] = "pending" /\ run[g] = "idle"
  /\ activation' = [activation EXCEPT ![g] = IF g \in stopped THEN "none" ELSE "claimed"]
  /\ run' = [run EXCEPT ![g] = IF g \in stopped THEN "idle" ELSE "checked"]
  /\ UNCHANGED <<phase, disk, memory, bufs, maint, calls, queue, faults, intent>>

\* The goal lease was awaited in between; stoppedGoals is not looked at again.
StartRun(g) ==
  /\ phase = "running" /\ run[g] = "checked"
  /\ run' = [run EXCEPT ![g] = "running"]
  /\ UNCHANGED <<phase, disk, memory, bufs, activation, maint, calls, queue, faults, intent>>

DispatchReturned(g) ==
  /\ Up /\ run[g] = "checked"
  /\ run' = [run EXCEPT ![g] = "idle"]
  /\ activation' = [activation EXCEPT ![g] = "pending"]
  /\ UNCHANGED <<phase, disk, memory, bufs, maint, calls, queue, faults, intent>>

RunEnds(g) ==
  /\ Up /\ run[g] = "running"
  /\ run' = [run EXCEPT ![g] = "finishing"]
  /\ UNCHANGED <<phase, disk, memory, bufs, activation, maint, calls, queue, faults, intent>>

\* A failed run has no completion callback: its activation is kept for a retry
\* or, after too many failures, dead-lettered.
RunFails(g) ==
  /\ Up /\ run[g] = "running"
  /\ run' = [run EXCEPT ![g] = "idle"]
  /\ \E a \in {"claimed", "none"} : activation' = [activation EXCEPT ![g] = a]
  /\ UNCHANGED <<phase, disk, memory, bufs, maint, calls, queue, faults, intent>>

\* The retry timer, or the sweeper for the claim of a daemon that died.
ActivationReturns(g) ==
  /\ Up /\ activation[g] = "claimed" /\ run[g] = "idle"
  /\ activation' = [activation EXCEPT ![g] = "pending"]
  /\ UNCHANGED <<phase, disk, memory, bufs, run, maint, calls, queue, faults, intent>>

(***************************************************************************)
(* handleGoalCompletion saves, awaits some more, and looks for a requested  *)
(* pause; then the supervisor acks the activation.                          *)
(***************************************************************************)
CompletionSaved(g) ==
  /\ run[g] \in {"finishing", "savePaused"} /\ Rename(g)
  /\ run' = [run EXCEPT ![g] = IF run[g] = "finishing" THEN "completed" ELSE "settling"]
  /\ Doubt(ShownWrong(g))
  /\ UNCHANGED <<phase, file, cut, memory, activation, maint, calls, queue, faults>>

\* A pause is requested and not yet checkpointed.
AsksForPauseUnlisted(g) == mem[g] = "pause_requested" /\ g \notin current
AsksForPause(g) == mem[g] = "pause_requested"

CompletionChecks(g) ==
  /\ Up /\ run[g] = "completed"
  /\ run' = [run EXCEPT ![g] = IF AsksForPause(g) THEN "checkpoint" ELSE "settling"]
  /\ UNCHANGED <<phase, disk, memory, bufs, activation, maint, calls, queue, faults, intent>>

StopsOnly(g) == stopped' = stopped \cup {g} /\ UNCHANGED current
LeavesList(g) == current' = current \ {g} /\ stopped' = stopped \cup {g}

\* checkpointPauseIfRequested after its await of markPaused.
MarkPaused(g) ==
  /\ Doubt(IF intent[g] = "pause" THEN {} ELSE {g})
  /\ file' = [file EXCEPT ![g] = "paused"] /\ mem' = [mem EXCEPT ![g] = "paused"]
  /\ LeavesList(g)
  /\ UNCHANGED <<saved, cut, interrupted>>

CompletionCheckpoints(g) ==
  /\ Up /\ run[g] = "checkpoint" /\ MarkPaused(g)
  /\ run' = [run EXCEPT ![g] = "savePaused"]
  /\ UNCHANGED <<phase, bufs, activation, maint, calls, queue, faults>>

Settle(g) ==
  /\ Up /\ run[g] = "settling"
  /\ run' = [run EXCEPT ![g] = "idle"]
  /\ activation' = [activation EXCEPT ![g] = "none"]
  /\ UNCHANGED <<phase, disk, memory, bufs, maint, calls, queue, faults, intent>>

(***************************************************************************)
(* The dispatchers, each with one message at a time.                        *)
(***************************************************************************)
Dispatching == phase \in {"ready", "running", "stopping"}

ReachesFor(d) == {i \in 1..Len(todo) : todo[i].kind \in KindsOf(d)}
NextFor(d) == CHOOSE i \in ReachesFor(d) : \A j \in ReachesFor(d) : i <= j

\* Nothing else is under way on goal g that could interleave with a request.
Alone(d, g) ==
  /\ \A e \in Dispatchers \ {d} : Handling(e) => calls[e].goal # g
  /\ phase # "stopping"

Take(d, r, at) ==
  /\ Dispatching /\ ~Handling(d) /\ ReachesFor(d) # {}
  /\ r = todo[NextFor(d)]
  /\ todo' = RemoveAt(todo, NextFor(d))
  /\ calls' = [calls EXCEPT ![d] = [at |-> at, kind |-> r.kind, goal |-> r.goal, held |-> TRUE]]
  /\ UNCHANGED <<phase, disk, bufs, activation, run, maint, orphans, issued, faults>>

\* From here on the request is what the goal was asked for last.
TakenUp(d, kind, g) ==
  intent' = [intent EXCEPT ![g] = IF Alone(d, g) THEN kind ELSE "unclear"]

\* The synchronous start of each handler.
TakeStart(d, g) ==
  /\ \E kind \in {"start", "schedule"} :
       Take(d, [kind |-> kind, goal |-> g], "save") /\ TakenUp(d, "start", g)
  /\ current' = current \cup {g}
  /\ UNCHANGED <<mem, interrupted, stopped>>

TakeStop(d, g) ==
  /\ Take(d, [kind |-> "stop", goal |-> g], "record") /\ TakenUp(d, "stop", g)
  /\ current' = current \ {g} /\ interrupted' = interrupted \ {g}
  /\ UNCHANGED <<mem, stopped>>

TakePause(d, g) ==
  /\ Take(d, [kind |-> "pause", goal |-> g], "record") /\ TakenUp(d, "pause", g)
  /\ UNCHANGED memory

TakeResume(d, g) ==
  /\ Take(d, [kind |-> "resume", goal |-> g], "load") /\ UNCHANGED <<memory, intent>>

Step(d, from, to) ==
  /\ Up /\ calls[d].at = from
  /\ calls' = [calls EXCEPT ![d] = IF to = "idle" THEN Idle ELSE [@ EXCEPT !.at = to]]

\* A resume of a goal that is not paused only shows the record it found.
LoadPause(d) ==
  LET g == calls[d].goal IN
  /\ calls[d].at = "load"
  /\ \/ /\ file[g] \in Pausing /\ Step(d, "load", "record") /\ TakenUp(d, "resume", g)
        /\ UNCHANGED mem
     \/ /\ file[g] = "none" /\ Step(d, "load", "idle") /\ UNCHANGED <<mem, intent>>
     \/ /\ file[g] \notin Pausing \cup {"none"} /\ Step(d, "load", "saveOnly")
        /\ mem' = [mem EXCEPT ![g] = file[g]] /\ UNCHANGED intent
  /\ UNCHANGED <<phase, disk, current, interrupted, bufs, stopped, activation, run, maint,
                 queue, faults>>

RecordOfRaw(kind) == kind
RecordOf(kind) ==
  CASE kind = "stop" -> "emergency_stopped"
    [] kind = "pause" -> "pause_requested"
    [] kind = "resume" -> "resumed"

\* The pause record is saved, and the memory follows.
Record(d) ==
  /\ calls[d].at = "record" /\ Step(d, "record", "save")
  /\ LET g == calls[d].goal
         state == RecordOf(calls[d].kind)
     IN /\ file' = [file EXCEPT ![g] = state] /\ mem' = [mem EXCEPT ![g] = state]
        /\ current' = IF calls[d].kind = "resume" THEN current \cup {g} ELSE current
  /\ UNCHANGED <<phase, saved, cut, interrupted, bufs, stopped, activation, run, maint,
                 queue, faults, intent>>

\* The pause store throws: the message goes back to the queue, what the handler
\* has changed in memory stays.  A completion goes on without its checkpoint.
RecordFails(d) ==
  /\ Fault
  /\ calls[d].at \in {"record", "checkpoint"} /\ Step(d, calls[d].at, "idle")
  /\ todo' = IF calls[d].held THEN Append(todo, Request(d)) ELSE todo
  /\ Doubt({calls[d].goal})
  /\ UNCHANGED <<phase, disk, memory, bufs, activation, run, maint, orphans, issued>>

CheckpointFails(g) ==
  /\ Up /\ Fault
  /\ run[g] = "checkpoint" /\ run' = [run EXCEPT ![g] = "settling"]
  /\ UNCHANGED <<phase, disk, memory, bufs, activation, maint, calls, queue, intent>>

Executing(g) == run[g] = "running"

\* What follows the save: the supervisor is told; a requested pause of a goal
\* that nobody executes is checkpointed at once.
CallSaved(d) ==
  LET g == calls[d].goal
      kind == calls[d].kind
      checkpoints == /\ AsksForPause(g)
                     /\ g \notin current \/ ~Executing(g)
  IN
  /\ calls[d].at = "save" /\ Rename(d)
  /\ \/ /\ kind \in {"start", "schedule", "resume"}
        /\ ActivateGoals({g}) /\ Step(d, "save", "idle")
     \/ /\ kind = "stop"
        /\ stopped' = stopped \cup {g} /\ Step(d, "save", "idle") /\ UNCHANGED activation
     \/ /\ kind = "pause"
        /\ stopped' = stopped \cup {g} /\ UNCHANGED activation
        /\ Step(d, "save", IF checkpoints THEN "checkpoint" ELSE "idle")
  /\ Doubt(ShownWrong(d))
  /\ UNCHANGED <<phase, file, cut, mem, current, interrupted, run, maint, queue, faults>>

CallCheckpoints(d) ==
  /\ calls[d].at = "checkpoint" /\ Step(d, "checkpoint", "saveAgain")
  /\ MarkPaused(calls[d].goal)
  /\ UNCHANGED <<phase, bufs, activation, run, maint, queue, faults>>

CallEnds(d) ==
  /\ calls[d].at \in {"saveOnly", "saveAgain"} /\ Rename(d) /\ Step(d, calls[d].at, "idle")
  /\ Doubt(ShownWrong(d))
  /\ UNCHANGED <<phase, file, cut, memory, activation, run, maint, queue, faults>>

\* A claim is not renewed while its handler runs: the sweeper may give the
\* message back to the queue meanwhile.  So it does after a daemon died.
LeaseRunsOut(d) ==
  /\ Up /\ Fault /\ Handling(d) /\ calls[d].held
  /\ calls' = [calls EXCEPT ![d].held = FALSE]
  /\ todo' = Append(todo, Request(d))
  /\ UNCHANGED <<phase, disk, memory, bufs, activation, run, maint, orphans, issued, intent>>

OrphanReturns(r) ==
  /\ Up /\ r \in orphans
  /\ orphans' = orphans \ {r} /\ todo' = Append(todo, r)
  /\ UNCHANGED <<phase, disk, memory, bufs, activation, run, maint, calls, issued,
                 faults, intent>>

(***************************************************************************)
(* The maintenance cycle asks of every goal on the list whether it is due.  *)
(* It reads the list, waits where a goal has joined since its last look (a  *)
(* goal that is not in Goals may always have), and activates those due.     *)
(***************************************************************************)
MaintenanceReads ==
  /\ phase = "running" /\ maint = Idle /\ current # {}
  /\ maint' = [at |-> "ask", goals |-> current]
  /\ UNCHANGED <<phase, disk, memory, bufs, activation, run, calls, queue, faults, intent>>

MaintenanceActivates(due) ==
  /\ Up /\ maint.at = "ask" /\ due \subseteq maint.goals
  /\ ActivateGoals(due)
  /\ Doubt(due \ current)
  /\ \E next \in {Idle, [at |-> "save", goals |-> {}]} : maint' = next
  /\ UNCHANGED <<phase, disk, mem, current, interrupted, bufs, run, calls, queue, faults>>

MaintenanceSaved ==
  /\ maint.at = "save" /\ Rename("maintenance")
  /\ maint' = Idle
  /\ Doubt(ShownWrong("maintenance"))
  /\ UNCHANGED <<phase, file, cut, memory, activation, run, calls, queue, faults>>

(***************************************************************************)
(* Start, shutdown and death of the daemon.                                 *)
(***************************************************************************)
Recoverable ==
  IF saved.interrupted # {} THEN saved.interrupted
  ELSE IF saved.ended THEN {} ELSE saved.active

\* Goals of interrupted tasks join the restored ones; their tasks are closed,
\* and only then is the new list saved.
RestoreState ==
  /\ phase = "down"
  /\ phase' = "restored"
  /\ current' = Recoverable \cup cut
  /\ cut' = {}
  /\ UNCHANGED <<file, saved, mem, interrupted, bufs, stopped, activation, run, maint, calls,
                 queue, faults, intent>>

SaveRestored ==
  /\ phase = "restored"
  /\ phase' = "starting"
  /\ saved' = DaemonState
  /\ UNCHANGED <<file, cut, memory, bufs, activation, run, maint, calls, queue, faults, intent>>

PausedOnDisk == {g \in Goals : file[g] \in Pausing}

DeadLetteredPending(gs) ==
  [g \in Goals |-> IF g \in gs /\ activation[g] = "pending" THEN "none" ELSE activation[g]]
DeadLettered(gs) == [g \in Goals |-> IF g \in gs THEN "none" ELSE activation[g]]

RestoreSafePause ==
  /\ phase = "starting"
  /\ phase' = "ready"
  /\ mem' = file
  /\ current' = current \ PausedOnDisk
  /\ activation' = DeadLettered(PausedOnDisk)
  /\ saved' = [saved EXCEPT !.active = current']
  /\ UNCHANGED <<file, interrupted, bufs, stopped, run, cut, maint, calls, queue, faults, intent>>

\* The supervisor starts when the dispatcher of commands found none left.
SupervisorStarts ==
  /\ phase = "ready"
  /\ \A d \in Dispatchers \ {"events"} : ~Handling(d) /\ ReachesFor(d) = {}
  /\ phase' = "running"
  /\ activation' = Enqueued(current \ stopped)
  /\ UNCHANGED <<disk, memory, bufs, run, maint, calls, queue, faults, intent>>

BeginShutdown ==
  /\ phase = "running" /\ Fault
  /\ phase' = "stopping" /\ interrupted' = current
  /\ Doubt({g \in Goals : Handled(g)})
  /\ UNCHANGED <<disk, mem, current, bufs, stopped, activation, run, maint, calls, queue>>

MemoryGone ==
  /\ phase' = "down"
  /\ mem' = [g \in Goals |-> "none"] /\ current' = {} /\ interrupted' = {} /\ stopped' = {}
  /\ bufs' = [s \in Savers |-> NoBuf]
  /\ run' = [g \in Goals |-> "idle"]
  /\ cut' = cut \cup {g \in Goals : Executing(g)}
  /\ maint' = Idle /\ calls' = [d \in Dispatchers |-> Idle]

\* cleanupDaemonRun writes the last state; executions that outlast the grace
\* period die with the process.
Exit ==
  /\ phase = "stopping" /\ \A d \in Dispatchers : ~Handling(d)
  /\ MemoryGone
  /\ saved' = [active |-> current, interrupted |-> interrupted, ended |-> TRUE]
  /\ intent' = [g \in Goals |-> Inherited(intent[g])]
  /\ UNCHANGED <<file, activation, queue, faults>>

Kill ==
  /\ Up /\ Fault
  /\ MemoryGone
  /\ orphans' = orphans \cup Held
  /\ intent' = [g \in Goals |-> IF Handled(g) THEN "unclear" ELSE Inherited(intent[g])]
  /\ UNCHANGED <<file, saved, activation, todo, issued>>

Supervisor(g) ==
  \/ Poll(g) \/ StartRun(g) \/ DispatchReturned(g) \/ RunEnds(g) \/ RunFails(g)
  \/ ActivationReturns(g)
Completion(g) ==
  \/ CompletionSaved(g) \/ CompletionChecks(g) \/ CompletionCheckpoints(g) \/ Settle(g)
Taken(d) == \E g \in Goals : TakeStart(d, g) \/ TakeStop(d, g) \/ TakePause(d, g) \/ TakeResume(d, g)
Handler(d) ==
  \/ LoadPause(d) \/ Record(d) \/ CallSaved(d) \/ CallCheckpoints(d) \/ CallEnds(d)
Maintenance ==
  \/ MaintenanceReads \/ MaintenanceSaved
  \/ \E due \in SUBSET Goals : MaintenanceActivates(due)
Startup == RestoreState \/ SaveRestored \/ RestoreSafePause \/ SupervisorStarts

Next ==
  \/ \E r \in Requests : Issue(r)
  \/ \E s \in Savers : Serialise(s)
  \/ \E g \in Goals : Supervisor(g) \/ Completion(g) \/ CheckpointFails(g)
  \/ \E d \in Dispatchers : Taken(d) \/ Handler(d) \/ RecordFails(d) \/ LeaseRunsOut(d)
  \/ \E r \in orphans : OrphanReturns(r)
  \/ Maintenance \/ Startup \/ BeginShutdown \/ Exit \/ Kill

Spec == Init /\ [][Next]_vars
-----------------------------------------------------------------------------
(***************************************************************************)
(* Properties.                                                             *)
(***************************************************************************)
\* What is on disk and in memory has the shape the schemas of the safe-pause
\* store and of daemon-state.json allow, and a goal is executed under a claimed
\* activation or one that was handed back.
TypeOK ==
  /\ phase \in {"down", "restored", "starting", "ready", "running", "stopping"}
  /\ file \in [Goals -> PauseStates] /\ mem \in [Goals -> PauseStates]
  /\ saved \in States /\ bufs \in [Savers -> States \cup {NoBuf}]
  /\ current \cup interrupted \cup stopped \cup cut \subseteq Goals
  /\ activation \in [Goals -> {"none", "pending", "claimed"}]
  /\ run \in [Goals -> RunsAt]
  /\ maint \in {Idle} \cup [at : {"ask", "save"}, goals : SUBSET Goals]
  /\ todo \in Seq(Requests) /\ orphans \subseteq Requests
  /\ calls \in [Dispatchers -> {Idle} \cup
                   [at : CallsAt, kind : Kinds, goal : Goals, held : BOOLEAN]]
  /\ issued \in 0..MaxCommands /\ faults \in 0..MaxFaults
  /\ intent \in [Goals -> {"none", "start", "stop", "stopped before", "pause", "resume",
                           "unclear"}]

\* Nobody handles a request for g at the moment.
Quiet(g) == ~Handled(g)

\* While the daemon runs and nothing was under way on a goal beside its last
\* request, the pause record and the list of goals say what was asked for:
\* a pause is on record, and once checkpointed the goal is off the list; a
\* started goal is on the list unless its record pauses it; a resumed goal is
\* on the list; a stop is on record, and the daemon that took it up has the
\* goal off its list.  The pause record is written by five handlers and the
\* list rebuilt at a start from two files (runner-commands.ts:174-457,
\* persistence.ts:38-73), with a kill, a failing store, a claim that runs out
\* or a graceful shutdown in between.
AsCommanded ==
  \A g \in Goals :
    (phase = "running" /\ Quiet(g)) =>
      /\ intent[g] = "pause" => file[g] \in Pausing
      /\ intent[g] = "pause" /\ file[g] = "paused" => g \notin current
      /\ intent[g] = "start" => g \in current \/ file[g] \in Pausing
      /\ intent[g] = "resume" /\ file[g] = "resumed" => g \in current
      /\ intent[g] \in {"stop", "stopped before"} => file[g] = "emergency_stopped"
      /\ intent[g] = "stop" => g \notin current

\* A poll never takes up the activation of a goal at rest: one that is paused by
\* a checkpoint, in this or an earlier daemon, or one this daemon has stopped.
\* The supervisor's set of stopped goals is in memory only; an activation may be
\* pending or claimed from before, and is then acked unseen or, at a start,
\* dead-lettered (loop-supervisor.ts:261-319, runner-commands.ts:459-483).
Dispatched(g) == run[g] = "idle" /\ run'[g] = "checked"
RestIsKept ==
  [][\A g \in Goals : Dispatched(g) /\ Quiet(g) =>
       /\ intent[g] = "pause" => file[g] # "paused"
       /\ intent[g] # "stop"]_vars

\* The processes of a daemon that is up go on; the lease of a goal becomes free
\* again and again (StartRun), a run does not fail for ever (RunEnds), and
\* maintenance finds a goal due again and again.  No command, fault, lease that
\* runs out or shutdown is owed.
Fairness ==
  /\ WF_vars(Startup)
  /\ \A d \in Dispatchers : WF_vars(Taken(d) \/ Handler(d) \/ Serialise(d))
  /\ WF_vars(\E r \in orphans : OrphanReturns(r))
  /\ WF_vars(Maintenance \/ Serialise("maintenance"))
  /\ \A g \in Goals :
       /\ WF_vars(Poll(g) \/ ActivationReturns(g) \/ Completion(g) \/ Serialise(g))
       /\ WF_vars(RunEnds(g) \/ RunFails(g))
       /\ SF_vars(StartRun(g)) /\ SF_vars(RunEnds(g))
       /\ SF_vars(\E due \in SUBSET Goals : g \in due /\ MaintenanceActivates(due))

LiveSpec == Spec /\ Fairness

\* A pause that was recorded for a goal under way takes effect while the daemon
\* runs on: the goal leaves the list and nobody executes it, unless another
\* request comes in.  The run under way may fail, or its activation be polled
\* again although the goal is stopped, and only the completion of a run looks
\* for the request (loop-supervisor.ts:507-552, runner.ts:623-663).
PauseTakesEffect ==
  \A g \in Goals :
    (phase = "running" /\ file[g] = "pause_requested" /\ intent[g] # "unclear")
      ~> (phase # "running" \/ file[g] # "pause_requested" \/ intent[g] = "unclear"
          \/ (g \notin current /\ run[g] = "idle"))
=============================================================================
