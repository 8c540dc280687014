--------------------------- MODULE GoalCommandsProofs ---------------------------
(***************************************************************************)
(* Theorems about GoalCommands, for any goals, requests, dispatchers and    *)
(* faults: a goal stays as it was asked to be last, and all state and the   *)
(* queue of requests keep their shape.                                      *)
(***************************************************************************)
EXTENDS GoalCommands, WellFoundedInduction, TLAPS

-----------------------------------------------------------------------------
(* The invariant *)

\* The types the proofs need: all of TypeOK but the bounds and the queue of requests.
Phases == {"down", "restored", "starting", "ready", "running", "stopping"}
AnyKind == {"start", "schedule", "stop", "pause", "resume"}
Calling == [at : CallsAt, kind : AnyKind, goal : Goals, held : BOOLEAN]

Typed ==
  /\ phase \in Phases
  /\ file \in [Goals -> PauseStates] /\ mem \in [Goals -> PauseStates]
  /\ saved \in States /\ bufs \in [Savers -> States \cup {NoBuf}]
  /\ current \cup interrupted \cup stopped \cup cut \subseteq Goals
  /\ activation \in [Goals -> {"none", "pending", "claimed"}]
  /\ run \in [Goals -> RunsAt]
  /\ maint \in {Idle} \cup [at : {"ask", "save"}, goals : SUBSET Goals]
  /\ calls \in [Dispatchers -> {Idle} \cup Calling]
  /\ intent \in [Goals -> {"none", "start", "stop", "stopped before", "pause", "resume", "unclear"}]

\* Call d is at a step of a request for g.
At(d, g, at) == calls[d].at = at /\ calls[d].goal = g
Recording(g, kind) == \E d \in Dispatchers : At(d, g, "record") /\ calls[d].kind = kind
Stopping(g) == \E d \in Dispatchers : (At(d, g, "record") \/ At(d, g, "save")) /\ calls[d].kind = "stop"
Starting(g) == \E d \in Dispatchers : At(d, g, "save") /\ calls[d].kind \in {"start", "schedule", "resume"}

\* What a daemon that is not up yet has in hand, and what a state it serialises says.
PhaseOrder ==
  /\ ~Dispatching => /\ \A d \in Dispatchers : calls[d] = Idle
                     /\ \A g \in Goals : run[g] = "idle"
                     /\ maint = Idle
                     /\ \A s \in Savers : bufs[s] = NoBuf
  /\ phase # "stopping" => interrupted = {} /\ \A s \in Savers : bufs[s] # NoBuf => bufs[s].interrupted = {}
  /\ \A s \in Savers : bufs[s] # NoBuf => ~bufs[s].ended
  /\ phase = "starting" => saved.interrupted = {} /\ ~saved.ended

\* Whoever is about to write for a goal does what the goal was asked for last, or
\* that is unclear; during a shutdown it is.
Asked(kind) == IF kind = "schedule" THEN "start" ELSE kind
CallsFollow ==
  \A d \in Dispatchers, g \in Goals :
    /\ At(d, g, "load") => calls[d].kind = "resume"
    /\ At(d, g, "record") => calls[d].kind \in {"stop", "pause", "resume"}
    /\ At(d, g, "record") \/ At(d, g, "save") =>
         /\ intent[g] \in {Asked(calls[d].kind), "unclear"}
         /\ phase = "stopping" => intent[g] = "unclear"

PauseKept(g) ==
  intent[g] = "pause" =>
    /\ file[g] \in Pausing \/ Recording(g, "pause")
    /\ Dispatching /\ file[g] = "paused" =>
         \/ Recording(g, "pause")
         \/ g \notin current /\ (g \in stopped \/ (activation[g] = "none" /\ run[g] = "idle"))

StopKept(g) ==
  /\ intent[g] \in {"stop", "stopped before"} => file[g] = "emergency_stopped" \/ Recording(g, "stop")
  /\ intent[g] = "stop" => Dispatching /\ g \notin current /\ (g \in stopped \/ Stopping(g))

\* A goal that was started or resumed, and is not paused, is on the list of the
\* daemon and on that of every daemon to come.
On(g) == intent[g] = "start" \/ (intent[g] = "resume" /\ file[g] = "resumed")
StartKept(g) ==
  On(g) /\ file[g] \notin Pausing =>
    /\ Up => g \in current
    /\ phase = "stopping" => g \in interrupted
    /\ Starting(g) \/ g \in Recoverable
    /\ \A s \in Savers : bufs[s] # NoBuf /\ g \in bufs[s].active =>
         bufs[s].interrupted = {} \/ g \in bufs[s].interrupted

GoalInv(g) == PauseKept(g) /\ StopKept(g) /\ StartKept(g)
CommandInv == Typed /\ PhaseOrder /\ CallsFollow /\ \A g \in Goals : GoalInv(g)

-----------------------------------------------------------------------------
(* Types *)

LEMMA DaemonStateTyped ==
  ASSUME Typed
  PROVE  DaemonState \in States
BY DEF Typed, DaemonState, States

\* One step of a call leaves the others alone.
LEMMA Stepping ==
  ASSUME Typed, NEW d \in Dispatchers, NEW from, NEW to \in CallsAt \cup {"idle"}, Step(d, from, to), from # "idle"
  PROVE  /\ calls[d] \in Calling /\ calls[d].at = from
         /\ calls'[d] = IF to = "idle" THEN Idle
                        ELSE [at |-> to, kind |-> calls[d].kind, goal |-> calls[d].goal, held |-> calls[d].held]
         /\ \A e \in Dispatchers \ {d} : calls'[e] = calls[e]
         /\ calls' \in [Dispatchers -> {Idle} \cup Calling]
<1>1. calls[d] \in Calling /\ calls[d].at = from
  <2>1. calls[d] \in {Idle} \cup Calling
    BY DEF Typed
  <2>2. calls[d].at = from
    BY DEF Step
  <2>3. Idle.at = "idle"
    BY DEF Idle
  <2> QED
    BY <2>1, <2>2, <2>3
<1>2. calls' = [calls EXCEPT ![d] = IF to = "idle" THEN Idle ELSE [calls[d] EXCEPT !.at = to]]
  BY DEF Step
<1>3. [calls[d] EXCEPT !.at = to] = [at |-> to, kind |-> calls[d].kind, goal |-> calls[d].goal, held |-> calls[d].held]
  BY <1>1 DEF Calling
<1>4. to # "idle" => [calls[d] EXCEPT !.at = to] \in Calling
  BY <1>1, <1>3 DEF Calling
<1> QED
  BY <1>1, <1>2, <1>3, <1>4 DEF Typed

LEMMA SteppingOn ==
  ASSUME Typed, NEW d \in Dispatchers, NEW from, NEW to \in CallsAt, Step(d, from, to), from # "idle"
  PROVE  /\ calls[d] \in Calling /\ calls[d].at = from
         /\ calls'[d] \in Calling /\ calls'[d].at = to
         /\ calls'[d].kind = calls[d].kind /\ calls'[d].goal = calls[d].goal /\ calls'[d].held = calls[d].held
         /\ \A e \in Dispatchers \ {d} : calls'[e] = calls[e]
         /\ calls' \in [Dispatchers -> {Idle} \cup Calling]
<1>1. to # "idle"
  BY DEF CallsAt
<1>2. /\ calls[d] \in Calling /\ calls[d].at = from
      /\ calls'[d] = [at |-> to, kind |-> calls[d].kind, goal |-> calls[d].goal, held |-> calls[d].held]
      /\ \A e \in Dispatchers \ {d} : calls'[e] = calls[e]
      /\ calls' \in [Dispatchers -> {Idle} \cup Calling]
  BY <1>1, Stepping
<1> QED
  BY <1>2 DEF Calling

LEMMA SteppingOut ==
  ASSUME Typed, NEW d \in Dispatchers, NEW from, Step(d, from, "idle"), from # "idle"
  PROVE  /\ calls[d] \in Calling /\ calls[d].at = from
         /\ calls'[d] = Idle
         /\ \A e \in Dispatchers \ {d} : calls'[e] = calls[e]
         /\ calls' \in [Dispatchers -> {Idle} \cup Calling]
BY Stepping

LEMMA Taking ==
  ASSUME Typed, NEW d \in Dispatchers, NEW kind \in AnyKind, NEW g \in Goals, NEW at \in CallsAt,
         Take(d, [kind |-> kind, goal |-> g], at)
  PROVE  /\ calls[d] = Idle /\ Dispatching
         /\ calls'[d] = [at |-> at, kind |-> kind, goal |-> g, held |-> TRUE]
         /\ \A e \in Dispatchers \ {d} : calls'[e] = calls[e]
         /\ calls' \in [Dispatchers -> {Idle} \cup Calling]
         /\ UNCHANGED <<phase, file, saved, cut, bufs, activation, run, maint>>
<1>1. calls' = [calls EXCEPT ![d] = [at |-> at, kind |-> kind, goal |-> g, held |-> TRUE]]
  BY DEF Take
<1>2. calls[d] = Idle
  <2>1. calls[d] \in {Idle} \cup Calling
    BY DEF Typed
  <2>2. calls[d].at = "idle"
    BY DEF Take, Handling
  <2> QED
    BY <2>1, <2>2 DEF Calling, CallsAt
<1>3. [at |-> at, kind |-> kind, goal |-> g, held |-> TRUE] \in Calling
  BY DEF Calling
<1>4. Dispatching /\ UNCHANGED <<phase, file, saved, cut, bufs, activation, run, maint>>
  BY DEF Take, disk
<1> QED
  BY <1>1, <1>2, <1>3, <1>4 DEF Typed

\* What stays where only runs, activations and the queue move.
Aside ==
  /\ UNCHANGED <<phase, file, mem, saved, cut, bufs, current, interrupted, stopped, calls, maint, intent>>
  /\ run' \in [Goals -> RunsAt] /\ activation' \in [Goals -> {"none", "pending", "claimed"}]
  /\ \A g \in Goals : run[g] = "idle" =>
       /\ activation[g] = "none" => run'[g] = "idle" /\ activation'[g] = "none"
       /\ run'[g] = "idle" \/ phase = "running"

LEMMA AsideSteps ==
  ASSUME Typed,
         \/ \E r \in Requests : Issue(r)
         \/ \E g \in Goals : Supervisor(g) \/ CompletionChecks(g) \/ Settle(g) \/ CheckpointFails(g)
         \/ \E r \in orphans : OrphanReturns(r)
  PROVE  Aside
<1> USE DEF Typed, Aside, RunsAt
<1>1. ASSUME NEW r \in Requests, Issue(r) PROVE Aside
  BY <1>1 DEF Issue, disk, memory
<1>2. ASSUME NEW r, OrphanReturns(r) PROVE Aside
  BY <1>2 DEF OrphanReturns, disk, memory
<1>3. ASSUME NEW g \in Goals, Supervisor(g) PROVE Aside
  <2>1. CASE Poll(g)
    BY <2>1 DEF Poll, disk, memory
  <2>2. CASE StartRun(g) \/ DispatchReturned(g) \/ RunEnds(g)
    <3>1. /\ UNCHANGED <<phase, file, mem, saved, cut, bufs, current, interrupted, stopped, calls, maint, intent>>
          /\ run[g] # "idle" /\ \A x \in Goals \ {g} : run'[x] = run[x] /\ activation'[x] = activation[x]
      BY <2>2 DEF StartRun, DispatchReturned, RunEnds, disk, memory
    <3>2. run' \in [Goals -> RunsAt] /\ activation' \in [Goals -> {"none", "pending", "claimed"}]
      BY <2>2 DEF StartRun, DispatchReturned, RunEnds
    <3> QED
      BY <3>1, <3>2
  <2>3. CASE RunFails(g)
    <3>1. PICK a \in {"claimed", "none"} : activation' = [activation EXCEPT ![g] = a]
      BY <2>3 DEF RunFails
    <3>2. /\ UNCHANGED <<phase, file, mem, saved, cut, bufs, current, interrupted, stopped, calls, maint, intent>>
          /\ run[g] = "running" /\ run' = [run EXCEPT ![g] = "idle"]
      BY <2>3 DEF RunFails, disk, memory
    <3> QED
      BY <3>1, <3>2
  <2>4. CASE ActivationReturns(g)
    BY <2>4 DEF ActivationReturns, disk, memory
  <2> QED
    BY <1>3, <2>1, <2>2, <2>3, <2>4 DEF Supervisor
<1>4. ASSUME NEW g \in Goals, CompletionChecks(g) \/ Settle(g) \/ CheckpointFails(g) PROVE Aside
  BY <1>4 DEF CompletionChecks, Settle, CheckpointFails, disk, memory
<1> QED
  BY <1>1, <1>2, <1>3, <1>4

\* A saver renames what it has serialised.
LEMMA Renaming ==
  ASSUME Typed, NEW s \in Savers, Rename(s)
  PROVE  /\ Up /\ bufs[s] # NoBuf /\ bufs[s] \in States /\ saved' = bufs[s] /\ saved' \in States
         /\ bufs'[s] = NoBuf /\ (\A x \in Savers \ {s} : bufs'[x] = bufs[x])
         /\ bufs' \in [Savers -> States \cup {NoBuf}]
BY DEF Rename, Typed

LEMMA Doubting ==
  ASSUME Typed, NEW gs, Doubt(gs)
  PROVE  /\ intent' \in [Goals -> {"none", "start", "stop", "stopped before", "pause", "resume", "unclear"}]
         /\ \A g \in Goals : intent'[g] = IF g \in gs THEN "unclear" ELSE intent[g]
BY DEF Doubt, Typed

LEMMA MarkingPaused ==
  ASSUME Typed, NEW g \in Goals, MarkPaused(g)
  PROVE  /\ intent' \in [Goals -> {"none", "start", "stop", "stopped before", "pause", "resume", "unclear"}]
         /\ intent'[g] \in {"pause", "unclear"} /\ (intent'[g] = "pause" => intent[g] = "pause")
         /\ \A x \in Goals \ {g} : intent'[x] = intent[x]
         /\ file' = [file EXCEPT ![g] = "paused"] /\ mem' = [mem EXCEPT ![g] = "paused"]
         /\ current' = current \ {g} /\ stopped' = stopped \cup {g} /\ UNCHANGED <<saved, cut, interrupted>>
<1>1. Doubt(IF intent[g] = "pause" THEN {} ELSE {g})
  BY DEF MarkPaused
<1>2. /\ file' = [file EXCEPT ![g] = "paused"] /\ mem' = [mem EXCEPT ![g] = "paused"]
      /\ current' = current \ {g} /\ stopped' = stopped \cup {g} /\ UNCHANGED <<saved, cut, interrupted>>
  BY DEF MarkPaused, LeavesList
<1>3. \E gs : Doubt(gs) /\ (g \in gs <=> intent[g] # "pause") /\ \A x \in Goals \ {g} : x \notin gs
  <2>1. CASE intent[g] = "pause"
    BY <1>1, <2>1
  <2>2. CASE intent[g] # "pause"
    BY <1>1, <2>2
  <2> QED
    BY <2>1, <2>2
<1>4. PICK gs : Doubt(gs) /\ (g \in gs <=> intent[g] # "pause") /\ \A x \in Goals \ {g} : x \notin gs
  BY <1>3
<1>5. /\ intent' \in [Goals -> {"none", "start", "stop", "stopped before", "pause", "resume", "unclear"}]
      /\ \A x \in Goals : intent'[x] = IF x \in gs THEN "unclear" ELSE intent[x]
  BY <1>4, Doubting
<1> QED
  BY <1>2, <1>4, <1>5

LEMMA Activating ==
  ASSUME Typed, NEW gs, ActivateGoals(gs)
  PROVE  /\ stopped' = stopped \ gs
         /\ activation' \in [Goals -> {"none", "pending", "claimed"}]
         /\ \A g \in Goals \ gs : activation'[g] = activation[g]
BY DEF ActivateGoals, Enqueued, Typed

-----------------------------------------------------------------------------
(* What a step may leave alone *)

\* Calls: no request begins to write.
LEMMA CallsFrame ==
  ASSUME CallsFollow, phase' = phase,
         \A d \in Dispatchers, g \in Goals :
           /\ At(d, g, "load")' => At(d, g, "load") /\ calls'[d].kind = calls[d].kind
           /\ At(d, g, "record")' => At(d, g, "record") /\ calls'[d].kind = calls[d].kind
           /\ At(d, g, "save")' => (At(d, g, "record") \/ At(d, g, "save")) /\ calls'[d].kind = calls[d].kind
           /\ intent'[g] \in {intent[g], "unclear"}
  PROVE  CallsFollow'
BY DEF CallsFollow

\* A goal that is paused or stopped, while its request is not over and nobody
\* puts it back.
LEMMA RestFrame ==
  ASSUME NEW g \in Goals, PauseKept(g), StopKept(g), phase' = phase,
         intent'[g] \in {intent[g], "unclear"}, file'[g] = file[g],
         intent'[g] = intent[g] /\ g \in current' => g \in current,
         intent'[g] = intent[g] /\ g \in stopped => g \in stopped',
         activation[g] = "none" /\ run[g] = "idle" => activation'[g] = "none" /\ run'[g] = "idle",
         intent'[g] = intent[g] =>
           /\ \A k \in {"pause", "stop"} : Recording(g, k) => Recording(g, k)'
           /\ Stopping(g) => Stopping(g)' \/ g \in stopped'
  PROVE  PauseKept(g)' /\ StopKept(g)'
<1>1. PauseKept(g)'
  BY DEF PauseKept, Dispatching
<1>2. StopKept(g)'
  BY DEF StopKept, Dispatching
<1> QED
  BY <1>1, <1>2

\* A goal that is on, while the lists and what is saved stay.
LEMMA StartFrame ==
  ASSUME NEW g \in Goals, StartKept(g), UNCHANGED <<phase, saved, bufs>>,
         g \in interrupted => g \in interrupted',
         intent'[g] \in {intent[g], "unclear"}, file'[g] = file[g],
         intent'[g] = intent[g] /\ g \in current => g \in current',
         intent'[g] = intent[g] /\ Starting(g) => Starting(g)'
  PROVE  StartKept(g)'
BY DEF StartKept, On, Up, Recoverable

\* A goal that is on, when a state is written over the saved one that shows it right.
LEMMA RenameFrame ==
  ASSUME Typed, PhaseOrder, NEW s \in Savers, Rename(s), Doubt(ShownWrong(s)),
         UNCHANGED <<phase, file, current, interrupted>>, NEW g \in Goals, StartKept(g)
  PROVE  StartKept(g)'
<1> SUFFICES ASSUME On(g)', file'[g] \notin Pausing PROVE StartKept(g)'
  BY DEF StartKept
<1>1. intent'[g] = intent[g] /\ g \notin ShownWrong(s)
  BY Doubting DEF On
<1>2. On(g) /\ file[g] \notin Pausing
  BY <1>1 DEF On
<1>3. Up /\ bufs[s] # NoBuf /\ saved' = bufs[s] /\ bufs'[s] = NoBuf /\ \A x \in Savers \ {s} : bufs'[x] = bufs[x]
  BY Renaming
<1>4. g \in current /\ (phase = "stopping" => g \in interrupted)
  BY <1>2, <1>3 DEF StartKept
<1>5. g \in bufs[s].active
  BY <1>1, <1>4 DEF ShownWrong
<1>6. g \in Recoverable'
  BY <1>2, <1>3, <1>5 DEF StartKept, PhaseOrder, Recoverable
<1>7. \A x \in Savers : bufs'[x] # NoBuf /\ g \in bufs'[x].active => bufs'[x].interrupted = {} \/ g \in bufs'[x].interrupted
  BY <1>2, <1>3 DEF StartKept
<1> QED
  BY <1>4, <1>6, <1>7 DEF StartKept, Up

\* What is under way in a call, a run or maintenance, the daemon is up for.
LEMMA UnderWay ==
  ASSUME Typed, PhaseOrder
  PROVE  /\ \A d \in Dispatchers : calls[d].at # "idle" => Dispatching
         /\ \A g \in Goals : run[g] # "idle" => Dispatching
         /\ maint.at # "idle" => Dispatching
         /\ \A s \in Savers : bufs[s] # NoBuf => Dispatching
BY DEF PhaseOrder, Idle

LEMMA RenamePhase ==
  ASSUME Typed, PhaseOrder, NEW s \in Savers, Rename(s), UNCHANGED <<phase, interrupted>>
  PROVE  PhaseOrder'
<1>1. bufs'[s] = NoBuf /\ \A x \in Savers \ {s} : bufs'[x] = bufs[x]
  BY Renaming
<1>2. Dispatching
  BY Renaming, UnderWay
<1> QED
  BY <1>1, <1>2 DEF PhaseOrder, Dispatching

\* A step of a daemon that is up and stays so leaves the order of its phases alone.
LEMMA PhaseFrame ==
  ASSUME PhaseOrder, Dispatching, UNCHANGED <<phase, interrupted, bufs>>
  PROVE  PhaseOrder'
BY DEF PhaseOrder, Dispatching

-----------------------------------------------------------------------------
(* Each step *)

LEMMA AsideKept ==
  ASSUME CommandInv, Aside
  PROVE  CommandInv'
<1> USE DEF CommandInv, Aside
<1>1. Typed'
  BY DEF Typed
<1>2. PhaseOrder'
  BY DEF PhaseOrder, Dispatching
<1>3. CallsFollow'
  BY CallsFrame DEF At
<1>4. ASSUME NEW g \in Goals PROVE GoalInv(g)'
  BY RestFrame, StartFrame DEF GoalInv, Recording, Stopping, Starting, At
<1> QED
  BY <1>1, <1>2, <1>3, <1>4

LEMMA SerialiseKept ==
  ASSUME CommandInv, NEW s \in Savers, Serialise(s)
  PROVE  CommandInv'
<1> USE DEF CommandInv
<1>0. /\ UNCHANGED <<phase, file, mem, saved, cut, current, interrupted, stopped, activation, run, maint, calls, intent>>
      /\ bufs' = [bufs EXCEPT ![s] = DaemonState] /\ Saving(s)
  BY DEF Serialise, disk, memory
<1>1. Typed'
  BY <1>0, DaemonStateTyped DEF Typed
<1>2. Dispatching
  BY <1>0, UnderWay DEF Saving, Savers
<1>3. \A x \in Savers : bufs'[x] = IF x = s THEN DaemonState ELSE bufs[x]
  BY <1>0 DEF Typed
<1>4. PhaseOrder'
  BY <1>0, <1>2, <1>3 DEF PhaseOrder, Dispatching, DaemonState
<1>5. CallsFollow'
  BY <1>0, CallsFrame DEF At
<1>6. ASSUME NEW g \in Goals PROVE GoalInv(g)'
  <2>1. PauseKept(g)' /\ StopKept(g)'
    BY <1>0, RestFrame DEF GoalInv, Recording, Stopping, At
  <2>2. StartKept(g)'
    <3>1. \A x : On(g) /\ file[g] \notin Pausing /\ x \in Savers /\ bufs'[x] # NoBuf /\ g \in bufs'[x].active
            => bufs'[x].interrupted = {} \/ g \in bufs'[x].interrupted
      BY <1>3 DEF GoalInv, StartKept, PhaseOrder, DaemonState
    <3> QED
      BY <1>0, <3>1 DEF GoalInv, StartKept, On, Up, Starting, At, Recoverable
  <2> QED
    BY <2>1, <2>2 DEF GoalInv
<1> QED
  BY <1>1, <1>4, <1>5, <1>6

\* A saver is done: what is saved shows every goal right that is not in doubt.
LEMMA SavedKept ==
  ASSUME CommandInv, NEW s \in Savers, Rename(s), Doubt(ShownWrong(s)),
         UNCHANGED <<phase, file, mem, cut, current, interrupted>>,
         run' \in [Goals -> RunsAt], activation' \in [Goals -> {"none", "pending", "claimed"}],
         maint' \in {Idle} \cup [at : {"ask", "save"}, goals : SUBSET Goals],
         stopped' \subseteq Goals, calls' \in [Dispatchers -> {Idle} \cup Calling],
         \A d \in Dispatchers : calls'[d] = calls[d] \/ (calls'[d] = Idle /\ calls[d].at # "record")
                                \/ (calls'[d].at = "checkpoint" /\ calls[d].at = "save"),
         \A g \in Goals :
           intent'[g] = intent[g] =>
             /\ intent[g] \in {"pause", "stop"} /\ g \in stopped => g \in stopped'
             /\ intent[g] \in {"pause", "stop"} /\ activation[g] = "none" /\ run[g] = "idle"
                  => activation'[g] = "none" /\ run'[g] = "idle"
             /\ Stopping(g) => Stopping(g)' \/ g \in stopped'
  PROVE  CommandInv'
<1> USE DEF CommandInv
<1>1. /\ \A g \in Goals : intent'[g] \in {intent[g], "unclear"}
      /\ intent' \in [Goals -> {"none", "start", "stop", "stopped before", "pause", "resume", "unclear"}]
  BY Doubting
<1>2. Typed'
  BY <1>1, Renaming DEF Typed
<1>3. PhaseOrder'
  BY RenamePhase
<1>4. \A d \in Dispatchers, g \in Goals :
        /\ At(d, g, "load")' => At(d, g, "load") /\ calls'[d] = calls[d]
        /\ At(d, g, "record")' => At(d, g, "record") /\ calls'[d] = calls[d]
        /\ At(d, g, "save")' => At(d, g, "save") /\ calls'[d] = calls[d]
        /\ At(d, g, "record") => At(d, g, "record")' /\ calls'[d] = calls[d]
  BY DEF At, Idle
<1>5. CallsFollow'
  BY <1>1, <1>4, CallsFrame
<1>6. ASSUME NEW g \in Goals PROVE GoalInv(g)'
  <2>1. \A k : Recording(g, k) => Recording(g, k)'
    BY <1>4 DEF Recording
  <2>2. PauseKept(g)'
    BY <1>1, <2>1 DEF GoalInv, PauseKept, Dispatching
  <2>3. StopKept(g)'
    BY <1>1, <2>1 DEF GoalInv, StopKept, Dispatching
  <2>4. StartKept(g)'
    BY RenameFrame DEF GoalInv
  <2> QED
    BY <2>2, <2>3, <2>4 DEF GoalInv
<1> QED
  BY <1>2, <1>3, <1>5, <1>6

LEMMA CompletionSavedKept ==
  ASSUME CommandInv, NEW g \in Goals, CompletionSaved(g)
  PROVE  CommandInv'
<1>1. /\ Rename(g) /\ Doubt(ShownWrong(g)) /\ run[g] \in {"finishing", "savePaused"}
      /\ run' = [run EXCEPT ![g] = IF run[g] = "finishing" THEN "completed" ELSE "settling"]
      /\ UNCHANGED <<phase, file, mem, cut, current, interrupted, stopped, activation, maint, calls>>
  BY DEF CompletionSaved, memory
<1>2. Typed /\ g \in Savers
  BY DEF CommandInv, Savers
<1>3. run' \in [Goals -> RunsAt] /\ \A x \in Goals : run[x] = "idle" => run'[x] = "idle"
  BY <1>1, <1>2 DEF Typed, RunsAt
<1>4. /\ stopped' \subseteq Goals /\ calls' \in [Dispatchers -> {Idle} \cup Calling]
      /\ activation' \in [Goals -> {"none", "pending", "claimed"}]
      /\ maint' \in {Idle} \cup [at : {"ask", "save"}, goals : SUBSET Goals]
  BY <1>1, <1>2 DEF Typed
<1>5. \A x \in Goals : Stopping(x) => Stopping(x)'
  BY <1>1 DEF Stopping, At
<1> QED
  BY <1>1, <1>2, <1>3, <1>4, <1>5, SavedKept

LEMMA MaintenanceSavedKept ==
  ASSUME CommandInv, MaintenanceSaved
  PROVE  CommandInv'
<1>1. /\ Rename("maintenance") /\ Doubt(ShownWrong("maintenance")) /\ maint' = Idle
      /\ UNCHANGED <<phase, file, mem, cut, current, interrupted, stopped, activation, run, calls>>
  BY DEF MaintenanceSaved, memory
<1>2. Typed /\ "maintenance" \in Savers
  BY DEF CommandInv, Savers
<1>3. /\ stopped' \subseteq Goals /\ calls' \in [Dispatchers -> {Idle} \cup Calling]
      /\ activation' \in [Goals -> {"none", "pending", "claimed"}] /\ run' \in [Goals -> RunsAt]
  BY <1>1, <1>2 DEF Typed
<1>4. \A x \in Goals : Stopping(x) => Stopping(x)'
  BY <1>1 DEF Stopping, At
<1> QED
  BY <1>1, <1>2, <1>3, <1>4, SavedKept

LEMMA CallEndsKept ==
  ASSUME CommandInv, NEW d \in Dispatchers, CallEnds(d)
  PROVE  CommandInv'
<1>1. /\ Rename(d) /\ Doubt(ShownWrong(d)) /\ calls[d].at \in {"saveOnly", "saveAgain"} /\ Step(d, calls[d].at, "idle")
      /\ UNCHANGED <<phase, file, mem, cut, current, interrupted, stopped, activation, run, maint>>
  BY DEF CallEnds, memory
<1>2. Typed /\ d \in Savers
  BY DEF CommandInv, Savers
<1>3. /\ calls'[d] = Idle /\ \A e \in Dispatchers \ {d} : calls'[e] = calls[e]
      /\ calls' \in [Dispatchers -> {Idle} \cup Calling]
  BY <1>1, <1>2, Stepping
<1>4. /\ stopped' \subseteq Goals /\ run' \in [Goals -> RunsAt]
      /\ activation' \in [Goals -> {"none", "pending", "claimed"}]
      /\ maint' \in {Idle} \cup [at : {"ask", "save"}, goals : SUBSET Goals]
  BY <1>1, <1>2 DEF Typed
<1>5. \A x \in Goals : Stopping(x) => Stopping(x)'
  BY <1>1, <1>3 DEF Stopping, At
<1> QED
  BY <1>1, <1>2, <1>3, <1>4, <1>5, SavedKept

LEMMA CallSavedKept ==
  ASSUME CommandInv, NEW d \in Dispatchers, CallSaved(d)
  PROVE  CommandInv'
<1> DEFINE g == calls[d].goal
           kind == calls[d].kind
<1>1. /\ Rename(d) /\ Doubt(ShownWrong(d)) /\ calls[d].at = "save"
      /\ UNCHANGED <<phase, file, mem, cut, current, interrupted, run, maint>>
  BY DEF CallSaved
<1>2. Typed /\ d \in Savers /\ CallsFollow
  BY DEF CommandInv, Savers
<1>3. PICK to \in {"idle", "checkpoint"} : Step(d, "save", to)
  BY DEF CallSaved
<1>4. /\ calls[d] \in Calling
      /\ calls'[d] = Idle \/ calls'[d].at = "checkpoint"
      /\ \A e \in Dispatchers \ {d} : calls'[e] = calls[e]
      /\ calls' \in [Dispatchers -> {Idle} \cup Calling]
  <2>1. CASE to = "idle"
    BY <1>2, <1>3, <2>1, SteppingOut
  <2>2. CASE to = "checkpoint"
    <3>1. "checkpoint" \in CallsAt
      BY DEF CallsAt
    <3> QED
      BY <1>2, <1>3, <2>2, <3>1, SteppingOn
  <2> QED
    BY <2>1, <2>2
<1>5. g \in Goals /\ At(d, g, "save") /\ intent[g] \in {Asked(kind), "unclear"}
  BY <1>1, <1>2, <1>4 DEF Calling, At, CallsFollow
<1>6. \/ kind \in {"start", "schedule", "resume"} /\ ActivateGoals({g})
      \/ kind \in {"stop", "pause"} /\ stopped' = stopped \cup {g} /\ UNCHANGED activation
  BY DEF CallSaved
<1>7. /\ stopped' \subseteq Goals /\ activation' \in [Goals -> {"none", "pending", "claimed"}]
      /\ \A x \in Goals : intent[x] \in {"pause", "stop"} =>
           (x \in stopped => x \in stopped') /\ activation'[x] = activation[x]
      /\ kind = "stop" => g \in stopped'
  <2>1. CASE kind \in {"start", "schedule", "resume"} /\ ActivateGoals({g})
    <3>1. intent[g] \notin {"pause", "stop"}
      BY <1>5, <2>1 DEF Asked
    <3>2. /\ stopped' = stopped \ {g}
          /\ activation' \in [Goals -> {"none", "pending", "claimed"}]
          /\ \A x \in Goals \ {g} : activation'[x] = activation[x]
      BY <1>2, <2>1, Activating
    <3>3. stopped' \subseteq Goals
      BY <1>2, <3>2 DEF Typed
    <3>4. ASSUME NEW x \in Goals, intent[x] \in {"pause", "stop"}
          PROVE  (x \in stopped => x \in stopped') /\ activation'[x] = activation[x]
      BY <3>1, <3>2, <3>4
    <3> QED
      BY <2>1, <3>2, <3>3, <3>4
  <2>2. CASE kind \in {"stop", "pause"} /\ stopped' = stopped \cup {g} /\ UNCHANGED activation
    BY <1>2, <1>5, <2>2 DEF Typed
  <2> QED
    BY <1>6, <2>1, <2>2
<1>8. /\ run' \in [Goals -> RunsAt] /\ maint' \in {Idle} \cup [at : {"ask", "save"}, goals : SUBSET Goals]
  BY <1>1, <1>2 DEF Typed
<1>9. \A x \in Goals : Stopping(x) => Stopping(x)' \/ x \in stopped'
  BY <1>4, <1>7 DEF Stopping, At
<1> HIDE DEF g, kind
<1> QED
  BY <1>1, <1>2, <1>4, <1>7, <1>8, <1>9, SavedKept

\* A requested pause is checkpointed, by the handler or by the completion of a run.
LEMMA PausedKept ==
  ASSUME CommandInv, NEW g \in Goals, MarkPaused(g), Dispatching,
         UNCHANGED <<phase, bufs, activation, maint>>, run' \in [Goals -> RunsAt],
         \A x \in Goals : run[x] = "idle" => run'[x] = "idle",
         calls' \in [Dispatchers -> {Idle} \cup Calling],
         \A d \in Dispatchers : calls'[d] = calls[d] \/ (calls'[d].at = "saveAgain" /\ calls[d].at = "checkpoint")
  PROVE  CommandInv'
<1> USE DEF CommandInv
<1>1. /\ intent' \in [Goals -> {"none", "start", "stop", "stopped before", "pause", "resume", "unclear"}]
      /\ intent'[g] \in {"pause", "unclear"} /\ (intent'[g] = "pause" => intent[g] = "pause")
      /\ \A x \in Goals \ {g} : intent'[x] = intent[x]
      /\ file' = [file EXCEPT ![g] = "paused"] /\ mem' = [mem EXCEPT ![g] = "paused"]
      /\ current' = current \ {g} /\ stopped' = stopped \cup {g} /\ UNCHANGED <<saved, cut, interrupted>>
  BY MarkingPaused
<1>2. Typed'
  BY <1>1 DEF Typed, PauseStates
<1>3. PhaseOrder'
  BY <1>1, PhaseFrame
<1>4. \A d \in Dispatchers, x \in Goals, at \in {"load", "record", "save"} :
        /\ At(d, x, at)' <=> At(d, x, at)
        /\ At(d, x, at) => calls'[d] = calls[d]
  BY DEF At
<1>5. \A x \in Goals : intent'[x] \in {intent[x], "unclear"}
  BY <1>1
<1>6. CallsFollow'
  BY <1>4, <1>5, CallsFrame
<1>7. ASSUME NEW x \in Goals PROVE GoalInv(x)'
  <2>1. CASE x = g
    BY <1>1, <2>1 DEF GoalInv, PauseKept, StopKept, StartKept, On, Typed, Pausing
  <2>2. CASE x # g
    <3>1. file'[x] = file[x] /\ intent'[x] = intent[x] /\ (x \in current' <=> x \in current) /\ (x \in stopped' <=> x \in stopped)
      BY <1>1, <2>2 DEF Typed
    <3>2. (\A k : Recording(x, k)' <=> Recording(x, k)) /\ (Stopping(x)' <=> Stopping(x)) /\ (Starting(x)' <=> Starting(x))
      BY <1>4 DEF Recording, Stopping, Starting
    <3> QED
      BY <1>1, <3>1, <3>2, RestFrame, StartFrame DEF GoalInv
  <2> QED
    BY <2>1, <2>2
<1> QED
  BY <1>2, <1>3, <1>6, <1>7

LEMMA CheckpointsKept ==
  ASSUME CommandInv,
         \/ \E g \in Goals : CompletionCheckpoints(g)
         \/ \E d \in Dispatchers : CallCheckpoints(d)
  PROVE  CommandInv'
<1>0. Typed /\ PhaseOrder
  BY DEF CommandInv
<1>1. ASSUME NEW g \in Goals, CompletionCheckpoints(g) PROVE CommandInv'
  <2>1. /\ MarkPaused(g) /\ run[g] = "checkpoint" /\ run' = [run EXCEPT ![g] = "savePaused"]
        /\ UNCHANGED <<phase, bufs, activation, maint, calls>>
    BY <1>1 DEF CompletionCheckpoints
  <2>2. Dispatching
    BY <1>0, <2>1, UnderWay
  <2>3. run' \in [Goals -> RunsAt] /\ \A x \in Goals : run[x] = "idle" => run'[x] = "idle"
    BY <1>0, <2>1 DEF Typed, RunsAt
  <2>4. calls' \in [Dispatchers -> {Idle} \cup Calling]
    BY <1>0, <2>1 DEF Typed
  <2> QED
    BY <2>1, <2>2, <2>3, <2>4, PausedKept
<1>2. ASSUME NEW d \in Dispatchers, CallCheckpoints(d) PROVE CommandInv'
  <2>1. /\ MarkPaused(calls[d].goal) /\ Step(d, "checkpoint", "saveAgain")
        /\ UNCHANGED <<phase, bufs, activation, run, maint>>
    BY <1>2 DEF CallCheckpoints
  <2>2. /\ calls[d] \in Calling /\ calls[d].at = "checkpoint" /\ calls'[d].at = "saveAgain"
        /\ \A e \in Dispatchers \ {d} : calls'[e] = calls[e]
        /\ calls' \in [Dispatchers -> {Idle} \cup Calling]
    <3>1. "saveAgain" \in CallsAt
      BY DEF CallsAt
    <3> QED
      BY <1>0, <2>1, <3>1, SteppingOn
  <2>3. Dispatching /\ calls[d].goal \in Goals
    BY <1>0, <2>2, UnderWay DEF Calling
  <2>4. run' \in [Goals -> RunsAt]
    BY <1>0, <2>1 DEF Typed
  <2> QED
    BY <2>1, <2>2, <2>3, <2>4, PausedKept
<1> QED
  BY <1>1, <1>2

\* A request moves on without writing, or the maintenance cycle reads the list.
LEMMA QuietKept ==
  ASSUME CommandInv, Dispatching,
         UNCHANGED <<phase, file, saved, cut, bufs, current, interrupted, stopped, activation, run, intent>>,
         mem' \in [Goals -> PauseStates],
         maint' \in {Idle} \cup [at : {"ask", "save"}, goals : SUBSET Goals],
         calls' \in [Dispatchers -> {Idle} \cup Calling],
         \A d \in Dispatchers :
           /\ calls'[d].at = "load" => calls'[d].kind = "resume"
           /\ {calls[d].at, calls'[d].at} \cap {"record", "save"} # {} =>
                calls'[d].at = calls[d].at /\ calls'[d].goal = calls[d].goal /\ calls'[d].kind = calls[d].kind
  PROVE  CommandInv'
<1> USE DEF CommandInv
<1>1. Typed'
  BY DEF Typed
<1>2. PhaseOrder'
  BY PhaseFrame
<1>3. \A d \in Dispatchers, x \in Goals, at \in {"record", "save"} :
        /\ At(d, x, at)' <=> At(d, x, at)
        /\ At(d, x, at) => calls'[d].kind = calls[d].kind
  BY DEF At
<1>4. CallsFollow'
  BY <1>3 DEF CallsFollow, At
<1>5. ASSUME NEW x \in Goals PROVE GoalInv(x)'
  <2>1. (\A k : Recording(x, k)' <=> Recording(x, k)) /\ (Stopping(x)' <=> Stopping(x)) /\ (Starting(x)' <=> Starting(x))
    BY <1>3 DEF Recording, Stopping, Starting
  <2> QED
    BY <2>1, RestFrame, StartFrame DEF GoalInv
<1> QED
  BY <1>1, <1>2, <1>4, <1>5

\* A request for g is taken up; what it does to g itself is for the caller to show.
LEMMA TakenUpKept ==
  ASSUME CommandInv, Dispatching, NEW d \in Dispatchers, NEW g \in Goals,
         NEW kind \in AnyKind, NEW at \in {"record", "save"},
         calls[d].at \in {"idle", "load"},
         calls'[d].at = at, calls'[d].kind = kind, calls'[d].goal = g,
         \A e \in Dispatchers \ {d} : calls'[e] = calls[e],
         calls' \in [Dispatchers -> {Idle} \cup Calling],
         at = "record" => kind \in {"stop", "pause", "resume"},
         TakenUp(d, Asked(kind), g),
         UNCHANGED <<phase, file, mem, saved, cut, bufs, stopped, activation, run, maint>>,
         current' \subseteq Goals, interrupted' \subseteq interrupted,
         \A x \in Goals \ {g} : (x \in current' <=> x \in current) /\ (x \in interrupted' <=> x \in interrupted),
         intent'[g] = Asked(kind) /\ phase # "stopping" => GoalInv(g)'
  PROVE  CommandInv'
<1> USE DEF CommandInv
<1>0. Asked(kind) \in {"start", "stop", "pause", "resume"}
  BY DEF Asked, AnyKind
<1>1. /\ intent' \in [Goals -> {"none", "start", "stop", "stopped before", "pause", "resume", "unclear"}]
      /\ intent'[g] = IF Alone(d, g) THEN Asked(kind) ELSE "unclear"
      /\ \A x \in Goals \ {g} : intent'[x] = intent[x]
  BY <1>0 DEF TakenUp, Typed
<1>2. Typed'
  BY <1>1 DEF Typed
<1>3. PhaseOrder'
  BY DEF PhaseOrder, Dispatching
<1>4. \A e \in Dispatchers \ {d}, x \in Goals, p \in CallsAt : At(e, x, p)' <=> At(e, x, p)
  BY DEF At
<1>5. CallsFollow'
  <2> SUFFICES ASSUME NEW e \in Dispatchers, NEW x \in Goals
               PROVE  /\ At(e, x, "load")' => calls'[e].kind = "resume"
                      /\ At(e, x, "record")' => calls'[e].kind \in {"stop", "pause", "resume"}
                      /\ At(e, x, "record")' \/ At(e, x, "save")' =>
                           /\ intent'[x] \in {Asked(calls'[e].kind), "unclear"}
                           /\ phase' = "stopping" => intent'[x] = "unclear"
    BY DEF CallsFollow
  <2>1. CASE e = d
    BY <1>1, <2>1 DEF At, Alone
  <2>2. CASE e # d
    <3>1. CASE x = g
      <4>1. At(e, g, "record") \/ At(e, g, "save") => intent'[g] = "unclear"
        BY <1>1, <2>2 DEF At, Alone, Handling
      <4> QED
        BY <1>4, <2>2, <3>1, <4>1 DEF CallsFollow, CallsAt
    <3>2. CASE x # g
      BY <1>1, <1>4, <2>2, <3>2 DEF CallsFollow, CallsAt
    <3> QED
      BY <3>1, <3>2
  <2> QED
    BY <2>1, <2>2
<1>6. ASSUME NEW x \in Goals, x # g PROVE GoalInv(x)'
  <2>1. \A p \in {"record", "save"} : ~At(d, x, p) /\ ~At(d, x, p)'
    BY <1>6 DEF At
  <2>2. (\A k : Recording(x, k)' <=> Recording(x, k)) /\ (Stopping(x)' <=> Stopping(x)) /\ (Starting(x)' <=> Starting(x))
    BY <2>1 DEF Recording, Stopping, Starting, At
  <2> QED
    BY <1>1, <1>6, <2>2, RestFrame, StartFrame DEF GoalInv
<1>7. GoalInv(g)'
  <2>1. CASE Alone(d, g)
    BY <1>1, <2>1 DEF Alone
  <2>2. CASE ~Alone(d, g)
    BY <1>1, <2>2 DEF GoalInv, PauseKept, StopKept, StartKept, On
  <2> QED
    BY <2>1, <2>2
<1> QED
  BY <1>2, <1>3, <1>5, <1>6, <1>7

LEMMA TakenKept ==
  ASSUME CommandInv, NEW d \in Dispatchers, Taken(d)
  PROVE  CommandInv'
<1>0. Typed /\ PhaseOrder /\ CallsFollow
  BY DEF CommandInv
<1>1. PICK g \in Goals : TakeStart(d, g) \/ TakeStop(d, g) \/ TakePause(d, g) \/ TakeResume(d, g)
  BY DEF Taken
\* What all four do.
<1>2. ASSUME NEW kind \in AnyKind, NEW at \in {"load", "record", "save"}, Take(d, [kind |-> kind, goal |-> g], at)
      PROVE  /\ calls[d] = Idle /\ calls[d].at = "idle" /\ Dispatching
             /\ calls'[d].at = at /\ calls'[d].kind = kind /\ calls'[d].goal = g
             /\ \A e \in Dispatchers \ {d} : calls'[e] = calls[e]
             /\ calls' \in [Dispatchers -> {Idle} \cup Calling]
             /\ UNCHANGED <<phase, file, saved, cut, bufs, activation, run, maint>>
  <2>1. at \in CallsAt
    BY DEF CallsAt
  <2>2. /\ calls[d] = Idle /\ Dispatching
        /\ calls'[d] = [at |-> at, kind |-> kind, goal |-> g, held |-> TRUE]
        /\ \A e \in Dispatchers \ {d} : calls'[e] = calls[e]
        /\ calls' \in [Dispatchers -> {Idle} \cup Calling]
        /\ UNCHANGED <<phase, file, saved, cut, bufs, activation, run, maint>>
    BY <1>0, <1>2, <2>1, Taking
  <2> QED
    BY <2>2 DEF Idle
<1>3. CASE TakeStart(d, g)
  <2>1. PICK kind \in {"start", "schedule"} : Take(d, [kind |-> kind, goal |-> g], "save") /\ TakenUp(d, "start", g)
    BY <1>3 DEF TakeStart
  <2>2. kind \in AnyKind /\ Asked(kind) = "start"
    BY DEF AnyKind, Asked
  <2>3. current' = current \cup {g} /\ UNCHANGED <<mem, interrupted, stopped>>
    BY <1>3 DEF TakeStart
  <2>4. /\ calls[d].at = "idle" /\ Dispatching
        /\ calls'[d].at = "save" /\ calls'[d].kind = kind /\ calls'[d].goal = g
        /\ \A e \in Dispatchers \ {d} : calls'[e] = calls[e]
        /\ calls' \in [Dispatchers -> {Idle} \cup Calling]
        /\ UNCHANGED <<phase, file, saved, cut, bufs, activation, run, maint>>
    BY <1>2, <2>1, <2>2
  <2>5. intent'[g] = "start" /\ phase # "stopping" => GoalInv(g)'
    <3>1. Starting(g)'
      BY <2>1, <2>4 DEF Starting, At
    <3>2. phase # "stopping" => \A s \in Savers : bufs'[s] # NoBuf => bufs'[s].interrupted = {}
      BY <1>0, <2>4 DEF PhaseOrder
    <3> QED
      BY <2>3, <2>4, <3>1, <3>2 DEF GoalInv, PauseKept, StopKept, StartKept
  <2>6. current' \subseteq Goals
    BY <1>0, <2>3 DEF Typed
  <2> QED
    BY <2>1, <2>2, <2>3, <2>4, <2>5, <2>6, TakenUpKept
<1>4. CASE TakeStop(d, g)
  <2>1. /\ Take(d, [kind |-> "stop", goal |-> g], "record") /\ TakenUp(d, "stop", g)
        /\ current' = current \ {g} /\ interrupted' = interrupted \ {g} /\ UNCHANGED <<mem, stopped>>
    BY <1>4 DEF TakeStop
  <2>2. "stop" \in AnyKind /\ Asked("stop") = "stop"
    BY DEF AnyKind, Asked
  <2>4. /\ calls[d].at = "idle" /\ Dispatching
        /\ calls'[d].at = "record" /\ calls'[d].kind = "stop" /\ calls'[d].goal = g
        /\ \A e \in Dispatchers \ {d} : calls'[e] = calls[e]
        /\ calls' \in [Dispatchers -> {Idle} \cup Calling]
        /\ UNCHANGED <<phase, file, saved, cut, bufs, activation, run, maint>>
    BY <1>2, <2>1, <2>2
  <2>5. intent'[g] = "stop" => GoalInv(g)'
    <3>1. Recording(g, "stop")' /\ Stopping(g)'
      BY <2>4 DEF Recording, Stopping, At
    <3>2. Dispatching'
      BY <2>4 DEF Dispatching
    <3> QED
      BY <2>1, <3>1, <3>2 DEF GoalInv, PauseKept, StopKept, StartKept, On
  <2>6. current' \subseteq Goals
    BY <1>0, <2>1 DEF Typed
  <2> QED
    BY <2>1, <2>2, <2>4, <2>5, <2>6, TakenUpKept
<1>5. CASE TakePause(d, g)
  <2>1. /\ Take(d, [kind |-> "pause", goal |-> g], "record") /\ TakenUp(d, "pause", g)
        /\ UNCHANGED <<mem, current, interrupted, stopped>>
    BY <1>5 DEF TakePause, memory
  <2>2. "pause" \in AnyKind /\ Asked("pause") = "pause"
    BY DEF AnyKind, Asked
  <2>4. /\ calls[d].at = "idle" /\ Dispatching
        /\ calls'[d].at = "record" /\ calls'[d].kind = "pause" /\ calls'[d].goal = g
        /\ \A e \in Dispatchers \ {d} : calls'[e] = calls[e]
        /\ calls' \in [Dispatchers -> {Idle} \cup Calling]
        /\ UNCHANGED <<phase, file, saved, cut, bufs, activation, run, maint>>
    BY <1>2, <2>1, <2>2
  <2>5. intent'[g] = "pause" => GoalInv(g)'
    <3>1. Recording(g, "pause")'
      BY <2>4 DEF Recording, At
    <3> QED
      BY <3>1 DEF GoalInv, PauseKept, StopKept, StartKept, On
  <2>6. current' \subseteq Goals
    BY <1>0, <2>1 DEF Typed
  <2> QED
    BY <2>1, <2>2, <2>4, <2>5, <2>6, TakenUpKept
<1>6. CASE TakeResume(d, g)
  <2>1. /\ Take(d, [kind |-> "resume", goal |-> g], "load")
        /\ UNCHANGED <<mem, current, interrupted, stopped, intent>>
    BY <1>6 DEF TakeResume, memory
  <2>2. "resume" \in AnyKind
    BY DEF AnyKind
  <2>4. /\ calls[d].at = "idle" /\ Dispatching
        /\ calls'[d].at = "load" /\ calls'[d].kind = "resume"
        /\ \A e \in Dispatchers \ {d} : calls'[e] = calls[e]
        /\ calls' \in [Dispatchers -> {Idle} \cup Calling]
        /\ UNCHANGED <<phase, file, saved, cut, bufs, activation, run, maint>>
    BY <1>2, <2>1, <2>2
  <2>5. /\ mem' \in [Goals -> PauseStates]
        /\ maint' \in {Idle} \cup [at : {"ask", "save"}, goals : SUBSET Goals]
    BY <1>0, <2>1, <2>4 DEF Typed
  <2>6. \A e \in Dispatchers :
           /\ calls'[e].at = "load" => calls'[e].kind = "resume"
           /\ {calls[e].at, calls'[e].at} \cap {"record", "save"} # {} =>
                calls'[e].at = calls[e].at /\ calls'[e].goal = calls[e].goal /\ calls'[e].kind = calls[e].kind
    <3> SUFFICES ASSUME NEW e \in Dispatchers
                 PROVE  /\ calls'[e].at = "load" => calls'[e].kind = "resume"
                        /\ {calls[e].at, calls'[e].at} \cap {"record", "save"} # {} =>
                             calls'[e].at = calls[e].at /\ calls'[e].goal = calls[e].goal /\ calls'[e].kind = calls[e].kind
      OBVIOUS
    <3>1. calls[e] \in {Idle} \cup Calling
      BY <1>0 DEF Typed
    <3>2. calls[e].at = "load" => calls[e].kind = "resume"
      BY <1>0, <3>1 DEF CallsFollow, At, Calling, Idle
    <3> QED
      BY <2>4, <3>2
  <2> QED
    BY <2>1, <2>4, <2>5, <2>6, QuietKept
<1> QED
  BY <1>1, <1>3, <1>4, <1>5, <1>6

\* A call that is not at the step of a resume's load stays no such one.
LEMMA LoadsResume ==
  ASSUME Typed, CallsFollow, NEW d \in Dispatchers, calls[d].at = "load"
  PROVE  calls[d].kind = "resume" /\ calls[d].goal \in Goals /\ calls[d] \in Calling
<1>1. calls[d] \in {Idle} \cup Calling
  BY DEF Typed
<1>2. calls[d] \in Calling
  BY <1>1 DEF Idle
<1> QED
  BY <1>2 DEF CallsFollow, At, Calling

LEMMA LoadPauseKept ==
  ASSUME CommandInv, NEW d \in Dispatchers, LoadPause(d)
  PROVE  CommandInv'
<1>0. Typed /\ PhaseOrder /\ CallsFollow
  BY DEF CommandInv
<1>g. PICK g : g = calls[d].goal
  OBVIOUS
<1>1. /\ calls[d].at = "load"
      /\ UNCHANGED <<phase, file, saved, cut, current, interrupted, bufs, stopped, activation, run, maint>>
  BY DEF LoadPause, disk
<1>2. calls[d].kind = "resume" /\ g \in Goals /\ Dispatching
  BY <1>0, <1>g, <1>1, LoadsResume, UnderWay
<1>3. maint' \in {Idle} \cup [at : {"ask", "save"}, goals : SUBSET Goals]
  BY <1>0, <1>1 DEF Typed
<1>4. CASE file[g] \in Pausing /\ Step(d, "load", "record") /\ TakenUp(d, "resume", g) /\ UNCHANGED mem
  <2>1. "record" \in CallsAt /\ "resume" \in AnyKind /\ Asked("resume") = "resume"
    BY DEF CallsAt, AnyKind, Asked
  <2>2. /\ calls'[d].at = "record" /\ calls'[d].kind = "resume" /\ calls'[d].goal = g
        /\ \A e \in Dispatchers \ {d} : calls'[e] = calls[e]
        /\ calls' \in [Dispatchers -> {Idle} \cup Calling]
    BY <1>0, <1>g, <1>2, <1>4, <2>1, SteppingOn
  <2>3. intent'[g] = "resume" => GoalInv(g)'
    BY <1>1, <1>4 DEF GoalInv, PauseKept, StopKept, StartKept, On, Pausing
  <2>4. current' \subseteq Goals
    BY <1>0, <1>1 DEF Typed
  <2> QED
    BY <1>1, <1>2, <1>4, <2>1, <2>2, <2>3, <2>4, TakenUpKept
<1>5. CASE \E to \in {"idle", "saveOnly"} : Step(d, "load", to) /\ UNCHANGED intent /\ mem' \in [Goals -> PauseStates]
  <2>1. PICK to \in {"idle", "saveOnly"} : Step(d, "load", to) /\ UNCHANGED intent /\ mem' \in [Goals -> PauseStates]
    BY <1>5
  <2>2. /\ calls'[d].at \in {"idle", "saveOnly"}
        /\ \A e \in Dispatchers \ {d} : calls'[e] = calls[e]
        /\ calls' \in [Dispatchers -> {Idle} \cup Calling]
    <3>1. CASE to = "idle"
      BY <1>0, <2>1, <3>1, SteppingOut DEF Idle
    <3>2. CASE to = "saveOnly"
      <4>1. "saveOnly" \in CallsAt
        BY DEF CallsAt
      <4> QED
        BY <1>0, <2>1, <3>2, <4>1, SteppingOn
    <3> QED
      BY <3>1, <3>2
  <2>3. \A e \in Dispatchers :
           /\ calls'[e].at = "load" => calls'[e].kind = "resume"
           /\ {calls[e].at, calls'[e].at} \cap {"record", "save"} # {} =>
                calls'[e].at = calls[e].at /\ calls'[e].goal = calls[e].goal /\ calls'[e].kind = calls[e].kind
    BY <1>0, <1>1, <2>2, LoadsResume
  <2> QED
    BY <1>1, <1>2, <1>3, <2>1, <2>2, <2>3, QuietKept
<1>6. \/ file[g] \in Pausing /\ Step(d, "load", "record") /\ TakenUp(d, "resume", g) /\ UNCHANGED mem
      \/ Step(d, "load", "idle") /\ UNCHANGED <<mem, intent>>
      \/ Step(d, "load", "saveOnly") /\ mem' = [mem EXCEPT ![g] = file[g]] /\ UNCHANGED intent
  BY <1>g DEF LoadPause
<1>7. mem \in [Goals -> PauseStates] /\ [mem EXCEPT ![g] = file[g]] \in [Goals -> PauseStates]
  BY <1>0, <1>2 DEF Typed
<1> QED
  BY <1>4, <1>5, <1>6, <1>7

LEMMA RecordKept ==
  ASSUME CommandInv, NEW d \in Dispatchers, Record(d)
  PROVE  CommandInv'
<1>0. Typed /\ PhaseOrder /\ CallsFollow
  BY DEF CommandInv
<1>g. PICK g, kind : g = calls[d].goal /\ kind = calls[d].kind
  OBVIOUS
<1>1. /\ calls[d].at = "record" /\ Step(d, "record", "save")
      /\ file' = [file EXCEPT ![g] = RecordOf(kind)] /\ mem' = [mem EXCEPT ![g] = RecordOf(kind)]
      /\ current' = IF kind = "resume" THEN current \cup {g} ELSE current
      /\ UNCHANGED <<phase, saved, cut, interrupted, bufs, stopped, activation, run, maint, intent>>
  BY <1>g DEF Record
<1>2. "save" \in CallsAt
  BY DEF CallsAt
<1>3. /\ calls[d] \in Calling
      /\ calls'[d].at = "save" /\ calls'[d].kind = kind /\ calls'[d].goal = g
      /\ \A e \in Dispatchers \ {d} : calls'[e] = calls[e]
      /\ calls' \in [Dispatchers -> {Idle} \cup Calling]
  BY <1>0, <1>g, <1>1, <1>2, SteppingOn
<1>4. g \in Goals /\ At(d, g, "record") /\ Dispatching
  BY <1>0, <1>g, <1>1, <1>3, UnderWay DEF Calling, At
<1>5. /\ kind \in {"stop", "pause", "resume"} /\ intent[g] \in {kind, "unclear"}
      /\ phase = "stopping" => intent[g] = "unclear"
  BY <1>0, <1>g, <1>4 DEF CallsFollow, Asked
<1>6. /\ kind = "stop" => RecordOf(kind) = "emergency_stopped"
      /\ kind = "pause" => RecordOf(kind) = "pause_requested"
      /\ kind = "resume" => RecordOf(kind) = "resumed"
  BY DEF RecordOf
<1>7. Typed'
  <2>1. RecordOf(kind) \in PauseStates
    BY <1>5, <1>6 DEF PauseStates
  <2> QED
    BY <1>0, <1>1, <1>3, <1>4, <2>1 DEF Typed
<1>8. PhaseOrder'
  BY <1>0, <1>1, <1>4, PhaseFrame
<1>9. \A e \in Dispatchers, x \in Goals, p \in {"load", "record", "save"} :
        At(e, x, p)' <=> IF e = d THEN p = "save" /\ x = g ELSE At(e, x, p)
  BY <1>g, <1>3 DEF At
<1>10. CallsFollow'
  <2>1. \A e \in Dispatchers, x \in Goals :
           /\ At(e, x, "load")' => At(e, x, "load") /\ calls'[e].kind = calls[e].kind
           /\ At(e, x, "record")' => At(e, x, "record") /\ calls'[e].kind = calls[e].kind
           /\ At(e, x, "save")' => (At(e, x, "record") \/ At(e, x, "save")) /\ calls'[e].kind = calls[e].kind
           /\ intent'[x] \in {intent[x], "unclear"}
    BY <1>g, <1>1, <1>3, <1>4, <1>9
  <2> QED
    BY <1>0, <1>1, <2>1, CallsFrame
<1>11. ASSUME NEW x \in Goals, x # g PROVE GoalInv(x)'
  <2>1. \A p \in {"load", "record", "save"} : ~At(d, x, p)
    BY <1>g, <1>11 DEF At
  <2>2. (\A k : Recording(x, k)' <=> Recording(x, k)) /\ (Stopping(x)' <=> Stopping(x)) /\ (Starting(x)' <=> Starting(x))
    BY <1>3, <1>9, <1>11, <2>1 DEF Recording, Stopping, Starting
  <2>3. file'[x] = file[x] /\ (x \in current' <=> x \in current) /\ GoalInv(x)
    BY <1>0, <1>1, <1>11 DEF Typed, CommandInv
  <2> QED
    BY <1>1, <2>2, <2>3, RestFrame, StartFrame DEF GoalInv
<1>12. GoalInv(g)'
  <2>1. file'[g] = RecordOf(kind) /\ GoalInv(g)
    BY <1>0, <1>1, <1>4 DEF Typed, CommandInv
  <2>2. CASE kind = "stop"
    <3>1. Stopping(g)'
      BY <1>3, <1>4, <1>9, <2>2 DEF Stopping
    <3> QED
      BY <1>1, <1>4, <1>5, <1>6, <2>1, <2>2, <3>1 DEF GoalInv, PauseKept, StopKept, StartKept, On, Dispatching
  <2>3. CASE kind = "pause"
    BY <1>1, <1>5, <1>6, <2>1, <2>3 DEF GoalInv, PauseKept, StopKept, StartKept, On, Pausing
  <2>4. CASE kind = "resume"
    <3>1. Starting(g)'
      BY <1>3, <1>4, <1>9, <2>4 DEF Starting
    <3>2. phase # "stopping" => \A s \in Savers : bufs'[s] # NoBuf => bufs'[s].interrupted = {}
      BY <1>0, <1>1 DEF PhaseOrder
    <3> QED
      BY <1>1, <1>4, <1>5, <1>6, <2>1, <2>4, <3>1, <3>2 DEF GoalInv, PauseKept, StopKept, StartKept, On
  <2> QED
    BY <1>5, <2>2, <2>3, <2>4
<1> QED
  BY <1>7, <1>8, <1>10, <1>11, <1>12 DEF CommandInv

LEMMA RecordFailsKept ==
  ASSUME CommandInv, NEW d \in Dispatchers, RecordFails(d)
  PROVE  CommandInv'
<1>0. Typed /\ PhaseOrder /\ CallsFollow
  BY DEF CommandInv
<1>g. PICK g : g = calls[d].goal
  OBVIOUS
<1>1. /\ calls[d].at \in {"record", "checkpoint"} /\ Step(d, calls[d].at, "idle") /\ Doubt({g})
      /\ UNCHANGED <<phase, file, saved, cut, mem, current, interrupted, stopped, bufs, activation, run, maint>>
  BY <1>g DEF RecordFails, disk, memory
<1>2. /\ calls'[d] = Idle /\ \A e \in Dispatchers \ {d} : calls'[e] = calls[e]
      /\ calls' \in [Dispatchers -> {Idle} \cup Calling]
  BY <1>0, <1>1, SteppingOut
<1>3. /\ intent' \in [Goals -> {"none", "start", "stop", "stopped before", "pause", "resume", "unclear"}]
      /\ \A x \in Goals : intent'[x] = IF x \in {g} THEN "unclear" ELSE intent[x]
  BY <1>0, <1>1, Doubting
<1>4. Typed'
  BY <1>0, <1>1, <1>2, <1>3 DEF Typed
<1>5. Dispatching
  BY <1>0, <1>1, UnderWay
<1>6. PhaseOrder'
  BY <1>0, <1>1, <1>5, PhaseFrame
<1>7. \A e \in Dispatchers, x \in Goals, p \in {"load", "record", "save"} :
        At(e, x, p)' => e # d /\ At(e, x, p) /\ calls'[e].kind = calls[e].kind
  BY <1>2 DEF At, Idle
<1>8. CallsFollow'
  BY <1>0, <1>1, <1>3, <1>7, CallsFrame
<1>9. ASSUME NEW x \in Goals PROVE GoalInv(x)'
  <2>1. CASE x = g
    BY <1>3, <2>1 DEF GoalInv, PauseKept, StopKept, StartKept, On
  <2>2. CASE x # g
    <3>1. (\A k : Recording(x, k) => Recording(x, k)') /\ (Stopping(x) => Stopping(x)') /\ (Starting(x) => Starting(x)')
      BY <1>g, <1>2, <2>2 DEF Recording, Stopping, Starting, At
    <3> QED
      BY <1>1, <1>3, <2>2, <3>1, RestFrame, StartFrame DEF CommandInv, GoalInv
  <2> QED
    BY <2>1, <2>2
<1> QED
  BY <1>4, <1>6, <1>8, <1>9 DEF CommandInv

LEMMA LeaseRunsOutKept ==
  ASSUME CommandInv, NEW d \in Dispatchers, LeaseRunsOut(d)
  PROVE  CommandInv'
<1>0. Typed /\ PhaseOrder /\ CallsFollow
  BY DEF CommandInv
<1>1. /\ calls[d].at # "idle" /\ calls' = [calls EXCEPT ![d].held = FALSE]
      /\ UNCHANGED <<phase, file, saved, cut, mem, current, interrupted, stopped, bufs, activation, run, maint, intent>>
  BY DEF LeaseRunsOut, Handling, disk, memory
<1>2. calls[d] \in Calling
  <2>1. calls[d] \in {Idle} \cup Calling
    BY <1>0 DEF Typed
  <2> QED
    BY <1>1, <2>1 DEF Idle
<1>3. PICK c : c = [calls[d] EXCEPT !.held = FALSE]
  OBVIOUS
<1>4. c \in Calling /\ c.at = calls[d].at /\ c.kind = calls[d].kind /\ c.goal = calls[d].goal
  BY <1>2, <1>3 DEF Calling
<1>5. calls' \in [Dispatchers -> {Idle} \cup Calling]
  BY <1>0, <1>1, <1>3, <1>4 DEF Typed
<1>6. \A e \in Dispatchers : calls'[e].at = calls[e].at /\ calls'[e].kind = calls[e].kind /\ calls'[e].goal = calls[e].goal
  BY <1>0, <1>1, <1>3, <1>4 DEF Typed
<1>7. Dispatching
  BY <1>0, <1>1, UnderWay
<1>8. mem' \in [Goals -> PauseStates] /\ maint' \in {Idle} \cup [at : {"ask", "save"}, goals : SUBSET Goals]
  BY <1>0, <1>1 DEF Typed
<1>9. ASSUME NEW e \in Dispatchers, calls'[e].at = "load" PROVE calls'[e].kind = "resume"
  <2>1. calls[e].at = "load"
    BY <1>6, <1>9
  <2>2. calls[e].kind = "resume"
    BY <1>0, <2>1, LoadsResume
  <2> QED
    BY <1>6, <2>2
<1> QED
  BY <1>1, <1>5, <1>6, <1>7, <1>8, <1>9, QuietKept

LEMMA MaintenanceReadsKept ==
  ASSUME CommandInv, MaintenanceReads
  PROVE  CommandInv'
<1>0. Typed /\ PhaseOrder /\ CallsFollow
  BY DEF CommandInv
<1>1. /\ phase = "running" /\ maint' = [at |-> "ask", goals |-> current]
      /\ UNCHANGED <<phase, file, saved, cut, mem, current, interrupted, stopped, bufs, activation, run, calls, intent>>
  BY DEF MaintenanceReads, disk, memory
<1>2. /\ Dispatching /\ mem' \in [Goals -> PauseStates]
      /\ maint' \in {Idle} \cup [at : {"ask", "save"}, goals : SUBSET Goals]
      /\ calls' \in [Dispatchers -> {Idle} \cup Calling]
  BY <1>0, <1>1 DEF Typed, Dispatching
<1> QED
  BY <1>0, <1>1, <1>2, LoadsResume, QuietKept

\* Maintenance activates the goals it found due, those that have left the list since too.
LEMMA MaintenanceActivatesKept ==
  ASSUME CommandInv, NEW due, MaintenanceActivates(due)
  PROVE  CommandInv'
<1>0. Typed /\ PhaseOrder /\ CallsFollow
  BY DEF CommandInv
<1>1. /\ maint.at = "ask" /\ ActivateGoals(due) /\ Doubt(due \ current)
      /\ maint' \in {Idle, [at |-> "save", goals |-> {}]}
      /\ UNCHANGED <<phase, file, saved, cut, mem, current, interrupted, bufs, run, calls>>
  BY DEF MaintenanceActivates, disk
<1>2. /\ stopped' = stopped \ due
      /\ activation' \in [Goals -> {"none", "pending", "claimed"}]
      /\ \A g \in Goals \ due : activation'[g] = activation[g]
  BY <1>0, <1>1, Activating
<1>3. /\ intent' \in [Goals -> {"none", "start", "stop", "stopped before", "pause", "resume", "unclear"}]
      /\ \A g \in Goals : intent'[g] = IF g \in due \ current THEN "unclear" ELSE intent[g]
  BY <1>0, <1>1, Doubting
<1>4. Typed'
  <2>1. maint' \in {Idle} \cup [at : {"ask", "save"}, goals : SUBSET Goals]
    BY <1>1
  <2>2. stopped' \subseteq Goals
    BY <1>0, <1>2 DEF Typed
  <2> QED
    BY <1>0, <1>1, <1>2, <1>3, <2>1, <2>2 DEF Typed
<1>5. Dispatching
  BY <1>0, <1>1, UnderWay
<1>6. PhaseOrder'
  BY <1>0, <1>1, <1>5, PhaseFrame
<1>7. CallsFollow'
  BY <1>0, <1>1, <1>3, CallsFrame DEF At
<1>8. ASSUME NEW g \in Goals PROVE GoalInv(g)'
  <2>1. (\A k : Recording(g, k)' <=> Recording(g, k)) /\ (Stopping(g)' <=> Stopping(g)) /\ (Starting(g)' <=> Starting(g))
    BY <1>1 DEF Recording, Stopping, Starting, At
  <2>2. PauseKept(g)'
    BY <1>1, <1>2, <1>3, <2>1 DEF CommandInv, GoalInv, PauseKept, Dispatching
  <2>3. StopKept(g)'
    BY <1>1, <1>2, <1>3, <2>1 DEF CommandInv, GoalInv, StopKept, Dispatching
  <2>4. StartKept(g)'
    BY <1>1, <1>3, <2>1, StartFrame DEF CommandInv, GoalInv
  <2> QED
    BY <2>2, <2>3, <2>4 DEF GoalInv
<1> QED
  BY <1>4, <1>6, <1>7, <1>8 DEF CommandInv

-----------------------------------------------------------------------------
(* Start, shutdown and death *)

\* The old daemon's list, with the goals of interrupted tasks, is the new one's.
LEMMA RestoreStateKept ==
  ASSUME CommandInv, RestoreState
  PROVE  CommandInv'
<1> USE DEF CommandInv
<1>1. /\ phase = "down" /\ phase' = "restored" /\ current' = Recoverable \cup cut /\ cut' = {}
      /\ UNCHANGED <<file, saved, mem, interrupted, bufs, stopped, activation, run, maint, calls, intent>>
  BY DEF RestoreState
<1>2. Recoverable \subseteq Goals
  BY DEF Recoverable, Typed, States
<1>3. Typed'
  BY <1>1, <1>2 DEF Typed, Phases
<1>4. PhaseOrder'
  BY <1>1 DEF PhaseOrder, Dispatching
<1>5. \A d \in Dispatchers : calls[d].at = "idle" /\ calls'[d].at = "idle"
  BY <1>1 DEF PhaseOrder, Dispatching, Idle
<1>6. CallsFollow'
  BY <1>5 DEF CallsFollow, At
<1>7. ASSUME NEW g \in Goals PROVE GoalInv(g)'
  <2>1. \A k : ~Recording(g, k) /\ ~Stopping(g) /\ ~Starting(g)
    BY <1>5 DEF Recording, Stopping, Starting, At
  <2>2. GoalInv(g)
    OBVIOUS
  <2> QED
    BY <1>1, <2>1, <2>2 DEF GoalInv, PauseKept, StopKept, StartKept, On, Dispatching, Recoverable, PhaseOrder
<1> QED
  BY <1>3, <1>4, <1>6, <1>7

LEMMA SaveRestoredKept ==
  ASSUME CommandInv, SaveRestored
  PROVE  CommandInv'
<1> USE DEF CommandInv
<1>1. /\ phase = "restored" /\ phase' = "starting" /\ saved' = DaemonState
      /\ UNCHANGED <<file, cut, mem, current, interrupted, stopped, bufs, activation, run, maint, calls, intent>>
  BY DEF SaveRestored, memory
<1>2. Typed'
  BY <1>1, DaemonStateTyped DEF Typed, Phases
<1>3. interrupted = {} /\ saved'.active = current /\ saved'.interrupted = {} /\ ~saved'.ended
  BY <1>1 DEF PhaseOrder, DaemonState
<1>4. PhaseOrder'
  BY <1>1, <1>3 DEF PhaseOrder, Dispatching
<1>5. \A d \in Dispatchers : calls[d].at = "idle" /\ calls'[d].at = "idle"
  BY <1>1 DEF PhaseOrder, Dispatching, Idle
<1>6. CallsFollow'
  BY <1>5 DEF CallsFollow, At
<1>7. ASSUME NEW g \in Goals PROVE GoalInv(g)'
  <2>1. \A k : ~Recording(g, k) /\ ~Stopping(g) /\ ~Starting(g)
    BY <1>5 DEF Recording, Stopping, Starting, At
  <2>2. GoalInv(g)
    OBVIOUS
  <2> QED
    BY <1>1, <1>3, <2>1, <2>2 DEF GoalInv, PauseKept, StopKept, StartKept, On, Dispatching, Recoverable, PhaseOrder, Up
<1> QED
  BY <1>2, <1>4, <1>6, <1>7

\* What is paused on disk leaves the list, and its activation the journal.
LEMMA RestoreSafePauseKept ==
  ASSUME CommandInv, RestoreSafePause
  PROVE  CommandInv'
<1> USE DEF CommandInv
<1>1. /\ phase = "starting" /\ phase' = "ready" /\ mem' = file /\ current' = current \ PausedOnDisk
      /\ activation' = DeadLettered(PausedOnDisk) /\ saved' = [saved EXCEPT !.active = current']
      /\ UNCHANGED <<file, interrupted, bufs, stopped, run, cut, maint, calls, intent>>
  BY DEF RestoreSafePause
<1>2. saved.interrupted = {} /\ ~saved.ended
  BY <1>1 DEF PhaseOrder
<1>3. saved' = [active |-> current', interrupted |-> saved.interrupted, ended |-> saved.ended]
  BY <1>1 DEF Typed, States
<1>4. saved'.active = current' /\ saved'.interrupted = {} /\ ~saved'.ended
  BY <1>2, <1>3
<1>5. Typed'
  <2>1. saved' \in States
    BY <1>1, <1>3 DEF Typed, States
  <2>2. activation' \in [Goals -> {"none", "pending", "claimed"}]
    BY <1>1 DEF DeadLettered, Typed
  <2> QED
    BY <1>1, <2>1, <2>2 DEF Typed, Phases
<1>6. PhaseOrder'
  BY <1>1 DEF PhaseOrder, Dispatching
<1>7. \A d \in Dispatchers : calls[d].at = "idle" /\ calls'[d].at = "idle"
  BY <1>1 DEF PhaseOrder, Dispatching, Idle
<1>8. CallsFollow'
  BY <1>7 DEF CallsFollow, At
<1>9. ASSUME NEW g \in Goals PROVE GoalInv(g)'
  <2>1. \A k : ~Recording(g, k) /\ ~Stopping(g) /\ ~Starting(g)
    BY <1>7 DEF Recording, Stopping, Starting, At
  <2>2. GoalInv(g) /\ run'[g] = "idle"
    BY <1>1 DEF PhaseOrder, Dispatching
  <2>3. file[g] \in Pausing => g \notin current' /\ activation'[g] = "none"
    BY <1>1 DEF PausedOnDisk, DeadLettered
  <2>4. file[g] \notin Pausing /\ g \in current => g \in current' /\ g \in Recoverable'
    BY <1>1, <1>4 DEF PausedOnDisk, Recoverable
  <2>5. PauseKept(g)'
    BY <1>1, <2>1, <2>2, <2>3 DEF GoalInv, PauseKept, Pausing
  <2>6. StopKept(g)'
    BY <1>1, <2>1, <2>2 DEF GoalInv, StopKept, Dispatching
  <2>7. StartKept(g)'
    BY <1>1, <2>1, <2>2, <2>4 DEF GoalInv, StartKept, On, Up
  <2> QED
    BY <2>5, <2>6, <2>7 DEF GoalInv
<1> QED
  BY <1>5, <1>6, <1>8, <1>9

LEMMA SupervisorStartsKept ==
  ASSUME CommandInv, SupervisorStarts
  PROVE  CommandInv'
<1> USE DEF CommandInv
<1>1. /\ phase = "ready" /\ phase' = "running" /\ activation' = Enqueued(current \ stopped)
      /\ UNCHANGED <<file, saved, cut, mem, current, interrupted, stopped, bufs, run, maint, calls, intent>>
  BY DEF SupervisorStarts, disk, memory
<1>2. /\ activation' \in [Goals -> {"none", "pending", "claimed"}]
      /\ \A g \in Goals : g \notin current => activation'[g] = activation[g]
  BY <1>1 DEF Enqueued, Typed
<1>3. Typed'
  BY <1>1, <1>2 DEF Typed, Phases
<1>4. PhaseOrder'
  BY <1>1 DEF PhaseOrder, Dispatching
<1>5. CallsFollow'
  BY <1>1 DEF CallsFollow, At
<1>6. ASSUME NEW g \in Goals PROVE GoalInv(g)'
  <2>1. (\A k : Recording(g, k)' <=> Recording(g, k)) /\ (Stopping(g)' <=> Stopping(g)) /\ (Starting(g)' <=> Starting(g))
    BY <1>1 DEF Recording, Stopping, Starting, At
  <2>2. GoalInv(g)
    OBVIOUS
  <2>3. PauseKept(g)'
    BY <1>1, <1>2, <2>1, <2>2 DEF GoalInv, PauseKept, Dispatching
  <2>4. StopKept(g)'
    BY <1>1, <2>1, <2>2 DEF GoalInv, StopKept, Dispatching
  <2>5. StartKept(g)'
    BY <1>1, <2>1, <2>2 DEF GoalInv, StartKept, On, Up, Recoverable
  <2> QED
    BY <2>3, <2>4, <2>5 DEF GoalInv
<1> QED
  BY <1>3, <1>4, <1>5, <1>6

\* The list of the moment is what a restart will recover.
LEMMA BeginShutdownKept ==
  ASSUME CommandInv, BeginShutdown
  PROVE  CommandInv'
<1> USE DEF CommandInv
<1>1. /\ phase = "running" /\ phase' = "stopping" /\ interrupted' = current
      /\ Doubt({g \in Goals : Handled(g)})
      /\ UNCHANGED <<file, saved, cut, mem, current, bufs, stopped, activation, run, maint, calls>>
  BY DEF BeginShutdown, disk
<1>2. /\ intent' \in [Goals -> {"none", "start", "stop", "stopped before", "pause", "resume", "unclear"}]
      /\ \A g \in Goals : intent'[g] = IF Handled(g) THEN "unclear" ELSE intent[g]
  BY <1>1 DEF Doubt, Typed
<1>3. Typed'
  BY <1>1, <1>2 DEF Typed, Phases
<1>4. PhaseOrder'
  BY <1>1 DEF PhaseOrder, Dispatching
<1>5. \A d \in Dispatchers, g \in Goals, p \in CallsAt : At(d, g, p) => Handled(g)
  BY DEF At, Handled, Handling, CallsAt
<1>6. CallsFollow'
  BY <1>1, <1>2, <1>5 DEF CallsFollow, At, CallsAt
<1>7. ASSUME NEW g \in Goals PROVE GoalInv(g)'
  <2>1. (\A k : Recording(g, k)' <=> Recording(g, k)) /\ (Stopping(g)' <=> Stopping(g)) /\ (Starting(g)' <=> Starting(g))
    BY <1>1 DEF Recording, Stopping, Starting, At
  <2>2. GoalInv(g)
    OBVIOUS
  <2>3. PauseKept(g)'
    BY <1>1, <1>2, <2>1, <2>2 DEF GoalInv, PauseKept, Dispatching
  <2>4. StopKept(g)'
    BY <1>1, <1>2, <2>1, <2>2 DEF GoalInv, StopKept, Dispatching
  <2>5. \A s \in Savers : bufs'[s] # NoBuf => bufs'[s].interrupted = {}
    BY <1>1 DEF PhaseOrder
  <2>6. StartKept(g)'
    BY <1>1, <1>2, <2>1, <2>2, <2>5 DEF GoalInv, StartKept, On, Up, Recoverable
  <2> QED
    BY <2>3, <2>4, <2>6 DEF GoalInv
<1> QED
  BY <1>3, <1>4, <1>6, <1>7

\* The daemon is gone, and what it leaves on disk shows every goal that is on.
LEMMA GoneKept ==
  ASSUME CommandInv, MemoryGone, UNCHANGED <<file, activation>>, saved' \in States,
         intent' \in [Goals -> {"none", "start", "stop", "stopped before", "pause", "resume", "unclear"}],
         \A g \in Goals : intent'[g] = "unclear" \/ (intent'[g] = Inherited(intent[g]) /\ ~Handled(g)),
         \A g \in Goals : On(g) /\ file[g] \notin Pausing /\ ~Handled(g) => g \in Recoverable'
  PROVE  CommandInv'
<1> USE DEF CommandInv
<1>1. /\ phase' = "down" /\ mem' = [g \in Goals |-> "none"] /\ current' = {} /\ interrupted' = {} /\ stopped' = {}
      /\ bufs' = [s \in Savers |-> NoBuf] /\ run' = [g \in Goals |-> "idle"]
      /\ cut' = cut \cup {g \in Goals : Executing(g)} /\ maint' = Idle /\ calls' = [d \in Dispatchers |-> Idle]
  BY DEF MemoryGone
<1>2. Typed'
  <2>1. cut' \subseteq Goals
    BY <1>1 DEF Typed
  <2> QED
    BY <1>1, <2>1 DEF Typed, Phases, PauseStates, RunsAt
<1>3. PhaseOrder'
  BY <1>1 DEF PhaseOrder, Dispatching
<1>4. CallsFollow'
  BY <1>1 DEF CallsFollow, At, Idle
<1>5. ASSUME NEW g \in Goals PROVE GoalInv(g)'
  <2>1. CASE intent'[g] = "unclear"
    BY <2>1 DEF GoalInv, PauseKept, StopKept, StartKept, On
  <2>2. CASE intent'[g] = Inherited(intent[g]) /\ ~Handled(g)
    <3>1. \A k : ~Recording(g, k)
      BY <2>2 DEF Recording, Handled, Handling, At
    <3>2. GoalInv(g)
      OBVIOUS
    <3>3. /\ intent'[g] # "stop"
          /\ intent'[g] \in {"pause", "start", "resume"} => intent'[g] = intent[g]
          /\ intent'[g] = "stopped before" => intent[g] \in {"stop", "stopped before"}
      BY <2>2 DEF Inherited
    <3>4. PauseKept(g)'
      BY <1>1, <3>1, <3>2, <3>3 DEF GoalInv, PauseKept, Dispatching
    <3>5. StopKept(g)'
      BY <1>1, <3>1, <3>2, <3>3 DEF GoalInv, StopKept
    <3>6. StartKept(g)'
      BY <1>1, <2>2, <3>3 DEF StartKept, On, Up
    <3> QED
      BY <3>4, <3>5, <3>6 DEF GoalInv
  <2> QED
    BY <2>1, <2>2
<1> QED
  BY <1>2, <1>3, <1>4, <1>5

\* A graceful end saves the list it had when the shutdown began.
LEMMA ExitKept ==
  ASSUME CommandInv, Exit
  PROVE  CommandInv'
<1> USE DEF CommandInv
<1>1. /\ phase = "stopping" /\ MemoryGone /\ UNCHANGED <<file, activation>>
      /\ saved' = [active |-> current, interrupted |-> interrupted, ended |-> TRUE]
      /\ intent' = [g \in Goals |-> Inherited(intent[g])]
      /\ \A g : ~Handled(g)
  BY DEF Exit, Handled
<1>2. saved' \in States
  BY <1>1 DEF Typed, States
<1>3. intent' \in [Goals -> {"none", "start", "stop", "stopped before", "pause", "resume", "unclear"}]
  BY <1>1 DEF Typed, Inherited
<1>4. \A g \in Goals : intent'[g] = Inherited(intent[g]) /\ ~Handled(g)
  BY <1>1
<1>5. ASSUME NEW g \in Goals, On(g), file[g] \notin Pausing PROVE g \in Recoverable'
  <2>1. g \in interrupted
    BY <1>1, <1>5 DEF GoalInv, StartKept
  <2> QED
    BY <1>1, <2>1 DEF Recoverable
<1> QED
  BY <1>1, <1>2, <1>3, <1>4, <1>5, GoneKept

\* A kill leaves what was saved last; a goal whose start was not saved is in doubt.
LEMMA KillKept ==
  ASSUME CommandInv, Kill
  PROVE  CommandInv'
<1> USE DEF CommandInv
<1>1. /\ MemoryGone /\ UNCHANGED <<file, activation, saved>>
      /\ intent' = [g \in Goals |-> IF Handled(g) THEN "unclear" ELSE Inherited(intent[g])]
  BY DEF Kill
<1>2. saved' \in States
  BY <1>1 DEF Typed
<1>3. intent' \in [Goals -> {"none", "start", "stop", "stopped before", "pause", "resume", "unclear"}]
  BY <1>1 DEF Typed, Inherited
<1>4. \A g \in Goals : intent'[g] = "unclear" \/ (intent'[g] = Inherited(intent[g]) /\ ~Handled(g))
  BY <1>1
<1>5. ASSUME NEW g \in Goals, On(g), file[g] \notin Pausing, ~Handled(g) PROVE g \in Recoverable'
  <2>1. ~Starting(g)
    BY <1>5 DEF Starting, At, Handled, Handling
  <2>2. g \in Recoverable
    BY <1>5, <2>1 DEF GoalInv, StartKept
  <2> QED
    BY <1>1, <2>2 DEF Recoverable
<1> QED
  BY <1>1, <1>2, <1>3, <1>4, <1>5, GoneKept

-----------------------------------------------------------------------------
(* The theorems *)

LEMMA CommandInit == Init => CommandInv
<1> SUFFICES ASSUME Init PROVE CommandInv
  OBVIOUS
<1>1. /\ phase = "down" /\ file = [g \in Goals |-> "none"] /\ mem = [g \in Goals |-> "none"]
      /\ current = {} /\ interrupted = {} /\ bufs = [s \in Savers |-> NoBuf] /\ stopped = {}
      /\ activation = [g \in Goals |-> "none"] /\ run = [g \in Goals |-> "idle"] /\ cut = {}
      /\ maint = Idle /\ calls = [d \in Dispatchers |-> Idle]
  BY DEF Init
<1>2. PICK gs \in SUBSET Goals :
        /\ saved = [active |-> gs, interrupted |-> {}, ended |-> FALSE]
        /\ intent = [g \in Goals |-> IF g \in gs THEN "start" ELSE "none"]
  BY DEF Init
<1>3. Typed
  <2>1. saved \in States
    BY <1>2 DEF States
  <2>2. intent \in [Goals -> {"none", "start", "stop", "stopped before", "pause", "resume", "unclear"}]
    BY <1>2
  <2> QED
    BY <1>1, <2>1, <2>2 DEF Typed, Phases, PauseStates, RunsAt
<1>4. PhaseOrder
  BY <1>1 DEF PhaseOrder, Dispatching
<1>5. CallsFollow
  BY <1>1 DEF CallsFollow, At, Idle
<1>6. ASSUME NEW g \in Goals PROVE GoalInv(g)
  <2>1. intent[g] \in {"start", "none"} /\ (intent[g] = "start" => g \in gs)
    BY <1>2
  <2>2. Recoverable = gs
    BY <1>2 DEF Recoverable
  <2> QED
    BY <1>1, <2>1, <2>2 DEF GoalInv, PauseKept, StopKept, StartKept, On, Up
<1> QED
  BY <1>3, <1>4, <1>5, <1>6 DEF CommandInv

LEMMA CommandStep == CommandInv /\ [Next]_vars => CommandInv'
<1> SUFFICES ASSUME CommandInv, [Next]_vars PROVE CommandInv'
  OBVIOUS
<1>0. Typed
  BY DEF CommandInv
<1>1. CASE \/ \E r \in Requests : Issue(r)
           \/ \E g \in Goals : Supervisor(g) \/ CompletionChecks(g) \/ Settle(g) \/ CheckpointFails(g)
           \/ \E r \in orphans : OrphanReturns(r)
  BY <1>0, <1>1, AsideSteps, AsideKept
<1>2. CASE \E s \in Savers : Serialise(s)
  BY <1>2, SerialiseKept
<1>3. CASE \E g \in Goals : Completion(g)
  <2>1. PICK g \in Goals : CompletionSaved(g) \/ CompletionChecks(g) \/ CompletionCheckpoints(g) \/ Settle(g)
    BY <1>3 DEF Completion
  <2> QED
    BY <1>1, <2>1, CompletionSavedKept, CheckpointsKept
<1>4. CASE \E d \in Dispatchers : Taken(d) \/ Handler(d) \/ RecordFails(d) \/ LeaseRunsOut(d)
  <2>1. PICK d \in Dispatchers : \/ Taken(d) \/ RecordFails(d) \/ LeaseRunsOut(d)
                                 \/ LoadPause(d) \/ Record(d) \/ CallSaved(d) \/ CallCheckpoints(d) \/ CallEnds(d)
    BY <1>4 DEF Handler
  <2> QED
    BY <2>1, TakenKept, RecordFailsKept, LeaseRunsOutKept, LoadPauseKept, RecordKept, CallSavedKept,
       CheckpointsKept, CallEndsKept
<1>5. CASE Maintenance
  BY <1>5, MaintenanceReadsKept, MaintenanceSavedKept, MaintenanceActivatesKept DEF Maintenance
<1>6. CASE Startup
  BY <1>6, RestoreStateKept, SaveRestoredKept, RestoreSafePauseKept, SupervisorStartsKept DEF Startup
<1>7. CASE BeginShutdown \/ Exit \/ Kill
  BY <1>7, BeginShutdownKept, ExitKept, KillKept
<1>8. CASE UNCHANGED vars
  <2>1. Aside
    BY <1>0, <1>8 DEF vars, disk, memory, queue, Aside, Typed
  <2> QED
    BY <2>1, AsideKept
<1> QED
  BY <1>1, <1>2, <1>3, <1>4, <1>5, <1>6, <1>7, <1>8 DEF Next

\* Whatever a daemon that is up, or one to come, is about to do for a goal is
\* what the goal was asked for last.
THEOREM CommandsInvariant == Spec => []CommandInv
BY CommandInit, CommandStep, PTL DEF Spec

\* While the daemon runs and a goal's requests are handled, its pause record and
\* the list of goals say what it was asked for last (runner-commands.ts).
THEOREM GoalsAreAsCommanded == Spec => []AsCommanded
<1>1. CommandInv => AsCommanded
  <2> SUFFICES ASSUME CommandInv, NEW g \in Goals, phase = "running", Quiet(g)
               PROVE  /\ intent[g] = "pause" => file[g] \in Pausing
                      /\ intent[g] = "pause" /\ file[g] = "paused" => g \notin current
                      /\ intent[g] = "start" => g \in current \/ file[g] \in Pausing
                      /\ intent[g] = "resume" /\ file[g] = "resumed" => g \in current
                      /\ intent[g] \in {"stop", "stopped before"} => file[g] = "emergency_stopped"
                      /\ intent[g] = "stop" => g \notin current
    BY DEF AsCommanded
  <2>1. GoalInv(g) /\ Dispatching /\ Up
    BY DEF CommandInv, Dispatching, Up
  <2>2. \A k : ~Recording(g, k)
    BY DEF Quiet, Handled, Handling, Recording, At
  <2> QED
    BY <2>1, <2>2 DEF GoalInv, PauseKept, StopKept, StartKept, On, Pausing
<1> QED
  BY <1>1, CommandsInvariant, PTL

\* Only a poll dispatches a goal that no run is under way for.
LEMMA OnlyPollDispatches ==
  ASSUME Typed, [Next]_vars, NEW g \in Goals, Dispatched(g)
  PROVE  Poll(g)
<1>0. run[g] = "idle" /\ run'[g] = "checked" /\ run \in [Goals -> RunsAt]
  BY DEF Dispatched, Typed
<1>1. run' # run
  BY <1>0
<1>2. CASE \E x \in Goals : Supervisor(x)
  <2>1. PICK x \in Goals : Supervisor(x)
    BY <1>2
  <2>2. CASE Poll(x)
    <3>1. run' = [run EXCEPT ![x] = IF x \in stopped THEN "idle" ELSE "checked"]
      BY <2>2 DEF Poll
    <3>2. x = g
      BY <1>0, <3>1
    <3> QED
      BY <2>2, <3>2
  <2>3. CASE StartRun(x) \/ DispatchReturned(x) \/ RunEnds(x) \/ RunFails(x)
    <3>1. run[x] # "idle" /\ \E v : run' = [run EXCEPT ![x] = v]
      BY <2>3 DEF StartRun, DispatchReturned, RunEnds, RunFails
    <3> QED
      BY <1>0, <3>1
  <2>4. CASE ActivationReturns(x)
    BY <1>1, <2>4 DEF ActivationReturns
  <2> QED
    BY <2>1, <2>2, <2>3, <2>4 DEF Supervisor
<1>3. CASE \E x \in Goals : Completion(x) \/ CheckpointFails(x)
  <2>1. PICK x \in Goals : Completion(x) \/ CheckpointFails(x)
    BY <1>3
  <2>2. run[x] # "idle" /\ \E v : run' = [run EXCEPT ![x] = v]
    BY <2>1 DEF Completion, CompletionSaved, CompletionChecks, CompletionCheckpoints, Settle, CheckpointFails
  <2> QED
    BY <1>0, <2>2
<1>4. CASE MemoryGone
  BY <1>0, <1>4 DEF MemoryGone
<1>5. \/ \E x \in Goals : Supervisor(x)
      \/ \E x \in Goals : Completion(x) \/ CheckpointFails(x)
      \/ MemoryGone
      \/ UNCHANGED run
  <2>1. CASE \/ \E r \in Requests : Issue(r)
             \/ \E s \in Savers : Serialise(s)
             \/ \E r \in orphans : OrphanReturns(r)
             \/ UNCHANGED vars
    BY <2>1 DEF Issue, Serialise, OrphanReturns, vars
  <2>2. CASE \E d \in Dispatchers : Taken(d) \/ Handler(d) \/ RecordFails(d) \/ LeaseRunsOut(d)
    <3>1. PICK d \in Dispatchers : Taken(d) \/ Handler(d) \/ RecordFails(d) \/ LeaseRunsOut(d)
      BY <2>2
    <3>2. CASE Taken(d)
      BY <3>2 DEF Taken, TakeStart, TakeStop, TakePause, TakeResume, Take
    <3>3. CASE Handler(d)
      BY <3>3 DEF Handler, LoadPause, Record, CallSaved, CallCheckpoints, CallEnds
    <3> QED
      BY <3>1, <3>2, <3>3 DEF RecordFails, LeaseRunsOut
  <2>3. CASE Maintenance
    BY <2>3 DEF Maintenance, MaintenanceReads, MaintenanceSaved, MaintenanceActivates
  <2>4. CASE Startup \/ BeginShutdown
    BY <2>4 DEF Startup, RestoreState, SaveRestored, RestoreSafePause, SupervisorStarts, BeginShutdown
  <2>5. CASE Exit \/ Kill
    BY <2>5 DEF Exit, Kill
  <2> QED
    BY <2>1, <2>2, <2>3, <2>4, <2>5 DEF Next
<1> QED
  BY <1>1, <1>2, <1>3, <1>4, <1>5

\* A poll never takes up the activation of a goal at rest (loop-supervisor.ts).
THEOREM GoalsAtRestAreNotPolled == Spec => RestIsKept
<1> DEFINE Kept == \A g \in Goals : Dispatched(g) /\ Quiet(g) =>
                      /\ intent[g] = "pause" => file[g] # "paused"
                      /\ intent[g] # "stop"
<1>1. CommandInv /\ [Next]_vars => Kept
  <2> SUFFICES ASSUME CommandInv, [Next]_vars, NEW g \in Goals, Dispatched(g), Quiet(g)
               PROVE  /\ intent[g] = "pause" => file[g] # "paused"
                      /\ intent[g] # "stop"
    OBVIOUS
  <2>1. Typed /\ GoalInv(g)
    BY DEF CommandInv
  <2>2. phase = "running" /\ activation[g] = "pending" /\ g \notin stopped
    <3>1. Poll(g) /\ run'[g] = "checked"
      BY <2>1, OnlyPollDispatches DEF Dispatched
    <3> QED
      BY <2>1, <3>1 DEF Poll, Typed
  <2>3. ~Stopping(g) /\ \A k : ~Recording(g, k)
    BY DEF Quiet, Handled, Handling, Stopping, Recording, At
  <2> QED
    BY <2>1, <2>2, <2>3 DEF GoalInv, PauseKept, StopKept, Dispatching
<1>2. CommandInv /\ [Next]_vars => [Kept]_vars
  BY <1>1
<1> QED
  BY <1>2, CommandsInvariant, PTL DEF Spec, RestIsKept

-----------------------------------------------------------------------------
(* The queue of requests *)

LEMMA Smallest ==
  ASSUME NEW I, I \subseteq Nat, I # {}
  PROVE  \E i \in I : \A j \in I : i <= j
<1> DEFINE Below == {p \in Nat \X Nat : p[1] < p[2]}
<1>0. IsWellFoundedOn(Below, Nat)
  BY NatLessThanWellFounded DEF OpToRel
<1> HIDE DEF Below
<1>1. PICK i \in I : \A j \in I : <<j, i>> \notin Below
  BY <1>0, WFMin
<1>2. ASSUME NEW j \in I PROVE i <= j
  <2>1. <<j, i>> \in Nat \X Nat /\ <<j, i>>[1] = j /\ <<j, i>>[2] = i
    OBVIOUS
  <2>2. ~(j < i)
    BY <1>1, <2>1, Zenon DEF Below
  <2> QED
    BY <2>2
<1> QED
  BY <1>2

LEMMA RemovedIsList ==
  ASSUME NEW S, NEW s \in Seq(S), NEW i \in 1..Len(s)
  PROVE  RemoveAt(s, i) \in Seq(S)
<1>1. SubSeq(s, 1, i - 1) \in Seq(S) /\ SubSeq(s, i + 1, Len(s)) \in Seq(S)
  OBVIOUS
<1> QED
  BY <1>1 DEF RemoveAt

LEMMA FirstRemovedIsList ==
  ASSUME NEW S, NEW s \in Seq(S), NEW e
  PROVE  RemoveFirst(s, e) \in Seq(S)
<1>1. CASE \E i \in 1..Len(s) : s[i] = e
  <2> DEFINE I == {i \in 1..Len(s) : s[i] = e}
  <2>1. Min(I) \in I
    <3>1. I # {} /\ I \subseteq Nat
      BY <1>1
    <3>2. \E i \in I : \A j \in I : i <= j
      BY <3>1, Smallest
    <3> QED
      BY <3>2 DEF Min
  <2>2. RemoveFirst(s, e) = RemoveAt(s, Min(I))
    BY <1>1 DEF RemoveFirst, SelectInSeq
  <2> QED
    BY <2>1, <2>2, RemovedIsList
<1>2. CASE ~\E i \in 1..Len(s) : s[i] = e
  BY <1>2 DEF RemoveFirst
<1> QED
  BY <1>1, <1>2

\* What TypeOK says beyond Typed.
QueueTyped ==
  /\ todo \in Seq(Requests) /\ orphans \subseteq Requests
  /\ issued \in 0..MaxCommands /\ faults \in 0..MaxFaults
  /\ \A d \in Dispatchers : Handling(d) => calls[d].kind \in Kinds

LEMMA RequestTyped ==
  ASSUME Typed, QueueTyped, NEW d \in Dispatchers, Handling(d)
  PROVE  Request(d) \in Requests /\ calls[d] \in Calling
<1>1. calls[d] \in Calling
  <2>1. calls[d] \in {Idle} \cup Calling
    BY DEF Typed
  <2>2. calls[d].at # "idle" /\ Idle.at = "idle"
    BY DEF Handling, Idle
  <2> QED
    BY <2>1, <2>2
<1> QED
  BY <1>1 DEF QueueTyped, Request, Requests, Calling

\* A request taken from the queue is one that was in it.
LEMMA TakenTyped ==
  ASSUME Typed, QueueTyped, NEW d \in Dispatchers, NEW r, NEW at, Take(d, r, at)
  PROVE  QueueTyped'
<1>1. NextFor(d) \in 1..Len(todo)
  <2>1. ReachesFor(d) \subseteq Nat /\ ReachesFor(d) # {}
    BY DEF Take, ReachesFor
  <2>2. \E i \in ReachesFor(d) : \A j \in ReachesFor(d) : i <= j
    BY <2>1, Smallest
  <2>3. NextFor(d) \in ReachesFor(d)
    BY <2>2 DEF NextFor
  <2> QED
    BY <2>3 DEF ReachesFor
<1>2. r \in Requests
  BY <1>1 DEF Take, QueueTyped
<1>3. todo' \in Seq(Requests)
  BY <1>1, RemovedIsList DEF Take, QueueTyped
<1>4. calls' = [calls EXCEPT ![d] = [at |-> at, kind |-> r.kind, goal |-> r.goal, held |-> TRUE]]
  BY DEF Take
<1>5. ASSUME NEW e \in Dispatchers, Handling(e)' PROVE calls'[e].kind \in Kinds
  <2>1. CASE e = d
    BY <2>1, <1>2, <1>4 DEF Requests, Typed
  <2>2. CASE e # d
    BY <2>2, <1>4, <1>5 DEF Typed, QueueTyped, Handling
  <2> QED
    BY <2>1, <2>2
<1> QED
  BY <1>3, <1>5 DEF Take, QueueTyped

LEMMA SteppedTyped ==
  ASSUME Typed, QueueTyped, NEW d \in Dispatchers, NEW from, NEW to \in CallsAt \cup {"idle"}, from # "idle",
         Step(d, from, to)
  PROVE  \A e \in Dispatchers : Handling(e)' => calls'[e].kind \in Kinds
<1> SUFFICES ASSUME NEW e \in Dispatchers, Handling(e)' PROVE calls'[e].kind \in Kinds
  OBVIOUS
<1>1. /\ calls[d] \in Calling /\ calls[d].at = from
      /\ calls'[d] = IF to = "idle" THEN Idle
                     ELSE [at |-> to, kind |-> calls[d].kind, goal |-> calls[d].goal, held |-> calls[d].held]
      /\ \A x \in Dispatchers \ {d} : calls'[x] = calls[x]
  BY Stepping
<1>2. CASE e = d
  BY <1>1, <1>2 DEF QueueTyped, Handling, Idle
<1>3. CASE e # d
  BY <1>1, <1>3 DEF QueueTyped, Handling
<1> QED
  BY <1>2, <1>3

LEMMA QueueStep ==
  ASSUME CommandInv, QueueTyped, [Next]_vars
  PROVE  QueueTyped'
<1>0. Typed
  BY DEF CommandInv
<1>a. ASSUME UNCHANGED <<calls, queue>>, faults' = faults \/ Fault PROVE QueueTyped'
  BY <1>a, BoundAssumption DEF QueueTyped, queue, Fault, Handling
<1>1. ASSUME NEW r \in Requests, Issue(r) PROVE QueueTyped'
  <2>1. todo' \in Seq(Requests)
    <3>1. RemoveFirst(todo, r) \in Seq(Requests)
      BY FirstRemovedIsList DEF QueueTyped
    <3> QED
      BY <1>1, <3>1 DEF Issue, QueueTyped
  <2>2. issued' \in 0..MaxCommands
    BY <1>1, BoundAssumption DEF Issue, QueueTyped
  <2> QED
    BY <1>1, <2>1, <2>2 DEF Issue, QueueTyped, Handling
<1>2. ASSUME NEW s \in Savers, Serialise(s) PROVE QueueTyped'
  BY <1>a, <1>2 DEF Serialise
<1>3. ASSUME NEW g \in Goals, Supervisor(g) \/ Completion(g) \/ CheckpointFails(g) PROVE QueueTyped'
  <2>1. UNCHANGED <<calls, queue>> /\ (faults' = faults \/ Fault)
    BY <1>3 DEF Supervisor, Poll, StartRun, DispatchReturned, RunEnds, RunFails, ActivationReturns, Completion,
       CompletionSaved, CompletionChecks, CompletionCheckpoints, Settle, CheckpointFails
  <2> QED
    BY <1>a, <2>1
<1>4. ASSUME NEW d \in Dispatchers, Taken(d) PROVE QueueTyped'
  <2>1. \E r, at : Take(d, r, at)
    BY <1>4 DEF Taken, TakeStart, TakeStop, TakePause, TakeResume
  <2> QED
    BY <1>0, <2>1, TakenTyped
<1>5. ASSUME NEW d \in Dispatchers, Handler(d) PROVE QueueTyped'
  <2>1. UNCHANGED <<queue, faults>>
    BY <1>5 DEF Handler, LoadPause, Record, CallSaved, CallCheckpoints, CallEnds
  <2>2. \E from \in CallsAt, to \in CallsAt \cup {"idle"} : Step(d, from, to)
    <3>1. CASE LoadPause(d)
      BY <3>1 DEF LoadPause, CallsAt
    <3>2. CASE Record(d)
      BY <3>2 DEF Record, CallsAt
    <3>3. CASE CallSaved(d)
      BY <3>3 DEF CallSaved, CallsAt
    <3>4. CASE CallCheckpoints(d)
      BY <3>4 DEF CallCheckpoints, CallsAt
    <3>5. CASE CallEnds(d)
      BY <3>5 DEF CallEnds, CallsAt
    <3> QED
      BY <1>5, <3>1, <3>2, <3>3, <3>4, <3>5 DEF Handler
  <2>3. "idle" \notin CallsAt
    BY DEF CallsAt
  <2>4. \A e \in Dispatchers : Handling(e)' => calls'[e].kind \in Kinds
    BY <1>0, <2>2, <2>3, SteppedTyped
  <2> QED
    BY <2>1, <2>4 DEF QueueTyped, queue
<1>6. ASSUME NEW d \in Dispatchers, RecordFails(d) PROVE QueueTyped'
  <2>1. Step(d, calls[d].at, "idle") /\ calls[d].at # "idle"
    BY <1>6 DEF RecordFails
  <2>2. \A e \in Dispatchers : Handling(e)' => calls'[e].kind \in Kinds
    BY <1>0, <2>1, SteppedTyped
  <2>3. todo' \in Seq(Requests)
    <3>1. Request(d) \in Requests
      BY <1>0, <2>1, RequestTyped DEF Handling
    <3> QED
      BY <1>6, <3>1 DEF RecordFails, QueueTyped
  <2>4. faults' \in 0..MaxFaults
    BY <1>6, BoundAssumption DEF RecordFails, Fault, QueueTyped
  <2> QED
    BY <1>6, <2>2, <2>3, <2>4 DEF RecordFails, QueueTyped
<1>7. ASSUME NEW d \in Dispatchers, LeaseRunsOut(d) PROVE QueueTyped'
  <2>1. calls' = [calls EXCEPT ![d].held = FALSE] /\ Handling(d)
    BY <1>7 DEF LeaseRunsOut
  <2>2. Request(d) \in Requests /\ calls[d] \in Calling
    BY <1>0, <2>1, RequestTyped
  <2>3. todo' \in Seq(Requests)
    BY <1>7, <2>2 DEF LeaseRunsOut, QueueTyped
  <2>4. faults' \in 0..MaxFaults
    BY <1>7, BoundAssumption DEF LeaseRunsOut, Fault, QueueTyped
  <2>5. ASSUME NEW e \in Dispatchers, Handling(e)' PROVE calls'[e].kind \in Kinds
    <3>1. calls'[e].kind = calls[e].kind /\ calls'[e].at = calls[e].at
      BY <1>0, <2>1, <2>2 DEF Typed, Calling
    <3> QED
      BY <2>5, <3>1 DEF QueueTyped, Handling
  <2> QED
    BY <1>7, <2>3, <2>4, <2>5 DEF LeaseRunsOut, QueueTyped
<1>8. ASSUME NEW r \in orphans, OrphanReturns(r) PROVE QueueTyped'
  BY <1>8 DEF OrphanReturns, QueueTyped, Handling
<1>9. ASSUME Maintenance \/ Startup \/ BeginShutdown PROVE QueueTyped'
  <2>1. UNCHANGED <<calls, queue>> /\ (faults' = faults \/ Fault)
    BY <1>9 DEF Maintenance, MaintenanceReads, MaintenanceSaved, MaintenanceActivates, Startup, RestoreState,
       SaveRestored, RestoreSafePause, SupervisorStarts, BeginShutdown
  <2> QED
    BY <1>a, <2>1
<1>10. ASSUME Exit \/ Kill PROVE QueueTyped'
  <2>1. calls' = [d \in Dispatchers |-> Idle] /\ (faults' = faults \/ Fault) /\ UNCHANGED <<todo, issued>>
    BY <1>10 DEF Exit, Kill, MemoryGone, queue
  <2>2. orphans' \subseteq Requests
    BY <1>0, <1>10, RequestTyped DEF Exit, Kill, queue, Held, QueueTyped
  <2>3. \A d \in Dispatchers : ~Handling(d)'
    BY <2>1 DEF Handling, Idle
  <2> QED
    BY <2>1, <2>2, <2>3, BoundAssumption DEF QueueTyped, Fault
<1>11. CASE UNCHANGED vars
  BY <1>a, <1>11 DEF vars, queue
<1> QED
  BY <1>1, <1>2, <1>3, <1>4, <1>5, <1>6, <1>7, <1>8, <1>9, <1>10, <1>11 DEF Next

\* What the stores, the queue and the dispatchers hold has the shape the schemas
\* of the safe-pause store and of daemon-state.json allow.
THEOREM CommandsAreTyped == Spec => []TypeOK
<1>1. Init => QueueTyped
  <2> SUFFICES ASSUME Init PROVE QueueTyped
    OBVIOUS
  <2>1. \A d \in Dispatchers : ~Handling(d)
    BY DEF Init, Handling, Idle
  <2> QED
    BY <2>1, BoundAssumption DEF Init, QueueTyped
<1>2. CommandInv /\ QueueTyped => TypeOK
  <2> SUFFICES ASSUME Typed, QueueTyped PROVE TypeOK
    BY DEF CommandInv
  <2>1. calls \in [Dispatchers -> {Idle} \cup [at : CallsAt, kind : Kinds, goal : Goals, held : BOOLEAN]]
    <3>1. ASSUME NEW d \in Dispatchers, calls[d] # Idle
          PROVE  calls[d] \in [at : CallsAt, kind : Kinds, goal : Goals, held : BOOLEAN]
      <4>1. calls[d] \in Calling
        BY <3>1 DEF Typed
      <4>2. Handling(d)
        BY <4>1 DEF Handling, Calling, CallsAt
      <4> QED
        BY <4>1, <4>2 DEF Calling, QueueTyped
    <3> QED
      BY <3>1 DEF Typed
  <2> QED
    BY <2>1 DEF Typed, QueueTyped, TypeOK, Phases
<1>3. CommandInv /\ QueueTyped /\ [Next]_vars => QueueTyped'
  BY QueueStep
<1> QED
  BY <1>1, <1>2, <1>3, CommandsInvariant, PTL DEF Spec
=============================================================================
