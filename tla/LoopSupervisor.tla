--------------------------- MODULE LoopSupervisor ---------------------------
(***************************************************************************)
(* The executor of the daemon (runtime/executor/loop-supervisor.ts and     *)
(* goal-worker.ts) over the durable queue and the goal leases.  A poll     *)
(* claims goal activations and hands each to an idle worker; the worker    *)
(* runs the goal's core loop; the activation is then acked, given back     *)
(* after a backoff, or dead-lettered.  One action is what runs between two *)
(* awaits that other code can use: file-system calls, the core loop,       *)
(* callbacks, timers.                                                      *)
(*                                                                         *)
(* The queue's operations are those of JournalQueue.  Calls of the goal    *)
(* lease manager are single steps here; GoalLease has their interleaving.  *)
(* Of the background-run ledger (store/background-run-store.ts) the model  *)
(* has what the supervisor records of the runs its activations name.       *)
(***************************************************************************)
EXTENDS JournalQueue

CONSTANTS
  Worker, NoWorker,
  Goal,
  ClaimLeaseMs,   \* claimLeaseMs: of the claim and of the goal lease alike
  BackoffMs,      \* calculateCrashBackoff
  MaxCrashCount,
  Outcomes,       \* how a run of the core loop may end: "ok", "error", "throw"
  MaxRestarts     \* bound on the restarts of the daemon

ASSUME SupervisorAssumption ==
  /\ NoWorker \notin Worker
  /\ {"goal"} \in Filters
  /\ ClaimLeaseMs \in LeaseMs /\ BackoffMs \in Nat /\ BackoffMs + 1 \in LeaseMs
  /\ MaxCrashCount \in Nat \ {0}
  /\ Outcomes \subseteq {"ok", "error", "throw"} /\ MaxRestarts \in Nat
  /\ \A m \in MsgId : Envelope[m].goal \in Goal /\ Envelope[m].run \in BOOLEAN

VARIABLES
  running,      \* the supervisor was started and not shut down
  poll,         \* pollAndAssign: its next step, idle workers left, the dispatch in hand
  status,       \* GoalWorker.status
  extend,       \* GoalWorker.extendRequested
  exec,         \* executeWorker, by claim token
  activeGoals,  \* the worker of each active goal
  fence,        \* the write fence of each goal: the token that may commit
  goalLease,    \* the record of the goal lease manager
  ledger,       \* background-run ledger: the status of the run of each activation
  crashCounts, savedCounts,  \* in memory, and in supervisor-state.json
  suspended, stopped,        \* suspendedGoals, stoppedGoals
  retry,        \* pendingTimers: when the retry of a token is due, 0 for none
  restarts,
  inherited,    \* history: tokens up to this one were generated before the last restart
  abandoned     \* history: activations whose run nobody ends, as the code has it

memory == <<running, poll, status, extend, exec, activeGoals, fence, crashCounts,
            suspended, stopped, retry>>
files == <<goalLease, ledger, savedCounts>>
history == <<inherited, abandoned>>
supVars == <<memory, files, restarts, history>>
allVars == <<vars, supVars>>

GoalOf(m) == Envelope[m].goal
HasRun(m) == Envelope[m].run      \* the activation names a background run

NoPoll == [at |-> "off", left |-> {}, token |-> NoToken, msg |-> NoMsg, worker |-> NoWorker]
NoExec == [at |-> "none", msg |-> NoMsg, worker |-> NoWorker, lost |-> FALSE]
NoLease == [owner |-> NoToken, until |-> 0]

FreshMemory ==
  /\ poll = NoPoll
  /\ status = [w \in Worker |-> "idle"] /\ extend = [w \in Worker |-> FALSE]
  /\ exec = [t \in Token |-> NoExec]
  /\ activeGoals = [g \in Goal |-> NoWorker] /\ fence = [g \in Goal |-> NoToken]
  /\ suspended = {} /\ stopped = {}
  /\ retry = [t \in Token |-> 0]

SupInit ==
  /\ Init
  /\ running = TRUE /\ FreshMemory
  /\ goalLease = [g \in Goal |-> NoLease]
  /\ ledger = [m \in MsgId |-> "queued"]
  /\ crashCounts = [g \in Goal |-> 0] /\ savedCounts = crashCounts
  /\ restarts = 0 /\ inherited = 0 /\ abandoned = {}

ExecGoal(t) == GoalOf(exec[t].msg)
PollGoal == GoalOf(poll.msg)
ExecAt(t, here) == exec[t].at = here
Fenced == {"marking", "run", "completing", "acking", "suspending", "nacking"}  \* until the finally
IsActiveBusy(g) == activeGoals[g] # NoWorker /\ status[activeGoals[g]] = "running"
IsActive(g) == activeGoals[g] # NoWorker
Leased(g) == goalLease[g].owner # NoToken /\ goalLease[g].until > now

\* Commits to the goal are refused from then on unless its lease is still t's.
InstallWriteFence(g, t) == fence' = [fence EXCEPT ![g] = t]
ClearWriteFence(g) == fence' = [fence EXCEPT ![g] = NoToken]

PersistState == savedCounts' = crashCounts
LoadState == crashCounts' = savedCounts

\* A queue operation, tried: the queue refuses it when the claim is gone.
TryAck(t)  == IF Holds(t) THEN Ack(t) ELSE UNCHANGED vars
TryNack(t, requeue) == IF Holds(t) THEN Nack(t, requeue) ELSE UNCHANGED vars

-----------------------------------------------------------------------------
(* Activation.  As in JournalQueue, a definition named for a slip stands before
   the one it gets wrong. *)

\* activateGoal; the queue may refuse the envelope as a duplicate.
ActivateGoal(m) ==
  /\ records[m].status = "absent"
  /\ suspended' = suspended \ {GoalOf(m)}
  /\ stopped' = stopped \ {GoalOf(m)}
  /\ \/ Accept(m)
     \/ (\E x \in SameKey(m) : records[x].status = "inflight") /\ UNCHANGED vars
  /\ UNCHANGED <<running, poll, status, extend, exec, activeGoals, fence, crashCounts,
                 retry, files, restarts, history>>

DeactivateGoal(g) ==
  /\ stopped' = stopped \cup {g}
  /\ UNCHANGED <<vars, running, poll, status, extend, exec, activeGoals, fence, crashCounts,
                 suspended, retry, files, restarts, history>>

-----------------------------------------------------------------------------
(* pollAndAssign *)

Polled == UNCHANGED <<running, status, extend, exec, activeGoals, fence, crashCounts,
                      suspended, stopped, retry, files, restarts, history>>

PollStart ==
  /\ running /\ poll.at = "off"
  /\ \E w \in Worker : status[w] = "idle"
  /\ poll' = [NoPoll EXCEPT !.at = "next", !.left = {w \in Worker : status[w] = "idle"}]
  /\ UNCHANGED vars /\ Polled

\* claimNextDispatch, for the next of the workers that were idle at the start.
PollClaim(w) ==
  /\ poll.at = "next" /\ w \in poll.left
  /\ \E m \in MsgId :
       /\ ClaimMessage(m, {"goal"}, ClaimLeaseMs)
       /\ poll' = [at |-> "decide", left |-> poll.left \ {w}, token |-> issued + 1, msg |-> m, worker |-> w]
  /\ Polled

PollEnds ==
  /\ poll.at = "next"
  /\ \/ poll.left = {} /\ UNCHANGED vars
     \/ poll.left # {} /\ ClaimNothing({"goal"})
     \/ (\A m \in MsgId : ~Claimable(m, {"goal"}) /\ ~Droppable(m)) /\ UNCHANGED vars
  /\ poll' = NoPoll
  /\ Polled

NextWorker == poll' = [NoPoll EXCEPT !.at = "next", !.left = poll.left]

\* The goal is active: extend its worker; settle the background run, if there
\* is one; complete the claim.
Coalesce ==
  /\ poll.at = "decide" /\ IsActive(PollGoal)
  /\ extend' = [extend EXCEPT ![activeGoals[PollGoal]] = TRUE]
  /\ IF HasRun(poll.msg)
     THEN poll' = [poll EXCEPT !.at = "coalesced"] /\ UNCHANGED vars
     ELSE NextWorker /\ TryAck(poll.token)
  /\ UNCHANGED <<running, status, exec, activeGoals, fence, crashCounts,
                 suspended, stopped, retry, files, restarts, history>>

\* The status of the background run of m is written.
Mark(m, st) == ledger' = [ledger EXCEPT ![m] = st]

\* markCoalescedBackgroundRun: started, then cancelled, then the claim is completed.
CoalescedRun(from, to, st) ==
  /\ poll.at = from
  /\ poll' = [poll EXCEPT !.at = to]
  /\ Mark(poll.msg, st)
  /\ UNCHANGED <<vars, running, status, extend, exec, activeGoals, fence, goalLease, crashCounts,
                 savedCounts, suspended, stopped, retry, restarts, history>>

CoalescedRunSettled ==
  /\ poll.at = "cancelled"
  /\ TryAck(poll.token) /\ NextWorker /\ Polled

\* The claim is completed; its background run is not looked at.
SkipStopped ==
  /\ poll.at = "decide" /\ ~IsActive(PollGoal) /\ PollGoal \in stopped
  /\ TryAck(poll.token) /\ NextWorker
  /\ abandoned' = abandoned \cup {poll.msg}
  /\ UNCHANGED <<running, status, extend, exec, activeGoals, fence, crashCounts,
                 suspended, stopped, retry, files, restarts, inherited>>

SkipSuspended ==
  /\ poll.at = "decide" /\ ~IsActive(PollGoal)
  /\ PollGoal \in suspended \ stopped
  /\ TryNack(poll.token, FALSE) /\ NextWorker /\ Polled

\* acquireExecutionLease: the poll goes on when the manager answers.
AcquireLease ==
  /\ poll.at = "decide" /\ ~IsActive(PollGoal)
  /\ PollGoal \notin stopped \cup suspended
  /\ IF Leased(PollGoal)
     THEN poll' = [poll EXCEPT !.at = "refused"] /\ UNCHANGED goalLease
     ELSE /\ poll' = [poll EXCEPT !.at = "leased"]
          /\ goalLease' = [goalLease EXCEPT ![PollGoal] =
                             [owner |-> poll.token, until |-> now + ClaimLeaseMs]]
  /\ UNCHANGED <<vars, running, status, extend, exec, activeGoals, fence, crashCounts,
                 suspended, stopped, retry, savedCounts, ledger, restarts, history>>

LeaseUnavailable ==
  /\ poll.at = "refused"
  /\ TryNack(poll.token, TRUE) /\ NextWorker /\ Polled

\* The goal lease after t gave it back.
ReleasedIfClaimed(g, t) ==
  IF goalLease[g].owner = t /\ Holds(t) THEN [goalLease EXCEPT ![g] = NoLease] ELSE goalLease
Released(g, t) == IF goalLease[g].owner = t THEN [goalLease EXCEPT ![g] = NoLease] ELSE goalLease

\* shutdown() came while the lease was being acquired: give both back.
StopSeen ==
  /\ poll.at = "leased" /\ ~running
  /\ TryNack(poll.token, TRUE)
  /\ goalLease' = Released(PollGoal, poll.token)
  /\ poll' = NoPoll
  /\ UNCHANGED <<running, status, extend, exec, activeGoals, fence, crashCounts,
                 suspended, stopped, retry, savedCounts, ledger, restarts, history>>

-----------------------------------------------------------------------------
(* executeWorker and GoalWorker.execute *)

\* The worker enters its loop: status running, extendRequested false.
Enters(t, w, m) ==
  /\ exec' = [exec EXCEPT ![t] = [at |-> "run", msg |-> m, worker |-> w, lost |-> exec[t].lost]]
  /\ status' = [status EXCEPT ![w] = "running"]
  /\ extend' = [extend EXCEPT ![w] = FALSE]

\* The worker is given the dispatch.  With a background run its start is first
\* written to the ledger, and until then the worker still counts as idle.
Start ==
  LET t == poll.token  m == poll.msg  w == poll.worker IN
  /\ poll.at = "leased" /\ running
  /\ activeGoals' = [activeGoals EXCEPT ![GoalOf(m)] = w]
  /\ InstallWriteFence(GoalOf(m), t)
  /\ PersistState
  /\ NextWorker
  /\ IF HasRun(m)
     THEN /\ exec' = [exec EXCEPT ![t] = [at |-> "marking", msg |-> m, worker |-> w, lost |-> FALSE]]
          /\ UNCHANGED <<status, extend>>
     ELSE Enters(t, w, m)
  /\ UNCHANGED <<vars, running, crashCounts, suspended, stopped, retry, goalLease, ledger, restarts, history>>

RunStartMarked(t) ==
  /\ ExecAt(t, "marking")
  /\ Enters(t, exec[t].worker, exec[t].msg)
  /\ Mark(exec[t].msg, "running")
  /\ PersistState
  /\ UNCHANGED <<vars, running, poll, activeGoals, fence, crashCounts, suspended, stopped,
                 retry, goalLease, restarts, history>>

\* The core loop returned and an extension was asked for: run it again.
RunAgain(t) ==
  /\ ExecAt(t, "run") /\ extend[exec[t].worker]
  /\ Enters(t, exec[t].worker, exec[t].msg)
  /\ PersistState
  /\ UNCHANGED <<vars, running, poll, activeGoals, fence, crashCounts, suspended, stopped,
                 retry, goalLease, ledger, restarts, history>>

\* What nobody will end when the execution of t fails or dies: its claim is gone.
Forsaken(t) == IF Holds(t) THEN {} ELSE {exec[t].msg}

LeavesFenced(t) == exec' = [exec EXCEPT ![t].at = "release"] /\ UNCHANGED fence
\* stopRenewal and clearWriteFence, then the release of the lease is awaited.
Leaves(t) ==
  /\ exec' = [exec EXCEPT ![t].at = "release"]
  /\ ClearWriteFence(ExecGoal(t))

\* The run went well, or was stopped by shutdown: onGoalComplete is awaited.
RunSucceeds(t) ==
  LET w == exec[t].worker IN
  /\ "ok" \in Outcomes
  /\ ExecAt(t, "run") /\ (~extend[w] \/ ~running)
  /\ exec' = [exec EXCEPT ![t].at = "completing"]
  /\ status' = [status EXCEPT ![w] = "idle"]
  /\ crashCounts' = [crashCounts EXCEPT ![ExecGoal(t)] = 0]
  /\ suspended' = suspended \ {ExecGoal(t)}
  /\ PersistState
  /\ UNCHANGED <<vars, running, poll, extend, activeGoals, fence, stopped, retry, goalLease,
                 ledger, restarts, history>>

\* markBackgroundRunTerminal, after onGoalComplete or for the last failure; its
\* callback is awaited before the claim is settled.
RunEndMarked(t) ==
  /\ exec[t].at \in {"completing", "suspending"} /\ HasRun(exec[t].msg)
  /\ exec' = [exec EXCEPT ![t].at = IF ExecAt(t, "completing") THEN "acking" ELSE "nacking"]
  /\ Mark(exec[t].msg, "ended")
  /\ UNCHANGED <<vars, running, poll, status, extend, activeGoals, fence, goalLease, crashCounts,
                 savedCounts, suspended, stopped, retry, restarts, history>>

MarkedOrNot(t, before, after) == ExecAt(t, before) \/ ExecAt(t, after)
\* The run of t, if it names one, was recorded as ended.
Marked(t, before, after) == ExecAt(t, after) \/ (ExecAt(t, before) /\ ~HasRun(exec[t].msg))

\* completeClaim
Complete(t) ==
  /\ Marked(t, "completing", "acking")
  /\ IF exec[t].lost THEN UNCHANGED vars ELSE TryAck(t)
  /\ Leaves(t)
  /\ UNCHANGED <<running, poll, status, extend, activeGoals, crashCounts, suspended, stopped,
                 retry, files, restarts, history>>

DeferRetryUnrenewed(t) ==
  IF ~exec[t].lost /\ Holds(t)
  THEN retry' = [retry EXCEPT ![t] = now + BackoffMs] /\ UNCHANGED vars
  ELSE UNCHANGED <<vars, retry>>
\* deferDurableRetry: keep the claim a little longer than the backoff.
DeferRetry(t) ==
  IF ~exec[t].lost /\ Holds(t)
  THEN /\ Renew(t, BackoffMs + 1)
       /\ retry' = [retry EXCEPT ![t] = now + BackoffMs]
  ELSE UNCHANGED <<vars, retry>>

FailedStatusRaw(outcome) == outcome
\* The worker's status after a failed run: a loop that returns an error leaves it
\* idle, one that throws leaves it crashed.  An extension asked for is not seen
\* by a loop that throws.
FailedStatus(outcome) == IF outcome = "throw" THEN "crashed" ELSE "idle"

RunFails(t, outcome) ==
  LET w == exec[t].worker  g == ExecGoal(t) IN
  /\ outcome \in Outcomes \cap {"error", "throw"}
  /\ ExecAt(t, "run") /\ (outcome = "throw" \/ ~extend[w])
  /\ status' = [status EXCEPT ![w] = FailedStatus(outcome)]
  /\ crashCounts' = [crashCounts EXCEPT ![g] = @ + 1]
  /\ IF outcome = "error" THEN PersistState ELSE UNCHANGED savedCounts
  /\ IF crashCounts[g] + 1 >= MaxCrashCount
     THEN /\ suspended' = suspended \cup {g}
          /\ exec' = [exec EXCEPT ![t].at = "suspending"]
          /\ UNCHANGED <<vars, fence, retry, abandoned>>
     ELSE /\ abandoned' = abandoned \cup Forsaken(t)
          /\ UNCHANGED suspended
          /\ Leaves(t)
          /\ DeferRetry(t)
  /\ UNCHANGED <<running, poll, extend, activeGoals, stopped, goalLease, ledger, restarts, inherited>>

\* failClaim, for good
Suspend(t) ==
  /\ Marked(t, "suspending", "nacking")
  /\ IF exec[t].lost THEN UNCHANGED vars ELSE TryNack(t, FALSE)
  /\ Leaves(t)
  /\ UNCHANGED <<running, poll, status, extend, activeGoals, crashCounts, suspended, stopped,
                 retry, files, restarts, history>>

\* releaseExecutionLease has answered.
Finish(t) ==
  /\ ExecAt(t, "release")
  /\ goalLease' = Released(ExecGoal(t), t)
  /\ activeGoals' = [activeGoals EXCEPT ![ExecGoal(t)] = NoWorker]
  /\ exec' = [exec EXCEPT ![t] = NoExec]
  /\ PersistState
  /\ UNCHANGED <<vars, running, poll, status, extend, fence, ledger, crashCounts, suspended, stopped,
                 retry, restarts, history>>

\* One round of startLeaseRenewLoop; a round that loses either ends the loop.
RenewOwnership(t) ==
  LET g == ExecGoal(t)
      leaseHeld == goalLease[g].owner = t /\ Leased(g)
  IN
  /\ exec[t].at \in Fenced /\ ~exec[t].lost
  /\ IF Holds(t) THEN Renew(t, ClaimLeaseMs) ELSE UNCHANGED vars
  /\ goalLease' = IF leaseHeld THEN [goalLease EXCEPT ![g].until = now + ClaimLeaseMs] ELSE goalLease
  /\ exec' = [exec EXCEPT ![t].lost = ~(Holds(t) /\ leaseHeld)]
  /\ UNCHANGED <<running, poll, status, extend, activeGoals, fence, crashCounts, suspended,
                 stopped, retry, savedCounts, ledger, restarts, history>>

\* The timer of deferDurableRetry.
RetryDue(t) ==
  /\ retry[t] # 0 /\ retry[t] <= now /\ running
  /\ retry' = [retry EXCEPT ![t] = 0]
  /\ TryNack(t, TRUE)
  /\ UNCHANGED <<running, poll, status, extend, exec, activeGoals, fence, crashCounts,
                 suspended, stopped, files, restarts, history>>

-----------------------------------------------------------------------------
(* The daemon process *)

Shutdown ==
  /\ running /\ restarts < MaxRestarts
  /\ running' = FALSE
  /\ retry' = [t \in Token |-> 0]
  /\ UNCHANGED <<vars, poll, status, extend, exec, activeGoals, fence, crashCounts, suspended,
                 stopped, files, restarts, history>>

\* The process ends, stopped or killed, and the next one starts; the files stay.
Restart ==
  /\ restarts < MaxRestarts
  /\ restarts' = restarts + 1 /\ inherited' = issued
  /\ abandoned' = abandoned \cup UNION {Forsaken(t) : t \in {t \in Token : exec[t].at \in Fenced}}
  /\ running' = TRUE
  /\ poll' = NoPoll
  /\ status' = [w \in Worker |-> "idle"] /\ extend' = [w \in Worker |-> FALSE]
  /\ exec' = [t \in Token |-> NoExec]
  /\ activeGoals' = [g \in Goal |-> NoWorker] /\ fence' = [g \in Goal |-> NoToken]
  /\ suspended' = {} /\ stopped' = {}
  /\ retry' = [t \in Token |-> 0]
  /\ LoadState
  /\ UNCHANGED <<vars, files>>

Environment == (Tick \/ SweepExpiredClaims) /\ UNCHANGED supVars

PollStep ==
  \/ PollStart \/ PollEnds \/ \E w \in Worker : PollClaim(w)
  \/ Coalesce \/ CoalescedRun("coalesced", "cancelling", "running")
  \/ CoalescedRun("cancelling", "cancelled", "cancelled") \/ CoalescedRunSettled
  \/ SkipStopped \/ SkipSuspended
  \/ AcquireLease \/ LeaseUnavailable \/ StopSeen \/ Start

RunEnds(t) == RunAgain(t) \/ RunSucceeds(t) \/ \E o \in {"error", "throw"} : RunFails(t, o)
ExecStep(t) == RunStartMarked(t) \/ RunEnds(t) \/ RunEndMarked(t) \/ Complete(t) \/ Suspend(t) \/ Finish(t)

SupNext ==
  \/ Environment
  \/ \E m \in MsgId : ActivateGoal(m)
  \/ \E g \in Goal : DeactivateGoal(g)
  \/ PollStep
  \/ \E t \in Token : ExecStep(t) \/ RenewOwnership(t) \/ RetryDue(t)
  \/ Shutdown \/ Restart

SupSpec == SupInit /\ [][SupNext]_allVars

\* The poll, the sweeper and the retry timers are intervals and timeouts of the
\* process; file-system calls answer; every run of a core loop ends.  Nothing is
\* assumed of the renewals, of activations or of restarts.
SupFairness ==
  /\ WF_allVars(Environment)
  /\ WF_allVars(PollStep)
  /\ \A t \in Token : WF_allVars(ExecStep(t)) /\ WF_allVars(RetryDue(t))

SupFairSpec == SupSpec /\ SupFairness

-----------------------------------------------------------------------------
(* Properties *)

SupTypeOK ==
  /\ TypeOK
  /\ running \in BOOLEAN
  /\ poll \in [at : {"off", "next", "decide", "coalesced", "cancelling", "cancelled", "refused", "leased"}, left : SUBSET Worker,
               token : Token \cup {NoToken}, msg : MsgId \cup {NoMsg}, worker : Worker \cup {NoWorker}]
  /\ status \in [Worker -> {"idle", "running", "crashed"}]
  /\ extend \in [Worker -> BOOLEAN]
  /\ exec \in [Token -> [at : {"none", "release"} \cup Fenced,
                         msg : MsgId \cup {NoMsg}, worker : Worker \cup {NoWorker}, lost : BOOLEAN]]
  /\ activeGoals \in [Goal -> Worker \cup {NoWorker}]
  /\ fence \in [Goal -> Token \cup {NoToken}]
  /\ goalLease \in [Goal -> [owner : Token \cup {NoToken}, until : Nat]]
  /\ ledger \in [MsgId -> {"queued", "running", "cancelled", "ended"}] /\ abandoned \subseteq MsgId
  /\ crashCounts \in [Goal -> Nat] /\ savedCounts \in [Goal -> Nat]
  /\ suspended \subseteq Goal /\ stopped \subseteq Goal
  /\ retry \in [Token -> Nat]

Executing(t) == exec[t].at # "none"

\* At most one execution of a goal at a time, through redelivery of a claim that
\* was lost, coalescing, retries and restarts; while one lasts, activeGoals has it.
GoalExclusive ==
  /\ \A s, t \in Token : s # t /\ Executing(s) /\ Executing(t) => ExecGoal(s) # ExecGoal(t)
  /\ \A t \in Token : Executing(t) => activeGoals[ExecGoal(t)] = exec[t].worker

\* What a running worker writes is fenced by its own token, never by that of an
\* older or newer execution of the goal, and no fence outlives its execution.
FenceIsOwn ==
  /\ \A t \in Token : exec[t].at \in Fenced =>
       fence[ExecGoal(t)] = t
  /\ \A g \in Goal : fence[g] # NoToken => Executing(fence[g])

\* The supervisor leaves no goal lease behind: one made since the last restart
\* belongs to an execution, or to the dispatch the poll has in hand.
LeaseNotLeaked ==
  \A g \in Goal : LET t == goalLease[g].owner IN
    t > inherited => Executing(t) \/ (poll.at = "leased" /\ poll.token = t)

\* A failed activation is not handed out again before its backoff is over: until
\* the timer is due the claim is kept, whatever the sweeper and the polls do.
BackoffHonoured == \A t \in Token : retry[t] > now => Holds(t)

\* A client that follows a background run sees it end: the run of an activation
\* that the queue has as completed was recorded as ended or cancelled, although
\* claims are lost, redelivered and coalesced and the process may die between any
\* two of the records.  Two cases are left out, because the code leaves the
\* record of such a run as it is: an activation skipped for a stopped goal; and an
\* execution that has lost its claim, and then fails or dies.
RunAccounted ==
  \A m \in MsgId \ abandoned : HasRun(m) /\ records[m].status = "completed" =>
    ledger[m] \in {"ended", "cancelled"} \/ \E t \in Token : Executing(t) /\ exec[t].msg = m

\* Every activation the queue accepted is settled in the end.
ActivationSettled == \A m \in MsgId : Active(m) ~> ~Active(m)
=============================================================================
