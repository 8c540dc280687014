--------------------------- MODULE SupervisorProofs ---------------------------
(***************************************************************************)
(* Theorems about LoopSupervisor, for any messages, goals, workers, leases, *)
(* backoffs and numbers of restarts: one execution per goal, its fence, its *)
(* goal lease and the backoff of a failed activation; in the second half   *)
(* the ledger of background runs; at the end, that the supervisor moves    *)
(* its queue as JournalQueue allows, so that what JournalQueueProofs shows *)
(* of the queue holds under it.                                            *)
(***************************************************************************)
EXTENDS LoopSupervisor, JournalQueueProofs, TLAPS

PollSteps == {"off", "next", "decide", "coalesced", "cancelling", "cancelled", "refused", "leased"}
PollStates == [at : PollSteps, left : SUBSET Worker, token : Token \cup {NoToken},
               msg : MsgId \cup {NoMsg}, worker : Worker \cup {NoWorker}]
ExecStates == [at : {"none", "release"} \cup Fenced, msg : MsgId \cup {NoMsg},
               worker : Worker \cup {NoWorker}, lost : BOOLEAN]
Leases == [owner : Token \cup {NoToken}, until : Nat]

\* The types of what the theorems are about.
Types ==
  /\ issued \in 0..MaxTokens /\ inherited \in 0..issued /\ now \in Nat
  /\ records = [m \in MsgId |-> records[m]] /\ inflight = [t \in Token |-> inflight[t]]
  /\ poll \in PollStates /\ exec \in [Token -> ExecStates]
  /\ activeGoals \in [Goal -> Worker \cup {NoWorker}]
  /\ fence \in [Goal -> Token \cup {NoToken}]
  /\ goalLease \in [Goal -> Leases]
  /\ retry \in [Token -> Nat]

\* The poll has a dispatch in hand.
InHand == poll.at \in {"decide", "coalesced", "cancelling", "cancelled", "refused", "leased"}

\* The dispatch in hand has a token of its own, and once the lease of its goal
\* was asked for the goal is not active.
GoodPoll ==
  InHand =>
    /\ poll.token \in Token /\ poll.token <= issued
    /\ poll.msg \in MsgId /\ poll.worker \in Worker
    /\ ~Executing(poll.token) /\ retry[poll.token] = 0
    /\ poll.at \in {"refused", "leased"} => activeGoals[PollGoal] = NoWorker

\* An execution is known by its goal, and waits for no retry.
GoodExec ==
  \A t \in Token : Executing(t) =>
    /\ t <= issued /\ exec[t].msg \in MsgId /\ exec[t].worker \in Worker
    /\ activeGoals[ExecGoal(t)] = exec[t].worker
    /\ exec[t].at \in Fenced => retry[t] = 0

OnePerGoal ==
  \A s, t \in Token : s # t /\ Executing(s) /\ Executing(t) => ExecGoal(s) # ExecGoal(t)

\* The fence of a goal is that of its execution, until it leaves.
FenceFollows ==
  /\ \A t \in Token : exec[t].at \in Fenced => fence[ExecGoal(t)] = t
  /\ \A g \in Goal : fence[g] # NoToken =>
       exec[fence[g]].at \in Fenced /\ ExecGoal(fence[g]) = g

\* A goal lease of this process belongs to the execution of that goal, or to
\* the dispatch in hand.
LeaseOwned ==
  \A g \in Goal :
    /\ goalLease[g].owner <= issued
    /\ goalLease[g].owner > inherited =>
         \/ Executing(goalLease[g].owner) /\ ExecGoal(goalLease[g].owner) = g
         \/ poll.at = "leased" /\ poll.token = goalLease[g].owner /\ PollGoal = g

\* A claim that waits for a retry outlasts it, in the record and in the index.
Waits(t) ==
  /\ Current(t)
  /\ records[inflight[t].messageId].leaseUntil \in Nat
  /\ records[inflight[t].messageId].leaseUntil > retry[t]
  /\ inflight[t].leaseUntil \in Nat /\ inflight[t].leaseUntil > retry[t]
RetryKept ==
  \A t \in Token :
    /\ t > issued => retry[t] = 0
    /\ retry[t] > now => Waits(t)

Memory == GoodExec /\ OnePerGoal /\ FenceFollows
IInv == Types /\ GoodPoll /\ Memory /\ LeaseOwned /\ RetryKept

-----------------------------------------------------------------------------
(* What the queue's operations leave alone *)

\* A step of the queue leaves the claim of t as it is.
ClaimKept(t) ==
  /\ inflight'[t] = inflight[t]
  /\ records'[inflight[t].messageId] = records[inflight[t].messageId]

\* A step of the queue that settles or renews no claim outside S.
QueueMoves(S) ==
  /\ now' \in Nat /\ now' >= now
  /\ issued' \in 0..MaxTokens /\ issued' >= issued
  /\ records' = [m \in MsgId |-> records'[m]] /\ inflight' = [t \in Token |-> inflight'[t]]
  /\ \A t \in Token \ S :
       Current(t) /\ t <= issued /\ inflight[t].leaseUntil \in Nat /\ inflight[t].leaseUntil > now
         => ClaimKept(t)

\* A step that is none of the queue's moves nothing in it.
LEMMA NothingMoves == ASSUME Types, UNCHANGED vars, NEW S PROVE QueueMoves(S)
  BY DEF Types, QueueMoves, ClaimKept, vars, queueVars

\* Time passes: no claim changes.
LEMMA TickMoves == ASSUME Types, Tick PROVE QueueMoves({}) /\ issued' = issued
  BY DEF Types, QueueMoves, ClaimKept, Tick, queueVars

\* accept removes only pending messages.
LEMMA AcceptMoves ==
  ASSUME Types, NEW m \in MsgId, Accept(m) PROVE QueueMoves({}) /\ issued' = issued
<1>1. /\ records' = [x \in MsgId |-> IF x = m THEN Fresh
                                     ELSE IF x \in SameKey(m) THEN Absent ELSE records[x]]
      /\ records[m].status = "absent" /\ UNCHANGED <<now, inflight, issued>>
      /\ \A x \in SameKey(m) : records[x].status # "inflight"
  BY DEF Accept
<1>2. \A t \in Token : Current(t) => ClaimKept(t)
  BY <1>1 DEF Current, ClaimKept
<1> QED BY <1>1, <1>2 DEF Types, QueueMoves

\* The scan of claim changes only pending messages, and a new token.
LEMMA BuriedKeeps ==
  ASSUME NEW D, NEW m \in MsgId, records[m].status = "inflight" PROVE Buried(D)[m] = records[m]
  BY DEF Buried

\* A claim issues one new token and leaves the claims of the others as they are.
LEMMA ClaimMoves ==
  ASSUME Types, NEW m \in MsgId, NEW F, NEW lease, ClaimMessage(m, F, lease)
  PROVE  QueueMoves({}) /\ issued' = issued + 1 /\ issued' \in Token
<1> DEFINE D == {x \in MsgId : Droppable(x) /\ Ahead(x, m)}
<1>1. /\ issued < MaxTokens /\ issued' = issued + 1 /\ now' = now
      /\ records[m].status = "pending"
      /\ \E r : records' = [Buried(D) EXCEPT ![m] = r]
      /\ \E c : inflight' = [inflight EXCEPT ![issued + 1] = c]
  BY DEF ClaimMessage, Claimable
<1>2. issued' \in Token /\ issued' \in 0..MaxTokens
  BY <1>1, BoundsAssumption DEF Types, Token
<1>3. Buried(D) = [x \in MsgId |-> Buried(D)[x]]
  BY DEF Buried
<1>4. ASSUME NEW t \in Token, Current(t), t <= issued PROVE ClaimKept(t)
  <2>1. inflight'[t] = inflight[t]
    BY <1>1, <1>4 DEF Types, Token
  <2>2. inflight[t].messageId \in MsgId \ {m} /\ records[inflight[t].messageId].status = "inflight"
    BY <1>1, <1>4 DEF Current
  <2>3. records'[inflight[t].messageId] = Buried(D)[inflight[t].messageId]
    BY <1>1, <1>3, <2>2
  <2> QED BY <2>1, <2>2, <2>3, BuriedKeeps DEF ClaimKept
<1>5. records' = [x \in MsgId |-> records'[x]] /\ inflight' = [t \in Token |-> inflight'[t]]
  BY <1>1, <1>3 DEF Types
<1> QED BY <1>1, <1>2, <1>4, <1>5 DEF Types, QueueMoves

\* A claim that finds nothing drops only messages that are not inflight.
LEMMA ClaimNothingMoves ==
  ASSUME Types, NEW F, ClaimNothing(F) PROVE QueueMoves({}) /\ issued' = issued
<1> DEFINE D == {x \in MsgId : Droppable(x)}
<1>1. records' = Buried(D) /\ UNCHANGED <<now, inflight, issued>>
  BY DEF ClaimNothing
<1>2. Buried(D) = [x \in MsgId |-> Buried(D)[x]]
  BY DEF Buried
<1>3. \A t \in Token : Current(t) => ClaimKept(t)
  BY <1>1, BuriedKeeps DEF Current, ClaimKept
<1> QED BY <1>1, <1>2, <1>3 DEF Types, QueueMoves

\* Settling or renewing a claim changes the record of its own message, which
\* carries no other claim.
LEMMA HolderMoves ==
  ASSUME Types, NEW s \in Token, NEW requeue, NEW lease,
         Ack(s) \/ Nack(s, requeue) \/ Renew(s, lease)
  PROVE  QueueMoves({s}) /\ issued' = issued /\ now' = now
<1>1. PICK m \in MsgId : m = inflight[s].messageId /\ records[m].claimToken = s
  BY DEF Ack, Nack, Renew, Holds, Current
<1>2. /\ \E r : records' = [records EXCEPT ![m] = r]
      /\ \E c : inflight' = [inflight EXCEPT ![s] = c]
      /\ UNCHANGED <<now, issued>>
  BY <1>1 DEF Ack, Nack, Renew
<1>3. \A t \in Token \ {s} : Current(t) => ClaimKept(t)
  BY <1>1, <1>2 DEF Current, ClaimKept, Types
<1>4. records' = [x \in MsgId |-> records'[x]] /\ inflight' = [t \in Token |-> inflight'[t]]
  BY <1>2 DEF Types
<1> QED BY <1>2, <1>3, <1>4 DEF Types, QueueMoves

\* An ack or nack that the queue may refuse touches no other claim either way.
LEMMA TriedMoves ==
  ASSUME Types, NEW s \in Token, NEW requeue, TryAck(s) \/ TryNack(s, requeue)
  PROVE  QueueMoves({s}) /\ issued' = issued /\ now' = now
<1>1. CASE UNCHANGED vars
  BY <1>1, NothingMoves DEF vars, queueVars
<1>2. CASE Ack(s) \/ Nack(s, requeue)
  BY <1>2, HolderMoves
<1> QED BY <1>1, <1>2 DEF TryAck, TryNack

\* The sweep takes only claims whose lease is over.
LEMMA SweepMoves ==
  ASSUME Types, SweepExpiredClaims PROVE QueueMoves({}) /\ issued' = issued
<1>1. /\ inflight' = [t \in Token |-> IF t \in Overdue THEN NoClaim ELSE inflight[t]]
      /\ records' = [m \in MsgId |-> IF m \in Reclaimed THEN Returned(m) ELSE records[m]]
      /\ UNCHANGED <<now, issued>>
  BY DEF SweepExpiredClaims
<1>2. ASSUME NEW t \in Token, Current(t), inflight[t].leaseUntil \in Nat, inflight[t].leaseUntil > now
      PROVE  ClaimKept(t)
  <2>1. t \notin Overdue
    BY <1>2 DEF Overdue, Types, Current
  <2>2. inflight[t].messageId \notin Reclaimed
    BY <1>2, <2>1 DEF Reclaimed, Current
  <2>3. inflight[t].messageId \in MsgId
    BY <1>2 DEF Current
  <2> QED BY <1>1, <2>1, <2>2, <2>3 DEF ClaimKept
<1> QED BY <1>1, <1>2 DEF Types, QueueMoves

\* Claims that wait for a retry are kept, but for those in S, of which the rest
\* has to be known.
LEMMA RetryMoves ==
  ASSUME Types, RetryKept, NEW S, QueueMoves(S), retry' \in [Token -> Nat],
         \A t \in Token \ S : retry'[t] \in {0, retry[t]},
         \A t \in Token \cap S : (t > issued' => retry'[t] = 0) /\ (retry'[t] > now' => Waits(t)')
  PROVE  RetryKept'
<1> SUFFICES ASSUME NEW t \in Token
             PROVE  (t > issued' => retry'[t] = 0) /\ (retry'[t] > now' => Waits(t)')
  BY DEF RetryKept
<1>1. CASE t \in S
  BY <1>1
<1>2. CASE t \notin S
  <2>1. now \in Nat /\ now' \in Nat /\ now' >= now /\ issued \in Nat /\ issued' \in Nat
        /\ issued' >= issued /\ retry[t] \in Nat /\ t \in Nat
    BY DEF Types, QueueMoves, Token
  <2>2. t > issued' => retry'[t] = 0
    BY <1>2, <2>1 DEF RetryKept
  <2>3. ASSUME retry'[t] > now' PROVE Waits(t)'
    <3>1. retry'[t] = retry[t] /\ retry[t] > now /\ t <= issued
      BY <1>2, <2>1, <2>3 DEF RetryKept
    <3>2. Waits(t)
      BY <3>1 DEF RetryKept
    <3>3. inflight[t].leaseUntil \in Nat /\ inflight[t].leaseUntil > now
      BY <2>1, <3>1, <3>2 DEF Waits
    <3>4. ClaimKept(t)
      BY <1>2, <3>1, <3>2, <3>3 DEF QueueMoves, Waits
    <3> QED BY <3>1, <3>2, <3>4 DEF Waits, ClaimKept, Current
  <2> QED BY <2>2, <2>3
<1> QED BY <1>1, <1>2

-----------------------------------------------------------------------------
(* Steps that move no execution *)

\* Whatever the queue does, and although retries may be dropped, executions and
\* leases that are left alone stay as they should be.
LEMMA MemoryKept ==
  ASSUME IInv, issued' \in Nat, issued' >= issued, UNCHANGED <<exec, activeGoals, fence>>,
         \A t \in Token : retry'[t] \in {0, retry[t]}
  PROVE  Memory'
<1>1. issued \in Nat /\ Token \subseteq Nat
  BY DEF IInv, Types, Token
<1>2. GoodExec'
  <2>1. GoodExec
    BY DEF IInv, Memory
  <2> QED BY <1>1, <2>1 DEF GoodExec, Executing, ExecGoal
<1>3. OnePerGoal'
  BY DEF IInv, Memory, OnePerGoal, Executing, ExecGoal
<1>4. FenceFollows'
  BY DEF IInv, Memory, FenceFollows, ExecGoal
<1> QED BY <1>2, <1>3, <1>4 DEF Memory

\* So do the goal leases, while a dispatch that has one stays in hand.
LEMMA LeaseKept ==
  ASSUME IInv, issued' \in Nat, issued' >= issued, UNCHANGED <<exec, goalLease, inherited>>,
         poll.at = "leased" => poll' = poll
  PROVE  LeaseOwned'
<1>1. issued \in Nat /\ \A g \in Goal : goalLease[g].owner \in Nat
  BY DEF IInv, Types, Leases, Token, NoToken
<1>2. LeaseOwned
  BY DEF IInv
<1> QED BY <1>1, <1>2 DEF LeaseOwned, Executing, ExecGoal, PollGoal

\* A step of the queue, or one that drops a retry, beside a poll at rest.
LEMMA QuietKeeps ==
  ASSUME IInv, NEW S, QueueMoves(S), UNCHANGED <<poll, exec, activeGoals, fence, goalLease, inherited>>,
         retry' \in [Token -> Nat], \A t \in Token : retry'[t] \in {0, retry[t]},
         \A t \in Token \cap S : retry'[t] = 0
  PROVE  IInv'
<1>1. Types /\ GoodPoll /\ RetryKept
  BY DEF IInv
<1>2. issued \in Nat /\ issued' \in Nat /\ issued' >= issued /\ now' \in Nat
  BY <1>1 DEF Types, QueueMoves
<1>3. Types'
  BY <1>1, <1>2 DEF Types, QueueMoves
<1>4. Memory' /\ LeaseOwned'
  BY <1>2, MemoryKept, LeaseKept
<1>5. GoodPoll'
  <2> SUFFICES ASSUME InHand PROVE GoodPoll'
    BY DEF GoodPoll, InHand
  <2>1. poll.token \in Token /\ poll.token \in Nat /\ poll.token <= issued /\ retry[poll.token] = 0
    BY <1>1 DEF GoodPoll, Token
  <2>2. poll.token <= issued' /\ retry'[poll.token] = 0
    BY <1>2, <2>1
  <2> QED BY <1>1, <2>1, <2>2 DEF GoodPoll, Executing, PollGoal
<1>6. RetryKept'
  BY <1>1, <1>2, RetryMoves
<1> QED BY <1>3, <1>4, <1>5, <1>6 DEF IInv

\* A step of the poll before it has a lease.
LEMMA PollMoves ==
  ASSUME IInv, NEW S, QueueMoves(S), UNCHANGED <<exec, activeGoals, fence, goalLease, retry, inherited>>,
         \A t \in Token \cap S : retry[t] = 0,
         poll.at # "leased", poll' \in PollStates, GoodPoll'
  PROVE  IInv'
<1>1. Types /\ RetryKept
  BY DEF IInv
<1>2. issued \in Nat /\ issued' \in Nat /\ issued' >= issued /\ now' \in Nat
  BY <1>1 DEF Types, QueueMoves
<1>3. Types'
  BY <1>1, <1>2 DEF Types, QueueMoves
<1>4. Memory' /\ LeaseOwned'
  BY <1>2, MemoryKept, LeaseKept
<1>5. \A t \in Token \cap S : retry'[t] = 0 /\ ~(retry'[t] > now')
  BY <1>2
<1>6. RetryKept'
  BY <1>1, <1>3, <1>5, RetryMoves DEF Types
<1> QED BY <1>3, <1>4, <1>6 DEF IInv

\* Time, the sweeper, activations, a shutdown, and the timer of a retry.
LEMMA OutsideKeeps ==
  ASSUME IInv,
         \/ Environment \/ Shutdown \/ UNCHANGED allVars
         \/ \E m \in MsgId : ActivateGoal(m)
         \/ \E g \in Goal : DeactivateGoal(g)
         \/ \E t \in Token : RetryDue(t)
  PROVE  IInv'
<1>1. Types
  BY DEF IInv
<1>2. UNCHANGED <<poll, exec, activeGoals, fence, goalLease, inherited>>
  BY DEF Environment, Shutdown, ActivateGoal, DeactivateGoal, RetryDue, supVars, memory, files, history, allVars
<1>3. CASE Environment
  <2>1. UNCHANGED retry /\ QueueMoves({})
    BY <1>1, <1>3, TickMoves, SweepMoves DEF Environment, supVars, memory
  <2> QED BY <1>1, <1>2, <2>1, QuietKeeps DEF Types
<1>5. ASSUME Shutdown \/ UNCHANGED allVars \/ \E g \in Goal : DeactivateGoal(g) PROVE IInv'
  <2>1. UNCHANGED vars /\ QueueMoves({})
    BY <1>1, <1>5, NothingMoves DEF Shutdown, DeactivateGoal, allVars
  <2>2. retry' \in [Token -> Nat] /\ \A t \in Token : retry'[t] \in {0, retry[t]}
    BY <1>1, <1>5 DEF Types, Shutdown, DeactivateGoal, allVars, supVars, memory
  <2> QED BY <1>2, <2>1, <2>2, QuietKeeps
<1>6. ASSUME NEW m \in MsgId, ActivateGoal(m) PROVE IInv'
  <2>1. UNCHANGED retry
    BY <1>6 DEF ActivateGoal
  <2>2. QueueMoves({})
    BY <1>1, <1>6, AcceptMoves, NothingMoves DEF ActivateGoal
  <2> QED BY <1>1, <1>2, <2>1, <2>2, QuietKeeps DEF Types
<1>7. ASSUME NEW t \in Token, RetryDue(t) PROVE IInv'
  <2>1. retry' = [retry EXCEPT ![t] = 0] /\ TryNack(t, TRUE)
    BY <1>7 DEF RetryDue
  <2>2. QueueMoves({t})
    BY <1>1, <2>1, TriedMoves
  <2>3. retry' \in [Token -> Nat] /\ retry'[t] = 0 /\ \A s \in Token : retry'[s] \in {0, retry[s]}
    BY <1>1, <2>1 DEF Types
  <2> QED BY <1>2, <2>2, <2>3, QuietKeeps
<1> QED BY <1>3, <1>5, <1>6, <1>7

-----------------------------------------------------------------------------
(* The steps of the poll *)

\* A poll that has nothing in hand.
LEMMA EmptyHanded ==
  ASSUME Types
  PROVE  /\ NoPoll \in PollStates
         /\ \A left \in SUBSET Worker : [NoPoll EXCEPT !.at = "next", !.left = left] \in PollStates
         /\ NextWorker => poll' \in PollStates /\ GoodPoll'
         /\ poll' = NoPoll => poll' \in PollStates /\ GoodPoll'
<1>1. /\ NoPoll \in PollStates
      /\ \A left \in SUBSET Worker : [NoPoll EXCEPT !.at = "next", !.left = left] \in PollStates
  BY DEF NoPoll, PollStates, PollSteps
<1>2. poll.left \in SUBSET Worker
  BY DEF Types, PollStates
<1>3. NextWorker => poll' \in PollStates /\ GoodPoll'
  <2>1. NextWorker => poll'.at = "next"
    BY DEF NextWorker, NoPoll
  <2> QED BY <1>1, <1>2, <2>1 DEF NextWorker, GoodPoll, InHand
<1>4. poll' = NoPoll => GoodPoll'
  BY DEF GoodPoll, InHand, NoPoll
<1> QED BY <1>1, <1>3, <1>4

\* The poll claims a dispatch: its token is new, and nobody has used it.
LEMMA PollClaimKeeps ==
  ASSUME IInv, NEW w \in Worker, PollClaim(w)
  PROVE  IInv'
<1>1. Types /\ Memory /\ RetryKept
  BY DEF IInv
<1>2. UNCHANGED <<exec, activeGoals, fence, goalLease, retry, inherited>>
  BY DEF PollClaim, Polled, files, history
<1>3. PICK m \in MsgId :
        /\ ClaimMessage(m, {"goal"}, ClaimLeaseMs)
        /\ poll' = [at |-> "decide", left |-> poll.left \ {w}, token |-> issued + 1, msg |-> m, worker |-> w]
  BY DEF PollClaim
<1>4. QueueMoves({}) /\ issued' = issued + 1 /\ issued' \in Token
  BY <1>1, <1>3, ClaimMoves
<1>5. issued \in Nat /\ issued' > issued
  BY <1>1, <1>4 DEF Types
<1>6. ~Executing(issued') /\ retry[issued'] = 0
  BY <1>1, <1>4, <1>5 DEF Memory, GoodExec, RetryKept
<1>7. poll' \in PollStates
  BY <1>1, <1>3, <1>4 DEF Types, PollStates, PollSteps
<1>8. GoodPoll'
  BY <1>2, <1>3, <1>4, <1>5, <1>6 DEF GoodPoll, InHand, Executing
<1>9. poll.at # "leased"
  BY DEF PollClaim
<1> QED BY <1>2, <1>4, <1>7, <1>8, <1>9, PollMoves

\* The other steps of a poll that has no lease: it begins, ends, or settles the
\* dispatch in hand, whose claim waits for no retry.
LEMMA PollSettles ==
  ASSUME IInv, \/ PollStart \/ PollEnds \/ Coalesce \/ CoalescedRunSettled
               \/ CoalescedRun("coalesced", "cancelling", "running")
               \/ CoalescedRun("cancelling", "cancelled", "cancelled")
               \/ SkipStopped \/ SkipSuspended \/ LeaseUnavailable
  PROVE  IInv'
<1>1. Types /\ GoodPoll
  BY DEF IInv
<1>2. UNCHANGED <<exec, activeGoals, fence, goalLease, retry, inherited>>
  BY DEF PollStart, PollEnds, Coalesce, CoalescedRun, CoalescedRunSettled, SkipStopped,
         SkipSuspended, LeaseUnavailable, Polled, files, history
<1>3. poll.at # "leased"
  BY DEF PollStart, PollEnds, Coalesce, CoalescedRun, CoalescedRunSettled, SkipStopped,
         SkipSuspended, LeaseUnavailable
<1>4. CASE PollStart
  <2>1. UNCHANGED vars /\ poll' = [NoPoll EXCEPT !.at = "next", !.left = {w \in Worker : status[w] = "idle"}]
    BY <1>4 DEF PollStart
  <2>2. QueueMoves({})
    BY <1>1, <2>1, NothingMoves
  <2>3. poll' \in PollStates
    BY <1>1, <2>1, EmptyHanded
  <2>4. GoodPoll'
    BY <2>1 DEF GoodPoll, InHand, NoPoll
  <2> QED BY <1>2, <1>3, <2>2, <2>3, <2>4, PollMoves
<1>5. CASE PollEnds
  <2>1. poll' = NoPoll /\ (UNCHANGED vars \/ ClaimNothing({"goal"}))
    BY <1>5 DEF PollEnds
  <2>2. QueueMoves({})
    BY <1>1, <2>1, NothingMoves, ClaimNothingMoves
  <2> QED BY <1>1, <1>2, <1>3, <2>1, <2>2, EmptyHanded, PollMoves
<1>6. ASSUME NextWorker, InHand, TryAck(poll.token) \/ \E requeue \in BOOLEAN : TryNack(poll.token, requeue)
      PROVE  IInv'
  <2>1. poll.token \in Token /\ retry[poll.token] = 0
    BY <1>1, <1>6 DEF GoodPoll
  <2>2. QueueMoves({poll.token})
    BY <1>1, <1>6, <2>1, TriedMoves
  <2> QED BY <1>1, <1>2, <1>3, <1>6, <2>1, <2>2, EmptyHanded, PollMoves
<1>7. ASSUME InHand, UNCHANGED vars,
             NEW here \in {"coalesced", "cancelling", "cancelled"}, poll' = [poll EXCEPT !.at = here]
      PROVE  IInv'
  <2>1. QueueMoves({})
    BY <1>1, <1>7, NothingMoves
  <2>2. poll' \in PollStates
    BY <1>1, <1>7 DEF Types, PollStates, PollSteps
  <2>3. /\ poll'.at = here /\ poll'.token = poll.token /\ poll'.msg = poll.msg
        /\ poll'.worker = poll.worker
    BY <1>1, <1>7 DEF Types, PollStates
  <2>4. GoodPoll'
    BY <1>1, <1>2, <1>7, <2>3 DEF GoodPoll, Executing, vars, queueVars
  <2> QED BY <1>2, <1>3, <2>1, <2>2, <2>4, PollMoves
<1>8. CASE Coalesce
  <2>1. CASE NextWorker /\ TryAck(poll.token)
    BY <1>6, <1>8, <2>1 DEF Coalesce, InHand
  <2>2. CASE poll' = [poll EXCEPT !.at = "coalesced"] /\ UNCHANGED vars
    BY <1>8, <1>7, <2>2 DEF Coalesce, InHand
  <2> QED BY <1>8, <2>1, <2>2 DEF Coalesce
<1>9. CASE CoalescedRunSettled \/ SkipStopped \/ SkipSuspended \/ LeaseUnavailable
  BY <1>6, <1>9 DEF CoalescedRunSettled, SkipStopped, SkipSuspended, LeaseUnavailable, InHand
<1>10. CASE \/ CoalescedRun("coalesced", "cancelling", "running")
            \/ CoalescedRun("cancelling", "cancelled", "cancelled")
  BY <1>7, <1>10 DEF CoalescedRun, InHand
<1> QED BY <1>4, <1>5, <1>8, <1>9, <1>10

\* The goal lease is asked for, when the goal is not active.
LEMMA AcquireKeeps ==
  ASSUME IInv, AcquireLease
  PROVE  IInv'
<1>1. Types /\ GoodPoll /\ RetryKept /\ LeaseOwned
  BY DEF IInv
<1>2. /\ UNCHANGED <<exec, activeGoals, fence, retry, inherited>> /\ UNCHANGED vars
      /\ poll.at = "decide" /\ ~IsActive(PollGoal)
      /\ poll'.at \in {"refused", "leased"} /\ poll' = [poll EXCEPT !.at = poll'.at]
      /\ \/ UNCHANGED goalLease
         \/ /\ poll'.at = "leased"
            /\ goalLease' = [goalLease EXCEPT ![PollGoal] = [owner |-> poll.token, until |-> now + ClaimLeaseMs]]
  BY <1>1 DEF AcquireLease, Types, PollStates, history
<1>3. /\ poll.token \in Token /\ poll.token <= issued /\ poll.msg \in MsgId
      /\ PollGoal \in Goal /\ ClaimLeaseMs \in Nat
  BY <1>1, <1>2, SupervisorAssumption, LeaseAssumption DEF GoodPoll, InHand, PollGoal, GoalOf
<1>4. /\ poll'.token = poll.token /\ poll'.msg = poll.msg /\ poll'.worker = poll.worker
      /\ poll' \in PollStates
  BY <1>1, <1>2 DEF Types, PollStates, PollSteps
<1>5. Types'
  <2>1. goalLease' \in [Goal -> Leases]
    BY <1>1, <1>2, <1>3 DEF Types, Leases
  <2> QED BY <1>1, <1>2, <1>4, <2>1 DEF Types, vars, queueVars
<1>6. GoodPoll'
  BY <1>1, <1>2, <1>4 DEF GoodPoll, InHand, Executing, IsActive, PollGoal, vars, queueVars
<1>7. Memory'
  <2>1. issued' = issued /\ issued \in Nat
    BY <1>1, <1>2 DEF Types, vars, queueVars
  <2> QED BY <1>2, <2>1, MemoryKept
<1>8. LeaseOwned'
  <2> SUFFICES ASSUME NEW g \in Goal
               PROVE  /\ goalLease'[g].owner <= issued
                      /\ goalLease'[g].owner > inherited =>
                           \/ Executing(goalLease'[g].owner) /\ ExecGoal(goalLease'[g].owner) = g
                           \/ poll'.at = "leased" /\ poll'.token = goalLease'[g].owner /\ PollGoal = g
    BY <1>2, <1>4 DEF LeaseOwned, Executing, ExecGoal, PollGoal, vars, queueVars
  <2>1. CASE goalLease'[g] = goalLease[g]
    BY <1>1, <1>2, <2>1 DEF LeaseOwned
  <2>2. CASE goalLease'[g] # goalLease[g]
    BY <1>1, <1>2, <1>3, <1>4, <2>2 DEF Types
  <2> QED BY <2>1, <2>2
<1>9. RetryKept'
  BY <1>1, <1>2 DEF RetryKept, Waits, Current, vars, queueVars
<1> QED BY <1>5, <1>6, <1>7, <1>8, <1>9 DEF IInv

\* A shutdown was seen: claim and lease are given back.
LEMMA StopKeeps ==
  ASSUME IInv, StopSeen
  PROVE  IInv'
<1>1. Types /\ GoodPoll /\ RetryKept /\ LeaseOwned
  BY DEF IInv
<1>2. /\ UNCHANGED <<exec, activeGoals, fence, retry, inherited>> /\ TryNack(poll.token, TRUE)
      /\ poll.at = "leased" /\ poll' = NoPoll
      /\ goalLease' = Released(PollGoal, poll.token)
  BY DEF StopSeen, history
<1>3. /\ poll.token \in Token /\ PollGoal \in Goal /\ retry[poll.token] = 0
  BY <1>1, <1>2, SupervisorAssumption DEF GoodPoll, InHand, PollGoal, GoalOf
<1>4. QueueMoves({poll.token}) /\ issued' = issued
  BY <1>1, <1>2, <1>3, TriedMoves
<1>5. Types'
  <2>1. goalLease' \in [Goal -> Leases]
    BY <1>1, <1>2, <1>3 DEF Types, Leases, Released, NoLease
  <2> QED BY <1>1, <1>2, <1>4, <2>1, EmptyHanded DEF Types, QueueMoves
<1>6. GoodPoll'
  BY <1>1, <1>2, EmptyHanded
<1>7. Memory'
  BY <1>1, <1>2, <1>4, MemoryKept DEF Types
<1>8. LeaseOwned'
  <2> SUFFICES ASSUME NEW g \in Goal
               PROVE  /\ goalLease'[g].owner <= issued
                      /\ goalLease'[g].owner > inherited =>
                           Executing(goalLease'[g].owner) /\ ExecGoal(goalLease'[g].owner) = g
    BY <1>2, <1>4 DEF LeaseOwned, Executing, ExecGoal
  <2>1. CASE g = PollGoal /\ goalLease[g].owner = poll.token
    <3>1. goalLease'[g].owner = 0 /\ issued >= 0 /\ inherited >= 0
      BY <1>1, <1>2, <2>1 DEF Released, Types, NoLease, NoToken
    <3> QED BY <1>1, <3>1 DEF Types
  <2>2. CASE ~(g = PollGoal /\ goalLease[g].owner = poll.token)
    <3>1. goalLease'[g] = goalLease[g]
      BY <1>1, <1>2, <2>2 DEF Released, Types
    <3> QED BY <1>1, <2>2, <3>1 DEF LeaseOwned
  <2> QED BY <2>1, <2>2
<1>9. RetryKept'
  <2>1. retry'[poll.token] = 0 /\ now' \in Nat
    BY <1>2, <1>3, <1>4 DEF QueueMoves
  <2> QED BY <1>1, <1>2, <1>4, <2>1, RetryMoves DEF Types
<1> QED BY <1>5, <1>6, <1>7, <1>8, <1>9 DEF IInv

-----------------------------------------------------------------------------
(* Executions *)

\* The dispatch in hand becomes the execution of its goal, which has no other:
\* it was not active.
LEMMA StartKeeps ==
  ASSUME IInv, Start
  PROVE  IInv'
<1> DEFINE t == poll.token
           g == PollGoal
<1>1. Types /\ GoodPoll /\ RetryKept /\ LeaseOwned /\ GoodExec /\ OnePerGoal /\ FenceFollows
  BY DEF IInv, Memory
<1>2. /\ poll.at = "leased" /\ NextWorker /\ UNCHANGED vars
      /\ UNCHANGED <<retry, goalLease, inherited>>
      /\ activeGoals' = [activeGoals EXCEPT ![g] = poll.worker]
      /\ fence' = [fence EXCEPT ![g] = t]
  BY DEF Start, PollGoal, InstallWriteFence, history
<1>3. /\ t \in Token /\ t <= issued /\ poll.msg \in MsgId /\ poll.worker \in Worker /\ g \in Goal
      /\ ~Executing(t) /\ retry[t] = 0 /\ activeGoals[g] = NoWorker
  BY <1>1, <1>2, SupervisorAssumption DEF GoodPoll, InHand, PollGoal, GoalOf
<1>4. PICK e \in ExecStates : /\ exec' = [exec EXCEPT ![t] = e]
                              /\ e.at \in Fenced /\ e.msg = poll.msg /\ e.worker = poll.worker
  <2>1. CASE HasRun(poll.msg)
    <3> DEFINE r == [at |-> "marking", msg |-> poll.msg, worker |-> poll.worker, lost |-> FALSE]
    <3>1. exec' = [exec EXCEPT ![t] = r]
      BY <2>1 DEF Start
    <3>2. r \in ExecStates
      BY <1>3 DEF ExecStates, Fenced
    <3> QED BY <3>1, <3>2 DEF Fenced
  <2>2. CASE ~HasRun(poll.msg)
    <3> DEFINE r == [at |-> "run", msg |-> poll.msg, worker |-> poll.worker, lost |-> exec[t].lost]
    <3>1. exec' = [exec EXCEPT ![t] = r]
      BY <2>2 DEF Start, Enters
    <3>2. r \in ExecStates
      BY <1>1, <1>3 DEF Types, ExecStates, Fenced
    <3> QED BY <3>1, <3>2 DEF Fenced
  <2> QED BY <2>1, <2>2
<1>5. exec'[t] = e /\ \A s \in Token \ {t} : exec'[s] = exec[s]
  BY <1>1, <1>3, <1>4 DEF Types
<1>6. activeGoals'[g] = poll.worker /\ \A h \in Goal \ {g} : activeGoals'[h] = activeGoals[h]
  BY <1>1, <1>2, <1>3 DEF Types
<1>7. fence'[g] = t /\ \A h \in Goal \ {g} : fence'[h] = fence[h]
  BY <1>1, <1>2, <1>3 DEF Types
<1>8. \A s \in Token : Executing(s) => s # t /\ ExecGoal(s) \in Goal \ {g}
  BY <1>1, <1>3, SupervisorAssumption DEF GoodExec, ExecGoal, GoalOf
<1>9. UNCHANGED <<issued, now, records, inflight>> /\ t \in Nat /\ t # NoToken
  BY <1>2, <1>3 DEF vars, queueVars, Token, NoToken
<1>10. Types'
  <2>1. exec' \in [Token -> ExecStates] /\ activeGoals' \in [Goal -> Worker \cup {NoWorker}]
        /\ fence' \in [Goal -> Token \cup {NoToken}]
    BY <1>1, <1>2, <1>3, <1>4 DEF Types
  <2> QED BY <1>1, <1>2, <1>9, <2>1, EmptyHanded DEF Types
<1>11. GoodPoll'
  BY <1>1, <1>2, EmptyHanded
<1>12. GoodExec'
  <2> SUFFICES ASSUME NEW s \in Token, exec'[s].at # "none"
               PROVE  /\ s <= issued /\ exec'[s].msg \in MsgId /\ exec'[s].worker \in Worker
                      /\ activeGoals'[GoalOf(exec'[s].msg)] = exec'[s].worker
                      /\ exec'[s].at \in Fenced => retry[s] = 0
    BY <1>2, <1>9 DEF GoodExec, Executing, ExecGoal
  <2>1. CASE s = t
    BY <1>3, <1>4, <1>5, <1>6, <2>1 DEF PollGoal
  <2>2. CASE s # t
    BY <1>1, <1>5, <1>6, <1>8, <2>2 DEF GoodExec, Executing, ExecGoal
  <2> QED BY <2>1, <2>2
<1>13. OnePerGoal'
  <2> SUFFICES ASSUME NEW r \in Token, NEW s \in Token, r # s, exec'[r].at # "none", exec'[s].at # "none"
               PROVE  GoalOf(exec'[r].msg) # GoalOf(exec'[s].msg)
    BY DEF OnePerGoal, Executing, ExecGoal
  <2>1. CASE r = t
    BY <1>4, <1>5, <1>8, <2>1 DEF Executing, ExecGoal, PollGoal
  <2>2. CASE s = t
    BY <1>4, <1>5, <1>8, <2>2 DEF Executing, ExecGoal, PollGoal
  <2>3. CASE r # t /\ s # t
    BY <1>1, <1>5, <2>3 DEF OnePerGoal, Executing, ExecGoal
  <2> QED BY <2>1, <2>2, <2>3
<1>14. FenceFollows'
  <2>1. ASSUME NEW s \in Token, exec'[s].at \in Fenced PROVE fence'[GoalOf(exec'[s].msg)] = s
    <3>1. CASE s = t
      BY <1>4, <1>5, <1>7, <3>1 DEF PollGoal
    <3>2. CASE s # t
      <4>1. Executing(s) /\ exec'[s] = exec[s]
        BY <1>5, <2>1, <3>2 DEF Fenced, Executing
      <4> QED BY <1>1, <1>7, <1>8, <2>1, <4>1 DEF FenceFollows, ExecGoal
    <3> QED BY <3>1, <3>2
  <2>2. ASSUME NEW h \in Goal, fence'[h] # NoToken
        PROVE  exec'[fence'[h]].at \in Fenced /\ GoalOf(exec'[fence'[h]].msg) = h
    <3>1. CASE h = g
      BY <1>4, <1>5, <1>7, <3>1 DEF PollGoal
    <3>2. CASE h # g
      <4>1. fence'[h] = fence[h] /\ fence[h] \in Token
        BY <1>1, <1>7, <2>2, <3>2 DEF Types
      <4>2. exec[fence[h]].at \in Fenced /\ ExecGoal(fence[h]) = h
        BY <1>1, <2>2, <4>1 DEF FenceFollows
      <4>3. fence[h] # t
        BY <1>3, <4>2 DEF Executing, Fenced
      <4> QED BY <1>5, <4>1, <4>2, <4>3 DEF ExecGoal
    <3> QED BY <3>1, <3>2
  <2> QED BY <2>1, <2>2 DEF FenceFollows, ExecGoal
<1>15. LeaseOwned'
  <2> SUFFICES ASSUME NEW h \in Goal, goalLease[h].owner > inherited
               PROVE  exec'[goalLease[h].owner].at # "none" /\ GoalOf(exec'[goalLease[h].owner].msg) = h
    BY <1>1, <1>2, <1>9 DEF LeaseOwned, Executing, ExecGoal
  <2>1. goalLease[h].owner \in Token
    <3>1. goalLease[h].owner \in Token \cup {NoToken} /\ inherited \in Nat
      BY <1>1 DEF Types, Leases
    <3> QED BY <3>1 DEF NoToken
  <2>2. CASE goalLease[h].owner = t
    BY <1>1, <1>3, <1>4, <1>5, <2>2 DEF LeaseOwned, Fenced, PollGoal
  <2>3. CASE goalLease[h].owner # t
    BY <1>1, <1>5, <2>1, <2>3 DEF LeaseOwned, Executing, ExecGoal
  <2> QED BY <2>2, <2>3
<1>16. RetryKept'
  BY <1>1, <1>2, <1>9 DEF RetryKept, Waits, Current
<1> QED BY <1>10, <1>11, <1>12, <1>13, <1>14, <1>15, <1>16 DEF IInv, Memory

\* A step of a fenced execution that keeps its goal and its worker; when it
\* leaves, its fence is cleared.  Only its own claim is settled or renewed, and
\* only its own retry set.
LEMMA ExecMoves ==
  ASSUME IInv, NEW t \in Token, exec[t].at \in Fenced,
         NEW e \in ExecStates, e.at # "none", e.msg = exec[t].msg, e.worker = exec[t].worker,
         exec' = [exec EXCEPT ![t] = e],
         QueueMoves({t}), issued' = issued, UNCHANGED <<poll, activeGoals, inherited>>,
         e.at \in Fenced => UNCHANGED fence /\ retry'[t] = 0,
         e.at \notin Fenced => fence' = [fence EXCEPT ![ExecGoal(t)] = NoToken],
         goalLease' \in [Goal -> Leases], \A g \in Goal : goalLease'[g].owner = goalLease[g].owner,
         retry' \in [Token -> Nat], \A s \in Token \ {t} : retry'[s] = retry[s],
         retry'[t] > now' => Waits(t)'
  PROVE  IInv'
<1> DEFINE g == ExecGoal(t)
<1>1. Types /\ GoodPoll /\ RetryKept /\ LeaseOwned /\ GoodExec /\ OnePerGoal /\ FenceFollows
  BY DEF IInv, Memory
<1>2. Executing(t) /\ exec[t].msg \in MsgId /\ exec[t].worker \in Worker /\ g \in Goal /\ t <= issued
  BY <1>1, SupervisorAssumption DEF GoodExec, Executing, Fenced, ExecGoal, GoalOf
<1>3. exec'[t] = e /\ \A s \in Token \ {t} : exec'[s] = exec[s]
  BY <1>1 DEF Types
<1>4. \A s \in Token : exec'[s].msg = exec[s].msg /\ exec'[s].worker = exec[s].worker
                      /\ (exec'[s].at # "none" <=> exec[s].at # "none")
  BY <1>2, <1>3 DEF Executing
<1>5. Types'
  <2>1. exec' \in [Token -> ExecStates] /\ fence' \in [Goal -> Token \cup {NoToken}]
    BY <1>1, <1>2 DEF Types
  <2> QED BY <1>1, <2>1 DEF Types, QueueMoves
<1>6. GoodPoll'
  <2> SUFFICES ASSUME InHand PROVE GoodPoll'
    BY DEF GoodPoll, InHand
  <2>1. poll.token \in Token \ {t}
    BY <1>1, <1>2 DEF GoodPoll
  <2> QED BY <1>1, <1>4, <2>1 DEF GoodPoll, Executing, PollGoal
<1>7. GoodExec'
  <2> SUFFICES ASSUME NEW s \in Token, exec[s].at # "none"
               PROVE  /\ s <= issued /\ exec[s].msg \in MsgId /\ exec[s].worker \in Worker
                      /\ activeGoals[GoalOf(exec[s].msg)] = exec[s].worker
                      /\ exec'[s].at \in Fenced => retry'[s] = 0
    BY <1>4 DEF GoodExec, Executing, ExecGoal
  <2>1. exec'[s].at \in Fenced => retry'[s] = 0
    BY <1>1, <1>3 DEF GoodExec, Executing
  <2> QED BY <1>1, <2>1 DEF GoodExec, Executing, ExecGoal
<1>8. OnePerGoal'
  BY <1>1, <1>4 DEF OnePerGoal, Executing, ExecGoal
<1>9. FenceFollows'
  <2>1. CASE e.at \in Fenced
    <3>1. \A s \in Token : exec'[s].at \in Fenced <=> exec[s].at \in Fenced
      BY <1>3, <2>1
    <3>2. \A h \in Goal : fence[h] # NoToken => fence[h] \in Token
      BY <1>1 DEF Types
    <3> QED BY <1>1, <1>4, <2>1, <3>1, <3>2 DEF FenceFollows, ExecGoal
  <2>2. CASE e.at \notin Fenced
    <3>1. fence'[g] = NoToken /\ \A h \in Goal \ {g} : fence'[h] = fence[h]
      BY <1>1, <1>2, <2>2 DEF Types
    <3>2. ASSUME NEW s \in Token, exec'[s].at \in Fenced PROVE fence'[GoalOf(exec'[s].msg)] = s
      <4>1. s # t /\ exec'[s] = exec[s] /\ Executing(s)
        BY <1>3, <2>2, <3>2 DEF Fenced, Executing
      <4>2. ExecGoal(s) \in Goal \ {g}
        BY <1>1, <1>2, <4>1, SupervisorAssumption DEF OnePerGoal, GoodExec, ExecGoal, GoalOf
      <4> QED BY <1>1, <3>1, <3>2, <4>1, <4>2 DEF FenceFollows, ExecGoal
    <3>3. ASSUME NEW h \in Goal, fence'[h] # NoToken
          PROVE  exec'[fence'[h]].at \in Fenced /\ GoalOf(exec'[fence'[h]].msg) = h
      <4>1. h # g /\ fence'[h] = fence[h] /\ fence[h] \in Token
        BY <1>1, <3>1, <3>3 DEF Types
      <4>2. exec[fence[h]].at \in Fenced /\ ExecGoal(fence[h]) = h /\ fence[h] # t
        BY <1>1, <3>3, <4>1 DEF FenceFollows
      <4> QED BY <1>3, <4>1, <4>2 DEF ExecGoal
    <3> QED BY <3>2, <3>3 DEF FenceFollows, ExecGoal
  <2> QED BY <2>1, <2>2
<1>10. LeaseOwned'
  <2> SUFFICES ASSUME NEW h \in Goal
               PROVE  /\ goalLease'[h].owner <= issued
                      /\ goalLease'[h].owner > inherited =>
                           \/ exec'[goalLease'[h].owner].at # "none" /\ GoalOf(exec'[goalLease'[h].owner].msg) = h
                           \/ poll.at = "leased" /\ poll.token = goalLease'[h].owner /\ PollGoal = h
    BY DEF LeaseOwned, Executing, ExecGoal, PollGoal
  <2>1. goalLease'[h].owner = goalLease[h].owner /\ goalLease[h].owner <= issued
    BY <1>1 DEF LeaseOwned
  <2>2. goalLease[h].owner > inherited => goalLease[h].owner \in Token
    BY <1>1 DEF Types, Leases, NoToken
  <2> QED BY <1>1, <1>4, <2>1, <2>2 DEF LeaseOwned, Executing, ExecGoal
<1>11. RetryKept'
  <2>1. t > issued' => retry'[t] = 0
    BY <1>1, <1>2 DEF Types, Token
  <2> QED BY <1>1, <2>1, RetryMoves
<1> QED BY <1>5, <1>6, <1>7, <1>8, <1>9, <1>10, <1>11 DEF IInv, Memory

\* A run begins or ends: its claim is not touched, and it stays fenced.
LEMMA RunKeeps ==
  ASSUME IInv, NEW t \in Token,
         RunStartMarked(t) \/ RunAgain(t) \/ RunSucceeds(t) \/ RunEndMarked(t)
  PROVE  IInv'
<1>1. Types /\ exec[t] \in ExecStates /\ retry[t] \in Nat
  BY DEF IInv, Types
<1>2. UNCHANGED <<poll, activeGoals, fence, goalLease, retry, inherited>> /\ UNCHANGED vars
  BY DEF RunStartMarked, RunAgain, RunSucceeds, RunEndMarked, history
<1>3. exec[t].at \in {"marking", "run", "completing", "suspending"}
  BY DEF RunStartMarked, RunAgain, RunSucceeds, RunEndMarked, ExecAt
<1>4. PICK here \in {"run", "completing", "acking", "nacking"} : exec' = [exec EXCEPT ![t] = [exec[t] EXCEPT !.at = here]]
  <2>1. CASE RunSucceeds(t)
    BY <1>1, <2>1 DEF RunSucceeds, Types
  <2>2. CASE RunEndMarked(t)
    BY <1>1, <2>2 DEF RunEndMarked, Types
  <2>3. CASE RunStartMarked(t) \/ RunAgain(t)
    <3>1. [exec[t] EXCEPT !.at = "run"] =
            [at |-> "run", msg |-> exec[t].msg, worker |-> exec[t].worker, lost |-> exec[t].lost]
      BY <1>1 DEF ExecStates
    <3> QED BY <2>3, <3>1 DEF RunStartMarked, RunAgain, Enters
  <2> QED BY <2>1, <2>2, <2>3
<1> DEFINE e == [exec[t] EXCEPT !.at = here]
<1>5. e \in ExecStates /\ e.at = here /\ e.msg = exec[t].msg /\ e.worker = exec[t].worker
  BY <1>1 DEF ExecStates, Fenced
<1>6. retry'[t] = 0
  BY <1>2, <1>3 DEF IInv, Memory, GoodExec, Executing, Fenced
<1>7. QueueMoves({t}) /\ issued' = issued /\ now' \in Nat
  BY <1>1, <1>2, NothingMoves DEF Types, vars, queueVars
<1>8. goalLease' \in [Goal -> Leases] /\ retry' \in [Token -> Nat]
  BY <1>1, <1>2 DEF Types
<1>9. e.at \in Fenced /\ exec[t].at \in Fenced /\ e.at # "none" /\ ~(retry'[t] > now')
  BY <1>3, <1>5, <1>6, <1>7 DEF Fenced
<1> HIDE DEF e
<1> QED BY <1>2, <1>4, <1>5, <1>6, <1>7, <1>8, <1>9, ExecMoves DEF e

\* The claim is settled, and the execution leaves.
LEMMA SettleKeeps ==
  ASSUME IInv, NEW t \in Token, Complete(t) \/ Suspend(t)
  PROVE  IInv'
<1>1. Types /\ exec[t] \in ExecStates /\ retry[t] \in Nat
  BY DEF IInv, Types
<1>2. /\ UNCHANGED <<poll, activeGoals, goalLease, retry, inherited>>
      /\ UNCHANGED vars \/ TryAck(t) \/ TryNack(t, FALSE)
      /\ exec[t].at \in {"completing", "acking", "suspending", "nacking"} /\ Leaves(t)
  BY DEF Complete, Suspend, Marked, ExecAt, files, history
<1> DEFINE e == [exec[t] EXCEPT !.at = "release"]
<1>3. exec' = [exec EXCEPT ![t] = e] /\ fence' = [fence EXCEPT ![ExecGoal(t)] = NoToken]
  BY <1>1, <1>2 DEF Leaves, ClearWriteFence, Types
<1>4. /\ e \in ExecStates /\ e.msg = exec[t].msg /\ e.worker = exec[t].worker
      /\ e.at \notin Fenced /\ e.at # "none" /\ exec[t].at \in Fenced
  BY <1>1, <1>2 DEF ExecStates, Fenced
<1>5. QueueMoves({t}) /\ issued' = issued
  <2>1. UNCHANGED vars => issued' = issued
    BY DEF vars, queueVars
  <2> QED BY <1>1, <1>2, <2>1, NothingMoves, TriedMoves
<1>6. retry'[t] = 0 /\ ~(retry'[t] > now')
  BY <1>2, <1>5 DEF IInv, Memory, GoodExec, Executing, Fenced, QueueMoves
<1>7. goalLease' \in [Goal -> Leases] /\ retry' \in [Token -> Nat]
  BY <1>1, <1>2 DEF Types
<1> HIDE DEF e
<1> QED BY <1>2, <1>3, <1>4, <1>5, <1>6, <1>7, ExecMoves

\* A failed run: the last one waits to be dead-lettered, another leaves, and
\* keeps its claim for longer than its retry waits.
LEMMA FailKeeps ==
  ASSUME IInv, NEW t \in Token, NEW o, RunFails(t, o)
  PROVE  IInv'
<1>1. Types /\ exec[t] \in ExecStates /\ retry[t] \in Nat
  BY DEF IInv, Types
<1>2. UNCHANGED <<poll, activeGoals, goalLease, inherited>> /\ exec[t].at = "run"
  BY DEF RunFails, ExecAt
<1>3. goalLease' \in [Goal -> Leases] /\ retry[t] = 0 /\ exec[t].at \in Fenced
  BY <1>1, <1>2 DEF Types, IInv, Memory, GoodExec, Executing, Fenced
<1>4. UNCHANGED vars => QueueMoves({t}) /\ issued' = issued /\ now' \in Nat
  BY <1>1, NothingMoves DEF vars, queueVars, Types
<1>5. CASE UNCHANGED <<vars, fence, retry>> /\ exec' = [exec EXCEPT ![t].at = "suspending"]
  <2> DEFINE e == [exec[t] EXCEPT !.at = "suspending"]
  <2>1. e \in ExecStates /\ e.msg = exec[t].msg /\ e.worker = exec[t].worker /\ e.at = "suspending"
    BY <1>1 DEF ExecStates, Fenced
  <2>2. exec' = [exec EXCEPT ![t] = e]
    BY <1>1, <1>5 DEF Types
  <2>3. e.at \in Fenced /\ e.at # "none" /\ retry'[t] = 0 /\ ~(retry'[t] > now')
        /\ retry' \in [Token -> Nat]
    BY <1>1, <1>3, <1>4, <1>5, <2>1 DEF Fenced, Types
  <2> HIDE DEF e
  <2> QED BY <1>2, <1>3, <1>4, <1>5, <2>1, <2>2, <2>3, ExecMoves
<1>6. CASE Leaves(t) /\ DeferRetry(t)
  <2> DEFINE e == [exec[t] EXCEPT !.at = "release"]
  <2>1. /\ e \in ExecStates /\ e.msg = exec[t].msg /\ e.worker = exec[t].worker
        /\ e.at \notin Fenced /\ e.at # "none"
    BY <1>1 DEF ExecStates, Fenced
  <2>2. exec' = [exec EXCEPT ![t] = e] /\ fence' = [fence EXCEPT ![ExecGoal(t)] = NoToken]
    BY <1>1, <1>6 DEF Leaves, ClearWriteFence, Types
  <2>3. CASE UNCHANGED <<vars, retry>>
    <3>1. retry'[t] = 0 /\ ~(retry'[t] > now') /\ retry' \in [Token -> Nat]
      BY <1>1, <1>3, <1>4, <2>3 DEF Types
    <3> HIDE DEF e
    <3> QED BY <1>2, <1>3, <1>4, <2>1, <2>2, <2>3, <3>1, ExecMoves
  <2>4. CASE Renew(t, BackoffMs + 1) /\ retry' = [retry EXCEPT ![t] = now + BackoffMs]
    <3>1. QueueMoves({t}) /\ issued' = issued /\ now' = now /\ now \in Nat
      BY <1>1, <2>4, HolderMoves DEF Types
    <3>2. BackoffMs \in Nat
      BY SupervisorAssumption
    <3>3. /\ retry' \in [Token -> Nat] /\ retry'[t] = now + BackoffMs
          /\ \A s \in Token \ {t} : retry'[s] = retry[s]
      BY <1>1, <2>4, <3>1, <3>2 DEF Types
    <3>4. Waits(t)'
      <4> DEFINE m == inflight[t].messageId
                 until == now + (BackoffMs + 1)
      <4>1. /\ m \in MsgId
            /\ records' = [records EXCEPT ![m] = ClaimedBy(t, records[m].attempt, until)]
            /\ inflight' = [inflight EXCEPT ![t] =
                              [messageId |-> m, leaseUntil |-> until, attempt |-> inflight[t].attempt]]
        BY <2>4 DEF Renew, Holds, Current
      <4>2. inflight'[t].messageId = m /\ inflight'[t].leaseUntil = until
        BY <1>1, <4>1 DEF Types
      <4>3. records'[m] = ClaimedBy(t, records[m].attempt, until)
        BY <1>1, <4>1 DEF Types
      <4>4. until \in Nat /\ until > retry'[t]
        BY <3>1, <3>2, <3>3
      <4> HIDE DEF until
      <4> QED BY <4>1, <4>2, <4>3, <4>4 DEF Waits, Current, ClaimedBy
    <3> HIDE DEF e
    <3> QED BY <1>2, <1>3, <2>1, <2>2, <3>1, <3>3, <3>4, ExecMoves
  <2> QED BY <1>6, <2>3, <2>4 DEF DeferRetry
<1> QED BY <1>5, <1>6 DEF RunFails

\* A round of the renewal: of the claim, of the goal lease, of both or neither.
LEMMA RenewOwnershipKeeps ==
  ASSUME IInv, NEW t \in Token, RenewOwnership(t)
  PROVE  IInv'
<1> DEFINE g == ExecGoal(t)
<1>1. Types /\ exec[t] \in ExecStates /\ retry[t] \in Nat
  BY DEF IInv, Types
<1>2. UNCHANGED <<poll, activeGoals, fence, retry, inherited>> /\ exec[t].at \in Fenced
  BY DEF RenewOwnership, history
<1>3. PICK l \in BOOLEAN : exec' = [exec EXCEPT ![t].lost = l]
  BY DEF RenewOwnership
<1> DEFINE e == [exec[t] EXCEPT !.lost = l]
<1>4. e \in ExecStates /\ e.msg = exec[t].msg /\ e.worker = exec[t].worker /\ e.at = exec[t].at
      /\ exec' = [exec EXCEPT ![t] = e]
  BY <1>1, <1>3 DEF ExecStates, Types
<1>5. QueueMoves({t}) /\ issued' = issued /\ now' = now /\ now \in Nat
  <2>1. UNCHANGED vars \/ Renew(t, ClaimLeaseMs)
    BY DEF RenewOwnership
  <2> QED BY <1>1, <2>1, NothingMoves, HolderMoves DEF vars, queueVars, Types
<1>6. goalLease' \in [Goal -> Leases] /\ \A h \in Goal : goalLease'[h].owner = goalLease[h].owner
  <2>1. CASE goalLease' = goalLease
    BY <1>1, <2>1 DEF Types
  <2>2. CASE goalLease' = [goalLease EXCEPT ![g].until = now + ClaimLeaseMs]
    <3>1. now + ClaimLeaseMs \in Nat
      BY <1>5, SupervisorAssumption, LeaseAssumption
    <3> QED BY <1>1, <2>2, <3>1 DEF Types, Leases
  <2> QED BY <2>1, <2>2 DEF RenewOwnership
<1>7. retry'[t] = 0 /\ ~(retry'[t] > now') /\ retry' \in [Token -> Nat]
  BY <1>1, <1>2, <1>5 DEF Types, IInv, Memory, GoodExec, Executing, Fenced
<1>8. e.at \in Fenced /\ e.at # "none"
  BY <1>2, <1>4 DEF Fenced
<1> HIDE DEF e
<1> QED BY <1>2, <1>4, <1>5, <1>6, <1>7, <1>8, ExecMoves

\* The execution ends: its goal is free again, and its lease is given back.
LEMMA FinishKeeps ==
  ASSUME IInv, NEW t \in Token, Finish(t)
  PROVE  IInv'
<1> DEFINE g == ExecGoal(t)
<1>1. Types /\ GoodPoll /\ RetryKept /\ LeaseOwned /\ GoodExec /\ OnePerGoal /\ FenceFollows
  BY DEF IInv, Memory
<1>2. /\ exec[t].at = "release" /\ UNCHANGED vars /\ UNCHANGED <<poll, fence, retry, inherited>>
      /\ goalLease' = Released(g, t)
      /\ activeGoals' = [activeGoals EXCEPT ![g] = NoWorker]
      /\ exec' = [exec EXCEPT ![t] = NoExec]
  BY DEF Finish, ExecAt, history
<1>3. /\ Executing(t) /\ g \in Goal /\ t <= issued
  BY <1>1, <1>2, SupervisorAssumption DEF GoodExec, Executing, ExecGoal, GoalOf
<1>4. exec'[t].at = "none" /\ \A s \in Token \ {t} : exec'[s] = exec[s]
  BY <1>1, <1>2 DEF Types, NoExec
<1>5. activeGoals'[g] = NoWorker /\ \A h \in Goal \ {g} : activeGoals'[h] = activeGoals[h]
  BY <1>1, <1>2, <1>3 DEF Types
<1>6. UNCHANGED <<issued, now, records, inflight>>
  BY <1>2 DEF vars, queueVars
<1>7. \A s \in Token \ {t} : Executing(s) => ExecGoal(s) \in Goal \ {g}
  BY <1>1, <1>3, SupervisorAssumption DEF OnePerGoal, GoodExec, ExecGoal, GoalOf
<1>8. Types'
  <2>1. NoExec \in ExecStates /\ NoLease \in Leases
    BY DEF NoExec, NoLease, ExecStates, Leases
  <2>2. /\ exec' \in [Token -> ExecStates] /\ activeGoals' \in [Goal -> Worker \cup {NoWorker}]
        /\ goalLease' \in [Goal -> Leases]
    BY <1>1, <1>2, <1>3, <2>1 DEF Types, Released
  <2> QED BY <1>1, <1>2, <1>6, <2>2 DEF Types
<1>9. GoodPoll'
  <2> SUFFICES ASSUME InHand PROVE GoodPoll'
    BY <1>2 DEF GoodPoll, InHand
  <2>1. poll.token \in Token \ {t} /\ poll.msg \in MsgId
    BY <1>1, <1>3 DEF GoodPoll
  <2>2. PollGoal \in Goal
    BY <2>1, SupervisorAssumption DEF PollGoal, GoalOf
  <2> QED BY <1>1, <1>2, <1>4, <1>5, <1>6, <2>1, <2>2 DEF GoodPoll, Executing, PollGoal
<1>10. GoodExec'
  <2> SUFFICES ASSUME NEW s \in Token, exec'[s].at # "none"
               PROVE  /\ s <= issued /\ exec'[s].msg \in MsgId /\ exec'[s].worker \in Worker
                      /\ activeGoals'[GoalOf(exec'[s].msg)] = exec'[s].worker
                      /\ exec'[s].at \in Fenced => retry[s] = 0
    BY <1>2, <1>6 DEF GoodExec, Executing, ExecGoal
  <2>1. s # t /\ exec'[s] = exec[s] /\ Executing(s)
    BY <1>4 DEF Executing
  <2> QED BY <1>1, <1>5, <1>7, <2>1 DEF GoodExec, ExecGoal
<1>11. OnePerGoal'
  BY <1>1, <1>4 DEF OnePerGoal, Executing, ExecGoal
<1>12. FenceFollows'
  <2>1. ASSUME NEW s \in Token, exec'[s].at \in Fenced PROVE fence[GoalOf(exec'[s].msg)] = s
    BY <1>1, <1>4, <2>1 DEF FenceFollows, ExecGoal, Fenced
  <2>2. ASSUME NEW h \in Goal, fence[h] # NoToken
        PROVE  exec'[fence[h]].at \in Fenced /\ GoalOf(exec'[fence[h]].msg) = h
    <3>1. fence[h] \in Token /\ exec[fence[h]].at \in Fenced /\ ExecGoal(fence[h]) = h
      BY <1>1, <2>2 DEF FenceFollows, Types
    <3>2. fence[h] # t
      BY <1>2, <3>1 DEF Fenced
    <3> QED BY <1>4, <3>1, <3>2 DEF ExecGoal
  <2> QED BY <1>2, <2>1, <2>2 DEF FenceFollows, ExecGoal
<1>13. LeaseOwned'
  <2> SUFFICES ASSUME NEW h \in Goal
               PROVE  /\ goalLease'[h].owner <= issued
                      /\ goalLease'[h].owner > inherited =>
                           \/ exec'[goalLease'[h].owner].at # "none" /\ GoalOf(exec'[goalLease'[h].owner].msg) = h
                           \/ poll.at = "leased" /\ poll.token = goalLease'[h].owner /\ PollGoal = h
    BY <1>2, <1>6 DEF LeaseOwned, Executing, ExecGoal, PollGoal
  <2>1. CASE h = g /\ goalLease[h].owner = t
    <3>1. goalLease'[h].owner = 0 /\ issued >= 0 /\ inherited >= 0
      BY <1>1, <1>2, <2>1 DEF Released, Types, NoLease, NoToken
    <3> QED BY <1>1, <3>1 DEF Types
  <2>2. CASE ~(h = g /\ goalLease[h].owner = t)
    <3>1. goalLease'[h] = goalLease[h]
      BY <1>1, <1>2, <2>2 DEF Released, Types
    <3>2. goalLease[h].owner > inherited => goalLease[h].owner \in Token
      BY <1>1 DEF Types, Leases, NoToken
    <3>3. ASSUME goalLease[h].owner = t, t > inherited PROVE FALSE
      <4>1. h # g
        BY <2>2, <3>3
      <4>2. (Executing(t) /\ ExecGoal(t) = h) \/ (poll.at = "leased" /\ poll.token = t)
        BY <1>1, <3>3 DEF LeaseOwned
      <4> QED BY <1>1, <1>3, <4>1, <4>2 DEF GoodPoll, InHand
    <3> QED BY <1>1, <1>4, <3>1, <3>2, <3>3 DEF LeaseOwned, Executing, ExecGoal
  <2> QED BY <2>1, <2>2
<1>14. RetryKept'
  BY <1>1, <1>2, <1>6 DEF RetryKept, Waits, Current
<1> QED BY <1>8, <1>9, <1>10, <1>11, <1>12, <1>13, <1>14 DEF IInv, Memory

\* A new process knows of no execution, and takes no lease for its own.
LEMMA RestartKeeps ==
  ASSUME IInv, Restart
  PROVE  IInv'
<1>1. Types /\ LeaseOwned
  BY DEF IInv
<1>2. /\ UNCHANGED <<issued, now, records, inflight, goalLease>>
      /\ poll' = NoPoll /\ inherited' = issued
      /\ exec' = [t \in Token |-> NoExec] /\ retry' = [t \in Token |-> 0]
      /\ activeGoals' = [g \in Goal |-> NoWorker] /\ fence' = [g \in Goal |-> NoToken]
  BY DEF Restart, vars, queueVars, files
<1>3. \A t \in Token : exec'[t].at = "none" /\ retry'[t] = 0
  BY <1>2 DEF NoExec
<1>4. Types'
  <2>1. exec' \in [Token -> ExecStates] /\ poll' \in PollStates
    BY <1>1, <1>2, EmptyHanded DEF NoExec, ExecStates
  <2> QED BY <1>1, <1>2, <2>1 DEF Types
<1>5. GoodPoll'
  BY <1>1, <1>2, EmptyHanded
<1>6. Memory'
  BY <1>2, <1>3 DEF Memory, GoodExec, OnePerGoal, FenceFollows, Executing, Fenced, NoToken
<1>7. LeaseOwned'
  BY <1>1, <1>2 DEF LeaseOwned, Types, Leases, Token, NoToken
<1>8. RetryKept'
  BY <1>1, <1>2, <1>3 DEF RetryKept, Types
<1> QED BY <1>4, <1>5, <1>6, <1>7, <1>8 DEF IInv

-----------------------------------------------------------------------------
(* The theorems *)

\* The daemon starts with nothing claimed, running or leased.
LEMMA InitHolds ==
  ASSUME SupInit
  PROVE  IInv
<1>1. /\ issued = 0 /\ inherited = 0 /\ now = 0 /\ poll = NoPoll
      /\ records = [m \in MsgId |-> Absent] /\ inflight = [t \in Token |-> NoClaim]
      /\ exec = [t \in Token |-> NoExec] /\ retry = [t \in Token |-> 0]
      /\ activeGoals = [g \in Goal |-> NoWorker] /\ fence = [g \in Goal |-> NoToken]
      /\ goalLease = [g \in Goal |-> NoLease]
  BY DEF SupInit, Init, FreshMemory
<1>2. \A t \in Token : exec[t].at = "none" /\ retry[t] = 0
  BY <1>1 DEF NoExec
<1>3. Types
  <2>1. poll \in PollStates
    BY <1>1 DEF NoPoll, PollStates, PollSteps
  <2>2. exec \in [Token -> ExecStates] /\ goalLease \in [Goal -> Leases]
    BY <1>1 DEF NoExec, NoLease, ExecStates, Leases
  <2> QED BY <1>1, <2>1, <2>2, BoundsAssumption DEF Types
<1>4. GoodPoll
  BY <1>1 DEF GoodPoll, InHand, NoPoll
<1>5. Memory
  BY <1>1, <1>2 DEF Memory, GoodExec, OnePerGoal, FenceFollows, Executing, Fenced, NoToken
<1>6. LeaseOwned
  BY <1>1 DEF LeaseOwned, NoLease, NoToken
<1>7. RetryKept
  BY <1>1, <1>2 DEF RetryKept
<1> QED BY <1>3, <1>4, <1>5, <1>6, <1>7 DEF IInv

\* The invariant that carries the properties below is kept by every step of the
\* poll, of the executions, of the timers, of the queue and of the process.
THEOREM SupervisorInvariance == SupSpec => []IInv
<1>1. SupInit => IInv
  BY InitHolds
<1>2. IInv /\ [SupNext]_allVars => IInv'
  <2> SUFFICES ASSUME IInv, [SupNext]_allVars PROVE IInv'
    OBVIOUS
  <2>1. CASE PollStep
    BY <2>1, PollClaimKeeps, PollSettles, AcquireKeeps, StopKeeps, StartKeeps DEF PollStep
  <2>2. ASSUME NEW t \in Token, ExecStep(t) PROVE IInv'
    BY <2>2, RunKeeps, SettleKeeps, FailKeeps, FinishKeeps DEF ExecStep, RunEnds
  <2>3. ASSUME NEW t \in Token, RenewOwnership(t) PROVE IInv'
    BY <2>3, RenewOwnershipKeeps
  <2>4. CASE Restart
    BY <2>4, RestartKeeps
  <2> QED BY <2>1, <2>2, <2>3, <2>4, OutsideKeeps DEF SupNext
<1> QED BY <1>1, <1>2, PTL DEF SupSpec

\* Never two executions of a goal, however claims are lost, redelivered,
\* coalesced and retried: a dispatch begins only after its goal was found free,
\* and nothing frees a goal whose execution lasts.
THEOREM OneExecutionPerGoal == SupSpec => []GoalExclusive
<1>1. IInv => GoalExclusive
  BY DEF IInv, Memory, GoodExec, OnePerGoal, GoalExclusive
<1> QED BY <1>1, SupervisorInvariance, PTL

\* What a worker commits is fenced by the token of its own claim, and the fence
\* goes with the execution.
THEOREM FencesAreOwn == SupSpec => []FenceIsOwn
<1>1. IInv => FenceIsOwn
  BY DEF IInv, Memory, FenceFollows, FenceIsOwn, Executing, Fenced
<1> QED BY <1>1, SupervisorInvariance, PTL

\* No way out of the poll or of an execution leaves a goal lease behind.
THEOREM LeasesAreNotLeaked == SupSpec => []LeaseNotLeaked
<1>1. IInv => LeaseNotLeaked
  BY DEF IInv, LeaseOwned, LeaseNotLeaked
<1> QED BY <1>1, SupervisorInvariance, PTL

\* The claim of a failed activation outlives its backoff, so that neither the
\* sweeper nor a poll hands it out again before the timer is due.
THEOREM BackoffsAreHonoured == SupSpec => []BackoffHonoured
<1>1. IInv => BackoffHonoured
  <2> SUFFICES ASSUME IInv, NEW t \in Token, retry[t] > now PROVE Holds(t)
    BY DEF BackoffHonoured
  <2>1. now \in Nat /\ retry[t] \in Nat /\ Waits(t)
    BY DEF IInv, Types, RetryKept
  <2> QED BY <2>1 DEF Waits, Holds
<1> QED BY <1>1, SupervisorInvariance, PTL

-----------------------------------------------------------------------------
(***************************************************************************)
(* The theorem about the background-run ledger of LoopSupervisor: a run    *)
(* whose activation the queue has as completed is recorded as over.        *)
(***************************************************************************)

\* An execution at these steps still has the end of its run to record.
Underway == {"marking", "run", "completing", "suspending"}

\* The activations whose run is over, and those whose run is looked after.
Ended == {m \in MsgId : ledger[m] \in {"ended", "cancelled"}}
Covered ==
  {m \in MsgId : \/ m \in abandoned \/ m \in Ended
                 \/ \E t \in Token : exec[t].at \in Underway /\ exec[t].msg = m}

LedgerTyped == ledger = [m \in MsgId |-> ledger[m]]

\* A run is over before its claim is completed: by an execution, or by the poll.
RunsKept ==
  /\ \A m \in MsgId : HasRun(m) /\ records[m].status = "completed" => m \in Covered
  /\ \A t \in Token : exec[t].at = "acking" /\ Current(t) => exec[t].msg \in Ended
  /\ poll.at = "cancelled" /\ HasRun(poll.msg) => poll.msg \in Covered

\* The claim of an execution, while it lasts, is on the activation it runs.
ExecClaims ==
  \A t \in Token : Executing(t) /\ Current(t) => inflight[t].messageId = exec[t].msg

\* The activation in hand is not settled by anyone else, nor claimed again.
PollClaims ==
  InHand =>
    /\ Current(poll.token) => inflight[poll.token].messageId = poll.msg
    /\ records[poll.msg].status # "completed"
    /\ records[poll.msg].status = "inflight" => records[poll.msg].claimToken = poll.token

RInv == LedgerTyped /\ RunsKept /\ ExecClaims /\ PollClaims

-----------------------------------------------------------------------------
(* What the queue's operations settle *)

\* A step of the queue that completes no message outside D, and hands no claim
\* that was made to another message.
Completes(D) ==
  /\ \A t \in Token : t <= issued /\ Current(t)' =>
       Current(t) /\ inflight'[t].messageId = inflight[t].messageId
  /\ \A m \in MsgId : records'[m].status = "completed" => records[m].status = "completed" \/ m \in D

\* A step of the queue that makes no claim.
NoNewClaim ==
  \A m \in MsgId : records'[m].status = "inflight" =>
    records[m].status = "inflight" /\ records'[m].claimToken = records[m].claimToken

LEMMA NothingCompletes == ASSUME UNCHANGED vars PROVE Completes({}) /\ NoNewClaim
  BY DEF Completes, NoNewClaim, Current, vars, queueVars

LEMMA TickCompletes == ASSUME Tick PROVE Completes({}) /\ NoNewClaim
  BY DEF Completes, NoNewClaim, Current, Tick, queueVars

LEMMA AcceptCompletes == ASSUME NEW m \in MsgId, Accept(m) PROVE Completes({}) /\ NoNewClaim
<1>1. /\ records' = [x \in MsgId |-> IF x = m THEN Fresh
                                     ELSE IF x \in SameKey(m) THEN Absent ELSE records[x]]
      /\ inflight' = inflight
  BY DEF Accept
<1>2. ASSUME NEW x \in MsgId, records'[x].status \in {"inflight", "completed"} PROVE records'[x] = records[x]
  BY <1>1, <1>2 DEF Fresh, Absent
<1> QED BY <1>1, <1>2 DEF Completes, NoNewClaim, Current

\* Dropping a message completes it in no case.
LEMMA BuriedStatus ==
  ASSUME NEW D, NEW x \in MsgId, Buried(D)[x].status \in {"inflight", "completed"}
  PROVE  Buried(D)[x] = records[x]
  BY DEF Buried, Unclaimed

LEMMA ClaimNothingCompletes == ASSUME NEW F, ClaimNothing(F) PROVE Completes({}) /\ NoNewClaim
<1>1. records' = Buried({x \in MsgId : Droppable(x)}) /\ inflight' = inflight
  BY DEF ClaimNothing
<1>2. ASSUME NEW x \in MsgId, records'[x].status \in {"inflight", "completed"} PROVE records'[x] = records[x]
  BY <1>1, <1>2, BuriedStatus
<1> QED BY <1>1, <1>2 DEF Completes, NoNewClaim, Current

LEMMA ClaimCompletes ==
  ASSUME Types, NEW m \in MsgId, NEW F, NEW lease, ClaimMessage(m, F, lease)
  PROVE  /\ Completes({})
         /\ records'[m].status = "inflight" /\ records'[m].claimToken = issued + 1
         /\ inflight'[issued + 1].messageId = m
<1> DEFINE D == {x \in MsgId : Droppable(x) /\ Ahead(x, m)}
           c == ClaimedBy(issued + 1, records[m].attempt + 1, now + lease)
<1>1. /\ issued \in Nat /\ issued + 1 \in Token
      /\ records' = [Buried(D) EXCEPT ![m] = c]
      /\ inflight' = [inflight EXCEPT ![issued + 1] =
                       [messageId |-> m, leaseUntil |-> now + lease, attempt |-> records[m].attempt + 1]]
  <2>1. issued' = issued + 1 /\ issued' \in Token
    BY ClaimMoves
  <2> QED BY <2>1 DEF ClaimMessage, Types
<1>2. Buried(D) = [x \in MsgId |-> Buried(D)[x]]
  BY DEF Buried
<1>3. /\ records'[m] = c /\ \A x \in MsgId \ {m} : records'[x] = Buried(D)[x]
      /\ inflight'[issued + 1].messageId = m
      /\ \A t \in Token : t <= issued => inflight'[t] = inflight[t]
  BY <1>1, <1>2 DEF Types, Token
<1>4. c.status = "inflight" /\ c.claimToken = issued + 1
  BY DEF ClaimedBy
<1> HIDE DEF c, D
<1>5. \A x \in MsgId : records'[x].status = "completed" => records[x].status = "completed"
  BY <1>3, <1>4, BuriedStatus
<1>6. ASSUME NEW t \in Token, t <= issued, Current(t)'
      PROVE  Current(t) /\ inflight'[t].messageId = inflight[t].messageId
  <2>1. inflight'[t] = inflight[t] /\ t # issued + 1
    BY <1>1, <1>3, <1>6 DEF Token
  <2>2. inflight[t].messageId \in MsgId \ {m} /\ records'[inflight[t].messageId].status = "inflight"
        /\ records'[inflight[t].messageId].claimToken = t
    BY <1>3, <1>4, <1>6, <2>1 DEF Current
  <2>3. records'[inflight[t].messageId] = records[inflight[t].messageId]
    BY <1>3, <2>2, BuriedStatus
  <2> QED BY <2>1, <2>2, <2>3 DEF Current
<1> QED BY <1>3, <1>4, <1>5, <1>6 DEF Completes

\* Only an ack completes a message: the one that was claimed.
LEMMA HolderCompletes ==
  ASSUME Types, NEW s \in Token, NEW requeue, NEW lease,
         Ack(s) \/ Nack(s, requeue) \/ Renew(s, lease)
  PROVE  /\ Completes(IF Ack(s) THEN {inflight[s].messageId} ELSE {}) /\ NoNewClaim
<1> DEFINE m == inflight[s].messageId
<1>1. m \in MsgId /\ Current(s)
  BY DEF Ack, Nack, Renew, Holds, Current
<1>2. PICK r, c : /\ records' = [records EXCEPT ![m] = r]
                  /\ inflight' = [inflight EXCEPT ![s] = c]
                  /\ \/ r.status \in {"pending", "deadletter"} /\ c.messageId = NoMsg
                     \/ r.status = "completed" /\ c.messageId = NoMsg /\ Ack(s)
                     \/ r.status = "inflight" /\ r.claimToken = s /\ c.messageId = m
  <2>1. CASE Ack(s)
    <3>1. Unclaimed(m, "completed").status = "completed" /\ NoClaim.messageId = NoMsg
      BY DEF Unclaimed, NoClaim
    <3> QED BY <2>1, <3>1 DEF Ack
  <2>2. CASE Nack(s, requeue)
    <3>1. PICK st \in {"pending", "deadletter"} :
            records' = [records EXCEPT ![m] = Unclaimed(m, st)] /\ inflight' = [inflight EXCEPT ![s] = NoClaim]
      BY <2>2 DEF Nack
    <3>2. Unclaimed(m, st).status = st /\ NoClaim.messageId = NoMsg
      BY DEF Unclaimed, NoClaim
    <3> QED BY <3>1, <3>2
  <2>3. CASE Renew(s, lease)
    <3> DEFINE r == ClaimedBy(s, records[m].attempt, now + lease)
               c == [messageId |-> m, leaseUntil |-> now + lease, attempt |-> inflight[s].attempt]
    <3>1. records' = [records EXCEPT ![m] = r] /\ inflight' = [inflight EXCEPT ![s] = c]
      BY <2>3 DEF Renew
    <3>2. r.status = "inflight" /\ r.claimToken = s /\ c.messageId = m
      BY DEF ClaimedBy
    <3> HIDE DEF r, c
    <3> QED BY <3>1, <3>2
  <2> QED BY <2>1, <2>2, <2>3
<1>3. /\ records'[m] = r /\ \A x \in MsgId \ {m} : records'[x] = records[x]
      /\ inflight'[s] = c /\ \A t \in Token \ {s} : inflight'[t] = inflight[t]
  BY <1>1, <1>2 DEF Types
<1>4. records[m].status = "inflight" /\ records[m].claimToken = s
  BY <1>1 DEF Current
<1>5. ASSUME NEW t \in Token, Current(t)'
      PROVE  Current(t) /\ inflight'[t].messageId = inflight[t].messageId
  <2>1. CASE t = s
    BY <1>1, <1>2, <1>3, <1>5, <2>1, NoMsgAssumption DEF Current
  <2>2. CASE t # s
    <3>1. inflight'[t] = inflight[t]
      BY <1>3, <2>2
    <3>2. inflight[t].messageId # m
      BY <1>2, <1>3, <1>5, <2>2, <3>1 DEF Current
    <3> QED BY <1>3, <1>5, <3>1, <3>2 DEF Current
  <2> QED BY <2>1, <2>2
<1>6. \A x \in MsgId : records'[x].status = "completed" =>
        records[x].status = "completed" \/ x \in (IF Ack(s) THEN {m} ELSE {})
  BY <1>2, <1>3
<1>7. NoNewClaim
  BY <1>2, <1>3, <1>4 DEF NoNewClaim
<1> HIDE DEF m
<1> QED BY <1>5, <1>6, <1>7 DEF Completes, m

\* An ack or nack that the queue may refuse.
LEMMA TriedAckCompletes ==
  ASSUME Types, NEW s \in Token, TryAck(s)
  PROVE  /\ Completes({inflight[s].messageId}) /\ NoNewClaim
         /\ Completes({}) \/ Holds(s)
<1>1. CASE UNCHANGED vars
  BY <1>1, NothingCompletes DEF Completes
<1>2. CASE Ack(s)
  <2>1. Completes({inflight[s].messageId}) /\ NoNewClaim
    BY <1>2, HolderCompletes
  <2> QED BY <1>2, <2>1 DEF Ack
<1> QED BY <1>1, <1>2 DEF TryAck

LEMMA NackCompletes ==
  ASSUME Types, NEW s \in Token, NEW requeue, NEW lease, TryNack(s, requeue) \/ Renew(s, lease)
  PROVE  Completes({}) /\ NoNewClaim
<1>1. CASE UNCHANGED vars
  BY <1>1, NothingCompletes
<1>2. CASE Nack(s, requeue) \/ Renew(s, lease)
  <2>1. ~Ack(s)
    <3>1. ASSUME Ack(s) PROVE FALSE
      <4>1. inflight'[s] = NoClaim /\ records'[inflight[s].messageId].status = "completed"
        BY <3>1 DEF Ack, Types, Holds, Current, Unclaimed
      <4>2. records'[inflight[s].messageId].status # "completed"
        BY <1>2 DEF Nack, Renew, Types, Holds, Current, Unclaimed, ClaimedBy
      <4> QED BY <4>1, <4>2
    <3> QED BY <3>1
  <2> QED BY <1>2, <2>1, HolderCompletes
<1> QED BY <1>1, <1>2 DEF TryNack

LEMMA SweepCompletes == ASSUME Types, SweepExpiredClaims PROVE Completes({}) /\ NoNewClaim
<1>1. /\ inflight' = [t \in Token |-> IF t \in Overdue THEN NoClaim ELSE inflight[t]]
      /\ records' = [m \in MsgId |-> IF m \in Reclaimed THEN Returned(m) ELSE records[m]]
  BY DEF SweepExpiredClaims
<1>2. \A m \in MsgId : Returned(m).status \in {"pending", "deadletter"}
  BY DEF Returned, Unclaimed
<1>3. ASSUME NEW x \in MsgId, records'[x].status \in {"inflight", "completed"} PROVE records'[x] = records[x]
  BY <1>1, <1>2, <1>3
<1>4. ASSUME NEW t \in Token, inflight'[t].messageId \in MsgId PROVE inflight'[t] = inflight[t]
  BY <1>1, <1>4, NoMsgAssumption DEF NoClaim
<1> QED BY <1>3, <1>4 DEF Completes, NoNewClaim, Current

-----------------------------------------------------------------------------
(* Claims *)

\* Whoever executes an activation by its claim does not share it with the poll.
LEMMA PollApart ==
  ASSUME IInv, RInv, InHand, NEW t \in Token, Executing(t), Current(t)
  PROVE  exec[t].msg # poll.msg /\ records[exec[t].msg].status = "inflight"
<1>1. inflight[t].messageId = exec[t].msg
  BY DEF RInv, ExecClaims
<1>2. t # poll.token
  BY DEF IInv, GoodPoll
<1> QED BY <1>1, <1>2 DEF RInv, PollClaims, Current

\* Executions that go on keep their claims.
LEMMA ExecClaimsKept ==
  ASSUME IInv, RInv, NEW D, Completes(D),
         \A t \in Token : Executing(t)' => Executing(t) /\ exec'[t].msg = exec[t].msg
  PROVE  ExecClaims'
<1> SUFFICES ASSUME NEW t \in Token, Executing(t)', Current(t)'
             PROVE  inflight'[t].messageId = exec'[t].msg
  BY DEF ExecClaims
<1>1. Executing(t) /\ exec'[t].msg = exec[t].msg
  OBVIOUS
<1>2. t <= issued
  BY <1>1 DEF IInv, Memory, GoodExec
<1> QED BY <1>1, <1>2 DEF Completes, RInv, ExecClaims

\* A dispatch that stays in hand keeps its claim, unless it is completed.
LEMMA PollClaimsKept ==
  ASSUME IInv, RInv, NEW D, Completes(D), NoNewClaim,
         InHand' => /\ InHand /\ poll'.token = poll.token /\ poll'.msg = poll.msg
                    /\ poll.msg \notin D
  PROVE  PollClaims'
<1> SUFFICES ASSUME InHand' PROVE PollClaims'
  BY DEF PollClaims
<1>1. /\ poll.token \in Token /\ poll.token <= issued /\ poll.msg \in MsgId
      /\ poll'.token = poll.token /\ poll'.msg = poll.msg /\ poll.msg \notin D
  BY DEF IInv, GoodPoll
<1>2. /\ Current(poll.token) => inflight[poll.token].messageId = poll.msg
      /\ records[poll.msg].status # "completed"
      /\ records[poll.msg].status = "inflight" => records[poll.msg].claimToken = poll.token
  BY DEF RInv, PollClaims
<1>3. Current(poll.token)' => inflight'[poll.token].messageId = poll.msg
  BY <1>1, <1>2 DEF Completes
<1>4. /\ records'[poll.msg].status # "completed"
      /\ records'[poll.msg].status = "inflight" => records'[poll.msg].claimToken = poll.token
  BY <1>1, <1>2 DEF Completes, NoNewClaim
<1> QED BY <1>1, <1>3, <1>4 DEF PollClaims, Current

-----------------------------------------------------------------------------
(* Runs *)

\* Steps that move no execution and write no record of a run.
LEMMA QuietRuns ==
  ASSUME IInv, RInv, NEW D, Completes(D), ledger' = ledger,
         \A t \in Token : exec'[t].at = exec[t].at /\ exec'[t].msg = exec[t].msg,
         abandoned \subseteq abandoned',
         \A m \in D : HasRun(m) => m \in Covered',
         poll'.at = "cancelled" => poll.at = "cancelled" /\ poll'.msg = poll.msg
  PROVE  LedgerTyped' /\ RunsKept'
<1>1. Covered \subseteq Covered' /\ Ended' = Ended
  BY DEF Covered, Ended
<1>2. \A m \in MsgId : HasRun(m) /\ records'[m].status = "completed" => m \in Covered'
  BY <1>1 DEF Completes, RInv, RunsKept
<1>3. ASSUME NEW t \in Token, exec'[t].at = "acking", Current(t)' PROVE exec'[t].msg \in Ended'
  <2>1. Executing(t) /\ exec[t].at = "acking" /\ t <= issued
    BY <1>3 DEF IInv, Memory, GoodExec, Executing
  <2>2. Current(t)
    BY <1>3, <2>1 DEF Completes
  <2> QED BY <1>1, <2>1, <2>2 DEF RInv, RunsKept
<1>4. poll'.at = "cancelled" /\ HasRun(poll'.msg) => poll'.msg \in Covered'
  BY <1>1 DEF RInv, RunsKept
<1> QED BY <1>2, <1>3, <1>4 DEF RunsKept, RInv, LedgerTyped

\* A step of the execution of t, beside a poll at rest, which writes the record
\* of its own run at most, and looks after that run.
LEMMA ExecRuns ==
  ASSUME IInv, RInv, NEW t \in Token, Executing(t), NEW e, e.at # "none" => e.msg = exec[t].msg,
         exec' = [exec EXCEPT ![t] = e], poll' = poll,
         NEW D, Completes(D), D \subseteq {exec[t].msg},
         LedgerTyped', \A m \in MsgId \ {exec[t].msg} : ledger'[m] = ledger[m],
         abandoned \subseteq abandoned',
         HasRun(exec[t].msg) =>
           /\ records'[exec[t].msg].status = "completed" => exec[t].msg \in Covered'
           /\ poll.at = "cancelled" /\ poll.msg = exec[t].msg => exec[t].msg \in Covered',
         e.at = "acking" /\ Current(t)' => exec[t].msg \in Ended'
  PROVE  RunsKept'
<1> DEFINE n == exec[t].msg
<1>1. exec'[t] = e /\ \A s \in Token \ {t} : exec'[s] = exec[s]
  BY DEF IInv, Types
<1>2. ASSUME NEW m \in MsgId \ {n}
      PROVE  (m \in Covered => m \in Covered') /\ (m \in Ended => m \in Ended')
  BY <1>1 DEF Covered, Ended, Underway
<1>3. \A m \in MsgId : HasRun(m) /\ records'[m].status = "completed" => m \in Covered'
  BY <1>2 DEF Completes, RInv, RunsKept
<1>4. ASSUME NEW s \in Token, exec'[s].at = "acking", Current(s)' PROVE exec'[s].msg \in Ended'
  <2>1. CASE s = t
    <3>1. exec'[t] = e /\ e.at = "acking"
      BY <1>1, <1>4, <2>1
    <3> QED BY <1>4, <2>1, <3>1
  <2>2. CASE s # t
    <3>1. Executing(s) /\ exec[s].at = "acking" /\ s <= issued /\ exec'[s] = exec[s]
      BY <1>1, <1>4, <2>2 DEF IInv, Memory, GoodExec, Executing
    <3>2. exec[s].msg \in MsgId \ {n}
      BY <2>2, <3>1 DEF IInv, Memory, OnePerGoal, GoodExec, ExecGoal
    <3>3. exec[s].msg \in Ended
      BY <1>4, <3>1 DEF Completes, RInv, RunsKept
    <3> QED BY <1>2, <3>1, <3>2, <3>3
  <2> QED BY <2>1, <2>2
<1>5. poll.at = "cancelled" /\ HasRun(poll.msg) => poll.msg \in Covered'
  <2>1. ASSUME poll.at = "cancelled", HasRun(poll.msg) PROVE poll.msg \in Covered'
    <3>1. poll.msg \in MsgId /\ poll.msg \in Covered
      BY <2>1 DEF IInv, GoodPoll, InHand, RInv, RunsKept
    <3> QED BY <1>2, <2>1, <3>1
  <2> QED BY <2>1
<1> QED BY <1>3, <1>4, <1>5 DEF RunsKept

-----------------------------------------------------------------------------
(* Steps *)

\* A step that completes nothing, moves no execution and takes up no dispatch.
LEMMA RestKeeps ==
  ASSUME IInv, RInv, Completes({}), NoNewClaim, ledger' = ledger,
         \A t \in Token : exec'[t].at = exec[t].at /\ exec'[t].msg = exec[t].msg,
         abandoned \subseteq abandoned',
         InHand' => InHand /\ poll'.token = poll.token /\ poll'.msg = poll.msg,
         poll'.at = "cancelled" => poll.at = "cancelled"
  PROVE  RInv'
<1>1. poll'.at = "cancelled" => poll'.msg = poll.msg
  BY DEF InHand
<1>2. LedgerTyped' /\ RunsKept'
  BY <1>1, QuietRuns
<1>3. ExecClaims'
  BY ExecClaimsKept DEF Executing
<1>4. PollClaims'
  BY PollClaimsKept
<1> QED BY <1>2, <1>3, <1>4 DEF RInv

\* Time, the sweeper, activations, a shutdown, timers and renewals.
LEMMA OutsideRests ==
  ASSUME IInv, RInv,
         \/ Environment \/ Shutdown \/ UNCHANGED allVars
         \/ \E m \in MsgId : ActivateGoal(m)
         \/ \E g \in Goal : DeactivateGoal(g)
         \/ \E t \in Token : RetryDue(t) \/ RenewOwnership(t)
  PROVE  RInv'
<1>1. Types
  BY DEF IInv
<1>2. /\ UNCHANGED <<poll, ledger, abandoned>>
      /\ \A t \in Token : exec'[t].at = exec[t].at /\ exec'[t].msg = exec[t].msg
  <2>1. ASSUME NEW t \in Token, RenewOwnership(t)
        PROVE  /\ UNCHANGED <<poll, ledger, abandoned>>
               /\ \A s \in Token : exec'[s].at = exec[s].at /\ exec'[s].msg = exec[s].msg
    <3>1. UNCHANGED <<poll, ledger, abandoned>> /\ \E l \in BOOLEAN : exec' = [exec EXCEPT ![t].lost = l]
      BY <2>1 DEF RenewOwnership, history
    <3> QED BY <1>1, <3>1 DEF Types, ExecStates
  <2>2. ASSUME \/ Environment \/ Shutdown \/ UNCHANGED allVars
               \/ \E m \in MsgId : ActivateGoal(m)
               \/ \E g \in Goal : DeactivateGoal(g)
               \/ \E t \in Token : RetryDue(t)
        PROVE  UNCHANGED <<poll, ledger, abandoned, exec>>
    BY <2>2 DEF Environment, Shutdown, ActivateGoal, DeactivateGoal, RetryDue, supVars, memory, files, history, allVars
  <2> QED BY <2>1, <2>2
<1>3. Completes({}) /\ NoNewClaim
  <2>1. ASSUME UNCHANGED vars PROVE Completes({}) /\ NoNewClaim
    BY <2>1, NothingCompletes
  <2>2. ASSUME Environment PROVE Completes({}) /\ NoNewClaim
    BY <1>1, <2>2, TickCompletes, SweepCompletes DEF Environment
  <2>3. ASSUME NEW m \in MsgId, ActivateGoal(m) PROVE Completes({}) /\ NoNewClaim
    BY <2>1, <2>3, AcceptCompletes DEF ActivateGoal
  <2>4. ASSUME NEW t \in Token, RetryDue(t) PROVE Completes({}) /\ NoNewClaim
    BY <1>1, <2>4, NackCompletes DEF RetryDue
  <2>5. ASSUME NEW t \in Token, RenewOwnership(t) PROVE Completes({}) /\ NoNewClaim
    BY <1>1, <2>1, <2>5, NackCompletes DEF RenewOwnership
  <2>6. Shutdown \/ UNCHANGED allVars \/ (\E g \in Goal : DeactivateGoal(g)) => UNCHANGED vars
    BY DEF Shutdown, DeactivateGoal, allVars
  <2> QED BY <2>1, <2>2, <2>3, <2>4, <2>5, <2>6
<1>4. InHand' => InHand
  BY <1>2 DEF InHand
<1> QED BY <1>2, <1>3, <1>4, RestKeeps

\* The poll completes the dispatch in hand: its run is over, or given up.
LEMMA PollAcks ==
  ASSUME IInv, RInv, InHand, TryAck(poll.token), NextWorker,
         UNCHANGED <<exec, ledger>>, abandoned \subseteq abandoned',
         HasRun(poll.msg) => poll.msg \in Covered'
  PROVE  RInv'
<1>1. Types /\ poll.token \in Token
  BY DEF IInv, GoodPoll
<1>2. poll'.at = "next"
  BY DEF NextWorker, NoPoll
<1>3. PICK D : Completes(D) /\ NoNewClaim /\ D \subseteq {poll.msg}
  <2>1. CASE Holds(poll.token)
    <3>1. inflight[poll.token].messageId = poll.msg
      BY <2>1 DEF Holds, RInv, PollClaims
    <3>2. Completes({poll.msg}) /\ NoNewClaim
      BY <1>1, <3>1, TriedAckCompletes
    <3> QED BY <3>2
  <2>2. CASE ~Holds(poll.token)
    <3>1. Completes({}) /\ NoNewClaim
      BY <1>1, <2>2, TriedAckCompletes
    <3> QED BY <3>1
  <2> QED BY <2>1, <2>2
<1>4. LedgerTyped' /\ RunsKept'
  BY <1>2, <1>3, QuietRuns
<1>5. ExecClaims'
  BY <1>3, ExecClaimsKept DEF Executing
<1>6. PollClaims'
  BY <1>2 DEF PollClaims, InHand
<1> QED BY <1>4, <1>5, <1>6 DEF RInv

\* Ways out of the poll that settle the dispatch.
LEMMA AcksKeep ==
  ASSUME IInv, RInv, Coalesce \/ CoalescedRunSettled \/ SkipStopped
  PROVE  RInv'
<1>1. CASE Coalesce /\ HasRun(poll.msg)
  <2>1. /\ UNCHANGED vars /\ UNCHANGED <<exec, ledger, abandoned>>
        /\ poll' = [poll EXCEPT !.at = "coalesced"] /\ InHand
    BY <1>1 DEF Coalesce, InHand, files, history
  <2>2. poll'.at = "coalesced" /\ poll'.token = poll.token /\ poll'.msg = poll.msg
    BY <2>1 DEF IInv, Types, PollStates
  <2> QED BY <2>1, <2>2, NothingCompletes, RestKeeps
<1>2. CASE Coalesce /\ ~HasRun(poll.msg)
  <2>1. InHand /\ TryAck(poll.token) /\ NextWorker /\ UNCHANGED <<exec, ledger, abandoned>>
    BY <1>2 DEF Coalesce, InHand, files, history
  <2> QED BY <1>2, <2>1, PollAcks
<1>3. CASE CoalescedRunSettled
  <2>1. /\ InHand /\ TryAck(poll.token) /\ NextWorker /\ UNCHANGED <<exec, ledger, abandoned>>
        /\ poll.at = "cancelled"
    BY <1>3 DEF CoalescedRunSettled, Polled, InHand, files, history
  <2>2. HasRun(poll.msg) => poll.msg \in Covered'
    <3>1. HasRun(poll.msg) => poll.msg \in Covered
      BY <2>1 DEF RInv, RunsKept
    <3> QED BY <2>1, <3>1 DEF Covered, Ended
  <2> QED BY <2>1, <2>2, PollAcks
<1>4. CASE SkipStopped
  <2>1. /\ InHand /\ TryAck(poll.token) /\ NextWorker /\ UNCHANGED <<exec, ledger>>
        /\ abandoned' = abandoned \cup {poll.msg}
    BY <1>4 DEF SkipStopped, InHand, files
  <2>2. poll.msg \in Covered'
    BY <2>1 DEF IInv, GoodPoll, Covered
  <2> QED BY <2>1, <2>2, PollAcks
<1> QED BY <1>1, <1>2, <1>3, <1>4

\* Steps of the poll that leave every run to be settled as it is.
LEMMA PollRests ==
  ASSUME IInv, RInv,
         \/ PollStart \/ PollEnds \/ SkipSuspended
         \/ AcquireLease \/ LeaseUnavailable \/ StopSeen
  PROVE  RInv'
<1>1. Types
  BY DEF IInv
<1>2. UNCHANGED <<exec, ledger, abandoned>>
  BY DEF PollStart, PollEnds, SkipSuspended, AcquireLease, LeaseUnavailable, StopSeen, Polled, files, history
<1>3. Completes({}) /\ NoNewClaim
  <2>1. UNCHANGED vars => Completes({}) /\ NoNewClaim
    BY NothingCompletes
  <2>2. ASSUME ClaimNothing({"goal"}) PROVE Completes({}) /\ NoNewClaim
    BY <2>2, ClaimNothingCompletes
  <2>3. ASSUME InHand, NEW b, TryNack(poll.token, b) PROVE Completes({}) /\ NoNewClaim
    BY <1>1, <2>3, NackCompletes DEF IInv, GoodPoll
  <2>4. CASE SkipSuspended \/ LeaseUnavailable \/ StopSeen
    BY <2>3, <2>4 DEF SkipSuspended, LeaseUnavailable, StopSeen, InHand
  <2>5. CASE PollStart \/ PollEnds \/ AcquireLease
    BY <2>1, <2>2, <2>5 DEF PollStart, PollEnds, AcquireLease
  <2> QED BY <2>4, <2>5
<1>4. poll'.at # "cancelled" /\ (InHand' => InHand /\ poll'.token = poll.token /\ poll'.msg = poll.msg)
  <2>1. CASE PollStart \/ PollEnds \/ SkipSuspended \/ LeaseUnavailable \/ StopSeen
    <3>1. poll'.at \in {"off", "next"}
      <4>1. NoPoll.at = "off" /\ \A l : [NoPoll EXCEPT !.at = "next", !.left = l].at = "next"
        BY DEF NoPoll
      <4>2. poll' = NoPoll \/ \E l : poll' = [NoPoll EXCEPT !.at = "next", !.left = l]
        BY <2>1 DEF PollStart, PollEnds, SkipSuspended, LeaseUnavailable, StopSeen, NextWorker
      <4> QED BY <4>1, <4>2
    <3> QED BY <3>1 DEF InHand
  <2>2. CASE AcquireLease
    <3>1. PICK to \in {"refused", "leased"} : poll' = [poll EXCEPT !.at = to] /\ InHand
      BY <2>2 DEF AcquireLease, InHand
    <3> QED BY <1>1, <3>1 DEF Types, PollStates
  <2> QED BY <2>1, <2>2
<1> QED BY <1>2, <1>3, <1>4, RestKeeps

\* A fresh claim is nobody else's, and its message is not completed.
LEMMA ClaimKeeps ==
  ASSUME IInv, RInv, NEW w \in Worker, PollClaim(w)
  PROVE  RInv'
<1>1. Types
  BY DEF IInv
<1>2. UNCHANGED <<exec, ledger, abandoned>>
  BY DEF PollClaim, Polled, files, history
<1>3. PICK m \in MsgId :
        /\ ClaimMessage(m, {"goal"}, ClaimLeaseMs)
        /\ poll'.at = "decide" /\ poll'.token = issued + 1 /\ poll'.msg = m
  BY DEF PollClaim
<1>4. /\ Completes({})
      /\ records'[m].status = "inflight" /\ records'[m].claimToken = issued + 1
      /\ inflight'[issued + 1].messageId = m
  BY <1>1, <1>3, ClaimCompletes
<1>5. LedgerTyped' /\ RunsKept'
  BY <1>2, <1>3, <1>4, QuietRuns
<1>6. ExecClaims'
  BY <1>2, <1>4, ExecClaimsKept DEF Executing
<1>7. PollClaims'
  BY <1>3, <1>4 DEF PollClaims
<1> QED BY <1>5, <1>6, <1>7 DEF RInv

\* The run of a coalesced activation is recorded as started, then as cancelled.
LEMMA CoalescedKeeps ==
  ASSUME IInv, RInv,
         \/ CoalescedRun("coalesced", "cancelling", "running")
         \/ CoalescedRun("cancelling", "cancelled", "cancelled")
  PROVE  RInv'
<1> DEFINE n == poll.msg
<1>1. PICK to, st :
        /\ <<to, st>> \in {<<"cancelling", "running">>, <<"cancelled", "cancelled">>}
        /\ poll' = [poll EXCEPT !.at = to] /\ ledger' = [ledger EXCEPT ![n] = st]
        /\ UNCHANGED vars /\ UNCHANGED <<exec, abandoned>> /\ InHand
  BY DEF CoalescedRun, Mark, InHand, history
<1>2. poll'.at = to /\ poll'.token = poll.token /\ poll'.msg = n /\ n \in MsgId
  BY <1>1 DEF IInv, Types, PollStates, GoodPoll
<1>3. Completes({}) /\ NoNewClaim
  BY <1>1, NothingCompletes
<1>4. LedgerTyped' /\ ledger'[n] = st /\ \A m \in MsgId \ {n} : ledger'[m] = ledger[m]
  BY <1>1, <1>2 DEF RInv, LedgerTyped
<1>5. ASSUME NEW m \in MsgId \ {n}
      PROVE  (m \in Covered => m \in Covered') /\ (m \in Ended => m \in Ended')
  BY <1>1, <1>4 DEF Covered, Ended
<1>6. records[n].status # "completed" /\ UNCHANGED <<records, inflight>>
  BY <1>1 DEF RInv, PollClaims, vars, queueVars
<1>7. \A m \in MsgId : HasRun(m) /\ records'[m].status = "completed" => m \in Covered'
  BY <1>5, <1>6 DEF RInv, RunsKept
<1>8. ASSUME NEW t \in Token, exec'[t].at = "acking", Current(t)' PROVE exec'[t].msg \in Ended'
  <2>1. Executing(t) /\ Current(t) /\ exec[t].at = "acking" /\ exec[t].msg \in MsgId /\ exec' = exec
    BY <1>1, <1>6, <1>8 DEF Executing, Current, IInv, Memory, GoodExec
  <2>2. exec[t].msg # n /\ exec[t].msg \in Ended
    BY <1>1, <2>1, PollApart DEF RInv, RunsKept
  <2> QED BY <1>5, <2>1, <2>2
<1>9. poll'.at = "cancelled" => poll'.msg \in Covered'
  BY <1>1, <1>2, <1>4 DEF Covered, Ended
<1>10. RunsKept'
  BY <1>7, <1>8, <1>9 DEF RunsKept
<1>11. ExecClaims'
  BY <1>1, <1>3, ExecClaimsKept DEF Executing
<1>12. PollClaims'
  BY <1>1, <1>2, <1>3, PollClaimsKept
<1> QED BY <1>4, <1>10, <1>11, <1>12 DEF RInv

\* An execution begins with the claim that was in hand.
LEMMA StartRuns ==
  ASSUME IInv, RInv, Start
  PROVE  RInv'
<1> DEFINE t == poll.token
<1>1. Types /\ t \in Token /\ ~Executing(t) /\ poll.msg \in MsgId
  BY DEF IInv, GoodPoll, Start, InHand
<1>2. PICK e : /\ exec' = [exec EXCEPT ![t] = e] /\ e.at \in {"marking", "run"} /\ e.msg = poll.msg
               /\ UNCHANGED vars /\ UNCHANGED <<ledger, abandoned>> /\ poll'.at = "next"
  BY DEF Start, Enters, NextWorker, NoPoll, history
<1>3. exec'[t] = e /\ \A s \in Token \ {t} : exec'[s] = exec[s]
  BY <1>1, <1>2 DEF Types
<1>4. UNCHANGED <<records, inflight>> /\ Ended' = Ended /\ Covered \subseteq Covered'
  BY <1>1, <1>2, <1>3 DEF vars, queueVars, Ended, Covered, Executing, Underway
<1>5. LedgerTyped' /\ RunsKept'
  <2>1. \A s \in Token : exec'[s].at = "acking" => exec'[s] = exec[s]
    BY <1>2, <1>3
  <2> QED BY <1>2, <1>4, <2>1 DEF RInv, LedgerTyped, RunsKept, Current
<1>6. ExecClaims'
  <2>1. Current(t) => inflight[t].messageId = poll.msg
    BY DEF RInv, PollClaims, Start, InHand
  <2> QED BY <1>2, <1>3, <1>4, <2>1 DEF RInv, ExecClaims, Executing, Current
<1>7. PollClaims'
  BY <1>2 DEF PollClaims, InHand
<1> QED BY <1>5, <1>6, <1>7 DEF RInv

\* A step of the execution of t, beside a poll at rest.
LEMMA ExecKeeps ==
  ASSUME IInv, RInv, NEW t \in Token, Executing(t), NEW e, e.at # "none" => e.msg = exec[t].msg,
         exec' = [exec EXCEPT ![t] = e], poll' = poll,
         NEW D, Completes(D), NoNewClaim, D = {} \/ (D = {exec[t].msg} /\ Current(t)),
         LedgerTyped', \A m \in MsgId \ {exec[t].msg} : ledger'[m] = ledger[m],
         abandoned \subseteq abandoned',
         HasRun(exec[t].msg) =>
           /\ records'[exec[t].msg].status = "completed" => exec[t].msg \in Covered'
           /\ poll.at = "cancelled" /\ poll.msg = exec[t].msg => exec[t].msg \in Covered',
         e.at = "acking" /\ Current(t)' => exec[t].msg \in Ended'
  PROVE  RInv'
<1>1. RunsKept'
  BY ExecRuns
<1>2. exec'[t] = e /\ \A s \in Token \ {t} : exec'[s] = exec[s]
  BY DEF IInv, Types
<1>3. ExecClaims'
  BY <1>2, ExecClaimsKept DEF Executing
<1>4. PollClaims'
  <2>1. InHand' => InHand /\ poll.msg \notin D
    BY PollApart DEF InHand
  <2> QED BY <2>1, PollClaimsKept
<1> QED BY <1>1, <1>3, <1>4 DEF RInv

\* While an execution is underway, its run is looked after.
LEMMA UnderwayKeeps ==
  ASSUME IInv, RInv, NEW t \in Token,
         RunStartMarked(t) \/ RunAgain(t) \/ RunSucceeds(t) \/ RunEndMarked(t)
  PROVE  RInv'
<1> DEFINE n == exec[t].msg
<1>1. Types /\ LedgerTyped /\ Executing(t) /\ n \in MsgId
  BY DEF IInv, Memory, GoodExec, Executing, ExecAt, RunStartMarked, RunAgain, RunSucceeds, RunEndMarked, RInv
<1>2. Completes({}) /\ NoNewClaim /\ poll' = poll /\ abandoned' = abandoned
  BY NothingCompletes DEF RunStartMarked, RunAgain, RunSucceeds, RunEndMarked, history
<1>3. PICK e : /\ exec' = [exec EXCEPT ![t] = e] /\ e.msg = n
               /\ \/ e.at \in Underway /\ (ledger' = ledger \/ Mark(n, "running"))
                  \/ e.at \in {"acking", "nacking"} /\ Mark(n, "ended")
  <2>1. CASE RunStartMarked(t) \/ RunAgain(t)
    <3> DEFINE e == [at |-> "run", msg |-> n, worker |-> exec[t].worker, lost |-> exec[t].lost]
    <3>1. exec' = [exec EXCEPT ![t] = e] /\ (ledger' = ledger \/ Mark(n, "running"))
      BY <2>1 DEF RunStartMarked, RunAgain, Enters
    <3>2. e.msg = n /\ e.at \in Underway
      BY DEF Underway
    <3> HIDE DEF e
    <3> QED BY <3>1, <3>2
  <2>2. CASE RunSucceeds(t) \/ RunEndMarked(t)
    <3>1. PICK at : /\ exec' = [exec EXCEPT ![t].at = at]
                    /\ \/ at \in Underway /\ ledger' = ledger
                       \/ at \in {"acking", "nacking"} /\ Mark(n, "ended")
      BY <2>2 DEF RunSucceeds, RunEndMarked, Underway
    <3> DEFINE e == [exec[t] EXCEPT !.at = at]
    <3>2. e.at = at /\ e.msg = n /\ exec' = [exec EXCEPT ![t] = e]
      BY <1>1, <3>1 DEF Types, ExecStates
    <3> HIDE DEF e
    <3> QED BY <3>1, <3>2
  <2> QED BY <2>1, <2>2
<1>4. exec'[t] = e
  BY <1>1, <1>3 DEF Types
<1>5. LedgerTyped' /\ \A m \in MsgId \ {n} : ledger'[m] = ledger[m]
  BY <1>1, <1>3 DEF LedgerTyped, Mark
<1>6. Mark(n, "ended") => n \in Ended'
  BY <1>1 DEF LedgerTyped, Mark, Ended
<1>7. n \in Covered'
  BY <1>1, <1>3, <1>4, <1>6 DEF Covered
<1>8. e.at = "acking" => n \in Ended'
  BY <1>3, <1>6 DEF Underway
<1> QED BY <1>1, <1>2, <1>3, <1>5, <1>7, <1>8, ExecKeeps

\* An execution leaves with its run recorded as over, or without a run.
LEMMA LeavesKeep ==
  ASSUME IInv, RInv, NEW t \in Token, Complete(t) \/ Suspend(t) \/ Finish(t)
  PROVE  RInv'
<1> DEFINE n == exec[t].msg
<1>1. Types /\ LedgerTyped /\ Executing(t) /\ n \in MsgId /\ exec[t] \in ExecStates
  BY DEF IInv, Types, Memory, GoodExec, Executing, ExecAt, Complete, Suspend, Finish, Marked, RInv
<1>2. poll' = poll /\ abandoned' = abandoned /\ ledger' = ledger
  BY DEF Complete, Suspend, Finish, history, files
<1>3. HasRun(n) => exec[t].at \notin Underway /\ (Complete(t) => exec[t].at = "acking")
  BY DEF Complete, Suspend, Finish, Marked, ExecAt, Underway
<1>4. PICK e : /\ exec' = [exec EXCEPT ![t] = e]
               /\ e.at = "none" \/ (e.at = "release" /\ e.msg = n)
  <2>1. CASE Complete(t) \/ Suspend(t)
    <3> DEFINE e == [exec[t] EXCEPT !.at = "release"]
    <3>1. e.at = "release" /\ e.msg = n /\ exec' = [exec EXCEPT ![t] = e]
      BY <1>1, <2>1 DEF Complete, Suspend, Leaves, Types, ExecStates
    <3> HIDE DEF e
    <3> QED BY <3>1
  <2>2. CASE Finish(t)
    <3>1. NoExec.at = "none" /\ exec' = [exec EXCEPT ![t] = NoExec]
      BY <2>2 DEF Finish, NoExec
    <3> QED BY <3>1
  <2> QED BY <2>1, <2>2
<1>5. PICK D : Completes(D) /\ NoNewClaim /\ (D = {} \/ (D = {n} /\ Current(t) /\ Complete(t)))
  <2>1. UNCHANGED vars => Completes({}) /\ NoNewClaim
    BY NothingCompletes
  <2>2. CASE Complete(t) /\ TryAck(t)
    <3>1. CASE Holds(t)
      <4>1. Current(t) /\ inflight[t].messageId = n
        BY <1>1, <3>1 DEF Holds, RInv, ExecClaims
      <4>2. Completes({n}) /\ NoNewClaim
        BY <1>1, <2>2, <4>1, TriedAckCompletes
      <4> QED BY <2>2, <4>1, <4>2
    <3>2. CASE ~Holds(t)
      <4>1. Completes({}) /\ NoNewClaim
        BY <1>1, <2>2, <3>2, TriedAckCompletes
      <4> QED BY <4>1
    <3> QED BY <3>1, <3>2
  <2>3. CASE Suspend(t) /\ TryNack(t, FALSE)
    <3>1. Completes({}) /\ NoNewClaim
      BY <1>1, <2>3, NackCompletes
    <3> QED BY <3>1
  <2>4. CASE UNCHANGED vars
    BY <2>1, <2>4
  <2> QED BY <2>2, <2>3, <2>4 DEF Complete, Suspend, Finish
<1>6. LedgerTyped' /\ Ended' = Ended /\ (HasRun(n) /\ n \in Covered => n \in Covered')
  <2>1. \A s \in Token \ {t} : exec'[s] = exec[s]
    BY <1>1, <1>4 DEF Types
  <2> QED BY <1>1, <1>2, <1>3, <2>1 DEF LedgerTyped, Ended, Covered
<1>7. ASSUME HasRun(n), records'[n].status = "completed" PROVE n \in Covered'
  <2>1. CASE records[n].status = "completed"
    BY <1>1, <1>6, <1>7, <2>1 DEF RInv, RunsKept
  <2>2. CASE records[n].status # "completed"
    <3>1. Current(t) /\ exec[t].at = "acking"
      BY <1>1, <1>3, <1>5, <1>7, <2>2 DEF Completes
    <3>2. n \in Ended
      BY <3>1 DEF RInv, RunsKept
    <3> QED BY <1>1, <1>6, <1>7, <3>2 DEF Covered
  <2> QED BY <2>1, <2>2
<1>8. HasRun(n) /\ poll.at = "cancelled" /\ poll.msg = n => n \in Covered'
  BY <1>6 DEF RInv, RunsKept
<1>9. /\ e.at # "none" => e.msg = n
      /\ e.at # "acking" /\ abandoned \subseteq abandoned'
      /\ \A m \in MsgId \ {n} : ledger'[m] = ledger[m]
  BY <1>2, <1>4
<1> QED BY <1>1, <1>2, <1>4, <1>5, <1>6, <1>7, <1>8, <1>9, ExecKeeps

\* A failed run is recorded as over, or its claim is kept for a retry, or the
\* claim is gone and the run given up.
LEMMA FailureKeeps ==
  ASSUME IInv, RInv, NEW t \in Token, NEW o, RunFails(t, o)
  PROVE  RInv'
<1> DEFINE n == exec[t].msg
<1>1. /\ Types /\ LedgerTyped /\ Executing(t) /\ n \in MsgId /\ exec[t] \in ExecStates
      /\ poll' = poll /\ ledger' = ledger
  BY DEF IInv, Types, Memory, GoodExec, Executing, ExecAt, RunFails, RInv
<1>2. LedgerTyped'
  BY <1>1 DEF LedgerTyped
<1>3. CASE UNCHANGED <<vars, abandoned>> /\ exec' = [exec EXCEPT ![t].at = "suspending"]
  <2> DEFINE e == [exec[t] EXCEPT !.at = "suspending"]
  <2>1. e.at = "suspending" /\ e.msg = n /\ exec' = [exec EXCEPT ![t] = e]
    BY <1>1, <1>3 DEF Types, ExecStates
  <2> HIDE DEF e
  <2>2. exec'[t] = e /\ n \in Covered'
    BY <1>1, <2>1 DEF Types, Covered, Underway
  <2> QED BY <1>1, <1>2, <1>3, <2>1, <2>2, NothingCompletes, ExecKeeps
<1>4. CASE abandoned' = abandoned \cup Forsaken(t) /\ Leaves(t) /\ DeferRetry(t)
  <2> DEFINE e == [exec[t] EXCEPT !.at = "release"]
  <2>1. e.at = "release" /\ e.msg = n /\ exec' = [exec EXCEPT ![t] = e]
    BY <1>1, <1>4 DEF Leaves, Types, ExecStates
  <2> HIDE DEF e
  <2>2. Completes({}) /\ NoNewClaim
    BY <1>1, <1>4, NothingCompletes, NackCompletes DEF DeferRetry
  <2>3. CASE Holds(t)
    <3>1. records[n].status = "inflight" /\ (InHand => poll.msg # n)
      <4>1. Current(t) /\ inflight[t].messageId = n
        BY <1>1, <2>3 DEF Holds, RInv, ExecClaims
      <4> QED BY <1>1, <4>1, PollApart DEF Current
    <3>2. records'[n].status # "completed" /\ ~(poll.at = "cancelled" /\ poll.msg = n)
      BY <1>1, <2>2, <3>1 DEF Completes, InHand
    <3> QED BY <1>1, <1>2, <1>4, <2>1, <2>2, <3>2, ExecKeeps
  <2>4. CASE ~Holds(t)
    <3>1. n \in Covered'
      BY <1>1, <1>4, <2>4 DEF Covered, Forsaken
    <3> QED BY <1>1, <1>2, <1>4, <2>1, <2>2, <3>1, ExecKeeps
  <2> QED BY <2>3, <2>4
<1> QED BY <1>3, <1>4 DEF RunFails

\* A process that dies leaves the runs of the claims that it held to their
\* redelivery, and gives up the others.
LEMMA RestartRuns ==
  ASSUME IInv, RInv, Restart
  PROVE  RInv'
<1>1. /\ poll'.at = "off" /\ ledger' = ledger /\ UNCHANGED <<records, inflight>>
      /\ \A t \in Token : exec'[t].at = "none"
      /\ abandoned' = abandoned \cup UNION {Forsaken(t) : t \in {t \in Token : exec[t].at \in Fenced}}
  BY DEF Restart, NoPoll, NoExec, vars, queueVars, files
<1>2. ASSUME NEW m \in MsgId, HasRun(m), records[m].status = "completed" PROVE m \in Covered'
  <2>1. m \in Covered
    BY <1>2 DEF RInv, RunsKept
  <2>2. ASSUME NEW t \in Token, exec[t].at \in Underway, exec[t].msg = m PROVE m \in Covered'
    <3>1. ~Holds(t)
      <4>1. Executing(t)
        BY <2>2 DEF Executing, Underway
      <4> QED BY <1>2, <2>2, <4>1 DEF Holds, Current, RInv, ExecClaims
    <3>2. m \in Forsaken(t) /\ exec[t].at \in Fenced
      BY <2>2, <3>1 DEF Forsaken, Underway, Fenced
    <3>3. m \in abandoned'
      BY <1>1, <3>2
    <3> QED BY <3>3 DEF Covered
  <2> QED BY <1>1, <2>1, <2>2 DEF Covered, Ended
<1>3. RunsKept'
  BY <1>1, <1>2 DEF RunsKept
<1> QED BY <1>1, <1>3 DEF RInv, LedgerTyped, ExecClaims, PollClaims, Executing, InHand

-----------------------------------------------------------------------------
(* The theorem *)

LEMMA RunsInit ==
  ASSUME SupInit
  PROVE  RInv
<1>1. /\ records = [m \in MsgId |-> Absent] /\ ledger = [m \in MsgId |-> "queued"]
      /\ exec = [t \in Token |-> NoExec] /\ poll = NoPoll
  BY DEF SupInit, Init, FreshMemory
<1>2. \A m \in MsgId : records[m].status = "absent"
  BY <1>1 DEF Absent
<1>3. poll.at = "off" /\ \A t \in Token : exec[t].at = "none"
  BY <1>1 DEF NoPoll, NoExec
<1> QED BY <1>1, <1>2, <1>3 DEF RInv, LedgerTyped, RunsKept, ExecClaims, PollClaims, Executing, InHand

\* A background run whose activation the queue has as completed was recorded as
\* ended or cancelled, or is about to be, however claims are lost, redelivered and
\* coalesced and wherever the process dies: the record is written before the ack,
\* and whoever writes "running" again does not complete that claim.
THEOREM RunsAreAccounted == SupSpec => []RunAccounted
<1>1. SupInit => RInv
  BY RunsInit
<1>2. IInv /\ RInv /\ [SupNext]_allVars => RInv'
  <2> SUFFICES ASSUME IInv, RInv, [SupNext]_allVars PROVE RInv'
    OBVIOUS
  <2>1. CASE PollStep
    BY <2>1, ClaimKeeps, PollRests, AcksKeep, CoalescedKeeps, StartRuns DEF PollStep
  <2>2. ASSUME NEW t \in Token, ExecStep(t) PROVE RInv'
    BY <2>2, UnderwayKeeps, FailureKeeps, LeavesKeep DEF ExecStep, RunEnds
  <2>3. CASE Restart
    BY <2>3, RestartRuns
  <2> QED BY <2>1, <2>2, <2>3, OutsideRests DEF SupNext
<1>3. RInv => RunAccounted
  BY DEF RInv, RunsKept, Covered, Ended, RunAccounted, Executing, Underway
<1> QED BY <1>1, <1>2, <1>3, SupervisorInvariance, PTL DEF SupSpec

-----------------------------------------------------------------------------
(* The supervisor and the queue *)

\* An ack or nack the queue may refuse is a step of the queue or none.
LEMMA TriedIsStep ==
  ASSUME NEW t \in Token
  PROVE  /\ TryAck(t) => [Next]_vars
         /\ \A requeue \in BOOLEAN : TryNack(t, requeue) => [Next]_vars
  BY DEF TryAck, TryNack, Next

\* Every step of the supervisor makes a step of the queue, or leaves it alone.
LEMMA QueueStep == IInv /\ [SupNext]_allVars => [Next]_vars
<1> SUFFICES ASSUME IInv, [SupNext]_allVars PROVE [Next]_vars
  OBVIOUS
<1>1. CASE Environment \/ UNCHANGED allVars
  BY <1>1 DEF Environment, Next, allVars
<1>2. ASSUME NEW m \in MsgId, ActivateGoal(m) PROVE [Next]_vars
  BY <1>2 DEF ActivateGoal, Next
<1>3. ASSUME NEW g \in Goal, DeactivateGoal(g) PROVE [Next]_vars
  BY <1>3 DEF DeactivateGoal
<1>4. CASE PollStep
  <2>1. CASE \/ PollStart \/ Start \/ AcquireLease
             \/ CoalescedRun("coalesced", "cancelling", "running")
             \/ CoalescedRun("cancelling", "cancelled", "cancelled")
    BY <2>1 DEF PollStart, Start, AcquireLease, CoalescedRun
  <2>2. CASE PollEnds
    BY <2>2, SupervisorAssumption DEF PollEnds, Next, Claim
  <2>3. ASSUME NEW w \in Worker, PollClaim(w) PROVE [Next]_vars
    BY <2>3, SupervisorAssumption DEF PollClaim, Next, Claim
  <2>4. CASE Coalesce \/ CoalescedRunSettled \/ SkipStopped \/ SkipSuspended \/ LeaseUnavailable \/ StopSeen
    <3>1. poll.token \in Token
      BY <2>4 DEF IInv, GoodPoll, InHand, Coalesce, CoalescedRunSettled, SkipStopped, SkipSuspended,
                  LeaseUnavailable, StopSeen
    <3>2. UNCHANGED vars \/ TryAck(poll.token) \/ \E requeue \in BOOLEAN : TryNack(poll.token, requeue)
      BY <2>4 DEF Coalesce, CoalescedRunSettled, SkipStopped, SkipSuspended, LeaseUnavailable, StopSeen
    <3> QED
      BY <3>1, <3>2, TriedIsStep
  <2> QED
    BY <1>4, <2>1, <2>2, <2>3, <2>4 DEF PollStep
<1>5. ASSUME NEW t \in Token, ExecStep(t) PROVE [Next]_vars
  <2>1. CASE RunStartMarked(t) \/ RunAgain(t) \/ RunSucceeds(t) \/ RunEndMarked(t) \/ Finish(t)
    BY <2>1 DEF RunStartMarked, RunAgain, RunSucceeds, RunEndMarked, Finish
  <2>2. CASE Complete(t) \/ Suspend(t)
    BY <2>2, TriedIsStep DEF Complete, Suspend
  <2>3. ASSUME NEW o \in {"error", "throw"}, RunFails(t, o) PROVE [Next]_vars
    <3>1. UNCHANGED vars \/ DeferRetry(t)
      BY <2>3 DEF RunFails
    <3>2. UNCHANGED vars \/ Renew(t, BackoffMs + 1)
      BY <3>1 DEF DeferRetry
    <3> QED
      BY <3>2, SupervisorAssumption DEF Next
  <2> QED
    BY <1>5, <2>1, <2>2, <2>3 DEF ExecStep, RunEnds
<1>6. ASSUME NEW t \in Token, RenewOwnership(t) PROVE [Next]_vars
  BY <1>6, SupervisorAssumption DEF RenewOwnership, Next
<1>7. ASSUME NEW t \in Token, RetryDue(t) PROVE [Next]_vars
  BY <1>7, TriedIsStep DEF RetryDue
<1>8. CASE Shutdown \/ Restart
  BY <1>8 DEF Shutdown, Restart
<1> QED
  BY <1>1, <1>2, <1>3, <1>4, <1>5, <1>6, <1>7, <1>8 DEF SupNext

\* The supervisor implements the queue's specification: whatever the poll, the
\* executions, the renewals, the retries and restarts do, the journal moves by
\* its own operations alone, so all that is proved of it holds under the daemon.
THEOREM SupervisorUsesQueue == SupSpec => Spec
<1>1. SupInit => Init
  BY DEF SupInit
<1> QED
  BY <1>1, QueueStep, SupervisorInvariance, PTL DEF SupSpec, Spec

\* The types of what IInv does not speak of.
RestTyped ==
  /\ running \in BOOLEAN
  /\ status \in [Worker -> {"idle", "running", "crashed"}]
  /\ extend \in [Worker -> BOOLEAN]
  /\ ledger \in [MsgId -> {"queued", "running", "cancelled", "ended"}] /\ abandoned \subseteq MsgId
  /\ crashCounts \in [Goal -> Nat] /\ savedCounts \in [Goal -> Nat]
  /\ suspended \subseteq Goal /\ stopped \subseteq Goal

LEMMA RestInit == SupInit => RestTyped
<1>1. SupInit => crashCounts \in [Goal -> Nat] /\ ledger \in [MsgId -> {"queued", "running", "cancelled", "ended"}]
  BY DEF SupInit
<1> QED
  BY <1>1 DEF SupInit, FreshMemory, RestTyped

\* The message of an execution and of the dispatch in hand is one, with its goal.
LEMMA InHandTyped ==
  ASSUME IInv
  PROVE  /\ InHand => poll.msg \in MsgId /\ PollGoal \in Goal
         /\ \A t \in Token : Executing(t) => exec[t].msg \in MsgId /\ ExecGoal(t) \in Goal
  BY SupervisorAssumption DEF IInv, Memory, GoodPoll, GoodExec, PollGoal, ExecGoal, GoalOf

LEMMA RestStep == IInv /\ RestTyped /\ [SupNext]_allVars => RestTyped'
<1> SUFFICES ASSUME IInv, RestTyped, [SupNext]_allVars PROVE RestTyped'
  OBVIOUS
<1>a. /\ \A g \in Goal : crashCounts[g] \in Nat /\ crashCounts[g] + 1 \in Nat
      /\ crashCounts = [g \in Goal |-> crashCounts[g]]
  BY DEF RestTyped
<1>1. CASE Environment \/ Shutdown \/ UNCHANGED allVars \/ \E g \in Goal : DeactivateGoal(g)
  BY <1>1 DEF Environment, Shutdown, DeactivateGoal, allVars, supVars, memory, files, history, RestTyped
<1>2. ASSUME NEW m \in MsgId, ActivateGoal(m) PROVE RestTyped'
  BY <1>2 DEF ActivateGoal, files, history, RestTyped
<1>3. CASE PollStep
  <2>1. CASE \/ PollStart \/ PollEnds \/ CoalescedRunSettled \/ SkipSuspended \/ LeaseUnavailable
             \/ \E w \in Worker : PollClaim(w)
    BY <2>1 DEF PollStart, PollEnds, CoalescedRunSettled, SkipSuspended, LeaseUnavailable, PollClaim,
                Polled, files, history, RestTyped
  <2>2. CASE AcquireLease \/ StopSeen
    BY <2>2 DEF AcquireLease, StopSeen, history, RestTyped
  <2>3. CASE Coalesce
    BY <2>3 DEF Coalesce, files, history, RestTyped
  <2>4. ASSUME NEW from, NEW to, NEW st \in {"running", "cancelled"}, CoalescedRun(from, to, st) PROVE RestTyped'
    BY <2>4 DEF CoalescedRun, Mark, history, RestTyped
  <2>5. CASE SkipStopped
    <3>1. poll.msg \in MsgId
      BY <2>5, InHandTyped DEF SkipStopped, InHand
    <3> QED
      BY <2>5, <3>1 DEF SkipStopped, files, RestTyped
  <2>6. CASE Start
    BY <2>6 DEF Start, Enters, PersistState, history, RestTyped
  <2> QED
    BY <1>3, <2>1, <2>2, <2>3, <2>4, <2>5, <2>6 DEF PollStep
<1>4. ASSUME NEW t \in Token, ExecStep(t) PROVE RestTyped'
  <2>1. CASE RunStartMarked(t) \/ RunAgain(t)
    BY <2>1 DEF RunStartMarked, RunAgain, Enters, Mark, PersistState, history, RestTyped
  <2>2. CASE RunSucceeds(t)
    BY <2>2 DEF RunSucceeds, PersistState, history, RestTyped
  <2>3. CASE RunEndMarked(t)
    BY <2>3 DEF RunEndMarked, Mark, history, RestTyped
  <2>4. CASE Complete(t) \/ Suspend(t)
    BY <2>4 DEF Complete, Suspend, files, history, RestTyped
  <2>5. CASE Finish(t)
    BY <2>5 DEF Finish, PersistState, history, RestTyped
  <2>6. ASSUME NEW o \in {"error", "throw"}, RunFails(t, o) PROVE RestTyped'
    <3>1. exec[t].msg \in MsgId /\ ExecGoal(t) \in Goal
      BY <2>6, InHandTyped DEF RunFails, ExecAt, Executing
    <3>2. /\ status' = [status EXCEPT ![exec[t].worker] = FailedStatus(o)]
          /\ crashCounts' = [crashCounts EXCEPT ![ExecGoal(t)] = @ + 1]
          /\ savedCounts' = crashCounts \/ savedCounts' = savedCounts
          /\ suspended' = suspended \cup {ExecGoal(t)} \/ suspended' = suspended
          /\ abandoned' = abandoned \cup Forsaken(t) \/ abandoned' = abandoned
          /\ UNCHANGED <<running, extend, stopped, ledger>>
      BY <2>6 DEF RunFails, PersistState
    <3>3. FailedStatus(o) \in {"idle", "crashed"} /\ Forsaken(t) \subseteq MsgId
      BY <3>1 DEF FailedStatus, Forsaken
    <3>4. crashCounts' \in [Goal -> Nat]
      BY <1>a, <3>1, <3>2
    <3>5. status' \in [Worker -> {"idle", "running", "crashed"}]
      BY <3>2, <3>3 DEF RestTyped
    <3> QED
      BY <3>1, <3>2, <3>3, <3>4, <3>5 DEF RestTyped
  <2> QED
    BY <1>4, <2>1, <2>2, <2>3, <2>4, <2>5, <2>6 DEF ExecStep, RunEnds
<1>5. ASSUME NEW t \in Token, RenewOwnership(t) \/ RetryDue(t) PROVE RestTyped'
  BY <1>5 DEF RenewOwnership, RetryDue, files, history, RestTyped
<1>6. CASE Restart
  <2>1. \A t \in Token : exec[t].at \in Fenced => Forsaken(t) \subseteq MsgId
    BY InHandTyped DEF Fenced, Executing, Forsaken
  <2>2. UNION {Forsaken(t) : t \in {t \in Token : exec[t].at \in Fenced}} \subseteq MsgId
    BY <2>1
  <2> QED
    BY <1>6, <2>2 DEF Restart, LoadState, files, RestTyped
<1> QED
  BY <1>1, <1>2, <1>3, <1>4, <1>5, <1>6 DEF SupNext

\* Every variable of the supervisor and of its queue keeps its type.
THEOREM SupervisorIsTyped == SupSpec => []SupTypeOK
<1>1. IInv /\ RestTyped /\ TypeOK => SupTypeOK
  BY DEF IInv, Types, PollStates, PollSteps, ExecStates, Leases, RestTyped, SupTypeOK
<1> QED
  BY <1>1, SupervisorInvariance, RestInit, RestStep, SupervisorUsesQueue, QueueIsTyped, PTL DEF SupSpec
=============================================================================
