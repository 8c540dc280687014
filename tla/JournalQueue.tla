---------------------------- MODULE JournalQueue ----------------------------
(***************************************************************************)
(* The durable message queue of the runtime daemon                         *)
(* (runtime/queue/journal-backed-queue.ts).  Its whole state is one JSON   *)
(* file: records by message id, a pending bucket of ids per priority, and  *)
(* the inflight claims by claim token.  Every operation runs inside        *)
(* withLockedState - take the journal lock, load and normalize the file,   *)
(* mutate, rename the new file into place, release - so an operation is    *)
(* one action here; module JournalLock opens that bracket up.  A crash     *)
(* leaves either the old or the new file, so it is no action of its own.   *)
(*                                                                         *)
(* A call that changes nothing (a duplicate accept, an ack with a dead     *)
(* token) is a stuttering step.  Workers are not named: nothing in the     *)
(* queue depends on workerId, and a claim is known by its token.           *)
(***************************************************************************)
EXTENDS Integers, SequencesExt

CONSTANTS
  MsgId,        \* envelope ids
  Envelope,     \* the envelope of each id: priority, dedupe_key, kind, created_at, ttl_ms
  NoKey,        \* an envelope without a dedupe_key
  NoMsg,        \* no envelope id
  Filters,      \* what the consumers claim: each filter is a set of envelope kinds
  LeaseMs,      \* lease durations consumers ask for
  MaxAttempts,  \* maxAttempts option (RUNTIME_JOURNAL_MAX_ATTEMPTS in the daemon)
  Requeueable,    \* messages that operators may requeue by id
  Deadletterable, \* messages that operators may dead-letter by id
  MaxNow,       \* bound on the clock
  MaxTokens     \* bound on the claim tokens ever generated

Priority == 1..4       \* PRIORITY_ORDER: critical, high, normal, low
Token == 1..MaxTokens  \* randomUUID(): the i-th token generated
NoToken == 0

ASSUME BoundsAssumption ==
  MaxAttempts \in Nat \ {0} /\ MaxNow \in Nat /\ MaxTokens \in Nat
ASSUME LeaseAssumption == LeaseMs \subseteq Nat \ {0}
ASSUME NoMsgAssumption == NoMsg \notin MsgId
ASSUME EnvelopeAssumption ==
  \A m \in MsgId : /\ Envelope[m].priority \in Priority
                   /\ Envelope[m].created_at \in Nat
                   /\ Envelope[m].ttl_ms \in Nat

VARIABLES
  now,       \* Date.now()
  records,   \* state.records; status "absent" is a missing entry
  pending,   \* state.pending
  inflight,  \* state.inflight; messageId NoMsg is a missing entry
  issued,    \* number of tokens generated so far
  granted    \* what the holder of each token was last told by claim or renew

queueVars == <<records, pending, inflight, issued, granted>>
vars == <<now, queueVars>>

-----------------------------------------------------------------------------
(* State *)

Status == {"absent", "pending", "inflight", "completed", "deadletter"}
Record == [status : Status, attempt : Nat, claimToken : Nat, leaseUntil : Nat]
Claims == [messageId : MsgId, leaseUntil : Nat, attempt : Nat]
Grants == [messageId : MsgId, leaseUntil : Nat]

Absent  == [status |-> "absent", attempt |-> 0, claimToken |-> NoToken, leaseUntil |-> 0]
Fresh   == [status |-> "pending", attempt |-> 0, claimToken |-> NoToken, leaseUntil |-> 0]
ClaimedBy(t, attempt, until) ==
  [status |-> "inflight", attempt |-> attempt, claimToken |-> t, leaseUntil |-> until]
NoClaim == [messageId |-> NoMsg, leaseUntil |-> 0, attempt |-> 0]
NoGrant == [messageId |-> NoMsg, leaseUntil |-> 0]

Init ==
  /\ now = 0
  /\ records = [m \in MsgId |-> Absent]
  /\ pending = [p \in Priority |-> <<>>]
  /\ inflight = [t \in Token |-> NoClaim]
  /\ issued = 0
  /\ granted = [t \in Token |-> NoGrant]

-----------------------------------------------------------------------------
(* Helpers.  A definition named for a slip, such as PushNormal before Push, is
   a wrong variant of the one it precedes: PROJECT.json pairs it with the
   property that notices the slip. *)

PriorityOf(m) == Envelope[m].priority
KeyOf(m) == Envelope[m].dedupe_key

Expired(m) == Envelope[m].created_at + Envelope[m].ttl_ms <= now

\* The record a message keeps once nobody holds a claim on it.
Unclaimed(m, st) ==
  [status |-> st, attempt |-> records[m].attempt, claimToken |-> NoToken, leaseUntil |-> 0]

\* A record, put into st and shorn of its claim, when attempts remain.
ReturnedLate(m) == Unclaimed(m, IF records[m].attempt > MaxAttempts THEN "deadletter" ELSE "pending")
ReturnedMislabelled(m) == Unclaimed(m, IF records[m].attempt >= MaxAttempts THEN "failed" ELSE "pending")
Returned(m) == Unclaimed(m, IF records[m].attempt >= MaxAttempts THEN "deadletter" ELSE "pending")

\* The numbers in K, in ascending order.
InOrder(K) == [k \in 1..Cardinality(K) |-> CHOOSE i \in K : Cardinality({j \in K : j <= i}) = k]

\* Bucket s without the ids in S.
Without(s, S) ==
  LET kept == InOrder({i \in DOMAIN s : s[i] \notin S}) IN [k \in DOMAIN kept |-> s[kept[k]]]

PushNormal(m) == [pending EXCEPT ![3] = Append(@, m)]
Push(m) == [pending EXCEPT ![PriorityOf(m)] = Append(@, m)]
RemovePending(S) == [p \in Priority |-> Without(pending[p], S)]

\* t is the live claim of its message: the record agrees with the index.
Current(t) ==
  /\ inflight[t].messageId \in MsgId
  /\ records[inflight[t].messageId].status = "inflight"
  /\ records[inflight[t].messageId].claimToken = t

\* The fence of renew, ack and nack: a live claim whose lease is not over.
Holds(t) == Current(t) /\ records[inflight[t].messageId].leaseUntil > now

\* The scan of claim() meets x before m.
Ahead(x, m) ==
  \E p, q \in Priority : \E i \in DOMAIN pending[p], j \in DOMAIN pending[q] :
    /\ pending[p][i] = x /\ pending[q][j] = m
    /\ p < q \/ (p = q /\ i < j)

Queued(m) == \E p \in Priority : \E i \in DOMAIN pending[p] : pending[p][i] = m
Claimable(m, F) ==
  Queued(m) /\ records[m].status = "pending" /\ ~Expired(m) /\ Envelope[m].kind \in F

\* Entries the scan throws away: no longer pending, or past their time to live.
DroppableStale(m) == Queued(m) /\ records[m].status # "pending"
Droppable(m) == Queued(m) /\ (records[m].status # "pending" \/ Expired(m))

\* The records after the scan dropped the entries in D.
Buried(D) ==
  [m \in MsgId |-> IF m \in D /\ records[m].status = "pending"
                   THEN Unclaimed(m, "deadletter") ELSE records[m]]

-----------------------------------------------------------------------------
(* Operations *)

Active(m) == records[m].status \in {"pending", "inflight"}
SameKeyPending(m) ==
  {x \in MsgId : KeyOf(m) # NoKey /\ KeyOf(x) = KeyOf(m) /\ records[x].status = "pending"}
SameKeyEver(m) ==
  {x \in MsgId : KeyOf(m) # NoKey /\ KeyOf(x) = KeyOf(m) /\ records[x].status # "absent"}
SameKey(m) == {x \in MsgId : KeyOf(m) # NoKey /\ KeyOf(x) = KeyOf(m) /\ Active(x)}

\* accept: a new id, not expired; a claim in flight for its key refuses it,
\* older pending messages with its key are replaced by it.
Accept(m) ==
  /\ Envelope[m].created_at <= now
  /\ records[m].status = "absent"
  /\ ~Expired(m)
  /\ \A x \in SameKey(m) : records[x].status # "inflight"
  /\ records' = [x \in MsgId |-> IF x = m THEN Fresh
                                 ELSE IF x \in SameKey(m) THEN Absent ELSE records[x]]
  /\ pending' = [RemovePending(SameKey(m)) EXCEPT ![PriorityOf(m)] = Append(@, m)]
  /\ UNCHANGED <<now, inflight, issued, granted>>

\* claim: the first message of the scan that matches gets a fresh token;
\* stale and expired entries met on the way go.
ClaimMessage(m, F, lease) ==
  LET t == issued + 1
      D == {x \in MsgId : Droppable(x) /\ Ahead(x, m)}
  IN
  /\ issued < MaxTokens
  /\ Claimable(m, F)
  /\ \A x \in MsgId : Ahead(x, m) => ~Claimable(x, F)
  /\ issued' = t
  /\ pending' = RemovePending(D \cup {m})
  /\ records' = [Buried(D) EXCEPT ![m] =
                   ClaimedBy(t, records[m].attempt + 1, now + lease)]
  /\ inflight' = [inflight EXCEPT ![t] =
                   [messageId |-> m, leaseUntil |-> now + lease, attempt |-> records[m].attempt + 1]]
  /\ granted' = [granted EXCEPT ![t] = [messageId |-> m, leaseUntil |-> now + lease]]
  /\ UNCHANGED now

\* claim that finds nothing still persists the entries it dropped.
ClaimNothing(F) ==
  LET D == {x \in MsgId : Droppable(x)} IN
  /\ \A x \in MsgId : ~Claimable(x, F)
  /\ D # {}
  /\ pending' = RemovePending(D)
  /\ records' = Buried(D)
  /\ UNCHANGED <<now, inflight, issued, granted>>

Claim(F) == ClaimNothing(F) \/ \E m \in MsgId, lease \in LeaseMs : ClaimMessage(m, F, lease)

\* renew: the lease is extended in the record and in the index.  (The branch
\* that forgets a token whose record has moved on is dead code: ClaimAgreement.)
Renew(t, lease) ==
  LET m == inflight[t].messageId
      until == now + lease
  IN
  /\ Holds(t)
  /\ until <= MaxNow
  /\ records' = [records EXCEPT ![m] = ClaimedBy(t, records[m].attempt, until)]
  /\ inflight' = [inflight EXCEPT ![t] =
                   [messageId |-> m, leaseUntil |-> until, attempt |-> inflight[t].attempt]]
  /\ granted' = [granted EXCEPT ![t] = [messageId |-> m, leaseUntil |-> until]]
  /\ UNCHANGED <<now, pending, issued>>

\* ack
Ack(t) ==
  /\ Holds(t)
  /\ records' = [records EXCEPT ![inflight[t].messageId] = Unclaimed(inflight[t].messageId, "completed")]
  /\ inflight' = [inflight EXCEPT ![t] = NoClaim]
  /\ granted' = [granted EXCEPT ![t] = NoGrant]
  /\ UNCHANGED <<now, pending, issued>>

\* nack: back to its bucket while the caller asks for it and attempts remain.
Nack(t, requeue) ==
  LET m == inflight[t].messageId
      back == requeue /\ records[m].attempt < MaxAttempts
  IN
  /\ Holds(t)
  /\ records' = [records EXCEPT ![m] = Unclaimed(m, IF back THEN "pending" ELSE "deadletter")]
  /\ pending' = IF back THEN Push(m) ELSE pending
  /\ inflight' = [inflight EXCEPT ![t] = NoClaim]
  /\ granted' = [granted EXCEPT ![t] = NoGrant]
  /\ UNCHANGED <<now, issued>>

\* The index without the claim that the record of m names, if any.
UnclaimNothing(m) == inflight
Unclaim(m) ==
  IF records[m].status = "inflight"
  THEN [inflight EXCEPT ![records[m].claimToken] = NoClaim] ELSE inflight

\* requeue, by message id: also takes a claim in flight away from its holder.
Requeue(m) ==
  /\ m \in Requeueable
  /\ records[m].status \in {"inflight", "deadletter"}
  /\ inflight' = Unclaim(m)
  /\ records' = [records EXCEPT ![m] = Unclaimed(m, "pending")]
  /\ pending' = Push(m)
  /\ UNCHANGED <<now, issued, granted>>

\* deadletter, by message id: any record, whatever its status.
Deadletter(m) ==
  /\ m \in Deadletterable
  /\ records[m].status # "absent"
  /\ inflight' = Unclaim(m)
  /\ records' = [records EXCEPT ![m] = Unclaimed(m, "deadletter")]
  /\ pending' = RemovePending({m})
  /\ UNCHANGED <<now, issued, granted>>

\* sweepExpiredClaims: one call settles every claim whose lease is over, in
\* the order of the index, which is the order the claims were made in.
OverdueEarly == {t \in Token : inflight[t].messageId \in MsgId /\ inflight[t].leaseUntil <= now + 1}
OverdueNever == {}
Overdue == {t \in Token : inflight[t].messageId \in MsgId /\ inflight[t].leaseUntil <= now}
Reclaimed == {m \in MsgId : \E t \in Overdue : Current(t) /\ inflight[t].messageId = m}

ReclaimedNowhere(p) == <<>>
ReclaimedInOrder(p) ==
  LET ts == InOrder({t \in Overdue : /\ Current(t)
                                      /\ PriorityOf(inflight[t].messageId) = p
                                      /\ records[inflight[t].messageId].attempt < MaxAttempts})
  IN [i \in DOMAIN ts |-> inflight[ts[i]].messageId]

SweepExpiredClaims ==
  /\ Overdue # {}
  /\ inflight' = [t \in Token |-> IF t \in Overdue THEN NoClaim ELSE inflight[t]]
  /\ records' = [m \in MsgId |-> IF m \in Reclaimed THEN Returned(m) ELSE records[m]]
  /\ pending' = [p \in Priority |-> pending[p] \o ReclaimedInOrder(p)]
  /\ UNCHANGED <<now, issued, granted>>

Tick == now < MaxNow /\ now' = now + 1 /\ UNCHANGED queueVars

Next ==
  \/ Tick
  \/ SweepExpiredClaims
  \/ \E F \in Filters : Claim(F)
  \/ \E m \in MsgId : Accept(m) \/ Requeue(m) \/ Deadletter(m)
  \/ \E t \in Token : \/ Ack(t)
                      \/ \E requeue \in BOOLEAN : Nack(t, requeue)
                      \/ \E lease \in LeaseMs : Renew(t, lease)

Spec == Init /\ [][Next]_vars

\* The sweeper and the consumers' polls are intervals of the daemon; nothing
\* obliges a holder to renew, ack or nack.
Fairness ==
  /\ WF_vars(Tick)
  /\ WF_vars(SweepExpiredClaims)
  /\ \A F \in Filters : WF_vars(Claim(F))

FairSpec == Spec /\ Fairness
-----------------------------------------------------------------------------
(* What load() makes of the file: normalizeState drops pending and inflight
   entries their record contradicts and adds those a record calls for. *)

NormalPending(p) ==
  LET kept == Without(pending[p], {m \in MsgId : records[m].status # "pending"})
      missing == {m \in MsgId : /\ records[m].status = "pending" /\ PriorityOf(m) = p
                                /\ \A i \in DOMAIN kept : kept[i] # m}
  IN kept \o SetToSeq(missing)

NormalInflight(t) ==
  LET named == {m \in MsgId : records[m].status = "inflight" /\ records[m].claimToken = t} IN
  IF named = {} THEN NoClaim
  ELSE LET m == CHOOSE m \in named : TRUE IN
       [messageId |-> m, leaseUntil |-> records[m].leaseUntil, attempt |-> records[m].attempt]

-----------------------------------------------------------------------------
(* Properties *)

\* Every variable keeps its type.
RecordsTyped ==
  /\ now \in Nat
  /\ issued \in 0..MaxTokens
  /\ records \in [MsgId -> Record]
  /\ inflight \in [Token -> Claims \cup {NoClaim}]
  /\ granted \in [Token -> Grants \cup {NoGrant}]
TypeOK == RecordsTyped /\ pending \in [Priority -> Seq(MsgId)]

\* The inflight index and the records name the same claims: each entry of
\* state.inflight is the claim its record carries, with the same lease and
\* attempt, and each inflight record is in the index under its own token.
ClaimAgreement ==
  /\ \A t \in Token : inflight[t].messageId \in MsgId =>
       LET r == records[inflight[t].messageId] IN
       /\ r.status = "inflight" /\ r.claimToken = t
       /\ r.leaseUntil = inflight[t].leaseUntil
       /\ r.attempt = inflight[t].attempt
  /\ \A m \in MsgId : records[m].status = "inflight" =>
       /\ records[m].claimToken \in 1..issued
       /\ inflight[records[m].claimToken].messageId = m

Occurrences(m, p) == Cardinality({i \in DOMAIN pending[p] : pending[p][i] = m})

\* No message is lost and none is queued twice: whatever accept, claim, nack,
\* requeue, deadletter and the sweeper did before, a pending record stands
\* exactly once, in the bucket of its own priority, and nothing else stands there.
PendingExact ==
  \A m \in MsgId, p \in Priority :
    Occurrences(m, p) = IF records[m].status = "pending" /\ p = PriorityOf(m) THEN 1 ELSE 0

\* A restart, or another process reading the journal, sees the queue as it is:
\* normalizeState on load finds nothing to drop, add or reorder.
LoadIsIdentity ==
  /\ \A p \in Priority : NormalPending(p) = pending[p]
  /\ \A t \in Token : NormalInflight(t) = inflight[t]

Unexpired(t) == granted[t].messageId \in MsgId \ Requeueable /\ granted[t].leaseUntil > now

\* Two holders never both believe, from the replies of claim and renew, that
\* they own the same message: a message is handed out again only once the last
\* lease promised for it is over or its holder has settled it.  (An operator who
\* requeues a message by id does take it from its holder: it is left out.)
LeaseExclusive ==
  \A s, t \in Token :
    s # t /\ Unexpired(s) /\ Unexpired(t) => granted[s].messageId # granted[t].messageId

\* A dedupe_key has at most one pending or inflight message, through
\* replacement by accept, redelivery and reclaiming.  (Requeue by id looks at no
\* key.)
OneActivePerKey ==
  \A m, x \in MsgId \ Requeueable :
    m # x /\ KeyOf(m) # NoKey /\ KeyOf(x) = KeyOf(m) => ~(Active(m) /\ Active(x))

\* However nacks, expired leases and sweeps alternate, no message is handed
\* out more than maxAttempts times.  (Requeue by id gives no attempt back, and
\* asks for none.)
AttemptsBounded ==
  \A m \in MsgId \ Requeueable :
    /\ records[m].attempt <= MaxAttempts
    /\ records[m].status = "pending" => records[m].attempt < MaxAttempts

\* A message is completed at most once and stays so: no sweep, late nack,
\* duplicate accept or replacement brings it back.  (Only deadletter by id may
\* relabel it.)
CompletedIsFinal ==
  [][\A m \in MsgId : records[m].status = "completed" =>
       records'[m].status \in {"completed", "deadletter"}]_vars

\* Work a dead holder left behind is not stuck: with the sweeper and the polls
\* running, every accepted message ends up completed, dead-lettered or replaced.
EventuallySettled ==
  \A m \in MsgId : Active(m) ~> ~Active(m)

-----------------------------------------------------------------------------
(* The queue implements bounded, one-at-a-time delivery of the messages that
   operators do not requeue. *)

Delivery == INSTANCE MessageDelivery WITH
  Msg <- MsgId \ Requeueable,
  Key <- [m \in MsgId |-> KeyOf(m)],
  status <- [m \in MsgId \ Requeueable |-> records[m].status],
  attempt <- [m \in MsgId \ Requeueable |-> records[m].attempt]

\* Every operation of the journal, seen through the records alone, is a step of
\* MessageDelivery: delivery only from pending, at most maxAttempts times, one
\* message per claim, replacement only of a pending message of the same key.
\* (A Requeueable message must not share a key with one that is not.)
DeliverySpec == Delivery!Spec
=============================================================================
