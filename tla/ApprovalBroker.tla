--------------------------- MODULE ApprovalBroker ---------------------------
(***************************************************************************)
(* Approvals that outlive the daemon (runtime/approval-broker.ts over      *)
(* runtime/store/approval-store.ts).  A requester waits for a promise; the *)
(* broker keeps a session with a timer for it in memory and the store a    *)
(* pending file, then a resolved one, per approval id, changed under a     *)
(* lock file.  A request is decided by a reply over HTTP, a reply in the   *)
(* conversation it came from, its timer, a failed delivery, the start of   *)
(* the broker, or store maintenance: each is a call of its own, and calls  *)
(* interleave at every await.  One step is one locked section or one file  *)
(* operation.                                                              *)
(*                                                                         *)
(* A refused reply changes nothing, so it is a stuttering step.  When a    *)
(* deadline has passed is left open.  Left out: stop(), which the end of   *)
(* the process follows, pruning of resolved files after a month, and a     *)
(* live holder of the lock that stalls for longer than 30 seconds.         *)
(***************************************************************************)
EXTENDS Naturals, FiniteSets

CONSTANTS
  Id,           \* approval ids
  Requester,
  NoOne,
  IdOf,         \* the approval id each requester asks under
  Bound,        \* ids whose requests name the conversation they came from
  Reply,        \* concurrent calls that carry a reply,
  System,       \* ... and those of timers, delivery, start and maintenance
  LazyStart,    \* the broker is started by its first request, not by the server
  IoFails,      \* whether file operations of the store may fail
  MaxRestarts   \* bound on the restarts of the process

Call == Reply \cup System

ASSUME ApprovalAssumption ==
  /\ IdOf \in [Requester -> Id] /\ Bound \subseteq Id /\ NoOne \notin Requester
  /\ LazyStart \in BOOLEAN /\ IoFails \in BOOLEAN /\ MaxRestarts \in Nat
\* Requests from a conversation leave their id to createId(), so no two share one.
ASSUME CreateIdAssumption ==
  \A r, s \in Requester : IdOf[r] = IdOf[s] /\ IdOf[r] \in Bound => r = s

VARIABLES
  started, listing, found, starter,  \* start(): its flag, next step, records left, and who awaits it
  session,     \* this.pending
  req,         \* the next step of each requester
  saved,       \* requesters whose ready promise is fulfilled
  delivering,  \* requesters whose prompt is on its way to the conversation
  call,        \* finalizeApproval and what leads to it, by call
  pending, resolved, lock,  \* the files: ids, states by id, lock files by id
  told,        \* what each requester's promise gave
  answered,    \* history: approval_resolved events, and what decided
  shown,       \* history: ids that clients may have seen
  restarts

startVars == <<started, listing, found, starter>>
files == <<pending, resolved, lock>>
history == <<answered, shown, restarts>>
vars == <<startVars, session, req, saved, delivering, call, files, told, history>>

State == {"approved", "denied", "expired"}
NoSession == [on |-> FALSE, requester |-> NoOne, finalizing |-> FALSE]
NoCall == [at |-> "idle", id |-> NoOne, state |-> "none", via |-> "none", requester |-> NoOne]

FreshMemory ==
  /\ started = FALSE /\ listing = "no" /\ found = {} /\ starter = NoOne
  /\ session = [i \in Id |-> NoSession]
  /\ saved = {} /\ delivering = {}
  /\ call = [c \in Call |-> NoCall]

Init ==
  /\ FreshMemory
  /\ req = [r \in Requester |-> "idle"]
  /\ pending = {} /\ resolved = [i \in Id |-> "none"] /\ lock = [i \in Id |-> "free"]
  /\ told = [r \in Requester |-> "none"]
  /\ answered = {} /\ shown = {} /\ restarts = 0

-----------------------------------------------------------------------------
(* start() and trackPending *)

\* The server waits for it before it takes requests.
ServerStart ==
  /\ ~LazyStart /\ ~started
  /\ started' = TRUE /\ listing' = "list"
  /\ UNCHANGED <<found, starter, session, req, saved, delivering, call, files, told, history>>

\* listPending: what a resolved file contradicts is not pending.
List ==
  /\ listing = "list"
  /\ found' = {i \in pending : resolved[i] = "none"}
  /\ listing' = "track"
  /\ UNCHANGED <<started, starter, session, req, saved, delivering, call, files, told, history>>

Expiring == \E c \in Call : call[c].via = "start"

TrackFoundNot(i) ==
  /\ listing = "track" /\ i \in found /\ ~Expiring
  /\ found' = found \ {i}
  /\ UNCHANGED <<started, listing, starter, session, req, saved, delivering, call, files, told, history>>
\* trackPending replaces the session that stands there; the restored one has
\* nobody to answer and no save to wait for.
TrackFound(i) ==
  /\ listing = "track" /\ i \in found /\ ~Expiring
  /\ found' = found \ {i}
  /\ session' = [session EXCEPT ![i] = [NoSession EXCEPT !.on = TRUE]]
  /\ UNCHANGED <<started, listing, starter, req, saved, delivering, call, files, told, history>>

\* trackApprovalRequest: savePending begins and the session is set.  A client that
\* connects now is shown it (getPendingApprovalEvents), saved or not.
TrackRequest(r) ==
  /\ req' = [req EXCEPT ![r] = "lock"]
  /\ shown' = shown \cup {IdOf[r]}
  /\ session' = [session EXCEPT ![IdOf[r]] = [on |-> TRUE, requester |-> r, finalizing |-> FALSE]]

StartDone ==
  /\ listing = "track" /\ found = {} /\ ~Expiring
  /\ listing' = "no" /\ starter' = NoOne
  /\ IF starter = NoOne THEN UNCHANGED <<req, session, shown>> ELSE TrackRequest(starter)
  /\ UNCHANGED <<started, found, saved, delivering, call, files, told, answered, restarts>>

\* requestApproval and requestConversationalApproval: the first call of all
\* waits for start(); one that finds it begun does not.
Request(r) ==
  /\ req[r] = "idle"
  /\ LazyStart \/ (started /\ listing = "no")
  /\ IF started
     THEN TrackRequest(r) /\ UNCHANGED startVars
     ELSE /\ started' = TRUE /\ listing' = "list" /\ starter' = r
          /\ req' = [req EXCEPT ![r] = "starting"]
          /\ UNCHANGED <<found, session, shown>>
  /\ UNCHANGED <<saved, delivering, call, files, told, answered, restarts>>

-----------------------------------------------------------------------------
(* savePending.  A definition named for a slip, such as SaveAnyway before
   SavePending, is a wrong variant of the one it stands before. *)

\* The save is over: unless the request is being decided already, it is announced
\* and the prompt to the conversation goes out.
Ready(r) ==
  LET live == session[IdOf[r]].on /\ ~session[IdOf[r]].finalizing IN
  /\ req' = [req EXCEPT ![r] = "waiting"]
  /\ saved' = saved \cup {r}
  /\ delivering' = IF live /\ IdOf[r] \in Bound THEN delivering \cup {r} ELSE delivering

SaveAnyway(r) ==
  /\ req[r] = "lock" /\ lock[IdOf[r]] = "free"
  /\ lock' = [lock EXCEPT ![IdOf[r]] = "held"]
  /\ req' = [req EXCEPT ![r] = "write"]
  /\ UNCHANGED <<startVars, session, call, pending, resolved, told, history, saved, delivering>>
\* Under the lock: an id that was resolved before is left as it is.
SavePending(r) ==
  /\ req[r] = "lock" /\ lock[IdOf[r]] = "free"
  /\ IF resolved[IdOf[r]] # "none"
     THEN Ready(r) /\ UNCHANGED lock
     ELSE /\ lock' = [lock EXCEPT ![IdOf[r]] = "held"]
          /\ req' = [req EXCEPT ![r] = "write"]
          /\ UNCHANGED <<saved, delivering>>
  /\ UNCHANGED <<startVars, session, call, pending, resolved, told, history>>

WritePending(r) ==
  /\ req[r] = "write"
  /\ pending' = pending \cup {IdOf[r]}
  /\ lock' = [lock EXCEPT ![IdOf[r]] = "free"]
  /\ Ready(r)
  /\ UNCHANGED <<startVars, session, call, resolved, told, history>>

\* The request is rejected and whatever session stands there is dropped.
SaveFails(r) ==
  /\ IoFails /\ req[r] \in {"lock", "write"}
  /\ lock' = IF req[r] = "write" THEN [lock EXCEPT ![IdOf[r]] = "free"] ELSE lock
  /\ req' = [req EXCEPT ![r] = "rejected"]
  /\ saved' = saved \cup {r}
  /\ session' = [session EXCEPT ![IdOf[r]] = NoSession]
  /\ UNCHANGED <<startVars, delivering, call, pending, resolved, told, history>>

-----------------------------------------------------------------------------
(* finalizeApproval *)

\* With a session that has a save to wait for, the session is marked and the
\* call waits; any other session is taken at once.
Finalize(c, i, state, via) ==
  LET waits == session[i].requester # NoOne IN
  /\ call' = [call EXCEPT ![c] = [at |-> IF waits THEN "await" ELSE "store", id |-> i,
                                  state |-> state, via |-> via, requester |-> session[i].requester]]
  /\ session' = [session EXCEPT ![i] = IF waits THEN [@ EXCEPT !.finalizing = TRUE] ELSE NoSession]

\* The save is over: the session that stands there now is taken, if there is one.
TakeSession(c) ==
  LET i == call[c].id IN
  /\ call[c].at = "await" /\ call[c].requester \in saved
  /\ call' = [call EXCEPT ![c].at = "store", ![c].requester = session[i].requester]
  /\ session' = [session EXCEPT ![i] = NoSession]
  /\ UNCHANGED <<startVars, req, saved, delivering, files, told, answered, shown, restarts>>

SettleAnyway(c, got) ==
  LET r == call[c].requester IN
  /\ call' = [call EXCEPT ![c] = NoCall]
  /\ answered' = answered \cup {[id |-> call[c].id, state |-> call[c].state, via |-> call[c].via]}
  /\ told' = IF r = NoOne THEN told ELSE [told EXCEPT ![r] = call[c].state]
\* What finalizeApproval does with the answer of the store: a record of
\* whatever state is taken for a success.
Settle(c, got) ==
  LET r == call[c].requester IN
  /\ call' = [call EXCEPT ![c] = NoCall]
  /\ IF got = "none" \/ call[c].via = "maintenance"
     THEN UNCHANGED <<told, answered>>
     ELSE /\ answered' = answered \cup {[id |-> call[c].id, state |-> call[c].state, via |-> call[c].via]}
          /\ told' = IF r = NoOne THEN told ELSE [told EXCEPT ![r] = call[c].state]

\* resolvePending, under the lock: without a pending file it gives back the
\* resolved one, if there is one.
Resolve(c) ==
  LET i == call[c].id IN
  /\ call[c].at = "store" /\ lock[i] = "free"
  /\ IF i \in pending
     THEN /\ lock' = [lock EXCEPT ![i] = "held"]
          /\ call' = [call EXCEPT ![c].at = "save"]
          /\ UNCHANGED <<told, answered>>
     ELSE Settle(c, resolved[i]) /\ UNCHANGED lock
  /\ UNCHANGED <<startVars, session, req, saved, delivering, pending, resolved, shown, restarts>>

SaveResolved(c) ==
  /\ call[c].at = "save"
  /\ resolved' = [resolved EXCEPT ![call[c].id] = call[c].state]
  /\ call' = [call EXCEPT ![c].at = "remove"]
  /\ UNCHANGED <<startVars, session, req, saved, delivering, pending, lock, told, history>>

RemovePending(c) ==
  /\ call[c].at = "remove"
  /\ pending' = pending \ {call[c].id}
  /\ lock' = [lock EXCEPT ![call[c].id] = "free"]
  /\ Settle(c, call[c].state)
  /\ UNCHANGED <<startVars, session, req, saved, delivering, resolved, shown, restarts>>

\* The store throws: nobody is told, and the session is gone.
ResolveFails(c) ==
  /\ IoFails /\ call[c].at \in {"store", "save"}
  /\ lock' = IF call[c].at = "save" THEN [lock EXCEPT ![call[c].id] = "free"] ELSE lock
  /\ call' = [call EXCEPT ![c] = NoCall]
  /\ UNCHANGED <<startVars, session, req, saved, delivering, pending, resolved, told, history>>

-----------------------------------------------------------------------------
(* What decides an approval *)

Rest == UNCHANGED <<startVars, req, saved, files, told, answered, shown, restarts>>
Free(c, S) == c \in S /\ call[c].at = "idle"

\* A reply goes on to finalizeApproval once the store has been read for it.
Considered(c, i, state, via) ==
  /\ call' = [call EXCEPT ![c] = [at |-> "begin", id |-> i, state |-> state, via |-> via, requester |-> NoOne]]
  /\ UNCHANGED session

HttpReplyUnchecked(c, i, state) ==
  /\ Free(c, Reply) /\ i \in shown /\ state # "expired"
  /\ IF session[i].on THEN Finalize(c, i, state, "http") ELSE Considered(c, i, state, "http")
  /\ UNCHANGED delivering /\ Rest
\* resolveApproval: refused when the record, in memory or pending, is bound to
\* a conversation.  A reply names an id it was shown.
HttpReply(c, i, state) ==
  /\ Free(c, Reply) /\ i \in shown /\ state # "expired"
  /\ i \notin Bound \/ (~session[i].on /\ i \notin pending)
  /\ IF session[i].on THEN Finalize(c, i, state, "http") ELSE Considered(c, i, state, "http")
  /\ UNCHANGED delivering /\ Rest

\* resolveConversationalApproval, from the conversation of the request.
ChatReply(c, i, state) ==
  /\ Free(c, Reply) /\ i \in shown \cap Bound \cap pending /\ state # "expired"
  /\ Considered(c, i, state, "chat")
  /\ UNCHANGED delivering /\ Rest

Begin(c) ==
  /\ call[c].at = "begin"
  /\ Finalize(c, call[c].id, call[c].state, call[c].via)
  /\ UNCHANGED delivering /\ Rest

TimerNever(c, i) == FALSE /\ UNCHANGED vars
TimerTimeout(c, i) ==
  /\ Free(c, System) /\ session[i].on
  /\ ~\E d \in Call : call[d].via = "timer" /\ call[d].id = i
  /\ Finalize(c, i, "timeout", "timer")
  /\ UNCHANGED delivering /\ Rest
\* The timer of a session fires once, also while something else decides it.
Timer(c, i) ==
  /\ Free(c, System) /\ session[i].on
  /\ ~\E d \in Call : call[d].via = "timer" /\ call[d].id = i
  /\ Finalize(c, i, "expired", "timer")
  /\ UNCHANGED delivering /\ Rest

ExpireFound(c, i) ==
  /\ Free(c, System)
  /\ listing = "track" /\ i \in found /\ ~Expiring
  /\ found' = found \ {i}
  /\ Finalize(c, i, "expired", "start")
  /\ UNCHANGED <<started, listing, starter, req, saved, delivering, files, told, answered, shown, restarts>>

Delivered(r) ==
  /\ r \in delivering
  /\ delivering' = delivering \ {r}
  /\ UNCHANGED <<session, call>> /\ Rest

DeliveryFails(c, r) ==
  /\ Free(c, System) /\ r \in delivering
  /\ delivering' = delivering \ {r}
  /\ Finalize(c, IdOf[r], "denied", "delivery")
  /\ Rest

\* reconcile: drop a pending file that a resolved one contradicts, without the
\* lock; expire one that is overdue.
Reconcile(c, i) ==
  /\ Free(c, System) /\ i \in pending
  /\ IF resolved[i] # "none"
     THEN pending' = pending \ {i} /\ UNCHANGED call
     ELSE /\ call' = [call EXCEPT ![c] = [at |-> "store", id |-> i, state |-> "expired",
                                          via |-> "maintenance", requester |-> NoOne]]
          /\ UNCHANGED pending
  /\ UNCHANGED <<startVars, session, req, saved, delivering, resolved, lock, told, answered, shown, restarts>>

\* A lock file nobody will remove is unlinked by a contender after 30 seconds.
StealLock(i) ==
  /\ lock[i] = "orphan"
  /\ lock' = [lock EXCEPT ![i] = "free"]
  /\ UNCHANGED <<startVars, session, req, saved, delivering, call, pending, resolved, told, history>>

Restart ==
  /\ restarts < MaxRestarts
  /\ restarts' = restarts + 1
  /\ started' = FALSE /\ listing' = "no" /\ found' = {} /\ starter' = NoOne
  /\ session' = [i \in Id |-> NoSession] /\ saved' = {} /\ delivering' = {}
  /\ call' = [c \in Call |-> NoCall]
  /\ req' = [r \in Requester |-> IF req[r] = "idle" THEN "idle" ELSE "gone"]
  /\ lock' = [i \in Id |-> IF lock[i] = "held" THEN "orphan" ELSE lock[i]]
  /\ UNCHANGED <<pending, resolved, told, answered, shown>>

Decide(i) ==
  \E c \in Call :
    \/ \E state \in State : HttpReply(c, i, state) \/ ChatReply(c, i, state)
    \/ Timer(c, i) \/ ExpireFound(c, i) \/ Reconcile(c, i)

StartStep == List \/ StartDone \/ \E i \in Id : TrackFound(i)
SaveStep(r) == SavePending(r) \/ WritePending(r) \/ SaveFails(r)
CallStep(c) == Begin(c) \/ TakeSession(c) \/ Resolve(c) \/ SaveResolved(c) \/ RemovePending(c) \/ ResolveFails(c)

Next ==
  \/ ServerStart \/ StartStep \/ Restart
  \/ \E i \in Id : Decide(i) \/ StealLock(i)
  \/ \E r \in Requester : \/ Request(r) \/ SaveStep(r) \/ Delivered(r)
                          \/ \E c \in Call : DeliveryFails(c, r)
  \/ \E c \in Call : CallStep(c)

Spec == Init /\ [][Next]_vars

\* The server starts, timers fire and file operations end; nobody need reply.
Fairness ==
  /\ WF_vars(ServerStart) /\ WF_vars(StartStep)
  /\ \A i \in Id : WF_vars(StealLock(i)) /\ WF_vars(\E c \in Call : Timer(c, i) \/ ExpireFound(c, i))
  /\ \A r \in Requester : WF_vars(SaveStep(r)) /\ WF_vars(Delivered(r))
  /\ \A c \in Call : WF_vars(CallStep(c))

FairSpec == Spec /\ Fairness

-----------------------------------------------------------------------------
(* Properties *)

Sessions == [on : BOOLEAN, requester : Requester \cup {NoOne}, finalizing : BOOLEAN]
Calls == [at : {"idle", "begin", "await", "store", "save", "remove"},
          id : Id \cup {NoOne}, state : State \cup {"none"},
          via : {"none", "http", "chat", "timer", "start", "delivery", "maintenance"},
          requester : Requester \cup {NoOne}]

TypeOK ==
  /\ started \in BOOLEAN /\ listing \in {"no", "list", "track"}
  /\ found \subseteq Id /\ starter \in Requester \cup {NoOne}
  /\ session \in [Id -> Sessions]
  /\ req \in [Requester -> {"idle", "starting", "lock", "write", "waiting", "rejected", "gone"}]
  /\ saved \subseteq Requester /\ delivering \subseteq Requester
  /\ call \in [Call -> Calls]
  /\ pending \subseteq Id /\ resolved \in [Id -> State \cup {"none"}]
  /\ lock \in [Id -> {"free", "held", "orphan"}]
  /\ told \in [Requester -> State \cup {"none"}]

\* Nobody acts on a decision the disk does not have: whoever was answered, or
\* heard approval_resolved, finds a resolved record, after any crash or failed
\* write.
DecisionIsDurable ==
  /\ \A r \in Requester : told[r] # "none" => resolved[IdOf[r]] # "none"
  /\ \A a \in answered : resolved[a.id] # "none"

\* Once a decision was made known the record stays what it is: through late
\* replies, timers that were already due, maintenance, a restart that finds both
\* files, and a new request under the same id.
KnownIsFinal ==
  [][\A a \in answered : resolved'[a.id] = resolved[a.id]]_vars

\* A requester is told what the record says: approved when and only when that is
\* what was stored.
ToldIsRecorded ==
  \A r \in Requester : told[r] # "none" =>
    (told[r] = "approved") = (resolved[IdOf[r]] = "approved")

\* A request made in a conversation is approved only by a reply from there,
\* never over HTTP, by a delivery that failed or by a timer.
BoundNeedsItsConversation ==
  \A r \in Requester : IdOf[r] \in Bound /\ told[r] = "approved" =>
    \E a \in answered : a.id = IdOf[r] /\ a.via = "chat" /\ a.state = "approved"

\* Every requester is answered in the end, by its timer if by nobody else.
RequesterAnswered ==
  \A r \in Requester : req[r] # "idle" ~> told[r] # "none" \/ req[r] \in {"rejected", "gone"}

\* A pending approval survives restarts and does not stay pending for ever: the
\* broker that comes up finds it and sets its timer.
PendingSettled ==
  \A i \in Id : i \in pending ~> resolved[i] # "none"
=============================================================================
