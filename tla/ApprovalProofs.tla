--------------------------- MODULE ApprovalProofs ---------------------------
(***************************************************************************)
(* Proofs about ApprovalBroker, for any ids, requesters and calls, lazy or *)
(* eager start, failing files and any number of restarts: a decision is on *)
(* disk before anybody hears of it, and what was heard stays on disk.  The *)
(* argument is about the lock files: who writes under the lock of an id is *)
(* alone, and a request is written only while its id has no decision.  The *)
(* last part is about who may approve the request of a conversation.       *)
(***************************************************************************)
EXTENDS ApprovalBroker, TLAPS

\* A call under way has an id and a decision; a requester it answers, or one a
\* session waits for, asked under the same id.
IdsKnown ==
  /\ \A c \in Call : call[c].at # "idle" =>
       /\ call[c].id \in Id /\ call[c].state \in State
       /\ call[c].requester \in Requester => IdOf[call[c].requester] = call[c].id
       /\ call[c].at = "begin" => call[c].via \in {"http", "chat"}
  /\ \A i \in Id : session[i].requester \in Requester => IdOf[session[i].requester] = i

-----------------------------------------------------------------------------
(* Types *)

LEMMA CallMade ==
  ASSUME NEW at \in {"idle", "begin", "await", "store", "save", "remove"},
         NEW i \in Id \cup {NoOne}, NEW state \in State \cup {"none"},
         NEW via \in {"none", "http", "chat", "timer", "start", "delivery", "maintenance"},
         NEW r \in Requester \cup {NoOne}
  PROVE  [at |-> at, id |-> i, state |-> state, via |-> via, requester |-> r] \in Calls
  BY DEF Calls

LEMMA FinalizeTyped ==
  ASSUME TypeOK, NEW c \in Call, NEW i \in Id, NEW state \in State,
         NEW via \in {"http", "chat", "timer", "start", "delivery"},
         Finalize(c, i, state, via)
  PROVE  session' \in [Id -> Sessions] /\ call' \in [Call -> Calls]
<1>1. session[i].requester \in Requester \cup {NoOne}
  BY DEF TypeOK, Sessions
<1>2. NoSession \in Sessions
  BY DEF NoSession, Sessions
<1>3. [session[i] EXCEPT !.finalizing = TRUE] \in Sessions
  BY DEF TypeOK, Sessions
<1>4. session' \in [Id -> Sessions]
  BY <1>2, <1>3 DEF Finalize, TypeOK
<1>5. call' \in [Call -> Calls]
  BY <1>1, CallMade DEF Finalize, TypeOK
<1> QED
  BY <1>4, <1>5

LEMMA TypedInit == Init => TypeOK
<1> SUFFICES ASSUME Init PROVE TypeOK
  OBVIOUS
<1>1. NoSession \in Sessions /\ NoCall \in Calls
  BY CallMade DEF NoSession, Sessions, NoCall
<1> QED
  BY <1>1 DEF Init, FreshMemory, TypeOK

LEMMA TrackTyped ==
  ASSUME TypeOK, NEW r \in Requester, TrackRequest(r)
  PROVE  /\ req' \in [Requester -> {"idle", "starting", "lock", "write", "waiting", "rejected", "gone"}]
         /\ session' \in [Id -> Sessions]
<1>1. [on |-> TRUE, requester |-> r, finalizing |-> FALSE] \in Sessions
  BY DEF Sessions
<1> QED
  BY <1>1 DEF TrackRequest, TypeOK

LEMMA DecideTyped == TypeOK /\ (\E i \in Id : Decide(i)) => TypeOK'
<1> SUFFICES ASSUME TypeOK, NEW i \in Id, NEW c \in Call, NEW state \in State,
                    \/ HttpReply(c, i, state) \/ ChatReply(c, i, state)
                    \/ Timer(c, i) \/ ExpireFound(c, i) \/ Reconcile(c, i)
             PROVE  TypeOK'
  BY DEF Decide, State
<1>1. ASSUME NEW via \in {"http", "chat"}, Considered(c, i, state, via)
      PROVE  session' \in [Id -> Sessions] /\ call' \in [Call -> Calls]
  BY <1>1, CallMade DEF Considered, TypeOK
<1>2. CASE HttpReply(c, i, state)
  <2>1. session' \in [Id -> Sessions] /\ call' \in [Call -> Calls]
    BY <1>1, <1>2, FinalizeTyped DEF HttpReply
  <2> QED
    BY <1>2, <2>1 DEF HttpReply, Rest, startVars, files, TypeOK
<1>3. CASE ChatReply(c, i, state)
  <2>1. session' \in [Id -> Sessions] /\ call' \in [Call -> Calls]
    BY <1>1, <1>3 DEF ChatReply
  <2> QED
    BY <1>3, <2>1 DEF ChatReply, Rest, startVars, files, TypeOK
<1>4. CASE Timer(c, i)
  <2>1. session' \in [Id -> Sessions] /\ call' \in [Call -> Calls]
    BY <1>4, FinalizeTyped DEF Timer, State
  <2> QED
    BY <1>4, <2>1 DEF Timer, Rest, startVars, files, TypeOK
<1>5. CASE ExpireFound(c, i)
  <2>1. session' \in [Id -> Sessions] /\ call' \in [Call -> Calls]
    BY <1>5, FinalizeTyped DEF ExpireFound, State
  <2> QED
    BY <1>5, <2>1 DEF ExpireFound, startVars, files, TypeOK
<1>6. CASE Reconcile(c, i)
  <2>1. [at |-> "store", id |-> i, state |-> "expired", via |-> "maintenance", requester |-> NoOne] \in Calls
    BY DEF Calls, State
  <2>2. call' \in [Call -> Calls]
    BY <1>6, <2>1 DEF Reconcile, TypeOK
  <2> QED
    BY <1>6, <2>2 DEF Reconcile, startVars, TypeOK
<1> QED
  BY <1>2, <1>3, <1>4, <1>5, <1>6

LEMMA RequestTyped ==
  ASSUME TypeOK, NEW r \in Requester,
         Request(r) \/ SaveStep(r) \/ Delivered(r) \/ \E c \in Call : DeliveryFails(c, r)
  PROVE  TypeOK'
<1>0. IdOf[r] \in Id
  BY ApprovalAssumption
<1>1. CASE Request(r)
  BY <1>1, TrackTyped DEF Request, startVars, files, history, TypeOK
<1>2. CASE SavePending(r)
  BY <1>2 DEF SavePending, Ready, startVars, TypeOK
<1>3. CASE WritePending(r)
  BY <1>0, <1>3 DEF WritePending, Ready, startVars, TypeOK
<1>4. CASE SaveFails(r)
  <2>1. NoSession \in Sessions
    BY DEF NoSession, Sessions
  <2> QED
    BY <1>4, <2>1 DEF SaveFails, startVars, history, TypeOK
<1>5. CASE Delivered(r)
  BY <1>5 DEF Delivered, Rest, startVars, files, TypeOK
<1>6. ASSUME NEW c \in Call, DeliveryFails(c, r) PROVE TypeOK'
  <2>1. session' \in [Id -> Sessions] /\ call' \in [Call -> Calls]
    BY <1>0, <1>6, FinalizeTyped DEF DeliveryFails, State
  <2> QED
    BY <1>6, <2>1 DEF DeliveryFails, Rest, startVars, files, TypeOK
<1> QED
  BY <1>1, <1>2, <1>3, <1>4, <1>5, <1>6 DEF SaveStep

LEMMA CallTyped ==
  ASSUME TypeOK, NEW c \in Call, CallStep(c), IdsKnown
  PROVE  TypeOK'
<1>0. call[c] \in Calls /\ (call[c].at # "idle" => call[c].id \in Id /\ call[c].state \in State)
  BY DEF TypeOK, IdsKnown
<1>a. /\ call[c].at \in {"idle", "begin", "await", "store", "save", "remove"}
      /\ call[c].id \in Id \cup {NoOne} /\ call[c].state \in State \cup {"none"}
      /\ call[c].requester \in Requester \cup {NoOne}
  BY <1>0 DEF Calls
<1>b. NoCall \in Calls /\ NoSession \in Sessions
  BY CallMade DEF NoCall, NoSession, Sessions
<1>c. \A got : call[c].at # "idle" /\ Settle(c, got) =>
        call' \in [Call -> Calls] /\ told' \in [Requester -> State \cup {"none"}]
  BY <1>0, <1>a, <1>b DEF Settle, TypeOK
<1>d. ASSUME NEW at \in {"save", "remove"}, call' = [call EXCEPT ![c].at = at]
      PROVE  call' \in [Call -> Calls]
  BY <1>0, <1>d DEF Calls, TypeOK
<1>1. CASE Begin(c)
  <2>1. call[c].via \in {"http", "chat"}
    BY <1>1 DEF IdsKnown, Begin
  <2>2. session' \in [Id -> Sessions] /\ call' \in [Call -> Calls]
    BY <1>0, <1>1, <2>1, FinalizeTyped DEF Begin
  <2> QED
    BY <1>1, <2>2 DEF Begin, Rest, startVars, files, TypeOK
<1>2. CASE TakeSession(c)
  <2>1. session[call[c].id].requester \in Requester \cup {NoOne}
    BY <1>0, <1>2 DEF TakeSession, TypeOK, Sessions
  <2>2. call' \in [Call -> Calls]
    BY <1>0, <1>2, <2>1 DEF TakeSession, Calls, TypeOK
  <2>3. session' \in [Id -> Sessions]
    BY <1>b, <1>2 DEF TakeSession, TypeOK
  <2> QED
    BY <1>2, <2>2, <2>3 DEF TakeSession, startVars, files, TypeOK
<1>3. CASE Resolve(c)
  <2>1. call' \in [Call -> Calls] /\ told' \in [Requester -> State \cup {"none"}]
    BY <1>3, <1>c, <1>d DEF Resolve, TypeOK
  <2>2. lock' \in [Id -> {"free", "held", "orphan"}]
    BY <1>3 DEF Resolve, TypeOK
  <2> QED
    BY <1>3, <2>1, <2>2 DEF Resolve, startVars, TypeOK
<1>4. CASE SaveResolved(c)
  <2>1. resolved' \in [Id -> State \cup {"none"}]
    BY <1>0, <1>4 DEF SaveResolved, TypeOK
  <2> QED
    BY <1>4, <1>d, <2>1 DEF SaveResolved, startVars, history, TypeOK
<1>5. CASE RemovePending(c)
  <2>1. call' \in [Call -> Calls] /\ told' \in [Requester -> State \cup {"none"}]
    BY <1>5, <1>c DEF RemovePending
  <2> QED
    BY <1>5, <2>1 DEF RemovePending, startVars, TypeOK
<1>6. CASE ResolveFails(c)
  BY <1>b, <1>6 DEF ResolveFails, startVars, history, TypeOK
<1> QED
  BY <1>1, <1>2, <1>3, <1>4, <1>5, <1>6 DEF CallStep

LEMMA TypedStep == TypeOK /\ IdsKnown /\ [Next]_vars => TypeOK'
<1> SUFFICES ASSUME TypeOK, IdsKnown, [Next]_vars PROVE TypeOK'
  OBVIOUS
<1>1. CASE ServerStart
  BY <1>1 DEF ServerStart, files, history, TypeOK
<1>2. CASE List
  BY <1>2 DEF List, files, history, TypeOK
<1>3. CASE StartDone
  BY <1>3, TrackTyped DEF StartDone, files, history, TypeOK
<1>4. ASSUME NEW i \in Id, TrackFound(i) PROVE TypeOK'
  <2>1. [NoSession EXCEPT !.on = TRUE] \in Sessions
    BY DEF NoSession, Sessions
  <2> QED
    BY <1>4, <2>1 DEF TrackFound, files, history, TypeOK
<1>5. CASE Restart
  <2>1. NoSession \in Sessions /\ NoCall \in Calls
    BY CallMade DEF NoSession, Sessions, NoCall
  <2> QED
    BY <1>5, <2>1 DEF Restart, TypeOK
<1>6. ASSUME NEW i \in Id, StealLock(i) PROVE TypeOK'
  BY <1>6 DEF StealLock, startVars, history, TypeOK
<1>7. CASE UNCHANGED vars
  BY <1>7 DEF vars, startVars, files, history, TypeOK
<1> QED
  BY <1>1, <1>2, <1>3, <1>4, <1>5, <1>6, <1>7, DecideTyped, RequestTyped, CallTyped
     DEF Next, StartStep

-----------------------------------------------------------------------------
(* Who answers whom *)

LEMMA IdsInit == Init => IdsKnown
  BY ApprovalAssumption DEF Init, FreshMemory, IdsKnown, NoCall, NoSession

LEMMA FinalizeIds ==
  ASSUME TypeOK, IdsKnown, NEW c \in Call, NEW i \in Id, NEW state \in State, NEW via,
         Finalize(c, i, state, via)
  PROVE  IdsKnown'
<1>1. /\ session[i].requester \in Requester => IdOf[session[i].requester] = i
      /\ NoSession.requester \notin Requester
  BY ApprovalAssumption DEF IdsKnown, NoSession
<1>2. \A j \in Id : session'[j].requester \in Requester => IdOf[session'[j].requester] = j
  BY <1>1 DEF Finalize, TypeOK, Sessions, IdsKnown
<1>3. \A d \in Call : call'[d].at # "idle" =>
        /\ call'[d].id \in Id /\ call'[d].state \in State
        /\ call'[d].requester \in Requester => IdOf[call'[d].requester] = call'[d].id
        /\ call'[d].at = "begin" => call'[d].via \in {"http", "chat"}
  BY <1>1 DEF Finalize, TypeOK, IdsKnown
<1> QED
  BY <1>2, <1>3 DEF IdsKnown

LEMMA ConsideredIds ==
  ASSUME TypeOK, IdsKnown, NEW c \in Call, NEW i \in Id, NEW state \in State,
         NEW via \in {"http", "chat"}, Considered(c, i, state, via)
  PROVE  IdsKnown'
  BY ApprovalAssumption DEF Considered, TypeOK, IdsKnown

LEMMA TrackIds ==
  ASSUME TypeOK, IdsKnown, NEW r \in Requester, TrackRequest(r), call' = call
  PROVE  IdsKnown'
  BY DEF TrackRequest, TypeOK, IdsKnown

LEMMA IdsStep == TypeOK /\ IdsKnown /\ [Next]_vars => IdsKnown'
<1> SUFFICES ASSUME TypeOK, IdsKnown, [Next]_vars PROVE IdsKnown'
  OBVIOUS
<1>0. /\ NoSession.requester \notin Requester /\ NoCall.at = "idle"
      /\ \A r \in Requester : IdOf[r] \in Id
  BY ApprovalAssumption DEF NoSession, NoCall
<1>1. CASE UNCHANGED <<session, call>>
  BY <1>1 DEF IdsKnown
<1>2. ASSUME NEW r \in Requester, TrackRequest(r), call' = call PROVE IdsKnown'
  BY <1>2, TrackIds
<1>3. CASE ServerStart \/ List
  BY <1>1, <1>3 DEF ServerStart, List
<1>4. CASE StartDone
  <2>1. starter \in Requester \/ starter = NoOne
    BY DEF TypeOK
  <2> QED
    BY <1>1, <1>2, <1>4, <2>1 DEF StartDone
<1>5. ASSUME NEW i \in Id, TrackFound(i) PROVE IdsKnown'
  <2>1. [NoSession EXCEPT !.on = TRUE].requester \notin Requester
    BY ApprovalAssumption DEF NoSession
  <2> QED
    BY <1>5, <2>1 DEF TrackFound, IdsKnown, TypeOK
<1>6. CASE Restart
  BY <1>0, <1>6 DEF Restart, IdsKnown
<1>7. ASSUME NEW i \in Id, Decide(i) PROVE IdsKnown'
  <2> SUFFICES ASSUME NEW c \in Call, NEW state \in State,
                      \/ HttpReply(c, i, state) \/ ChatReply(c, i, state)
                      \/ Timer(c, i) \/ ExpireFound(c, i) \/ Reconcile(c, i)
               PROVE  IdsKnown'
    BY <1>7 DEF Decide, State
  <2>1. CASE HttpReply(c, i, state) \/ ChatReply(c, i, state)
    BY <2>1, FinalizeIds, ConsideredIds DEF HttpReply, ChatReply
  <2>2. CASE Timer(c, i) \/ ExpireFound(c, i)
    BY <2>2, FinalizeIds DEF Timer, ExpireFound, State
  <2>3. CASE Reconcile(c, i)
    BY ApprovalAssumption, <2>3 DEF Reconcile, TypeOK, IdsKnown, State
  <2> QED
    BY <2>1, <2>2, <2>3
<1>8. ASSUME NEW i \in Id, StealLock(i) PROVE IdsKnown'
  BY <1>1, <1>8 DEF StealLock
<1>9. ASSUME NEW r \in Requester, Request(r) PROVE IdsKnown'
  BY <1>1, <1>2, <1>9 DEF Request
<1>10. ASSUME NEW r \in Requester, SaveStep(r) PROVE IdsKnown'
  <2>1. CASE SavePending(r) \/ WritePending(r)
    BY <1>1, <2>1 DEF SavePending, WritePending
  <2>2. CASE SaveFails(r)
    BY <1>0, <2>2 DEF SaveFails, TypeOK, IdsKnown
  <2> QED
    BY <1>10, <2>1, <2>2 DEF SaveStep
<1>11. ASSUME NEW r \in Requester, Delivered(r) PROVE IdsKnown'
  BY <1>1, <1>11 DEF Delivered
<1>12. ASSUME NEW r \in Requester, NEW c \in Call, DeliveryFails(c, r) PROVE IdsKnown'
  BY <1>0, <1>12, FinalizeIds DEF DeliveryFails, State
<1>13. ASSUME NEW c \in Call, Begin(c) PROVE IdsKnown'
  <2>1. call[c].id \in Id /\ call[c].state \in State
    BY <1>13 DEF Begin, IdsKnown
  <2> QED
    BY <1>13, <2>1, FinalizeIds DEF Begin
<1>14. ASSUME NEW c \in Call, TakeSession(c) PROVE IdsKnown'
  <2>1. call[c].id \in Id
    BY <1>14 DEF TakeSession, IdsKnown
  <2>2. session[call[c].id].requester \in Requester => IdOf[session[call[c].id].requester] = call[c].id
    BY <2>1 DEF IdsKnown
  <2>3. call[c] \in Calls /\ DOMAIN call = Call
    BY DEF TypeOK
  <2>4. /\ call'[c].id = call[c].id /\ call'[c].state = call[c].state /\ call'[c].at = "store"
        /\ call'[c].requester = session[call[c].id].requester
        /\ \A d \in Call \ {c} : call'[d] = call[d]
    BY <1>14, <2>3 DEF TakeSession, Calls
  <2>5. \A j \in Id : session'[j] = session[j] \/ session'[j] = NoSession
    BY <1>14 DEF TakeSession, TypeOK
  <2> QED
    BY <1>0, <1>14, <2>1, <2>2, <2>4, <2>5 DEF IdsKnown, TakeSession
<1>15. ASSUME NEW c \in Call, Resolve(c) \/ SaveResolved(c) \/ RemovePending(c) \/ ResolveFails(c)
       PROVE  IdsKnown'
  <2>1. /\ session' = session /\ DOMAIN call = Call /\ call[c] \in Calls /\ call[c].at # "idle"
        /\ \/ call' = [call EXCEPT ![c] = NoCall]
           \/ \E at \in {"save", "remove"} : call' = [call EXCEPT ![c].at = at]
    BY <1>15 DEF Resolve, SaveResolved, RemovePending, ResolveFails, Settle, TypeOK
  <2>2. /\ \A d \in Call \ {c} : call'[d] = call[d]
        /\ call'[c].at = "idle" \/ ( /\ call'[c].at # "begin" /\ call'[c].id = call[c].id
                                   /\ call'[c].state = call[c].state
                                   /\ call'[c].requester = call[c].requester )
    BY <1>0, <2>1 DEF Calls
  <2> QED
    BY <2>1, <2>2 DEF IdsKnown
<1>16. CASE UNCHANGED vars
  BY <1>1, <1>16 DEF vars
<1> QED
  BY <1>3, <1>4, <1>5, <1>6, <1>7, <1>8, <1>9, <1>10, <1>11, <1>12, <1>13, <1>14, <1>15, <1>16
     DEF Next, StartStep, CallStep

\* Every variable keeps its type, for every instance.
THEOREM BrokerIsTyped == Spec => []TypeOK
<1>1. TypeOK /\ IdsKnown /\ [Next]_vars => (TypeOK /\ IdsKnown)'
  BY TypedStep, IdsStep
<1> QED
  BY TypedInit, IdsInit, <1>1, PTL DEF Spec

-----------------------------------------------------------------------------
(* What is on disk when somebody hears of it *)

\* The call is between taking the lock of its id and giving it back.
Inside(c) == call[c].at \in {"save", "remove"}

\* Who is inside holds the lock of its id, alone; a pending file is written only
\* for an id without a decision.
Alone ==
  /\ \A c \in Call : Inside(c) => lock[call[c].id] = "held"
  /\ \A c \in Call : call[c].at = "remove" => resolved[call[c].id] # "none"
  /\ \A r \in Requester : req[r] = "write" => lock[IdOf[r]] = "held" /\ resolved[IdOf[r]] = "none"
  /\ \A c, d \in Call : c # d /\ Inside(c) /\ Inside(d) => call[c].id # call[d].id
  /\ \A c \in Call, r \in Requester : Inside(c) /\ req[r] = "write" => call[c].id # IdOf[r]
  /\ \A r, q \in Requester : r # q /\ req[r] = "write" /\ req[q] = "write" => IdOf[r] # IdOf[q]

\* Nothing is left to decide once a decision was announced: the pending file is
\* gone and no call is about to write.
Settled ==
  \A a \in answered :
    /\ a.id \in Id /\ a.id \notin pending
    /\ \A c \in Call : Inside(c) => call[c].id # a.id

DurableInv == TypeOK /\ IdsKnown /\ Alone /\ Settled /\ DecisionIsDurable

LEMMA DurableInit == Init => Alone /\ Settled /\ DecisionIsDurable
  BY ApprovalAssumption DEF Init, FreshMemory, NoCall, Inside, Alone, Settled, DecisionIsDurable

\* A step that touches neither the files nor an answer, and lets nobody in.
LEMMA QuietStep ==
  ASSUME DurableInv, UNCHANGED <<files, told, answered>>,
         \A c \in Call : call'[c] = call[c] \/ call'[c].at \in {"idle", "begin", "await", "store"},
         \A r \in Requester : req'[r] = "write" => req[r] = "write"
  PROVE  Alone' /\ Settled' /\ DecisionIsDurable'
<1>1. \A c \in Call : Inside(c)' => Inside(c) /\ call'[c] = call[c]
  BY DEF Inside
<1>2. Alone'
  BY <1>1 DEF DurableInv, Alone, Inside, files
<1>3. Settled' /\ DecisionIsDurable'
  BY <1>1 DEF DurableInv, Settled, DecisionIsDurable, files
<1> QED
  BY <1>2, <1>3

\* finalizeApproval begins, or a reply waits for what it read.
LEMMA CallBegins ==
  ASSUME DurableInv, UNCHANGED <<files, told, answered, req>>,
         NEW c \in Call, NEW i, NEW state, NEW via,
         Finalize(c, i, state, via) \/ Considered(c, i, state, via)
  PROVE  Alone' /\ Settled' /\ DecisionIsDurable'
<1>1. \A d \in Call : call'[d] = call[d] \/ call'[d].at \in {"idle", "begin", "await", "store"}
  BY DEF Finalize, Considered, DurableInv, TypeOK
<1> QED
  BY <1>1, QuietStep

\* The end of a call that found or made a decision.
LEMMA SettleStep ==
  ASSUME DurableInv, NEW c \in Call, NEW got, Settle(c, got), call[c].at # "idle",
         got # "none" => resolved[call[c].id] # "none" /\ call[c].id \notin pending',
         \A d \in Call \ {c} : Inside(d) => call[d].id # call[c].id \/ got = "none",
         pending' \subseteq pending, resolved' = resolved
  PROVE  Settled' /\ DecisionIsDurable'
<1> DEFINE i == call[c].id
<1>1. i \in Id /\ (call[c].requester \in Requester => IdOf[call[c].requester] = i)
  BY DEF DurableInv, IdsKnown
<1>2. call' = [call EXCEPT ![c] = NoCall] /\ \A d \in Call : Inside(d)' => d # c /\ Inside(d) /\ call'[d] = call[d]
  BY DEF Settle, NoCall, Inside, DurableInv, TypeOK
<1>3. \A a \in answered' : a \in answered \/ (a.id = i /\ got # "none")
  BY DEF Settle
<1>4. \A r \in Requester : told'[r] = told[r] \/ (IdOf[r] = i /\ got # "none")
  BY <1>1 DEF Settle, DurableInv, TypeOK
<1>5. Settled'
  BY <1>1, <1>2, <1>3 DEF Settled, DurableInv
<1>6. DecisionIsDurable'
  BY <1>3, <1>4 DEF DecisionIsDurable, DurableInv
<1> QED
  BY <1>5, <1>6

LEMMA DecideDurable ==
  ASSUME DurableInv, NEW i \in Id, Decide(i)
  PROVE  Alone' /\ Settled' /\ DecisionIsDurable'
<1> SUFFICES ASSUME NEW c \in Call, NEW state \in State,
                    \/ HttpReply(c, i, state) \/ ChatReply(c, i, state)
                    \/ Timer(c, i) \/ ExpireFound(c, i) \/ Reconcile(c, i)
             PROVE  Alone' /\ Settled' /\ DecisionIsDurable'
  BY DEF Decide, State
<1>1. CASE HttpReply(c, i, state) \/ ChatReply(c, i, state) \/ Timer(c, i) \/ ExpireFound(c, i)
  BY <1>1, CallBegins DEF HttpReply, ChatReply, Timer, ExpireFound, Rest, files
<1>2. CASE Reconcile(c, i)
  <2>1. \A d \in Call : call'[d] = call[d] \/ call'[d].at = "store"
    BY <1>2 DEF Reconcile, DurableInv, TypeOK
  <2>2. \A d \in Call : Inside(d)' => Inside(d) /\ call'[d] = call[d]
    BY <2>1 DEF Inside
  <2>3. pending' \subseteq pending /\ UNCHANGED <<resolved, lock, req, told, answered>>
    BY <1>2 DEF Reconcile
  <2>4. Alone'
    BY <2>2, <2>3 DEF DurableInv, Alone, Inside
  <2>5. Settled' /\ DecisionIsDurable'
    BY <2>2, <2>3 DEF DurableInv, Settled, DecisionIsDurable
  <2> QED
    BY <2>4, <2>5
<1> QED
  BY <1>1, <1>2

LEMMA SaveDurable ==
  ASSUME DurableInv, NEW r \in Requester, SaveStep(r)
  PROVE  Alone' /\ Settled' /\ DecisionIsDurable'
<1>0. IdOf[r] \in Id /\ DOMAIN req = Requester /\ DOMAIN lock = Id
  BY ApprovalAssumption DEF DurableInv, TypeOK
<1>1. CASE SavePending(r)
  <2>1. CASE resolved[IdOf[r]] # "none"
    <3>1. \A q \in Requester : req'[q] = "write" => req[q] = "write"
      BY <1>0, <1>1, <2>1 DEF SavePending, Ready
    <3> QED
      BY <1>1, <2>1, <3>1, QuietStep DEF SavePending, files, history
  <2>2. CASE resolved[IdOf[r]] = "none"
    <3>1. /\ lock[IdOf[r]] = "free" /\ lock' = [lock EXCEPT ![IdOf[r]] = "held"]
          /\ req' = [req EXCEPT ![r] = "write"]
          /\ UNCHANGED <<call, pending, resolved, told, answered>>
      BY <1>1, <2>2 DEF SavePending, history
    <3>2. Alone'
      BY <1>0, <2>2, <3>1 DEF DurableInv, Alone, Inside, IdsKnown
    <3>3. Settled' /\ DecisionIsDurable'
      BY <3>1 DEF DurableInv, Settled, DecisionIsDurable, Inside
    <3> QED
      BY <3>2, <3>3
  <2> QED
    BY <2>1, <2>2
<1>2. CASE WritePending(r)
  <2>1. /\ req[r] = "write" /\ req' = [req EXCEPT ![r] = "waiting"]
        /\ lock' = [lock EXCEPT ![IdOf[r]] = "free"] /\ pending' = pending \cup {IdOf[r]}
        /\ UNCHANGED <<call, resolved, told, answered>>
    BY <1>2 DEF WritePending, Ready, history
  <2>2. resolved[IdOf[r]] = "none"
    BY <2>1 DEF DurableInv, Alone
  <2>3. Alone'
    BY <1>0, <2>1 DEF DurableInv, Alone, Inside
  <2>4. Settled' /\ DecisionIsDurable'
    BY <2>1, <2>2 DEF DurableInv, Settled, DecisionIsDurable, Inside
  <2> QED
    BY <2>3, <2>4
<1>3. CASE SaveFails(r)
  <2>1. /\ req' = [req EXCEPT ![r] = "rejected"]
        /\ lock' = IF req[r] = "write" THEN [lock EXCEPT ![IdOf[r]] = "free"] ELSE lock
        /\ UNCHANGED <<call, pending, resolved, told, answered>>
    BY <1>3 DEF SaveFails, history
  <2>2. Alone'
    BY <1>0, <2>1 DEF DurableInv, Alone, Inside
  <2>3. Settled' /\ DecisionIsDurable'
    BY <2>1 DEF DurableInv, Settled, DecisionIsDurable, Inside
  <2> QED
    BY <2>2, <2>3
<1> QED
  BY <1>1, <1>2, <1>3 DEF SaveStep

LEMMA CallDurable ==
  ASSUME DurableInv, NEW c \in Call, CallStep(c)
  PROVE  Alone' /\ Settled' /\ DecisionIsDurable'
<1> DEFINE i == call[c].id
<1>0. /\ call[c] \in Calls /\ DOMAIN call = Call /\ DOMAIN lock = Id /\ DOMAIN resolved = Id
      /\ call[c].at # "idle" => i \in Id /\ call[c].state \in State
  BY DEF DurableInv, TypeOK, IdsKnown
<1>1. CASE Begin(c)
  BY <1>1, CallBegins DEF Begin, Rest, files
<1>2. CASE TakeSession(c)
  <2>1. \A d \in Call : call'[d] = call[d] \/ call'[d].at = "store"
    BY <1>0, <1>2 DEF TakeSession, Calls
  <2> QED
    BY <1>2, <2>1, QuietStep DEF TakeSession
<1>3. ASSUME Resolve(c), i \in pending
      PROVE  Alone' /\ Settled' /\ DecisionIsDurable'
  <2>1. /\ i \in Id /\ lock[i] = "free" /\ lock' = [lock EXCEPT ![i] = "held"]
        /\ call' = [call EXCEPT ![c].at = "save"]
        /\ UNCHANGED <<req, pending, resolved, told, answered>>
    BY <1>0, <1>3 DEF Resolve
  <2>2. /\ call'[c].at = "save" /\ call'[c].id = i
        /\ \A d \in Call \ {c} : call'[d] = call[d]
    BY <1>0, <2>1 DEF Calls
  <2>3. \A d \in Call : Inside(d) => call[d].id # i
    BY <2>1 DEF DurableInv, Alone
  <2>4. \A r \in Requester : req[r] = "write" => IdOf[r] # i
    BY <2>1 DEF DurableInv, Alone
  <2>5. \A d \in Call : Inside(d) => call[d].id \in Id
    BY DEF Inside, DurableInv, IdsKnown
  <2>a. \A d \in Call : Inside(d)' => call'[d].id = call[d].id /\ (d = c \/ Inside(d))
    BY <2>2 DEF Inside
  <2>b. \A j \in Id : lock'[j] = IF j = i THEN "held" ELSE lock[j]
    BY <1>0, <2>1
  <2>c. /\ \A d \in Call : Inside(d)' => lock'[call'[d].id] = "held"
        /\ \A d \in Call : call'[d].at = "remove" => resolved'[call'[d].id] # "none"
        /\ \A r \in Requester : req'[r] = "write" => lock'[IdOf[r]] = "held" /\ resolved'[IdOf[r]] = "none"
    <3>1. \A d \in Call : Inside(d)' => lock'[call'[d].id] = "held"
      BY <1>0, <2>1, <2>2, <2>5, <2>a, <2>b DEF DurableInv, Alone
    <3>2. \A d \in Call : call'[d].at = "remove" => resolved'[call'[d].id] # "none"
      BY <2>1, <2>2 DEF DurableInv, Alone
    <3>3. \A r \in Requester : req'[r] = "write" => lock'[IdOf[r]] = "held" /\ resolved'[IdOf[r]] = "none"
      BY <2>1, <2>b, ApprovalAssumption DEF DurableInv, Alone
    <3> QED
      BY <3>1, <3>2, <3>3
  <2>d. /\ \A d, e \in Call : d # e /\ Inside(d)' /\ Inside(e)' => call'[d].id # call'[e].id
        /\ \A d \in Call, r \in Requester : Inside(d)' /\ req'[r] = "write" => call'[d].id # IdOf[r]
        /\ \A r, q \in Requester : r # q /\ req'[r] = "write" /\ req'[q] = "write" => IdOf[r] # IdOf[q]
    BY <2>1, <2>3, <2>4, <2>a DEF DurableInv, Alone
  <2>6. Alone'
    BY <2>c, <2>d DEF Alone
  <2>7. Settled'
    BY <1>3, <2>1, <2>2 DEF DurableInv, Settled, Inside
  <2>8. DecisionIsDurable'
    BY <2>1 DEF DurableInv, DecisionIsDurable
  <2> QED
    BY <2>6, <2>7, <2>8
<1>4. ASSUME Resolve(c), i \notin pending
      PROVE  Alone' /\ Settled' /\ DecisionIsDurable'
  <2>1. /\ lock[i] = "free" /\ Settle(c, resolved[i]) /\ call[c].at # "idle"
        /\ UNCHANGED <<req, lock, pending, resolved>>
    BY <1>4 DEF Resolve
  <2>2. \A d \in Call : Inside(d) => call[d].id # i
    BY <2>1 DEF DurableInv, Alone
  <2>3. Settled' /\ DecisionIsDurable'
    BY <1>4, <2>1, <2>2, SettleStep
  <2>4. \A d \in Call : call'[d] = call[d] \/ call'[d].at = "idle"
    BY <1>0, <2>1 DEF Settle, NoCall
  <2>5. Alone'
    BY <2>1, <2>4 DEF DurableInv, Alone, Inside
  <2> QED
    BY <2>3, <2>5
\* The one step that writes a decision: it is alone, and nobody heard of another.
<1>5. CASE SaveResolved(c)
  <2>1. /\ call[c].at = "save" /\ i \in Id /\ call[c].state \in State
        /\ resolved' = [resolved EXCEPT ![i] = call[c].state]
        /\ call' = [call EXCEPT ![c].at = "remove"]
        /\ UNCHANGED <<req, pending, lock, told, answered>>
    BY <1>0, <1>5 DEF SaveResolved, history
  <2>2. /\ call'[c].at = "remove" /\ call'[c].id = i
        /\ \A d \in Call \ {c} : call'[d] = call[d]
    BY <1>0, <2>1 DEF Calls
  <2>3. call[c].state # "none"
    BY <2>1 DEF State
  <2>4. \A j \in Id : resolved'[j] = IF j = i THEN call[c].state ELSE resolved[j]
    BY <1>0, <2>1
  <2>5. \A d \in Call : Inside(d) => call[d].id \in Id
    BY DEF Inside, DurableInv, IdsKnown
  <2>6. Inside(c)
    BY <2>1 DEF Inside
  <2>7. Alone'
    BY <2>1, <2>2, <2>3, <2>4, <2>5, <2>6, ApprovalAssumption DEF DurableInv, Alone, Inside
  <2>8. Settled'
    BY <2>1, <2>2 DEF DurableInv, Settled, Inside
  <2>9. DecisionIsDurable'
    BY <2>1, <2>3, <2>4, ApprovalAssumption DEF DurableInv, DecisionIsDurable, Settled
  <2> QED
    BY <2>7, <2>8, <2>9
<1>6. CASE RemovePending(c)
  <2>1. /\ call[c].at = "remove" /\ i \in Id /\ pending' = pending \ {i}
        /\ lock' = [lock EXCEPT ![i] = "free"] /\ Settle(c, call[c].state)
        /\ UNCHANGED <<req, resolved>>
    BY <1>0, <1>6 DEF RemovePending
  <2>2. Inside(c) /\ resolved[i] # "none"
    BY <2>1 DEF Inside, DurableInv, Alone
  <2>3. \A d \in Call \ {c} : Inside(d) => call[d].id # i
    BY <2>2 DEF DurableInv, Alone
  <2>4. Settled' /\ DecisionIsDurable'
    BY <2>1, <2>2, <2>3, SettleStep
  <2>5. \A d \in Call : Inside(d)' => d # c /\ Inside(d) /\ call'[d] = call[d]
    BY <1>0, <2>1 DEF Settle, NoCall, Inside
  <2>6. \A r \in Requester : req[r] = "write" => IdOf[r] # i
    BY <2>2 DEF DurableInv, Alone
  <2>7. Alone'
    BY <1>0, <2>1, <2>3, <2>5, <2>6 DEF DurableInv, Alone, Inside
  <2> QED
    BY <2>4, <2>7
<1>7. CASE ResolveFails(c)
  <2>1. /\ call' = [call EXCEPT ![c] = NoCall]
        /\ lock' = IF call[c].at = "save" THEN [lock EXCEPT ![i] = "free"] ELSE lock
        /\ UNCHANGED <<req, pending, resolved, told, answered>>
    BY <1>7 DEF ResolveFails, history
  <2>2. \A d \in Call : Inside(d)' => d # c /\ Inside(d) /\ call'[d] = call[d]
    BY <1>0, <2>1 DEF NoCall, Inside
  <2>3. Alone'
    BY <1>0, <2>1, <2>2 DEF DurableInv, Alone, Inside
  <2>4. Settled' /\ DecisionIsDurable'
    BY <2>1, <2>2 DEF DurableInv, Settled, DecisionIsDurable
  <2> QED
    BY <2>3, <2>4
<1> QED
  BY <1>1, <1>2, <1>3, <1>4, <1>5, <1>6, <1>7 DEF CallStep

LEMMA DurableStep == DurableInv /\ [Next]_vars => DurableInv'
<1> SUFFICES ASSUME DurableInv, [Next]_vars
             PROVE  Alone' /\ Settled' /\ DecisionIsDurable'
  BY TypedStep, IdsStep DEF DurableInv
<1>0. DOMAIN req = Requester
  BY DEF DurableInv, TypeOK
<1>1. ASSUME UNCHANGED <<files, told, answered, call>>,
             \A r \in Requester : req'[r] = "write" => req[r] = "write"
      PROVE  Alone' /\ Settled' /\ DecisionIsDurable'
  BY <1>1, QuietStep
<1>2. CASE ServerStart \/ StartStep
  <2>1. \A r \in Requester : req'[r] = "write" => req[r] = "write"
    BY <1>0, <1>2 DEF ServerStart, StartStep, List, StartDone, TrackFound, TrackRequest
  <2> QED
    BY <1>1, <1>2, <2>1 DEF ServerStart, StartStep, List, StartDone, TrackFound, history
<1>3. CASE Restart
  <2>1. /\ \A c \in Call : ~Inside(c)'
        /\ \A r \in Requester : req'[r] # "write"
    BY <1>3 DEF Restart, NoCall, Inside
  <2>2. Alone'
    BY <1>3, <2>1 DEF Restart, Alone, Inside, NoCall
  <2>3. Settled' /\ DecisionIsDurable'
    BY <1>3, <2>1 DEF Restart, DurableInv, Settled, DecisionIsDurable
  <2> QED
    BY <2>2, <2>3
<1>4. ASSUME NEW i \in Id, StealLock(i) PROVE Alone' /\ Settled' /\ DecisionIsDurable'
  <2>1. /\ lock[i] = "orphan" /\ lock' = [lock EXCEPT ![i] = "free"]
        /\ UNCHANGED <<call, req, pending, resolved, told, answered>>
    BY <1>4 DEF StealLock, history
  <2>2. DOMAIN lock = Id
    BY DEF DurableInv, TypeOK
  <2>3. Alone'
    BY <2>1, <2>2 DEF DurableInv, Alone, Inside
  <2>4. Settled' /\ DecisionIsDurable'
    BY <2>1 DEF DurableInv, Settled, DecisionIsDurable, Inside
  <2> QED
    BY <2>3, <2>4
<1>5. ASSUME NEW r \in Requester, Request(r) PROVE Alone' /\ Settled' /\ DecisionIsDurable'
  <2>1. \A q \in Requester : req'[q] = "write" => req[q] = "write"
    BY <1>0, <1>5 DEF Request, TrackRequest
  <2> QED
    BY <1>1, <1>5, <2>1 DEF Request, history
<1>6. ASSUME NEW r \in Requester, Delivered(r) PROVE Alone' /\ Settled' /\ DecisionIsDurable'
  BY <1>1, <1>6 DEF Delivered, Rest
<1>7. ASSUME NEW r \in Requester, NEW c \in Call, DeliveryFails(c, r)
      PROVE  Alone' /\ Settled' /\ DecisionIsDurable'
  BY <1>7, CallBegins DEF DeliveryFails, Rest
<1>8. CASE UNCHANGED vars
  BY <1>1, <1>8 DEF vars, history
<1> QED
  BY <1>2, <1>3, <1>4, <1>5, <1>6, <1>7, <1>8, DecideDurable, SaveDurable, CallDurable DEF Next

\* Whoever was answered, or heard that an approval was resolved, finds a decision
\* on disk, after any interleaving, restart or failed write.
THEOREM DecisionsAreDurable == Spec => []DecisionIsDurable
<1>1. Init => DurableInv
  BY TypedInit, IdsInit, DurableInit DEF DurableInv
<1>2. DurableInv => DecisionIsDurable
  BY DEF DurableInv
<1> QED
  BY <1>1, <1>2, DurableStep, PTL DEF Spec

\* A decision that was made known is never overwritten in the store.
THEOREM KnownDecisionsAreFinal == Spec => KnownIsFinal
<1>1. Init => DurableInv
  BY TypedInit, IdsInit, DurableInit DEF DurableInv
<1>2. DurableInv /\ [Next]_vars => [\A a \in answered : resolved'[a.id] = resolved[a.id]]_vars
  <2> SUFFICES ASSUME DurableInv, Next, NEW a \in answered
               PROVE  resolved'[a.id] = resolved[a.id]
    OBVIOUS
  <2>1. ASSUME NEW c \in Call, SaveResolved(c) PROVE resolved'[a.id] = resolved[a.id]
    <3>1. call[c].id # a.id
      BY <2>1 DEF SaveResolved, Inside, DurableInv, Settled
    <3> QED
      BY <2>1, <3>1 DEF SaveResolved, DurableInv, TypeOK
  <2>2. CASE UNCHANGED resolved
    BY <2>2
  <2> QED
    BY <2>1, <2>2 DEF Next, StartStep, SaveStep, CallStep, Decide, Rest, files,
       ServerStart, List, StartDone, TrackFound, Restart, StealLock, Request, Delivered,
       DeliveryFails, HttpReply, ChatReply, Timer, ExpireFound, Reconcile, SavePending,
       WritePending, SaveFails, Begin, TakeSession, Resolve, RemovePending, ResolveFails
<1> QED
  BY <1>1, <1>2, DurableStep, PTL DEF Spec, KnownIsFinal

-----------------------------------------------------------------------------
(* Approvals of a conversation *)

\* Who has asked is known: an id of a conversation that clients may have seen is
\* that of a request already made, and whoever waits for start() has made none.
Asked ==
  /\ \A r \in Requester : IdOf[r] \in shown \cap Bound => req[r] \notin {"idle", "starting"}
  /\ starter # NoOne => req[starter] = "starting"

\* A session that somebody waits for is in the map.
SessionsOn == \A i \in Id : session[i].requester # NoOne => session[i].on

\* A reply over HTTP to the id of a conversation got past the check because nothing
\* was pending there: it answers nobody, now or later.
FromHttp ==
  \A c \in Call : call[c].via = "http" /\ call[c].id \in Bound =>
    /\ call[c].id \in shown /\ call[c].requester = NoOne /\ call[c].at # "await"
    /\ call[c].at = "begin" => session[call[c].id].requester = NoOne

\* Only replies approve.
RepliesApprove == \A c \in Call : call[c].state = "approved" => call[c].via \in {"http", "chat"}

Answers == SessionsOn /\ FromHttp /\ RepliesApprove /\ BoundNeedsItsConversation
BoundInv == TypeOK /\ IdsKnown /\ Asked /\ Answers

LEMMA BoundInit == Init => Asked /\ Answers
  BY DEF Init, FreshMemory, NoCall, NoSession, Asked, SessionsOn, FromHttp, RepliesApprove,
         BoundNeedsItsConversation, Answers

LEMMA TrackAsks ==
  ASSUME TypeOK, Asked, NEW r \in Requester, TrackRequest(r), starter' = NoOne \/ starter' = starter,
         req[r] = "idle" \/ starter' = NoOne
  PROVE  Asked'
<1>1. /\ req' = [req EXCEPT ![r] = "lock"] /\ shown' = shown \cup {IdOf[r]} /\ DOMAIN req = Requester
  BY DEF TrackRequest, TypeOK
<1>2. \A s \in Requester : IdOf[s] \in shown' \cap Bound => req'[s] \notin {"idle", "starting"}
  BY <1>1, CreateIdAssumption DEF Asked
<1>3. starter' # NoOne => req'[starter'] = "starting"
  BY <1>1 DEF Asked, TypeOK
<1> QED
  BY <1>2, <1>3 DEF Asked

LEMMA AskedStep == TypeOK /\ Asked /\ [Next]_vars => Asked'
<1> SUFFICES ASSUME TypeOK, Asked, [Next]_vars PROVE Asked'
  OBVIOUS
<1>0. DOMAIN req = Requester /\ starter \in Requester \cup {NoOne}
  BY DEF TypeOK
<1>1. CASE UNCHANGED <<starter, req, shown>>
  BY <1>1 DEF Asked
<1>2. CASE ServerStart \/ List \/ \E i \in Id : TrackFound(i)
  BY <1>1, <1>2 DEF ServerStart, List, TrackFound, history
<1>3. CASE StartDone
  <2>1. CASE starter = NoOne
    BY <1>3, <2>1 DEF StartDone, Asked
  <2>2. CASE starter # NoOne
    BY <1>0, <1>3, <2>2, TrackAsks DEF StartDone
  <2> QED
    BY <2>1, <2>2
<1>4. CASE Restart
  <2>1. /\ starter' = NoOne /\ shown' = shown
        /\ \A r \in Requester : req'[r] = IF req[r] = "idle" THEN "idle" ELSE "gone"
    BY <1>4 DEF Restart
  <2> QED
    BY <2>1 DEF Asked
<1>5. CASE \E i \in Id : Decide(i) \/ StealLock(i)
  BY <1>1, <1>5 DEF Decide, HttpReply, ChatReply, Timer, ExpireFound, Reconcile, StealLock, Rest, startVars, history
<1>6. ASSUME NEW r \in Requester, Request(r) PROVE Asked'
  <2>1. CASE started
    BY <1>6, <2>1, TrackAsks DEF Request, startVars
  <2>2. CASE ~started
    <3>1. /\ req[r] = "idle" /\ req' = [req EXCEPT ![r] = "starting"] /\ starter' = r /\ shown' = shown
      BY <1>6, <2>2 DEF Request
    <3>2. IdOf[r] \notin shown \cap Bound
      BY <3>1 DEF Asked
    <3> QED
      BY <1>0, <3>1, <3>2 DEF Asked
  <2> QED
    BY <2>1, <2>2
<1>7. ASSUME NEW r \in Requester, SaveStep(r) PROVE Asked'
  <2>1. /\ req[r] \in {"lock", "write"}
        /\ req' = [req EXCEPT ![r] = "waiting"] \/ req' = [req EXCEPT ![r] = "write"]
           \/ req' = [req EXCEPT ![r] = "rejected"]
        /\ UNCHANGED <<starter, shown>>
    BY <1>7 DEF SaveStep, SavePending, WritePending, SaveFails, Ready, startVars, history
  <2> QED
    BY <1>0, <2>1 DEF Asked
<1>8. ASSUME NEW r \in Requester, Delivered(r) \/ \E c \in Call : DeliveryFails(c, r) PROVE Asked'
  BY <1>1, <1>8 DEF Delivered, DeliveryFails, Rest, startVars
<1>9. ASSUME NEW c \in Call, CallStep(c) PROVE Asked'
  BY <1>1, <1>9 DEF CallStep, Begin, TakeSession, Resolve, SaveResolved, RemovePending, ResolveFails,
                    Rest, startVars, history
<1>10. CASE UNCHANGED vars
  BY <1>1, <1>10 DEF vars, startVars, history
<1> QED
  BY <1>2, <1>3, <1>4, <1>5, <1>6, <1>7, <1>8, <1>9, <1>10 DEF Next, StartStep

\* A step that answers nobody: calls go or stay, sessions lose their requester or stay.
LEMMA QuietAnswers ==
  ASSUME BoundInv, shown \subseteq shown', UNCHANGED <<told, answered>>,
         \A c \in Call : \/ call'[c] = call[c]
                         \/ call'[c] = NoCall
                         \/ \E at \in {"save", "remove"} : call'[c] = [call[c] EXCEPT !.at = at],
         \A i \in Id : \/ session'[i] = session[i]
                       \/ session'[i].requester = NoOne
                       \/ session'[i].on /\ i \notin shown \cap Bound
  PROVE  Answers'
<1>1. SessionsOn' /\ BoundNeedsItsConversation'
  BY DEF BoundInv, Answers, SessionsOn, BoundNeedsItsConversation
<1> DEFINE Fine(c) ==
             /\ call[c].state = "approved" => call[c].via \in {"http", "chat"}
             /\ call[c].via = "http" /\ call[c].id \in Bound =>
                  /\ call[c].id \in shown /\ call[c].requester = NoOne /\ call[c].at # "await"
                  /\ call[c].at = "begin" => session[call[c].id].requester = NoOne
<1>2. ASSUME NEW c \in Call PROVE Fine(c)'
  <2>1. call[c] \in Calls
    BY DEF BoundInv, TypeOK
  <2>2. CASE call'[c] = NoCall
    BY <2>2 DEF NoCall
  <2>3. ASSUME NEW at \in {"save", "remove"}, call'[c] = [call[c] EXCEPT !.at = at] PROVE Fine(c)'
    <3>1. /\ call'[c].at = at /\ call'[c].via = call[c].via /\ call'[c].id = call[c].id
          /\ call'[c].state = call[c].state /\ call'[c].requester = call[c].requester
      BY <2>1, <2>3 DEF Calls
    <3> QED
      BY <3>1 DEF BoundInv, Answers, FromHttp, RepliesApprove
  <2>4. CASE call'[c] = call[c]
    <3>1. call[c].at = "begin" => call[c].id \in Id
      BY DEF BoundInv, IdsKnown
    <3> QED
      BY <2>4, <3>1 DEF BoundInv, Answers, FromHttp, RepliesApprove
  <2> QED
    BY <2>2, <2>3, <2>4
<1> QED
  BY <1>1, <1>2 DEF Answers, FromHttp, RepliesApprove

\* A request made now is not under an id that a reply over HTTP waits for.
LEMMA TrackAnswers ==
  ASSUME BoundInv, NEW r \in Requester, TrackRequest(r), req[r] \in {"idle", "starting"},
         UNCHANGED <<call, told, answered>>
  PROVE  Answers'
<1>1. /\ shown' = shown \cup {IdOf[r]} /\ IdOf[r] \in Id
      /\ session' = [session EXCEPT ![IdOf[r]] = [on |-> TRUE, requester |-> r, finalizing |-> FALSE]]
  BY ApprovalAssumption DEF TrackRequest
<1>2. IdOf[r] \notin shown \cap Bound
  BY DEF BoundInv, Asked
<1>3. \A i \in Id : session'[i] = session[i] \/ (session'[i].on /\ i \notin shown \cap Bound)
  BY <1>1, <1>2 DEF BoundInv, TypeOK
<1> QED
  BY <1>1, <1>3, QuietAnswers

\* finalizeApproval begins.
LEMMA FinalizeAnswers ==
  ASSUME BoundInv, NEW c \in Call, NEW i \in Id, NEW state, NEW via, Finalize(c, i, state, via),
         UNCHANGED <<shown, told, answered>>,
         state = "approved" => via \in {"http", "chat"},
         via = "http" /\ i \in Bound => i \in shown /\ session[i].requester = NoOne
  PROVE  Answers'
<1>1. PICK waits \in BOOLEAN : waits = (session[i].requester # NoOne)
  OBVIOUS
<1>2. /\ call' = [call EXCEPT ![c] = [at |-> IF waits THEN "await" ELSE "store", id |-> i,
                                      state |-> state, via |-> via, requester |-> session[i].requester]]
      /\ session' = [session EXCEPT ![i] = IF waits THEN [session[i] EXCEPT !.finalizing = TRUE] ELSE NoSession]
  BY <1>1 DEF Finalize
<1>3. session[i] \in Sessions /\ DOMAIN session = Id /\ DOMAIN call = Call
  BY DEF BoundInv, TypeOK
<1>4. \A j \in Id : /\ session'[j].requester = session[j].requester \/ session'[j].requester = NoOne
                    /\ session'[j].on = session[j].on \/ session'[j].requester = NoOne
  BY <1>2, <1>3 DEF Sessions, NoSession
<1>5. SessionsOn' /\ BoundNeedsItsConversation'
  BY <1>4 DEF BoundInv, Answers, SessionsOn, BoundNeedsItsConversation
<1>6. RepliesApprove'
  BY <1>2, <1>3 DEF BoundInv, Answers, RepliesApprove
<1>7. FromHttp'
  <2> SUFFICES ASSUME NEW d \in Call, call'[d].via = "http", call'[d].id \in Bound
               PROVE  /\ call'[d].id \in shown' /\ call'[d].requester = NoOne /\ call'[d].at # "await"
                      /\ call'[d].at = "begin" => session'[call'[d].id].requester = NoOne
    BY DEF FromHttp
  <2>1. CASE d = c
    BY <1>1, <1>2, <1>3, <2>1
  <2>2. CASE d # c
    <3>1. call'[d] = call[d] /\ (call[d].at = "begin" => call[d].id \in Id)
      BY <1>2, <2>2 DEF BoundInv, IdsKnown
    <3> QED
      BY <1>4, <3>1 DEF BoundInv, Answers, FromHttp
  <2> QED
    BY <2>1, <2>2
<1> QED
  BY <1>5, <1>6, <1>7 DEF Answers

\* A reply is considered: over HTTP only when no session stands there, or for an
\* id of no conversation.
LEMMA ConsideredAnswers ==
  ASSUME BoundInv, NEW c \in Call, NEW i \in Id, NEW state, NEW via \in {"http", "chat"},
         Considered(c, i, state, via), UNCHANGED <<shown, told, answered>>,
         via = "http" /\ i \in Bound => i \in shown /\ session[i].requester = NoOne
  PROVE  Answers'
<1>1. /\ call' = [call EXCEPT ![c] = [at |-> "begin", id |-> i, state |-> state, via |-> via, requester |-> NoOne]]
      /\ session' = session /\ DOMAIN call = Call
  BY DEF Considered, BoundInv, TypeOK
<1>2. SessionsOn' /\ BoundNeedsItsConversation'
  BY <1>1 DEF BoundInv, Answers, SessionsOn, BoundNeedsItsConversation
<1>3. RepliesApprove'
  BY <1>1 DEF BoundInv, Answers, RepliesApprove
<1>4. FromHttp'
  BY <1>1 DEF BoundInv, Answers, FromHttp
<1> QED
  BY <1>2, <1>3, <1>4 DEF Answers

\* The end of a call: who is told "approved" under an id of a conversation is
\* answered by a reply from there.
LEMMA SettleAnswers ==
  ASSUME BoundInv, NEW c \in Call, NEW got, call[c].at # "idle", Settle(c, got),
         UNCHANGED <<session, shown>>
  PROVE  Answers'
<1>1. call' = [call EXCEPT ![c] = NoCall] /\ DOMAIN call = Call /\ DOMAIN told = Requester
  BY DEF Settle, BoundInv, TypeOK
<1>2. /\ \A d \in Call : call'[d] = call[d] \/ call'[d] = NoCall
      /\ NoCall.state # "approved" /\ NoCall.via # "http"
  BY <1>1 DEF NoCall
<1>3. SessionsOn' /\ RepliesApprove' /\ FromHttp'
  <2>1. \A d \in Call : call'[d].state = "approved" => call'[d].via \in {"http", "chat"}
    BY <1>2 DEF BoundInv, Answers, RepliesApprove
  <2>2. FromHttp'
    BY <1>2 DEF BoundInv, Answers, FromHttp
  <2> QED
    BY <2>1, <2>2 DEF BoundInv, Answers, SessionsOn, RepliesApprove
<1>4. BoundNeedsItsConversation'
  <2> SUFFICES ASSUME NEW r \in Requester, IdOf[r] \in Bound, told'[r] = "approved"
               PROVE  \E a \in answered' : a.id = IdOf[r] /\ a.via = "chat" /\ a.state = "approved"
    BY DEF BoundNeedsItsConversation
  <2>1. CASE told'[r] = told[r]
    <3>1. answered \subseteq answered'
      BY DEF Settle
    <3> QED
      BY <2>1, <3>1 DEF BoundInv, Answers, BoundNeedsItsConversation
  <2>2. CASE told'[r] # told[r]
    <3>1. /\ call[c].requester = r /\ call[c].state = "approved"
          /\ answered' = answered \cup {[id |-> call[c].id, state |-> call[c].state, via |-> call[c].via]}
      BY <1>1, <2>2 DEF Settle
    <3>2. IdOf[r] = call[c].id
      BY <3>1 DEF BoundInv, IdsKnown
    <3>3. call[c].via = "chat"
      BY <3>1, <3>2, ApprovalAssumption DEF BoundInv, Answers, RepliesApprove, FromHttp
    <3>4. PICK a : a = [id |-> call[c].id, state |-> call[c].state, via |-> call[c].via]
      OBVIOUS
    <3>5. a \in answered' /\ a.id = IdOf[r] /\ a.via = "chat" /\ a.state = "approved"
      BY <3>1, <3>2, <3>3, <3>4
    <3> QED
      BY <3>5
  <2> QED
    BY <2>1, <2>2
<1> QED
  BY <1>3, <1>4 DEF Answers

LEMMA DecideAnswers ==
  ASSUME BoundInv, NEW i \in Id, Decide(i)
  PROVE  Answers'
<1> SUFFICES ASSUME NEW c \in Call, NEW state \in State,
                    \/ HttpReply(c, i, state) \/ ChatReply(c, i, state)
                    \/ Timer(c, i) \/ ExpireFound(c, i) \/ Reconcile(c, i)
             PROVE  Answers'
  BY DEF Decide, State
<1>1. CASE HttpReply(c, i, state)
  <2>1. i \in shown /\ UNCHANGED <<shown, told, answered>>
    BY <1>1 DEF HttpReply, Rest
  <2>2. CASE session[i].on
    BY <1>1, <2>1, <2>2, FinalizeAnswers DEF HttpReply
  <2>3. CASE ~session[i].on
    <3>1. session[i].requester = NoOne
      BY <2>3 DEF BoundInv, Answers, SessionsOn
    <3> QED
      BY <1>1, <2>1, <2>3, <3>1, ConsideredAnswers DEF HttpReply
  <2> QED
    BY <2>2, <2>3
<1>2. CASE ChatReply(c, i, state)
  BY <1>2, ConsideredAnswers DEF ChatReply, Rest
<1>3. CASE Timer(c, i)
  BY <1>3, FinalizeAnswers DEF Timer, Rest
<1>4. CASE ExpireFound(c, i)
  BY <1>4, FinalizeAnswers DEF ExpireFound
<1>5. CASE Reconcile(c, i)
  <2>1. CASE call' = call
    <3>1. \A d \in Call : call'[d] = call[d]
      BY <2>1
    <3> QED
      BY <1>5, <3>1, QuietAnswers DEF Reconcile
  <2>2. CASE call' = [call EXCEPT ![c] = [at |-> "store", id |-> i, state |-> "expired",
                                          via |-> "maintenance", requester |-> NoOne]]
    <3>1. DOMAIN call = Call /\ UNCHANGED <<session, shown, told, answered>>
      BY <1>5 DEF Reconcile, BoundInv, TypeOK
    <3> QED
      BY <2>2, <3>1 DEF BoundInv, Answers, SessionsOn, FromHttp, RepliesApprove, BoundNeedsItsConversation
  <2> QED
    BY <1>5, <2>1, <2>2 DEF Reconcile
<1> QED
  BY <1>1, <1>2, <1>3, <1>4, <1>5

LEMMA CallAnswers ==
  ASSUME BoundInv, NEW c \in Call, CallStep(c)
  PROVE  Answers'
<1>0. call[c] \in Calls /\ DOMAIN call = Call /\ DOMAIN session = Id
  BY DEF BoundInv, TypeOK
<1>1. CASE Begin(c)
  <2>1. call[c].id \in Id /\ call[c].via \in {"http", "chat"}
    BY <1>1 DEF Begin, BoundInv, IdsKnown
  <2>2. call[c].via = "http" /\ call[c].id \in Bound =>
          call[c].id \in shown /\ session[call[c].id].requester = NoOne
    BY <1>1 DEF Begin, BoundInv, Answers, FromHttp
  <2> QED
    BY <1>1, <2>1, <2>2, FinalizeAnswers DEF Begin, Rest
<1>2. CASE TakeSession(c)
  <2>1. /\ call[c].at = "await" /\ call[c].id \in Id
        /\ ~(call[c].via = "http" /\ call[c].id \in Bound)
        /\ UNCHANGED <<shown, told, answered>>
    BY <1>2 DEF TakeSession, BoundInv, IdsKnown, Answers, FromHttp
  <2>2. /\ call'[c].state = call[c].state /\ call'[c].via = call[c].via /\ call'[c].id = call[c].id
        /\ \A d \in Call \ {c} : call'[d] = call[d]
    BY <1>0, <1>2 DEF TakeSession, Calls
  <2>3. \A j \in Id : session'[j] = session[j] \/ session'[j] = NoSession
    BY <1>2 DEF TakeSession, BoundInv, TypeOK
  <2>4. SessionsOn' /\ BoundNeedsItsConversation' /\ RepliesApprove'
    BY <2>1, <2>2, <2>3 DEF BoundInv, Answers, SessionsOn, BoundNeedsItsConversation, RepliesApprove, NoSession
  <2>5. FromHttp'
    <3>1. \A d \in Call : call[d].at = "begin" => call[d].id \in Id
      BY DEF BoundInv, IdsKnown
    <3> QED
      BY <2>1, <2>2, <2>3, <3>1 DEF BoundInv, Answers, FromHttp, NoSession
  <2> QED
    BY <2>4, <2>5 DEF Answers
<1>3. ASSUME NEW at \in {"save", "remove"}, call' = [call EXCEPT ![c].at = at],
             UNCHANGED <<session, shown, told, answered>>
      PROVE  Answers'
  <2>1. \A d \in Call : call'[d] = call[d] \/ call'[d] = [call[d] EXCEPT !.at = at]
    BY <1>0, <1>3
  <2> QED
    BY <1>3, <2>1, QuietAnswers
<1>4. CASE Resolve(c)
  BY <1>3, <1>4, SettleAnswers DEF Resolve
<1>5. CASE SaveResolved(c)
  BY <1>3, <1>5 DEF SaveResolved, history
<1>6. CASE RemovePending(c)
  BY <1>6, SettleAnswers DEF RemovePending
<1>7. CASE ResolveFails(c)
  <2>1. \A d \in Call : call'[d] = call[d] \/ call'[d] = NoCall
    BY <1>0, <1>7 DEF ResolveFails
  <2> QED
    BY <1>7, <2>1, QuietAnswers DEF ResolveFails, history
<1> QED
  BY <1>1, <1>2, <1>4, <1>5, <1>6, <1>7 DEF CallStep

LEMMA AnswersStep == BoundInv /\ [Next]_vars => Answers'
<1> SUFFICES ASSUME BoundInv, [Next]_vars PROVE Answers'
  OBVIOUS
<1>0. DOMAIN call = Call /\ DOMAIN session = Id
  BY DEF BoundInv, TypeOK
<1>1. ASSUME UNCHANGED <<call, told, answered, shown>>,
             \A i \in Id : session'[i] = session[i] \/ session'[i].requester = NoOne
      PROVE  Answers'
  <2>1. \A c \in Call : call'[c] = call[c]
    BY <1>1
  <2> QED
    BY <1>1, <2>1, QuietAnswers
<1>2. CASE ServerStart \/ List
  BY <1>1, <1>2 DEF ServerStart, List, history
<1>3. CASE StartDone
  <2>1. CASE starter = NoOne
    BY <1>1, <1>3, <2>1 DEF StartDone
  <2>2. CASE starter # NoOne
    <3>1. starter \in Requester /\ req[starter] = "starting"
      BY <2>2 DEF BoundInv, TypeOK, Asked
    <3> QED
      BY <1>3, <2>2, <3>1, TrackAnswers DEF StartDone
  <2> QED
    BY <2>1, <2>2
<1>4. ASSUME NEW i \in Id, TrackFound(i) PROVE Answers'
  <2>1. [NoSession EXCEPT !.on = TRUE].requester = NoOne
    BY DEF NoSession
  <2> QED
    BY <1>0, <1>1, <1>4, <2>1 DEF TrackFound, history
<1>5. CASE Restart
  <2>1. (\A c \in Call : call'[c] = NoCall) /\ \A i \in Id : session'[i].requester = NoOne
    BY <1>5 DEF Restart, NoSession
  <2> QED
    BY <1>5, <2>1, QuietAnswers DEF Restart
<1>6. ASSUME NEW i \in Id, StealLock(i) PROVE Answers'
  BY <1>1, <1>6 DEF StealLock, history
<1>7. ASSUME NEW r \in Requester, Request(r) PROVE Answers'
  <2>1. CASE started
    BY <1>7, <2>1, TrackAnswers DEF Request
  <2>2. CASE ~started
    BY <1>1, <1>7, <2>2 DEF Request
  <2> QED
    BY <2>1, <2>2
<1>8. ASSUME NEW r \in Requester, SaveStep(r) PROVE Answers'
  <2>1. CASE SavePending(r) \/ WritePending(r)
    BY <1>1, <2>1 DEF SavePending, WritePending, history
  <2>2. CASE SaveFails(r)
    <3>1. NoSession.requester = NoOne
      BY DEF NoSession
    <3> QED
      BY <1>0, <1>1, <2>2, <3>1 DEF SaveFails, history
  <2> QED
    BY <1>8, <2>1, <2>2 DEF SaveStep
<1>9. ASSUME NEW r \in Requester, Delivered(r) PROVE Answers'
  BY <1>1, <1>9 DEF Delivered, Rest
<1>10. ASSUME NEW r \in Requester, NEW c \in Call, DeliveryFails(c, r) PROVE Answers'
  <2>1. IdOf[r] \in Id
    BY ApprovalAssumption
  <2> QED
    BY <1>10, <2>1, FinalizeAnswers DEF DeliveryFails, Rest
<1>11. CASE UNCHANGED vars
  BY <1>1, <1>11 DEF vars, history
<1> QED
  BY <1>2, <1>3, <1>4, <1>5, <1>6, <1>7, <1>8, <1>9, <1>10, <1>11, DecideAnswers, CallAnswers DEF Next, StartStep

\* A request made in a conversation is approved only by a reply from there.
THEOREM ConversationsDecide == Spec => []BoundNeedsItsConversation
<1>1. Init => BoundInv
  BY TypedInit, IdsInit, BoundInit DEF BoundInv
<1>2. BoundInv /\ [Next]_vars => BoundInv'
  BY TypedStep, IdsStep, AskedStep, AnswersStep DEF BoundInv
<1>3. BoundInv => BoundNeedsItsConversation
  BY DEF BoundInv, Answers
<1> QED
  BY <1>1, <1>2, <1>3, PTL DEF Spec
=============================================================================
