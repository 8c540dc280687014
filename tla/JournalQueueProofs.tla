------------------------- MODULE JournalQueueProofs -------------------------
(***************************************************************************)
(* Proofs about JournalQueue, for any messages, envelopes, filters, leases *)
(* and bounds.  The claims, their exclusion and the promise of             *)
(* MessageDelivery rest on the records, the inflight index and the grants  *)
(* alone: claim() looks at the status of a record before it hands it out,  *)
(* so nothing there depends on what stands in the buckets.  The last part  *)
(* shows what does stand in them, and so what load() makes of the file.    *)
(***************************************************************************)
EXTENDS JournalQueue, FiniteSetTheorems, TLAPS

-----------------------------------------------------------------------------
(* Types *)

LEMMA RecordMade ==
  ASSUME NEW st \in Status, NEW a \in Nat, NEW t \in Nat, NEW until \in Nat
  PROVE  [status |-> st, attempt |-> a, claimToken |-> t, leaseUntil |-> until] \in Record
  BY DEF Record

LEMMA UnclaimedType ==
  ASSUME RecordsTyped, NEW m \in MsgId, NEW st \in Status
  PROVE  Unclaimed(m, st) \in Record
<1>1. records[m].attempt \in Nat
  BY DEF RecordsTyped, Record
<1> QED
  BY <1>1, RecordMade DEF Unclaimed, NoToken

LEMMA ClaimedType ==
  ASSUME NEW t \in Token, NEW a \in Nat, NEW until \in Nat
  PROVE  ClaimedBy(t, a, until) \in Record
  BY RecordMade DEF ClaimedBy, Token, Status

LEMMA TypedInit == Init => RecordsTyped
<1> SUFFICES ASSUME Init PROVE RecordsTyped
  OBVIOUS
<1>1. Absent \in Record
  BY DEF Absent, Record, Status, NoToken
<1> QED
  BY <1>1, BoundsAssumption DEF Init, RecordsTyped

\* The fence lets through only tokens of claims in flight.
LEMMA HoldsFacts ==
  ASSUME NEW t \in Token, Holds(t)
  PROVE  /\ inflight[t].messageId \in MsgId
         /\ records[inflight[t].messageId].status = "inflight"
         /\ records[inflight[t].messageId].claimToken = t
         /\ records[inflight[t].messageId].leaseUntil > now
  BY DEF Holds, Current

LEMMA TypedStep == RecordsTyped /\ [Next]_vars => RecordsTyped'
<1> SUFFICES ASSUME RecordsTyped, [Next]_vars PROVE RecordsTyped'
  OBVIOUS
<1>a. /\ now \in Nat /\ issued \in 0..MaxTokens /\ records \in [MsgId -> Record]
      /\ inflight \in [Token -> Claims \cup {NoClaim}]
      /\ granted \in [Token -> Grants \cup {NoGrant}]
  BY DEF RecordsTyped
<1>b. \A m \in MsgId : records[m].attempt \in Nat /\ records[m].leaseUntil \in Nat
  BY <1>a DEF Record
<1>c. /\ \A m \in MsgId, st \in Status : Unclaimed(m, st) \in Record
      /\ {"pending", "completed", "deadletter"} \subseteq Status
  BY UnclaimedType DEF Status
<1>1. CASE Tick
  BY <1>1 DEF Tick, queueVars, RecordsTyped
<1>2. CASE SweepExpiredClaims
  BY <1>2, <1>a, <1>c DEF SweepExpiredClaims, Returned, RecordsTyped
<1>3. ASSUME NEW F \in Filters, NEW m \in MsgId, NEW lease \in LeaseMs, ClaimMessage(m, F, lease)
      PROVE RecordsTyped'
  <2>1. issued + 1 \in Token /\ now + lease \in Nat /\ records[m].attempt + 1 \in Nat
    BY <1>3, <1>a, <1>b, LeaseAssumption, BoundsAssumption DEF ClaimMessage, Token
  <2>2. records' \in [MsgId -> Record]
    <3>1. ClaimedBy(issued + 1, records[m].attempt + 1, now + lease) \in Record
      BY <2>1, ClaimedType
    <3> QED
      BY <1>3, <3>1, <1>a, <1>c DEF ClaimMessage, Buried
  <2>3. inflight' \in [Token -> Claims \cup {NoClaim}]
    BY <1>3, <1>a, <2>1 DEF ClaimMessage, Claims
  <2>4. granted' \in [Token -> Grants \cup {NoGrant}]
    BY <1>3, <1>a, <2>1 DEF ClaimMessage, Grants
  <2> QED
    BY <1>3, <1>a, <2>1, <2>2, <2>3, <2>4, BoundsAssumption DEF ClaimMessage, RecordsTyped, Token
<1>4. ASSUME NEW F \in Filters, ClaimNothing(F)
      PROVE RecordsTyped'
  BY <1>4, <1>a, <1>c DEF ClaimNothing, Buried, RecordsTyped
<1>5. ASSUME NEW m \in MsgId, Accept(m)
      PROVE RecordsTyped'
  <2>1. Fresh \in Record /\ Absent \in Record
    BY RecordMade DEF Fresh, Absent, Status, NoToken
  <2> QED
    BY <1>5, <1>a, <2>1 DEF Accept, RecordsTyped
<1>6. ASSUME NEW m \in MsgId, Requeue(m)
      PROVE RecordsTyped'
  BY <1>6, <1>a, <1>c DEF Requeue, Unclaim, RecordsTyped
<1>7. ASSUME NEW m \in MsgId, Deadletter(m)
      PROVE RecordsTyped'
  BY <1>7, <1>a, <1>c DEF Deadletter, Unclaim, RecordsTyped
<1>8. ASSUME NEW t \in Token, Ack(t)
      PROVE RecordsTyped'
  BY <1>8, <1>a, <1>c, HoldsFacts DEF Ack, RecordsTyped
<1>9. ASSUME NEW t \in Token, NEW requeue \in BOOLEAN, Nack(t, requeue)
      PROVE RecordsTyped'
  BY <1>9, <1>a, <1>c, HoldsFacts DEF Nack, RecordsTyped
<1>10. ASSUME NEW t \in Token, NEW lease \in LeaseMs, Renew(t, lease)
       PROVE RecordsTyped'
  <2> DEFINE m == inflight[t].messageId
  <2>1. m \in MsgId /\ now + lease \in Nat /\ records[m].attempt \in Nat /\ inflight[t].attempt \in Nat
    BY <1>10, <1>a, <1>b, HoldsFacts, LeaseAssumption DEF Renew, Claims, NoClaim
  <2>2. ClaimedBy(t, records[m].attempt, now + lease) \in Record
    BY <2>1, ClaimedType
  <2>3. records' \in [MsgId -> Record]
    BY <1>10, <1>a, <2>1, <2>2 DEF Renew
  <2>4. inflight' \in [Token -> Claims \cup {NoClaim}] /\ granted' \in [Token -> Grants \cup {NoGrant}]
    BY <1>10, <1>a, <2>1 DEF Renew, Claims, Grants
  <2> QED
    BY <1>10, <1>a, <2>3, <2>4 DEF Renew, RecordsTyped
<1>11. CASE UNCHANGED vars
  BY <1>11 DEF vars, queueVars, RecordsTyped
<1> QED
  BY <1>1, <1>2, <1>3, <1>4, <1>5, <1>6, <1>7, <1>8, <1>9, <1>10, <1>11 DEF Next, Claim

-----------------------------------------------------------------------------
(* The index and the records *)

\* One message of the index and its record agree.
Matches(t) ==
  LET r == records[inflight[t].messageId] IN
  /\ r.status = "inflight" /\ r.claimToken = t
  /\ r.leaseUntil = inflight[t].leaseUntil
  /\ r.attempt = inflight[t].attempt

Indexed(m) ==
  /\ records[m].claimToken \in 1..issued
  /\ inflight[records[m].claimToken].messageId = m

LEMMA AgreementParts ==
  ClaimAgreement <=> /\ \A t \in Token : inflight[t].messageId \in MsgId => Matches(t)
                     /\ \A m \in MsgId : records[m].status = "inflight" => Indexed(m)
  BY DEF ClaimAgreement, Matches, Indexed

LEMMA AgreementInit == Init => ClaimAgreement
<1> SUFFICES ASSUME Init PROVE ClaimAgreement
  OBVIOUS
<1>1. \A t \in Token : inflight[t].messageId \notin MsgId
  BY NoMsgAssumption DEF Init, NoClaim
<1>2. \A m \in MsgId : records[m].status # "inflight"
  BY DEF Init, Absent
<1> QED
  BY <1>1, <1>2, AgreementParts

\* A step that takes every claim in T out of the index, together with the
\* inflight status of its record, keeps the agreement: ack, nack, requeue,
\* deadletter and the sweeper are all of this kind.
LEMMA Dropped ==
  ASSUME RecordsTyped, RecordsTyped', ClaimAgreement, issued' = issued,
         NEW T \in SUBSET Token,
         \A t \in T : inflight'[t] = NoClaim,
         \A t \in Token \ T : inflight'[t] = inflight[t],
         \A m \in MsgId : \/ records'[m] = records[m] /\ records[m].claimToken \notin T
                          \/ records'[m] = records[m] /\ records[m].status # "inflight"
                          \/ /\ records'[m].status # "inflight"
                             /\ records[m].status = "inflight" => records[m].claimToken \in T
                             /\ \A t \in Token \ T : inflight[t].messageId # m
  PROVE  ClaimAgreement'
<1>1. ASSUME NEW t \in Token, inflight'[t].messageId \in MsgId
      PROVE Matches(t)'
  <2>1. t \notin T /\ inflight'[t] = inflight[t]
    BY <1>1, NoMsgAssumption DEF NoClaim
  <2>2. Matches(t)
    BY <1>1, <2>1, AgreementParts
  <2>3. records'[inflight[t].messageId] = records[inflight[t].messageId]
    BY <1>1, <2>1, <2>2 DEF Matches
  <2> QED
    BY <2>1, <2>2, <2>3 DEF Matches
<1>2. ASSUME NEW m \in MsgId, records'[m].status = "inflight"
      PROVE Indexed(m)'
  <2>1. records'[m] = records[m] /\ records[m].claimToken \notin T
    BY <1>2
  <2>2. Indexed(m)
    BY <1>2, <2>1, AgreementParts
  <2>3. records[m].claimToken \in Token
    BY <2>2, BoundsAssumption DEF Indexed, RecordsTyped, Token
  <2> QED
    BY <2>1, <2>2, <2>3 DEF Indexed
<1> QED
  BY <1>1, <1>2, AgreementParts DEF ClaimAgreement, Matches, Indexed

\* The one holder that settles: ack and nack.
LEMMA SettledAgreement ==
  ASSUME RecordsTyped, RecordsTyped', ClaimAgreement, issued' = issued,
         NEW t \in Token, Holds(t), NEW st \in Status, st # "inflight",
         records' = [records EXCEPT ![inflight[t].messageId] = Unclaimed(inflight[t].messageId, st)],
         inflight' = [inflight EXCEPT ![t] = NoClaim]
  PROVE  ClaimAgreement'
<1> DEFINE m == inflight[t].messageId
<1>1. m \in MsgId /\ records[m].status = "inflight" /\ records[m].claimToken = t
  BY HoldsFacts
<1>2. /\ \A s \in Token \ {t} : inflight'[s] = inflight[s] /\ inflight[s].messageId # m
      /\ inflight'[t] = NoClaim
  <2>1. inflight' = [inflight EXCEPT ![t] = NoClaim] /\ inflight \in [Token -> Claims \cup {NoClaim}]
    BY DEF RecordsTyped
  <2>2. ASSUME NEW s \in Token \ {t} PROVE inflight[s].messageId # m
    BY <1>1, <2>2, AgreementParts DEF Matches
  <2> QED
    BY <2>1, <2>2
<1>3. records'[m].status # "inflight" /\ \A x \in MsgId \ {m} : records'[x] = records[x]
  BY <1>1 DEF RecordsTyped, Unclaimed
<1>4. ASSUME NEW x \in MsgId \ {m} PROVE records[x].status = "inflight" => records[x].claimToken # t
  BY <1>1, <1>4, AgreementParts DEF Indexed
<1> DEFINE T == {t}
<1>5. T \in SUBSET Token /\ (\A s \in T : inflight'[s] = NoClaim) /\ \A s \in Token \ T : inflight'[s] = inflight[s]
  BY <1>2
<1>6. \A x \in MsgId : \/ records'[x] = records[x] /\ records[x].claimToken \notin T
                       \/ records'[x] = records[x] /\ records[x].status # "inflight"
                       \/ /\ records'[x].status # "inflight"
                          /\ records[x].status = "inflight" => records[x].claimToken \in T
                          /\ \A s \in Token \ T : inflight[s].messageId # x
  BY <1>1, <1>2, <1>3, <1>4
<1> HIDE DEF T
<1> QED
  BY <1>5, <1>6, Dropped

\* The by-id operations: requeue and deadletter.
LEMMA UnclaimedAgreement ==
  ASSUME RecordsTyped, RecordsTyped', ClaimAgreement, issued' = issued,
         NEW m \in MsgId, NEW st \in Status, st # "inflight",
         records' = [records EXCEPT ![m] = Unclaimed(m, st)],
         inflight' = Unclaim(m)
  PROVE  ClaimAgreement'
<1> DEFINE T == IF records[m].status = "inflight" THEN {records[m].claimToken} ELSE {}
<1>1. records[m].status = "inflight" => records[m].claimToken \in Token /\ inflight[records[m].claimToken].messageId = m
  BY AgreementParts, BoundsAssumption DEF Indexed, RecordsTyped, Token
<1>2. /\ \A s \in Token \ T : inflight'[s] = inflight[s]
      /\ \A s \in T : inflight'[s] = NoClaim
  BY <1>1 DEF Unclaim, RecordsTyped
<1>3. ASSUME NEW s \in Token \ T PROVE inflight[s].messageId # m
  BY <1>1, <1>3, AgreementParts DEF Matches
<1>4. records'[m].status # "inflight" /\ \A x \in MsgId \ {m} : records'[x] = records[x]
  BY DEF RecordsTyped, Unclaimed
<1>5. ASSUME NEW x \in MsgId \ {m} PROVE records[x].status = "inflight" => records[x].claimToken \notin T
  BY <1>1, <1>5, AgreementParts DEF Indexed
<1>6. T \in SUBSET Token
  BY <1>1
<1>7. \A x \in MsgId : \/ records'[x] = records[x] /\ records[x].claimToken \notin T
                       \/ records'[x] = records[x] /\ records[x].status # "inflight"
                       \/ /\ records'[x].status # "inflight"
                          /\ records[x].status = "inflight" => records[x].claimToken \in T
                          /\ \A s \in Token \ T : inflight[s].messageId # x
  BY <1>3, <1>4, <1>5
<1> HIDE DEF T
<1> QED
  BY <1>2, <1>6, <1>7, Dropped

\* A step that leaves the index alone and changes only records that are and
\* stay without a claim.
LEMMA UntouchedAgreement ==
  ASSUME ClaimAgreement, issued' = issued, inflight' = inflight,
         \A m \in MsgId : \/ records'[m] = records[m]
                          \/ records[m].status # "inflight" /\ records'[m].status # "inflight"
  PROVE  ClaimAgreement'
<1>1. ASSUME NEW t \in Token, inflight'[t].messageId \in MsgId
      PROVE Matches(t)'
  BY <1>1, AgreementParts DEF Matches
<1>2. ASSUME NEW m \in MsgId, records'[m].status = "inflight"
      PROVE Indexed(m)'
  BY <1>2, AgreementParts DEF Indexed
<1> QED
  BY <1>1, <1>2 DEF ClaimAgreement, Matches, Indexed

LEMMA ClaimedAgreement ==
  ASSUME RecordsTyped, RecordsTyped', ClaimAgreement,
         NEW F \in Filters, NEW m \in MsgId, NEW lease \in LeaseMs, ClaimMessage(m, F, lease)
  PROVE  ClaimAgreement'
<1> DEFINE t == issued + 1
           until == now + lease
<1>1. t \in Token /\ issued \in Nat /\ issued' = t /\ records[m].status = "pending"
  BY BoundsAssumption DEF ClaimMessage, Claimable, RecordsTyped, Token
<1>2. records'[m] = ClaimedBy(t, records[m].attempt + 1, until)
  BY DEF ClaimMessage, Buried
<1>3. ASSUME NEW x \in MsgId \ {m}
      PROVE \/ records'[x] = records[x]
            \/ records[x].status = "pending" /\ records'[x].status = "deadletter"
  BY DEF ClaimMessage, Buried, Unclaimed
<1>4. /\ inflight'[t] = [messageId |-> m, leaseUntil |-> until, attempt |-> records[m].attempt + 1]
      /\ \A s \in Token \ {t} : inflight'[s] = inflight[s]
  BY <1>1 DEF ClaimMessage, RecordsTyped
<1>5. ASSUME NEW s \in Token, inflight'[s].messageId \in MsgId
      PROVE Matches(s)'
  <2>1. CASE s = t
    BY <2>1, <1>2, <1>4 DEF Matches, ClaimedBy
  <2>2. CASE s # t
    <3>1. inflight'[s] = inflight[s] /\ Matches(s)
      BY <2>2, <1>4, <1>5, AgreementParts
    <3>2. records'[inflight[s].messageId] = records[inflight[s].messageId]
      BY <3>1, <1>1, <1>3, <1>5 DEF Matches
    <3> QED
      BY <3>1, <3>2 DEF Matches
  <2> QED
    BY <2>1, <2>2
<1>6. ASSUME NEW x \in MsgId, records'[x].status = "inflight"
      PROVE Indexed(x)'
  <2>1. CASE x = m
    BY <2>1, <1>1, <1>2, <1>4 DEF Indexed, ClaimedBy
  <2>2. CASE x # m
    <3>1. records'[x] = records[x] /\ Indexed(x)
      BY <2>2, <1>3, <1>6, AgreementParts
    <3>2. records[x].claimToken # t /\ records[x].claimToken \in Token
      BY <3>1, <1>1, BoundsAssumption DEF Indexed, Token
    <3> QED
      BY <3>1, <3>2, <1>1, <1>4 DEF Indexed
  <2> QED
    BY <2>1, <2>2
<1> QED
  BY <1>5, <1>6 DEF ClaimAgreement, Matches, Indexed

LEMMA SweptAgreement ==
  ASSUME RecordsTyped, RecordsTyped', ClaimAgreement, SweepExpiredClaims
  PROVE  ClaimAgreement'
<1>1. /\ Overdue \in SUBSET Token /\ issued' = issued
      /\ \A t \in Overdue : inflight'[t] = NoClaim
      /\ \A t \in Token \ Overdue : inflight'[t] = inflight[t]
  BY DEF SweepExpiredClaims, Overdue
<1>2. ASSUME NEW m \in MsgId
      PROVE \/ records'[m] = records[m] /\ records[m].claimToken \notin Overdue
            \/ records'[m] = records[m] /\ records[m].status # "inflight"
            \/ /\ records'[m].status # "inflight"
               /\ records[m].status = "inflight" => records[m].claimToken \in Overdue
               /\ \A t \in Token \ Overdue : inflight[t].messageId # m
  <2>1. CASE m \in Reclaimed
    <3>1. PICK t \in Overdue : Current(t) /\ inflight[t].messageId = m
      BY <2>1 DEF Reclaimed
    <3>2. records'[m].status # "inflight"
      BY <2>1 DEF SweepExpiredClaims, Returned, Unclaimed
    <3>3. records[m].claimToken = t
      BY <3>1 DEF Current
    <3>4. ASSUME NEW s \in Token \ Overdue PROVE inflight[s].messageId # m
      BY <3>1, <3>3, <3>4, AgreementParts DEF Matches
    <3> QED
      BY <3>2, <3>3, <3>4
  <2>2. CASE m \notin Reclaimed
    <3>1. records'[m] = records[m]
      BY <2>2 DEF SweepExpiredClaims
    <3>2. ASSUME records[m].status = "inflight" PROVE records[m].claimToken \notin Overdue
      BY <2>2, <3>2, AgreementParts DEF Indexed, Reclaimed, Current
    <3> QED
      BY <3>1, <3>2
  <2> QED
    BY <2>1, <2>2
<1> HIDE DEF Overdue
<1> QED
  BY <1>1, <1>2, Dropped

LEMMA AgreementStep ==
  RecordsTyped /\ RecordsTyped' /\ ClaimAgreement /\ [Next]_vars => ClaimAgreement'
<1> SUFFICES ASSUME RecordsTyped, RecordsTyped', ClaimAgreement, [Next]_vars PROVE ClaimAgreement'
  OBVIOUS
<1>0. {"pending", "completed", "deadletter"} \subseteq Status \ {"inflight"}
  BY DEF Status
<1>1. CASE Tick
  BY <1>1, UntouchedAgreement DEF Tick, queueVars
<1>2. CASE SweepExpiredClaims
  BY <1>2, SweptAgreement
<1>3. ASSUME NEW F \in Filters, NEW m \in MsgId, NEW lease \in LeaseMs, ClaimMessage(m, F, lease)
      PROVE ClaimAgreement'
  BY <1>3, ClaimedAgreement
<1>4. ASSUME NEW F \in Filters, ClaimNothing(F)
      PROVE ClaimAgreement'
  <2>1. \A m \in MsgId : \/ records'[m] = records[m]
                         \/ records[m].status # "inflight" /\ records'[m].status # "inflight"
    BY <1>4 DEF ClaimNothing, Buried, Unclaimed
  <2> QED
    BY <1>4, <2>1, UntouchedAgreement DEF ClaimNothing
<1>5. ASSUME NEW m \in MsgId, Accept(m)
      PROVE ClaimAgreement'
  <2>1. \A x \in MsgId : \/ records'[x] = records[x]
                         \/ records[x].status # "inflight" /\ records'[x].status # "inflight"
    BY <1>5 DEF Accept, Fresh, Absent
  <2> QED
    BY <1>5, <2>1, UntouchedAgreement DEF Accept
<1>6. ASSUME NEW m \in MsgId, Requeue(m)
      PROVE ClaimAgreement'
  BY <1>0, <1>6, UnclaimedAgreement DEF Requeue
<1>7. ASSUME NEW m \in MsgId, Deadletter(m)
      PROVE ClaimAgreement'
  BY <1>0, <1>7, UnclaimedAgreement DEF Deadletter
<1>8. ASSUME NEW t \in Token, Ack(t)
      PROVE ClaimAgreement'
  BY <1>0, <1>8, SettledAgreement DEF Ack
<1>9. ASSUME NEW t \in Token, NEW requeue \in BOOLEAN, Nack(t, requeue)
      PROVE ClaimAgreement'
  <2>1. PICK st \in {"pending", "deadletter"} :
          records' = [records EXCEPT ![inflight[t].messageId] = Unclaimed(inflight[t].messageId, st)]
    BY <1>9 DEF Nack
  <2> QED
    BY <1>0, <1>9, <2>1, SettledAgreement DEF Nack
<1>10. ASSUME NEW t \in Token, NEW lease \in LeaseMs, Renew(t, lease)
       PROVE ClaimAgreement'
  <2> DEFINE m == inflight[t].messageId
             until == now + lease
  <2>1. m \in MsgId /\ records[m].status = "inflight" /\ records[m].claimToken = t
    BY <1>10, HoldsFacts DEF Renew
  <2>2. /\ records'[m] = ClaimedBy(t, records[m].attempt, until)
        /\ \A x \in MsgId \ {m} : records'[x] = records[x]
        /\ inflight'[t] = [messageId |-> m, leaseUntil |-> until, attempt |-> inflight[t].attempt]
        /\ \A s \in Token \ {t} : inflight'[s] = inflight[s]
        /\ issued' = issued
    BY <1>10, <2>1 DEF Renew, RecordsTyped
  <2>3. Matches(t) /\ Indexed(m)
    BY <2>1, AgreementParts
  <2>4. ASSUME NEW s \in Token, inflight'[s].messageId \in MsgId
        PROVE Matches(s)'
    <3>1. CASE s = t
      BY <3>1, <2>2, <2>3 DEF Matches, ClaimedBy
    <3>2. CASE s # t
      <4>1. inflight'[s] = inflight[s] /\ Matches(s)
        BY <2>2, <2>4, <3>2, AgreementParts
      <4>2. inflight[s].messageId # m
        BY <3>2, <4>1, <2>1 DEF Matches
      <4> QED
        BY <2>2, <2>4, <4>1, <4>2 DEF Matches
    <3> QED
      BY <3>1, <3>2
  <2>5. ASSUME NEW x \in MsgId, records'[x].status = "inflight"
        PROVE Indexed(x)'
    <3>1. CASE x = m
      BY <3>1, <2>1, <2>2, <2>3 DEF Indexed, ClaimedBy
    <3>2. CASE x # m
      <4>1. records'[x] = records[x] /\ Indexed(x)
        BY <2>2, <2>5, <3>2, AgreementParts
      <4>2. records[x].claimToken # t /\ records[x].claimToken \in Token
        BY <3>2, <4>1, BoundsAssumption DEF Indexed, Token, RecordsTyped
      <4> QED
        BY <2>2, <4>1, <4>2 DEF Indexed
    <3> QED
      BY <3>1, <3>2
  <2> QED
    BY <2>4, <2>5 DEF ClaimAgreement, Matches, Indexed
<1>11. CASE UNCHANGED vars
  BY <1>11, UntouchedAgreement DEF vars, queueVars
<1> QED
  BY <1>1, <1>2, <1>3, <1>4, <1>5, <1>6, <1>7, <1>8, <1>9, <1>10, <1>11 DEF Next, Claim

\* Records, index and grants keep their types in every reachable state.
THEOREM RecordsAreTyped == Spec => []RecordsTyped
  BY TypedInit, TypedStep, PTL DEF Spec

\* The inflight index and the records name the same claims, with the same
\* lease and attempt, after any sequence of operations.
THEOREM IndexAgrees == Spec => []ClaimAgreement
<1>1. RecordsTyped /\ ClaimAgreement /\ [Next]_vars => (RecordsTyped /\ ClaimAgreement)'
  BY TypedStep, AgreementStep
<1> QED
  BY TypedInit, AgreementInit, <1>1, PTL DEF Spec

-----------------------------------------------------------------------------
(* Completion *)

LEMMA CompletedStep ==
  ASSUME RecordsTyped, [Next]_vars, NEW m \in MsgId, records[m].status = "completed"
  PROVE  records'[m].status \in {"completed", "deadletter"}
<1>0. DOMAIN records = MsgId /\ records = [x \in MsgId |-> records[x]]
  BY DEF RecordsTyped
<1>1. CASE Tick
  BY <1>1 DEF Tick, queueVars
<1>2. CASE SweepExpiredClaims
  <2>1. m \notin Reclaimed
    BY DEF Reclaimed, Current
  <2> QED
    BY <1>2, <2>1 DEF SweepExpiredClaims
<1>3. ASSUME NEW F \in Filters, Claim(F)
      PROVE records'[m].status \in {"completed", "deadletter"}
  BY <1>3 DEF Claim, ClaimMessage, ClaimNothing, Claimable, Buried, Unclaimed
<1>4. ASSUME NEW x \in MsgId, Accept(x)
      PROVE records'[m].status \in {"completed", "deadletter"}
  BY <1>4 DEF Accept, SameKey, Active
<1>5. ASSUME NEW x \in MsgId, Requeue(x) \/ Deadletter(x)
      PROVE records'[m].status \in {"completed", "deadletter"}
  BY <1>0, <1>5 DEF Requeue, Deadletter, Unclaimed
\* The holder of a live claim touches the record of that claim only.
<1>6. ASSUME NEW t \in Token,
             Ack(t) \/ (\E requeue \in BOOLEAN : Nack(t, requeue)) \/ (\E lease \in LeaseMs : Renew(t, lease))
      PROVE records'[m].status \in {"completed", "deadletter"}
  <2>1. Holds(t)
    BY <1>6 DEF Ack, Nack, Renew
  <2>2. inflight[t].messageId # m
    BY <2>1, HoldsFacts
  <2>3. records'[m] = records[m]
    BY <1>0, <1>6, <2>2 DEF Ack, Nack, Renew
  <2> QED
    BY <2>3
<1>7. CASE UNCHANGED vars
  BY <1>7 DEF vars, queueVars
<1> QED
  BY <1>1, <1>2, <1>3, <1>4, <1>5, <1>6, <1>7 DEF Next

\* A completed message never becomes pending, inflight or absent again.
THEOREM CompletionIsFinal == Spec => CompletedIsFinal
<1>1. RecordsTyped /\ [Next]_vars =>
        [\A m \in MsgId : records[m].status = "completed" =>
           records'[m].status \in {"completed", "deadletter"}]_vars
  BY CompletedStep
<1> QED
  BY <1>1, RecordsAreTyped, PTL DEF Spec, CompletedIsFinal

-----------------------------------------------------------------------------
(* Leases of the messages that operators do not requeue by id *)

\* The last reply to a holder is what the index says of its claim.
HolderKnows ==
  \A t \in Token : inflight[t].messageId \in MsgId =>
    /\ granted[t].messageId = inflight[t].messageId
    /\ granted[t].leaseUntil = inflight[t].leaseUntil

\* A message whose promised lease still runs is out under that very claim, or
\* was buried by id.
GrantCovered ==
  \A t \in Token : Unexpired(t) =>
    LET r == records[granted[t].messageId] IN
    r.status = "deadletter" \/ (r.status = "inflight" /\ r.claimToken = t)

LeaseInv == RecordsTyped /\ ClaimAgreement /\ HolderKnows /\ GrantCovered /\ LeaseExclusive

\* What is in the index of a live claim.
LEMMA HeldClaim ==
  ASSUME ClaimAgreement, NEW m \in MsgId, records[m].status = "inflight"
  PROVE  /\ records[m].claimToken \in 1..issued
         /\ inflight[records[m].claimToken].messageId = m
  BY DEF ClaimAgreement

LEMMA LeaseInit == Init => HolderKnows /\ GrantCovered /\ LeaseExclusive
  BY NoMsgAssumption DEF Init, HolderKnows, GrantCovered, LeaseExclusive, Unexpired, NoClaim, NoGrant

\* Steps that give no grant and take none but the settled one.
LEMMA SettledLease ==
  ASSUME LeaseInv, RecordsTyped', NEW T \in SUBSET Token,
         now' = now,
         \A t \in Token \ T : inflight'[t] = inflight[t],
         \A t \in T : inflight'[t] = NoClaim,
         \A t \in Token : granted'[t] = granted[t] \/ granted'[t] = NoGrant,
         \A t \in Token : Unexpired(t) /\ granted'[t] = granted[t] =>
           LET m == granted[t].messageId IN
           records'[m] = records[m] \/ records'[m].status = "deadletter",
         \A t \in Token \ T : inflight[t].messageId \in MsgId => granted'[t] = granted[t]
  PROVE  (HolderKnows /\ GrantCovered /\ LeaseExclusive)'
<1>1. ASSUME NEW t \in Token, Unexpired(t)'
      PROVE granted'[t] = granted[t] /\ Unexpired(t)
  BY <1>1, NoMsgAssumption DEF Unexpired, NoGrant
<1>2. HolderKnows'
  <2>1. ASSUME NEW t \in Token, inflight'[t].messageId \in MsgId
        PROVE inflight'[t] = inflight[t] /\ granted'[t] = granted[t]
    BY <2>1, NoMsgAssumption DEF NoClaim
  <2> QED
    BY <2>1 DEF LeaseInv, HolderKnows
<1>3. GrantCovered'
  BY <1>1 DEF LeaseInv, GrantCovered
<1>4. LeaseExclusive'
  BY <1>1 DEF LeaseInv, LeaseExclusive
<1> QED
  BY <1>2, <1>3, <1>4

LEMMA TickLease ==
  ASSUME LeaseInv, Tick
  PROVE  (HolderKnows /\ GrantCovered /\ LeaseExclusive)'
<1>1. /\ now' = now + 1 /\ now \in Nat
      /\ records' = records /\ inflight' = inflight /\ granted' = granted
  BY DEF Tick, queueVars, LeaseInv, RecordsTyped
<1>2. ASSUME NEW t \in Token, Unexpired(t)' PROVE Unexpired(t)
  <2>1. granted[t].messageId \in MsgId \ Requeueable /\ granted[t].leaseUntil > now + 1
    BY <1>1, <1>2 DEF Unexpired
  <2>2. granted[t].leaseUntil \in Nat
    BY <2>1, NoMsgAssumption DEF LeaseInv, RecordsTyped, Grants, NoGrant
  <2> QED
    BY <1>1, <2>1, <2>2 DEF Unexpired
<1> QED
  BY <1>1, <1>2 DEF LeaseInv, HolderKnows, GrantCovered, LeaseExclusive

\* A claim hands out a message nobody was promised any more.
LEMMA ClaimLease ==
  ASSUME LeaseInv, NEW F \in Filters, NEW m \in MsgId, NEW lease \in LeaseMs, ClaimMessage(m, F, lease)
  PROVE  (HolderKnows /\ GrantCovered /\ LeaseExclusive)'
<1> DEFINE t == issued + 1
           until == now + lease
<1>1. t \in Token /\ now' = now /\ records[m].status = "pending"
  BY BoundsAssumption DEF ClaimMessage, Claimable, LeaseInv, RecordsTyped, Token
<1>2. /\ inflight'[t] = [messageId |-> m, leaseUntil |-> until, attempt |-> records[m].attempt + 1]
      /\ granted'[t] = [messageId |-> m, leaseUntil |-> until]
      /\ \A s \in Token \ {t} : inflight'[s] = inflight[s] /\ granted'[s] = granted[s]
  BY <1>1 DEF ClaimMessage, LeaseInv, RecordsTyped
<1>3. records'[m] = ClaimedBy(t, records[m].attempt + 1, until)
  BY DEF ClaimMessage, LeaseInv, RecordsTyped, Buried
<1>4. ASSUME NEW x \in MsgId \ {m}
      PROVE records'[x] = records[x] \/ records'[x].status = "deadletter"
  BY DEF ClaimMessage, Buried, Unclaimed
<1>5. ASSUME NEW s \in Token \ {t}, Unexpired(s)'
      PROVE Unexpired(s) /\ granted[s].messageId # m
  BY <1>1, <1>2, <1>5 DEF Unexpired, LeaseInv, GrantCovered
<1>6. HolderKnows'
  BY <1>2 DEF LeaseInv, HolderKnows
<1>7. GrantCovered'
  <2>1. ASSUME NEW s \in Token, Unexpired(s)'
        PROVE LET r == records'[granted'[s].messageId] IN
              r.status = "deadletter" \/ (r.status = "inflight" /\ r.claimToken = s)
    <3>1. CASE s = t
      BY <3>1, <1>2, <1>3 DEF ClaimedBy
    <3>2. CASE s # t
      <4>1. Unexpired(s) /\ granted'[s] = granted[s] /\ granted[s].messageId \in MsgId \ {m}
        BY <1>2, <1>5, <2>1, <3>2 DEF Unexpired
      <4> QED
        BY <1>4, <4>1 DEF LeaseInv, GrantCovered
    <3> QED
      BY <3>1, <3>2
  <2> QED
    BY <2>1 DEF GrantCovered
<1>8. LeaseExclusive'
  <2>1. ASSUME NEW s \in Token \ {t}, Unexpired(s)'
        PROVE granted'[s].messageId # granted'[t].messageId
    BY <1>2, <1>5, <2>1
  <2>2. ASSUME NEW r \in Token \ {t}, NEW s \in Token \ {t}, r # s, Unexpired(r)', Unexpired(s)'
        PROVE granted'[r].messageId # granted'[s].messageId
    BY <1>2, <1>5, <2>2 DEF LeaseInv, LeaseExclusive
  <2> QED
    BY <2>1, <2>2 DEF LeaseExclusive
<1> QED
  BY <1>6, <1>7, <1>8

LEMMA RenewLease ==
  ASSUME LeaseInv, NEW t \in Token, NEW lease \in LeaseMs, Renew(t, lease)
  PROVE  (HolderKnows /\ GrantCovered /\ LeaseExclusive)'
<1> DEFINE m == inflight[t].messageId
           until == now + lease
<1>1. /\ m \in MsgId /\ records[m].status = "inflight" /\ records[m].claimToken = t
      /\ now' = now
  BY HoldsFacts DEF Renew
<1>2. /\ inflight'[t] = [messageId |-> m, leaseUntil |-> until, attempt |-> inflight[t].attempt]
      /\ granted'[t] = [messageId |-> m, leaseUntil |-> until]
      /\ \A s \in Token \ {t} : inflight'[s] = inflight[s] /\ granted'[s] = granted[s]
      /\ records'[m] = ClaimedBy(t, records[m].attempt, until)
      /\ \A x \in MsgId \ {m} : records'[x] = records[x]
  BY <1>1 DEF Renew, LeaseInv, RecordsTyped
<1>3. ASSUME NEW s \in Token \ {t}, Unexpired(s)'
      PROVE Unexpired(s) /\ granted[s].messageId # m
  BY <1>1, <1>2, <1>3 DEF Unexpired, LeaseInv, GrantCovered
<1>4. HolderKnows'
  BY <1>2 DEF LeaseInv, HolderKnows
<1>5. GrantCovered'
  <2>1. ASSUME NEW s \in Token \ {t}, Unexpired(s)'
        PROVE /\ Unexpired(s) /\ granted'[s] = granted[s]
              /\ records'[granted[s].messageId] = records[granted[s].messageId]
    BY <1>2, <1>3, <2>1 DEF Unexpired
  <2> QED
    BY <1>2, <2>1 DEF LeaseInv, GrantCovered, ClaimedBy
<1>6. LeaseExclusive'
  <2>1. ASSUME NEW s \in Token \ {t}, Unexpired(s)'
        PROVE granted'[s].messageId # granted'[t].messageId
    BY <1>2, <1>3, <2>1
  <2>2. ASSUME NEW r \in Token \ {t}, NEW s \in Token \ {t}, r # s, Unexpired(r)', Unexpired(s)'
        PROVE granted'[r].messageId # granted'[s].messageId
    BY <1>2, <1>3, <2>2 DEF LeaseInv, LeaseExclusive
  <2> QED
    BY <2>1, <2>2 DEF LeaseExclusive
<1> QED
  BY <1>4, <1>5, <1>6

\* The sweeper reclaims no message whose promised lease still runs.
LEMMA SweepLease ==
  ASSUME LeaseInv, RecordsTyped', SweepExpiredClaims
  PROVE  (HolderKnows /\ GrantCovered /\ LeaseExclusive)'
<1>1. /\ Overdue \in SUBSET Token /\ now' = now /\ granted' = granted
      /\ \A t \in Overdue : inflight'[t] = NoClaim
      /\ \A t \in Token \ Overdue : inflight'[t] = inflight[t]
  BY DEF SweepExpiredClaims, Overdue
<1>2. ASSUME NEW t \in Token, Unexpired(t)
      PROVE records'[granted[t].messageId] = records[granted[t].messageId]
  <2> DEFINE m == granted[t].messageId
  <2>1. m \in MsgId /\ granted[t].leaseUntil > now
    BY <1>2 DEF Unexpired
  <2>2. records[m].status = "deadletter" \/ (records[m].status = "inflight" /\ records[m].claimToken = t)
    BY <1>2 DEF LeaseInv, GrantCovered
  <2>3. m \notin Reclaimed
    <3>1. SUFFICES ASSUME NEW s \in Overdue, Current(s), inflight[s].messageId = m PROVE FALSE
      BY DEF Reclaimed
    <3>2. s = t /\ s \in Token
      BY <2>2, <3>1 DEF Current, Overdue
    <3>3. granted[s].leaseUntil = inflight[s].leaseUntil /\ inflight[s].leaseUntil <= now
      BY <2>1, <3>1, <3>2 DEF LeaseInv, HolderKnows, Overdue
    <3>4. granted[t].leaseUntil \in Nat /\ now \in Nat
      BY <2>1, NoMsgAssumption DEF LeaseInv, RecordsTyped, Grants, NoGrant
    <3> QED
      BY <2>1, <3>2, <3>3, <3>4
  <2> QED
    BY <2>1, <2>3 DEF SweepExpiredClaims
<1> HIDE DEF Overdue
<1> QED
  BY <1>1, <1>2, SettledLease

LEMMA LeaseStep ==
  ASSUME LeaseInv, [Next]_vars
  PROVE  LeaseInv'
<1>a. RecordsTyped' /\ ClaimAgreement'
  BY TypedStep, AgreementStep DEF LeaseInv
<1>1. CASE Tick
  BY <1>1, <1>a, TickLease DEF LeaseInv
<1>2. CASE SweepExpiredClaims
  BY <1>2, <1>a, SweepLease DEF LeaseInv
<1>3. ASSUME NEW F \in Filters, NEW m \in MsgId, NEW lease \in LeaseMs, ClaimMessage(m, F, lease)
      PROVE LeaseInv'
  BY <1>3, <1>a, ClaimLease DEF LeaseInv
<1>4. ASSUME NEW F \in Filters, ClaimNothing(F)
      PROVE LeaseInv'
  <2>1. now' = now /\ inflight' = inflight /\ granted' = granted
    BY <1>4 DEF ClaimNothing
  <2>2. \A m \in MsgId : records'[m] = records[m] \/ records'[m].status = "deadletter"
    BY <1>4 DEF ClaimNothing, Buried, Unclaimed
  <2> DEFINE T == {}
  <2>3. (HolderKnows /\ GrantCovered /\ LeaseExclusive)'
    <3>1. T \in SUBSET Token /\ \A t \in T : inflight'[t] = NoClaim
      OBVIOUS
    <3> HIDE DEF T
    <3> QED
      BY <1>a, <2>1, <2>2, <3>1, SettledLease DEF Unexpired
  <2> QED
    BY <1>a, <2>3 DEF LeaseInv
<1>5. ASSUME NEW m \in MsgId, Accept(m)
      PROVE LeaseInv'
  <2>1. now' = now /\ inflight' = inflight /\ granted' = granted
    BY <1>5 DEF Accept
  <2>2. \A x \in MsgId : records[x].status \in {"inflight", "deadletter"} => records'[x] = records[x]
    BY <1>5 DEF Accept, SameKey, Active
  <2>3. (HolderKnows /\ GrantCovered /\ LeaseExclusive)'
    <3> DEFINE T == {}
    <3>1. T \in SUBSET Token /\ \A t \in T : inflight'[t] = NoClaim
      OBVIOUS
    <3>2. \A t \in Token : Unexpired(t) => records'[granted[t].messageId] = records[granted[t].messageId]
      BY <2>2 DEF LeaseInv, GrantCovered, Unexpired
    <3> HIDE DEF T
    <3> QED
      BY <1>a, <2>1, <3>1, <3>2, SettledLease
  <2> QED
    BY <1>a, <2>3 DEF LeaseInv
<1>6. ASSUME NEW m \in MsgId, Deadletter(m)
      PROVE LeaseInv'
  <2> DEFINE T == IF records[m].status = "inflight" THEN {records[m].claimToken} ELSE {}
  <2>1. records[m].status = "inflight" => records[m].claimToken \in Token
    BY HeldClaim, BoundsAssumption DEF LeaseInv, RecordsTyped, Token
  <2>2. /\ T \in SUBSET Token /\ now' = now /\ granted' = granted
        /\ \A t \in T : inflight'[t] = NoClaim
        /\ \A t \in Token \ T : inflight'[t] = inflight[t]
    BY <1>6, <2>1 DEF Deadletter, Unclaim, LeaseInv, RecordsTyped
  <2>3. \A x \in MsgId : records'[x] = records[x] \/ records'[x].status = "deadletter"
    BY <1>6 DEF Deadletter, Unclaimed, LeaseInv, RecordsTyped
  <2> HIDE DEF T
  <2>4. (HolderKnows /\ GrantCovered /\ LeaseExclusive)'
    BY <1>a, <2>2, <2>3, SettledLease DEF Unexpired
  <2> QED
    BY <1>a, <2>4 DEF LeaseInv
<1>7. ASSUME NEW t \in Token, Ack(t) \/ \E requeue \in BOOLEAN : Nack(t, requeue)
      PROVE LeaseInv'
  <2> DEFINE m == inflight[t].messageId
             T == {t}
  <2>1. m \in MsgId /\ records[m].status = "inflight" /\ records[m].claimToken = t
    BY <1>7, HoldsFacts DEF Ack, Nack
  <2>2. /\ T \in SUBSET Token /\ now' = now
        /\ granted'[t] = NoGrant /\ \A s \in Token \ T : granted'[s] = granted[s]
        /\ \A s \in T : inflight'[s] = NoClaim
        /\ \A s \in Token \ T : inflight'[s] = inflight[s]
    BY <1>7 DEF Ack, Nack, LeaseInv, RecordsTyped
  <2>3. \A x \in MsgId \ {m} : records'[x] = records[x]
    BY <1>7 DEF Ack, Nack, LeaseInv, RecordsTyped
  <2>4. ASSUME NEW s \in Token, Unexpired(s), granted'[s] = granted[s]
        PROVE records'[granted[s].messageId] = records[granted[s].messageId]
    <3>1. s # t
      BY <2>2, <2>4, NoMsgAssumption DEF Unexpired, NoGrant
    <3>2. granted[s].messageId \in MsgId \ {m}
      BY <2>1, <2>4, <3>1 DEF Unexpired, LeaseInv, GrantCovered
    <3> QED
      BY <2>3, <3>2
  <2>5. \A s \in Token : granted'[s] = granted[s] \/ granted'[s] = NoGrant
    BY <2>2
  <2> HIDE DEF T
  <2>6. (HolderKnows /\ GrantCovered /\ LeaseExclusive)'
    BY <1>a, <2>2, <2>4, <2>5, SettledLease
  <2> QED
    BY <1>a, <2>6 DEF LeaseInv
<1>8. ASSUME NEW t \in Token, NEW lease \in LeaseMs, Renew(t, lease)
      PROVE LeaseInv'
  BY <1>8, <1>a, RenewLease DEF LeaseInv
<1>9. ASSUME NEW m \in MsgId, Requeue(m)
      PROVE LeaseInv'
  <2> DEFINE T == IF records[m].status = "inflight" THEN {records[m].claimToken} ELSE {}
  <2>1. records[m].status = "inflight" => records[m].claimToken \in Token
    BY HeldClaim, BoundsAssumption DEF LeaseInv, RecordsTyped, Token
  <2>2. /\ T \in SUBSET Token /\ now' = now /\ granted' = granted
        /\ \A t \in T : inflight'[t] = NoClaim
        /\ \A t \in Token \ T : inflight'[t] = inflight[t]
    BY <1>9, <2>1 DEF Requeue, Unclaim, LeaseInv, RecordsTyped
  <2>3. m \in Requeueable /\ \A x \in MsgId \ {m} : records'[x] = records[x]
    BY <1>9 DEF Requeue, LeaseInv, RecordsTyped
  <2> HIDE DEF T
  <2>4. (HolderKnows /\ GrantCovered /\ LeaseExclusive)'
    BY <1>a, <2>2, <2>3, SettledLease DEF Unexpired
  <2> QED
    BY <1>a, <2>4 DEF LeaseInv
<1>10. CASE UNCHANGED vars
  BY <1>10 DEF vars, queueVars, LeaseInv, RecordsTyped, ClaimAgreement, HolderKnows, GrantCovered,
              LeaseExclusive, Unexpired
<1> QED
  BY <1>1, <1>2, <1>3, <1>4, <1>5, <1>6, <1>7, <1>8, <1>9, <1>10 DEF Next, Claim

\* Two holders never both hold an unexpired promise of the same message, unless
\* operators may requeue it by id.
THEOREM LeasesAreExclusive == Spec => []LeaseExclusive
<1>1. Init => LeaseInv
  BY TypedInit, AgreementInit, LeaseInit DEF LeaseInv
<1>2. LeaseInv /\ [Next]_vars => LeaseInv'
  BY LeaseStep
<1>3. LeaseInv => LeaseExclusive
  BY DEF LeaseInv
<1> QED
  BY <1>1, <1>2, <1>3, PTL DEF Spec

-----------------------------------------------------------------------------
(***************************************************************************)
(* The queue keeps the promise of MessageDelivery: every operation of      *)
(* JournalQueue, seen through the records of the messages that operators   *)
(* do not requeue, is a step of the abstract specification or changes      *)
(* nothing there.  The bound on the attempts, which a delivery needs, is   *)
(* proved first.                                                           *)
(***************************************************************************)

Kept == MsgId \ Requeueable   \* the messages MessageDelivery speaks of

-----------------------------------------------------------------------------
(* What each operation does to the record of one message *)

\* The record of m as it is, or with the same attempts under another status.
Stands(m) == records'[m] = records[m]
Turns(m, st) == records'[m].status = st /\ records'[m].attempt = records[m].attempt
Buries(m) == records[m].status # "absent" /\ Turns(m, "deadletter")

\* A sweep, ack or nack: what may become of each message.
Settles(m) ==
  \/ Stands(m) \/ Buries(m)
  \/ records[m].status = "inflight" /\ Turns(m, "completed")
  \/ records[m].status = "inflight" /\ records[m].attempt < MaxAttempts /\ Turns(m, "pending")

LEMMA HolderSettles ==
  ASSUME RecordsTyped, NEW t \in Token,
         \/ Ack(t)
         \/ \E requeue \in BOOLEAN : Nack(t, requeue)
         \/ \E lease \in LeaseMs : Renew(t, lease)
  PROVE  \A m \in MsgId : \/ Settles(m)
                          \/ records[m].status = "inflight" /\ Turns(m, "inflight")
<1> DEFINE h == inflight[t].messageId
<1>1. h \in MsgId /\ records[h].status = "inflight"
  BY HoldsFacts DEF Ack, Nack, Renew
<1>2. records \in [MsgId -> Record]
  BY DEF RecordsTyped
<1>3. CASE Ack(t)
  BY <1>1, <1>2, <1>3 DEF Ack, Unclaimed, Settles, Stands, Turns
<1>4. ASSUME NEW requeue \in BOOLEAN, Nack(t, requeue)
      PROVE \A m \in MsgId : Settles(m)
  BY <1>1, <1>2, <1>4 DEF Nack, Unclaimed, Settles, Stands, Turns, Buries
<1>5. ASSUME NEW lease \in LeaseMs, Renew(t, lease)
      PROVE \A m \in MsgId : Stands(m) \/ (records[m].status = "inflight" /\ Turns(m, "inflight"))
  BY <1>1, <1>2, <1>5 DEF Renew, ClaimedBy, Stands, Turns
<1> QED
  BY <1>3, <1>4, <1>5 DEF Settles

LEMMA SweepSettles ==
  ASSUME RecordsTyped, SweepExpiredClaims
  PROVE  \A m \in MsgId : Settles(m)
<1> SUFFICES ASSUME NEW m \in MsgId PROVE Settles(m)
  OBVIOUS
<1>1. CASE m \in Reclaimed
  <2>1. records[m].status = "inflight"
    BY <1>1 DEF Reclaimed, Current
  <2>2. records[m].attempt \in Nat
    BY DEF RecordsTyped, Record
  <2> QED
    BY <1>1, <2>1, <2>2, BoundsAssumption
       DEF SweepExpiredClaims, Returned, Unclaimed, Settles, Turns, Buries
<1>2. CASE m \notin Reclaimed
  BY <1>2 DEF SweepExpiredClaims, Settles, Stands
<1> QED
  BY <1>1, <1>2

LEMMA ByHandSettles ==
  ASSUME RecordsTyped, NEW x \in MsgId, Requeue(x) \/ Deadletter(x)
  PROVE  \A m \in Kept : Stands(m) \/ Buries(m)
  BY DEF RecordsTyped, Requeue, Deadletter, Unclaimed, Kept, Stands, Turns, Buries

LEMMA ClaimDelivers ==
  ASSUME RecordsTyped, NEW F \in Filters, NEW x \in MsgId, NEW lease \in LeaseMs, ClaimMessage(x, F, lease)
  PROVE  /\ records[x].status = "pending"
         /\ records'[x].status = "inflight" /\ records'[x].attempt = records[x].attempt + 1
         /\ \A m \in MsgId \ {x} : Stands(m) \/ Buries(m)
<1>1. /\ records \in [MsgId -> Record] /\ records[x].status = "pending"
      /\ records' = [Buried({y \in MsgId : Droppable(y) /\ Ahead(y, x)}) EXCEPT ![x] =
                       ClaimedBy(issued + 1, records[x].attempt + 1, now + lease)]
  BY DEF RecordsTyped, ClaimMessage, Claimable
<1>2. records'[x] = ClaimedBy(issued + 1, records[x].attempt + 1, now + lease)
  BY <1>1 DEF Buried
<1>3. \A m \in MsgId \ {x} : Stands(m) \/ Buries(m)
  BY <1>1 DEF Buried, Unclaimed, Stands, Buries, Turns
<1> QED
  BY <1>1, <1>2, <1>3 DEF ClaimedBy

LEMMA NothingBuries ==
  ASSUME RecordsTyped, NEW F \in Filters, ClaimNothing(F)
  PROVE  \A m \in MsgId : Stands(m) \/ Buries(m)
  BY DEF RecordsTyped, ClaimNothing, Buried, Unclaimed, Stands, Buries, Turns

LEMMA AcceptSubmits ==
  ASSUME RecordsTyped, NEW x \in MsgId, Accept(x)
  PROVE  /\ records[x].status = "absent"
         /\ records'[x] = Fresh
         /\ \A m \in MsgId \ {x} : IF m \in SameKey(x) THEN records'[m] = Absent ELSE Stands(m)
         /\ \A m \in SameKey(x) : records[m].status = "pending"
  BY DEF RecordsTyped, Accept, SameKey, Active, Stands

-----------------------------------------------------------------------------
(* Attempts *)

Bounded(m) ==
  /\ records[m].attempt <= MaxAttempts
  /\ records[m].status = "pending" => records[m].attempt < MaxAttempts

LEMMA SettlesBounded ==
  ASSUME RecordsTyped, NEW m \in MsgId, Bounded(m), Settles(m)
  PROVE  Bounded(m)'
  BY DEF Bounded, Settles, Stands, Turns, Buries

LEMMA AttemptsStep ==
  ASSUME RecordsTyped, RecordsTyped', AttemptsBounded, [Next]_vars
  PROVE  AttemptsBounded'
<1> SUFFICES ASSUME NEW m \in Kept PROVE Bounded(m)'
  BY DEF AttemptsBounded, Bounded, Kept
<1>0. m \in MsgId /\ Bounded(m) /\ records[m].attempt \in Nat
  BY DEF AttemptsBounded, Bounded, Kept, RecordsTyped, Record
<1>1. CASE Tick \/ UNCHANGED vars
  BY <1>0, <1>1 DEF Tick, vars, queueVars, Bounded
<1>2. CASE SweepExpiredClaims
  BY <1>0, <1>2, SweepSettles, SettlesBounded
<1>3. ASSUME NEW F \in Filters, NEW x \in MsgId, NEW lease \in LeaseMs, ClaimMessage(x, F, lease)
      PROVE Bounded(m)'
  <2>1. CASE m = x
    BY <1>0, <1>3, <2>1, ClaimDelivers, BoundsAssumption DEF Bounded
  <2>2. CASE m # x
    BY <1>0, <1>3, <2>2, ClaimDelivers, SettlesBounded DEF Settles
  <2> QED
    BY <2>1, <2>2
<1>4. ASSUME NEW F \in Filters, ClaimNothing(F) PROVE Bounded(m)'
  BY <1>0, <1>4, NothingBuries, SettlesBounded DEF Settles
<1>5. ASSUME NEW x \in MsgId, Accept(x) PROVE Bounded(m)'
  BY <1>0, <1>5, AcceptSubmits, BoundsAssumption DEF Bounded, Fresh, Absent, Stands
<1>6. ASSUME NEW x \in MsgId, Requeue(x) \/ Deadletter(x) PROVE Bounded(m)'
  BY <1>0, <1>6, ByHandSettles, SettlesBounded DEF Settles
<1>7. ASSUME NEW t \in Token, Ack(t) \/ (\E requeue \in BOOLEAN : Nack(t, requeue))
                                \/ (\E lease \in LeaseMs : Renew(t, lease))
      PROVE Bounded(m)'
  BY <1>0, <1>7, HolderSettles, SettlesBounded DEF Bounded, Turns
<1> QED
  BY <1>1, <1>2, <1>3, <1>4, <1>5, <1>6, <1>7 DEF Next, Claim

\* However often a message comes back, by nack or by the sweeper, it is handed
\* out at most MaxAttempts times, and is never queued with its attempts used up.
THEOREM AttemptsAreBounded == Spec => []AttemptsBounded
<1>1. Init => AttemptsBounded
  BY BoundsAssumption DEF Init, Absent, AttemptsBounded
<1>2. RecordsTyped /\ AttemptsBounded /\ [Next]_vars => (RecordsTyped /\ AttemptsBounded)'
  BY TypedStep, AttemptsStep
<1> QED
  BY TypedInit, <1>1, <1>2, PTL DEF Spec

-----------------------------------------------------------------------------
(* Keys *)

\* No operation but accept makes an inactive message active.
LEMMA ActiveShrinks ==
  ASSUME RecordsTyped, [Next]_vars, \A x \in MsgId : ~Accept(x), NEW m \in Kept, Active(m)'
  PROVE  Active(m)
<1>0. m \in MsgId
  BY DEF Kept
<1>1. CASE Tick \/ UNCHANGED vars
  BY <1>1 DEF Tick, vars, queueVars, Active
<1>2. CASE SweepExpiredClaims
  BY <1>0, <1>2, SweepSettles DEF Settles, Stands, Turns, Buries, Active
<1>3. ASSUME NEW F \in Filters, NEW x \in MsgId, NEW lease \in LeaseMs, ClaimMessage(x, F, lease)
      PROVE Active(m)
  BY <1>0, <1>3, ClaimDelivers DEF Stands, Turns, Buries, Active
<1>4. ASSUME NEW F \in Filters, ClaimNothing(F) PROVE Active(m)
  BY <1>0, <1>4, NothingBuries DEF Stands, Turns, Buries, Active
<1>5. ASSUME NEW x \in MsgId, Requeue(x) \/ Deadletter(x) PROVE Active(m)
  BY <1>5, ByHandSettles DEF Stands, Turns, Buries, Active
<1>6. ASSUME NEW t \in Token, Ack(t) \/ (\E requeue \in BOOLEAN : Nack(t, requeue))
                                \/ (\E lease \in LeaseMs : Renew(t, lease))
      PROVE Active(m)
  BY <1>0, <1>6, HolderSettles DEF Settles, Stands, Turns, Buries, Active
<1> QED
  BY <1>1, <1>2, <1>3, <1>4, <1>5, <1>6 DEF Next, Claim

LEMMA KeyStep ==
  ASSUME RecordsTyped, OneActivePerKey, [Next]_vars
  PROVE  OneActivePerKey'
<1> SUFFICES ASSUME NEW m \in Kept, NEW x \in Kept, m # x, KeyOf(m) # NoKey, KeyOf(x) = KeyOf(m),
                    Active(m)', Active(x)'
             PROVE FALSE
  BY DEF OneActivePerKey, Kept, KeyOf, Active
<1>0. m \in MsgId /\ x \in MsgId
  BY DEF Kept
<1>1. CASE \A y \in MsgId : ~Accept(y)
  BY <1>1, ActiveShrinks DEF OneActivePerKey, Kept
<1>2. ASSUME NEW y \in MsgId, Accept(y) PROVE FALSE
  <2>1. \A z \in SameKey(y) : ~Active(z)' \/ z = y
    BY <1>2, AcceptSubmits DEF Active, Absent, SameKey
  <2>2. \A z \in MsgId \ {y} : Active(z)' => Active(z)
    BY <1>2, AcceptSubmits DEF Active, Absent, Stands
  <2>3. CASE m = y
    BY <1>0, <2>1, <2>2, <2>3 DEF SameKey
  <2>4. CASE x = y
    BY <1>0, <2>1, <2>2, <2>4 DEF SameKey
  <2>5. CASE m # y /\ x # y
    BY <1>0, <2>2, <2>5 DEF OneActivePerKey, Kept
  <2> QED
    BY <2>3, <2>4, <2>5
<1> QED
  BY <1>1, <1>2

\* However messages of one key are accepted, replaced, lost and redelivered, at
\* most one of them is pending or inflight.
THEOREM OneActiveForEachKey == Spec => []OneActivePerKey
<1>1. Init => OneActivePerKey
  BY DEF Init, Absent, OneActivePerKey, Active
<1>2. RecordsTyped /\ OneActivePerKey /\ [Next]_vars => (RecordsTyped /\ OneActivePerKey)'
  BY TypedStep, KeyStep
<1> QED
  BY TypedInit, <1>1, <1>2, PTL DEF Spec

-----------------------------------------------------------------------------
(* The refinement *)

\* A message that operators requeue shares no key with one that they do not.
KeysApart ==
  \A m \in Requeueable \cap MsgId, x \in Kept : KeyOf(m) # NoKey => KeyOf(x) # KeyOf(m)

\* The steps of one message, as MessageDelivery names them.
LEMMA AbstractMoves ==
  ASSUME NEW m \in Kept
  PROVE  /\ Stands(m) => Delivery!Stays(m)
         /\ Buries(m) => Delivery!Bury(m)
         /\ Settles(m) => \/ Delivery!Stays(m) \/ Delivery!Bury(m)
                          \/ Delivery!Complete(m) \/ Delivery!Return(m)
         /\ records[m].status = "inflight" /\ Turns(m, "inflight") => Delivery!Stays(m)
  BY DEF Kept, Stands, Buries, Settles, Turns, Delivery!Stays, Delivery!Bury, Delivery!Complete,
         Delivery!Return

LEMMA SettleStep ==
  ASSUME \A m \in Kept : \/ Settles(m)
                         \/ records[m].status = "inflight" /\ Turns(m, "inflight")
  PROVE  Delivery!Next
<1>1. \A m \in Kept : \/ Delivery!Stays(m) \/ Delivery!Bury(m)
                      \/ Delivery!Complete(m) \/ Delivery!Return(m)
  BY AbstractMoves
<1> QED
  BY <1>1 DEF Delivery!Next, Delivery!Settle, Kept

LEMMA HandStep ==
  ASSUME RecordsTyped, AttemptsBounded,
         NEW F \in Filters, NEW x \in MsgId, NEW lease \in LeaseMs, ClaimMessage(x, F, lease)
  PROVE  Delivery!Next
<1>1. \A m \in Kept \ {x} : Delivery!Stays(m) \/ Delivery!Bury(m)
  BY ClaimDelivers, AbstractMoves DEF Kept
<1>2. CASE x \in Kept
  <2>1. Delivery!Deliver(x)
    BY <1>2, ClaimDelivers DEF Delivery!Deliver, AttemptsBounded, Kept
  <2> QED
    BY <1>1, <1>2, <2>1 DEF Delivery!Next, Delivery!Hand, Kept
<1>3. CASE x \notin Kept
  BY <1>1, <1>3 DEF Delivery!Next, Delivery!Settle, Kept
<1> QED
  BY <1>2, <1>3

LEMMA SubmitStep ==
  ASSUME RecordsTyped, KeysApart, NEW x \in MsgId, Accept(x)
  PROVE  Delivery!Next
<1>1. CASE x \in Kept
  <2>1. /\ records[x].status = "absent" /\ records'[x].status = "pending" /\ records'[x].attempt = 0
        /\ \A m \in MsgId \ {x} : IF m \in SameKey(x) THEN records'[m] = Absent ELSE Stands(m)
        /\ \A m \in SameKey(x) : records[m].status = "pending"
    BY AcceptSubmits DEF Fresh
  <2>2. ASSUME NEW m \in Delivery!Rivals(x)
        PROVE /\ records[m].status # "inflight"
              /\ IF records[m].status = "pending"
                 THEN records'[m].status = "absent" /\ records'[m].attempt = 0 ELSE Delivery!Stays(m)
    <3>1. m \in Kept \ {x} /\ KeyOf(x) # NoKey /\ KeyOf(m) = KeyOf(x)
      BY <1>1, <2>2 DEF Delivery!Rivals, Kept
    <3>2. m \in SameKey(x) <=> Active(m)
      BY <3>1 DEF SameKey, Kept
    <3>3. m \in MsgId \ {x}
      BY <3>1 DEF Kept
    <3>4. CASE Active(m)
      BY <2>1, <3>2, <3>3, <3>4 DEF Absent
    <3>5. CASE ~Active(m)
      BY <2>1, <3>1, <3>2, <3>3, <3>5, AbstractMoves DEF Active
    <3> QED
      BY <3>4, <3>5
  <2>3. ASSUME NEW m \in Kept \ (Delivery!Rivals(x) \cup {x}) PROVE Delivery!Stays(m)
    <3>1. m \notin SameKey(x) /\ m \in MsgId \ {x}
      BY <1>1, <2>3 DEF Delivery!Rivals, SameKey, Kept
    <3> QED
      BY <2>1, <2>3, <3>1, AbstractMoves
  <2>4. Delivery!Submit(x)
    BY <1>1, <2>1, <2>2, <2>3 DEF Delivery!Submit, Delivery!Rivals, Kept
  <2> QED
    BY <1>1, <2>4 DEF Delivery!Next, Kept
<1>2. CASE x \notin Kept
  <2>1. ASSUME NEW m \in Kept PROVE Delivery!Stays(m)
    <3>1. m \notin SameKey(x) /\ m \in MsgId \ {x}
      BY <1>2, <2>1 DEF KeysApart, SameKey, Kept
    <3> QED
      BY <2>1, <3>1, AcceptSubmits, AbstractMoves
  <2> QED
    BY <2>1 DEF Delivery!Next, Delivery!Settle, Kept
<1> QED
  BY <1>1, <1>2

LEMMA DeliveryStep ==
  ASSUME RecordsTyped, AttemptsBounded, KeysApart, [Next]_vars
  PROVE  [Delivery!Shape /\ Delivery!Next]_(Delivery!vars)
<1>0. Delivery!Shape
  BY DEF Delivery!Shape
<1>1. CASE Tick \/ UNCHANGED vars
  BY <1>1 DEF Tick, vars, queueVars, Delivery!vars
<1>2. CASE SweepExpiredClaims
  BY <1>0, <1>2, SweepSettles, SettleStep DEF Kept
<1>3. ASSUME NEW F \in Filters, NEW x \in MsgId, NEW lease \in LeaseMs, ClaimMessage(x, F, lease)
      PROVE Delivery!Next
  BY <1>3, HandStep
<1>4. ASSUME NEW F \in Filters, ClaimNothing(F) PROVE Delivery!Next
  BY <1>4, NothingBuries, SettleStep DEF Kept, Settles
<1>5. ASSUME NEW x \in MsgId, Accept(x) PROVE Delivery!Next
  BY <1>5, SubmitStep
<1>6. ASSUME NEW x \in MsgId, Requeue(x) \/ Deadletter(x) PROVE Delivery!Next
  BY <1>6, ByHandSettles, SettleStep DEF Settles
<1>7. ASSUME NEW t \in Token, Ack(t) \/ (\E requeue \in BOOLEAN : Nack(t, requeue))
                                \/ (\E lease \in LeaseMs : Renew(t, lease))
      PROVE Delivery!Next
  BY <1>7, HolderSettles, SettleStep DEF Kept
<1> QED
  BY <1>0, <1>1, <1>2, <1>3, <1>4, <1>5, <1>6, <1>7 DEF Next, Claim

\* The queue implements MessageDelivery: whatever the interleaving of senders,
\* holders, sweeps and operators, seen through the records every step is a step
\* of the abstract specification.
THEOREM QueueImplementsDelivery ==
  ASSUME KeysApart
  PROVE  Spec => DeliverySpec
<1>1. Init => Delivery!Init
  BY DEF Init, Absent, Delivery!Init
<1>2. RecordsTyped /\ AttemptsBounded /\ [Next]_vars => [Delivery!Shape /\ Delivery!Next]_(Delivery!vars)
  BY DeliveryStep
<1> QED
  BY <1>1, <1>2, RecordsAreTyped, AttemptsAreBounded, PTL DEF Spec, DeliverySpec, Delivery!Spec

-----------------------------------------------------------------------------
(* Sets of numbers in ascending order, and sequences filtered by them *)

\* How many numbers of K are not above i.
Rank(K, i) == Cardinality({j \in K : j <= i})

\* Ranks are 1, 2, ... without a gap, and grow with their numbers.
LEMMA Ranks ==
  ASSUME NEW K \in SUBSET Nat, IsFiniteSet(K)
  PROVE  /\ Cardinality(K) \in Nat
         /\ \A i \in K : Rank(K, i) \in 1..Cardinality(K)
         /\ \A i, j \in K : i < j => Rank(K, i) < Rank(K, j)
         /\ \A k \in 1..Cardinality(K) : \E i \in K : Rank(K, i) = k
<1>1. Cardinality(K) \in Nat
  BY FS_CardinalityType
<1>2. ASSUME NEW i \in K
      PROVE  /\ IsFiniteSet({j \in K : j <= i})
             /\ Rank(K, i) \in 1..Cardinality(K)
  <2>1. {j \in K : j <= i} \in SUBSET K /\ i \in {j \in K : j <= i}
    OBVIOUS
  <2>2. IsFiniteSet({j \in K : j <= i}) /\ Cardinality({j \in K : j <= i}) <= Cardinality(K)
    BY <2>1, FS_Subset
  <2>3. Cardinality({j \in K : j <= i}) \in Nat /\ Cardinality({j \in K : j <= i}) # 0
    BY <2>1, <2>2, FS_CardinalityType, FS_EmptySet
  <2> QED
    BY <1>1, <2>2, <2>3 DEF Rank
<1>3. ASSUME NEW i \in K, NEW j \in K, i < j
      PROVE  Rank(K, i) < Rank(K, j)
  <2>0. i \in Nat /\ j \in Nat
    OBVIOUS
  <2>1. \A x \in K : x <= i => x <= j
    BY <1>3, <2>0
  <2>2. j \in {x \in K : x <= j} /\ j \notin {x \in K : x <= i}
    BY <1>3, <2>0
  <2>3. {x \in K : x <= i} \in SUBSET {x \in K : x <= j} /\ {x \in K : x <= j} # {x \in K : x <= i}
    BY <2>1, <2>2
  <2>4. IsFiniteSet({x \in K : x <= j})
    BY <1>2
  <2>5. Rank(K, i) <= Rank(K, j) /\ Rank(K, i) # Rank(K, j)
    BY <2>3, <2>4, FS_Subset DEF Rank
  <2>6. Rank(K, i) \in 1..Cardinality(K) /\ Rank(K, j) \in 1..Cardinality(K)
    BY <1>2
  <2>7. Rank(K, i) \in Nat /\ Rank(K, j) \in Nat
    BY <1>1, <2>6
  <2> QED
    BY <2>5, <2>7
<1>4. ASSUME NEW k \in 1..Cardinality(K) PROVE \E i \in K : Rank(K, i) = k
  <2>0. PICK f : f = [i \in K |-> Rank(K, i)]
    OBVIOUS
  <2>1. f \in [K -> 1..Cardinality(K)]
    BY <1>2, <2>0
  <2>2. \A i, j \in K : i # j => i < j \/ j < i
    OBVIOUS
  <2>3. ASSUME NEW i \in K, NEW j \in K, f[i] = f[j] PROVE i = j
    <3>1. Rank(K, i) = Rank(K, j)
      BY <2>0, <2>3
    <3>2. Rank(K, i) \in 1..Cardinality(K)
      BY <1>2
    <3>3. Rank(K, i) \in Nat
      BY <1>1, <3>2
    <3>4. ~(i < j) /\ ~(j < i)
      BY <1>3, <3>1, <3>3
    <3> QED
      BY <2>2, <3>4
  <2>4. SUFFICES ASSUME \A i \in K : Rank(K, i) # k PROVE FALSE
    OBVIOUS
  <2>5. PICK I, T : I = 1..Cardinality(K) /\ T = I \ {k}
    OBVIOUS
  <2>6. IsFiniteSet(T) /\ Cardinality(T) < Cardinality(K)
    <3>1. IsFiniteSet(I) /\ Cardinality(I) = Cardinality(K)
      BY <1>1, <2>5, FS_Interval
    <3>2. IsFiniteSet(T) /\ Cardinality(T) = Cardinality(K) - 1
      BY <2>5, <3>1, FS_RemoveElement
    <3> QED
      BY <1>1, <3>2
  <2>7. f \in [K -> T]
    BY <2>0, <2>1, <2>4, <2>5
  <2> QED
    <3>1. PICK i \in K, j \in K : i # j /\ f[i] = f[j]
      BY <2>6, <2>7, FS_PigeonHole
    <3> QED
      BY <2>3, <3>1
<1> QED
  BY <1>1, <1>2, <1>3, <1>4

LEMMA InOrderIs ==
  ASSUME NEW K \in SUBSET Nat, IsFiniteSet(K)
  PROVE  /\ Cardinality(K) \in Nat
         /\ InOrder(K) \in [1..Cardinality(K) -> K]
         /\ \A k, l \in 1..Cardinality(K) : k < l => InOrder(K)[k] < InOrder(K)[l]
         /\ \A i \in K : \E k \in 1..Cardinality(K) : InOrder(K)[k] = i
<1>1. /\ Cardinality(K) \in Nat
      /\ \A i \in K : Rank(K, i) \in 1..Cardinality(K)
      /\ \A i, j \in K : i < j => Rank(K, i) < Rank(K, j)
      /\ \A k \in 1..Cardinality(K) : \E i \in K : Rank(K, i) = k
  BY Ranks
<1>2. InOrder(K) = [k \in 1..Cardinality(K) |-> CHOOSE i \in K : Rank(K, i) = k]
  BY DEF InOrder, Rank
<1>3. ASSUME NEW k \in 1..Cardinality(K) PROVE InOrder(K)[k] \in K /\ Rank(K, InOrder(K)[k]) = k
  BY <1>1, <1>2, <1>3
<1>4. \A i, j \in K : Rank(K, i) < Rank(K, j) => i < j
  <2>1. \A i, j \in K : i < j \/ i = j \/ j < i
    OBVIOUS
  <2> QED
    BY <1>1, <2>1
<1>5. \A i, j \in K : Rank(K, i) = Rank(K, j) => i = j
  <2>1. \A i, j \in K : i < j \/ i = j \/ j < i
    OBVIOUS
  <2> QED
    BY <1>1, <2>1
<1>6. InOrder(K) \in [1..Cardinality(K) -> K]
  BY <1>2, <1>3
<1>7. ASSUME NEW i \in K PROVE \E k \in 1..Cardinality(K) : InOrder(K)[k] = i
  BY <1>1, <1>3, <1>5
<1> QED
  BY <1>1, <1>3, <1>4, <1>6, <1>7

LEMMA InOrderOfInitial ==
  ASSUME NEW n \in Nat
  PROVE  InOrder(1..n) = [k \in 1..n |-> k]
<1>1. IsFiniteSet(1..n) /\ Cardinality(1..n) = n
  BY FS_Interval
<1>2. ASSUME NEW i \in 1..n PROVE Cardinality({j \in 1..n : j <= i}) = i
  <2>1. {j \in 1..n : j <= i} = 1..i
    OBVIOUS
  <2>2. i \in Nat /\ i # 0
    OBVIOUS
  <2>3. Cardinality(1..i) = i
    BY <2>2, FS_Interval
  <2> QED
    BY <2>1, <2>3
<1>3. ASSUME NEW k \in 1..n PROVE (CHOOSE i \in 1..n : Cardinality({j \in 1..n : j <= i}) = k) = k
  BY <1>2
<1> QED
  BY <1>1, <1>3 DEF InOrder

\* A bucket that lists the messages of X, each once.
Lists(b, X) ==
  /\ b \in Seq(MsgId)
  /\ \A i, j \in 1..Len(b) : b[i] = b[j] => i = j
  /\ \A m : m \in X <=> \E i \in 1..Len(b) : b[i] = m

LEMMA WithoutLists ==
  ASSUME NEW b, NEW X, NEW S, Lists(b, X)
  PROVE  Lists(Without(b, S), X \ S)
<1>1. PICK K : K = {i \in DOMAIN b : b[i] \notin S}
  OBVIOUS
<1>2. b \in Seq(MsgId) /\ Len(b) \in Nat /\ DOMAIN b = 1..Len(b) /\ \A i \in 1..Len(b) : b[i] \in MsgId
  BY DEF Lists
<1>3. K \in SUBSET (1..Len(b)) /\ K \in SUBSET Nat
  BY <1>1, <1>2
<1>4. IsFiniteSet(K)
  <2>1. PICK I : I = 1..Len(b)
    OBVIOUS
  <2>2. IsFiniteSet(I)
    BY <1>2, <2>1, FS_Interval
  <2> QED
    BY <1>3, <2>1, <2>2, FS_Subset
<1>5. PICK n, f : n = Cardinality(K) /\ f = InOrder(K)
  OBVIOUS
<1>6. /\ n \in Nat /\ f \in [1..n -> K]
      /\ \A k, l \in 1..n : k < l => f[k] < f[l]
      /\ \A i \in K : \E k \in 1..n : f[k] = i
  BY <1>3, <1>4, <1>5, InOrderIs
<1>7. Without(b, S) = [k \in 1..n |-> b[f[k]]]
  BY <1>1, <1>5, <1>6 DEF Without
<1>8. \A k \in 1..n : f[k] \in K /\ b[f[k]] \in MsgId
  BY <1>2, <1>3, <1>6
<1>9. Without(b, S) \in Seq(MsgId) /\ Len(Without(b, S)) = n
  BY <1>6, <1>7, <1>8
<1>10. ASSUME NEW k \in 1..n, NEW l \in 1..n, b[f[k]] = b[f[l]] PROVE k = l
  <2>1. f[k] = f[l]
    BY <1>3, <1>8, <1>10 DEF Lists
  <2>2. f[k] \in Nat
    BY <1>3, <1>8
  <2>3. k < l \/ k = l \/ l < k
    BY <1>6
  <2> QED
    BY <1>6, <2>1, <2>2, <2>3
<1>11. ASSUME NEW m PROVE m \in X \ S <=> \E k \in 1..n : b[f[k]] = m
  <2>1. ASSUME m \in X \ S PROVE \E k \in 1..n : b[f[k]] = m
    <3>1. PICK i \in 1..Len(b) : b[i] = m
      BY <2>1 DEF Lists
    <3>2. i \in K
      BY <1>1, <1>2, <2>1, <3>1
    <3> QED
      BY <1>6, <3>1, <3>2
  <2>2. ASSUME NEW k \in 1..n, b[f[k]] = m PROVE m \in X \ S
    <3>1. f[k] \in 1..Len(b) /\ b[f[k]] \notin S
      BY <1>1, <1>2, <1>8
    <3> QED
      BY <2>2, <3>1 DEF Lists
  <2> QED
    BY <2>1, <2>2
<1>12. PICK c : c = Without(b, S)
  OBVIOUS
<1>13. c \in Seq(MsgId) /\ Len(c) = n /\ \A k \in 1..n : c[k] = b[f[k]]
  BY <1>7, <1>9, <1>12
<1>14. Lists(c, X \ S)
  BY <1>10, <1>11, <1>13 DEF Lists
<1> QED
  BY <1>12, <1>14

\* What nothing is taken from stays as it is.
LEMMA WithoutNone ==
  ASSUME NEW b, NEW X, NEW S, Lists(b, X), X \cap S = {}
  PROVE  Without(b, S) = b
<1>1. b \in Seq(MsgId) /\ Len(b) \in Nat /\ DOMAIN b = 1..Len(b)
  BY DEF Lists
<1>2. {i \in DOMAIN b : b[i] \notin S} = 1..Len(b)
  BY <1>1 DEF Lists
<1>3. InOrder(1..Len(b)) = [k \in 1..Len(b) |-> k]
  BY <1>1, InOrderOfInitial
<1>4. Without(b, S) = [k \in 1..Len(b) |-> b[k]]
  BY <1>2, <1>3 DEF Without
<1> QED
  BY <1>1, <1>4

LEMMA ConcatLists ==
  ASSUME NEW b, NEW X, NEW c, NEW Y, Lists(b, X), Lists(c, Y), X \cap Y = {}
  PROVE  Lists(b \o c, X \cup Y)
<1>1. PICK d, n, k : d = b \o c /\ n = Len(b) /\ k = Len(c)
  OBVIOUS
<1>2. /\ n \in Nat /\ k \in Nat /\ d \in Seq(MsgId) /\ Len(d) = n + k
      /\ \A i \in 1..n : d[i] = b[i]
      /\ \A i \in 1..k : d[n + i] = c[i]
  BY <1>1 DEF Lists
<1>3. /\ \A i, j \in 1..n : b[i] = b[j] => i = j
      /\ \A m : m \in X <=> \E i \in 1..n : b[i] = m
      /\ \A i, j \in 1..k : c[i] = c[j] => i = j
      /\ \A m : m \in Y <=> \E i \in 1..k : c[i] = m
  BY <1>1 DEF Lists
\* Where an index of the whole falls.
<1>4. ASSUME NEW i \in 1..(n + k)
      PROVE  i \in 1..n \/ \E x \in 1..k : i = n + x
  <2>1. CASE i <= n
    BY <1>2, <2>1
  <2>2. CASE i > n
    <3>1. i - n \in 1..k /\ i = n + (i - n)
      BY <1>2, <2>2
    <3> QED
      BY <3>1
  <2> QED
    BY <1>2, <2>1, <2>2
<1>5. (\A i \in 1..n : d[i] \in X) /\ (\A x \in 1..k : d[n + x] \in Y)
  BY <1>2, <1>3
<1>6. ASSUME NEW i \in 1..(n + k), NEW j \in 1..(n + k), d[i] = d[j] PROVE i = j
  <2>1. CASE i \in 1..n /\ j \in 1..n
    BY <1>2, <1>3, <1>6, <2>1
  <2>2. ASSUME NEW x \in 1..k, NEW y \in 1..k, i = n + x, j = n + y PROVE i = j
    <3>1. c[x] = c[y]
      BY <1>2, <1>6, <2>2
    <3> QED
      BY <1>3, <2>2, <3>1
  <2>3. ASSUME NEW x \in 1..n, NEW y \in 1..k, {d[x]} = {d[n + y]} PROVE FALSE
    BY <1>5, <2>3
  <2> QED
    BY <1>4, <1>6, <2>1, <2>2, <2>3
<1>7. ASSUME NEW m PROVE m \in X \cup Y <=> \E i \in 1..(n + k) : d[i] = m
  <2>1. ASSUME m \in X PROVE \E i \in 1..(n + k) : d[i] = m
    <3>1. PICK i \in 1..n : b[i] = m
      BY <1>3, <2>1
    <3>2. i \in 1..(n + k) /\ d[i] = m
      BY <1>2, <3>1
    <3> QED
      BY <3>2
  <2>2. ASSUME m \in Y PROVE \E i \in 1..(n + k) : d[i] = m
    <3>1. PICK i \in 1..k : c[i] = m
      BY <1>3, <2>2
    <3>2. n + i \in 1..(n + k) /\ d[n + i] = m
      BY <1>2, <3>1
    <3> QED
      BY <3>2
  <2>3. ASSUME NEW i \in 1..(n + k), d[i] = m PROVE m \in X \cup Y
    BY <1>4, <1>5, <2>3
  <2> QED
    BY <2>1, <2>2, <2>3
<1>8. Lists(d, X \cup Y)
  BY <1>2, <1>6, <1>7 DEF Lists
<1> QED
  BY <1>1, <1>8

LEMMA AppendLists ==
  ASSUME NEW b, NEW X, NEW m \in MsgId, Lists(b, X), m \notin X
  PROVE  Lists(Append(b, m), X \cup {m})
<1>1. Lists(<<m>>, {m})
  BY DEF Lists
<1>2. Append(b, m) = b \o <<m>>
  BY DEF Lists
<1> QED
  BY <1>1, <1>2, ConcatLists

-----------------------------------------------------------------------------
(* The buckets and the records *)

\* What bucket p should list.
Waiting(p) == {m \in MsgId : records[m].status = "pending" /\ PriorityOf(m) = p}

PendingLists ==
  /\ pending \in [Priority -> Seq(MsgId)]
  /\ \A p \in Priority : Lists(pending[p], Waiting(p))

LEMMA PendingInit == Init => PendingLists
<1> SUFFICES ASSUME Init PROVE PendingLists
  OBVIOUS
<1>1. pending = [p \in Priority |-> <<>>] /\ \A p \in Priority : Waiting(p) = {}
  BY DEF Init, Waiting, Absent
<1>2. Lists(<<>>, {})
  BY DEF Lists
<1> QED
  BY <1>1, <1>2 DEF PendingLists

LEMMA UntouchedLists ==
  ASSUME PendingLists, UNCHANGED pending,
         \A m \in MsgId : records'[m].status = "pending" <=> records[m].status = "pending"
  PROVE  PendingLists'
<1>1. \A p \in Priority : Waiting(p)' = Waiting(p)
  BY DEF Waiting
<1> QED
  BY <1>1 DEF PendingLists

LEMMA RemovedLists ==
  ASSUME PendingLists, NEW S, pending' = RemovePending(S),
         \A m \in MsgId : records'[m].status = "pending" <=> records[m].status = "pending" /\ m \notin S
  PROVE  PendingLists'
<1>1. ASSUME NEW p \in Priority PROVE Lists(pending'[p], Waiting(p)') /\ pending'[p] \in Seq(MsgId)
  <2>1. pending'[p] = Without(pending[p], S)
    BY DEF RemovePending
  <2>2. Waiting(p)' = Waiting(p) \ S
    BY DEF Waiting
  <2>3. Lists(Without(pending[p], S), Waiting(p) \ S)
    BY WithoutLists DEF PendingLists
  <2> QED
    BY <2>1, <2>2, <2>3 DEF Lists
<1>2. pending' \in [Priority -> Seq(MsgId)]
  BY <1>1 DEF RemovePending
<1> QED
  BY <1>1, <1>2 DEF PendingLists

\* m joins the end of its bucket, after the ids in S have left theirs.
LEMMA PushedLists ==
  ASSUME PendingLists, NEW m \in MsgId, records[m].status # "pending", records'[m].status = "pending",
         NEW Q, Q \in [Priority -> Seq(MsgId)], NEW S,
         \A p \in Priority : Lists(Q[p], Waiting(p) \ S),
         \A x \in MsgId \ {m} : records'[x].status = "pending" <=> records[x].status = "pending" /\ x \notin S,
         pending' = [Q EXCEPT ![PriorityOf(m)] = Append(@, m)]
  PROVE  PendingLists'
<1>1. PriorityOf(m) \in Priority
  BY EnvelopeAssumption DEF PriorityOf
<1>2. ASSUME NEW p \in Priority PROVE Lists(pending'[p], Waiting(p)') /\ pending'[p] \in Seq(MsgId)
  <2>1. CASE p = PriorityOf(m)
    <3>1. pending'[p] = Append(Q[p], m)
      BY <1>1, <2>1
    <3>2. Waiting(p)' = (Waiting(p) \ S) \cup {m} /\ m \notin Waiting(p) \ S
      BY <2>1 DEF Waiting
    <3>3. Lists(Append(Q[p], m), (Waiting(p) \ S) \cup {m})
      BY <3>2, AppendLists
    <3> QED
      BY <3>1, <3>2, <3>3 DEF Lists
  <2>2. CASE p # PriorityOf(m)
    <3>1. pending'[p] = Q[p]
      BY <2>2
    <3>2. Waiting(p)' = Waiting(p) \ S
      BY <2>2 DEF Waiting
    <3> QED
      BY <3>1, <3>2
  <2> QED
    BY <2>1, <2>2
<1>3. pending' \in [Priority -> Seq(MsgId)]
  BY <1>2
<1> QED
  BY <1>2, <1>3 DEF PendingLists

\* What the sweep puts back, in the order of the claims.
Back(p) ==
  {m \in Reclaimed : PriorityOf(m) = p /\ records[m].attempt < MaxAttempts}

LEMMA ReclaimedLists ==
  ASSUME RecordsTyped, NEW p \in Priority
  PROVE  Lists(ReclaimedInOrder(p), Back(p))
<1>1. PICK K : K = {t \in Overdue : /\ Current(t) /\ PriorityOf(inflight[t].messageId) = p
                                    /\ records[inflight[t].messageId].attempt < MaxAttempts}
  OBVIOUS
<1>2. K \in SUBSET Token /\ K \in SUBSET Nat
  BY <1>1 DEF Overdue, Token
<1>3. IsFiniteSet(K)
  <2>1. IsFiniteSet(Token)
    BY BoundsAssumption, FS_Interval DEF Token
  <2> QED
    BY <1>2, <2>1, FS_Subset
<1>4. PICK n, f : n = Cardinality(K) /\ f = InOrder(K)
  OBVIOUS
<1>5. /\ n \in Nat /\ f \in [1..n -> K]
      /\ \A k, l \in 1..n : k < l => f[k] < f[l]
      /\ \A i \in K : \E k \in 1..n : f[k] = i
  BY <1>2, <1>3, <1>4, InOrderIs
<1>6. PICK b : b = ReclaimedInOrder(p)
  OBVIOUS
<1>7. b = [i \in 1..n |-> inflight[f[i]].messageId]
  BY <1>1, <1>4, <1>5, <1>6 DEF ReclaimedInOrder
<1>8. \A i \in 1..n : f[i] \in K /\ inflight[f[i]].messageId \in MsgId
  BY <1>1, <1>5 DEF Overdue
<1>9. b \in Seq(MsgId) /\ Len(b) = n /\ \A i \in 1..n : b[i] = inflight[f[i]].messageId
  BY <1>5, <1>7, <1>8
\* A record names one token, so no two current tokens name one record.
<1>10. \A s, t \in K : inflight[s].messageId = inflight[t].messageId => s = t
  BY <1>1 DEF Current
<1>11. ASSUME NEW i \in 1..n, NEW j \in 1..n, b[i] = b[j] PROVE i = j
  <2>1. f[i] = f[j]
    BY <1>8, <1>9, <1>10, <1>11
  <2>2. f[i] \in Nat
    BY <1>2, <1>8
  <2>3. i < j \/ i = j \/ j < i
    BY <1>5
  <2> QED
    BY <1>5, <2>1, <2>2, <2>3
<1>12. ASSUME NEW m PROVE m \in Back(p) <=> \E i \in 1..n : b[i] = m
  <2>1. ASSUME m \in Back(p) PROVE \E i \in 1..n : b[i] = m
    <3>1. PICK t \in Overdue : Current(t) /\ inflight[t].messageId = m
      BY <2>1 DEF Back, Reclaimed
    <3>2. t \in K
      BY <1>1, <2>1, <3>1 DEF Back
    <3> QED
      BY <1>5, <1>9, <3>1, <3>2
  <2>2. ASSUME NEW i \in 1..n, b[i] = m PROVE m \in Back(p)
    <3>1. f[i] \in K /\ inflight[f[i]].messageId = m /\ m \in MsgId
      BY <1>8, <1>9, <2>2
    <3> QED
      BY <1>1, <3>1 DEF Back, Reclaimed
  <2> QED
    BY <2>1, <2>2
<1>13. Lists(b, Back(p))
  BY <1>9, <1>11, <1>12 DEF Lists
<1> QED
  BY <1>6, <1>13

LEMMA SweptLists ==
  ASSUME RecordsTyped, PendingLists, SweepExpiredClaims
  PROVE  PendingLists'
<1>1. /\ pending' = [p \in Priority |-> pending[p] \o ReclaimedInOrder(p)]
      /\ records' = [m \in MsgId |-> IF m \in Reclaimed THEN Returned(m) ELSE records[m]]
  BY DEF SweepExpiredClaims
<1>2. ASSUME NEW m \in Reclaimed
      PROVE  /\ m \in MsgId /\ records[m].status = "inflight"
             /\ records'[m].status = "pending" <=> records[m].attempt < MaxAttempts
  <2>1. m \in MsgId /\ records[m].status = "inflight" /\ records[m].attempt \in Nat
    BY DEF Reclaimed, Current, RecordsTyped, Record
  <2>2. records'[m] = Returned(m)
    BY <1>1, <2>1
  <2> QED
    BY <2>1, <2>2, BoundsAssumption DEF Returned, Unclaimed
<1>3. ASSUME NEW p \in Priority PROVE Lists(pending'[p], Waiting(p)') /\ pending'[p] \in Seq(MsgId)
  <2>1. pending'[p] = pending[p] \o ReclaimedInOrder(p)
    BY <1>1
  <2>2. Waiting(p)' = Waiting(p) \cup Back(p)
    BY <1>1, <1>2 DEF Waiting, Back
  <2>3. Waiting(p) \cap Back(p) = {}
    BY <1>2 DEF Waiting, Back
  <2>4. Lists(pending[p] \o ReclaimedInOrder(p), Waiting(p) \cup Back(p))
    BY <2>3, ReclaimedLists, ConcatLists DEF PendingLists
  <2> QED
    BY <2>1, <2>2, <2>4 DEF Lists
<1>4. pending' \in [Priority -> Seq(MsgId)]
  BY <1>1, <1>3
<1> QED
  BY <1>3, <1>4 DEF PendingLists

LEMMA PendingStep == RecordsTyped /\ PendingLists /\ [Next]_vars => PendingLists'
<1> SUFFICES ASSUME RecordsTyped, PendingLists, [Next]_vars PROVE PendingLists'
  OBVIOUS
<1>a. records \in [MsgId -> Record] /\ pending \in [Priority -> Seq(MsgId)]
  BY DEF RecordsTyped, PendingLists
<1>b. \A m, st : Unclaimed(m, st).status = st
  BY DEF Unclaimed
<1>1. CASE Tick \/ UNCHANGED vars
  BY <1>1, UntouchedLists DEF Tick, vars, queueVars
<1>2. CASE SweepExpiredClaims
  BY <1>2, SweptLists
<1>3. ASSUME NEW F \in Filters, NEW m \in MsgId, NEW lease \in LeaseMs, ClaimMessage(m, F, lease)
      PROVE PendingLists'
  <2>1. PICK D : D = {x \in MsgId : Droppable(x) /\ Ahead(x, m)}
    OBVIOUS
  <2>2. /\ pending' = RemovePending(D \cup {m})
        /\ records' = [Buried(D) EXCEPT ![m] = ClaimedBy(issued + 1, records[m].attempt + 1, now + lease)]
    BY <1>3, <2>1 DEF ClaimMessage
  <2>3. \A x \in MsgId : records'[x].status = "pending" <=> records[x].status = "pending" /\ x \notin D \cup {m}
    BY <1>a, <1>b, <2>2 DEF Buried, ClaimedBy
  <2> QED
    BY <2>2, <2>3, RemovedLists
<1>4. ASSUME NEW F \in Filters, ClaimNothing(F) PROVE PendingLists'
  <2>1. PICK D : D = {x \in MsgId : Droppable(x)}
    OBVIOUS
  <2>2. pending' = RemovePending(D) /\ records' = Buried(D)
    BY <1>4, <2>1 DEF ClaimNothing
  <2>3. \A x \in MsgId : records'[x].status = "pending" <=> records[x].status = "pending" /\ x \notin D
    BY <1>a, <1>b, <2>2 DEF Buried
  <2> QED
    BY <2>2, <2>3, RemovedLists
<1>5. ASSUME NEW m \in MsgId, Accept(m) PROVE PendingLists'
  <2>1. PICK S : S = SameKey(m)
    OBVIOUS
  <2>2. /\ records[m].status = "absent"
        /\ records' = [x \in MsgId |-> IF x = m THEN Fresh ELSE IF x \in S THEN Absent ELSE records[x]]
        /\ pending' = [RemovePending(S) EXCEPT ![PriorityOf(m)] = Append(@, m)]
    BY <1>5, <2>1 DEF Accept
  <2>3. PICK Q : Q = RemovePending(S)
    OBVIOUS
  <2>4. ASSUME NEW p \in Priority PROVE Lists(Q[p], Waiting(p) \ S) /\ Q[p] \in Seq(MsgId)
    <3>1. Q[p] = Without(pending[p], S)
      BY <2>3 DEF RemovePending
    <3>2. Lists(Without(pending[p], S), Waiting(p) \ S)
      BY WithoutLists DEF PendingLists
    <3> QED
      BY <3>1, <3>2 DEF Lists
  <2>5. Q \in [Priority -> Seq(MsgId)]
    BY <2>3, <2>4 DEF RemovePending
  <2>6. records'[m].status = "pending" /\ records[m].status # "pending"
    BY <2>2 DEF Fresh
  <2>7. \A x \in MsgId \ {m} : records'[x].status = "pending" <=> records[x].status = "pending" /\ x \notin S
    BY <2>2 DEF Absent
  <2>8. pending' = [Q EXCEPT ![PriorityOf(m)] = Append(@, m)]
    BY <2>2, <2>3
  <2> QED
    BY <2>4, <2>5, <2>6, <2>7, <2>8, PushedLists
\* A message that was not pending goes back to its bucket.
<1>6. ASSUME NEW m \in MsgId, records[m].status # "pending", pending' = Push(m),
             records' = [records EXCEPT ![m] = Unclaimed(m, "pending")]
      PROVE  PendingLists'
  <2>1. records'[m].status = "pending" /\ \A x \in MsgId \ {m} : records'[x] = records[x]
    BY <1>a, <1>b, <1>6
  <2>2. pending' = [pending EXCEPT ![PriorityOf(m)] = Append(@, m)]
    BY <1>6 DEF Push
  <2>3. \A p \in Priority : Lists(pending[p], Waiting(p) \ {})
    BY DEF PendingLists
  <2> QED
    BY <1>a, <1>6, <2>1, <2>2, <2>3, PushedLists
\* One that was not pending settles.
<1>7. ASSUME NEW m \in MsgId, NEW r, records[m].status # "pending", UNCHANGED pending,
             r.status # "pending", records' = [records EXCEPT ![m] = r]
      PROVE  PendingLists'
  <2>1. \A x \in MsgId : records'[x].status = "pending" <=> records[x].status = "pending"
    BY <1>a, <1>7
  <2> QED
    BY <1>7, <2>1, UntouchedLists
<1>8. ASSUME NEW m \in MsgId, Requeue(m) PROVE PendingLists'
  BY <1>6, <1>8 DEF Requeue
<1>9. ASSUME NEW m \in MsgId, Deadletter(m) PROVE PendingLists'
  <2>1. \A x \in MsgId : records'[x].status = "pending" <=> records[x].status = "pending" /\ x \notin {m}
    BY <1>a, <1>b, <1>9 DEF Deadletter
  <2> QED
    BY <1>9, <2>1, RemovedLists DEF Deadletter
<1>10. ASSUME NEW t \in Token, Ack(t) PROVE PendingLists'
  <2>1. PICK m : m = inflight[t].messageId
    OBVIOUS
  <2>2. m \in MsgId /\ records[m].status = "inflight"
    BY <1>10, <2>1, HoldsFacts DEF Ack
  <2>3. Unclaimed(m, "completed").status # "pending"
    BY <1>b
  <2>4. records' = [records EXCEPT ![m] = Unclaimed(m, "completed")] /\ UNCHANGED pending
    BY <1>10, <2>1 DEF Ack
  <2> QED
    BY <1>7, <2>2, <2>3, <2>4
<1>11. ASSUME NEW t \in Token, NEW requeue \in BOOLEAN, Nack(t, requeue) PROVE PendingLists'
  <2>1. PICK m : m = inflight[t].messageId
    OBVIOUS
  <2>2. m \in MsgId /\ records[m].status = "inflight"
    BY <1>11, <2>1, HoldsFacts DEF Nack
  <2>3. CASE requeue /\ records[m].attempt < MaxAttempts
    BY <1>6, <1>11, <2>1, <2>2, <2>3 DEF Nack
  <2>4. CASE ~(requeue /\ records[m].attempt < MaxAttempts)
    <3>1. records' = [records EXCEPT ![m] = Unclaimed(m, "deadletter")] /\ UNCHANGED pending
      BY <1>11, <2>1, <2>4 DEF Nack
    <3>2. Unclaimed(m, "deadletter").status # "pending"
      BY <1>b
    <3> QED
      BY <1>7, <2>2, <3>1, <3>2
  <2> QED
    BY <2>3, <2>4
<1>12. ASSUME NEW t \in Token, NEW lease \in LeaseMs, Renew(t, lease) PROVE PendingLists'
  <2>1. PICK m : m = inflight[t].messageId
    OBVIOUS
  <2>2. m \in MsgId /\ records[m].status = "inflight"
    BY <1>12, <2>1, HoldsFacts DEF Renew
  <2>3. ClaimedBy(t, records[m].attempt, now + lease).status # "pending"
    BY DEF ClaimedBy
  <2> QED
    BY <1>7, <1>12, <2>1, <2>2, <2>3 DEF Renew
<1> QED
  BY <1>1, <1>2, <1>3, <1>4, <1>5, <1>8, <1>9, <1>10, <1>11, <1>12 DEF Next, Claim

\* Every variable of the queue keeps its type, the buckets included, and each
\* bucket lists the pending messages of its priority, each once.
THEOREM BucketsAreLists == Spec => [](TypeOK /\ PendingLists)
<1>1. Init => RecordsTyped /\ PendingLists
  BY TypedInit, PendingInit
<1>2. (RecordsTyped /\ PendingLists) /\ [Next]_vars => (RecordsTyped /\ PendingLists)'
  BY TypedStep, PendingStep
<1>3. RecordsTyped /\ PendingLists => TypeOK /\ PendingLists
  BY DEF TypeOK, PendingLists
<1> QED
  BY <1>1, <1>2, <1>3, PTL DEF Spec

THEOREM QueueIsTyped == Spec => []TypeOK
  BY BucketsAreLists, PTL

\* Nothing is lost and nothing is queued twice.
LEMMA ListedOnce ==
  ASSUME PendingLists, NEW m \in MsgId, NEW p \in Priority
  PROVE  Occurrences(m, p) = IF records[m].status = "pending" /\ p = PriorityOf(m) THEN 1 ELSE 0
<1>1. PICK b, X : b = pending[p] /\ X = Waiting(p)
  OBVIOUS
<1>2. Lists(b, X) /\ DOMAIN b = 1..Len(b)
  BY <1>1 DEF PendingLists, Lists
<1>3. PICK I : I = {i \in DOMAIN b : b[i] = m}
  OBVIOUS
<1>4. Occurrences(m, p) = Cardinality(I)
  BY <1>1, <1>3 DEF Occurrences
<1>5. CASE m \in X
  <2>1. PICK i \in 1..Len(b) : b[i] = m
    BY <1>2, <1>5 DEF Lists
  <2>2. I = {i}
    BY <1>2, <1>3, <2>1 DEF Lists
  <2>3. Cardinality(I) = 1
    BY <2>2, FS_Singleton
  <2> QED
    BY <1>1, <1>4, <1>5, <2>3 DEF Waiting
<1>6. CASE m \notin X
  <2>1. I = {}
    BY <1>2, <1>3, <1>6 DEF Lists
  <2>2. Cardinality(I) = 0
    BY <2>1, FS_EmptySet
  <2> QED
    BY <1>1, <1>4, <1>6, <2>2 DEF Waiting
<1> QED
  BY <1>5, <1>6

THEOREM PendingIsExact == Spec => []PendingExact
<1>1. PendingLists => PendingExact
  BY ListedOnce DEF PendingExact
<1> QED
  BY <1>1, BucketsAreLists, PTL

\* Normalizing what the queue itself wrote changes nothing.
LEMMA NothingToAdd == SetToSeq({}) = <<>>
<1>1. Cardinality({}) = 0
  BY FS_EmptySet
<1>2. <<>> \in [1..0 -> {}]
  OBVIOUS
<1>4. ASSUME NEW f \in [1..0 -> {}] PROVE f = <<>>
  <2>1. f \in Seq({}) /\ Len(f) = 0
    BY <1>4
  <2> QED
    BY <2>1
<1>3. IsInjective(<<>>)
  BY DEF IsInjective
<1> QED
  BY <1>1, <1>2, <1>3, <1>4 DEF SetToSeq

LEMMA NormalIsPending ==
  ASSUME PendingLists, NEW p \in Priority
  PROVE  NormalPending(p) = pending[p]
<1>1. PICK S, b : S = {m \in MsgId : records[m].status # "pending"} /\ b = pending[p]
  OBVIOUS
<1>2. Lists(b, Waiting(p)) /\ Waiting(p) \cap S = {}
  BY <1>1 DEF PendingLists, Waiting
<1>3. Without(b, S) = b
  BY <1>2, WithoutNone
<1>4. {m \in MsgId : /\ records[m].status = "pending" /\ PriorityOf(m) = p
                     /\ \A i \in DOMAIN b : b[i] # m} = {}
  BY <1>2 DEF Lists, Waiting
<1>5. NormalPending(p) = b \o SetToSeq({})
  BY <1>1, <1>3, <1>4 DEF NormalPending
<1>6. b \o <<>> = b
  BY <1>2 DEF Lists
<1> QED
  BY <1>1, <1>5, <1>6, NothingToAdd

LEMMA NormalIsInflight ==
  ASSUME RecordsTyped, ClaimAgreement, NEW t \in Token
  PROVE  NormalInflight(t) = inflight[t]
<1>1. PICK N : N = {m \in MsgId : records[m].status = "inflight" /\ records[m].claimToken = t}
  OBVIOUS
<1>2. inflight[t] \in Claims \cup {NoClaim}
  BY DEF RecordsTyped
<1>3. CASE inflight[t] = NoClaim
  <2>1. N = {}
    BY <1>1, <1>3, NoMsgAssumption DEF ClaimAgreement, NoClaim
  <2> QED
    BY <1>1, <1>3, <2>1 DEF NormalInflight
<1>4. CASE inflight[t] \in Claims
  <2>1. PICK m : m = inflight[t].messageId
    OBVIOUS
  <2>2. /\ m \in MsgId /\ records[m].status = "inflight" /\ records[m].claimToken = t
        /\ records[m].leaseUntil = inflight[t].leaseUntil
        /\ records[m].attempt = inflight[t].attempt
    BY <1>4, <2>1 DEF Claims, ClaimAgreement
  <2>3. N = {m}
    BY <1>1, <2>1, <2>2 DEF ClaimAgreement
  <2>4. (CHOOSE x \in N : TRUE) = m /\ N # {}
    BY <2>3
  <2>5. NormalInflight(t) = [messageId |-> m, leaseUntil |-> records[m].leaseUntil, attempt |-> records[m].attempt]
    BY <1>1, <2>4 DEF NormalInflight
  <2> QED
    BY <1>4, <2>1, <2>2, <2>5 DEF Claims
<1> QED
  BY <1>2, <1>3, <1>4

THEOREM LoadChangesNothing == Spec => []LoadIsIdentity
<1>1. RecordsTyped /\ PendingLists /\ ClaimAgreement => LoadIsIdentity
  BY NormalIsPending, NormalIsInflight DEF LoadIsIdentity
<1> QED
  BY <1>1, RecordsAreTyped, BucketsAreLists, IndexAgrees, PTL
=============================================================================
