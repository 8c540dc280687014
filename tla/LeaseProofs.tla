----------------------------- MODULE LeaseProofs -----------------------------
(***************************************************************************)
(* Theorems about GoalLease over PidMutex, for the goal leases and the     *)
(* leader lock alike: any number of calls, processes, tokens, attempts,    *)
(* any duration of a lease.                                                *)
(***************************************************************************)
EXTENDS GoalLease, TLAPS

PCs == {"idle", "mkdir", "pid", "check", "clear", "body", "write", "unlock"}
Kinds == {"acquire", "renew", "release", "reap"}
Records == [owner : Token \cup {NoToken}, until : Nat]
Ops == [kind : Kinds \cup {"none"}, token : Token \cup {NoToken}, at : 0..MaxNow]

\* The types of the variables; a call under way is of one living process.
Types ==
  /\ leader \in BOOLEAN /\ robbed \in BOOLEAN
  /\ now \in 0..MaxNow
  /\ pc \in [Caller -> PCs] /\ tries \in [Caller -> 0..MaxTries]
  /\ proc \in [Caller -> SUBSET Proc] /\ dead \in SUBSET Proc
  /\ \A c \in Caller : pc[c] # "idle" => \E p \in Proc \ dead : proc[c] = {p}
  /\ mutex \in {{}, Bare} \cup {{p} : p \in Proc} /\ maker \in SUBSET Caller
  /\ lease \in Records /\ found \in [Caller -> Records]
  /\ op \in [Caller -> Ops]
  /\ told \in [Token -> Nat] /\ home \in [Token -> SUBSET Proc]
  /\ released \in SUBSET Token

\* The call of c is one of those that speak for token t.
SpeaksFor(c, t) ==
  op[c].token = t /\ op[c].kind \in {"acquire", "renew", "release"}

\* What a call may be about: a token is acquired once, by the process that
\* renews and releases it; a call whose answer is null has no kind any more.
GoodCalls ==
  /\ \A c \in Caller :
       /\ pc[c] = "idle" => op[c] = NoOp
       /\ pc[c] \in PCs \ {"idle", "unlock"} => op[c].kind \in Kinds
       /\ op[c].at <= now
       /\ op[c].kind \in {"acquire", "renew", "release"} =>
            op[c].token \in Token /\ home[op[c].token] = proc[c]
  /\ \A c, d \in Caller :
       op[c].kind = "acquire" /\ c # d => ~SpeaksFor(d, op[c].token)
  /\ \A c \in Caller : op[c].kind = "acquire" =>
       told[op[c].token] = 0 /\ op[c].token \notin released
  /\ \A t \in Token : home[t] = {} => told[t] = 0 /\ t \notin released

\* Whoever is inside the mutex made the directory that stands, and nobody
\* writes the record between its reading and its writing.
HolderOwns ==
  /\ mutex = {} <=> maker = {}
  /\ \A c \in Caller :
       /\ Inside(c) => maker = {c}
       /\ pc[c] = "write" => found[c] = lease /\ ~Refused(op[c], lease)
       /\ pc[c] = "unlock" =>
            /\ op[c].kind \in {"acquire", "renew"} =>
                 lease = [owner |-> op[c].token, until |-> op[c].at + LeaseMs]
            /\ op[c].kind \in {"release", "reap"} => lease = NoLease

\* A promise is kept by the record, or its owner's own call is about to renew
\* or end it.
PromiseKept ==
  \A t \in Token : Holds(t) =>
    \/ lease.owner = t /\ told[t] <= lease.until
    \/ \E c \in Caller : /\ pc[c] = "unlock" /\ op[c].token = t
                         /\ op[c].kind \in {"renew", "release"}

LeaseInv == HolderOwns /\ PromiseKept /\ ReleasedStaysGone
IInv == Types /\ GoodCalls /\ (mutex = {} <=> maker = {}) /\ (~robbed => LeaseInv)

\* What a call knows of the record when it is not refused.
LEMMA NotRefused ==
  ASSUME NEW o, NEW r, o.kind \in Kinds, ~Refused(o, r)
  PROVE  /\ o.kind = "acquire" => ~Live(r) \/ ~(r.until > o.at)
         /\ o.kind \in {"renew", "release"} => r.owner = o.token
         /\ o.kind = "reap" => ~(r.until > o.at)
  BY DEF Refused, Kinds

\* What the record becomes.
LEMMA WhatIsWritten ==
  ASSUME NEW o, NEW r, o.kind \in Kinds
  PROVE  /\ o.kind = "acquire" => Written(o, r) = [owner |-> o.token, until |-> o.at + LeaseMs]
         /\ o.kind = "renew" => Written(o, r) = [owner |-> r.owner, until |-> o.at + LeaseMs]
         /\ o.kind \in {"release", "reap"} => Written(o, r) = NoLease
  BY DEF Written, Kinds

\* At the start nothing is promised and nobody calls.
LEMMA InitHolds == Init => IInv
<1> SUFFICES ASSUME Init PROVE IInv
  OBVIOUS
<1>0. 0 \in 0..MaxTries /\ 0 \in 0..MaxNow /\ 0 \in Nat
  BY MutexAssumption, LeaseAssumption
<1>1. Types
  <2>1. NoLease \in Records /\ NoOp \in Ops
    BY <1>0 DEF NoLease, NoOp, Records, Ops
  <2>2. pc \in [Caller -> PCs] /\ tries \in [Caller -> 0..MaxTries] /\ proc \in [Caller -> SUBSET Proc]
    BY <1>0 DEF Init, MutexInit, PCs
  <2>3. told \in [Token -> Nat] /\ home \in [Token -> SUBSET Proc] /\ released \in SUBSET Token
    BY <1>0 DEF Init
  <2>4. found \in [Caller -> Records] /\ op \in [Caller -> Ops] /\ lease \in Records
    BY <2>1 DEF Init
  <2>5. \A c \in Caller : pc[c] = "idle"
    BY DEF Init, MutexInit
  <2>6. now \in 0..MaxNow /\ leader \in BOOLEAN /\ robbed \in BOOLEAN
    BY <1>0 DEF Init, MutexInit
  <2>7. mutex = {} /\ maker \in SUBSET Caller /\ dead \in SUBSET Proc
    BY DEF Init, MutexInit
  <2> QED BY <2>2, <2>3, <2>4, <2>5, <2>6, <2>7 DEF Types
<1>2. GoodCalls
  BY <1>0 DEF Init, MutexInit, GoodCalls, SpeaksFor, NoOp
<1>3. mutex = {} /\ maker = {}
  BY DEF Init, MutexInit
<1>4. HolderOwns
  BY <1>3 DEF Init, MutexInit, HolderOwns, Inside
<1>5. PromiseKept
  BY <1>0 DEF Init, PromiseKept, Holds
<1>6. ReleasedStaysGone
  BY DEF Init, ReleasedStaysGone
<1> QED BY <1>1, <1>2, <1>3, <1>4, <1>5, <1>6 DEF IInv, LeaseInv

\* A call begins.  A token that is acquired has no home yet, so that nobody
\* speaks for it; one that is renewed or released was acquired before.
LEMMA CallKeeps ==
  ASSUME IInv, NEW c \in Caller, NEW p \in Proc, NEW kind \in Kinds,
         NEW t \in Token \cup {NoToken}, kind # "reap" => t \in Token, Call(c, p, kind, t)
  PROVE  IInv'
<1>1. Types /\ GoodCalls
  BY DEF IInv
<1>2. /\ pc[c] = "idle" /\ pc' = [pc EXCEPT ![c] = "mkdir"] /\ proc' = [proc EXCEPT ![c] = {p}]
      /\ p \in Proc \ dead /\ op' = [op EXCEPT ![c] = [kind |-> kind, token |-> t, at |-> now]]
      /\ UNCHANGED <<leader, now, lease, found, told, released, tries, mutex, dead, maker, robbed>>
  BY DEF Call, Enter, At
<1>3. /\ kind = "acquire" => home[t] = {} /\ home' = [home EXCEPT ![t] = {p}]
      /\ kind # "acquire" => home' = home
      /\ kind \in {"renew", "release"} => home[t] = {p} /\ told[t] > 0
  BY DEF Call, MayCall, Kinds
<1>4. Types'
  <2>1. [kind |-> kind, token |-> t, at |-> now] \in Ops
    BY <1>1 DEF Ops, Types
  <2>2. op' \in [Caller -> Ops] /\ home' \in [Token -> SUBSET Proc]
    BY <1>1, <1>2, <1>3, <2>1 DEF Types
  <2>3. pc' \in [Caller -> PCs] /\ proc' \in [Caller -> SUBSET Proc]
    BY <1>1, <1>2 DEF Types, PCs
  <2>4. \A d \in Caller : pc'[d] # "idle" => \E q \in Proc \ dead : proc'[d] = {q}
    BY <1>1, <1>2 DEF Types
  <2> QED BY <1>1, <1>2, <2>2, <2>3, <2>4 DEF Types
<1>5. GoodCalls'
  <2>1. \A d \in Caller : op[d].kind \in {"acquire", "renew", "release"} =>
          pc[d] # "idle" /\ home[op[d].token] # {} /\ d # c
    <3> SUFFICES ASSUME NEW d \in Caller, op[d].kind \in {"acquire", "renew", "release"}
                 PROVE  pc[d] # "idle" /\ home[op[d].token] # {} /\ d # c
      OBVIOUS
    <3>1. pc[d] # "idle"
      BY <1>1 DEF GoodCalls, NoOp
    <3>2. home[op[d].token] = proc[d] /\ \E q \in Proc \ dead : proc[d] = {q}
      BY <1>1, <3>1 DEF GoodCalls, Types
    <3> QED BY <1>2, <3>1, <3>2
  <2>2. kind = "acquire" => \A d \in Caller : ~SpeaksFor(d, t)
    BY <1>3, <2>1 DEF SpeaksFor
  <2>3. kind \in {"renew", "release"} => \A d \in Caller : op[d].kind = "acquire" => op[d].token # t
    BY <1>1, <1>3 DEF GoodCalls
  <2>4. op'[c] = [kind |-> kind, token |-> t, at |-> now] /\ \A d \in Caller \ {c} : op'[d] = op[d]
    BY <1>1, <1>2 DEF Types
  <2>5. \A d \in Caller :
          /\ pc'[d] = "idle" => op'[d] = NoOp
          /\ pc'[d] \in PCs \ {"idle", "unlock"} => op'[d].kind \in Kinds
          /\ op'[d].at <= now
    BY <1>1, <1>2, <2>4, LeaseAssumption DEF Types, GoodCalls
  <2>6. \A d \in Caller : op'[d].kind \in {"acquire", "renew", "release"} =>
          op'[d].token \in Token /\ home'[op'[d].token] = proc'[d]
    <3>1. CASE kind = "acquire"
      <4> SUFFICES ASSUME NEW d \in Caller, op'[d].kind \in {"acquire", "renew", "release"}
                   PROVE  op'[d].token \in Token /\ home'[op'[d].token] = proc'[d]
        OBVIOUS
      <4>1. CASE d = c
        BY <1>1, <1>2, <1>3, <2>4, <3>1, <4>1 DEF Types
      <4>2. CASE d # c
        <5>1. op[d].token \in Token /\ home[op[d].token] = proc[d]
          BY <1>1, <2>4, <4>2 DEF GoodCalls
        <5>2. op[d].token # t
          BY <2>2, <2>4, <3>1, <4>2 DEF SpeaksFor
        <5> QED BY <1>1, <1>2, <1>3, <2>4, <3>1, <4>2, <5>1, <5>2 DEF Types
      <4> QED BY <4>1, <4>2
    <3>2. CASE kind # "acquire"
      BY <1>1, <1>2, <1>3, <2>4, <3>2 DEF Types, GoodCalls, Kinds
    <3> QED BY <3>1, <3>2
  <2>7. \A d, e \in Caller : op'[d].kind = "acquire" /\ d # e =>
          ~(op'[e].token = op'[d].token /\ op'[e].kind \in {"acquire", "renew", "release"})
    BY <1>1, <2>2, <2>3, <2>4 DEF GoodCalls, SpeaksFor
  <2>8. \A d \in Caller : op'[d].kind = "acquire" => told'[op'[d].token] = 0 /\ op'[d].token \notin released'
    BY <1>1, <1>2, <1>3, <2>4 DEF GoodCalls
  <2>9. \A u \in Token : home'[u] = {} => told'[u] = 0 /\ u \notin released'
    BY <1>1, <1>2, <1>3 DEF GoodCalls, Types
  <2> QED BY <1>2, <2>5, <2>6, <2>7, <2>8, <2>9 DEF GoodCalls, SpeaksFor
<1>6. ASSUME ~robbed PROVE LeaseInv'
  <2>1. HolderOwns /\ PromiseKept /\ ReleasedStaysGone
    BY <1>2, <1>6 DEF IInv, LeaseInv
  <2>2. HolderOwns'
    <3>1. \A u \in Token : home'[u] \cap dead = {} <=> home[u] \cap dead = {}
      BY <1>1, <1>2, <1>3 DEF Types
    <3>2. lease.owner \in Token \cup {NoToken}
      BY <1>1 DEF Types, Records
    <3>3. Live(lease)' <=> Live(lease)
      BY <1>2, <3>1, <3>2 DEF Live
    <3>4. \A d \in Caller \ {c} : op'[d] = op[d] /\ pc'[d] = pc[d]
      BY <1>1, <1>2 DEF Types
    <3>5. \A d \in Caller \ {c} : Refused(op[d], lease)' <=> Refused(op'[d], lease)
      BY <1>2, <3>3, <3>4 DEF Refused
    <3>6. pc'[c] = "mkdir"
      BY <1>1, <1>2 DEF Types
    <3> QED BY <1>2, <2>1, <3>4, <3>5, <3>6 DEF HolderOwns, Inside
  <2>3. PromiseKept'
    BY <1>1, <1>2, <1>3, <2>1 DEF PromiseKept, Holds, Types, GoodCalls
  <2>4. ReleasedStaysGone'
    BY <1>2, <2>1 DEF ReleasedStaysGone
  <2> QED BY <2>2, <2>3, <2>4 DEF LeaseInv
<1> QED BY <1>2, <1>4, <1>5, <1>6 DEF IInv

\* A step of acquireMutex moves only its own caller: it makes the directory
\* where none stands, or removes what stands, or leaves the maker as it is.
LEMMA LockShape ==
  ASSUME Types, NEW c \in Caller, Lock(c)
  PROVE  /\ UNCHANGED <<leader, now, lease, found, told, home, released, dead>>
         /\ pc[c] \in {"mkdir", "pid", "check", "clear"}
         /\ pc'[c] \in {"idle", "mkdir", "pid", "check", "clear", "body"}
         /\ pc' = [pc EXCEPT ![c] = pc'[c]]
         /\ proc' = [proc EXCEPT ![c] = IF pc'[c] = "idle" THEN {} ELSE @]
         /\ op' = [op EXCEPT ![c] = IF pc'[c] = "idle" THEN NoOp ELSE @]
         /\ tries' \in [Caller -> 0..MaxTries]
         /\ \/ /\ mutex = {} /\ mutex' = Bare /\ maker' = {c} /\ robbed' = robbed
            \/ /\ mutex' = {} /\ maker' = {} /\ pc'[c] = "mkdir"
               /\ robbed' = (robbed \/ \E d \in maker \ {c} : Inside(d))
            \/ /\ maker' = maker /\ robbed' = robbed
               /\ mutex' = mutex \/ (mutex # {} /\ mutex' = proc[c])
               /\ Inside(c) \/ pc'[c] \notin {"pid", "body"}
<1>0. /\ pc \in [Caller -> PCs] /\ proc \in [Caller -> SUBSET Proc] /\ op \in [Caller -> Ops]
      /\ tries \in [Caller -> 0..MaxTries] /\ robbed \in BOOLEAN /\ MaxTries \in Nat
  BY MutexAssumption DEF Types
<1>1. /\ UNCHANGED <<leader, now, lease, found, told, home, released>>
      /\ op' = IF pc'[c] = "idle" THEN [op EXCEPT ![c] = NoOp] ELSE op
  BY DEF Lock
<1>2. op' = [op EXCEPT ![c] = IF pc'[c] = "idle" THEN NoOp ELSE @]
  <2>1. op = [op EXCEPT ![c] = op[c]]
    BY <1>0
  <2> QED BY <1>1, <2>1
<1>3. proc = [proc EXCEPT ![c] = proc[c]]
  BY <1>0
<1>4. CASE Mkdir(c)
  BY <1>0, <1>1, <1>2, <1>3, <1>4 DEF Mkdir, At, Inside
<1>5. CASE Exists(c)
  BY <1>0, <1>1, <1>2, <1>3, <1>5 DEF Exists, At, Inside
<1>6. CASE TimedOut(c)
  BY <1>0, <1>1, <1>2, <1>6 DEF TimedOut, At, Inside, Leave
<1>7. CASE WritePid(c)
  BY <1>0, <1>1, <1>2, <1>3, <1>7 DEF WritePid, At, Inside
<1>8. CASE PidFails(c)
  BY <1>0, <1>1, <1>2, <1>8 DEF PidFails, At, Inside, Leave
<1>9. CASE SeeHeld(c)
  BY <1>0, <1>1, <1>2, <1>3, <1>9 DEF SeeHeld, At, Inside
<1>10. CASE SeeStale(c)
  BY <1>0, <1>1, <1>2, <1>3, <1>10 DEF SeeStale, At, Inside
<1>11. CASE Clear(c)
  BY <1>0, <1>1, <1>2, <1>3, <1>11 DEF Clear, RemoveDir, At, Inside
<1> QED BY <1>4, <1>5, <1>6, <1>7, <1>8, <1>9, <1>10, <1>11 DEF Lock, LockStep

\* Taking the mutex keeps the invariant: while nobody was robbed, the directory
\* is made only when nobody is inside.
LEMMA LockKeeps ==
  ASSUME IInv, NEW c \in Caller, Lock(c)
  PROVE  IInv'
<1>1. Types /\ GoodCalls /\ (mutex = {} <=> maker = {})
  BY DEF IInv
<1>2. /\ UNCHANGED <<leader, now, lease, found, told, home, released, dead>>
      /\ pc[c] \in {"mkdir", "pid", "check", "clear"}
      /\ pc'[c] \in {"idle", "mkdir", "pid", "check", "clear", "body"}
      /\ pc' = [pc EXCEPT ![c] = pc'[c]]
      /\ proc' = [proc EXCEPT ![c] = IF pc'[c] = "idle" THEN {} ELSE @]
      /\ op' = [op EXCEPT ![c] = IF pc'[c] = "idle" THEN NoOp ELSE @]
      /\ tries' \in [Caller -> 0..MaxTries]
  BY <1>1, LockShape
<1>3. \/ /\ mutex = {} /\ mutex' = Bare /\ maker' = {c} /\ robbed' = robbed
      \/ /\ mutex' = {} /\ maker' = {} /\ pc'[c] = "mkdir"
         /\ robbed' = (robbed \/ \E d \in maker \ {c} : Inside(d))
      \/ /\ maker' = maker /\ robbed' = robbed
         /\ mutex' = mutex \/ (mutex # {} /\ mutex' = proc[c])
         /\ Inside(c) \/ pc'[c] \notin {"pid", "body"}
  BY <1>1, LockShape
<1>4. PICK p \in Proc \ dead : proc[c] = {p}
  BY <1>1, <1>2 DEF Types
<1>5. \A d \in Caller \ {c} : pc'[d] = pc[d] /\ op'[d] = op[d] /\ proc'[d] = proc[d]
  BY <1>1, <1>2 DEF Types
<1>6. /\ proc'[c] = IF pc'[c] = "idle" THEN {} ELSE proc[c]
      /\ op'[c] = IF pc'[c] = "idle" THEN NoOp ELSE op[c]
  BY <1>1, <1>2 DEF Types
<1>7. Types'
  <2>1. NoOp \in Ops
    BY LeaseAssumption DEF NoOp, Ops
  <2>2. pc' \in [Caller -> PCs]
    BY <1>1, <1>2 DEF Types, PCs
  <2>3. proc' \in [Caller -> SUBSET Proc] /\ op' \in [Caller -> Ops]
    BY <1>1, <1>2, <2>1 DEF Types
  <2>4. \A d \in Caller : pc'[d] # "idle" => \E q \in Proc \ dead : proc'[d] = {q}
    BY <1>1, <1>2, <1>4, <1>5, <1>6 DEF Types
  <2>5. mutex' \in {{}, Bare} \cup {{q} : q \in Proc} /\ maker' \in SUBSET Caller /\ robbed' \in BOOLEAN
    BY <1>1, <1>3, <1>4 DEF Types
  <2> QED BY <1>1, <1>2, <2>2, <2>3, <2>4, <2>5 DEF Types
<1>8. GoodCalls'
  <2>1. \A d \in Caller :
          /\ pc'[d] = "idle" => op'[d] = NoOp
          /\ pc'[d] \in PCs \ {"idle", "unlock"} => op'[d].kind \in Kinds
          /\ op'[d].at <= now
    <3>1. op[c].kind \in Kinds /\ op[c].at <= now
      BY <1>1, <1>2 DEF GoodCalls, PCs
    <3>2. NoOp.at <= now
      BY <1>1, LeaseAssumption DEF NoOp, Types
    <3> QED BY <1>1, <1>5, <1>6, <3>1, <3>2 DEF GoodCalls
  <2>2. \A d \in Caller : op'[d].kind # "none" => op'[d] = op[d] /\ proc'[d] = proc[d]
    BY <1>5, <1>6 DEF NoOp
  <2>3. \A d \in Caller : op'[d].kind \in {"acquire", "renew", "release"} =>
          op'[d].token \in Token /\ home[op'[d].token] = proc'[d]
    BY <1>1, <2>2 DEF GoodCalls
  <2>4. \A d, e \in Caller : op'[d].kind = "acquire" /\ d # e =>
          ~(op'[e].token = op'[d].token /\ op'[e].kind \in {"acquire", "renew", "release"})
    BY <1>1, <2>2 DEF GoodCalls, SpeaksFor
  <2>5. \A d \in Caller : op'[d].kind = "acquire" => told[op'[d].token] = 0 /\ op'[d].token \notin released
    BY <1>1, <2>2 DEF GoodCalls
  <2>6. \A t \in Token : home[t] = {} => told[t] = 0 /\ t \notin released
    BY <1>1 DEF GoodCalls
  <2> QED BY <1>2, <2>1, <2>3, <2>4, <2>5, <2>6 DEF GoodCalls, SpeaksFor
<1>9. mutex' = {} <=> maker' = {}
  BY <1>1, <1>3, <1>4 DEF Bare
<1>10. ASSUME ~robbed' PROVE LeaseInv'
  <2>1. ~robbed /\ HolderOwns /\ PromiseKept /\ ReleasedStaysGone
    BY <1>1, <1>3, <1>10 DEF IInv, LeaseInv, Types
  <2>2. \A d \in Caller : Inside(d)' => maker' = {d}
    <3> SUFFICES ASSUME NEW d \in Caller, Inside(d)' PROVE maker' = {d}
      OBVIOUS
    <3>1. CASE d = c
      BY <1>2, <1>3, <2>1, <3>1 DEF Inside, HolderOwns
    <3>2. CASE d # c
      <4>1. Inside(d) /\ maker = {d}
        BY <1>5, <2>1, <3>2 DEF Inside, HolderOwns
      <4> QED BY <1>1, <1>3, <1>10, <2>1, <3>2, <4>1
    <3> QED BY <3>1, <3>2
  <2>3. \A d \in Caller : pc'[d] \in {"write", "unlock"} => pc[d] = pc'[d] /\ op'[d] = op[d]
    BY <1>2, <1>5
  <2>4. HolderOwns'
    BY <1>2, <1>9, <2>1, <2>2, <2>3 DEF HolderOwns, Refused, Live
  <2>5. PromiseKept'
    <3> SUFFICES ASSUME NEW t \in Token, Holds(t)
                 PROVE  \/ lease.owner = t /\ told[t] <= lease.until
                        \/ \E d \in Caller : /\ pc'[d] = "unlock" /\ op'[d].token = t
                                             /\ op'[d].kind \in {"renew", "release"}
      BY <1>2 DEF PromiseKept, Holds
    <3>1. \A d \in Caller : pc[d] = "unlock" => pc'[d] = pc[d] /\ op'[d] = op[d]
      BY <1>2, <1>5
    <3> QED BY <2>1, <3>1 DEF PromiseKept
  <2>6. ReleasedStaysGone'
    BY <1>2, <2>1 DEF ReleasedStaysGone
  <2> QED BY <2>4, <2>5, <2>6 DEF LeaseInv
<1> QED BY <1>7, <1>8, <1>9, <1>10 DEF IInv

\* The record is read, or the answer is null: a renewal that is refused takes
\* the promise back.
LEMMA ReadKeeps ==
  ASSUME IInv, NEW c \in Caller, Read(c) \/ ReadRefused(c)
  PROVE  IInv'
<1>1. Types /\ GoodCalls /\ (mutex = {} <=> maker = {})
  BY DEF IInv
<1>2. UNCHANGED <<leader, now, lease, home, released, proc, tries, mutex, dead, maker, robbed>>
  BY DEF Read, ReadRefused
<1>3. CASE Read(c)
  <2>1. /\ pc[c] = "body" /\ pc' = [pc EXCEPT ![c] = "write"] /\ ~Refused(op[c], lease)
        /\ found' = [found EXCEPT ![c] = lease] /\ UNCHANGED <<op, told>>
    BY <1>3 DEF Read, At
  <2>2. pc' \in [Caller -> PCs] /\ found' \in [Caller -> Records]
    BY <1>1, <2>1 DEF Types, PCs
  <2>3. Types'
    BY <1>1, <1>2, <2>1, <2>2 DEF Types
  <2>4. op[c].kind \in Kinds
    BY <1>1, <2>1 DEF GoodCalls, PCs
  <2>5. GoodCalls'
    BY <1>1, <1>2, <2>1, <2>4 DEF Types, GoodCalls, SpeaksFor
  <2>6. ASSUME ~robbed PROVE LeaseInv'
    <3>1. HolderOwns /\ PromiseKept /\ ReleasedStaysGone
      BY <2>6 DEF IInv, LeaseInv
    <3>2. /\ pc'[c] = "write" /\ found'[c] = lease
          /\ \A d \in Caller \ {c} : pc'[d] = pc[d] /\ found'[d] = found[d]
      BY <1>1, <2>1 DEF Types
    <3>3. HolderOwns'
      BY <1>2, <2>1, <3>1, <3>2 DEF HolderOwns, Inside, Refused, Live
    <3>4. PromiseKept'
      BY <1>2, <2>1, <3>1, <3>2 DEF PromiseKept, Holds
    <3> QED BY <1>2, <3>1, <3>3, <3>4 DEF LeaseInv, ReleasedStaysGone
  <2> QED BY <1>1, <1>2, <2>3, <2>5, <2>6 DEF IInv
<1>4. CASE ReadRefused(c)
  <2>1. /\ pc[c] = "body" /\ pc' = [pc EXCEPT ![c] = "unlock"] /\ found' = found
        /\ op' = [op EXCEPT ![c] = [op[c] EXCEPT !.kind = "none"]]
        /\ told' = IF op[c].kind = "renew" THEN [told EXCEPT ![op[c].token] = 0] ELSE told
    BY <1>1, <1>4 DEF ReadRefused, At, Types
  <2>2. /\ pc'[c] = "unlock" /\ op'[c].kind = "none" /\ op'[c].at = op[c].at
        /\ \A d \in Caller \ {c} : pc'[d] = pc[d] /\ op'[d] = op[d]
    BY <1>1, <2>1 DEF Types, Ops
  <2>3. op[c].kind = "renew" => op[c].token \in Token /\ told'[op[c].token] = 0
    BY <1>1, <2>1 DEF GoodCalls, Types
  <2>4. \A t \in Token : told'[t] = told[t] \/ told'[t] = 0
    BY <1>1, <2>1 DEF Types
  <2>5. Types'
    <3>1. pc' \in [Caller -> PCs]
      BY <1>1, <2>1 DEF Types, PCs
    <3>2. [op[c] EXCEPT !.kind = "none"] \in Ops
      BY <1>1 DEF Types, Ops
    <3>3. op' \in [Caller -> Ops] /\ told' \in [Token -> Nat]
      BY <1>1, <2>1, <3>2 DEF Types
    <3> QED BY <1>1, <1>2, <2>1, <3>1, <3>3 DEF Types
  <2>6. GoodCalls'
    <3>1. \A d \in Caller :
            /\ pc'[d] = "idle" => op'[d] = NoOp
            /\ pc'[d] \in PCs \ {"idle", "unlock"} => op'[d].kind \in Kinds
            /\ op'[d].at <= now
      BY <1>1, <2>2 DEF GoodCalls
    <3>2. \A d \in Caller : op'[d].kind # "none" => d # c /\ op'[d] = op[d]
      BY <2>2
    <3>3. \A d \in Caller : op'[d].kind \in {"acquire", "renew", "release"} =>
            op'[d].token \in Token /\ home[op'[d].token] = proc[d]
      BY <1>1, <3>2 DEF GoodCalls
    <3>4. \A d, e \in Caller : op'[d].kind = "acquire" /\ d # e =>
            ~(op'[e].token = op'[d].token /\ op'[e].kind \in {"acquire", "renew", "release"})
      BY <1>1, <3>2 DEF GoodCalls, SpeaksFor
    <3>5. \A d \in Caller : op'[d].kind = "acquire" =>
            told'[op'[d].token] = 0 /\ op'[d].token \notin released
      BY <1>1, <2>4, <3>2, <3>3 DEF GoodCalls
    <3>6. \A t \in Token : home[t] = {} => told'[t] = 0 /\ t \notin released
      BY <1>1, <2>4 DEF GoodCalls
    <3> QED BY <1>2, <3>1, <3>3, <3>4, <3>5, <3>6 DEF GoodCalls, SpeaksFor
  <2>7. ASSUME ~robbed PROVE LeaseInv'
    <3>1. HolderOwns /\ PromiseKept /\ ReleasedStaysGone
      BY <2>7 DEF IInv, LeaseInv
    <3>2. HolderOwns'
      BY <1>2, <2>1, <2>2, <3>1 DEF HolderOwns, Inside, Refused, Live
    <3>3. PromiseKept'
      <4> SUFFICES ASSUME NEW t \in Token, Holds(t)'
                   PROVE  \/ lease.owner = t /\ told'[t] <= lease.until
                          \/ \E d \in Caller : /\ pc'[d] = "unlock" /\ op'[d].token = t
                                               /\ op'[d].kind \in {"renew", "release"}
        BY <1>2 DEF PromiseKept
      <4>1. told'[t] = told[t]
        BY <1>1, <1>2, <2>4 DEF Holds, Types
      <4>2. Holds(t)
        BY <1>2, <4>1 DEF Holds
      <4> QED BY <2>1, <2>2, <3>1, <4>1, <4>2 DEF PromiseKept
    <3> QED BY <1>2, <3>1, <3>2, <3>3 DEF LeaseInv, ReleasedStaysGone
  <2> QED BY <1>1, <1>2, <2>5, <2>6, <2>7 DEF IInv
<1> QED BY <1>3, <1>4

\* The record is written.  While nobody was robbed it still is what the call
\* read, so that an acquire or a reaper finds no promise in it that runs, and
\* a renewal or release the promise of its own token.
LEMMA WriteKeeps ==
  ASSUME IInv, NEW c \in Caller, Write(c)
  PROVE  IInv'
<1>1. Types /\ GoodCalls /\ (mutex = {} <=> maker = {})
  BY DEF IInv
<1>2. /\ pc[c] = "write" /\ pc' = [pc EXCEPT ![c] = "unlock"] /\ lease' = Written(op[c], found[c])
      /\ UNCHANGED <<leader, now, op, found, told, home, released, proc, tries, mutex, dead,
                     maker, robbed>>
  BY DEF Write, At
<1>3. op[c].kind \in Kinds /\ op[c] \in Ops /\ found[c] \in Records
  BY <1>1, <1>2 DEF GoodCalls, PCs, Types
<1>4. /\ op[c].kind = "acquire" => lease' = [owner |-> op[c].token, until |-> op[c].at + LeaseMs]
      /\ op[c].kind = "renew" => lease' = [owner |-> found[c].owner, until |-> op[c].at + LeaseMs]
      /\ op[c].kind \in {"release", "reap"} => lease' = NoLease
  BY <1>2, <1>3, WhatIsWritten
<1>5. pc'[c] = "unlock" /\ \A d \in Caller \ {c} : pc'[d] = pc[d]
  BY <1>1, <1>2 DEF Types
<1>6. Types'
  <2>1. op[c].at + LeaseMs \in Nat /\ NoLease \in Records
    BY <1>3, LeaseAssumption DEF Ops, NoLease, Records
  <2>2. lease' \in Records
    BY <1>3, <1>4, <2>1 DEF Records, Kinds, Ops
  <2>3. pc' \in [Caller -> PCs]
    BY <1>1, <1>2 DEF Types, PCs
  <2> QED BY <1>1, <1>2, <2>2, <2>3 DEF Types
<1>7. GoodCalls'
  BY <1>1, <1>2, <1>3, <1>5 DEF GoodCalls, SpeaksFor
<1>8. ASSUME ~robbed PROVE LeaseInv'
  <2>1. HolderOwns /\ PromiseKept /\ ReleasedStaysGone
    BY <1>8 DEF IInv, LeaseInv
  <2>2. found[c] = lease /\ ~Refused(op[c], lease) /\ maker = {c}
    BY <1>2, <2>1 DEF HolderOwns, Inside
  <2>3. /\ op[c].kind = "acquire" => ~Live(lease) \/ ~(lease.until > op[c].at)
        /\ op[c].kind \in {"renew", "release"} => lease.owner = op[c].token
        /\ op[c].kind = "reap" => ~(lease.until > op[c].at)
    BY <1>3, <2>2, NotRefused
  <2>4. \A d \in Caller \ {c} : ~Inside(d)
    BY <2>1, <2>2 DEF HolderOwns
  <2>5. HolderOwns'
    <3>1. \A d \in Caller : Inside(d)' => d = c
      BY <1>5, <2>4 DEF Inside
    <3>2. \A d \in Caller : pc'[d] \in {"write", "unlock"} => d = c
      BY <3>1 DEF Inside
    <3>3. op[c].kind \in {"acquire", "renew"} =>
            lease' = [owner |-> op[c].token, until |-> op[c].at + LeaseMs]
      BY <1>4, <2>2, <2>3
    <3> QED BY <1>1, <1>2, <1>4, <1>5, <2>2, <3>1, <3>2, <3>3 DEF HolderOwns
  <2>6. PromiseKept'
    <3> SUFFICES ASSUME NEW t \in Token, Holds(t)
                 PROVE  \/ lease'.owner = t /\ told[t] <= lease'.until
                        \/ \E d \in Caller : /\ pc'[d] = "unlock" /\ op[d].token = t
                                             /\ op[d].kind \in {"renew", "release"}
      BY <1>2 DEF PromiseKept, Holds
    <3>1. lease.owner = t /\ told[t] <= lease.until
      BY <1>2, <2>1, <2>4 DEF PromiseKept, Inside
    <3>2. lease.until > op[c].at
      <4>1. told[t] \in Nat /\ now \in Nat /\ lease.until \in Nat /\ op[c].at \in Nat
        BY <1>1, <1>3 DEF Types, Records, Ops
      <4>2. op[c].at <= now /\ told[t] > now
        BY <1>1 DEF GoodCalls, Holds
      <4> QED BY <3>1, <4>1, <4>2
    <3>3. Live(lease)
      BY <3>1, LeaseAssumption DEF Live, Holds
    <3>4. op[c].kind \in {"renew", "release"} /\ op[c].token = t
      BY <1>3, <2>3, <3>1, <3>2, <3>3 DEF Kinds
    <3> QED BY <1>5, <3>4
  <2>7. ReleasedStaysGone'
    <3>1. CASE op[c].kind = "acquire"
      BY <1>1, <1>2, <1>4, <3>1 DEF GoodCalls, ReleasedStaysGone
    <3>2. CASE op[c].kind = "renew"
      BY <1>2, <1>4, <2>1, <2>2, <3>2 DEF ReleasedStaysGone
    <3>3. CASE op[c].kind \in {"release", "reap"}
      BY <1>1, <1>2, <1>4, <3>3, LeaseAssumption DEF ReleasedStaysGone, NoLease, Types
    <3> QED BY <1>3, <3>1, <3>2, <3>3 DEF Kinds
  <2> QED BY <2>5, <2>6, <2>7 DEF LeaseInv
<1> QED BY <1>1, <1>2, <1>6, <1>7, <1>8 DEF IInv

\* The mutex is given back and the answer becomes the promise: what was written
\* is what is answered.
LEMMA ReturnKeeps ==
  ASSUME IInv, NEW c \in Caller, Return(c)
  PROVE  IInv'
<1>1. Types /\ GoodCalls /\ (mutex = {} <=> maker = {})
  BY DEF IInv
<1>2. /\ pc[c] = "unlock" /\ pc' = [pc EXCEPT ![c] = "idle"] /\ proc' = [proc EXCEPT ![c] = {}]
      /\ op' = [op EXCEPT ![c] = NoOp] /\ found' = [found EXCEPT ![c] = NoLease]
      /\ mutex' = {} /\ maker' = {}
      /\ robbed' = (robbed \/ \E d \in maker \ {c} : Inside(d))
      /\ UNCHANGED <<leader, now, lease, home, tries, dead>>
  BY DEF Return, Unlock, RemoveDir, At, Leave
<1>3. /\ op[c].kind \in {"acquire", "renew"} =>
           told' = [told EXCEPT ![op[c].token] = op[c].at + LeaseMs] /\ released' = released
      /\ op[c].kind = "release" =>
           told' = [told EXCEPT ![op[c].token] = 0] /\ released' = released \cup {op[c].token}
      /\ op[c].kind \notin {"acquire", "renew", "release"} => told' = told /\ released' = released
  BY DEF Return
<1>4. /\ pc'[c] = "idle" /\ op'[c] = NoOp
      /\ \A d \in Caller \ {c} : pc'[d] = pc[d] /\ op'[d] = op[d] /\ proc'[d] = proc[d]
  BY <1>1, <1>2 DEF Types
<1>5. op[c].at + LeaseMs \in Nat /\ op[c] \in Ops
  BY <1>1, LeaseAssumption DEF Types, Ops
<1>6. op[c].kind \in {"acquire", "renew", "release"} =>
        op[c].token \in Token /\ home[op[c].token] = proc[c]
  BY <1>1 DEF GoodCalls
<1>7. PICK p \in Proc \ dead : proc[c] = {p}
  BY <1>1, <1>2 DEF Types
<1>8. \A t \in Token : ~SpeaksFor(c, t) => told'[t] = told[t] /\ (t \in released' <=> t \in released)
  BY <1>1, <1>3, <1>6 DEF Types, SpeaksFor
<1>9. Types'
  <2>1. NoOp \in Ops /\ NoLease \in Records
    BY LeaseAssumption DEF NoOp, NoLease, Ops, Records
  <2>2. pc' \in [Caller -> PCs] /\ proc' \in [Caller -> SUBSET Proc] /\ op' \in [Caller -> Ops]
        /\ found' \in [Caller -> Records]
    BY <1>1, <1>2, <2>1 DEF Types, PCs
  <2>3. told' \in [Token -> Nat] /\ released' \in SUBSET Token
    BY <1>1, <1>3, <1>5, <1>6 DEF Types
  <2>4. \A d \in Caller : pc'[d] # "idle" => \E q \in Proc \ dead : proc'[d] = {q}
    BY <1>1, <1>4 DEF Types
  <2>5. robbed' \in BOOLEAN
    BY <1>1, <1>2 DEF Types
  <2> QED BY <1>1, <1>2, <2>2, <2>3, <2>4, <2>5 DEF Types
<1>10. GoodCalls'
  <2>1. \A d \in Caller : op'[d].kind # "none" => d # c /\ op'[d] = op[d] /\ proc'[d] = proc[d]
    BY <1>4 DEF NoOp
  <2>2. \A d \in Caller :
          /\ pc'[d] = "idle" => op'[d] = NoOp
          /\ pc'[d] \in PCs \ {"idle", "unlock"} => op'[d].kind \in Kinds
          /\ op'[d].at <= now
    <3>1. NoOp.at <= now
      BY <1>1, LeaseAssumption DEF NoOp, Types
    <3> QED BY <1>1, <1>4, <3>1 DEF GoodCalls
  <2>3. \A d \in Caller : op'[d].kind \in {"acquire", "renew", "release"} =>
          op'[d].token \in Token /\ home[op'[d].token] = proc'[d]
    BY <1>1, <2>1 DEF GoodCalls
  <2>4. \A d, e \in Caller : op'[d].kind = "acquire" /\ d # e =>
          ~(op'[e].token = op'[d].token /\ op'[e].kind \in {"acquire", "renew", "release"})
    BY <1>1, <2>1 DEF GoodCalls, SpeaksFor
  <2>5. ASSUME NEW d \in Caller, op'[d].kind = "acquire"
        PROVE  told'[op'[d].token] = 0 /\ op'[d].token \notin released'
    <3>1. d # c /\ op'[d] = op[d] /\ op[d].token \in Token
      BY <1>1, <2>1, <2>5 DEF GoodCalls
    <3>2. told[op[d].token] = 0 /\ op[d].token \notin released /\ ~SpeaksFor(c, op[d].token)
      BY <1>1, <2>5, <3>1 DEF GoodCalls
    <3> QED BY <1>8, <3>1, <3>2
  <2>6. \A t \in Token : home[t] = {} => told'[t] = 0 /\ t \notin released'
    <3>1. \A t \in Token : home[t] = {} => ~SpeaksFor(c, t)
      BY <1>6, <1>7 DEF SpeaksFor
    <3> QED BY <1>1, <1>8, <3>1 DEF GoodCalls
  <2> QED BY <1>2, <2>2, <2>3, <2>4, <2>5, <2>6 DEF GoodCalls, SpeaksFor
<1>11. ASSUME ~robbed' PROVE LeaseInv'
  <2>1. ~robbed /\ HolderOwns /\ PromiseKept /\ ReleasedStaysGone
    BY <1>1, <1>2, <1>11 DEF IInv, LeaseInv, Types
  <2>2. \A d \in Caller \ {c} : ~Inside(d)
    BY <1>2, <2>1 DEF HolderOwns, Inside
  <2>3. \A d \in Caller : pc'[d] \notin {"pid", "body", "write", "unlock"}
    BY <1>4, <2>2 DEF Inside
  <2>4. HolderOwns'
    BY <1>2, <2>3 DEF HolderOwns, Inside
  <2>5. PromiseKept'
    <3> SUFFICES ASSUME NEW t \in Token, Holds(t)'
                 PROVE  lease.owner = t /\ told'[t] <= lease.until
      BY <1>2 DEF PromiseKept
    <3>1. CASE SpeaksFor(c, t)
      <4>1. op[c].kind # "release"
        BY <1>1, <1>2, <1>3, <3>1 DEF SpeaksFor, Holds, Types
      <4>2. op[c].kind \in {"acquire", "renew"} /\ op[c].token = t
        BY <3>1, <4>1 DEF SpeaksFor
      <4>3. told'[t] = op[c].at + LeaseMs
        BY <1>1, <1>3, <4>2 DEF Types
      <4>4. lease = [owner |-> t, until |-> op[c].at + LeaseMs]
        BY <1>2, <2>1, <4>2 DEF HolderOwns
      <4> QED BY <1>5, <4>3, <4>4
    <3>2. CASE ~SpeaksFor(c, t)
      <4>1. told'[t] = told[t] /\ Holds(t)
        BY <1>2, <1>8, <3>2 DEF Holds
      <4>2. \A d \in Caller : pc[d] = "unlock" => d = c
        BY <2>2 DEF Inside
      <4> QED BY <2>1, <3>2, <4>1, <4>2 DEF PromiseKept, SpeaksFor
    <3> QED BY <3>1, <3>2
  <2>6. ReleasedStaysGone'
    <3>1. CASE op[c].kind = "release"
      <4>1. lease = NoLease
        BY <1>2, <2>1, <3>1 DEF HolderOwns
      <4> QED BY <1>2, <1>9, <4>1, LeaseAssumption DEF ReleasedStaysGone, NoLease, Types
    <3>2. CASE op[c].kind # "release"
      BY <1>2, <1>3, <2>1, <3>2 DEF ReleasedStaysGone
    <3> QED BY <3>1, <3>2
  <2> QED BY <2>4, <2>5, <2>6 DEF LeaseInv
<1> QED BY <1>2, <1>9, <1>10, <1>11 DEF IInv

\* A death ends the calls of a process and the promises made to it; a call that
\* found the record free to take still does.
LEMMA CrashKeeps ==
  ASSUME IInv, NEW p \in Proc, Crash(p)
  PROVE  IInv'
<1>1. Types /\ GoodCalls /\ (mutex = {} <=> maker = {})
  BY DEF IInv
<1>2. /\ dead' = dead \cup {p}
      /\ UNCHANGED <<leader, now, lease, told, home, released, mutex, maker, robbed>>
  BY DEF Crash, Die
<1>3. /\ pc' = [c \in Caller |-> IF proc[c] = {p} THEN "idle" ELSE pc[c]]
      /\ proc' = [c \in Caller |-> proc[c] \ {p}]
      /\ tries' = [c \in Caller |-> IF proc[c] = {p} THEN 0 ELSE tries[c]]
      /\ op' = [c \in Caller |-> IF proc[c] = {p} THEN NoOp ELSE op[c]]
      /\ found' = [c \in Caller |-> IF proc[c] = {p} THEN NoLease ELSE found[c]]
  BY DEF Crash, Die
<1>4. \A c \in Caller : proc[c] = {p} => pc'[c] = "idle" /\ op'[c] = NoOp
  BY <1>3
<1>5. \A c \in Caller : proc[c] # {p} =>
        pc'[c] = pc[c] /\ op'[c] = op[c] /\ found'[c] = found[c]
  BY <1>3
<1>6. ASSUME NEW c \in Caller, pc[c] # "idle", proc[c] # {p}
      PROVE  proc'[c] = proc[c] /\ \E q \in Proc \ dead' : proc[c] = {q}
  <2>1. PICK q \in Proc \ dead : proc[c] = {q}
    BY <1>1, <1>6 DEF Types
  <2> QED BY <1>2, <1>3, <1>6, <2>1
<1>7. \A c \in Caller : op'[c].kind # "none" =>
        proc[c] # {p} /\ pc[c] # "idle" /\ op'[c] = op[c] /\ proc'[c] = proc[c]
  BY <1>1, <1>4, <1>5, <1>6 DEF GoodCalls, NoOp
<1>8. Types'
  <2>1. NoOp \in Ops /\ NoLease \in Records /\ 0 \in 0..MaxTries
    BY LeaseAssumption, MutexAssumption DEF NoOp, NoLease, Ops, Records
  <2>2. pc' \in [Caller -> PCs] /\ tries' \in [Caller -> 0..MaxTries] /\ proc' \in [Caller -> SUBSET Proc]
    BY <1>1, <1>3, <2>1 DEF Types, PCs
  <2>3. op' \in [Caller -> Ops] /\ found' \in [Caller -> Records]
    BY <1>1, <1>3, <2>1 DEF Types
  <2>4. \A c \in Caller : pc'[c] # "idle" => \E q \in Proc \ dead' : proc'[c] = {q}
    BY <1>4, <1>5, <1>6
  <2>5. dead' \in SUBSET Proc
    BY <1>1, <1>2 DEF Types
  <2> QED BY <1>1, <1>2, <2>2, <2>3, <2>4, <2>5 DEF Types
<1>9. GoodCalls'
  <2>1. \A c \in Caller :
          /\ pc'[c] = "idle" => op'[c] = NoOp
          /\ pc'[c] \in PCs \ {"idle", "unlock"} => op'[c].kind \in Kinds
          /\ op'[c].at <= now
    <3>1. NoOp.at <= now
      BY <1>1, LeaseAssumption DEF NoOp, Types
    <3> QED BY <1>1, <1>4, <1>5, <3>1 DEF GoodCalls
  <2>2. \A c \in Caller : op'[c].kind \in {"acquire", "renew", "release"} =>
          op'[c].token \in Token /\ home[op'[c].token] = proc'[c]
    BY <1>1, <1>7 DEF GoodCalls
  <2>3. \A c, d \in Caller : op'[c].kind = "acquire" /\ c # d =>
          ~(op'[d].token = op'[c].token /\ op'[d].kind \in {"acquire", "renew", "release"})
    BY <1>1, <1>7 DEF GoodCalls, SpeaksFor
  <2>4. \A c \in Caller : op'[c].kind = "acquire" => told[op'[c].token] = 0 /\ op'[c].token \notin released
    BY <1>1, <1>7 DEF GoodCalls
  <2>5. \A t \in Token : home[t] = {} => told[t] = 0 /\ t \notin released
    BY <1>1 DEF GoodCalls
  <2> QED BY <1>2, <2>1, <2>2, <2>3, <2>4, <2>5 DEF GoodCalls, SpeaksFor
<1>10. ASSUME ~robbed PROVE LeaseInv'
  <2>1. HolderOwns /\ PromiseKept /\ ReleasedStaysGone
    BY <1>10 DEF IInv, LeaseInv
  <2>2. \A c \in Caller : pc'[c] # "idle" =>
          pc'[c] = pc[c] /\ op'[c] = op[c] /\ found'[c] = found[c] /\ proc[c] # {p}
    BY <1>4, <1>5
  <2>3. Live(lease)' => Live(lease)
    BY <1>2 DEF Live
  <2>4. HolderOwns'
    <3>1. ASSUME NEW c \in Caller, pc'[c] = "write" PROVE ~Refused(op[c], lease)'
      <4>1. ~Refused(op[c], lease) /\ op[c].kind \in Kinds /\ op'[c] = op[c]
        BY <1>1, <2>1, <2>2, <3>1 DEF HolderOwns, GoodCalls, PCs
      <4> QED BY <1>2, <2>3, <4>1 DEF Refused, Kinds
    <3>2. \A c \in Caller : pc'[c] = "write" => ~Refused(op[c], lease)'
      BY <3>1
    <3> QED BY <1>2, <2>1, <2>2, <3>2 DEF HolderOwns, Inside
  <2>5. PromiseKept'
    <3> SUFFICES ASSUME NEW t \in Token, Holds(t)'
                 PROVE  \/ lease.owner = t /\ told[t] <= lease.until
                        \/ \E c \in Caller : /\ pc'[c] = "unlock" /\ op'[c].token = t
                                             /\ op'[c].kind \in {"renew", "release"}
      BY <1>2 DEF PromiseKept
    <3>1. Holds(t) /\ p \notin home[t]
      BY <1>2 DEF Holds
    <3>2. \A c \in Caller : op[c].token = t /\ op[c].kind \in {"renew", "release"} => proc[c] # {p}
      BY <1>1, <3>1 DEF GoodCalls
    <3> QED BY <1>5, <2>1, <3>1, <3>2 DEF PromiseKept
  <2> QED BY <1>2, <2>1, <2>4, <2>5 DEF LeaseInv, ReleasedStaysGone
<1> QED BY <1>1, <1>2, <1>8, <1>9, <1>10 DEF IInv

\* Time goes on, or nothing happens.
LEMMA IdleKeeps ==
  ASSUME IInv, Tick \/ UNCHANGED vars
  PROVE  IInv'
<1>1. now' \in 0..MaxNow /\ now' >= now
  BY LeaseAssumption DEF IInv, Types, Tick, vars
<1>2. UNCHANGED <<leader, leaseVars, mutexVars>>
  BY DEF Tick, vars
<1>3. Types'
  BY <1>1, <1>2 DEF IInv, Types, leaseVars, mutexVars
<1>4. GoodCalls'
  <2>1. \A c \in Caller : op[c].at <= now'
    BY <1>1 DEF IInv, Types, GoodCalls, Ops
  <2> QED BY <1>2, <2>1 DEF IInv, GoodCalls, SpeaksFor, leaseVars, mutexVars
<1>5. ASSUME ~robbed PROVE LeaseInv'
  <2>1. HolderOwns /\ PromiseKept /\ ReleasedStaysGone
    BY <1>5 DEF IInv, LeaseInv
  <2>2. \A t \in Token : Holds(t)' => Holds(t)
    BY <1>1, <1>2 DEF IInv, Types, Holds, leaseVars, mutexVars
  <2>3. PromiseKept'
    BY <1>2, <2>1, <2>2 DEF PromiseKept, leaseVars, mutexVars
  <2>4. HolderOwns'
    BY <1>2, <2>1 DEF HolderOwns, Inside, Refused, Live, leaseVars, mutexVars
  <2> QED BY <1>2, <2>1, <2>3, <2>4 DEF LeaseInv, ReleasedStaysGone, leaseVars, mutexVars
<1> QED BY <1>2, <1>3, <1>4, <1>5 DEF IInv, mutexVars

\* Every reachable state of the lock satisfies the invariant.
THEOREM Invariance == Spec => []IInv
<1>1. Init => IInv
  BY InitHolds
<1>2. IInv /\ [Next]_vars => IInv'
  <2> SUFFICES ASSUME IInv, [Next]_vars PROVE IInv'
    OBVIOUS
  <2>1. CASE Tick \/ UNCHANGED vars
    BY <2>1, IdleKeeps
  <2>2. ASSUME NEW p \in Proc, Crash(p) PROVE IInv'
    BY <2>2, CrashKeeps
  <2>3. ASSUME NEW c \in Caller, CallerStep(c) PROVE IInv'
    BY <2>3, LockKeeps, ReadKeeps, WriteKeeps, ReturnKeeps DEF CallerStep
  <2>4. ASSUME NEW c \in Caller, NEW p \in Proc, NEW kind \in {"acquire", "renew", "release"},
               NEW t \in Token, Call(c, p, kind, t)
        PROVE  IInv'
    BY <2>4, CallKeeps DEF Kinds
  <2>5. ASSUME NEW c \in Caller, NEW p \in Proc, Call(c, p, "reap", NoToken) PROVE IInv'
    BY <2>5, CallKeeps DEF Kinds
  <2> QED BY <2>1, <2>2, <2>3, <2>4, <2>5 DEF Next
<1> QED BY <1>1, <1>2, PTL DEF Spec

\* The steps, the attempts, the mutex, the record and the promises keep their
\* types (goal-lease-manager.ts, leader-lock-manager.ts).
THEOREM LeaseIsTyped == Spec => []TypeOK
<1>1. IInv => TypeOK
  BY DEF IInv, Types, TypeOK, PCs, Records
<1> QED BY <1>1, Invariance, PTL

\* While no directory was removed under a living call, at most one owner of a
\* living process holds a lease that runs, and a released lease stays gone: for
\* any number of processes and calls, through any deaths, and whether or not
\* the end of a lease is the only way to lose it (goal-lease-manager.ts:61-175,
\* leader-lock-manager.ts:53-140).
THEOREM OneHolderUnlessRobbed == Spec => []SafeUnlessRobbed
<1>1. IInv => SafeUnlessRobbed
  <2> SUFFICES ASSUME IInv, ~robbed PROVE LeaseHeldByOne /\ ReleasedStaysGone
    BY DEF SafeUnlessRobbed
  <2>1. HolderOwns /\ PromiseKept /\ ReleasedStaysGone /\ GoodCalls
    BY DEF IInv, LeaseInv
  <2>2. ASSUME NEW s \in Token, NEW t \in Token, Holds(s), Holds(t) PROVE s = t
    <3>1. \A c \in Caller : pc[c] = "unlock" => maker = {c}
      BY <2>1 DEF HolderOwns, Inside
    <3>2. \A c \in Caller : pc[c] = "unlock" =>
            /\ op[c].kind = "renew" => lease.owner = op[c].token
            /\ op[c].kind = "release" => lease.owner = NoToken
      BY <2>1 DEF HolderOwns, NoLease
    <3> QED BY <2>1, <2>2, <3>1, <3>2, LeaseAssumption DEF PromiseKept
  <2> QED BY <2>1, <2>2 DEF LeaseHeldByOne
<1> QED BY <1>1, Invariance, PTL
=============================================================================
