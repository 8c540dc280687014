------------------------------ MODULE GoalLease ------------------------------
(***************************************************************************)
(* The execution lease of one goal (runtime/goal-lease-manager.ts), or the *)
(* lock of the leading daemon (runtime/leader-lock-manager.ts): a record   *)
(* file naming an owner token and an end, read and written between the     *)
(* steps of PidMutex.  acquire, renew, release and reapStale take the time *)
(* when they are called, before they wait for the mutex.  The two differ   *)
(* in acquire: the leader's lock can be taken from a process that is dead  *)
(* before the lease ends.                                                  *)
(***************************************************************************)
EXTENDS PidMutex

CONSTANTS
  Token,    \* owner tokens; the supervisor uses the claim token of a dispatch
  NoToken,
  LeaseMs,  \* duration of a lease
  MaxNow    \* bound on the clock

ASSUME LeaseAssumption == LeaseMs \in Nat \ {0} /\ MaxNow \in Nat /\ NoToken \notin Token

VARIABLES
  leader,    \* whether this is the leader's lock; it never changes
  now,       \* Date.now()
  lease,     \* the record file: owner and until; owner NoToken when there is none
  op,        \* what each caller is at: kind, token, and the time it was called
  found,     \* the record its call read
  told,      \* history: until when the owner of a token last heard it holds the lease
  home,      \* history: the process that tried to acquire with each token
  released   \* history: tokens whose release answered true

leaseVars == <<lease, op, found, told, home, released>>
vars == <<leader, now, leaseVars, mutexVars>>

NoLease == [owner |-> NoToken, until |-> 0]
NoOp == [kind |-> "none", token |-> NoToken, at |-> 0]

Init ==
  /\ MutexInit
  /\ leader \in BOOLEAN
  /\ now = 0
  /\ lease = NoLease
  /\ op = [c \in Caller |-> NoOp]
  /\ found = [c \in Caller |-> NoLease]
  /\ told = [t \in Token |-> 0]
  /\ home = [t \in Token |-> {}]
  /\ released = {}

\* A token is used for one acquire, and only its process renews or releases it.
MayCall(p, kind, t) ==
  CASE kind = "acquire" -> home[t] = {}
    [] kind = "reap" -> TRUE
    [] OTHER -> home[t] = {p} /\ told[t] > 0

Call(c, p, kind, t) ==
  /\ MayCall(p, kind, t)
  /\ Enter(c, p)
  /\ op' = [op EXCEPT ![c] = [kind |-> kind, token |-> t, at |-> now]]
  /\ home' = IF kind = "acquire" THEN [home EXCEPT ![t] = {p}] ELSE home
  /\ UNCHANGED <<leader, now, lease, found, told, released>>

\* Whether the holder named by r keeps a new one out: the leader's lock asks
\* besides whether the process of the record is alive.
Live(r) == r.owner # NoToken /\ (leader => home[r.owner] \cap dead = {})

\* What the call decides on the record r it read.
Refused(o, r) ==
  CASE o.kind = "acquire" -> Live(r) /\ r.until > o.at
    [] o.kind = "renew"   -> r.owner # o.token \/ r.until <= o.at
    [] o.kind = "release" -> r.owner # o.token
    [] o.kind = "reap"    -> r.owner = NoToken \/ r.until > o.at

\* What it then makes of the record.
Written(o, r) ==
  CASE o.kind = "acquire" -> [owner |-> o.token, until |-> o.at + LeaseMs]
    [] o.kind = "renew"   -> [owner |-> r.owner, until |-> o.at + LeaseMs]
    [] OTHER              -> NoLease

\* readRaw
Read(c) ==
  /\ At(c, "body", "write")
  /\ ~Refused(op[c], lease)
  /\ found' = [found EXCEPT ![c] = lease]
  /\ UNCHANGED <<leader, now, lease, op, told, home, released, proc, tries, mutex, dead, maker, robbed>>

\* readRaw, and the answer is null or false: a renewal learns it lost the lease.
ReadRefused(c) ==
  /\ At(c, "body", "unlock")
  /\ Refused(op[c], lease)
  /\ told' = IF op[c].kind = "renew" THEN [told EXCEPT ![op[c].token] = 0] ELSE told
  /\ op' = [op EXCEPT ![c].kind = "none"]
  /\ UNCHANGED <<leader, now, lease, found, home, released, proc, tries, mutex, dead, maker, robbed>>

\* writeJsonFileAtomic, or rm of the record.
Write(c) ==
  /\ At(c, "write", "unlock")
  /\ lease' = Written(op[c], found[c])
  /\ UNCHANGED <<leader, now, op, found, told, home, released, proc, tries, mutex, dead, maker, robbed>>

\* The mutex is given back and the caller gets its answer.
Return(c) ==
  LET o == op[c] IN
  /\ Unlock(c)
  /\ told' = CASE o.kind \in {"acquire", "renew"} -> [told EXCEPT ![o.token] = o.at + LeaseMs]
               [] o.kind = "release" -> [told EXCEPT ![o.token] = 0]
               [] OTHER -> told
  /\ released' = IF o.kind = "release" THEN released \cup {o.token} ELSE released
  /\ op' = [op EXCEPT ![c] = NoOp]
  /\ found' = [found EXCEPT ![c] = NoLease]
  /\ UNCHANGED <<leader, now, lease, home>>

Crash(p) ==
  /\ Die(p)
  /\ op' = [c \in Caller |-> IF proc[c] = {p} THEN NoOp ELSE op[c]]
  /\ found' = [c \in Caller |-> IF proc[c] = {p} THEN NoLease ELSE found[c]]
  /\ UNCHANGED <<leader, now, lease, told, home, released>>

Tick == now < MaxNow /\ now' = now + 1 /\ UNCHANGED <<leader, leaseVars, mutexVars>>

\* A step of acquireMutex; when it throws, so does the call.
Lock(c) ==
  /\ LockStep(c)
  /\ op' = IF pc'[c] = "idle" THEN [op EXCEPT ![c] = NoOp] ELSE op
  /\ UNCHANGED <<leader, now, lease, found, told, home, released>>

CallerStep(c) == Lock(c) \/ Read(c) \/ ReadRefused(c) \/ Write(c) \/ Return(c)

Next ==
  \/ Tick
  \/ \E p \in Proc : Crash(p)
  \/ \E c \in Caller : CallerStep(c)
  \/ \E c \in Caller, p \in Proc :
       \/ \E kind \in {"acquire", "renew", "release"}, t \in Token : Call(c, p, kind, t)
       \/ Call(c, p, "reap", NoToken)

Spec == Init /\ [][Next]_vars

-----------------------------------------------------------------------------
(* Properties *)

TypeOK ==
  /\ pc \in [Caller -> {"idle", "mkdir", "pid", "check", "clear", "body", "write", "unlock"}]
  /\ tries \in [Caller -> 0..MaxTries]
  /\ mutex \in {{}, Bare} \cup {{p} : p \in Proc}
  /\ lease \in [owner : Token \cup {NoToken}, until : Nat]
  /\ told \in [Token -> Nat]

Holds(t) == told[t] > now /\ home[t] \cap dead = {}

\* While the lease an owner was promised still runs, no other owner of a living
\* process is given one: not through an acquire with an old timestamp, a late
\* write, or a restart.
LeaseHeldByOne == \A s, t \in Token : Holds(s) /\ Holds(t) => s = t

\* Once release answered true for an owner, no late renewal brings its lease
\* back, so the next activation of the goal is not refused by it.
ReleasedStaysGone == lease.owner \notin released

\* Concurrent calls keep both promises, unless the mutex directory was removed
\* under a call that was alive: in the gap before its pid file exists.
SafeUnlessRobbed == ~robbed => LeaseHeldByOne /\ ReleasedStaysGone
=============================================================================
