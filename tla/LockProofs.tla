----------------------------- MODULE LockProofs -----------------------------
(***************************************************************************)
(* Theorems about JournalLock, for every number of processes, stale bound, *)
(* timeout and length of the clock.                                        *)
(***************************************************************************)
EXTENDS JournalLock, TLAPS

\* The lock directory stands exactly when somebody is known to have made it.
MadeBySomeone == dir <=> maker # {}

\* As long as nobody was robbed: whoever is inside made the directory that
\* stands, what it has read is what the journal holds, and no update is lost.
HolderOwns ==
  ~robbed =>
    \A p \in Proc :
      /\ Inside(p) => maker = {p}
      /\ pc[p] = "persist" => loaded[p] = journal
      /\ pc[p] \in {"release", "done"} => p \in journal

IInv == TypeOK /\ MadeBySomeone /\ HolderOwns

\* The invariant holds at the start.
LEMMA InitHolds == Init => IInv
<1> SUFFICES ASSUME Init PROVE IInv
  OBVIOUS
<1>1. TypeOK
  <2>1. 0 \in 0..MaxNow
    BY TimesAssumption
  <2>2. now \in 0..MaxNow /\ started \in [Proc -> 0..MaxNow]
    BY <2>1 DEF Init
  <2>3. loaded \in [Proc -> SUBSET Proc] /\ journal \in SUBSET Proc /\ maker \in SUBSET Proc
    BY DEF Init
  <2>4. pc \in [Proc -> {"idle"}] /\ owner = {} /\ dir \in BOOLEAN /\ robbed \in BOOLEAN
    BY DEF Init
  <2> QED BY <2>2, <2>3, <2>4 DEF TypeOK
<1>2. MadeBySomeone
  BY DEF Init, MadeBySomeone
<1>3. HolderOwns
  BY DEF Init, HolderOwns, Inside
<1> QED BY <1>1, <1>2, <1>3 DEF IInv

\* Steps that touch neither the directory nor the journal, of a process that
\* is not inside afterwards.
LEMMA OutsideStep ==
  ASSUME IInv, NEW p \in Proc,
         NEW there \in {"idle", "mkdir", "check", "steal", "dead"},
         pc' = [pc EXCEPT ![p] = there],
         started' \in [Proc -> 0..MaxNow],
         UNCHANGED <<now, journal, loaded, lockVars>>
  PROVE  IInv'
<1>1. TypeOK'
  BY DEF IInv, TypeOK, lockVars
<1>2. MadeBySomeone'
  BY DEF IInv, MadeBySomeone, lockVars
<1>3. HolderOwns'
  BY DEF IInv, TypeOK, HolderOwns, Inside, lockVars
<1> QED BY <1>1, <1>2, <1>3 DEF IInv

\* mkdirSync made the directory: nobody is inside, or somebody was robbed.
LEMMA MkdirKeeps == ASSUME IInv, NEW p \in Proc, Mkdir(p) PROVE IInv'
<1>1. TypeOK'
  BY DEF IInv, TypeOK, Mkdir, MakeDir, At, Goto
<1>2. MadeBySomeone'
  BY DEF Mkdir, MakeDir, MadeBySomeone
<1>3. HolderOwns'
  BY DEF IInv, TypeOK, MadeBySomeone, HolderOwns, Inside, Mkdir, MakeDir, At, Goto
<1> QED BY <1>1, <1>2, <1>3 DEF IInv

\* Making the directory again needs it to be gone, which is a robbery.
LEMMA EnsureOwnerDirKeeps == ASSUME IInv, NEW p \in Proc, EnsureOwnerDir(p) PROVE IInv'
<1>1. TypeOK'
  BY DEF IInv, TypeOK, EnsureOwnerDir, MakeDir, At, Goto, lockVars
<1>2. MadeBySomeone'
  BY DEF IInv, EnsureOwnerDir, MakeDir, MadeBySomeone, lockVars
<1>3. HolderOwns'
  BY DEF IInv, TypeOK, MadeBySomeone, HolderOwns, Inside, EnsureOwnerDir, MakeDir, At, Goto, lockVars
<1> QED BY <1>1, <1>2, <1>3 DEF IInv

LEMMA PutOwnerKeeps == ASSUME IInv, NEW p \in Proc, PutOwner(p) PROVE IInv'
<1>1. TypeOK'
  BY DEF IInv, TypeOK, PutOwner, At, Goto
<1>2. MadeBySomeone'
  BY DEF IInv, PutOwner, MadeBySomeone
<1>3. HolderOwns'
  BY DEF IInv, TypeOK, HolderOwns, Inside, PutOwner, At, Goto
<1> QED BY <1>1, <1>2, <1>3 DEF IInv

\* A contender's removal leaves nobody inside, or robs somebody.
LEMMA StealKeeps == ASSUME IInv, NEW p \in Proc, Steal(p) PROVE IInv'
<1>1. TypeOK'
  BY DEF IInv, TypeOK, Steal, RemoveDir, At, Goto
<1>2. MadeBySomeone'
  BY DEF Steal, RemoveDir, MadeBySomeone
<1>3. HolderOwns'
  BY DEF IInv, TypeOK, HolderOwns, Inside, Steal, RemoveDir, At, Goto
<1> QED BY <1>1, <1>2, <1>3 DEF IInv

LEMMA LoadKeeps == ASSUME IInv, NEW p \in Proc, Load(p) PROVE IInv'
<1>1. TypeOK'
  BY DEF IInv, TypeOK, Load, At, Goto, lockVars
<1>2. MadeBySomeone'
  BY DEF IInv, Load, MadeBySomeone, lockVars
<1>3. HolderOwns'
  BY DEF IInv, TypeOK, HolderOwns, Inside, Load, At, Goto, lockVars
<1> QED BY <1>1, <1>2, <1>3 DEF IInv

\* What is written back is the journal as it stands, and one operation more;
\* nobody else is inside.
LEMMA PersistKeeps == ASSUME IInv, NEW p \in Proc, Persist(p) PROVE IInv'
<1>1. TypeOK'
  BY DEF IInv, TypeOK, Persist, At, Goto, lockVars
<1>2. MadeBySomeone'
  BY DEF IInv, Persist, MadeBySomeone, lockVars
<1>3. HolderOwns'
  BY DEF IInv, TypeOK, HolderOwns, Inside, Persist, At, Goto, lockVars
<1> QED BY <1>1, <1>2, <1>3 DEF IInv

LEMMA ReleaseKeeps == ASSUME IInv, NEW p \in Proc, Release(p) PROVE IInv'
<1>1. TypeOK'
  BY DEF IInv, TypeOK, Release, RemoveDir, At, Goto
<1>2. MadeBySomeone'
  BY DEF Release, RemoveDir, MadeBySomeone
<1>3. HolderOwns'
  BY DEF IInv, TypeOK, HolderOwns, Inside, Release, RemoveDir, At, Goto
<1> QED BY <1>1, <1>2, <1>3 DEF IInv

\* Every step keeps the invariant.
LEMMA NextKeeps == IInv /\ [Next]_vars => IInv'
<1> SUFFICES ASSUME IInv, [Next]_vars PROVE IInv'
  OBVIOUS
<1>1. ASSUME NEW p \in Proc, Step(p) PROVE IInv'
  <2> USE <1>1
  <2>0. started \in [Proc -> 0..MaxNow] /\ now \in 0..MaxNow
    BY DEF IInv, TypeOK
  <2>1. CASE Start(p)
    <3>1. started' \in [Proc -> 0..MaxNow]
      BY <2>0, <2>1 DEF Start
    <3> QED BY <2>1, <3>1, OutsideStep DEF Start, At, Goto
  <2>2. CASE Mkdir(p)
    BY <2>2, MkdirKeeps
  <2>3. CASE Exists(p)
    BY <2>0, <2>3, OutsideStep DEF Exists, At, Goto
  <2>4. CASE EnsureOwnerDir(p)
    BY <2>4, EnsureOwnerDirKeeps
  <2>5. CASE PutOwner(p)
    BY <2>5, PutOwnerKeeps
  <2>6. CASE PutFails(p)
    BY <2>0, <2>6, OutsideStep DEF PutFails, At, Goto
  <2>7. CASE SeeTakeable(p)
    BY <2>0, <2>7, OutsideStep DEF SeeTakeable, At, Goto
  <2>8. CASE SeeHeld(p)
    <3> DEFINE there == IF now - started[p] > Timeout THEN "idle" ELSE "mkdir"
    <3>1. there \in {"idle", "mkdir", "check", "steal", "dead"}
      OBVIOUS
    <3>2. pc' = [pc EXCEPT ![p] = there] /\ started' = started
          /\ UNCHANGED <<now, journal, loaded, lockVars>>
      BY <2>8 DEF SeeHeld, At, Goto
    <3> HIDE DEF there
    <3> QED BY <2>0, <3>1, <3>2, OutsideStep
  <2>9. CASE Steal(p)
    BY <2>9, StealKeeps
  <2>10. CASE Load(p)
    BY <2>10, LoadKeeps
  <2>11. CASE Persist(p)
    BY <2>11, PersistKeeps
  <2>12. CASE Release(p)
    BY <2>12, ReleaseKeeps
  <2> QED BY <2>1, <2>2, <2>3, <2>4, <2>5, <2>6, <2>7, <2>8, <2>9, <2>10, <2>11, <2>12 DEF Step
<1>2. ASSUME NEW p \in Proc, Crash(p) PROVE IInv'
  <2>1. started \in [Proc -> 0..MaxNow]
    BY DEF IInv, TypeOK
  <2> QED BY <1>2, <2>1, OutsideStep DEF Crash, Goto
<1>3. CASE Tick
  BY <1>3, TimesAssumption
  DEF Tick, IInv, TypeOK, MadeBySomeone, HolderOwns, Inside, lockVars
<1>4. CASE UNCHANGED vars
  BY <1>4 DEF vars, lockVars, IInv, TypeOK, MadeBySomeone, HolderOwns, Inside
<1> QED BY <1>1, <1>2, <1>3, <1>4 DEF Next

\* Every reachable state has the invariant.
THEOREM Invariance == Spec => []IInv
<1>1. Init => IInv
  BY InitHolds
<1>2. IInv /\ [Next]_vars => IInv'
  BY NextKeeps
<1> QED BY <1>1, <1>2, PTL DEF Spec

\* Every variable of the lock keeps its type, the times their bound.
THEOREM LockIsTyped == Spec => []TypeOK
<1>1. IInv => TypeOK
  BY DEF IInv
<1> QED BY <1>1, Invariance, PTL

\* An update of the journal is lost, or two processes are between load and
\* persist, only after the directory of a live holder was removed under it.
THEOREM UpdatesNeedRobbery == Spec => []LossNeedsRobbery
<1>1. IInv => LossNeedsRobbery
  BY DEF IInv, HolderOwns, LossNeedsRobbery, OneInside, NoLostUpdate, Inside
<1> QED BY <1>1, Invariance, PTL
=============================================================================
