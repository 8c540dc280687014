---------------------------- MODULE GoalStateProofs ----------------------------
(***************************************************************************)
(* Theorems about GoalState and StateLock, for any processes and any       *)
(* number of writes, compactions and crashes: what the lock of a goal      *)
(* promises, what its write-ahead log is for, and what a replay may undo.  *)
(***************************************************************************)
EXTENDS GoalState, TLAPS

-----------------------------------------------------------------------------
(* The lock *)

LockPlaces ==
  [dir : {"legacy"}, step : {"none", "mkdir", "look", "remove", "again", "pid", "free"}]
    \cup [dir : {"stable"}, step : {"mkdir", "look", "remove", "again", "pid", "held"}]

LockTyped ==
  /\ dir \in [Dirs -> Proc \cup {NoProc, Bare, Dead}]
  /\ at \in [Proc -> LockPlaces]
  /\ needs \in [Proc -> BOOLEAN]
  /\ maker \in Proc \cup {NoProc}
  /\ robbed \in BOOLEAN /\ orphaned \in BOOLEAN

\* p has made the stable directory, as far as it knows, and not yet freed it.
Inside(p) == at[p] \in {Place("stable", "pid"), Place("stable", "held")}

\* The stable directory has a maker while it stands; nobody else is inside,
\* unless somebody was robbed.
MakerInside ==
  /\ dir["stable"] = NoProc <=> maker = NoProc
  /\ ~robbed => \A p \in Proc : Inside(p) => maker = p

\* Only a death lets a directory be judged stale.
DeathFirst ==
  crashes = 0 =>
    /\ ~robbed
    /\ \A d \in Dirs : dir[d] # Dead
    /\ \A p \in Proc : ~AtStep(p, "remove")

\* Only who needs the legacy directory goes to it, but to give it back.
LegacyNeeded ==
  \A p \in Proc : at[p].dir = "legacy" /\ at[p].step \notin {"none", "free"} => needs[p]

\* A legacy directory that names p will be given back.
LegacyOwed ==
  \A p \in Proc : dir["legacy"] = p => needs[p] /\ (Here(p) = "stable" \/ AtStep(p, "free"))

LockInv == LockTyped /\ MakerInside /\ DeathFirst /\ LegacyNeeded /\ LegacyOwed /\ NoLockLeft

\* A step of the lock that is not a death.
LockMoves(p) ==
  \/ \E exists \in BOOLEAN : Ask(p, exists)
  \/ Acquiring(p) \/ FreeStable(p) \/ FreeLegacy(p)

LEMMA PlacesMade ==
  /\ \A s \in {"none", "mkdir", "look", "remove", "again", "pid", "free"} : Place("legacy", s) \in LockPlaces
  /\ \A s \in {"mkdir", "look", "remove", "again", "pid", "held"} : Place("stable", s) \in LockPlaces
BY DEF Place, LockPlaces

\* A process goes to a place: the others stay where they are.
LEMMA Going ==
  ASSUME LockTyped, NEW p \in Proc, NEW d, NEW s, Goes(p, d, s)
  PROVE  /\ at'[p] = Place(d, s) /\ at'[p].dir = d /\ at'[p].step = s
         /\ \A q \in Proc \ {p} : at'[q] = at[q]
BY DEF LockTyped, Goes, Place

LEMMA LockMovesTyped ==
  ASSUME LockAssumption, LockTyped, NEW p \in Proc, LockMoves(p) \/ LockDies(p)
  PROVE  LockTyped'
<1> USE LockAssumption, PlacesMade DEF LockTyped, Goes, Dirs
<1>0. at[p].dir \in Dirs
  BY DEF LockPlaces
<1>1. ASSUME NEW exists \in BOOLEAN, Ask(p, exists) PROVE LockTyped'
  BY <1>1 DEF Ask
<1>2. CASE Mkdir(p)
  BY <1>0, <1>2 DEF Mkdir, Here, WaitOrGiveUp, GivesUp, AtStep, LockPlaces, Place
<1>3. CASE Look(p)
  BY <1>0, <1>3 DEF Look, Here, WaitOrGiveUp, GivesUp, LockPlaces, Place
<1>4. CASE RemoveStale(p)
  BY <1>0, <1>4 DEF RemoveStale, RemovesDir, Here, LockPlaces, Place
<1>5. CASE WritePid(p)
  BY <1>0, <1>5 DEF WritePid, Here, GivesUp
<1>6. CASE PidFails(p)
  BY <1>0, <1>6 DEF PidFails, Here, GivesUp
<1>7. CASE FreeStable(p)
  BY <1>7 DEF FreeStable, RemovesDir
<1>8. CASE FreeLegacy(p)
  BY <1>8 DEF FreeLegacy, RemovesDir
<1>9. CASE LockDies(p)
  BY <1>9 DEF LockDies, Away, AtStep
<1> QED
  BY <1>1, <1>2, <1>3, <1>4, <1>5, <1>6, <1>7, <1>8, <1>9 DEF LockMoves, Acquiring

LEMMA MakerStaysInside ==
  ASSUME LockAssumption, LockTyped, MakerInside, NEW p \in Proc, LockMoves(p) \/ LockDies(p)
  PROVE  MakerInside'
<1> USE LockAssumption DEF LockTyped, MakerInside, Inside
<1>0. /\ at[p].dir \in Dirs
      /\ \A q \in Proc : at[q] = Place(at[q].dir, at[q].step)
  BY DEF LockPlaces, Place, Dirs
<1>a. \A d1, d2, s1, s2 : Place(d1, s1) = Place(d2, s2) => d1 = d2 /\ s1 = s2
  BY DEF Place
<1>b. ASSUME NEW d, NEW s, Goes(p, d, s), s \notin {"pid", "held"},
             dir'["stable"] = NoProc <=> dir["stable"] = NoProc, UNCHANGED <<maker, robbed>>
      PROVE  MakerInside'
  BY <1>a, <1>b, Going
<1>c. ASSUME NEW d \in Dirs, RemovesDir(p, d), NEW s, NEW e, Goes(p, e, s), s \notin {"pid", "held"}
      PROVE  MakerInside'
  <2>1. CASE d = "stable"
    <3>1. dir'["stable"] = NoProc /\ maker' = NoProc
      BY <1>c, <2>1 DEF RemovesDir, Dirs
    <3>2. ASSUME ~robbed', NEW q \in Proc, Inside(q)' PROVE FALSE
      <4>1. q # p /\ at'[q] = at[q]
        BY <1>a, <1>c, <3>2, Going
      <4>2. ~robbed /\ maker = q
        BY <1>c, <2>1, <3>2, <4>1 DEF RemovesDir
      <4>3. at[q].dir = "stable" /\ at[q].step \in {"pid", "held"}
        BY <1>0, <1>a, <3>2, <4>1
      <4> QED
        BY <1>c, <2>1, <3>2, <4>1, <4>2, <4>3 DEF RemovesDir
    <3> QED
      BY <3>1, <3>2
  <2>2. CASE d # "stable"
    BY <1>a, <1>b, <1>c, <2>2, Going DEF RemovesDir, Dirs
  <2> QED
    BY <2>1, <2>2
<1>1. ASSUME NEW exists \in BOOLEAN, Ask(p, exists) PROVE MakerInside'
  BY <1>1, <1>b DEF Ask
<1>2. CASE Mkdir(p)
  <2>1. CASE dir[Here(p)] = NoProc
    <3>1. CASE Here(p) = "stable"
      BY <1>0, <1>2, <1>a, <2>1, <3>1, Going DEF Mkdir, Dirs
    <3>2. CASE Here(p) # "stable"
      BY <1>0, <1>2, <1>a, <2>1, <3>2, Going DEF Mkdir, Dirs, Here
    <3> QED
      BY <3>1, <3>2
  <2>2. CASE dir[Here(p)] # NoProc
    BY <1>2, <1>b, <2>2 DEF Mkdir, WaitOrGiveUp, GivesUp
  <2> QED
    BY <2>1, <2>2
<1>3. CASE Look(p)
  BY <1>3, <1>b DEF Look, WaitOrGiveUp, GivesUp
<1>4. CASE RemoveStale(p)
  BY <1>0, <1>4, <1>c DEF RemoveStale, Here
<1>5. CASE WritePid(p)
  <2>1. dir'["stable"] = NoProc <=> dir["stable"] = NoProc
    BY <1>0, <1>5 DEF WritePid, Here, Dirs
  <2>2. CASE Here(p) = "stable" /\ dir[Here(p)] # NoProc
    <3>1. Goes(p, "stable", "held") /\ Inside(p)
      BY <1>0, <1>5, <2>2 DEF WritePid, Here, AtStep
    <3> QED
      BY <1>5, <1>a, <2>1, <3>1, Going DEF WritePid
  <2>3. CASE ~(Here(p) = "stable" /\ dir[Here(p)] # NoProc)
    BY <1>0, <1>5, <1>b, <2>1, <2>3 DEF WritePid, Here, GivesUp, Dirs
  <2> QED
    BY <2>2, <2>3
<1>6. CASE PidFails(p)
  BY <1>6, <1>b DEF PidFails, GivesUp
<1>7. CASE FreeStable(p)
  BY <1>7, <1>c DEF FreeStable, Dirs
<1>8. CASE FreeLegacy(p)
  BY <1>8, <1>c DEF FreeLegacy, Dirs
<1>9. CASE LockDies(p)
  <2>1. Goes(p, "legacy", "none")
    BY <1>9 DEF LockDies, Away, Goes
  <2> QED
    BY <1>9, <1>b, <2>1 DEF LockDies, Dirs
<1> QED
  BY <1>1, <1>2, <1>3, <1>4, <1>5, <1>6, <1>7, <1>8, <1>9 DEF LockMoves, Acquiring

\* RemovesDir robs nobody who is alone inside.
LEMMA OnlyDeathRobs ==
  ASSUME LockAssumption, LockTyped, MakerInside, DeathFirst, NEW p \in Proc, LockMoves(p), crashes' = crashes
  PROVE  DeathFirst'
<1> DEFINE Quiet == /\ ~robbed' /\ \A d \in Dirs : dir'[d] # Dead
                    /\ \A q \in Proc : at'[q].step # "remove"
<1>0. SUFFICES ASSUME crashes = 0 PROVE Quiet
  BY DEF DeathFirst, AtStep
<1> USE LockAssumption DEF LockTyped
<1>1. /\ ~robbed
      /\ \A d \in Dirs : dir[d] # Dead
      /\ \A q \in Proc : at[q].step # "remove"
  BY <1>0 DEF DeathFirst, AtStep
<1>2. ASSUME NEW d, NEW s, Goes(p, d, s), s # "remove" PROVE \A q \in Proc : at'[q].step # "remove"
  <2> SUFFICES ASSUME NEW q \in Proc PROVE at'[q].step # "remove"
    OBVIOUS
  <2>1. CASE q = p
    BY <1>2, <2>1, Going
  <2>2. CASE q # p
    BY <1>1, <1>2, <2>2, Going
  <2> QED
    BY <2>1, <2>2
<1>3. at[p].dir \in Dirs
  BY DEF LockPlaces, Dirs
<1>4. ASSUME NEW exists \in BOOLEAN, Ask(p, exists) PROVE Quiet
  BY <1>1, <1>4, <1>2 DEF Ask
<1>5. CASE Mkdir(p)
  BY <1>1, <1>5, <1>2, <1>3 DEF Mkdir, WaitOrGiveUp, GivesUp, Here
<1>6. CASE Look(p)
  BY <1>1, <1>6, <1>2, <1>3 DEF Look, WaitOrGiveUp, GivesUp, Here, Stale
<1>7. CASE RemoveStale(p)
  BY <1>1, <1>7 DEF RemoveStale, AtStep
<1>8. CASE WritePid(p)
  BY <1>1, <1>8, <1>2, <1>3 DEF WritePid, GivesUp, Here
<1>9. CASE PidFails(p)
  BY <1>1, <1>9, <1>2 DEF PidFails, GivesUp
<1>10. CASE FreeStable(p)
  <2>1. at[p] = Place("stable", "held")
    BY <1>10 DEF FreeStable, Holding, AtStep, LockPlaces, Place
  <2>2. maker = p
    BY <1>1, <2>1 DEF MakerInside, Inside
  <2> QED
    BY <1>1, <1>10, <1>2, <2>2 DEF FreeStable, RemovesDir, Dirs
<1>11. CASE FreeLegacy(p)
  BY <1>1, <1>11, <1>2 DEF FreeLegacy, RemovesDir, Dirs
<1> QED
  BY <1>4, <1>5, <1>6, <1>7, <1>8, <1>9, <1>10, <1>11 DEF LockMoves, Acquiring

LEMMA LegacyStaysNeeded ==
  ASSUME LockTyped, LegacyNeeded, NEW p \in Proc, LockMoves(p) \/ LockDies(p)
  PROVE  LegacyNeeded'
<1> DEFINE Fits(q) == at[q].dir = "legacy" /\ at[q].step \notin {"none", "free"} => needs[q]
<1>0. SUFFICES \A q \in Proc : Fits(q)'
  BY DEF LegacyNeeded
<1> USE DEF LockTyped
<1>1. \A q \in Proc : Fits(q)
  BY DEF LegacyNeeded
<1>2. ASSUME NEW d, NEW s, Goes(p, d, s), needs'[p] \/ d # "legacy" \/ s \in {"none", "free"},
             \A q \in Proc \ {p} : needs'[q] = needs[q]
      PROVE  \A q \in Proc : Fits(q)'
  <2> SUFFICES ASSUME NEW q \in Proc PROVE Fits(q)'
    OBVIOUS
  <2>1. CASE q = p
    BY <1>2, <2>1, Going
  <2>2. CASE q # p
    BY <1>1, <1>2, <2>2, Going
  <2> QED
    BY <2>1, <2>2
<1>3. ASSUME NEW exists \in BOOLEAN, Ask(p, exists) PROVE \A q \in Proc : Fits(q)'
  BY <1>2, <1>3 DEF Ask
<1>4. CASE Mkdir(p)
  BY <1>1, <1>2, <1>4 DEF Mkdir, AtStep, WaitOrGiveUp, GivesUp, Here
<1>5. CASE Look(p)
  BY <1>1, <1>2, <1>5 DEF Look, AtStep, WaitOrGiveUp, GivesUp, Here
<1>6. CASE RemoveStale(p)
  BY <1>1, <1>2, <1>6 DEF RemoveStale, RemovesDir, AtStep, Here
<1>7. CASE WritePid(p)
  BY <1>1, <1>2, <1>7 DEF WritePid, GivesUp
<1>8. CASE PidFails(p)
  BY <1>1, <1>2, <1>8 DEF PidFails, GivesUp
<1>9. CASE FreeStable(p)
  BY <1>2, <1>9 DEF FreeStable, RemovesDir
<1>10. CASE FreeLegacy(p)
  BY <1>2, <1>10 DEF FreeLegacy, RemovesDir
<1>11. CASE LockDies(p)
  BY <1>2, <1>11 DEF LockDies, Away, Goes
<1> QED
  BY <1>3, <1>4, <1>5, <1>6, <1>7, <1>8, <1>9, <1>10, <1>11 DEF LockMoves, Acquiring

\* Whoever owns the legacy directory stays on its way to give it back.
LEMMA LegacyStaysOwed ==
  ASSUME LockAssumption, LockTyped, LegacyNeeded, LegacyOwed, NEW p \in Proc, LockMoves(p) \/ LockDies(p)
  PROVE  LegacyOwed'
<1> DEFINE Owes(q) == dir["legacy"] = q => needs[q] /\ (at[q].dir = "stable" \/ at[q].step = "free")
<1>0. SUFFICES \A q \in Proc : Owes(q)'
  BY DEF LegacyOwed, Here, AtStep
<1> USE LockAssumption DEF LockTyped
<1>1. \A q \in Proc : Owes(q)
  BY DEF LegacyOwed, Here, AtStep
<1>2. at[p].dir \in Dirs
  BY DEF LockPlaces, Dirs
<1>3. ASSUME NEW d, NEW s, Goes(p, d, s), dir'["legacy"] \in {dir["legacy"], NoProc}, needs' = needs,
             dir["legacy"] = p => d = "stable" \/ s = "free" \/ dir'["legacy"] = NoProc
      PROVE  \A q \in Proc : Owes(q)'
  <2> SUFFICES ASSUME NEW q \in Proc, dir'["legacy"] = q PROVE needs'[q] /\ (at'[q].dir = "stable" \/ at'[q].step = "free")
    OBVIOUS
  <2>1. dir["legacy"] = q
    BY <1>3
  <2>2. CASE q = p
    BY <1>1, <1>3, <2>1, <2>2, Going
  <2>3. CASE q # p
    BY <1>1, <1>3, <2>1, <2>3, Going
  <2> QED
    BY <2>2, <2>3
<1>4. dir["legacy"] = p => needs[p] /\ (at[p].dir = "stable" \/ at[p].step = "free")
  BY <1>1
<1>5. ASSUME NEW exists \in BOOLEAN, Ask(p, exists) PROVE \A q \in Proc : Owes(q)'
  <2>1. dir["legacy"] # p
    BY <1>4, <1>5 DEF Ask, AtStep, LockPlaces
  <2> SUFFICES ASSUME NEW q \in Proc, dir'["legacy"] = q PROVE needs'[q] /\ (at'[q].dir = "stable" \/ at'[q].step = "free")
    OBVIOUS
  <2>2. q # p /\ dir["legacy"] = q
    BY <1>5, <2>1 DEF Ask
  <2> QED
    BY <1>1, <1>5, <2>2, Going DEF Ask
<1>6. CASE Mkdir(p)
  <2>1. dir'["legacy"] \in {dir["legacy"], NoProc, Bare} /\ (dir'["legacy"] = Bare => dir["legacy"] = NoProc \/ dir["legacy"] = Bare) /\ needs' = needs
    BY <1>2, <1>6 DEF Mkdir, Dirs
  <2> SUFFICES ASSUME NEW q \in Proc, dir'["legacy"] = q PROVE needs'[q] /\ (at'[q].dir = "stable" \/ at'[q].step = "free")
    OBVIOUS
  <2>2. dir["legacy"] = q
    BY <2>1
  <2>3. CASE q = p
    <3>1. at[p].dir = "stable"
      BY <1>4, <1>6, <2>2, <2>3 DEF Mkdir, AtStep
    <3> QED
      BY <1>4, <1>6, <2>1, <2>2, <2>3, <3>1, Going DEF Mkdir, WaitOrGiveUp, GivesUp, Here
  <2>4. CASE q # p
    BY <1>1, <1>6, <2>1, <2>2, <2>4, Going DEF Mkdir, WaitOrGiveUp, GivesUp
  <2> QED
    BY <2>3, <2>4
<1>7. CASE Look(p)
  <2>1. dir["legacy"] = p => at[p].dir = "stable"
    BY <1>4, <1>7 DEF Look, AtStep
  <2> QED
    BY <1>3, <1>4, <1>7, <2>1 DEF Look, WaitOrGiveUp, GivesUp, Here
<1>8. CASE RemoveStale(p)
  BY <1>2, <1>3, <1>4, <1>8 DEF RemoveStale, RemovesDir, Here, Dirs
<1>9. CASE WritePid(p)
  <2>1. CASE at[p].dir = "legacy"
    <3>1. Goes(p, "stable", "mkdir") /\ needs' = needs /\ needs[p] /\ dir'["legacy"] \in {NoProc, p}
      BY <1>9, <2>1 DEF WritePid, Here, Dirs, LegacyNeeded, AtStep
    <3> QED
      BY <1>1, <1>9, <2>1, <3>1, Going
  <2>2. CASE at[p].dir = "stable"
    BY <1>3, <1>4, <1>9, <2>2 DEF WritePid, GivesUp, Here, Dirs
  <2> QED
    BY <1>2, <2>1, <2>2 DEF Dirs
<1>10. CASE PidFails(p)
  BY <1>3, <1>4, <1>10 DEF PidFails, GivesUp, Here, AtStep
<1>11. CASE FreeStable(p)
  BY <1>3, <1>11 DEF FreeStable, RemovesDir, Dirs
<1>12. CASE FreeLegacy(p)
  BY <1>3, <1>12 DEF FreeLegacy, RemovesDir, Dirs
<1>13. CASE LockDies(p)
  <2>1. Goes(p, "legacy", "none") /\ dir'["legacy"] = (IF dir["legacy"] = p THEN Dead ELSE dir["legacy"])
        /\ \A q \in Proc \ {p} : needs'[q] = needs[q]
    BY <1>13 DEF LockDies, Away, Goes, Dirs
  <2> QED
    BY <1>1, <2>1, Going
<1> QED
  BY <1>5, <1>6, <1>7, <1>8, <1>9, <1>10, <1>11, <1>12, <1>13 DEF LockMoves, Acquiring

\* The stable directory names a process only while that holds it.
LEMMA NamedWhileHeld ==
  ASSUME LockAssumption, LockTyped, \A q \in Proc : dir["stable"] = q => at[q] = Place("stable", "held"),
         NEW p \in Proc, LockMoves(p) \/ LockDies(p)
  PROVE  \A q \in Proc : dir'["stable"] = q => at'[q] = Place("stable", "held")
<1> SUFFICES ASSUME NEW q \in Proc, dir'["stable"] = q PROVE at'[q] = Place("stable", "held")
  OBVIOUS
<1> USE LockAssumption DEF LockTyped
<1>1. at[p].dir \in Dirs
  BY DEF LockPlaces, Dirs
<1>2. ASSUME dir["stable"] = q, q # p, NEW d, NEW s, Goes(p, d, s) PROVE at'[q] = Place("stable", "held")
  BY <1>2, Going
<1>3. dir["stable"] = p => at[p].dir = "stable" /\ at[p].step = "held"
  BY DEF Place
<1>4. ASSUME NEW exists \in BOOLEAN, Ask(p, exists) PROVE at'[q] = Place("stable", "held")
  BY <1>2, <1>3, <1>4 DEF Ask, AtStep
<1>5. CASE Mkdir(p)
  BY <1>1, <1>2, <1>3, <1>5 DEF Mkdir, AtStep, WaitOrGiveUp, GivesUp, Dirs
<1>6. CASE Look(p)
  BY <1>1, <1>2, <1>3, <1>6 DEF Look, AtStep, WaitOrGiveUp, GivesUp
<1>7. CASE RemoveStale(p)
  BY <1>1, <1>2, <1>3, <1>7 DEF RemoveStale, RemovesDir, AtStep, Dirs
<1>8. CASE WritePid(p)
  <2>1. CASE dir["stable"] = q
    BY <1>1, <1>2, <1>3, <1>8, <2>1 DEF WritePid, AtStep, GivesUp, Here, Dirs
  <2>2. CASE dir["stable"] # q
    <3>1. q = p /\ Goes(p, "stable", "held")
      BY <1>1, <1>8, <2>2 DEF WritePid, Here, Dirs
    <3> QED
      BY <3>1, Going
  <2> QED
    BY <2>1, <2>2
<1>9. CASE PidFails(p)
  BY <1>1, <1>2, <1>3, <1>9 DEF PidFails, AtStep, GivesUp
<1>10. CASE FreeStable(p)
  BY <1>10 DEF FreeStable, RemovesDir, Dirs
<1>11. CASE FreeLegacy(p)
  BY <1>2, <1>3, <1>11 DEF FreeLegacy, RemovesDir, AtStep, Dirs
<1>12. CASE LockDies(p)
  BY <1>2, <1>12 DEF LockDies, Away, Goes, Dirs
<1> QED
  BY <1>4, <1>5, <1>6, <1>7, <1>8, <1>9, <1>10, <1>11, <1>12 DEF LockMoves, Acquiring

\* A directory without a pid is on its way to one, or orphaned.
LEMMA BareOnItsWay ==
  ASSUME LockAssumption, LockTyped, NEW d \in Dirs,
         dir[d] = Bare => orphaned \/ \E q \in Proc : at[q] = Place(d, "pid"),
         NEW p \in Proc, LockMoves(p) \/ LockDies(p)
  PROVE  dir'[d] = Bare => orphaned' \/ \E q \in Proc : at'[q] = Place(d, "pid")
<1> SUFFICES ASSUME dir'[d] = Bare, ~orphaned' PROVE \E q \in Proc : at'[q] = Place(d, "pid")
  BY DEF LockTyped
<1> USE LockAssumption DEF LockTyped
<1>1. at[p].dir \in Dirs
  BY DEF LockPlaces, Dirs
<1>2. ASSUME dir[d] = Bare, ~orphaned, at[p] # Place(d, "pid"), NEW e, NEW s, Goes(p, e, s)
      PROVE  \E q \in Proc : at'[q] = Place(d, "pid")
  BY <1>2, Going
<1>3. at[p].step # "pid" => at[p] # Place(d, "pid")
  BY DEF Place
<1>4. ASSUME NEW exists \in BOOLEAN, Ask(p, exists) PROVE \E q \in Proc : at'[q] = Place(d, "pid")
  BY <1>2, <1>3, <1>4 DEF Ask, AtStep
<1>5. CASE Mkdir(p)
  <2>1. CASE dir[d] = Bare
    BY <1>1, <1>2, <1>3, <1>5, <2>1 DEF Mkdir, AtStep, WaitOrGiveUp, GivesUp
  <2>2. CASE dir[d] # Bare
    <3>1. Goes(p, d, "pid")
      BY <1>1, <1>5, <2>2 DEF Mkdir, Here
    <3> QED
      BY <3>1, Going
  <2> QED
    BY <2>1, <2>2
<1>6. CASE Look(p)
  BY <1>2, <1>3, <1>6 DEF Look, AtStep, WaitOrGiveUp, GivesUp
<1>7. CASE RemoveStale(p)
  <2>1. dir[d] = Bare /\ orphaned' = orphaned
    BY <1>1, <1>7 DEF RemoveStale, RemovesDir, Here
  <2> QED
    BY <1>2, <1>3, <1>7, <2>1 DEF RemoveStale, AtStep
<1>8. CASE WritePid(p)
  <2>1. dir[d] = Bare /\ at[p].dir # d
    BY <1>1, <1>8 DEF WritePid, Here
  <2>2. at[p] # Place(d, "pid")
    BY <2>1 DEF Place
  <2> QED
    BY <1>2, <1>8, <2>1, <2>2 DEF WritePid, GivesUp
<1>9. CASE PidFails(p)
  BY <1>9 DEF PidFails
<1>10. CASE FreeStable(p)
  <2>1. dir[d] = Bare /\ orphaned' = orphaned
    BY <1>10 DEF FreeStable, RemovesDir, Dirs
  <2> QED
    BY <1>2, <1>3, <1>10, <2>1 DEF FreeStable, AtStep, Holding
<1>11. CASE FreeLegacy(p)
  <2>1. dir[d] = Bare /\ orphaned' = orphaned
    BY <1>11 DEF FreeLegacy, RemovesDir, Dirs
  <2> QED
    BY <1>2, <1>3, <1>11, <2>1 DEF FreeLegacy, AtStep
<1>12. CASE LockDies(p)
  <2>1. dir[d] = Bare /\ ~orphaned /\ at[p].step # "pid"
    BY <1>12 DEF LockDies, AtStep
  <2> QED
    BY <1>2, <1>3, <1>12, <2>1 DEF LockDies, Away, Goes
<1> QED
  BY <1>4, <1>5, <1>6, <1>7, <1>8, <1>9, <1>10, <1>11, <1>12 DEF LockMoves, Acquiring

LEMMA NoLockLeftKept ==
  ASSUME LockAssumption, LockTyped, LegacyNeeded, LegacyOwed, NoLockLeft, NEW p \in Proc, LockMoves(p) \/ LockDies(p)
  PROVE  NoLockLeft'
<1>1. LockTyped' /\ LegacyOwed'
  BY LockMovesTyped, LegacyStaysOwed
<1>2. \A q \in Proc : dir["stable"] = q => at[q] = Place("stable", "held")
  BY DEF NoLockLeft, LockTyped, LockPlaces, Place, Dirs
<1>3. \A q \in Proc : dir'["stable"] = q => at'[q] = Place("stable", "held")
  BY <1>2, NamedWhileHeld
<1>4. \A q \in Proc : dir'["legacy"] = q => at'[q].step # "none"
  BY <1>1 DEF LegacyOwed, Here, AtStep, LockTyped, LockPlaces
<1>5. \A d \in Dirs : dir'[d] = Bare => orphaned' \/ \E q \in Proc : at'[q] = Place(d, "pid")
  BY BareOnItsWay DEF NoLockLeft
<1> QED
  BY <1>3, <1>4, <1>5 DEF NoLockLeft, Dirs, Place

\* A step of the lock moves one process only.
LEMMA MovesOne ==
  ASSUME LockTyped, NEW p \in Proc, LockMoves(p) \/ LockDies(p)
  PROVE  \A q \in Proc \ {p} : at'[q] = at[q]
BY Going DEF LockMoves, Acquiring, Ask, Mkdir, Look, RemoveStale, WritePid, PidFails, FreeStable,
             FreeLegacy, LockDies, WaitOrGiveUp, GivesUp, Away, Goes, LockTyped

\* What a step of the goal does to its lock.
LEMMA LockPart ==
  ASSUME Next
  PROVE  \/ UNCHANGED <<lockVars, crashes>>
         \/ \E p \in Proc : LockMoves(p) /\ crashes' = crashes
         \/ \E p \in Proc : LockDies(p) /\ crashes' = crashes + 1
<1>1. ASSUME NEW p \in Proc, Recover(p) PROVE UNCHANGED <<lockVars, crashes>>
  BY <1>1 DEF Recover, Start, Replay, ReplayObs, ReplayGoal, ReplayCommit
<1>2. ASSUME NEW p \in Proc, TakeLock(p) PROVE LockMoves(p) /\ crashes' = crashes
  <2>1. (issued > 0) \in BOOLEAN
    OBVIOUS
  <2> QED
    BY <1>2, <2>1 DEF TakeLock, LockMoves
<1>3. ASSUME NEW p \in Proc, LockStep(p) PROVE LockMoves(p) /\ crashes' = crashes
  BY <1>3 DEF LockStep, LockMoves
<1>4. ASSUME NEW p \in Proc, Write(p), ~TakeLock(p), ~LockStep(p) PROVE UNCHANGED <<lockVars, crashes>>
  BY <1>4 DEF Write, ReadObs, LogIntent, WriteObs, WriteGoal, WriteFails, LogCommit, CompactRead, CompactSwap
<1>5. ASSUME NEW p \in Proc, Crash(p) PROVE LockDies(p) /\ crashes' = crashes + 1
  BY <1>5 DEF Crash
<1> QED
  BY <1>1, <1>2, <1>3, <1>4, <1>5 DEF Next

LEMMA LockInvInit ==
  ASSUME LockAssumption, Init
  PROVE  LockInv
BY PlacesMade DEF Init, LockInit, LockInv, LockTyped, MakerInside, DeathFirst, LegacyNeeded, LegacyOwed,
   NoLockLeft, Inside, Away, Place, Dirs, AtStep, Here, LockAssumption

LEMMA LockInvKept ==
  ASSUME LockAssumption, LockInv, crashes \in Nat, [Next]_vars
  PROVE  LockInv'
<1> USE LockAssumption DEF LockInv
<1>1. CASE UNCHANGED <<lockVars, crashes>>
  BY <1>1 DEF lockVars, LockTyped, MakerInside, DeathFirst, LegacyNeeded, LegacyOwed, NoLockLeft, Inside, AtStep, Here
<1>2. ASSUME NEW p \in Proc, LockMoves(p), crashes' = crashes PROVE LockInv'
  BY <1>2, LockMovesTyped, MakerStaysInside, OnlyDeathRobs, LegacyStaysNeeded, LegacyStaysOwed, NoLockLeftKept
<1>3. ASSUME NEW p \in Proc, LockDies(p), crashes' = crashes + 1 PROVE LockInv'
  <2>1. DeathFirst'
    BY <1>3 DEF DeathFirst
  <2> QED
    BY <1>3, <2>1, LockMovesTyped, MakerStaysInside, LegacyStaysNeeded, LegacyStaysOwed, NoLockLeftKept
<1>4. UNCHANGED vars => UNCHANGED <<lockVars, crashes>>
  BY DEF vars
<1> QED
  BY <1>1, <1>2, <1>3, <1>4, LockPart

-----------------------------------------------------------------------------
(* The files and the log *)

Intents == [op : WriteOps, id : Nat \ {0}, obs : SUBSET Nat]
Commits == {Commit(i) : i \in Intents}

Replaying == {"replay", "replayGoal", "replayCommit"}
Working == {"read", "intent", "writeObs", "writeGoal", "commit", "compact", "swap"}
Writing == {"writeObs", "writeGoal", "commit"}

StateTyped ==
  /\ issued \in Nat /\ goal \in 0..issued /\ obs \subseteq Nat /\ crashes \in Nat
  /\ wal \subseteq Intents \cup Commits
  /\ pc \in [Proc -> {"down", "idle", "lock", "unlock"} \cup Replaying \cup Working]
  /\ hand \in [Proc -> Intents \cup [op : WriteOps, id : {0}, obs : SUBSET Nat]]
  /\ todo \in [Proc -> SUBSET Intents]
  /\ logged \subseteq Intents /\ collided \in BOOLEAN /\ shared \in BOOLEAN

\* Intents are known by their numbers, and whatever is to be applied was logged.
Numbered ==
  /\ \A i \in logged : i.id <= issued /\ (WritesObs(i) => i.id \in i.obs)
  /\ \A i, j \in logged : i.id = j.id => i = j
  /\ \A r \in wal : r.id <= issued /\ (r.op # "commit" => r \in logged)
  /\ \A p \in Proc : todo[p] \subseteq logged

\* Where a process stands tells whether it asks for the lock or has it.
Follows(p) ==
  /\ pc[p] \in {"down", "idle"} \cup Replaying => at[p] = Away
  /\ pc[p] \in Working => Holding(p)
  /\ pc[p] = "lock" => ~Holding(p)
  /\ pc[p] \notin Replaying \cup {"swap"} => todo[p] = {}
  /\ pc[p] \in Writing => hand[p] \in logged
  /\ pc[p] = "writeObs" => WritesObs(hand[p])
  /\ pc[p] = "writeGoal" => WritesGoal(hand[p])

LockFollows == \A p \in Proc : Follows(p)

StateInv == LockInv /\ StateTyped /\ Numbered /\ LockFollows


LEMMA StateInit ==
  ASSUME LockAssumption, GoalStateAssumption, Init
  PROVE  StateInv
<1>1. LockInv
  BY LockInvInit
<1>2. StateTyped
  <2>1. NoIntent \in [op : WriteOps, id : {0}, obs : SUBSET Nat]
    <3>1. {} \in SUBSET Nat /\ "save_goal" \in WriteOps
      BY DEF WriteOps
    <3> QED
      BY <3>1 DEF NoIntent
  <2>2. /\ issued \in Nat /\ goal \in 0..issued /\ obs \subseteq Nat /\ crashes \in Nat
        /\ wal \subseteq Intents \cup Commits /\ logged \subseteq Intents
    BY DEF Init
  <2>3. todo \in [Proc -> SUBSET Intents]
    BY DEF Init
  <2>4. hand \in [Proc -> Intents \cup [op : WriteOps, id : {0}, obs : SUBSET Nat]]
    BY <2>1 DEF Init
  <2> QED
    BY <2>2, <2>3, <2>4 DEF Init, StateTyped, Replaying, Working
<1>3. Numbered /\ LockFollows
  BY DEF Init, LockInit, Numbered, LockFollows, Follows, Replaying, Working, Writing, Away, Place, Holding, AtStep
<1> QED
  BY <1>1, <1>2, <1>3 DEF StateInv

\* What a replay or a compaction reads was logged.
LEMMA UncommittedLogged ==
  ASSUME StateTyped, Numbered
  PROVE  Uncommitted(wal) \subseteq logged /\ Uncommitted(wal) \subseteq Intents
BY DEF StateTyped, Numbered, Uncommitted

LEMMA IntentNotCommit ==
  /\ \A i \in Intents : i.op # "commit" /\ i.op \in WriteOps /\ i.id \in Nat \ {0} /\ i.obs \subseteq Nat
  /\ \A i \in Intents : Commit(i) \in Commits
  /\ \A c \in Commits : c.op = "commit"
<1>1. \A i \in Intents : i.op # "commit" /\ i.op \in WriteOps /\ i.id \in Nat \ {0} /\ i.obs \subseteq Nat
  BY DEF Intents, WriteOps
<1>2. \A i \in Intents : Commit(i) \in Commits
  BY DEF Commits
<1>3. \A c \in Commits : c.op = "commit"
  BY DEF Commits, Commit
<1> QED
  BY <1>1, <1>2, <1>3

\* The intent that LogIntent logs.
Made(p) == [op |-> hand[p].op, id |-> issued + 1,
            obs |-> IF WritesObs(hand[p]) THEN hand[p].obs \cup {issued + 1} ELSE {}]

LEMMA MadeIsIntent ==
  ASSUME StateTyped, NEW p \in Proc
  PROVE  /\ Made(p) \in Intents /\ Made(p).id = issued + 1
         /\ WritesObs(Made(p)) <=> WritesObs(hand[p])
         /\ WritesGoal(Made(p)) <=> WritesGoal(hand[p])
         /\ WritesObs(Made(p)) => Made(p).obs = hand[p].obs \cup {issued + 1}
<1>1. hand[p].op \in WriteOps /\ hand[p].obs \subseteq Nat /\ issued \in Nat
  BY DEF StateTyped, Intents
<1> QED
  BY <1>1 DEF Made, Intents, WritesObs, WritesGoal

LEMMA LogIntentMakes ==
  ASSUME NEW p \in Proc, LogIntent(p)
  PROVE  /\ pc[p] = "intent"
         /\ pc' = [pc EXCEPT ![p] = IF WritesObs(Made(p)) THEN "writeObs" ELSE "writeGoal"]
         /\ wal' = wal \cup {Made(p)} /\ hand' = [hand EXCEPT ![p] = Made(p)]
         /\ issued' = issued + 1 /\ logged' = logged \cup {Made(p)}
BY DEF LogIntent, Made, Goto, WritesObs

LEMMA TypedKept ==
  ASSUME GoalStateAssumption, StateInv, [Next]_vars
  PROVE  StateTyped'
<1> USE DEF StateTyped, Replaying, Working
<1>0. StateTyped /\ Numbered /\ LockFollows
  BY DEF StateInv
<1>1. /\ \A p \in Proc : todo[p] \subseteq Intents
      /\ \A p \in Proc : \A r \in todo[p] : r.id \in 0..issued /\ r.obs \subseteq Nat /\ Commit(r) \in Commits
  BY <1>0, IntentNotCommit DEF Numbered
<1>2. Uncommitted(wal) \in SUBSET Intents
  BY <1>0, UncommittedLogged
<1>3. ASSUME NEW p \in Proc, Start(p) PROVE StateTyped'
  BY <1>0, <1>2, <1>3 DEF Start, Continue, files
<1>4. ASSUME NEW p \in Proc, NEW r \in todo[p], Replay(p, r) PROVE StateTyped'
  <2>1. CASE ReplayObs(p, r)
    BY <1>0, <1>1, <2>1 DEF ReplayObs, Collides
  <2>2. CASE ReplayGoal(p, r)
    BY <1>0, <1>1, <2>2 DEF ReplayGoal, Collides
  <2>3. CASE ReplayCommit(p, r)
    BY <1>0, <1>1, <2>3 DEF ReplayCommit, ReplayCommitted, Continue, files, history
  <2> QED
    BY <1>4, <2>1, <2>2, <2>3 DEF Replay
<1>5. ASSUME NEW p \in Proc, TakeLock(p) PROVE StateTyped'
  BY <1>0, <1>5 DEF TakeLock, Goto, files, history
<1>6. ASSUME NEW p \in Proc, LockStep(p) PROVE StateTyped'
  <2>1. UNCHANGED <<files, wal, todo, issued, crashes, history>>
    BY <1>6 DEF LockStep
  <2>2. CASE UNCHANGED hand
    BY <1>0, <1>6, <2>1, <2>2 DEF LockStep, files, history, Begin
  <2>3. ASSUME NEW op \in WriteOps, Begin(p, op) PROVE StateTyped'
    <3>1. hand' \in [Proc -> Intents \cup [op : WriteOps, id : {0}, obs : SUBSET Nat]]
      BY <1>0, <2>3 DEF Begin, Intents
    <3> QED
      BY <1>0, <2>1, <2>3, <3>1 DEF Begin, files, history
  <2> QED
    BY <1>6, <2>2, <2>3 DEF LockStep
<1>7. ASSUME NEW p \in Proc, ReadObs(p) PROVE StateTyped'
  <2>1. hand' \in [Proc -> Intents \cup [op : WriteOps, id : {0}, obs : SUBSET Nat]]
    BY <1>0, <1>7 DEF ReadObs, Intents
  <2> QED
    BY <1>0, <1>7, <2>1 DEF ReadObs, Goto, files, history
<1>8. ASSUME NEW p \in Proc, LogIntent(p) PROVE StateTyped'
  <2>1. UNCHANGED <<files, todo, crashes, collided, shared>>
    BY <1>8 DEF LogIntent
  <2>2. goal' \in 0..issued'
    BY <1>0, <1>8, <2>1, LogIntentMakes DEF files
  <2>3. /\ wal' \subseteq Intents \cup Commits /\ logged' \subseteq Intents /\ issued' \in Nat
        /\ hand' \in [Proc -> Intents \cup [op : WriteOps, id : {0}, obs : SUBSET Nat]]
        /\ pc' \in [Proc -> {"down", "idle", "lock", "unlock"} \cup Replaying \cup Working]
    BY <1>0, <1>8, LogIntentMakes, MadeIsIntent
  <2> QED
    BY <1>0, <2>1, <2>2, <2>3 DEF files
<1>9. ASSUME NEW p \in Proc, WriteObs(p) PROVE StateTyped'
  BY <1>0, <1>9 DEF WriteObs, Goto, history, LockFollows, Follows, Writing, Intents
<1>10. ASSUME NEW p \in Proc, WriteGoal(p) PROVE StateTyped'
  BY <1>0, <1>10 DEF WriteGoal, Goto, history, LockFollows, Follows, Writing, Numbered, Intents
<1>11. ASSUME NEW p \in Proc, WriteFails(p) PROVE StateTyped'
  BY <1>0, <1>11 DEF WriteFails, files, NoIntent, WriteOps
<1>12. ASSUME NEW p \in Proc, LogCommit(p) PROVE StateTyped'
  <2>1. Commit(hand[p]) \in Commits
    BY <1>0, <1>12, IntentNotCommit DEF LogCommit, Goto, LockFollows, Follows, Writing
  <2> QED
    BY <1>0, <1>12, <2>1 DEF LogCommit, Goto, files, history, NoIntent, WriteOps
<1>13. ASSUME NEW p \in Proc, CompactRead(p) PROVE StateTyped'
  BY <1>0, <1>2, <1>13 DEF CompactRead, Goto, files, history
<1>14. ASSUME NEW p \in Proc, CompactSwap(p) PROVE StateTyped'
  BY <1>0, <1>14 DEF CompactSwap, Swap, Goto, files, history
<1>15. ASSUME NEW p \in Proc, Crash(p) PROVE StateTyped'
  BY <1>0, <1>15 DEF Crash, files, history, NoIntent, WriteOps
<1>16. CASE UNCHANGED vars
  BY <1>0, <1>16 DEF vars, files, history
<1> QED
  BY <1>3, <1>4, <1>5, <1>6, <1>7, <1>8, <1>9, <1>10, <1>11, <1>12, <1>13, <1>14, <1>15, <1>16 DEF Next, Recover, Write

LEMMA NumberedKept ==
  ASSUME StateInv, [Next]_vars
  PROVE  Numbered'
<1>0. StateTyped /\ Numbered /\ LockFollows
  BY DEF StateInv
<1>1. Uncommitted(wal) \subseteq logged
  BY <1>0, UncommittedLogged
<1>2. \A r : Commit(r).op = "commit" /\ Commit(r).id = r.id
  BY DEF Commit
<1>3. ASSUME UNCHANGED <<logged, issued>>, \A r \in wal' : r.id <= issued /\ (r.op # "commit" => r \in logged),
             \A p \in Proc : todo'[p] \subseteq logged
      PROVE  Numbered'
  BY <1>0, <1>3 DEF Numbered
<1>4. ASSUME UNCHANGED <<logged, issued, wal, todo>> PROVE Numbered'
  BY <1>0, <1>4 DEF Numbered
<1>5. ASSUME NEW p \in Proc, Start(p) PROVE Numbered'
  BY <1>0, <1>1, <1>3, <1>5 DEF Start, Continue, StateTyped, Numbered
<1>6. ASSUME NEW p \in Proc, NEW r \in todo[p], Replay(p, r) PROVE Numbered'
  <2>1. CASE ReplayObs(p, r) \/ ReplayGoal(p, r)
    BY <1>4, <2>1 DEF ReplayObs, ReplayGoal
  <2>2. CASE ReplayCommit(p, r)
    BY <1>0, <1>2, <1>3, <2>2 DEF ReplayCommit, ReplayCommitted, Continue, StateTyped, Numbered, history
  <2> QED
    BY <1>6, <2>1, <2>2 DEF Replay
<1>7. ASSUME NEW p \in Proc, TakeLock(p) \/ LockStep(p) \/ ReadObs(p) \/ WriteObs(p) \/ WriteGoal(p) PROVE Numbered'
  BY <1>4, <1>7 DEF TakeLock, LockStep, ReadObs, WriteObs, WriteGoal, history
<1>8. ASSUME NEW p \in Proc, LogIntent(p) PROVE Numbered'
  <2>1. /\ wal' = wal \cup {Made(p)} /\ logged' = logged \cup {Made(p)} /\ issued' = issued + 1 /\ todo' = todo
    BY <1>8, LogIntentMakes DEF LogIntent
  <2>2. Made(p).id = issued + 1 /\ (WritesObs(Made(p)) => Made(p).id \in Made(p).obs)
    BY <1>0, MadeIsIntent
  <2>3. \A i \in logged : i.id \in Nat /\ i.id <= issued /\ i.id # Made(p).id
    BY <1>0, <2>2, IntentNotCommit DEF Numbered, StateTyped
  <2>4. issued \in Nat
    BY <1>0 DEF StateTyped
  <2>5. \A i \in logged' : i.id <= issued' /\ (WritesObs(i) => i.id \in i.obs)
    BY <1>0, <2>1, <2>2, <2>3, <2>4 DEF Numbered
  <2>6. \A i, j \in logged' : i.id = j.id => i = j
    BY <1>0, <2>1, <2>3 DEF Numbered
  <2>7. \A r \in wal : r.id \in Nat
    BY <1>0, IntentNotCommit DEF StateTyped, Commits, Commit
  <2>8. \A r \in wal' : r.id <= issued' /\ (r.op # "commit" => r \in logged')
    BY <1>0, <2>1, <2>2, <2>4, <2>7 DEF Numbered
  <2> QED
    BY <1>0, <2>1, <2>5, <2>6, <2>8 DEF Numbered
<1>9. ASSUME NEW p \in Proc, WriteFails(p) \/ Crash(p) PROVE Numbered'
  BY <1>0, <1>3, <1>9 DEF WriteFails, Crash, StateTyped, Numbered, history
<1>10. ASSUME NEW p \in Proc, LogCommit(p) PROVE Numbered'
  <2>1. hand[p] \in logged
    BY <1>0, <1>10 DEF LogCommit, Goto, LockFollows, Follows, Writing
  <2> QED
    BY <1>0, <1>2, <1>3, <1>10, <2>1 DEF LogCommit, Numbered, history
<1>11. ASSUME NEW p \in Proc, CompactRead(p) PROVE Numbered'
  BY <1>0, <1>1, <1>3, <1>11 DEF CompactRead, StateTyped, Numbered, history
<1>12. ASSUME NEW p \in Proc, CompactSwap(p) PROVE Numbered'
  BY <1>0, <1>3, <1>12 DEF CompactSwap, Swap, StateTyped, Numbered, history
<1>13. CASE UNCHANGED vars
  BY <1>4, <1>13 DEF vars, history
<1> QED
  BY <1>5, <1>6, <1>7, <1>8, <1>9, <1>10, <1>11, <1>12, <1>13 DEF Next, Recover, Write

\* A step changes of the others nothing that this part depends on.
LEMMA OthersStay ==
  ASSUME StateInv, Next
  PROVE  \E p \in Proc :
           /\ Recover(p) \/ Write(p) \/ Crash(p)
           /\ \A q \in Proc \ {p} :
                pc'[q] = pc[q] /\ at'[q] = at[q] /\ hand'[q] = hand[q] /\ todo'[q] = todo[q]
           /\ logged \subseteq logged'
<1> USE DEF StateTyped
<1>0. StateTyped /\ LockTyped
  BY DEF StateInv, LockInv
<1>1. PICK p \in Proc : Recover(p) \/ Write(p) \/ Crash(p)
  BY DEF Next
<1>2. CASE Recover(p)
  BY <1>0, <1>1, <1>2 DEF Recover, Start, Replay, ReplayObs, ReplayGoal, ReplayCommit, Continue, history, lockVars
<1>3. CASE TakeLock(p) \/ LockStep(p)
  <2>1. \A q \in Proc \ {p} : at'[q] = at[q]
    BY <1>0, <1>3, MovesOne, Going DEF TakeLock, Ask, LockStep, LockMoves
  <2> QED
    BY <1>0, <1>1, <1>3, <2>1 DEF TakeLock, LockStep, Goto, Begin, history
<1>4. CASE Write(p) /\ ~TakeLock(p) /\ ~LockStep(p)
  BY <1>0, <1>1, <1>4 DEF Write, ReadObs, LogIntent, WriteObs, WriteGoal, WriteFails, LogCommit, CompactRead,
     CompactSwap, Goto, history, lockVars
<1>5. CASE Crash(p)
  BY <1>0, <1>1, <1>5, MovesOne DEF Crash, history
<1> QED
  BY <1>1, <1>2, <1>3, <1>4, <1>5 DEF Write

LEMMA FollowsKept ==
  ASSUME StateInv, [Next]_vars
  PROVE  LockFollows'
<1>0. StateTyped /\ LockTyped /\ LockFollows /\ LockTyped'
  <2>1. StateTyped /\ LockInv /\ LockFollows
    BY DEF StateInv
  <2>2. LockTyped /\ UNCHANGED vars => LockTyped'
    BY DEF vars, lockVars, LockTyped
  <2> QED
    BY <2>1, <2>2, LockPart, LockMovesTyped, LockAssumption DEF LockInv, lockVars, LockTyped
<1>1. CASE UNCHANGED vars
  BY <1>0, <1>1 DEF vars, lockVars, history, LockFollows, Follows, Holding, AtStep
<1>2. CASE Next
  <2>1. PICK p \in Proc :
          /\ Recover(p) \/ Write(p) \/ Crash(p)
          /\ \A q \in Proc \ {p} :
               pc'[q] = pc[q] /\ at'[q] = at[q] /\ hand'[q] = hand[q] /\ todo'[q] = todo[q]
          /\ logged \subseteq logged'
    BY <1>2, OthersStay
  <2>2. \A q \in Proc \ {p} : Follows(q)'
    BY <1>0, <2>1 DEF LockFollows, Follows, Holding, AtStep
  <2>3. SUFFICES Follows(p)'
    BY <2>2 DEF LockFollows
  <2>4. Follows(p)
    BY <1>0 DEF LockFollows
  <2> USE DEF StateTyped, Replaying, Working, Writing
  <2>5. CASE Start(p)
    BY <1>0, <2>4, <2>5 DEF Start, Continue, Follows, Holding, AtStep, lockVars
  <2>6. ASSUME NEW r \in todo[p], Replay(p, r) PROVE Follows(p)'
    <3>1. pc[p] \in Replaying
      BY <2>6 DEF Replay, ReplayObs, ReplayGoal, ReplayCommit
    <3> QED
      BY <1>0, <2>4, <2>6, <3>1 DEF Replay, ReplayObs, ReplayGoal, ReplayCommit, Continue, Follows, Holding, AtStep, lockVars
  <2>7. CASE TakeLock(p)
    BY <1>0, <2>4, <2>7, Going DEF TakeLock, Ask, Goto, Follows, Holding, AtStep
  <2>8. CASE LockStep(p)
    <3>1. pc[p] \in {"lock", "unlock"}
      BY <1>0, <2>4, <2>8 DEF LockStep, FreeLegacy, Follows, Holding, AtStep, Away, Place
    <3>2. todo'[p] = {} /\ logged' = logged
      BY <2>4, <2>8, <3>1 DEF LockStep, Follows, history
    <3>3. CASE at'[p].step = "held"
      <4>1. pc'[p] \in {"read", "intent"}
        BY <1>0, <2>8, <3>3 DEF LockStep, Begin
      <4> QED
        BY <3>2, <3>3, <4>1 DEF Follows, Holding, AtStep
    <3>4. CASE at'[p].step = "none"
      <4>1. pc'[p] = "idle" /\ at'[p] = Away
        BY <1>0, <2>8, <3>4 DEF LockStep, LockTyped, LockPlaces, Away, Place
      <4> QED
        BY <3>2, <4>1 DEF Follows
    <3>5. CASE at'[p].step \notin {"held", "none"}
      BY <2>8, <3>1, <3>2, <3>5 DEF LockStep, Follows, Holding, AtStep
    <3> QED
      BY <3>3, <3>4, <3>5
  <2>9. CASE LogIntent(p)
    <3>1. WritesObs(Made(p)) \/ WritesGoal(Made(p))
      BY DEF WritesObs, WritesGoal
    <3> QED
      BY <1>0, <2>4, <2>9, <3>1, LogIntentMakes DEF LogIntent, Follows, Holding, AtStep, lockVars
  <2>10. CASE ReadObs(p)
    BY <1>0, <2>4, <2>10 DEF ReadObs, Goto, Follows, Holding, AtStep, lockVars
  <2>11. CASE WriteObs(p)
    BY <1>0, <2>1, <2>4, <2>11 DEF WriteObs, Goto, Follows, Holding, AtStep, lockVars
  <2>12. CASE WriteGoal(p)
    BY <1>0, <2>1, <2>4, <2>12 DEF WriteGoal, Goto, Follows, Holding, AtStep, lockVars
  <2>13. CASE WriteFails(p)
    BY <1>0, <2>4, <2>13 DEF WriteFails, Follows, Holding, AtStep, lockVars
  <2>14. CASE LogCommit(p)
    BY <1>0, <2>4, <2>14 DEF LogCommit, Goto, Follows, Holding, AtStep, lockVars
  <2>15. CASE CompactRead(p)
    BY <1>0, <2>4, <2>15 DEF CompactRead, Goto, Follows, Holding, AtStep, lockVars
  <2>16. CASE CompactSwap(p)
    BY <1>0, <2>4, <2>16 DEF CompactSwap, Goto, Follows, Holding, AtStep, lockVars
  <2>17. CASE Crash(p)
    <3>1. pc'[p] = "down" /\ at'[p] = Away /\ todo'[p] = {}
      BY <1>0, <2>17 DEF Crash, LockDies, LockTyped
    <3> QED
      BY <3>1 DEF Follows
  <2> QED
    BY <2>1, <2>5, <2>6, <2>7, <2>8, <2>9, <2>10, <2>11, <2>12, <2>13, <2>14, <2>15, <2>16, <2>17 DEF Recover, Write
<1> QED
  BY <1>1, <1>2

LEMMA StateKept ==
  ASSUME LockAssumption, GoalStateAssumption, StateInv, [Next]_vars
  PROVE  StateInv'
<1>1. LockInv'
  BY LockInvKept DEF StateInv, StateTyped
<1> QED
  BY <1>1, TypedKept, NumberedKept, FollowsKept DEF StateInv

\* In every state the lock, the log and the processes agree: see StateInv.
THEOREM StateAgrees == Spec => []StateInv
<1>1. Init => StateInv
  BY StateInit, LockAssumption, GoalStateAssumption
<1>2. StateInv /\ [Next]_vars => StateInv'
  BY StateKept, LockAssumption, GoalStateAssumption
<1> QED
  BY <1>1, <1>2, PTL DEF Spec

\* Two processes hold the lock of a goal only after its directory was removed
\* under one of them, which takes a process that died.
THEOREM LockExcludes == Spec => []LockExclusive
<1>1. StateInv => LockExclusive
  <2> SUFFICES ASSUME StateInv PROVE LockExclusive
    OBVIOUS
  <2>1. MakerInside /\ DeathFirst /\ crashes \in Nat /\ LockTyped
    BY DEF StateInv, LockInv, StateTyped
  <2>2. \A p \in Proc : Holding(p) => Inside(p)
    BY <2>1 DEF Holding, AtStep, Inside, LockTyped, LockPlaces, Place
  <2>3. \A p, q \in Proc : Holding(p) /\ Holding(q) => p = q \/ robbed
    BY <2>1, <2>2 DEF MakerInside
  <2>4. robbed => crashes > 0
    <3>1. robbed => crashes # 0
      BY <2>1 DEF DeathFirst
    <3> QED
      BY <2>1, <3>1
  <2> QED
    BY <2>3, <2>4 DEF LockExclusive
<1> QED
  BY <1>1, StateAgrees, PTL

\* A lock directory is never left with a live process's name, or nobody's but of
\* one that died or failed to write its pid.
THEOREM NoLockIsLeft == Spec => []NoLockLeft
<1>1. StateInv => NoLockLeft
  BY DEF StateInv, LockInv
<1> QED
  BY <1>1, StateAgrees, PTL

\* What each process knows of the files holds while nobody collided or was
\* robbed: a writer has read the entries that are there, what was written before
\* a commit is in its file, and a compaction keeps what has no commit.
Knows(p) ==
  /\ pc[p] = "intent" /\ WritesObs(hand[p]) => hand[p].obs = obs
  /\ pc[p] \in Writing => hand[p].id = issued
  /\ pc[p] = "writeObs" => obs \subseteq hand[p].obs
  /\ pc[p] = "writeGoal" /\ WritesObs(hand[p]) => hand[p].id \in obs
  /\ pc[p] = "commit" => Applied(hand[p])
  /\ pc[p] = "swap" => Uncommitted(wal) \subseteq todo[p]
  /\ \A r \in todo[p] : Oldest(p, r) =>
       /\ pc[p] = "replayGoal" /\ WritesObs(r) => r.id \in obs
       /\ pc[p] = "replayCommit" => Applied(r)

Undisturbed == ~collided /\ ~robbed

Covered == \A i \in logged : Applied(i) \/ Pending(i)

CoverInv == Undisturbed => Covered /\ \A p \in Proc : Knows(p)


\* A commit settles its own intent only; a new intent is open; a compacted log
\* has no commits.
LEMMA CommitSettles ==
  ASSUME StateTyped, Numbered, NEW r \in logged
  PROVE  Uncommitted(wal \cup {Commit(r)}) = Uncommitted(wal) \ {r}
<1>1. Commit(r).op = "commit" /\ Commit(r).id = r.id
  BY DEF Commit
<1>2. \A x : Committed(wal \cup {Commit(r)}, x) <=> Committed(wal, x) \/ x.id = r.id
  BY <1>1 DEF Committed
<1>3. \A x \in Uncommitted(wal) : x \in logged /\ (x.id = r.id => x = r)
  BY UncommittedLogged DEF Numbered
<1>4. \A x : x \in Uncommitted(wal \cup {Commit(r)}) <=> x \in Uncommitted(wal) /\ x.id # r.id
  BY <1>1, <1>2 DEF Uncommitted
<1> QED
  BY <1>3, <1>4

LEMMA IntentOpens ==
  ASSUME StateTyped, Numbered, NEW i \in Intents, i.id = issued + 1
  PROVE  Uncommitted(wal \cup {i}) = Uncommitted(wal) \cup {i}
<1>1. i.op # "commit" /\ issued \in Nat
  BY IntentNotCommit DEF StateTyped
<1>2. \A c \in wal : c.id # i.id
  <2>1. \A c \in wal : c.id \in Nat /\ c.id <= issued
    BY IntentNotCommit DEF StateTyped, Numbered, Commits, Commit
  <2> QED
    BY <1>1, <2>1
<1>3. \A x : Committed(wal \cup {i}, x) <=> Committed(wal, x)
  BY <1>1 DEF Committed
<1>4. ~Committed(wal, i)
  BY <1>2 DEF Committed
<1> QED
  BY <1>1, <1>3, <1>4 DEF Uncommitted

LEMMA CompactedAllOpen ==
  ASSUME NEW w, w \subseteq Intents
  PROVE  Uncommitted(w) = w
BY IntentNotCommit DEF Uncommitted, Committed

\* What a step does to the rest while it changes the files only forward.
FilesForward == obs \subseteq obs' /\ goal \in Nat /\ goal' \in Nat /\ goal <= goal'

LEMMA AppliedForward ==
  ASSUME FilesForward, NEW i \in Intents, Applied(i)
  PROVE  Applied(i)'
<1>1. i.id \in Nat
  BY DEF Intents
<1> QED
  BY <1>1 DEF FilesForward, Applied

\* Only one process is between its lock and its release.
LEMMA WritersAlone ==
  ASSUME StateInv, ~robbed, NEW p \in Proc, pc[p] \in Working, NEW q \in Proc, q # p
  PROVE  pc[q] \notin Working
<1>1. MakerInside /\ LockTyped /\ LockFollows
  BY DEF StateInv, LockInv
<1>2. \A x \in Proc : pc[x] \in Working => Inside(x)
  BY <1>1 DEF LockFollows, Follows, Holding, AtStep, Inside, LockTyped, LockPlaces, Place
<1> QED
  BY <1>1, <1>2 DEF MakerInside

\* A process that does not write knows no less when the files go forward.
LEMMA ReaderKnows ==
  ASSUME StateInv, FilesForward, NEW q \in Proc, pc[q] \notin Working, Knows(q),
         pc'[q] = pc[q], todo'[q] = todo[q]
  PROVE  Knows(q)'
<1>1. todo[q] \subseteq Intents
  BY DEF StateInv, StateTyped
<1>2. \A r \in todo[q] : Oldest(q, r)' <=> Oldest(q, r)
  BY DEF Oldest
<1>3. \A r \in todo[q] : Applied(r) => Applied(r)'
  BY <1>1, AppliedForward
<1> QED
  BY <1>1, <1>2, <1>3 DEF Knows, Working, Writing, FilesForward

\* Nobody knows less while the files stay and no intent opens.
LEMMA FilesStill ==
  ASSUME UNCHANGED <<files, issued>>, Uncommitted(wal') \subseteq Uncommitted(wal), NEW q \in Proc, Knows(q),
         pc'[q] = pc[q], todo'[q] = todo[q], hand'[q] = hand[q]
  PROVE  Knows(q)'
<1>1. \A r : Oldest(q, r)' <=> Oldest(q, r)
  BY DEF Oldest
<1>2. \A r : Applied(r)' <=> Applied(r)
  BY DEF Applied, files
<1> QED
  BY <1>1, <1>2 DEF Knows, files

LEMMA CoverKept ==
  ASSUME LockAssumption, GoalStateAssumption, StateInv, CoverInv, [Next]_vars
  PROVE  CoverInv'
<1>0. /\ StateInv' /\ StateTyped /\ Numbered /\ LockFollows /\ LockTyped
      /\ StateTyped' /\ Numbered' /\ LockFollows'
  BY StateKept DEF StateInv, LockInv
<1>1. CASE UNCHANGED vars
  <2>1. Undisturbed' <=> Undisturbed
    BY <1>1 DEF vars, history, lockVars, Undisturbed
  <2>2. Covered' <=> Covered
    BY <1>1 DEF vars, files, history, Covered, Applied, Pending
  <2>3. \A q \in Proc : Knows(q) => Knows(q)'
    BY <1>1, FilesStill DEF vars
  <2> QED
    BY <2>1, <2>2, <2>3 DEF CoverInv
<1>2. CASE Next
  <2>1. PICK p \in Proc :
          /\ Recover(p) \/ Write(p) \/ Crash(p)
          /\ \A q \in Proc \ {p} :
               pc'[q] = pc[q] /\ at'[q] = at[q] /\ hand'[q] = hand[q] /\ todo'[q] = todo[q]
          /\ logged \subseteq logged'
    BY <1>2, OthersStay
  <2>2. SUFFICES ASSUME Undisturbed' PROVE Covered' /\ \A q \in Proc : Knows(q)'
    BY DEF CoverInv
  <2> USE DEF StateTyped, Replaying, Working, Writing
  <2>3. Undisturbed
    <3>1. collided => collided'
      BY <1>0, <2>1 DEF Recover, Start, Replay, ReplayObs, ReplayGoal, ReplayCommit, Collides, Write, TakeLock,
         LockStep, ReadObs, LogIntent, WriteObs, WriteGoal, WriteFails, LogCommit, CompactRead, CompactSwap, Crash, history
    <3>2. robbed => robbed'
      <4>1. ASSUME NEW q \in Proc, LockMoves(q) \/ LockDies(q) PROVE robbed => robbed'
        BY <1>0, <4>1 DEF LockMoves, Acquiring, Ask, Mkdir, Look, RemoveStale, WritePid, PidFails, FreeStable, FreeLegacy,
           RemovesDir, LockDies, LockTyped
      <4> QED
        BY <1>2, <4>1, LockPart DEF lockVars
    <3> QED
      BY <2>2, <3>1, <3>2 DEF Undisturbed
  <2>4. Covered /\ \A q \in Proc : Knows(q)
    BY <2>3 DEF CoverInv
  <2>5. /\ \A i \in logged : i \in Intents /\ i.id \in Nat /\ i.id <= issued /\ (WritesObs(i) => i.id \in i.obs)
        /\ goal \in Nat /\ goal <= issued /\ issued \in Nat
        /\ \A q \in Proc : todo[q] \subseteq logged
    BY <1>0, IntentNotCommit DEF Numbered
  \* The files and the log stay: only p has to know what it does now.
  <2>6. ASSUME UNCHANGED <<files, wal, issued, logged>>, Knows(p)' PROVE Covered' /\ \A q \in Proc : Knows(q)'
    <3>1. \A q \in Proc \ {p} : Knows(q)'
      BY <2>1, <2>4, <2>6, FilesStill
    <3> QED
      BY <2>4, <2>6, <3>1 DEF Covered, Applied, Pending, files
  \* The log stays and the files go forward.
  <2>7. ASSUME UNCHANGED <<wal, issued, logged>>, FilesForward, Knows(p)', \A q \in Proc \ {p} : pc[q] \notin Working
        PROVE  Covered' /\ \A q \in Proc : Knows(q)'
    <3>1. \A q \in Proc \ {p} : Knows(q)'
      BY <2>1, <2>4, <2>7, ReaderKnows
    <3>2. \A i \in logged : Applied(i) => Applied(i)'
      BY <2>5, <2>7, AppliedForward
    <3> QED
      BY <2>4, <2>7, <3>1, <3>2 DEF Covered, Pending
  \* An applied intent is committed.
  <2>8. ASSUME UNCHANGED <<files, issued, logged>>, NEW r \in logged, Applied(r), wal' = wal \cup {Commit(r)}, Knows(p)'
        PROVE  Covered' /\ \A q \in Proc : Knows(q)'
    <3>1. Uncommitted(wal') = Uncommitted(wal) \ {r}
      BY <1>0, <2>8, CommitSettles
    <3>2. \A q \in Proc \ {p} : Knows(q)'
      BY <2>1, <2>4, <2>8, <3>1, FilesStill
    <3> QED
      BY <2>4, <2>8, <3>1, <3>2 DEF Covered, Applied, Pending, files
  \* Beside a replay nobody holds the lock.
  <2>9. ASSUME NEW older, Collides(older) PROVE ~older /\ \A q \in Proc : pc[q] \notin Working
    BY <1>0, <2>2, <2>9 DEF Collides, Undisturbed, LockFollows, Follows
  <2>10. pc[p] \in Working => \A q \in Proc \ {p} : pc[q] \notin Working
    BY <2>3, WritersAlone DEF Undisturbed
  <2>11. CASE Start(p)
    <3>1. Knows(p)'
      BY <1>0, <2>11 DEF Start, Continue, Knows
    <3> QED
      BY <2>6, <2>11, <3>1 DEF Start
  <2>12. ASSUME NEW r \in todo[p], Replay(p, r) PROVE Covered' /\ \A q \in Proc : Knows(q)'
    <3>1. r \in logged /\ Oldest(p, r)
      BY <2>5, <2>12 DEF Replay
    <3>2. \A x \in todo[p] : (\A y \in todo[p] : x.id <= y.id) => x = r
      <4>1. \A x \in todo[p] : x \in logged /\ x.id \in Nat
        BY <2>5
      <4>2. SUFFICES ASSUME NEW x \in todo[p], \A y \in todo[p] : x.id <= y.id PROVE x.id = r.id
        BY <1>0, <3>1, <4>1 DEF Numbered
      <4> QED
        BY <3>1, <4>1, <4>2 DEF Oldest
    <3>3. CASE ReplayObs(p, r)
      <4>1. obs \subseteq r.obs /\ \A q \in Proc : pc[q] \notin Working
        BY <2>9, <3>3 DEF ReplayObs
      <4>2. FilesForward
        BY <2>5, <3>3, <4>1 DEF ReplayObs, FilesForward
      <4>3. r.id \in obs' /\ todo' = todo
        BY <2>5, <3>1, <3>3 DEF ReplayObs
      <4>4. \A x \in todo'[p] : Oldest(p, x)' => x = r
        BY <3>2, <4>3 DEF Oldest
      <4>5. Knows(p)'
        BY <1>0, <3>3, <4>3, <4>4 DEF ReplayObs, Knows, Applied
      <4> QED
        BY <2>7, <3>3, <4>1, <4>2, <4>5 DEF ReplayObs
    <3>4. CASE ReplayGoal(p, r)
      <4>1. ~(goal > r.id) /\ \A q \in Proc : pc[q] \notin Working
        BY <2>9, <3>4 DEF ReplayGoal
      <4>2. FilesForward
        BY <2>5, <3>1, <3>4, <4>1 DEF ReplayGoal, FilesForward
      <4>3. (WritesObs(r) => r.id \in obs') /\ goal' = r.id /\ todo' = todo
        BY <2>4, <3>1, <3>4 DEF ReplayGoal, Knows
      <4>4. \A x \in todo'[p] : Oldest(p, x)' => x = r
        BY <3>2, <4>3 DEF Oldest
      <4>5. Applied(r)'
        BY <2>5, <3>1, <4>3 DEF Applied
      <4>6. Knows(p)'
        BY <1>0, <3>4, <4>4, <4>5 DEF ReplayGoal, Knows
      <4> QED
        BY <2>7, <3>4, <4>1, <4>2, <4>6 DEF ReplayGoal
    <3>5. CASE ReplayCommit(p, r)
      <4>1. Applied(r)
        BY <2>4, <3>1, <3>5 DEF ReplayCommit, Knows
      <4>2. Knows(p)'
        BY <1>0, <3>5 DEF ReplayCommit, Continue, Knows
      <4> QED
        BY <2>8, <3>1, <3>5, <4>1, <4>2 DEF ReplayCommit, ReplayCommitted, history
    <3> QED
      BY <2>12, <3>3, <3>4, <3>5 DEF Replay
  <2>13. CASE TakeLock(p)
    <3>1. Knows(p)'
      BY <1>0, <2>13 DEF TakeLock, Goto, Knows
    <3> QED
      BY <2>6, <2>13, <3>1 DEF TakeLock, history
  <2>14. CASE LockStep(p)
    <3>1. pc[p] \in {"lock", "unlock"}
      BY <1>0, <2>14 DEF LockStep, FreeLegacy, LockFollows, Follows, Holding, AtStep, Away, Place
    <3>2. pc'[p] \in {"lock", "unlock", "idle", "read"} \/ (pc'[p] = "intent" /\ ~WritesObs(hand'[p]))
      <4>1. ASSUME NEW op \in WriteOps, Begin(p, op)
            PROVE  pc'[p] = "read" \/ (pc'[p] = "intent" /\ ~WritesObs(hand'[p]))
        <5>1. hand'[p].op = op /\ pc'[p] = IF op = "save_goal" THEN "intent" ELSE "read"
          BY <1>0, <4>1 DEF Begin, Intents
        <5> QED
          BY <5>1 DEF WritesObs
      <4> QED
        BY <1>0, <2>14, <3>1, <4>1 DEF LockStep
    <3>3. Knows(p)'
      BY <3>2 DEF Knows
    <3> QED
      BY <2>6, <2>14, <3>3 DEF LockStep, history
  <2>15. CASE ReadObs(p)
    <3>1. Knows(p)'
      BY <1>0, <2>15 DEF ReadObs, Goto, Knows, files
    <3> QED
      BY <2>6, <2>15, <3>1 DEF ReadObs, history
  <2>16. CASE LogIntent(p)
    <3>1. /\ wal' = wal \cup {Made(p)} /\ hand'[p] = Made(p) /\ issued' = issued + 1 /\ logged' = logged \cup {Made(p)}
          /\ pc'[p] = IF WritesObs(Made(p)) THEN "writeObs" ELSE "writeGoal"
          /\ UNCHANGED <<files, todo>> /\ pc[p] = "intent"
      <4>1. UNCHANGED <<files, todo>>
        BY <2>16 DEF LogIntent
      <4> QED
        BY <1>0, <2>16, <4>1, LogIntentMakes
    <3>2. Uncommitted(wal') = Uncommitted(wal) \cup {Made(p)}
      <4>1. Made(p) \in Intents /\ Made(p).id = issued + 1
        BY <1>0, MadeIsIntent
      <4> QED
        BY <1>0, <3>1, <4>1, IntentOpens
    <3>3. Covered'
      BY <2>4, <3>1, <3>2 DEF Covered, Applied, Pending, files
    <3>4. FilesForward
      BY <2>5, <3>1 DEF FilesForward, files
    <3>5. \A q \in Proc \ {p} : Knows(q)'
      BY <2>1, <2>4, <2>10, <3>1, <3>4, ReaderKnows
    <3>6. WritesObs(Made(p)) => obs \subseteq Made(p).obs
      BY <1>0, <2>4, <3>1, MadeIsIntent DEF Knows
    <3>7. Knows(p)'
      BY <1>0, <3>1, <3>6, MadeIsIntent DEF Knows, files
    <3> QED
      BY <3>3, <3>5, <3>7
  <2>17. CASE WriteObs(p)
    <3>1. /\ pc[p] = "writeObs" /\ obs' = hand[p].obs /\ goal' = goal /\ hand' = hand /\ issued' = issued
          /\ pc'[p] = IF WritesGoal(hand[p]) THEN "writeGoal" ELSE "commit"
      BY <1>0, <2>17 DEF WriteObs, Goto
    <3>2. hand[p] \in logged /\ WritesObs(hand[p]) /\ obs \subseteq hand[p].obs /\ hand[p].id = issued
      BY <1>0, <2>4, <3>1 DEF LockFollows, Follows, Knows
    <3>3. FilesForward
      BY <2>5, <3>1, <3>2 DEF FilesForward
    <3>4. hand[p].id \in obs'
      BY <2>5, <3>1, <3>2
    <3>5. Knows(p)'
      BY <3>1, <3>2, <3>4 DEF Knows, Applied
    <3> QED
      BY <2>7, <2>10, <2>17, <3>1, <3>3, <3>5 DEF WriteObs, history
  <2>18. CASE WriteGoal(p)
    <3>1. /\ pc[p] = "writeGoal" /\ goal' = hand[p].id /\ obs' = obs /\ hand' = hand /\ issued' = issued
          /\ pc'[p] = "commit"
      BY <1>0, <2>18 DEF WriteGoal, Goto
    <3>2. hand[p] \in logged /\ hand[p].id = issued /\ (WritesObs(hand[p]) => hand[p].id \in obs)
      BY <1>0, <2>4, <3>1 DEF LockFollows, Follows, Knows
    <3>3. FilesForward
      BY <2>5, <3>1, <3>2 DEF FilesForward
    <3>4. Applied(hand[p])'
      BY <2>5, <3>1, <3>2 DEF Applied
    <3>5. Knows(p)'
      BY <3>1, <3>2, <3>4 DEF Knows
    <3> QED
      BY <2>7, <2>10, <2>18, <3>1, <3>3, <3>5 DEF WriteGoal, history
  <2>19. CASE WriteFails(p)
    <3>1. Knows(p)'
      BY <1>0, <2>19 DEF WriteFails, Knows
    <3> QED
      BY <2>6, <2>19, <3>1 DEF WriteFails
  <2>20. CASE LogCommit(p)
    <3>1. hand[p] \in logged /\ Applied(hand[p])
      BY <1>0, <2>4, <2>20 DEF LogCommit, Goto, LockFollows, Follows, Knows
    <3>2. Knows(p)'
      BY <1>0, <2>20 DEF LogCommit, Goto, Knows
    <3> QED
      BY <2>8, <2>20, <3>1, <3>2 DEF LogCommit, history
  <2>21. CASE CompactRead(p)
    <3>1. Knows(p)'
      BY <1>0, <2>21 DEF CompactRead, Goto, Knows
    <3> QED
      BY <2>6, <2>21, <3>1 DEF CompactRead, history
  <2>22. CASE CompactSwap(p)
    <3>1. /\ pc[p] = "swap" /\ pc'[p] = "unlock" /\ wal' = todo[p] /\ UNCHANGED <<files, issued, logged>>
      BY <1>0, <2>22 DEF CompactSwap, Swap, Goto, history
    <3>2. Uncommitted(wal) \subseteq todo[p] /\ Uncommitted(wal') = todo[p]
      BY <1>0, <2>4, <3>1, CompactedAllOpen DEF Knows
    <3>3. Covered'
      BY <2>4, <3>1, <3>2 DEF Covered, Applied, Pending, files
    <3>4. FilesForward
      BY <2>5, <3>1 DEF FilesForward, files
    <3>5. \A q \in Proc \ {p} : Knows(q)'
      BY <2>1, <2>4, <2>10, <3>1, <3>4, ReaderKnows
    <3>6. Knows(p)'
      BY <3>1 DEF Knows
    <3> QED
      BY <3>3, <3>5, <3>6
  <2>23. CASE Crash(p)
    <3>1. Knows(p)'
      BY <1>0, <2>23 DEF Crash, Knows
    <3> QED
      BY <2>6, <2>23, <3>1 DEF Crash, history
  <2> QED
    BY <2>1, <2>11, <2>12, <2>13, <2>14, <2>15, <2>16, <2>17, <2>18, <2>19, <2>20, <2>21, <2>22, <2>23 DEF Recover, Write
<1> QED
  BY <1>1, <1>2

\* Each intent ever logged is in all of its files, or still in the log to be
\* replayed, whatever fails or dies, until a replay collides or a lock is robbed.
THEOREM NothingLoggedIsLost == Spec => []LogCovers
<1>1. Init => CoverInv
  BY DEF Init, CoverInv, Covered, Knows, Writing, Replaying
<1>2. StateInv /\ CoverInv /\ [Next]_vars => CoverInv'
  BY CoverKept, LockAssumption, GoalStateAssumption
<1>3. StateInv /\ CoverInv => LogCovers
  BY DEF CoverInv, Covered, Undisturbed, LogCovers
<1> QED
  BY <1>1, <1>2, <1>3, StateAgrees, PTL DEF Spec

\* With one process at a time and no failed write: only the last intent can be
\* without a commit, and only while it is being written or before its replay.
LastOpen ==
  \A r \in Uncommitted(wal) : r.id = issued /\ (WritesObs(r) => obs \subseteq r.obs)

OpenFor(p) ==
  /\ pc[p] \in {"idle", "lock", "unlock", "read", "intent", "compact", "swap"} => Uncommitted(wal) = {}
  /\ pc[p] \in Writing => hand[p].id = issued /\ Uncommitted(wal) \subseteq {hand[p]}
  /\ pc[p] \in Replaying \cup {"swap"} => todo[p] = Uncommitted(wal)
  /\ pc[p] = "intent" /\ WritesObs(hand[p]) => hand[p].obs = obs

Solitary ==
  ~shared =>
    /\ ~collided
    /\ \A p, q \in Proc : pc[p] # "down" /\ pc[q] # "down" => p = q
    /\ LastOpen
    /\ \A p \in Proc : OpenFor(p)
LEMMA SolitaryKept ==
  ASSUME LockAssumption, GoalStateAssumption, StateInv, Solitary, [Next]_vars
  PROVE  Solitary'
<1> USE DEF StateTyped, Replaying, Working, Writing
<1>0. /\ StateTyped /\ Numbered /\ LockFollows /\ StateTyped'
  BY StateKept DEF StateInv, LockInv
<1>1. CASE UNCHANGED vars
  BY <1>1 DEF vars, files, history, Solitary, LastOpen, OpenFor
<1>2. CASE Next
  <2>1. PICK p \in Proc :
          /\ Recover(p) \/ Write(p) \/ Crash(p)
          /\ \A q \in Proc \ {p} :
               pc'[q] = pc[q] /\ at'[q] = at[q] /\ hand'[q] = hand[q] /\ todo'[q] = todo[q]
          /\ logged \subseteq logged'
    BY <1>2, OthersStay
  <2>2. SUFFICES ASSUME ~shared'
                 PROVE  ~collided' /\ (\A q, x \in Proc : pc'[q] # "down" /\ pc'[x] # "down" => q = x)
                        /\ LastOpen' /\ \A q \in Proc : OpenFor(q)'
    BY DEF Solitary
  <2>3. ~shared
    BY <1>0, <2>1, <2>2 DEF Recover, Start, Replay, ReplayObs, ReplayGoal, ReplayCommit, Write, TakeLock,
       LockStep, ReadObs, LogIntent, WriteObs, WriteGoal, WriteFails, LogCommit, CompactRead, CompactSwap, Crash, history
  <2>4. /\ ~collided /\ LastOpen /\ OpenFor(p)
        /\ \A q, x \in Proc : pc[q] # "down" /\ pc[x] # "down" => q = x
    BY <2>3 DEF Solitary
  \* p is the only one that is up, before and after.
  <2>5. \A q \in Proc \ {p} : pc[q] = "down" /\ pc'[q] = "down"
    <3>1. CASE Start(p)
      BY <2>1, <2>2, <3>1 DEF Start
    <3>2. ASSUME NEW r \in todo[p], Replay(p, r) PROVE pc[p] # "down"
      BY <3>2 DEF Replay, ReplayObs, ReplayGoal, ReplayCommit
    <3>3. Write(p) \/ Crash(p) => pc[p] # "down"
      <4>1. CASE LockStep(p)
        BY <1>0, <4>1 DEF LockStep, FreeLegacy, AtStep, LockFollows, Follows, Away, Place
      <4> QED
        BY <4>1 DEF Write, TakeLock, Goto, ReadObs, LogIntent, WriteObs, WriteGoal, WriteFails, LogCommit,
           CompactRead, CompactSwap, Crash
    <3> QED
      BY <2>1, <2>4, <3>1, <3>2, <3>3 DEF Recover
  <2>6. /\ \A q \in Proc \ {p} : OpenFor(q)'
        /\ \A q, x \in Proc : pc'[q] # "down" /\ pc'[x] # "down" => q = x
    BY <2>5 DEF OpenFor
  <2>7. SUFFICES ~collided' /\ LastOpen' /\ OpenFor(p)'
    BY <2>6
  <2>8. /\ \A i \in logged : i \in Intents /\ i.id \in Nat /\ i.id <= issued
        /\ goal \in Nat /\ goal <= issued /\ issued \in Nat
        /\ Uncommitted(wal) \subseteq logged
    BY <1>0, IntentNotCommit, UncommittedLogged DEF Numbered
  <2>9. ASSUME UNCHANGED <<obs, wal, issued>> PROVE LastOpen'
    BY <2>4, <2>9 DEF LastOpen
  <2>10. CASE Start(p)
    <3>1. OpenFor(p)'
      BY <1>0, <2>10 DEF Start, Continue, OpenFor
    <3> QED
      BY <2>4, <2>9, <2>10, <3>1 DEF Start, files
  <2>11. ASSUME NEW r \in todo[p], Replay(p, r) PROVE ~collided' /\ LastOpen' /\ OpenFor(p)'
    <3>1. /\ pc[p] \in Replaying /\ todo[p] = Uncommitted(wal)
          /\ r \in logged /\ r.id = issued /\ (WritesObs(r) => obs \subseteq r.obs)
      BY <2>4, <2>8, <2>11 DEF Replay, ReplayObs, ReplayGoal, ReplayCommit, OpenFor, LastOpen
    <3>2. \A q \in Proc : ~Holding(q)
      BY <1>0, <2>5, <3>1 DEF LockFollows, Follows, Holding, AtStep, Away, Place
    <3>3. \A x \in Uncommitted(wal) : x = r
      BY <1>0, <2>4, <2>8, <3>1 DEF LastOpen, Numbered
    <3>4. CASE ReplayObs(p, r)
      <4>1. /\ obs' = r.obs /\ UNCHANGED <<wal, issued, todo, hand>>
            /\ pc'[p] \in {"replayGoal", "replayCommit"} /\ ~collided'
        BY <1>0, <2>4, <3>1, <3>2, <3>4 DEF ReplayObs, Collides
      <4> QED
        BY <2>4, <3>1, <3>3, <4>1 DEF LastOpen, OpenFor
    <3>5. CASE ReplayGoal(p, r)
      <4>1. /\ UNCHANGED <<obs, wal, issued, todo, hand>> /\ pc'[p] = "replayCommit" /\ ~collided'
        BY <1>0, <2>4, <2>8, <3>1, <3>2, <3>5 DEF ReplayGoal, Collides
      <4> QED
        BY <2>9, <3>1, <4>1 DEF OpenFor
    <3>6. CASE ReplayCommit(p, r)
      <4>1. /\ UNCHANGED <<obs, issued, hand, collided>> /\ todo'[p] = todo[p] \ {r}
            /\ pc'[p] = IF todo[p] \ {r} = {} THEN "idle" ELSE "replay"
            /\ wal' = wal \cup {Commit(r)}
        BY <1>0, <3>6 DEF ReplayCommit, ReplayCommitted, Continue, files, history
      <4>2. Uncommitted(wal') = Uncommitted(wal) \ {r}
        BY <1>0, <3>1, <4>1, CommitSettles
      <4>3. LastOpen'
        BY <2>4, <4>1, <4>2 DEF LastOpen
      <4> QED
        BY <2>4, <3>1, <4>1, <4>2, <4>3 DEF OpenFor
    <3> QED
      BY <2>11, <3>4, <3>5, <3>6 DEF Replay
  <2>12. CASE TakeLock(p)
    <3>1. OpenFor(p)'
      BY <1>0, <2>4, <2>12 DEF TakeLock, Goto, OpenFor
    <3> QED
      BY <2>4, <2>9, <2>12, <3>1 DEF TakeLock, files, history
  <2>13. CASE LockStep(p)
    <3>1. pc[p] \in {"lock", "unlock"}
      BY <1>0, <2>13 DEF LockStep, FreeLegacy, LockFollows, Follows, Holding, AtStep, Away, Place
    <3>2. pc'[p] \in {"lock", "unlock", "idle", "read"} \/ (pc'[p] = "intent" /\ ~WritesObs(hand'[p]))
      <4>1. ASSUME NEW op \in WriteOps, Begin(p, op)
            PROVE  pc'[p] = "read" \/ (pc'[p] = "intent" /\ ~WritesObs(hand'[p]))
        <5>1. hand'[p].op = op /\ pc'[p] = IF op = "save_goal" THEN "intent" ELSE "read"
          BY <1>0, <4>1 DEF Begin, Intents
        <5> QED
          BY <5>1 DEF WritesObs
      <4> QED
        BY <1>0, <2>13, <3>1, <4>1 DEF LockStep
    <3>3. OpenFor(p)'
      BY <2>4, <2>13, <3>1, <3>2 DEF LockStep, OpenFor
    <3> QED
      BY <2>4, <2>9, <2>13, <3>3 DEF LockStep, files, history
  <2>14. CASE ReadObs(p)
    <3>1. OpenFor(p)'
      BY <1>0, <2>4, <2>14 DEF ReadObs, Goto, OpenFor, files
    <3> QED
      BY <2>4, <2>9, <2>14, <3>1 DEF ReadObs, files, history
  <2>15. CASE LogIntent(p)
    <3>1. UNCHANGED <<files, todo, collided>>
      BY <2>15 DEF LogIntent
    <3>2. /\ wal' = wal \cup {Made(p)} /\ hand'[p] = Made(p) /\ issued' = issued + 1
          /\ pc'[p] = (IF WritesObs(Made(p)) THEN "writeObs" ELSE "writeGoal")
          /\ pc[p] = "intent"
      BY <1>0, <2>15, LogIntentMakes
    <3>3. Uncommitted(wal') = Uncommitted(wal) \cup {Made(p)}
      <4>1. Made(p) \in Intents /\ Made(p).id = issued + 1
        BY <1>0, MadeIsIntent
      <4> QED
        BY <1>0, <3>2, <4>1, IntentOpens
    <3>4. /\ Uncommitted(wal') = {Made(p)} /\ Made(p).id = issued'
          /\ WritesObs(Made(p)) => obs' \subseteq Made(p).obs
      <4>1. Uncommitted(wal) = {} /\ (WritesObs(hand[p]) => hand[p].obs = obs)
        BY <2>4, <3>2 DEF OpenFor
      <4>2. /\ Made(p).id = issued + 1 /\ (WritesObs(Made(p)) <=> WritesObs(hand[p]))
            /\ WritesObs(Made(p)) => Made(p).obs = hand[p].obs \cup {issued + 1}
        BY <1>0, MadeIsIntent
      <4> QED
        BY <3>1, <3>2, <3>3, <4>1, <4>2 DEF files
    <3> QED
      BY <2>4, <3>1, <3>2, <3>4 DEF LastOpen, OpenFor
  <2>16. CASE WriteObs(p)
    <3>1. /\ pc[p] = "writeObs" /\ obs' = hand[p].obs /\ hand' = hand /\ issued' = issued /\ wal' = wal
          /\ pc'[p] \in {"writeGoal", "commit"} /\ collided' = collided
      BY <1>0, <2>16 DEF WriteObs, Goto, history
    <3> QED
      BY <2>4, <3>1 DEF LastOpen, OpenFor
  <2>17. CASE WriteGoal(p)
    <3>1. OpenFor(p)'
      BY <1>0, <2>4, <2>17 DEF WriteGoal, Goto, OpenFor
    <3> QED
      BY <2>4, <2>9, <2>17, <3>1 DEF WriteGoal, history
  <2>18. CASE WriteFails(p)
    <3>1. pc[p] \in {"compact", "swap"} /\ pc'[p] = "unlock" /\ wal' = wal
      BY <1>0, <2>2, <2>18 DEF WriteFails
    <3>2. OpenFor(p)'
      BY <2>4, <3>1 DEF OpenFor
    <3> QED
      BY <2>4, <2>9, <2>18, <3>2 DEF WriteFails, files
  <2>19. CASE LogCommit(p)
    <3>1. /\ pc[p] = "commit" /\ pc'[p] \in {"compact", "unlock"} /\ wal' = wal \cup {Commit(hand[p])}
          /\ UNCHANGED <<obs, issued, collided>>
      BY <1>0, <2>19 DEF LogCommit, Goto, files, history
    <3>2. hand[p] \in logged
      BY <1>0, <3>1 DEF LockFollows, Follows
    <3>3. Uncommitted(wal') = Uncommitted(wal) \ {hand[p]}
      BY <1>0, <3>1, <3>2, CommitSettles
    <3>4. Uncommitted(wal') = {}
      BY <2>4, <3>1, <3>3 DEF OpenFor
    <3> QED
      BY <2>4, <3>1, <3>4 DEF LastOpen, OpenFor
  <2>20. CASE CompactRead(p)
    <3>1. OpenFor(p)'
      BY <1>0, <2>4, <2>20 DEF CompactRead, Goto, OpenFor
    <3> QED
      BY <2>4, <2>9, <2>20, <3>1 DEF CompactRead, files, history
  <2>21. CASE CompactSwap(p)
    <3>1. pc[p] = "swap" /\ pc'[p] = "unlock" /\ wal' = todo[p] /\ UNCHANGED <<obs, issued, collided>>
      BY <1>0, <2>21 DEF CompactSwap, Swap, Goto, files, history
    <3>2. Uncommitted(wal') = todo[p] /\ todo[p] = {}
      BY <1>0, <2>4, <3>1, CompactedAllOpen DEF OpenFor
    <3> QED
      BY <2>4, <3>1, <3>2 DEF LastOpen, OpenFor
  <2>22. CASE Crash(p)
    <3>1. OpenFor(p)'
      BY <1>0, <2>22 DEF Crash, OpenFor
    <3> QED
      BY <2>4, <2>9, <2>22, <3>1 DEF Crash, files, history
  <2> QED
    BY <2>1, <2>10, <2>11, <2>12, <2>13, <2>14, <2>15, <2>16, <2>17, <2>18, <2>19, <2>20, <2>21, <2>22 DEF Recover, Write
<1> QED
  BY <1>1, <1>2

\* With one process at a time, whose writes do not fail, no replay undoes a newer
\* write or runs beside a writer, wherever that process crashes.
THEOREM ReplayIsHarmlessAlone == Spec => []ReplayUndoesNothing
<1>1. Init => Solitary
  BY DEF Init, Solitary, LastOpen, OpenFor, Uncommitted, Replaying, Writing
<1>2. StateInv /\ Solitary /\ [Next]_vars => Solitary'
  BY SolitaryKept, LockAssumption, GoalStateAssumption
<1>3. Solitary => ReplayUndoesNothing
  BY DEF Solitary, ReplayUndoesNothing
<1> QED
  BY <1>1, <1>2, <1>3, StateAgrees, PTL DEF Spec

=============================================================================
