--------------------------- MODULE ScheduleProofs ---------------------------
(***************************************************************************)
(* Proofs about ScheduleEngine, for any entries, calls, engines and bounds: *)
(* as long as nobody shares the lock, a write loses nothing and an entry    *)
(* that rests stays off.  The argument: without sharing, at most one call   *)
(* is inside the lock, what it has in memory is the file, and no list, no   *)
(* execution and no write under way concerns a resting entry.              *)
(***************************************************************************)
EXTENDS ScheduleEngine, TLAPS

\* A call inside the lock is at a section, and a call that works on an entry
\* has one.
GoodCall(r) ==
  /\ r \in CallStates
  /\ r.step \in {"find", "apply", "escalate", "change"} => r.entry \in Entries
  /\ r.step = "escalate" => TargetOf[r.entry] \in Entries
  /\ r.step = "find" => r.way # "cadence"
  /\ r.read # "none" => r.step \in Sections
  /\ r.mine => r.read # "none"

GoodCalls == \A c \in Calls : GoodCall(calls[c])

\* Who writes is inside the lock.
WritersInside == \A c \in Calls : buf[c] # NoBuf => Inside(c)

\* Who is inside the lock is the holder, and has read the file as it is.
Alone ==
  \A c \in Calls :
    /\ Inside(c) => holder = c /\ calls[c].mine /\ calls[c].read = "current"
    /\ Inside(c) /\ buf[c] = NoBuf => mem[Engine(c)] = file

\* No list, execution or write is about to switch entry e on.
LeftAlone(e) ==
  /\ ~file[e].enabled
  /\ \A c \in Calls :
       /\ e \notin calls[c].todo /\ ~Executes(c, e)
       /\ buf[c] # NoBuf /\ buf[c][e].enabled => e \in SwitchedOn(c)

IInv ==
  /\ TypeOK /\ GoodCalls /\ WritersInside
  /\ ~shared => ~lost /\ Alone /\ \A e \in resting : LeftAlone(e)

-----------------------------------------------------------------------------
(* The records *)

\* What a call goes on as is outside the lock, and well formed.
IsOutside(r) == GoodCall(r) /\ r.read = "none" /\ ~r.mine

LEMMA IdleOutside == IsOutside(Idle)
  BY DEF IsOutside, GoodCall, Idle, CallStates, Steps, Sections, Readings, Ways, OpKinds

LEMMA OnwardOutside ==
  ASSUME NEW todo \in SUBSET Entries
  PROVE  /\ IsOutside(Onward(todo)) /\ Onward(todo).todo = todo
         /\ Onward(todo).step \in {"idle", "next"}
  BY DEF Onward, IsOutside, GoodCall, Idle, CallStates, Steps, Sections, Readings, Ways, OpKinds

LEMMA AboutOutside ==
  ASSUME NEW c \in Calls, GoodCall(calls[c]), NEW e \in Entries, NEW way \in Ways,
         NEW step \in {"find", "apply", "escalate"},
         step = "find" => way # "cadence", step = "escalate" => TargetOf[e] \in Entries
  PROVE  /\ IsOutside(About(c, step, e, way)) /\ About(c, step, e, way).todo = calls[c].todo
         /\ About(c, step, e, way).step = step /\ About(c, step, e, way).entry = e
         /\ About(c, step, e, way).way = way
  BY DEF About, IsOutside, GoodCall, Idle, CallStates, Steps, Sections, Readings, Ways, OpKinds

LEMMA FireTimeTyped == TypeOK => NextFire \in 0..(MaxNow + 1)
  BY BoundAssumption DEF TypeOK, NextFire

\* A manual run leaves an entry off that is off.
LEMMA OutcomeTyped ==
  ASSUME TypeOK, NEW entry \in EntryStates, NEW way \in Ways, NEW ok \in BOOLEAN
  PROVE  /\ Outcome(entry, way, ok) \in EntryStates
         /\ way = "manual" /\ ~entry.enabled => ~Outcome(entry, way, ok).enabled
<1> DEFINE failures == IF ok THEN 0 ELSE IF entry.failures < Threshold THEN entry.failures + 1
                       ELSE Threshold
<1>1. failures \in 0..Threshold /\ (failures < Threshold) \in BOOLEAN
  BY BoundAssumption DEF EntryStates
<1>2. Outcome(entry, way, ok) = [entry EXCEPT !.at = NextFire, !.failures = failures,
                                   !.enabled = (@ \/ way # "manual") /\ failures < Threshold]
  BY DEF Outcome
<1> HIDE DEF failures
<1> QED
  BY <1>1, <1>2, FireTimeTyped DEF EntryStates

\* A command to pause leaves no entry on.
LEMMA ChangedTyped ==
  ASSUME TypeOK, NEW entry \in EntryStates, NEW kind \in OpKinds
  PROVE  /\ Changed(entry, kind) \in EntryStates
         /\ kind = "pause" /\ ~entry.enabled => ~Changed(entry, kind).enabled
<1>0. 0 \in 0..(MaxNow + 1) /\ 0 \in 0..Threshold
  BY BoundAssumption
<1>1. Old \in EntryStates /\ Unborn \in EntryStates /\ ~Unborn.enabled
  BY <1>0 DEF Old, Unborn, EntryStates
<1>a. Removed \in EntryStates /\ ~Removed.enabled
  BY <1>1 DEF Removed, EntryStates
<1>2. (kind # "pause") \in BOOLEAN
  OBVIOUS
<1> QED
  BY <1>1, <1>a, <1>2, FireTimeTyped DEF Changed, EntryStates

LEMMA EntriesAreNoBuf ==
  ASSUME NEW entries \in [Entries -> EntryStates] PROVE entries # NoBuf
  BY EntriesAssumption DEF NoBuf

-----------------------------------------------------------------------------
(* The three ways a call moves *)

\* It goes on outside the lock, and takes no resting entry with it.
LEMMA GoesOn ==
  ASSUME IInv, NEW c \in Calls, NEW r, IsOutside(r), buf[c] = NoBuf,
         calls' = [calls EXCEPT ![c] = r], holder' = holder \/ Leave(c),
         UNCHANGED <<file, mem, buf, shared, lost>>, resting' \subseteq resting,
         now' \in 0..MaxNow, requests' \in 0..MaxRequests, faults' \in 0..MaxFaults,
         ~shared => \A e \in resting' :
           e \notin r.todo /\ (r.entry = e /\ r.way # "manual" => r.step # "apply")
  PROVE  IInv'
<1>1. TypeOK'
  BY DEF IInv, TypeOK, IsOutside, GoodCall, Leave
<1>2. \A d \in Calls : calls'[d] = IF d = c THEN r ELSE calls[d]
  BY DEF IInv, TypeOK
<1>3. GoodCalls'
  BY <1>2 DEF IInv, GoodCalls, GoodCall, IsOutside
<1>a. WritersInside'
  BY <1>2 DEF IInv, WritersInside, Inside
<1>4. ASSUME ~shared PROVE Alone'
  <2> SUFFICES ASSUME NEW d \in Calls
               PROVE  /\ Inside(d)' => holder' = d /\ calls'[d].mine /\ calls'[d].read = "current"
                      /\ Inside(d)' /\ buf'[d] = NoBuf => mem'[Engine(d)] = file'
    BY DEF Alone, Inside, Engine
  <2>1. Alone
    BY <1>4 DEF IInv
  <2>2. CASE d = c
    BY <1>2, <2>2 DEF IsOutside, Inside
  <2>3. CASE d # c
    <3>1. calls'[d] = calls[d] /\ Inside(d)' = Inside(d)
      BY <1>2, <2>3 DEF Inside
    <3>2. Inside(d) => holder' = d
      BY <2>1, <2>3 DEF Alone, Leave, Inside, IInv, GoodCalls, GoodCall
    <3> QED
      BY <2>1, <3>1, <3>2 DEF Alone
  <2> QED
    BY <2>2, <2>3
<1>5. ASSUME ~shared, NEW e \in resting' PROVE LeftAlone(e)'
  <2>1. LeftAlone(e)
    BY <1>5 DEF IInv
  <2>2. \A d \in Calls : e \notin calls'[d].todo /\ ~Executes(d, e)'
    BY <1>2, <1>5, <2>1 DEF LeftAlone, Executes
  <2>3. \A d \in Calls : buf'[d] # NoBuf /\ buf'[d][e].enabled => e \in SwitchedOn(d)'
    BY <1>2, <2>1 DEF LeftAlone, SwitchedOn
  <2> QED
    BY <2>1, <2>2, <2>3 DEF LeftAlone
<1> QED
  BY <1>1, <1>a, <1>3, <1>4, <1>5 DEF IInv

\* A call in memory is the same, but for the end of its execution.
SameButOk(d) ==
  /\ calls'[d] \in CallStates
  /\ \A f \in {"step", "read", "mine", "judges", "todo", "entry", "way", "kind"} :
       calls'[d][f] = calls[d][f]

\* It begins to write entries that switch no resting one on, unless it was told.
LEMMA BeginsToWrite ==
  ASSUME IInv, NEW c \in Calls, Inside(c), buf[c] = NoBuf,
         NEW entries \in [Entries -> EntryStates], Saves(c, entries),
         calls' \in [Calls -> CallStates], \A d \in Calls : SameButOk(d),
         ~shared => \A e \in resting : entries[e].enabled => e \in SwitchedOn(c)
  PROVE  IInv'
<1>1. TypeOK'
  BY EngineAssumption DEF IInv, TypeOK, Saves, bounds, Engine
<1>2. \A d \in Calls : /\ calls'[d].step = calls[d].step /\ calls'[d].read = calls[d].read
                       /\ calls'[d].mine = calls[d].mine /\ calls'[d].todo = calls[d].todo
                       /\ calls'[d].entry = calls[d].entry /\ calls'[d].way = calls[d].way
                       /\ calls'[d].kind = calls[d].kind
  BY DEF SameButOk
<1>3. GoodCalls'
  BY <1>2 DEF IInv, GoodCalls, GoodCall, SameButOk
<1>4. buf' = [buf EXCEPT ![c] = entries] /\ mem' = [mem EXCEPT ![Engine(c)] = entries]
        /\ UNCHANGED <<file, holder, shared, lost, resting>>
  BY DEF Saves
<1>a. WritersInside'
  BY <1>2, <1>4 DEF IInv, TypeOK, WritersInside, Inside
<1>5. ASSUME ~shared PROVE Alone'
  <2>1. Alone
    BY <1>5 DEF IInv
  <2>2. \A d \in Calls : Inside(d)' = Inside(d) /\ (Inside(d) => d = c)
    BY <1>2, <2>1 DEF Inside, Alone
  <2>3. buf'[c] # NoBuf
    BY <1>4, EntriesAreNoBuf DEF IInv, TypeOK
  <2>4. \A d \in Calls : d # c => buf'[d] = buf[d]
    BY <1>4 DEF IInv, TypeOK
  <2> QED
    BY <1>2, <1>4, <2>1, <2>2, <2>3, <2>4 DEF Alone
<1>6. ASSUME ~shared, NEW e \in resting PROVE LeftAlone(e)'
  <2>1. LeftAlone(e)
    BY <1>6 DEF IInv
  <2>2. \A d \in Calls : e \notin calls'[d].todo /\ ~Executes(d, e)'
    BY <1>2, <2>1 DEF LeftAlone, Executes
  <2>3. \A d \in Calls : buf'[d] # NoBuf /\ buf'[d][e].enabled => e \in SwitchedOn(d)'
    <3> SUFFICES ASSUME NEW d \in Calls, buf'[d] # NoBuf, buf'[d][e].enabled
                 PROVE  e \in SwitchedOn(d)'
      OBVIOUS
    <3>1. SwitchedOn(d)' = SwitchedOn(d)
      BY <1>2 DEF SwitchedOn
    <3>2. CASE d = c
      BY <1>4, <1>6, <3>1, <3>2 DEF IInv, TypeOK
    <3>3. CASE d # c
      BY <1>4, <2>1, <3>1, <3>3 DEF IInv, TypeOK, LeftAlone
    <3> QED
      BY <3>2, <3>3
  <2> QED
    BY <1>4, <2>1, <2>2, <2>3 DEF LeftAlone
<1> QED
  BY <1>1, <1>3, <1>a, <1>4, <1>5, <1>6 DEF IInv

LEMMA Unmoved == ASSUME TypeOK, UNCHANGED calls, GoodCalls, NEW d \in Calls PROVE SameButOk(d)
  BY DEF SameButOk, TypeOK

-----------------------------------------------------------------------------
(* The steps of a call *)

LEMMA SectionFacts ==
  ASSUME NEW c \in Calls, NEW step \in Sections, At(c, step)
  PROVE  Inside(c) /\ buf[c] = NoBuf /\ calls[c].step = step
  BY DEF At

LEMMA SectionOf ==
  ASSUME IInv, NEW c \in Calls, Inside(c), buf[c] = NoBuf
  PROVE  /\ mem[Engine(c)] \in [Entries -> EntryStates]
         /\ calls[c].todo \in SUBSET Entries /\ calls[c].way \in Ways
         /\ ~shared => mem[Engine(c)] = file
         /\ ~shared => \A e \in resting : ~mem[Engine(c)][e].enabled /\ e \notin calls[c].todo
  BY EngineAssumption DEF IInv, TypeOK, CallStates, Engine, Alone, LeftAlone

LEMMA NotInside ==
  ASSUME IInv, NEW c \in Calls, calls[c].step \notin Sections PROVE buf[c] = NoBuf
  BY DEF IInv, WritersInside, GoodCalls, GoodCall, Inside

LEMMA DueEnabled ==
  ASSUME NEW entries, NEW e \in Due(entries) PROVE entries[e].enabled /\ e \in Entries
  BY DEF Due, IsDue

LEMMA EndsOutside ==
  ASSUME IInv, NEW c \in Calls, Inside(c), buf[c] = NoBuf, NEW r, IsOutside(r), Ends(c, r),
         resting' \subseteq resting,
         ~shared => \A e \in resting' :
           e \notin r.todo /\ (r.entry = e /\ r.way # "manual" => r.step # "apply")
  PROVE  IInv'
<1>1. UNCHANGED <<now, requests, faults>> /\ now \in 0..MaxNow
        /\ requests \in 0..MaxRequests /\ faults \in 0..MaxFaults
  BY DEF Ends, bounds, IInv, TypeOK
<1> QED
  BY <1>1, GoesOn DEF Ends

LEMMA SavesUnmoved ==
  ASSUME IInv, NEW c \in Calls, Inside(c), buf[c] = NoBuf,
         NEW entries \in [Entries -> EntryStates], Saves(c, entries), UNCHANGED calls,
         ~shared => \A e \in resting : entries[e].enabled => e \in SwitchedOn(c)
  PROVE  IInv'
  BY Unmoved, BeginsToWrite DEF IInv, TypeOK

LEMMA ListStep == ASSUME IInv, NEW c \in Calls, List(c) PROVE IInv'
<1>1. Inside(c) /\ buf[c] = NoBuf /\ "list" \in Sections
  BY SectionFacts DEF List, Sections
<1> DEFINE due == Due(mem[Engine(c)])
<1>2. CASE Ends(c, Onward(due)) /\ UNCHANGED resting
  <2>1. due \in SUBSET Entries
    BY DEF Due
  <2>2. IsOutside(Onward(due)) /\ Onward(due).todo = due /\ Onward(due).step # "apply"
    BY <2>1, OnwardOutside
  <2>3. ~shared => \A e \in resting' : e \notin due
    BY <1>1, <1>2, SectionOf, DueEnabled
  <2> QED
    BY <1>1, <1>2, <2>2, <2>3, EndsOutside
<1>3. CASE Saves(c, mem[Engine(c)]) /\ UNCHANGED calls
  BY <1>1, <1>3, SectionOf, SavesUnmoved
<1> QED
  BY <1>2, <1>3 DEF List

LEMMA NextEntryStep == ASSUME IInv, NEW c \in Calls, NextEntry(c) PROVE IInv'
<1> SUFFICES ASSUME NEW e \in calls[c].todo,
                    calls' = [calls EXCEPT ![c] = [About(c, "apply", e, "cadence")
                                                     EXCEPT !.todo = @ \ {e}]],
                    calls[c].step = "next",
                    UNCHANGED <<file, mem, holder, buf, bounds, shared, lost, resting>>
             PROVE  IInv'
  BY DEF NextEntry
<1> DEFINE r == [About(c, "apply", e, "cadence") EXCEPT !.todo = @ \ {e}]
<1>1. e \in Entries /\ GoodCall(calls[c]) /\ calls[c].todo \subseteq Entries /\ "cadence" \in Ways
  BY DEF IInv, TypeOK, CallStates, GoodCalls, Ways
<1>2. IsOutside(r) /\ r.todo \subseteq calls[c].todo /\ r.entry = e
  BY <1>1 DEF About, IsOutside, GoodCall, Idle, CallStates, Steps, Sections, Readings, Ways, OpKinds
<1>3. buf[c] = NoBuf
  BY NotInside DEF Sections
<1>4. UNCHANGED <<now, requests, faults>> /\ now \in 0..MaxNow
        /\ requests \in 0..MaxRequests /\ faults \in 0..MaxFaults
  BY DEF bounds, IInv, TypeOK
<1>5. ~shared => \A f \in resting : f \notin calls[c].todo
  BY DEF IInv, LeftAlone
<1>6. ~shared => \A f \in resting' : f \notin r.todo /\ r.entry # f
  BY <1>2, <1>5
<1>7. calls' = [calls EXCEPT ![c] = r] /\ UNCHANGED <<file, mem, buf, shared, lost, resting, holder>>
  OBVIOUS
<1> HIDE DEF r
<1> QED
  BY <1>2, <1>3, <1>4, <1>6, <1>7, GoesOn

LEMMA FindStep == ASSUME IInv, NEW c \in Calls, Find(c) PROVE IInv'
<1> DEFINE e == calls[c].entry
           way == calls[c].way
           r == IF Exists(mem[Engine(c)][e]) THEN About(c, "apply", e, way)
                ELSE Onward(calls[c].todo)
<1>1. Inside(c) /\ buf[c] = NoBuf /\ calls[c].step = "find"
  BY SectionFacts DEF Find, Sections
<1>2. GoodCall(calls[c]) /\ e \in Entries /\ way \in Ways /\ calls[c].todo \in SUBSET Entries
        /\ way # "cadence"
  BY <1>1 DEF IInv, GoodCalls, GoodCall, CallStates
<1>3. IsOutside(r) /\ r.todo = calls[c].todo
        /\ (r.step = "apply" => r.entry = e /\ r.way = way)
  <2>1. CASE Exists(mem[Engine(c)][e])
    BY <1>2, <2>1, AboutOutside
  <2>2. CASE ~Exists(mem[Engine(c)][e])
    <3>1. r = Onward(calls[c].todo)
      BY <2>2
    <3> QED
      BY <1>2, <3>1, OnwardOutside
  <2> QED
    BY <2>1, <2>2
<1>4. Ends(c, r) /\ resting' = IF way = "target" THEN resting \ {e} ELSE resting
  BY DEF Find
<1>5. resting' \subseteq resting /\ (way # "manual" => e \notin resting')
  BY <1>2, <1>4 DEF Ways
<1>6. ~shared => \A f \in resting' : f \notin calls[c].todo
  BY <1>5 DEF IInv, LeftAlone
<1>7. \A f \in resting' : r.entry = f /\ r.way # "manual" => r.step # "apply"
  BY <1>3, <1>5
<1> HIDE DEF r, e, way
<1> QED
  BY <1>1, <1>3, <1>4, <1>5, <1>6, <1>7, EndsOutside

LEMMA ApplyStep == ASSUME IInv, NEW c \in Calls, Apply(c) PROVE IInv'
<1> DEFINE e == calls[c].entry
           way == calls[c].way
           entries == mem[Engine(c)]
<1>1. Inside(c) /\ buf[c] = NoBuf /\ calls[c].step = "apply"
  BY SectionFacts DEF Apply, Sections
<1>2. GoodCall(calls[c]) /\ e \in Entries /\ way \in Ways /\ calls[c].todo \in SUBSET Entries
  BY <1>1 DEF IInv, GoodCalls, GoodCall, CallStates
<1>3. /\ entries \in [Entries -> EntryStates]
      /\ ~shared => \A f \in resting : ~entries[f].enabled /\ f \notin calls[c].todo
  BY <1>1, SectionOf
<1>4. ASSUME NEW ok \in BOOLEAN, calls' = [calls EXCEPT ![c].ok = ok],
             Saves(c, [entries EXCEPT ![e] = Outcome(@, way, ok)])
      PROVE  IInv'
  <2> DEFINE written == [entries EXCEPT ![e] = Outcome(@, way, ok)]
  <2>1. /\ Outcome(entries[e], way, ok) \in EntryStates
        /\ way = "manual" /\ ~entries[e].enabled => ~Outcome(entries[e], way, ok).enabled
    BY <1>2, <1>3, OutcomeTyped DEF IInv
  <2>2. written \in [Entries -> EntryStates]
    BY <1>2, <1>3, <2>1
  <2>3. calls' \in [Calls -> CallStates] /\ \A d \in Calls : SameButOk(d)
    BY <1>4 DEF IInv, TypeOK, CallStates, SameButOk
  <2>4. ~shared => \A f \in resting : f = e => way = "manual"
    BY <1>1 DEF IInv, LeftAlone, Executes
  <2>5. ~shared => \A f \in resting : ~written[f].enabled
    BY <1>2, <1>3, <2>1, <2>4 DEF IInv, TypeOK
  <2> QED
    BY <1>1, <1>4, <2>2, <2>3, <2>5, BeginsToWrite
<1>5. ASSUME Ends(c, Onward(calls[c].todo)), UNCHANGED resting PROVE IInv'
  BY <1>1, <1>2, <1>3, <1>5, OnwardOutside, EndsOutside
<1> QED
  BY <1>4, <1>5 DEF Apply

LEMMA EscalateStep == ASSUME IInv, NEW c \in Calls, Escalate(c) PROVE IInv'
<1>1. Inside(c) /\ buf[c] = NoBuf /\ calls[c].step = "escalate"
  BY SectionFacts DEF Escalate, Sections
<1>2. calls[c].todo \in SUBSET Entries
  BY <1>1, SectionOf
<1>3. ASSUME Ends(c, Onward(calls[c].todo)), UNCHANGED resting PROVE IInv'
  BY <1>1, <1>2, <1>3, SectionOf, OnwardOutside, EndsOutside
<1>4. ASSUME Saves(c, mem[Engine(c)]), UNCHANGED calls PROVE IInv'
  BY <1>1, <1>4, SectionOf, SavesUnmoved
<1> QED
  BY <1>3, <1>4 DEF Escalate

LEMMA ChangeStep == ASSUME IInv, NEW c \in Calls, Change(c) PROVE IInv'
<1> DEFINE e == calls[c].entry
           entries == mem[Engine(c)]
           written == [entries EXCEPT ![e] = Changed(@, calls[c].kind)]
<1>1. Inside(c) /\ buf[c] = NoBuf /\ calls[c].step = "change"
  BY SectionFacts DEF Change, Sections
<1>2. e \in Entries /\ calls[c].kind \in OpKinds
  BY <1>1 DEF IInv, GoodCalls, GoodCall, CallStates
<1>3. /\ entries \in [Entries -> EntryStates]
      /\ ~shared => \A f \in resting : ~entries[f].enabled
  BY <1>1, SectionOf
<1>4. /\ Changed(entries[e], calls[c].kind) \in EntryStates
      /\ calls[c].kind = "pause" /\ ~entries[e].enabled
           => ~Changed(entries[e], calls[c].kind).enabled
  BY <1>2, <1>3, ChangedTyped DEF IInv
<1>5. written \in [Entries -> EntryStates]
  BY <1>2, <1>3, <1>4
<1>6. ~shared => \A f \in resting : written[f].enabled => f \in SwitchedOn(c)
  BY <1>1, <1>2, <1>3, <1>4 DEF IInv, TypeOK, SwitchedOn
<1>7. Saves(c, written) /\ UNCHANGED calls
  BY DEF Change
<1> HIDE DEF written
<1> QED
  BY <1>1, <1>5, <1>6, <1>7, SavesUnmoved

-----------------------------------------------------------------------------
(* The steps by which a call begins, waits and gives up *)

LEMMA StartsOutside ==
  ASSUME IInv, NEW c \in Calls, NEW r, IsOutside(r), Starts(c, r), r.todo = {},
         r.way # "manual" => r.step # "apply", requests' \in 0..MaxRequests
  PROVE  IInv'
<1>1. buf[c] = NoBuf
  BY NotInside DEF Starts, Sections
<1>2. UNCHANGED <<now, faults>> /\ now \in 0..MaxNow /\ faults \in 0..MaxFaults
  BY DEF Starts, IInv, TypeOK
<1> QED
  BY <1>1, <1>2, GoesOn DEF Starts

LEMMA RequestCounted == ASSUME IInv, Requested PROVE requests' \in 0..MaxRequests
  BY BoundAssumption DEF IInv, TypeOK, Requested

LEMMA FaultCounted == ASSUME IInv, Fault PROVE faults' \in 0..MaxFaults
  BY BoundAssumption DEF IInv, TypeOK, Fault

LEMMA BeginStep ==
  ASSUME IInv, NEW c \in Calls,
         \/ Tick(c)
         \/ \E e \in Entries : RunNow(c, e)
         \/ \E e \in Entries, kind \in OpKinds : Command(c, e, kind)
  PROVE  IInv'
<1>1. CASE Tick(c)
  <2> DEFINE r == [Idle EXCEPT !.step = "list"]
  <2>1. IsOutside(r) /\ r.todo = {} /\ r.step = "list"
    BY DEF IsOutside, GoodCall, Idle, CallStates, Steps, Sections, Readings, Ways, OpKinds
  <2>2. Starts(c, r) /\ requests' \in 0..MaxRequests
    BY <1>1 DEF Tick, IInv, TypeOK
  <2> HIDE DEF r
  <2> QED
    BY <2>1, <2>2, StartsOutside
<1>2. ASSUME NEW e \in Entries, RunNow(c, e) PROVE IInv'
  <2> DEFINE r == [Idle EXCEPT !.step = "find", !.entry = e, !.way = "manual"]
  <2>1. IsOutside(r) /\ r.todo = {} /\ r.step = "find"
    BY DEF IsOutside, GoodCall, Idle, CallStates, Steps, Sections, Readings, Ways, OpKinds
  <2>2. Starts(c, r) /\ requests' \in 0..MaxRequests
    BY <1>2, RequestCounted DEF RunNow
  <2> HIDE DEF r
  <2> QED
    BY <2>1, <2>2, StartsOutside
<1>3. ASSUME NEW e \in Entries, NEW kind \in OpKinds, Command(c, e, kind) PROVE IInv'
  <2> DEFINE r == [Idle EXCEPT !.step = "change", !.entry = e, !.kind = kind]
  <2>1. IsOutside(r) /\ r.todo = {} /\ r.step = "change"
    BY DEF IsOutside, GoodCall, Idle, CallStates, Steps, Sections, Readings, Ways, OpKinds
  <2>2. Starts(c, r) /\ requests' \in 0..MaxRequests
    BY <1>3, RequestCounted DEF Command
  <2> HIDE DEF r
  <2> QED
    BY <2>1, <2>2, StartsOutside
<1> QED
  BY <1>1, <1>2, <1>3

LEMMA TimesOutStep == ASSUME IInv, NEW c \in Calls, TimesOut(c) PROVE IInv'
<1>1. Idle.todo = {} /\ Idle.step # "apply"
  BY DEF Idle
<1>2. buf[c] = NoBuf
  BY DEF TimesOut, IInv, WritersInside
<1>3. UNCHANGED <<now, requests>> /\ now \in 0..MaxNow /\ requests \in 0..MaxRequests
        /\ faults' \in 0..MaxFaults
  BY FaultCounted DEF TimesOut, IInv, TypeOK
<1> QED
  BY <1>1, <1>2, <1>3, IdleOutside, GoesOn DEF TimesOut

\* A call that judges, or removes, changes nothing else of its own.
LEMMA JudgeStep ==
  ASSUME IInv, NEW c \in Calls, JudgeStale(c) \/ RemoveStale(c) PROVE IInv'
<1>1. PICK b \in BOOLEAN : calls' = [calls EXCEPT ![c].judges = b]
  BY DEF JudgeStale, RemoveStale
<1>2. UNCHANGED <<file, mem, buf, bounds, lost, resting>>
  BY DEF JudgeStale, RemoveStale
<1>3. calls' \in [Calls -> CallStates] /\ \A d \in Calls :
        /\ calls'[d].step = calls[d].step /\ calls'[d].read = calls[d].read
        /\ calls'[d].mine = calls[d].mine /\ calls'[d].todo = calls[d].todo
        /\ calls'[d].entry = calls[d].entry /\ calls'[d].way = calls[d].way
        /\ calls'[d].kind = calls[d].kind
  BY <1>1 DEF IInv, TypeOK, CallStates
<1>4. TypeOK'
  BY <1>2, <1>3 DEF IInv, TypeOK, bounds, JudgeStale, RemoveStale
<1>5. GoodCalls' /\ WritersInside'
  BY <1>2, <1>3 DEF IInv, GoodCalls, GoodCall, WritersInside, Inside
<1>6. ASSUME ~shared' PROVE ~shared /\ (holder' = holder \/ holder \notin Calls)
  BY <1>6 DEF JudgeStale, RemoveStale, IInv, TypeOK
<1>7. ASSUME ~shared' PROVE Alone'
  <2>1. Alone
    BY <1>6, <1>7 DEF IInv
  <2>2. \A d \in Calls : Inside(d) => holder' = d
    BY <1>6, <1>7, <2>1 DEF Alone
  <2> QED
    BY <1>2, <1>3, <2>1, <2>2 DEF Alone, Inside, Engine
<1>8. ASSUME ~shared', NEW e \in resting PROVE LeftAlone(e)'
  <2>1. LeftAlone(e)
    BY <1>6, <1>8 DEF IInv
  <2> QED
    BY <1>2, <1>3, <2>1 DEF LeftAlone, Executes, SwitchedOn
<1> QED
  BY <1>2, <1>4, <1>5, <1>6, <1>7, <1>8 DEF IInv

LEMMA EnterStep == ASSUME IInv, NEW c \in Calls, Enter(c) PROVE IInv'
<1> DEFINE m == ~Beside(c)
<1>1. m \in BOOLEAN /\ calls' = [calls EXCEPT ![c].read = "current", ![c].mine = m]
  BY DEF Enter
<1>2. UNCHANGED <<file, buf, bounds, lost, resting>> /\ mem' = [mem EXCEPT ![Engine(c)] = file]
  BY DEF Enter
<1>3. calls' \in [Calls -> CallStates] /\ \A d \in Calls :
        /\ calls'[d].step = calls[d].step /\ calls'[d].todo = calls[d].todo
        /\ calls'[d].entry = calls[d].entry /\ calls'[d].way = calls[d].way
        /\ calls'[d].kind = calls[d].kind
        /\ calls'[d].read = IF d = c THEN "current" ELSE calls[d].read
        /\ calls'[d].mine = IF d = c THEN m ELSE calls[d].mine
  BY <1>1 DEF IInv, TypeOK, CallStates, Readings
<1>4. TypeOK'
  <2>1. holder' \in Calls \cup {NoOne, Dead} /\ shared' \in BOOLEAN
    BY DEF Enter, IInv, TypeOK
  <2>2. mem' \in [Engines -> [Entries -> EntryStates]]
    BY <1>2 DEF IInv, TypeOK
  <2> QED
    BY <1>2, <1>3, <2>1, <2>2 DEF IInv, TypeOK, bounds
<1>5. GoodCalls' /\ WritersInside'
  <2>1. calls[c].step \in Sections
    BY DEF Enter
  <2> QED
    BY <1>2, <1>3, <2>1 DEF IInv, GoodCalls, GoodCall, WritersInside, Inside
<1>6. ASSUME ~shared' PROVE ~shared /\ m /\ holder = NoOne /\ holder' = c
  BY <1>6 DEF Enter, MayEnter
<1>7. ASSUME ~shared' PROVE Alone'
  <2>1. Alone /\ \A d \in Calls : ~Inside(d)
    BY <1>6, <1>7, NamesAssumption DEF IInv, Alone
  <2>2. \A d \in Calls : Inside(d)' => d = c
    BY <1>3, <2>1 DEF Inside
  <2>3. mem'[Engine(c)] = file
    BY <1>2, EngineAssumption DEF IInv, TypeOK, Engine
  <2> QED
    BY <1>2, <1>3, <1>6, <1>7, <2>2, <2>3 DEF Alone, Inside, Engine
<1>8. ASSUME ~shared', NEW e \in resting PROVE LeftAlone(e)'
  <2>1. LeftAlone(e)
    BY <1>6, <1>8 DEF IInv
  <2> QED
    BY <1>2, <1>3, <2>1 DEF LeftAlone, Executes, SwitchedOn
<1> QED
  BY <1>2, <1>4, <1>5, <1>6, <1>7, <1>8 DEF IInv

LEMMA CrashStep == ASSUME IInv, NEW k \in Engines, Crash(k) PROVE IInv'
<1>1. \A d \in Calls : calls'[d] = IF Engine(d) = k THEN Idle ELSE calls[d]
  BY DEF Crash
<1>2. \A d \in Calls : buf'[d] = IF Engine(d) = k THEN NoBuf ELSE buf[d]
  BY DEF Crash
<1>3. UNCHANGED <<file, mem, shared, lost, resting>>
  BY DEF Crash
<1>4. TypeOK'
  BY IdleOutside, FaultCounted DEF Crash, IInv, TypeOK, IsOutside, GoodCall
<1>5. GoodCalls' /\ WritersInside'
  BY <1>1, <1>2, IdleOutside
     DEF IInv, GoodCalls, GoodCall, WritersInside, Inside, IsOutside
<1>6. ASSUME ~shared PROVE Alone'
  <2>1. Alone
    BY <1>6 DEF IInv
  <2>2. \A d \in Calls : Inside(d)' => Engine(d) # k /\ Inside(d)
    BY <1>1, IdleOutside DEF Inside, IsOutside
  <2>3. \A d \in Calls : Inside(d)' => holder' = d
    BY <2>1, <2>2 DEF Alone, Crash
  <2> QED
    BY <1>1, <1>2, <1>3, <2>1, <2>2, <2>3 DEF Alone, Engine
<1>7. ASSUME ~shared, NEW e \in resting PROVE LeftAlone(e)'
  <2>1. LeftAlone(e)
    BY <1>7 DEF IInv
  <2>2. Idle.todo = {} /\ Idle.step # "apply"
    BY DEF Idle
  <2>3. \A d \in Calls : e \notin calls'[d].todo /\ ~Executes(d, e)'
    BY <1>1, <2>1, <2>2 DEF LeftAlone, Executes
  <2>4. \A d \in Calls : buf'[d] # NoBuf /\ buf'[d][e].enabled => e \in SwitchedOn(d)'
    BY <1>1, <1>2, <2>1 DEF LeftAlone, SwitchedOn
  <2> QED
    BY <1>3, <2>1, <2>3, <2>4 DEF LeftAlone
<1> QED
  BY <1>3, <1>4, <1>5, <1>6, <1>7 DEF IInv

-----------------------------------------------------------------------------
(* The write *)

LEMMA AfterOutside ==
  ASSUME IInv, NEW c \in Calls, Inside(c), buf[c] # NoBuf, NEW next \in After(c)
  PROVE  IsOutside(next) /\ next.step # "apply" /\ next.todo \in {calls[c].todo, Due(buf[c])}
<1> DEFINE at == calls[c]
           todo == IF at.step = "list" THEN Due(buf[c]) ELSE at.todo
<1>1. GoodCall(at) /\ at.way \in Ways /\ at.todo \in SUBSET Entries
  BY DEF IInv, GoodCalls, GoodCall, CallStates
<1>2. todo \in SUBSET Entries /\ todo \in {at.todo, Due(buf[c])}
  BY <1>1 DEF Due
<1>3. IsOutside(Onward(todo)) /\ Onward(todo).todo = todo /\ Onward(todo).step # "apply"
  BY <1>2, OnwardOutside
<1>4. CASE at.step = "escalate"
  <2>1. next = About(c, "find", TargetOf[at.entry], "target")
    BY <1>4 DEF After
  <2>2. TargetOf[at.entry] \in Entries /\ "target" \in Ways
    BY <1>1, <1>4 DEF GoodCall, Ways
  <2> QED
    BY <1>1, <2>1, <2>2, AboutOutside
<1>5. CASE at.step = "apply" /\ TargetOf[at.entry] # NoEntry /\ next = About(c, "escalate", at.entry, at.way)
  <2>1. at.entry \in Entries /\ TargetOf[at.entry] \in Entries
    BY <1>1, <1>5, TargetAssumption DEF GoodCall
  <2> QED
    BY <1>1, <1>5, <2>1, AboutOutside
<1>6. CASE next = Onward(todo)
  BY <1>2, <1>3, <1>6
<1> QED
  BY <1>4, <1>5, <1>6 DEF After

LEMMA WrittenStep == ASSUME IInv, NEW c \in Calls, Written(c) PROVE IInv'
<1>1. Inside(c) /\ buf[c] # NoBuf /\ buf[c] \in [Entries -> EntryStates]
  BY DEF Written, IInv, TypeOK
<1>2. PICK next \in After(c) :
        calls' = [d \in Calls |->
          IF d = c THEN next ELSE [calls[d] EXCEPT !.read = IF Inside(d) THEN "old" ELSE @]]
  BY DEF Written
<1>3. IsOutside(next) /\ next.step # "apply" /\ next.todo \in {calls[c].todo, Due(buf[c])}
  BY <1>1, AfterOutside
<1>4. /\ file' = buf[c] /\ mem' = [mem EXCEPT ![Engine(c)] = buf[c]]
      /\ buf' = [buf EXCEPT ![c] = NoBuf] /\ UNCHANGED <<bounds, shared>>
      /\ resting' = (resting \ SwitchedOn(c)) \cup SwitchedOff(c)
  BY DEF Written
<1>5. \A d \in Calls \ {c} :
        /\ calls'[d] \in CallStates /\ calls'[d].step = calls[d].step
        /\ calls'[d].todo = calls[d].todo /\ calls'[d].entry = calls[d].entry
        /\ calls'[d].way = calls[d].way /\ calls'[d].mine = calls[d].mine
        /\ calls'[d].read = IF Inside(d) THEN "old" ELSE "none"
  BY <1>2 DEF IInv, TypeOK, CallStates, Readings, Inside
<1>6. calls'[c] = next
  BY <1>2
<1>7. TypeOK'
  <2>1. calls' \in [Calls -> CallStates]
    BY <1>2, <1>3, <1>5, <1>6 DEF IsOutside, GoodCall
  <2>2. holder' \in Calls \cup {NoOne, Dead} /\ lost' \in BOOLEAN /\ resting' \subseteq Entries
    BY <1>4 DEF Written, Leave, IInv, TypeOK, SwitchedOff
  <2>3. mem' \in [Engines -> [Entries -> EntryStates]] /\ file' \in [Entries -> EntryStates]
    BY <1>1, <1>4 DEF IInv, TypeOK
  <2> QED
    BY <1>4, <2>1, <2>2, <2>3 DEF IInv, TypeOK, bounds
<1>8. GoodCalls'
  <2>1. \A d \in Calls \ {c} : GoodCall(calls[d])' /\ GoodCall(calls[d])
    BY <1>5 DEF IInv, GoodCalls, GoodCall, Inside
  <2> QED
    BY <1>3, <1>6, <2>1 DEF GoodCalls, GoodCall, IsOutside
<1>9. WritersInside'
  BY <1>4, <1>5 DEF IInv, TypeOK, WritersInside, Inside
<1>10. ASSUME ~shared PROVE ~lost' /\ Alone' /\ \A d \in Calls \ {c} : ~Inside(d) /\ buf[d] = NoBuf
  <2>1. Alone /\ ~lost
    BY <1>10 DEF IInv
  <2>2. \A d \in Calls \ {c} : ~Inside(d) /\ buf[d] = NoBuf
    BY <1>1, <2>1 DEF Alone, IInv, WritersInside
  <2>3. ~lost'
    BY <1>1, <2>1 DEF Written, Alone
  <2>4. \A d \in Calls : ~Inside(d)'
    BY <1>3, <1>5, <1>6, <2>2 DEF Inside, IsOutside
  <2> QED
    BY <2>2, <2>3, <2>4 DEF Alone
<1>11. ASSUME ~shared, NEW e \in resting' PROVE LeftAlone(e)'
  <2>1. CASE e \in resting /\ e \notin SwitchedOn(c)
    <3>1. LeftAlone(e)
      BY <1>11, <2>1 DEF IInv
    <3> QED
      BY <1>1, <1>3, <1>4, <1>5, <1>6, <1>10, <1>11, <2>1, <3>1
         DEF LeftAlone, Executes, Due, IsDue, IInv, TypeOK
  <2>2. CASE e \in SwitchedOff(c)
    BY <1>1, <1>3, <1>4, <1>5, <1>6, <1>10, <1>11, <2>2
       DEF LeftAlone, SwitchedOff, Executes, Due, IsDue, IInv, TypeOK
  <2> QED
    BY <1>4, <1>11, <2>1, <2>2
<1> QED
  BY <1>4, <1>7, <1>8, <1>9, <1>10, <1>11 DEF IInv

-----------------------------------------------------------------------------
(* The theorems *)

LEMMA Starting == Init => IInv
<1> SUFFICES ASSUME Init PROVE IInv
  OBVIOUS
<1>1. 0 \in 0..(MaxNow + 1) /\ 0 \in 0..Threshold /\ 0 \in 0..MaxNow
        /\ 0 \in 0..MaxRequests /\ 0 \in 0..MaxFaults
  BY BoundAssumption
<1>2. Old \in EntryStates /\ Unborn \in EntryStates
  BY <1>1 DEF Old, Unborn, EntryStates
<1>3. TypeOK
  BY <1>1, <1>2, IdleOutside DEF Init, TypeOK, IsOutside, GoodCall
<1>4. GoodCalls
  BY IdleOutside DEF Init, GoodCalls, IsOutside
<1>5. \A c \in Calls : buf[c] = NoBuf /\ ~Inside(c)
  BY IdleOutside DEF Init, Inside, IsOutside
<1> QED
  BY <1>3, <1>4, <1>5 DEF Init, IInv, WritersInside, Alone

LEMMA Steady == IInv /\ [Next]_vars => IInv'
<1> SUFFICES ASSUME IInv, [Next]_vars PROVE IInv'
  OBVIOUS
<1>1. CASE \E c \in Calls : Enter(c) \/ Works(c) \/ Written(c) \/ TimesOut(c)
  BY <1>1, EnterStep, ListStep, NextEntryStep, FindStep, ApplyStep, EscalateStep, ChangeStep,
     WrittenStep, TimesOutStep DEF Works
<1>2. CASE \E c \in Calls : JudgeStale(c) \/ RemoveStale(c)
  BY <1>2, JudgeStep
<1>3. CASE \/ \E c \in Ticks : Tick(c)
           \/ \E c \in Runs, e \in Entries : RunNow(c, e)
           \/ \E c \in Ops, e \in Entries, kind \in OpKinds : Command(c, e, kind)
  BY <1>3, BeginStep DEF Calls
<1>4. CASE \E d \in Engines : Crash(d)
  BY <1>4, CrashStep
<1>5. CASE Passes
  <2>1. now' \in 0..MaxNow
    BY <1>5, BoundAssumption DEF Passes, IInv, TypeOK
  <2> QED
    BY <1>5, <2>1 DEF Passes, IInv, TypeOK, GoodCalls, WritersInside, Inside, Alone, Engine,
                      LeftAlone, Executes, SwitchedOn
<1>6. CASE UNCHANGED vars
  BY <1>6 DEF vars, bounds, IInv, TypeOK, GoodCalls, WritersInside, Inside, Alone, Engine,
              LeftAlone, Executes, SwitchedOn
<1> QED
  BY <1>1, <1>2, <1>3, <1>4, <1>5, <1>6 DEF Next

\* The inductive invariant holds in every behaviour.
THEOREM Invariance == Spec => []IInv
  BY Starting, Steady, PTL DEF Spec

\* Every variable of the schedule engine keeps its type.
THEOREM ScheduleTypeCorrect == Spec => []TypeOK
<1>1. IInv => TypeOK
  BY DEF IInv
<1> QED
  BY <1>1, Invariance, PTL

\* Reading the file again inside the lock is enough: without sharing of the
\* lock no call writes back what it read before another write.
THEOREM NoLostUpdate == Spec => []LossNeedsSharing
<1>1. IInv => LossNeedsSharing
  BY DEF IInv, LossNeedsSharing, TypeOK
<1> QED
  BY <1>1, Invariance, PTL

\* An entry switched off while nobody has it in hand stays off, until a command
\* or an escalation switches it on.
THEOREM PauseIsKept == Spec => []PauseHolds
<1>1. IInv => PauseHolds
  BY DEF IInv, PauseHolds, LeftAlone
<1> QED
  BY <1>1, Invariance, PTL

=============================================================================
