--------------------------- MODULE ScheduleEngine ---------------------------
(***************************************************************************)
(* The schedule entries in schedules.json and those who change them: the    *)
(* ticks of the daemon, a run on demand, the operator's commands, and the   *)
(* projection of waiting strategies.  Each engine keeps the entries in      *)
(* memory, reads them again when it enters the lock of the file, and writes *)
(* all of them back; entries are executed outside the lock.                 *)
(*                                                                         *)
(* The lock is a directory, but an engine that holds it lets every further  *)
(* call of its own in (lockDepth, entry-store.ts:45): the calls of one      *)
(* engine share its memory and may overlap inside.  A call that waits takes *)
(* the directory of a dead process away in two steps, and may find the     *)
(* directory of a living one there by then.                                *)
(*                                                                         *)
(* Left out: layers and what they execute, token budgets, retry policies    *)
(* (the time of the next retry and of the next cadence are one field),      *)
(* history, notifications, and when an escalation is suppressed.            *)
(* AnyoneEnters, NeverAbandoned, OutcomeEnabling and DueLater are wrong     *)
(* variants of the definitions they stand before.                           *)
(***************************************************************************)
EXTENDS Naturals, FiniteSets

CONSTANTS
  Entries,
  NoEntry,
  Ticks, Runs, Ops,      \* calls: ticks and runs of the daemon, an operator's
  Engines, EngineOf,     \* the engine (one per process) of each call
  TargetOf,              \* the entry an entry escalates to, or NoEntry
  Threshold,             \* failures in a row that disable an entry
  NoOne,                 \* holds the lock when nobody does
  Dead,                  \* holds it when the holder has died
  MaxNow, MaxRequests, MaxFaults

Calls == Ticks \cup Runs \cup Ops

ASSUME EntriesAssumption == Entries # {}
ASSUME EngineAssumption == EngineOf \in [Calls -> Engines]
ASSUME TargetAssumption == TargetOf \in [Entries -> Entries \cup {NoEntry}]
ASSUME NamesAssumption == NoEntry \notin Entries /\ NoOne # Dead /\ {NoOne, Dead} \cap Calls = {}
ASSUME BoundAssumption == {Threshold, MaxNow, MaxRequests, MaxFaults} \subseteq Nat

VARIABLES
  file,       \* schedules.json
  mem,        \* entries of each engine
  holder,     \* the call whose lock directory stands
  calls,      \* what each call is at
  buf,        \* the entries each call is writing
  now, requests, faults,
  shared,     \* history: a call entered beside another one of its engine, or
              \* the directory was taken from a living holder
  lost,       \* history: a call wrote what it had read before another write
  resting     \* history: entries switched off while nobody had them in hand

vars == <<file, mem, holder, calls, buf, now, requests, faults, shared, lost, resting>>
bounds == <<now, requests, faults>>

\* An entry, or the place of one that is not in the file (yet, or any more); the
\* identifier of a removed entry is not given again.
EntryStates == [enabled : BOOLEAN, at : 0..(MaxNow + 1), failures : 0..Threshold,
                life : {"unborn", "there", "removed"}]
Old == [enabled |-> TRUE, at |-> 0, failures |-> 0, life |-> "there"]
Unborn == [enabled |-> FALSE, at |-> 0, failures |-> 0, life |-> "unborn"]
Removed == [Unborn EXCEPT !.life = "removed"]
Exists(entry) == entry.life = "there"
NoBuf == [e \in {} |-> Unborn]

\* Where a call stands; those in Sections work inside the lock.
Sections == {"list", "find", "apply", "escalate", "change"}
Steps == Sections \cup {"idle", "next"}
\* How an entry came to be executed.
Ways == {"cadence", "manual", "target"}
OpKinds == {"pause", "resume", "remove", "add", "reschedule"}

\* What a call inside the lock has read from the file.
Readings == {"none", "current", "old"}

CallStates == [step : Steps, read : Readings, mine : BOOLEAN, judges : BOOLEAN,
               todo : SUBSET Entries, entry : Entries \cup {NoEntry},
               way : Ways, ok : BOOLEAN, kind : OpKinds]
Idle == [step |-> "idle", read |-> "none", mine |-> FALSE, judges |-> FALSE, todo |-> {},
         entry |-> NoEntry, way |-> "cadence", ok |-> TRUE, kind |-> "pause"]

Init ==
  /\ \E here \in SUBSET Entries :
       file = [e \in Entries |-> IF e \in here THEN Old ELSE Unborn]
  /\ mem = [d \in Engines |-> file]
  /\ holder = NoOne
  /\ calls = [c \in Calls |-> Idle]
  /\ buf = [c \in Calls |-> NoBuf]
  /\ now = 0 /\ requests = 0 /\ faults = 0
  /\ shared = FALSE /\ lost = FALSE /\ resting = {}

Engine(c) == EngineOf[c]
Inside(c) == calls[c].read # "none"
At(c, step) == calls[c].step = step /\ (step \in Sections => Inside(c) /\ buf[c] = NoBuf)

(***************************************************************************)
(* The lock.                                                               *)
(***************************************************************************)
Beside(c) == \E d \in Calls \ {c} : Engine(d) = Engine(c) /\ calls[d].mine
AnyoneEnters(c) == holder # Dead
MayEnter(c) == holder = NoOne \/ Beside(c)

\* withLock, and the read of the file that comes first in every section.
Enter(c) ==
  /\ calls[c].step \in Sections /\ ~Inside(c) /\ ~calls[c].judges /\ MayEnter(c)
  /\ holder' = IF Beside(c) THEN holder ELSE c
  /\ shared' = (shared \/ Beside(c))
  /\ mem' = [mem EXCEPT ![Engine(c)] = file]
  /\ calls' = [calls EXCEPT ![c].read = "current", ![c].mine = ~Beside(c)]
  /\ UNCHANGED <<file, buf, bounds, lost, resting>>

\* The directory goes, whosever it is by now.
Leave(c) == holder' = IF calls[c].mine THEN NoOne ELSE holder

\* A call goes on outside the lock: with the next entry of its list, if there is
\* one, or about an entry it has in hand.
Onward(todo) == [Idle EXCEPT !.step = IF todo = {} THEN "idle" ELSE "next", !.todo = todo]
About(c, step, e, way) ==
  [Idle EXCEPT !.step = step, !.todo = calls[c].todo, !.entry = e, !.way = way]

\* A section that changes nothing ends here; the call goes on as next.
Ends(c, next) ==
  /\ Leave(c)
  /\ calls' = [calls EXCEPT ![c] = next]
  /\ UNCHANGED <<file, mem, buf, bounds, shared, lost>>

\* A section changes the entries in memory and begins to write them.
Saves(c, entries) ==
  /\ mem' = [mem EXCEPT ![Engine(c)] = entries]
  /\ buf' = [buf EXCEPT ![c] = entries]
  /\ UNCHANGED <<file, holder, bounds, shared, lost, resting>>

\* A call that waits sees that the holder is dead, 30 seconds after it took the
\* directory, and then removes the directory that stands there.
NeverAbandoned == FALSE
Abandoned == holder = Dead

JudgeStale(c) ==
  /\ calls[c].step \in Sections /\ ~Inside(c) /\ ~Beside(c)
  /\ Abandoned /\ ~calls[c].judges
  /\ calls' = [calls EXCEPT ![c].judges = TRUE]
  /\ UNCHANGED <<file, mem, holder, buf, bounds, shared, lost, resting>>

RemoveStale(c) ==
  /\ calls[c].judges
  /\ calls' = [calls EXCEPT ![c].judges = FALSE]
  /\ holder' = NoOne
  /\ shared' = (shared \/ holder \in Calls)
  /\ UNCHANGED <<file, mem, buf, bounds, lost, resting>>

(***************************************************************************)
(* Ticks and runs.                                                         *)
(***************************************************************************)
Starts(c, fields) ==
  /\ calls[c].step = "idle"
  /\ calls' = [calls EXCEPT ![c] = fields]
  /\ UNCHANGED <<file, mem, holder, buf, now, faults, shared, lost, resting>>

\* The maintenance cycle of the daemon, every check interval, also beside an
\* earlier one that has not come to its end.
Tick(c) == Starts(c, [Idle EXCEPT !.step = "list"]) /\ UNCHANGED requests

Requested == requests < MaxRequests /\ requests' = requests + 1

RunNow(c, e) ==
  Requested /\ Starts(c, [Idle EXCEPT !.step = "find", !.entry = e, !.way = "manual"])

IsDue(entry) == Exists(entry) /\ entry.enabled /\ entry.at <= now
Due(entries) == {e \in Entries : IsDue(entries[e])}

\* The list is made under the lock and used after it; once a day the entries
\* are written first, for their budgets.
List(c) ==
  /\ At(c, "list")
  /\ \/ Ends(c, Onward(Due(mem[Engine(c)]))) /\ UNCHANGED resting
     \/ Saves(c, mem[Engine(c)]) /\ UNCHANGED calls

NextEntry(c) ==
  /\ calls[c].step = "next"
  /\ \E e \in calls[c].todo :
       calls' = [calls EXCEPT ![c] = [About(c, "apply", e, "cadence") EXCEPT !.todo = @ \ {e}]]
  /\ UNCHANGED <<file, mem, holder, buf, bounds, shared, lost, resting>>

\* A run on demand and an escalation look their entry up; it may be switched off.
Find(c) ==
  LET e == calls[c].entry
      way == calls[c].way
  IN
  /\ At(c, "find")
  /\ Ends(c, IF Exists(mem[Engine(c)][e]) THEN About(c, "apply", e, way)
             ELSE Onward(calls[c].todo))
  /\ resting' = IF way = "target" THEN resting \ {e} ELSE resting

DueLater == now + 2
NextFire == now + 1

\* An execution on cadence or by escalation leaves the entry switched on; too
\* many failures in a row switch it off.
OutcomeEnabling(entry, way, ok) ==
  LET failures == IF ok THEN 0 ELSE IF entry.failures < Threshold THEN entry.failures + 1
                  ELSE Threshold
  IN [entry EXCEPT !.at = NextFire, !.failures = failures, !.enabled = failures < Threshold]
Outcome(entry, way, ok) ==
  LET failures == IF ok THEN 0 ELSE IF entry.failures < Threshold THEN entry.failures + 1
                  ELSE Threshold
  IN [entry EXCEPT !.at = NextFire, !.failures = failures,
                   !.enabled = (@ \/ way # "manual") /\ failures < Threshold]

\* The execution ends, well or not, and its outcome is recorded; an entry that
\* was removed meanwhile stays removed.
Apply(c) ==
  LET e == calls[c].entry
      entries == mem[Engine(c)]
  IN
  /\ At(c, "apply")
  /\ \/ /\ Exists(entries[e])
        /\ \E ok \in BOOLEAN :
             /\ calls' = [calls EXCEPT ![c].ok = ok]
             /\ Saves(c, [entries EXCEPT ![e] = Outcome(@, calls[c].way, ok)])
     \/ ~Exists(entries[e]) /\ Ends(c, Onward(calls[c].todo)) /\ UNCHANGED resting

\* Suppressed, or recorded: the stamps of escalations are not modelled.
Escalate(c) ==
  /\ At(c, "escalate")
  /\ \/ Ends(c, Onward(calls[c].todo)) /\ UNCHANGED resting
     \/ Exists(mem[Engine(c)][calls[c].entry]) /\ Saves(c, mem[Engine(c)]) /\ UNCHANGED calls

(***************************************************************************)
(* The operator pauses, resumes, removes and adds entries; the projection   *)
(* of a waiting strategy sets its entry's time, and switches it on.         *)
(***************************************************************************)
Command(c, e, kind) ==
  /\ Requested
  /\ Starts(c, [Idle EXCEPT !.step = "change", !.entry = e, !.kind = kind])

Changed(entry, kind) ==
  IF kind = "add" /\ entry.life = "unborn" THEN [Old EXCEPT !.at = NextFire]
  ELSE IF kind = "add" \/ ~Exists(entry) THEN entry
  ELSE IF kind = "remove" THEN Removed
  ELSE [entry EXCEPT
          !.enabled = kind # "pause",
          !.at = IF kind = "reschedule" \/ (kind = "resume" /\ ~entry.enabled) THEN NextFire ELSE @]

Change(c) ==
  /\ At(c, "change")
  /\ Saves(c, [mem[Engine(c)] EXCEPT ![calls[c].entry] = Changed(@, calls[c].kind)])
  /\ UNCHANGED calls

(***************************************************************************)
(* The file is renamed into place, and the call leaves.                     *)
(***************************************************************************)
\* Call d executes entry e, and will switch it on again, whatever happens.
Executes(d, e) ==
  calls[d].entry = e /\ calls[d].way # "manual" /\ calls[d].step = "apply"

\* Entries that c switches off while no list has them and nobody executes them.
SwitchedOff(c) ==
  {e \in Entries : /\ file[e].enabled /\ ~buf[c][e].enabled /\ Exists(buf[c][e])
                   /\ \A d \in Calls : e \notin calls[d].todo
                   /\ \A d \in Calls \ {c} : ~Executes(d, e)}
\* The entry that a command of c switches on, or takes out of the file.
SwitchedOn(c) ==
  IF calls[c].step = "change" /\ calls[c].kind # "pause" THEN {calls[c].entry} ELSE {}

\* After a failure the escalation is looked at; a run may be told not to.
After(c) ==
  LET at == calls[c]
      goesOn == Onward(IF at.step = "list" THEN Due(buf[c]) ELSE at.todo)
      mayEscalate == at.step = "apply" /\ ~at.ok /\ at.way # "target"
                       /\ TargetOf[at.entry] # NoEntry
  IN IF at.step = "escalate" THEN {About(c, "find", TargetOf[at.entry], "target")}
     ELSE IF mayEscalate
     THEN {About(c, "escalate", at.entry, at.way)}
            \cup IF at.way = "manual" THEN {goesOn} ELSE {}
     ELSE {goesOn}

\* A guest whose holder has left takes the lock for the write.
Written(c) ==
  /\ Inside(c) /\ buf[c] # NoBuf /\ (calls[c].mine \/ MayEnter(c))
  /\ file' = buf[c] /\ mem' = [mem EXCEPT ![Engine(c)] = buf[c]]
  /\ buf' = [buf EXCEPT ![c] = NoBuf]
  /\ Leave(c)
  /\ lost' = (lost \/ calls[c].read = "old")
  /\ resting' = (resting \ SwitchedOn(c)) \cup SwitchedOff(c)
  /\ \E next \in After(c) :
       calls' = [d \in Calls |->
         IF d = c THEN next ELSE [calls[d] EXCEPT !.read = IF Inside(d) THEN "old" ELSE @]]
  /\ UNCHANGED <<bounds, shared>>

(***************************************************************************)
(* Time, and what goes wrong.                                              *)
(***************************************************************************)
Passes ==
  /\ now < MaxNow /\ now' = now + 1
  /\ UNCHANGED <<file, mem, holder, calls, buf, requests, faults, shared, lost, resting>>

Fault == faults < MaxFaults /\ faults' = faults + 1

\* After 5 seconds in vain the call throws: the rest of its list is dropped.
TimesOut(c) ==
  /\ Fault
  /\ calls[c].step \in Sections /\ ~Inside(c) /\ ~MayEnter(c) /\ ~calls[c].judges
  /\ calls' = [calls EXCEPT ![c] = Idle]
  /\ UNCHANGED <<file, mem, holder, buf, now, requests, shared, lost, resting>>

Crash(d) ==
  /\ Fault
  /\ calls' = [c \in Calls |-> IF Engine(c) = d THEN Idle ELSE calls[c]]
  /\ buf' = [c \in Calls |-> IF Engine(c) = d THEN NoBuf ELSE buf[c]]
  /\ holder' = IF holder \in Calls /\ Engine(holder) = d THEN Dead ELSE holder
  /\ UNCHANGED <<file, mem, now, requests, shared, lost, resting>>

Works(c) ==
  \/ List(c) \/ NextEntry(c) \/ Find(c) \/ Apply(c) \/ Escalate(c) \/ Change(c)

Next ==
  \/ \E c \in Calls : Enter(c) \/ Works(c) \/ Written(c) \/ TimesOut(c)
  \/ \E c \in Calls : JudgeStale(c) \/ RemoveStale(c)
  \/ \E c \in Ticks : Tick(c)
  \/ \E c \in Runs, e \in Entries : RunNow(c, e)
  \/ \E c \in Ops, e \in Entries, kind \in OpKinds : Command(c, e, kind)
  \/ \E d \in Engines : Crash(d)
  \/ Passes

Spec == Init /\ [][Next]_vars
-----------------------------------------------------------------------------
\* Every variable has its type.
TypeOK ==
  /\ file \in [Entries -> EntryStates]
  /\ mem \in [Engines -> [Entries -> EntryStates]]
  /\ holder \in Calls \cup {NoOne, Dead}
  /\ calls \in [Calls -> CallStates]
  /\ buf \in [Calls -> [Entries -> EntryStates] \cup {NoBuf}]
  /\ now \in 0..MaxNow /\ requests \in 0..MaxRequests /\ faults \in 0..MaxFaults
  /\ shared \in BOOLEAN /\ lost \in BOOLEAN /\ resting \subseteq Entries

\* A call writes back what it has read before somebody else's write only when
\* two calls of one engine were inside the lock together, or the directory of a
\* dead process was taken away late, from a living one: reading again inside
\* the lock is enough in every other case (withScheduleMutation, engine.ts:159).
LossNeedsSharing == lost => shared

\* An entry that is switched off, by the operator or by its own failures, while
\* nobody executes it or has it on a list, stays off until a command switches it
\* on or an escalation executes it: no tick, no manual run (preserveEnabled) and
\* no other writer brings it back.  Switched off while it executes it comes back
\* (enabled: ... : true, engine-execution.ts:450), which is why the history
\* leaves that case out.
PauseHolds == shared \/ \A e \in resting : ~file[e].enabled

\* A call that has begun goes on (its execution ends), the maintenance timer
\* fires again, a waiting tick tries the lock every 25 ms and meets it free
\* again and again, and it takes the directory of a dead process away.
Fairness ==
  /\ \A c \in Calls : SF_vars(Works(c) \/ Written(c))
  /\ \A c \in Ticks : WF_vars(Tick(c)) /\ SF_vars(Enter(c)) /\ WF_vars(JudgeStale(c) \/ RemoveStale(c))

LiveSpec == Spec /\ Fairness

\* Again and again no entry is due: neither a dead process's lock nor a tick that
\* gave up waiting, nor entries that fail and escalate, keep one from firing.
BacklogClears == []<>(Due(file) = {})
=============================================================================
