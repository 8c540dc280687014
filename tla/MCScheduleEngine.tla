------------------------- MODULE MCScheduleEngine -------------------------
(* The daemon ticks and runs entries on demand, a command line beside it
   changes them.  Entry e1 escalates to e2. *)
EXTENDS ScheduleEngine

CONSTANTS e1, e2, t1, t2, r1, o1
MCTarget == [e \in Entries |-> IF e = e1 THEN e2 ELSE NoEntry]
MCEngineOf == [c \in Calls |-> IF c \in Ops THEN "cli" ELSE "daemon"]
===========================================================================
