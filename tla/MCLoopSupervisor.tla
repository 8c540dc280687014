------------------------- MODULE MCLoopSupervisor -------------------------
(* Activations of goal g1: "a" is a plain one, "b" names a background run.  *)
EXTENDS LoopSupervisor, TLC

\* Workers are interchangeable: nothing orders them.
WorkerSymmetry == Permutations(Worker)

Plain(key, ttl) ==
  [priority |-> 3, dedupe_key |-> key, kind |-> "goal", created_at |-> 0, ttl_ms |-> ttl,
   goal |-> "g1", run |-> FALSE]

MCEnvelope == [a |-> Plain("k1", 9), b |-> [Plain("k1b", 9) EXCEPT !.run = TRUE]]
\* Activations that expire before the clock stops.
MCShortLived == [a |-> Plain("k1", 2), b |-> [Plain("k1b", 2) EXCEPT !.run = TRUE]]
===========================================================================
