-------------------------- MODULE MCJournalQueue --------------------------
(* Instances of the queue: three envelopes, two of them activations of one
   goal under one dedupe key in different buckets, and one command that
   expires early.  MCNoKey, MCMsg... name the values the .cfg files use. *)
EXTENDS JournalQueue

MCMsgId == {"a", "b", "c"}
MCEnvelope ==
  [a |-> [priority |-> 3, dedupe_key |-> "k", kind |-> "goal", created_at |-> 0, ttl_ms |-> 3],
   b |-> [priority |-> 2, dedupe_key |-> "k", kind |-> "goal", created_at |-> 0, ttl_ms |-> 2],
   c |-> [priority |-> 3, dedupe_key |-> NoKey, kind |-> "command", created_at |-> 1, ttl_ms |-> 2]]
MCFilters == {{"goal"}, {"command"}, {"goal", "command"}}
===========================================================================
