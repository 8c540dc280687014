-------------------------- MODULE MessageDelivery --------------------------
(***************************************************************************)
(* What the durable queue promises its clients, with the buckets, tokens,  *)
(* leases and clock left out: bounded, one-at-a-time delivery.             *)
(*   - a message is delivered only while pending, at most MaxAttempts      *)
(*     times, and goes back to pending only while attempts remain;         *)
(*   - one message is delivered or submitted at a time;                    *)
(*   - a key has one active message: a submission takes the place of the   *)
(*     pending message of its key and is refused while one is out;         *)
(*   - completed and dead letters are final, except that a completed       *)
(*     message may still be buried by hand.                                *)
(***************************************************************************)
EXTENDS Naturals

CONSTANTS Msg, Key, NoKey, MaxAttempts

VARIABLES
  status,   \* absent, pending, inflight, completed or deadletter
  attempt   \* deliveries so far

vars == <<status, attempt>>

Init ==
  /\ status = [m \in Msg |-> "absent"]
  /\ attempt = [m \in Msg |-> 0]

Stays(m) == status'[m] = status[m] /\ attempt'[m] = attempt[m]

Rivals(m) == {x \in Msg \ {m} : Key[m] # NoKey /\ Key[x] = Key[m]}

Submit(m) ==
  /\ status[m] = "absent"
  /\ status'[m] = "pending" /\ attempt'[m] = 0
  /\ \A x \in Rivals(m) :
       /\ status[x] # "inflight"
       /\ IF status[x] = "pending" THEN status'[x] = "absent" /\ attempt'[x] = 0 ELSE Stays(x)
  /\ \A x \in Msg \ (Rivals(m) \cup {m}) : Stays(x)

Deliver(m) ==
  /\ status[m] = "pending" /\ attempt[m] < MaxAttempts
  /\ status'[m] = "inflight" /\ attempt'[m] = attempt[m] + 1

Complete(m) ==
  status[m] = "inflight" /\ status'[m] = "completed" /\ attempt'[m] = attempt[m]

Return(m) ==
  /\ status[m] = "inflight" /\ attempt[m] < MaxAttempts
  /\ status'[m] = "pending" /\ attempt'[m] = attempt[m]

Bury(m) ==
  status[m] # "absent" /\ status'[m] = "deadletter" /\ attempt'[m] = attempt[m]

\* A claim delivers one message and buries those it found expired.
Hand == \E m \in Msg : Deliver(m) /\ \A x \in Msg \ {m} : Stays(x) \/ Bury(x)

\* A holder, or the sweeper for several dead holders at once, settles.
Settle == \A m \in Msg : Stays(m) \/ Complete(m) \/ Return(m) \/ Bury(m)

Next == (\E m \in Msg : Submit(m)) \/ Hand \/ Settle

\* status and attempt stay functions on Msg, which the steps above leave open.
Shape == DOMAIN status' = Msg /\ DOMAIN attempt' = Msg

Spec == Init /\ [][Shape /\ Next]_vars
=============================================================================
