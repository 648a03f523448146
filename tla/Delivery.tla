------------------------------ MODULE Delivery ------------------------------
(***************************************************************************)
(* What the durable outbox promises, whatever queues, actors, retries and  *)
(* restarts it is made of: an accepted item is shown and then recorded as  *)
(* delivered, or given up for a reason.  Tries begin only for items that   *)
(* are queued, and only a try under way records anything: so a recorded    *)
(* outcome is final once no try begun before it goes on, until an operator *)
(* asks again or the record is forgotten.  A try that does go on may       *)
(* replace one outcome by the other, never queue the item again.           *)
(***************************************************************************)
EXTENDS Naturals

CONSTANTS
  Item,           \* what callers may ask to deliver
  MAX_ATTEMPTS    \* attempts after which an item may be given up

VARIABLES
  outcome,   \* "none", "queued", "delivered", "failed" or "forgotten", by item
  seen,      \* items the user has seen
  refused,   \* items the receiver refused
  tries,     \* failed attempts recorded, by item
  asked,     \* how often an operator asked for a new try
  underway   \* items of which somebody makes a try, or is going to

promise == <<outcome, seen, refused, tries, asked, underway>>

Init ==
  /\ outcome = [i \in Item |-> "none"]
  /\ seen = {} /\ refused = {}
  /\ tries = [i \in Item |-> 0]
  /\ asked = 0 /\ underway = {}

Known(i) == outcome[i] \in {"queued", "delivered", "failed"}

Becomes(i, o) ==
  /\ outcome' = [outcome EXCEPT ![i] = o]
  /\ UNCHANGED <<seen, refused, tries>>

Accept(i) ==
  /\ outcome[i] = "none"
  /\ outcome' = [outcome EXCEPT ![i] = "queued"]
  /\ tries' = [tries EXCEPT ![i] = 0]
  /\ underway' \in {underway, underway \cup {i}}
  /\ UNCHANGED <<seen, refused, asked>>

(* Tries begin, for what is queued, or are dropped.                        *)
Try ==
  /\ underway' \in SUBSET (underway \cup {i \in Item : outcome[i] = "queued"})
  /\ UNCHANGED <<outcome, seen, refused, tries, asked>>

Show(i) ==
  /\ seen' = seen \cup {i}
  /\ UNCHANGED <<outcome, refused, tries, asked, underway>>

Refuse(i) ==
  /\ refused' = refused \cup {i}
  /\ UNCHANGED <<outcome, seen, tries, asked, underway>>

(* A try ends; there may be another one of the same item.                  *)
Ends(i) ==
  /\ i \in underway /\ Known(i)
  /\ underway' \in {underway, underway \ {i}}
  /\ UNCHANGED asked

(* An attempt that failed is counted; it does not reopen a settled item.   *)
Fail(i) ==
  /\ Ends(i)
  /\ tries' = [tries EXCEPT ![i] = @ + 1]
  /\ UNCHANGED <<outcome, seen, refused>>

Deliver(i) == Ends(i) /\ i \in seen /\ Becomes(i, "delivered")

GiveUp(i) ==
  /\ Ends(i)
  /\ i \in refused \/ tries[i] + 1 >= MAX_ATTEMPTS
  /\ Becomes(i, "failed")

Reopen(i) ==
  Known(i) /\ Becomes(i, "queued") /\ asked' = asked + 1 /\ UNCHANGED underway

Forget(i) ==
  outcome[i] = "delivered" /\ Becomes(i, "forgotten") /\ UNCHANGED <<asked, underway>>

Next ==
  Try \/ \E i \in Item :
    \/ Accept(i) \/ Show(i) \/ Refuse(i) \/ Fail(i)
    \/ Deliver(i) \/ GiveUp(i) \/ Reopen(i) \/ Forget(i)

Spec == Init /\ [][Next]_promise
=============================================================================
