---------------------------- MODULE AtLeastOnce ----------------------------
(***************************************************************************)
(* What an outbox promises, whatever relays, leases and transactions are   *)
(* behind it (apps/api-py/app/workers/outbox_relay.py, leasing.py).        *)
(*                                                                         *)
(* An item that was recorded is due.  It is delivered only when the        *)
(* receiver has accepted it, and given up only when its budget of tries is *)
(* used; given up is for good, but a delivered item may become due again   *)
(* and so be accepted more than once.  Tries are counted for a batch, and  *)
(* the count becomes known with the outcome of one of its items.           *)
(***************************************************************************)
EXTENDS Naturals

CONSTANTS Items, Deliverable, Budget

VARIABLES accepted, outcome, tries

vars == <<accepted, outcome, tries>>

Init ==
    /\ accepted = {}
    /\ outcome = [i \in Items |-> "none"]
    /\ tries = [i \in Items |-> 0]

Recorded == {i \in Items : outcome[i] # "none"}

Record(i) ==
    /\ outcome[i] = "none"
    /\ outcome' = [outcome EXCEPT ![i] = "due"]
    /\ UNCHANGED <<accepted, tries>>

Accept(i) ==
    /\ i \in Recorded \cap Deliverable
    /\ accepted' = accepted \cup {i}
    /\ UNCHANGED <<outcome, tries>>

(* A try of each item of `batch' is counted. *)
Counted(batch) ==
    tries' = [i \in Items |-> IF i \in batch /\ tries[i] < Budget THEN tries[i] + 1 ELSE tries[i]]

Settle(i, result) ==
    /\ i \in Recorded
    /\ outcome[i] = "dead" => result = "dead"
    /\ outcome' = [outcome EXCEPT ![i] = result]
    /\ UNCHANGED accepted

Deliver(batch, i) == Counted(batch) /\ i \in accepted /\ Settle(i, "delivered")

GiveUp(batch, i) == Counted(batch) /\ tries'[i] = Budget /\ Settle(i, "dead")

PutBack(batch, i) == Counted(batch) /\ Settle(i, "due")

(* Tries that ended without an outcome. *)
Waste(batch) == Counted(batch) /\ UNCHANGED <<accepted, outcome>>

Next ==
    \/ \E i \in Items : Record(i) \/ Accept(i)
    \/ \E batch \in SUBSET Recorded :
          \/ Waste(batch)
          \/ \E i \in Items : Deliver(batch, i) \/ GiveUp(batch, i) \/ PutBack(batch, i)

Spec == Init /\ [][Next]_vars
=============================================================================
