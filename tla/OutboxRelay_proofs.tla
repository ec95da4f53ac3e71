------------------------- MODULE OutboxRelay_proofs -------------------------
(* Proofs about OutboxRelay, for every set of rows and of relays. *)
EXTENDS OutboxRelay, TLAPS

(* The first row of a non-empty batch is one of its rows, the others are    *)
(* what is left of it: the loop of relay_once handles each claimed row.     *)
LEMMA BatchFacts ==
    ASSUME NEW batch \in Seq(Events), batch # <<>>
    PROVE  /\ Head(batch) \in Elems(batch)
           /\ Head(batch) \in Events
           /\ Head(batch) = batch[1]
           /\ Elems(batch) \subseteq Events
           /\ Tail(batch) \in Seq(Events)
           /\ Elems(Tail(batch)) \subseteq Elems(batch)
BY DEF Elems

LEMMA BatchesAreSequences ==
    ASSUME NEW batch \in Batches
    PROVE  batch \in Seq(Events)
BY ConstantsAssumption DEF Batches, ConstantsAssumption

(* What the claim and the two mark functions write is a row. *)
LEMMA WrittenRows ==
    ASSUME NEW row \in Row, NEW view \in Row, NEW r \in Relays, NEW left \in Nat
    PROVE  /\ Claimed(row, r, left) \in Row
           /\ Delivered(row) \in Row
           /\ Failed(row, view) \in Row
<1>1. Claimed(row, r, left) \in Row
  <2> DEFINE n == IF row.attempts < MaxAttempts THEN row.attempts + 1 ELSE row.attempts
  <2>1. n \in 0..MaxAttempts
    BY ConstantsAssumption DEF Row, ConstantsAssumption
  <2> HIDE DEF n
  <2>2. [row EXCEPT !.attempts = n, !.owner = r, !.lease = left] \in Row
    BY <2>1 DEF Row
  <2> QED BY <2>2 DEF Claimed, n
<1>2. Delivered(row) \in Row
  BY DEF Delivered, Row
<1>3. Failed(row, view) \in Row
  BY ConstantsAssumption DEF Failed, Row, ConstantsAssumption
<1> QED BY <1>1, <1>2, <1>3

LEMMA BlankIsRow == Blank \in Row /\ Idle \in RelayState
BY ConstantsAssumption DEF Blank, Row, Idle, RelayState, ConstantsAssumption

LEMMA CommittedTable ==
    ASSUME TypeOK, NEW r \in Relays
    PROVE  WithClaim(r) \in [Events -> Row]
<1> SUFFICES ASSUME NEW e \in Events
             PROVE  (IF relay[r].open /\ e \in Elems(relay[r].batch)
                     THEN Claimed(rows[e], r, relay[r].left) ELSE rows[e]) \in Row
  BY DEF WithClaim
<1>1. rows[e] \in Row /\ relay[r].left \in Nat
  BY DEF TypeOK, RelayState
<1> QED BY <1>1, WrittenRows

(* What the loop does when it goes on to the next row. *)
LEMMA Advanced ==
    ASSUME TypeOK, NEW r \in Relays, relay[r].pc # "idle", Advance(r)
    PROVE  /\ relay' \in [Relays -> RelayState]
           /\ \A q \in Relays : relay'[q].pc # "idle" => relay'[q].batch # <<>>
           /\ ~relay'[r].open
           /\ relay'[r].pc \in {"idle", "next"}
           /\ \A q \in Relays \ {r} : relay'[q] = relay[q]
<1>1. Tail(relay[r].batch) \in Seq(Events)
  <2>1. relay[r].batch \in Seq(Events) /\ relay[r].batch # <<>>
    BY DEF TypeOK, RelayState
  <2> QED BY <2>1, BatchFacts
<1>2. relay \in [Relays -> RelayState]
  BY DEF TypeOK
<1>3. relay'[r] = [pc |-> IF Tail(relay[r].batch) = <<>> THEN "idle" ELSE "next",
                   batch |-> Tail(relay[r].batch), open |-> FALSE, left |-> 0, view |-> Blank]
  BY <1>2 DEF Advance, Idle
<1>4. relay'[r] \in RelayState
  BY <1>1, <1>3, BlankIsRow DEF RelayState
<1>5. \A q \in Relays \ {r} : relay'[q] = relay[q]
  BY <1>2 DEF Advance
<1>6. relay' \in [Relays -> RelayState]
  BY <1>2, <1>4 DEF Advance
<1>7. \A q \in Relays : relay'[q].pc # "idle" => relay'[q].batch # <<>>
  BY <1>3, <1>5 DEF TypeOK
<1>8. ~relay'[r].open /\ relay'[r].pc \in {"idle", "next"}
  BY <1>3
<1> QED BY <1>5, <1>6, <1>7, <1>8

LEMMA CurrentRow ==
    ASSUME TypeOK, NEW r \in Relays, relay[r].pc # "idle"
    PROVE  /\ relay[r].batch \in Seq(Events) /\ relay[r].batch # <<>>
           /\ Current(r) \in Events
           /\ Current(r) \in Elems(relay[r].batch)
           /\ Elems(relay[r].batch) \subseteq Events
<1>1. relay[r].batch \in Seq(Events) /\ relay[r].batch # <<>>
  BY DEF TypeOK, RelayState
<1> QED BY <1>1, BatchFacts DEF Current

(* The order of the rows stays an order of rows. *)
LEMMA ReorderedType ==
    ASSUME TypeOK, NEW e \in Events, NEW w \in Nat
    PROVE  Reordered(e, w) \in [Events -> SUBSET Events]
BY DEF TypeOK, Reordered, Present

(* What mark_outbox_failure and its commit do to the table. *)
LEMMA MarkedFailure ==
    ASSUME TypeOK, NEW r \in Relays, relay[r].pc # "idle", MarkFailure(r)
    PROVE  /\ rows' \in [Events -> Row]
           /\ before' \in [Events -> SUBSET Events]
<1> DEFINE e == Current(r)
           view == relay[r].view
<1>1. e \in Events /\ view \in Row /\ view.attempts \in 0..MaxAttempts
  BY CurrentRow DEF TypeOK, RelayState, Row
<1>2. WithClaim(r) \in [Events -> Row]
  BY CommittedTable
<1>3. CASE ~HoldsLease(r, view)
  BY <1>2, <1>3 DEF MarkFailure, TypeOK
<1>4. CASE HoldsLease(r, view)
  <2>1. rows' = [WithClaim(r) EXCEPT ![e] = Failed(WithClaim(r)[e], view)]
    BY <1>4 DEF MarkFailure
  <2>2. Failed(WithClaim(r)[e], view) \in Row
    BY <1>1, <1>2, WrittenRows
  <2>3. Backoff[view.attempts] \in Nat
    BY <1>1, ConstantsAssumption DEF ConstantsAssumption
  <2>4. before' \in {before, Reordered(e, Backoff[view.attempts])}
    BY <1>4 DEF MarkFailure
  <2>5. before' \in [Events -> SUBSET Events]
    BY <1>1, <2>3, <2>4, ReorderedType DEF TypeOK
  <2> QED BY <1>1, <1>2, <2>1, <2>2, <2>5
<1> QED BY <1>3, <1>4

LEMMA InitTypeOK == Init => TypeOK
<1> SUFFICES ASSUME Init PROVE TypeOK
  OBVIOUS
<1>1. rows \in [Events -> Row] /\ relay \in [Relays -> RelayState]
  BY BlankIsRow DEF Init
<1>2. \A r \in Relays : relay[r].pc = "idle"
  BY DEF Init, Idle
<1>3. crashes \in 0..MaxCrashes
  BY ConstantsAssumption DEF Init, ConstantsAssumption
<1> QED BY <1>1, <1>2, <1>3 DEF Init, TypeOK

(* Every step of the table and of the relays keeps the types. *)
LEMMA NextTypeOK == TypeOK /\ [Next]_vars => TypeOK'
<1> SUFFICES ASSUME TypeOK, [Next]_vars PROVE TypeOK'
  OBVIOUS
<1> USE DEF TypeOK
<1>1. ASSUME NEW e \in Events, Insert(e) PROVE TypeOK'
  <2>1. [rows[e] EXCEPT !.status = "PENDING"] \in Row
    BY DEF Row
  <2>2. rows' \in [Events -> Row]
    BY <1>1, <2>1 DEF Insert
  <2> QED BY <1>1, <2>2, ReorderedType DEF Insert
<1>2. ASSUME NEW r \in Relays, Poll(r) PROVE TypeOK'
  <2>1. PICK batch \in Batches :
          /\ batch # <<>>
          /\ relay' = [relay EXCEPT ![r] =
                        [pc |-> "loaded", batch |-> batch, open |-> TRUE, left |-> LeaseTicks,
                         view |-> Claimed(rows[batch[1]], r, LeaseTicks)]]
    BY <1>2 DEF Poll, ClaimableBatch
  <2>2. batch \in Seq(Events) /\ batch[1] \in Events
    BY <2>1, BatchesAreSequences, BatchFacts
  <2>3. Claimed(rows[batch[1]], r, LeaseTicks) \in Row
    BY <2>2, WrittenRows, ConstantsAssumption DEF ConstantsAssumption
  <2>4. LeaseTicks \in Nat
    BY ConstantsAssumption DEF ConstantsAssumption
  <2>5. [pc |-> "loaded", batch |-> batch, open |-> TRUE, left |-> LeaseTicks,
         view |-> Claimed(rows[batch[1]], r, LeaseTicks)] \in RelayState
    BY <2>2, <2>3, <2>4 DEF RelayState
  <2>6. relay' \in [Relays -> RelayState]
    BY <2>1, <2>5
  <2>7. \A q \in Relays : relay'[q].pc # "idle" => relay'[q].batch # <<>>
    BY <2>1
  <2> QED BY <1>2, <2>6, <2>7 DEF Poll
<1>3. ASSUME NEW r \in Relays, relay' = [relay EXCEPT ![r] = relay'[r]],
             relay'[r] \in RelayState, relay'[r].batch = relay[r].batch,
             relay[r].pc # "idle"
      PROVE  /\ relay' \in [Relays -> RelayState]
             /\ \A q \in Relays : relay'[q].pc # "idle" => relay'[q].batch # <<>>
  BY <1>3
<1>4. ASSUME NEW r \in Relays, Load(r) PROVE TypeOK'
  <2>1. Current(r) \in Events /\ relay[r] \in RelayState
    BY <1>4, CurrentRow DEF Load
  <2>2. [relay[r] EXCEPT !.pc = "loaded", !.view = rows[Current(r)]] \in RelayState
    BY <2>1 DEF RelayState
  <2>3. relay' = [relay EXCEPT ![r] = [relay[r] EXCEPT !.pc = "loaded", !.view = rows[Current(r)]]]
    BY <1>4 DEF Load
  <2>4. relay'[r].batch = relay[r].batch
    BY <2>1, <2>3 DEF RelayState
  <2> QED BY <1>3, <1>4, <2>2, <2>3, <2>4 DEF Load
<1>5. ASSUME NEW r \in Relays, FailUnroutable(r) PROVE TypeOK'
  <2>1. relay[r].pc # "idle"
    BY <1>5 DEF FailUnroutable
  <2> QED BY <1>5, <2>1, MarkedFailure, Advanced DEF FailUnroutable
<1>6. ASSUME NEW r \in Relays, NEW pc \in {"sent", "error"}, relay[r].pc # "idle",
             relay' = [relay EXCEPT ![r].pc = pc]
      PROVE  /\ relay' \in [Relays -> RelayState]
             /\ \A q \in Relays : relay'[q].pc # "idle" => relay'[q].batch # <<>>
  <2>1. [relay[r] EXCEPT !.pc = pc] \in RelayState
    BY DEF RelayState
  <2>2. [relay[r] EXCEPT !.pc = pc].batch = relay[r].batch
    BY DEF RelayState
  <2> QED BY <1>3, <1>6, <2>1, <2>2
<1>7. ASSUME NEW r \in Relays, Publish(r) PROVE TypeOK'
  BY <1>6, <1>7 DEF Publish
<1>8. ASSUME NEW r \in Relays, PublishError(r) PROVE TypeOK'
  BY <1>6, <1>8 DEF PublishError
<1>9. ASSUME NEW r \in Relays, RecordDelivered(r) PROVE TypeOK'
  <2>1. relay[r].pc # "idle" /\ Current(r) \in Events
    BY <1>9, CurrentRow DEF RecordDelivered
  <2>2. WithClaim(r) \in [Events -> Row]
    BY CommittedTable
  <2>3. Delivered(WithClaim(r)[Current(r)]) \in Row
    BY <2>1, <2>2, WrittenRows
  <2>4. rows' \in [Events -> Row]
    BY <1>9, <2>2, <2>3 DEF RecordDelivered
  <2> QED BY <1>9, <2>1, <2>4, Advanced DEF RecordDelivered
<1>10. ASSUME NEW r \in Relays, LeaseLost(r) PROVE TypeOK'
  BY <1>6, <1>10 DEF LeaseLost
<1>11. ASSUME NEW r \in Relays, Recover(r) PROVE TypeOK'
  <2>1. relay[r].pc # "idle" /\ Current(r) \in Events /\ relay[r] \in RelayState
    BY <1>11, CurrentRow DEF Recover
  <2>2. CASE Advance(r)
    BY <1>11, <2>1, <2>2, Advanced DEF Recover
  <2>3. CASE relay' = [relay EXCEPT ![r] = [relay[r] EXCEPT
                        !.pc = "failing", !.open = FALSE, !.left = 0, !.view = rows[Current(r)]]]
    <3> DEFINE new == [relay[r] EXCEPT
                        !.pc = "failing", !.open = FALSE, !.left = 0, !.view = rows[Current(r)]]
    <3>1. new \in RelayState /\ new.batch = relay[r].batch
      BY <2>1 DEF RelayState
    <3> QED BY <1>3, <1>11, <2>1, <2>3, <3>1 DEF Recover
  <2> QED BY <1>11, <2>2, <2>3 DEF Recover
<1>12. ASSUME NEW r \in Relays, RecordFailure(r) PROVE TypeOK'
  <2>1. relay[r].pc # "idle"
    BY <1>12 DEF RecordFailure
  <2> QED BY <1>12, <2>1, MarkedFailure, Advanced DEF RecordFailure
<1>13. ASSUME NEW r \in Relays, Crash(r) PROVE TypeOK'
  BY <1>13, BlankIsRow, ConstantsAssumption DEF Crash, Idle, ConstantsAssumption
<1>14. CASE Tick
  <2>1. \A n \in Nat : Less(n) \in Nat
    BY DEF Less
  <2>2. \A e \in Events :
          [rows[e] EXCEPT !.wait = Less(rows[e].wait), !.lease = Less(rows[e].lease)] \in Row
    BY <2>1 DEF Row
  <2>3. \A r \in Relays : [relay[r] EXCEPT !.left = Less(relay[r].left)] \in RelayState
    BY <2>1 DEF RelayState
  <2>4. \A r \in Relays : /\ relay'[r].pc = relay[r].pc
                          /\ relay'[r].batch = relay[r].batch
    BY <1>14 DEF Tick, RelayState
  <2> QED BY <1>14, <2>2, <2>3, <2>4 DEF Tick
<1>15. CASE UNCHANGED vars
  BY <1>15 DEF vars
<1> QED
  BY <1>1, <1>2, <1>4, <1>5, <1>7, <1>8, <1>9, <1>10, <1>11, <1>12, <1>13, <1>14, <1>15 DEF Next

(* The columns of the outbox and the state of every relay stay in their     *)
(* types: attempts never pass the budget, a relay in its loop has a row.    *)
THEOREM TypeCorrect == Spec => []TypeOK
BY InitTypeOK, NextTypeOK, PTL DEF Spec

-----------------------------------------------------------------------------
(* What the writes leave alone. *)
LEMMA WrittenColumns ==
    ASSUME NEW row \in Row, NEW view \in Row, NEW r \in Relays, NEW left \in Nat
    PROVE  /\ Claimed(row, r, left).status = row.status
           /\ Claimed(row, r, left).dead = row.dead
           /\ Claimed(row, r, left).attempts >= row.attempts
           /\ Delivered(row).status = "DELIVERED"
           /\ Delivered(row).owner = Nobody
           /\ Delivered(row).dead = row.dead
           /\ Delivered(row).attempts = row.attempts
           /\ Failed(row, view).status \in {row.status, "FAILED"}
           /\ Failed(row, view).owner = Nobody
           /\ Failed(row, view).dead => row.dead \/ view.attempts >= MaxAttempts
           /\ Failed(row, view).attempts = row.attempts
<1>1. /\ Claimed(row, r, left).status = row.status
      /\ Claimed(row, r, left).dead = row.dead
      /\ Claimed(row, r, left).attempts >= row.attempts
  BY DEF Claimed, Row
<1>2. /\ Delivered(row).status = "DELIVERED"
      /\ Delivered(row).owner = Nobody
      /\ Delivered(row).dead = row.dead
      /\ Delivered(row).attempts = row.attempts
  BY DEF Delivered, Row
<1>3. /\ Failed(row, view).status \in {row.status, "FAILED"}
      /\ Failed(row, view).owner = Nobody
      /\ Failed(row, view).attempts = row.attempts
  BY DEF Failed, Row
<1>4. Failed(row, view).dead => row.dead \/ view.attempts >= MaxAttempts
  BY DEF Failed, Row
<1> QED BY <1>1, <1>2, <1>3, <1>4

(* The table with relay r's claim: attempts only grow, nothing settles, and *)
(* only the rows of r's own open claim differ.                              *)
LEMMA ClaimedTable ==
    ASSUME TypeOK, NEW r \in Relays, NEW f \in Events
    PROVE  /\ WithClaim(r)[f] \in Row
           /\ WithClaim(r)[f].status = rows[f].status
           /\ WithClaim(r)[f].dead = rows[f].dead
           /\ WithClaim(r)[f].attempts >= rows[f].attempts
           /\ f \notin Elems(relay[r].batch) \/ ~relay[r].open => WithClaim(r)[f] = rows[f]
<1>1. rows[f] \in Row /\ relay[r].left \in Nat /\ rows[f].attempts \in Nat
  BY DEF TypeOK, RelayState, Row
<1>2. WithClaim(r)[f] = IF relay[r].open /\ f \in Elems(relay[r].batch)
                        THEN Claimed(rows[f], r, relay[r].left) ELSE rows[f]
  BY DEF WithClaim
<1>3. CASE relay[r].open /\ f \in Elems(relay[r].batch)
  BY <1>1, <1>2, <1>3, WrittenRows, WrittenColumns
<1>4. CASE ~(relay[r].open /\ f \in Elems(relay[r].batch))
  BY <1>1, <1>2, <1>4
<1> QED BY <1>3, <1>4

(* The steps that commit: the rest of RelayInv survives them.               *)
LEMMA CommitKeepsInv ==
    ASSUME RelayInv, TypeOK', NEW r \in Relays, relay[r].pc # "idle", Advance(r),
           published' = published,
           \A f \in Events \ {Current(r)} : rows'[f] = WithClaim(r)[f],
           \/ rows'[Current(r)] = WithClaim(r)[Current(r)]
           \/ /\ Current(r) \notin LockedFor(r)
              /\ \/ /\ relay[r].pc = "sent"
                    /\ rows'[Current(r)] = Delivered(WithClaim(r)[Current(r)])
                 \/ /\ relay[r].pc \in {"loaded", "failing"}
                    /\ rows'[Current(r)] = Failed(WithClaim(r)[Current(r)], relay[r].view)
    PROVE  RelayInv'
<1> DEFINE c == Current(r)
<1>1. TypeOK
  BY DEF RelayInv
<1>2. c \in Events /\ c \in Elems(relay[r].batch)
  BY <1>1, CurrentRow
<1>3. /\ ~relay'[r].open
      /\ relay'[r].pc \in {"idle", "next"}
      /\ \A q \in Relays \ {r} : relay'[q] = relay[q]
  BY <1>1, Advanced
<1>4. WithClaim(r)[c] \in Row /\ relay[r].view \in Row /\ relay[r].view.attempts \in Nat
  <2>1. WithClaim(r)[c] \in Row
    BY <1>1, <1>2, ClaimedTable
  <2>2. relay[r].view \in Row
    BY <1>1 DEF TypeOK, RelayState
  <2>3. relay[r].view.attempts \in Nat
    BY <2>2 DEF Row
  <2> QED BY <2>1, <2>2, <2>3
<1>5. \A f \in Events : /\ rows[f].attempts \in Nat /\ rows'[f].attempts \in Nat
                        /\ WithClaim(r)[f].attempts \in Nat
  <2>1. \A f \in Events : rows[f] \in Row /\ rows'[f] \in Row /\ WithClaim(r)[f] \in Row
    BY <1>1, ClaimedTable DEF TypeOK
  <2> QED BY <2>1 DEF Row
<1>6. \A f \in Events : rows'[f].attempts = WithClaim(r)[f].attempts
  BY <1>2, <1>4, WrittenColumns
<1>7. \A f \in Events : rows'[f].attempts >= rows[f].attempts
  BY <1>1, <1>5, <1>6, ClaimedTable
<1>8. ASSUME NEW q \in Relays \ {r}, relay[q].open, NEW f \in Elems(relay[q].batch)
      PROVE  f \in Events /\ rows'[f] = rows[f]
  <2>1. f \in Events
    BY <1>1, <1>8, CurrentRow DEF RelayInv, ViewsNotAhead
  <2>2. f \in LockedFor(r)
    BY <1>8 DEF LockedFor
  <2>3. ~relay[r].open \/ f \notin Elems(relay[r].batch)
    BY <1>8 DEF RelayInv, OpenClaimsDisjoint
  <2>4. WithClaim(r)[f] = rows[f]
    BY <1>1, <2>1, <2>3, ClaimedTable
  <2> QED BY <2>1, <2>2, <2>4
<1>9. DeliveredWasPublished'
  <2> SUFFICES ASSUME NEW f \in Events, rows'[f].status = "DELIVERED"
               PROVE  f \in published
    BY DEF DeliveredWasPublished
  <2>1. CASE rows[f].status = "DELIVERED"
    BY <2>1 DEF RelayInv, DeliveredWasPublished
  <2>2. CASE rows[f].status # "DELIVERED"
    <3>1. WithClaim(r)[f].status # "DELIVERED"
      BY <1>1, <2>2, ClaimedTable
    <3>2. f = c /\ relay[r].pc = "sent"
      BY <1>4, <3>1, WrittenColumns
    <3> QED BY <3>2 DEF RelayInv, ViewsNotAhead
  <2> QED BY <2>1, <2>2
<1>10. DeadOnlyAfterBudget'
  <2> SUFFICES ASSUME NEW f \in Events, rows'[f].dead
               PROVE  rows'[f].attempts >= MaxAttempts
    BY DEF DeadOnlyAfterBudget
  <2>1. MaxAttempts \in Nat
    BY ConstantsAssumption DEF ConstantsAssumption
  <2>2. CASE rows[f].dead
    BY <1>5, <1>7, <2>1, <2>2 DEF RelayInv, DeadOnlyAfterBudget
  <2>3. CASE ~rows[f].dead
    <3>1. ~WithClaim(r)[f].dead
      BY <1>1, <2>3, ClaimedTable
    <3>2. /\ f = c
          /\ relay[r].pc \in {"loaded", "failing"}
          /\ relay[r].view.attempts >= MaxAttempts
      BY <1>4, <3>1, WrittenColumns
    <3>3. relay[r].view.attempts <= WithClaim(r)[c].attempts
      BY <3>2 DEF RelayInv, ViewsNotAhead
    <3> QED BY <1>2, <1>4, <1>5, <1>6, <2>1, <3>2, <3>3
  <2> QED BY <2>2, <2>3
<1>11. SettledRowsUnleased'
  <2> SUFFICES ASSUME NEW f \in Events, rows'[f].status = "DELIVERED" \/ rows'[f].dead
               PROVE  rows'[f].owner = Nobody
    BY DEF SettledRowsUnleased
  <2>1. CASE rows'[f] = WithClaim(r)[f]
    <3>1. rows[f].status = "DELIVERED" \/ rows[f].dead
      BY <1>1, <2>1, ClaimedTable
    <3>2. rows[f].owner = Nobody
      BY <3>1 DEF RelayInv, SettledRowsUnleased
    <3>3. ~relay[r].open \/ f \notin Elems(relay[r].batch)
      BY <3>1 DEF RelayInv, OpenClaimsUndisturbed
    <3> QED BY <1>1, <2>1, <3>2, <3>3, ClaimedTable
  <2>2. CASE rows'[f] # WithClaim(r)[f]
    BY <1>4, <2>2, WrittenColumns
  <2> QED BY <2>1, <2>2
<1>12. OpenClaimsDisjoint'
  BY <1>3 DEF RelayInv, OpenClaimsDisjoint
<1>13. OpenClaimsUndisturbed'
  BY <1>3, <1>8 DEF RelayInv, OpenClaimsUndisturbed
<1>14. ViewsNotAhead'
  <2> SUFFICES ASSUME NEW q \in Relays
               PROVE  /\ relay'[q].open => relay'[q].pc \in {"loaded", "sent", "error"}
                      /\ relay'[q].pc = "sent" => Current(q)' \in published'
                      /\ relay'[q].pc \in {"loaded", "failing"} =>
                            relay'[q].view.attempts <= WithClaim(q)'[Current(q)'].attempts
    BY DEF ViewsNotAhead
  <2>1. CASE q = r
    BY <1>3, <2>1
  <2>2. CASE q # r
    <3>1. relay'[q] = relay[q] /\ Current(q)' = Current(q)
      BY <1>3, <2>2 DEF Current
    <3>2. ASSUME relay[q].pc \in {"loaded", "failing"}
          PROVE  relay[q].view.attempts <= WithClaim(q)'[Current(q)].attempts
      <4>1. Current(q) \in Events /\ Current(q) \in Elems(relay[q].batch)
        BY <1>1, <3>2, CurrentRow
      <4>2. relay[q].view.attempts <= WithClaim(q)[Current(q)].attempts
        BY <3>2 DEF RelayInv, ViewsNotAhead
      <4>3. WithClaim(q)'[Current(q)] = IF relay[q].open
                                        THEN Claimed(rows'[Current(q)], q, relay[q].left)
                                        ELSE rows'[Current(q)]
        BY <3>1, <4>1 DEF WithClaim
      <4>4. CASE relay[q].open
        <5>1. WithClaim(q)'[Current(q)] = WithClaim(q)[Current(q)]
          BY <1>8, <2>2, <4>1, <4>3, <4>4 DEF WithClaim
        <5> QED BY <4>2, <5>1
      <4>5. CASE ~relay[q].open
        <5>1. WithClaim(q)[Current(q)] = rows[Current(q)]
          BY <4>1, <4>5 DEF WithClaim
        <5>2. relay[q].view.attempts \in Nat
          BY <1>1 DEF TypeOK, RelayState, Row
        <5> QED BY <1>5, <1>7, <4>1, <4>2, <4>3, <4>5, <5>1, <5>2
      <4> QED BY <4>4, <4>5
    <3> QED BY <3>1, <3>2 DEF RelayInv, ViewsNotAhead
  <2> QED BY <2>1, <2>2
<1> QED BY <1>9, <1>10, <1>11, <1>12, <1>13, <1>14 DEF RelayInv

LEMMA MarkFailureKeepsInv ==
    ASSUME RelayInv, TypeOK', NEW r \in Relays, relay[r].pc \in {"loaded", "failing"},
           MarkFailure(r), Advance(r), published' = published
    PROVE  RelayInv'
<1> DEFINE c == Current(r)
<1>1. TypeOK /\ relay[r].pc # "idle"
  BY DEF RelayInv
<1>2. c \in Events /\ WithClaim(r) \in [Events -> Row]
  BY <1>1, CurrentRow, CommittedTable
<1>3. CASE ~HoldsLease(r, relay[r].view)
  <2>1. rows' = WithClaim(r)
    BY <1>3 DEF MarkFailure
  <2> QED BY <1>1, <2>1, CommitKeepsInv
<1>4. CASE HoldsLease(r, relay[r].view)
  <2>1. c \notin LockedFor(r)
    BY <1>4 DEF MarkFailure, MayWrite
  <2>2. rows' = [WithClaim(r) EXCEPT ![c] = Failed(WithClaim(r)[c], relay[r].view)]
    BY <1>4 DEF MarkFailure
  <2>3. rows'[c] = Failed(WithClaim(r)[c], relay[r].view)
    BY <1>2, <2>2
  <2>4. \A f \in Events \ {c} : rows'[f] = WithClaim(r)[f]
    BY <1>2, <2>2
  <2> QED BY <1>1, <2>1, <2>3, <2>4, CommitKeepsInv
<1> QED BY <1>3, <1>4

(* The steps of one relay that leave the table alone: only what its view    *)
(* and its claim promise is left to show.                                   *)
LEMMA LocalStepKeepsInv ==
    ASSUME RelayInv, TypeOK', NEW r \in Relays, rows' = rows, published \subseteq published',
           \A q \in Relays \ {r} : relay'[q] = relay[q],
           relay'[r].open =>
              /\ \A e \in Elems(relay'[r].batch) :
                    /\ rows[e].status \in {"PENDING", "FAILED"}
                    /\ rows[e].lease = 0
                    /\ ~rows[e].dead
              /\ \A q \in Relays \ {r} :
                    relay[q].open => Elems(relay'[r].batch) \cap Elems(relay[q].batch) = {}
              /\ relay'[r].pc \in {"loaded", "sent", "error"},
           relay'[r].pc = "sent" => Current(r)' \in published',
           relay'[r].pc \in {"loaded", "failing"} =>
              relay'[r].view.attempts <= WithClaim(r)'[Current(r)'].attempts
    PROVE  RelayInv'
<1>1. DeliveredWasPublished' /\ DeadOnlyAfterBudget' /\ SettledRowsUnleased'
  BY DEF RelayInv, DeliveredWasPublished, DeadOnlyAfterBudget, SettledRowsUnleased
<1>2. OpenClaimsDisjoint'
  BY DEF RelayInv, OpenClaimsDisjoint
<1>3. OpenClaimsUndisturbed'
  BY DEF RelayInv, OpenClaimsUndisturbed
<1>4. ASSUME NEW q \in Relays \ {r}
      PROVE  WithClaim(q)' = WithClaim(q) /\ Current(q)' = Current(q)
  BY DEF WithClaim, Current
<1>5. ViewsNotAhead'
  BY <1>4 DEF RelayInv, ViewsNotAhead
<1> QED BY <1>1, <1>2, <1>3, <1>5 DEF RelayInv

LEMMA InitRelayInv == Init => RelayInv
<1> SUFFICES ASSUME Init PROVE RelayInv
  OBVIOUS
<1>1. TypeOK
  BY InitTypeOK
<1>2. \A e \in Events : rows[e].status = "ABSENT" /\ ~rows[e].dead
  BY DEF Init, Blank
<1>3. \A r \in Relays : ~relay[r].open /\ relay[r].pc = "idle"
  BY DEF Init, Idle
<1> QED BY <1>1, <1>2, <1>3 DEF RelayInv, DeliveredWasPublished, DeadOnlyAfterBudget,
         SettledRowsUnleased, OpenClaimsDisjoint, OpenClaimsUndisturbed, ViewsNotAhead

LEMMA PollKeepsInv ==
    ASSUME RelayInv, TypeOK', NEW r \in Relays, Poll(r)
    PROVE  RelayInv'
<1>1. TypeOK
  BY DEF RelayInv
<1>2. PICK batch \in Batches :
        /\ ClaimableBatch(r, batch)
        /\ relay' = [relay EXCEPT ![r] =
                      [pc |-> "loaded", batch |-> batch, open |-> TRUE, left |-> LeaseTicks,
                       view |-> Claimed(rows[batch[1]], r, LeaseTicks)]]
  BY DEF Poll
<1>3. /\ rows' = rows /\ published' = published
      /\ \A q \in Relays \ {r} : relay'[q] = relay[q]
      /\ relay'[r] = [pc |-> "loaded", batch |-> batch, open |-> TRUE, left |-> LeaseTicks,
                      view |-> Claimed(rows[batch[1]], r, LeaseTicks)]
  BY <1>1, <1>2 DEF Poll, TypeOK
<1>4. Elems(batch) \subseteq {e \in Events : Eligible(e)} \ LockedFor(r)
  BY <1>2 DEF ClaimableBatch
<1>5. \A e \in Elems(relay'[r].batch) :
        rows[e].status \in {"PENDING", "FAILED"} /\ rows[e].lease = 0 /\ ~rows[e].dead
  BY <1>3, <1>4 DEF Eligible
<1>6. \A q \in Relays \ {r} :
        relay[q].open => Elems(relay'[r].batch) \cap Elems(relay[q].batch) = {}
  BY <1>3, <1>4 DEF LockedFor
<1>7. relay'[r].view.attempts <= WithClaim(r)'[Current(r)'].attempts
  <2>1. batch \in Seq(Events) /\ batch # <<>>
    BY <1>2, BatchesAreSequences DEF ClaimableBatch
  <2>2. batch[1] \in Events /\ batch[1] \in Elems(batch) /\ Head(batch) = batch[1]
    BY <2>1, BatchFacts
  <2>3. Current(r)' = batch[1]
    BY <1>3, <2>2 DEF Current
  <2>4. WithClaim(r)'[batch[1]] = Claimed(rows[batch[1]], r, LeaseTicks)
    BY <1>3, <2>2 DEF WithClaim
  <2>5. Claimed(rows[batch[1]], r, LeaseTicks) \in Row
    <3>1. rows[batch[1]] \in Row
      BY <1>1, <2>2 DEF TypeOK
    <3>2. LeaseTicks \in Nat
      BY ConstantsAssumption DEF ConstantsAssumption
    <3> QED BY <3>1, <3>2, WrittenRows
  <2>6. Claimed(rows[batch[1]], r, LeaseTicks).attempts \in Nat
    BY <2>5 DEF Row
  <2>7. relay'[r].view = Claimed(rows[batch[1]], r, LeaseTicks)
    BY <1>3
  <2> QED BY <2>3, <2>4, <2>6, <2>7
<1> QED BY <1>3, <1>5, <1>6, <1>7, LocalStepKeepsInv

LEMMA NextRelayInv == RelayInv /\ [Next]_vars => RelayInv'
<1> SUFFICES ASSUME RelayInv, [Next]_vars PROVE RelayInv'
  OBVIOUS
<1>1. TypeOK /\ TypeOK'
  BY NextTypeOK DEF RelayInv
<1>2. relay \in [Relays -> RelayState]
  BY <1>1 DEF TypeOK
<1>3. ASSUME NEW e \in Events, Insert(e) PROVE RelayInv'
  <2>1. /\ rows' = [rows EXCEPT ![e].status = "PENDING"]
        /\ published' = published /\ relay' = relay
        /\ rows[e] = Blank
    BY <1>3 DEF Insert
  <2>2. rows'[e] = [Blank EXCEPT !.status = "PENDING"]
    BY <1>1, <2>1 DEF TypeOK
  <2>3. \A f \in Events \ {e} : rows'[f] = rows[f]
    BY <1>1, <2>1 DEF TypeOK
  <2>4. rows'[e].status = "PENDING" /\ ~rows'[e].dead
    BY <2>2 DEF Blank
  <2>5. \A r \in Relays : relay[r].open => e \notin Elems(relay[r].batch)
    BY <2>1 DEF RelayInv, OpenClaimsUndisturbed, Blank
  <2>6. DeliveredWasPublished' /\ DeadOnlyAfterBudget' /\ SettledRowsUnleased'
    BY <2>1, <2>3, <2>4 DEF RelayInv, DeliveredWasPublished, DeadOnlyAfterBudget, SettledRowsUnleased
  <2>7. OpenClaimsDisjoint'
    BY <2>1 DEF RelayInv, OpenClaimsDisjoint
  <2>8. OpenClaimsUndisturbed'
    BY <2>1, <2>3, <2>5 DEF RelayInv, OpenClaimsUndisturbed
  <2>9. ASSUME NEW r \in Relays, relay[r].pc \in {"loaded", "failing"}
        PROVE  relay[r].view.attempts <= WithClaim(r)'[Current(r)].attempts
    <3>1. Current(r) \in Events /\ Current(r) \in Elems(relay[r].batch)
      BY <1>1, <2>9, CurrentRow
    <3>2. relay[r].view.attempts <= WithClaim(r)[Current(r)].attempts
      BY <2>9 DEF RelayInv, ViewsNotAhead
    <3>3. CASE Current(r) # e
      BY <2>1, <2>3, <3>1, <3>2, <3>3 DEF WithClaim
    <3>4. CASE Current(r) = e
      <4>1. WithClaim(r)'[e] = rows'[e] /\ WithClaim(r)[e] = rows[e]
        BY <2>1, <2>5, <3>1, <3>4 DEF WithClaim
      <4>2. rows'[e].attempts = rows[e].attempts
        BY <2>1, <2>2 DEF Blank
      <4> QED BY <3>2, <3>4, <4>1, <4>2
    <3> QED BY <3>3, <3>4
  <2>10. ViewsNotAhead'
    BY <2>1, <2>9 DEF RelayInv, ViewsNotAhead, Current
  <2> QED BY <1>1, <2>6, <2>7, <2>8, <2>10 DEF RelayInv
<1>4. ASSUME NEW r \in Relays, Poll(r) PROVE RelayInv'
  BY <1>1, <1>4, PollKeepsInv
<1>5. ASSUME NEW r \in Relays, Load(r) PROVE RelayInv'
  <2>1. /\ rows' = rows /\ published' = published /\ relay[r].pc = "next"
        /\ relay' = [relay EXCEPT ![r] = [relay[r] EXCEPT !.pc = "loaded", !.view = rows[Current(r)]]]
    BY <1>5 DEF Load
  <2>2. relay'[r] = [relay[r] EXCEPT !.pc = "loaded", !.view = rows[Current(r)]]
    BY <1>2, <2>1
  <2>3. /\ relay'[r].pc = "loaded" /\ relay'[r].open = relay[r].open
        /\ relay'[r].batch = relay[r].batch /\ relay'[r].view = rows[Current(r)]
        /\ \A q \in Relays \ {r} : relay'[q] = relay[q]
    BY <1>2, <2>1, <2>2 DEF RelayState
  <2>4. ~relay[r].open
    BY <2>1 DEF RelayInv, ViewsNotAhead
  <2>5. Current(r) \in Events /\ Current(r)' = Current(r)
    BY <1>1, <2>1, <2>3, CurrentRow DEF Current
  <2>6. WithClaim(r)'[Current(r)] = rows[Current(r)]
    BY <2>1, <2>3, <2>4, <2>5 DEF WithClaim
  <2>7. rows[Current(r)].attempts \in Nat
    BY <1>1, <2>5 DEF TypeOK, Row
  <2> QED BY <1>1, <2>1, <2>3, <2>4, <2>5, <2>6, <2>7, LocalStepKeepsInv
<1>6. ASSUME NEW r \in Relays, FailUnroutable(r) PROVE RelayInv'
  BY <1>1, <1>6, MarkFailureKeepsInv DEF FailUnroutable
<1>7. ASSUME NEW r \in Relays, NEW pc \in {"sent", "error"},
             relay[r].pc \in {"loaded", "sent"}, rows' = rows, published \subseteq published',
             pc = "sent" => Current(r) \in published',
             relay' = [relay EXCEPT ![r].pc = pc]
      PROVE  RelayInv'
  <2>1. relay'[r] = [relay[r] EXCEPT !.pc = pc]
    BY <1>2, <1>7
  <2>2. /\ relay'[r].pc = pc /\ relay'[r].open = relay[r].open
        /\ relay'[r].batch = relay[r].batch
        /\ \A q \in Relays \ {r} : relay'[q] = relay[q]
    BY <1>2, <1>7, <2>1 DEF RelayState
  <2>3. Current(r)' = Current(r)
    BY <2>2 DEF Current
  <2>4. relay'[r].open =>
          /\ \A e \in Elems(relay'[r].batch) :
                rows[e].status \in {"PENDING", "FAILED"} /\ rows[e].lease = 0 /\ ~rows[e].dead
          /\ \A q \in Relays \ {r} :
                relay[q].open => Elems(relay'[r].batch) \cap Elems(relay[q].batch) = {}
    BY <2>2 DEF RelayInv, OpenClaimsUndisturbed, OpenClaimsDisjoint
  <2> QED BY <1>1, <1>7, <2>2, <2>3, <2>4, LocalStepKeepsInv
<1>8. ASSUME NEW r \in Relays, Publish(r) PROVE RelayInv'
  BY <1>7, <1>8 DEF Publish
<1>9. ASSUME NEW r \in Relays, PublishError(r) PROVE RelayInv'
  BY <1>7, <1>9 DEF PublishError
<1>10. ASSUME NEW r \in Relays, RecordDelivered(r) PROVE RelayInv'
  <2>1. Current(r) \in Events /\ WithClaim(r) \in [Events -> Row]
    BY <1>1, <1>10, CurrentRow, CommittedTable DEF RecordDelivered
  <2>2. rows'[Current(r)] = Delivered(WithClaim(r)[Current(r)])
    BY <1>10, <2>1 DEF RecordDelivered
  <2>3. \A f \in Events \ {Current(r)} : rows'[f] = WithClaim(r)[f]
    BY <1>10, <2>1 DEF RecordDelivered
  <2> QED BY <1>1, <1>10, <2>2, <2>3, CommitKeepsInv DEF RecordDelivered, MayWrite
<1>11. ASSUME NEW r \in Relays, LeaseLost(r) PROVE RelayInv'
  BY <1>7, <1>11 DEF LeaseLost
<1>12. ASSUME NEW r \in Relays, Recover(r) PROVE RelayInv'
  <2>1. /\ relay[r].pc = "error" /\ relay[r].pc # "idle"
        /\ rows' = rows /\ published' = published
    BY <1>12 DEF Recover
  <2>2. CASE Advance(r)
    BY <1>1, <2>1, <2>2, Advanced, LocalStepKeepsInv
  <2>3. CASE relay' = [relay EXCEPT ![r] = [relay[r] EXCEPT
                        !.pc = "failing", !.open = FALSE, !.left = 0, !.view = rows[Current(r)]]]
    <3>1. relay'[r] = [relay[r] EXCEPT
                        !.pc = "failing", !.open = FALSE, !.left = 0, !.view = rows[Current(r)]]
      BY <1>2, <2>3
    <3>2. /\ relay'[r].pc = "failing" /\ ~relay'[r].open
          /\ relay'[r].batch = relay[r].batch /\ relay'[r].view = rows[Current(r)]
          /\ \A q \in Relays \ {r} : relay'[q] = relay[q]
      BY <1>2, <2>3, <3>1 DEF RelayState
    <3>3. Current(r) \in Events /\ Current(r)' = Current(r)
      BY <1>1, <2>1, <3>2, CurrentRow DEF Current
    <3>4. WithClaim(r)'[Current(r)] = rows[Current(r)]
      BY <2>1, <3>2, <3>3 DEF WithClaim
    <3>5. rows[Current(r)].attempts \in Nat
      BY <1>1, <3>3 DEF TypeOK, Row
    <3> QED BY <1>1, <2>1, <3>2, <3>3, <3>4, <3>5, LocalStepKeepsInv
  <2> QED BY <1>12, <2>2, <2>3 DEF Recover
<1>13. ASSUME NEW r \in Relays, RecordFailure(r) PROVE RelayInv'
  BY <1>1, <1>13, MarkFailureKeepsInv DEF RecordFailure
<1>14. ASSUME NEW r \in Relays, Crash(r) PROVE RelayInv'
  <2>1. /\ rows' = rows /\ published' = published
        /\ relay'[r] = Idle /\ \A q \in Relays \ {r} : relay'[q] = relay[q]
    BY <1>2, <1>14 DEF Crash
  <2>2. ~relay'[r].open /\ relay'[r].pc = "idle"
    BY <2>1 DEF Idle
  <2> QED BY <1>1, <2>1, <2>2, LocalStepKeepsInv
<1>15. CASE Tick
  <2>1. \A e \in Events : /\ rows'[e].status = rows[e].status
                          /\ rows'[e].dead = rows[e].dead
                          /\ rows'[e].owner = rows[e].owner
                          /\ rows'[e].attempts = rows[e].attempts
                          /\ rows[e].lease = 0 => rows'[e].lease = 0
    BY <1>1, <1>15 DEF Tick, TypeOK, Row, Less
  <2>2. \A r \in Relays : /\ relay'[r].pc = relay[r].pc /\ relay'[r].open = relay[r].open
                          /\ relay'[r].batch = relay[r].batch /\ relay'[r].view = relay[r].view
    BY <1>2, <1>15 DEF Tick, RelayState
  <2>3. published' = published
    BY <1>15 DEF Tick
  <2>4. DeliveredWasPublished' /\ DeadOnlyAfterBudget' /\ SettledRowsUnleased'
    BY <2>1, <2>3 DEF RelayInv, DeliveredWasPublished, DeadOnlyAfterBudget, SettledRowsUnleased
  <2>5. OpenClaimsDisjoint'
    BY <2>2 DEF RelayInv, OpenClaimsDisjoint
  <2>6. OpenClaimsUndisturbed'
    <3>1. \A r \in Relays : relay[r].open => Elems(relay[r].batch) \subseteq Events
      BY <1>1, CurrentRow DEF RelayInv, ViewsNotAhead
    <3> QED BY <2>1, <2>2, <3>1 DEF RelayInv, OpenClaimsUndisturbed
  <2>7. ASSUME NEW r \in Relays, relay[r].pc \in {"loaded", "failing"}
        PROVE  relay[r].view.attempts <= WithClaim(r)'[Current(r)].attempts
    <3>1. Current(r) \in Events
      BY <1>1, <2>7, CurrentRow
    <3>2. relay[r].view.attempts <= WithClaim(r)[Current(r)].attempts
      BY <2>7 DEF RelayInv, ViewsNotAhead
    <3>3. /\ rows[Current(r)] \in Row /\ rows'[Current(r)] \in Row
          /\ rows'[Current(r)].attempts = rows[Current(r)].attempts
      BY <1>1, <2>1, <3>1 DEF TypeOK
    <3>4. \A left \in Nat : Claimed(rows'[Current(r)], r, left).attempts
                              = Claimed(rows[Current(r)], r, left).attempts
      BY <3>3 DEF Claimed, Row
    <3>5. relay[r].left \in Nat /\ relay'[r].left \in Nat
      BY <1>1 DEF TypeOK, RelayState
    <3>6. \A left, more \in Nat : Claimed(rows[Current(r)], r, left).attempts
                                    = Claimed(rows[Current(r)], r, more).attempts
      BY <3>3 DEF Claimed, Row
    <3>7. WithClaim(r)'[Current(r)].attempts = WithClaim(r)[Current(r)].attempts
      <4>1. CASE relay[r].open /\ Current(r) \in Elems(relay[r].batch)
        <5>1. /\ WithClaim(r)'[Current(r)] = Claimed(rows'[Current(r)], r, relay'[r].left)
              /\ WithClaim(r)[Current(r)] = Claimed(rows[Current(r)], r, relay[r].left)
          BY <2>2, <3>1, <4>1 DEF WithClaim
        <5> QED BY <3>4, <3>5, <3>6, <5>1
      <4>2. CASE ~(relay[r].open /\ Current(r) \in Elems(relay[r].batch))
        <5>1. /\ WithClaim(r)'[Current(r)] = rows'[Current(r)]
              /\ WithClaim(r)[Current(r)] = rows[Current(r)]
          BY <2>2, <3>1, <4>2 DEF WithClaim
        <5> QED BY <3>3, <5>1
      <4> QED BY <4>1, <4>2
    <3> QED BY <3>2, <3>7
  <2>8. ViewsNotAhead'
    <3>1. \A r \in Relays : Current(r)' = Current(r)
      BY <2>2 DEF Current
    <3> QED BY <2>2, <2>3, <2>7, <3>1 DEF RelayInv, ViewsNotAhead
  <2> QED BY <1>1, <2>4, <2>5, <2>6, <2>8 DEF RelayInv
<1>16. CASE UNCHANGED vars
  <2>1. rows' = rows /\ published' = published /\ relay' = relay
    BY <1>16 DEF vars
  <2> QED BY <1>1, <2>1 DEF RelayInv, DeliveredWasPublished, DeadOnlyAfterBudget,
       SettledRowsUnleased, OpenClaimsDisjoint, OpenClaimsUndisturbed, ViewsNotAhead,
       WithClaim, Current
<1> QED
  BY <1>3, <1>4, <1>5, <1>6, <1>8, <1>9, <1>10, <1>11, <1>12, <1>13, <1>14, <1>15, <1>16 DEF Next

(* The inductive invariant of the outbox holds for any number of rows and   *)
(* relays, whatever the lease, the backoff and the size of a batch.         *)
THEOREM Invariance == Spec => []RelayInv
BY InitRelayInv, NextRelayInv, PTL DEF Spec

(* A DELIVERED row was accepted by the transport, however stale the copy of *)
(* the row was that the relay recorded it on.                               *)
THEOREM DeliveredMeansPublished == Spec => []DeliveredWasPublished
BY Invariance, PTL DEF RelayInv

(* A row is dead only after max_attempts committed claims, and no settled   *)
(* row keeps a lease.                                                       *)
THEOREM DeadMeansSpent == Spec => [](DeadOnlyAfterBudget /\ SettledRowsUnleased)
BY Invariance, PTL DEF RelayInv

(* SKIP LOCKED keeps concurrent claims apart.                               *)
THEOREM ClaimsExclusive == Spec => []OpenClaimsDisjoint
BY Invariance, PTL DEF RelayInv

-----------------------------------------------------------------------------
\* What one step may do to a row.
RowStep(e) ==
    /\ rows[e].owner # Nobody /\ rows[e].lease > 0
          => rows'[e].owner \in {rows[e].owner, Nobody}
    /\ rows[e].dead => rows'[e].dead
    /\ rows'[e].attempts >= rows[e].attempts

LEMMA WrittenRowStep ==
    ASSUME RelayInv, NEW r \in Relays, NEW e \in Events,
           \/ rows'[e] = WithClaim(r)[e]
           \/ rows'[e] = Delivered(WithClaim(r)[e])
           \/ rows'[e] = Failed(WithClaim(r)[e], relay[r].view)
    PROVE  RowStep(e)
<1> DEFINE row == WithClaim(r)[e]
           view == relay[r].view
<1>1. TypeOK
  BY DEF RelayInv
<1>2. row \in Row /\ rows[e] \in Row /\ view \in Row
  BY <1>1, ClaimedTable DEF TypeOK, RelayState
<1>3. row.dead = rows[e].dead /\ row.attempts >= rows[e].attempts
  BY <1>1, ClaimedTable
<1>4. rows[e].lease > 0 => row = rows[e]
  <2>1. CASE relay[r].open /\ e \in Elems(relay[r].batch)
    BY <2>1 DEF RelayInv, OpenClaimsUndisturbed
  <2>2. CASE ~(relay[r].open /\ e \in Elems(relay[r].batch))
    BY <1>1, <2>2, ClaimedTable
  <2> QED BY <2>1, <2>2
<1>5. CASE rows'[e] = row
  BY <1>3, <1>4, <1>5 DEF RowStep
<1>6. CASE rows'[e] = Delivered(row)
  BY <1>2, <1>3, <1>6, WrittenColumns DEF RowStep
<1>7. CASE rows'[e] = Failed(row, view)
  <2>1. row.dead => Failed(row, view).dead
    BY <1>2 DEF Failed, Row
  <2> QED BY <1>2, <1>3, <1>7, <2>1, WrittenColumns DEF RowStep
<1> QED BY <1>5, <1>6, <1>7

LEMMA EveryRowStep ==
    ASSUME RelayInv, [Next]_vars, NEW e \in Events
    PROVE  RowStep(e)
<1>1. TypeOK
  BY DEF RelayInv
<1>2. rows[e] \in Row /\ rows[e].attempts \in Nat
  BY <1>1 DEF TypeOK, Row
<1>3. ASSUME rows' = rows PROVE RowStep(e)
  BY <1>2, <1>3 DEF RowStep
<1>4. ASSUME NEW f \in Events, Insert(f) PROVE RowStep(e)
  <2>1. rows' = [rows EXCEPT ![f] = [rows[f] EXCEPT !.status = "PENDING"]]
    BY <1>4 DEF Insert
  <2>2. /\ rows'[e].owner = rows[e].owner
        /\ rows'[e].dead = rows[e].dead
        /\ rows'[e].attempts = rows[e].attempts
    BY <1>1, <1>2, <2>1 DEF TypeOK, Row
  <2> QED BY <1>2, <2>2 DEF RowStep
<1>5. ASSUME NEW r \in Relays, relay[r].pc # "idle", MarkFailure(r) PROVE RowStep(e)
  <2>1. WithClaim(r) \in [Events -> Row] /\ Current(r) \in Events
    BY <1>1, <1>5, CommittedTable, CurrentRow
  <2>2. \/ rows' = WithClaim(r)
        \/ rows' = [WithClaim(r) EXCEPT ![Current(r)] =
                      Failed(WithClaim(r)[Current(r)], relay[r].view)]
    BY <1>5 DEF MarkFailure
  <2>3. \/ rows'[e] = WithClaim(r)[e]
        \/ rows'[e] = Failed(WithClaim(r)[e], relay[r].view)
    BY <2>1, <2>2
  <2> QED BY <2>3, WrittenRowStep
<1>6. ASSUME NEW r \in Relays, RecordDelivered(r) PROVE RowStep(e)
  <2>1. WithClaim(r) \in [Events -> Row] /\ Current(r) \in Events
    BY <1>1, <1>6, CommittedTable, CurrentRow DEF RecordDelivered
  <2>2. \/ rows'[e] = WithClaim(r)[e]
        \/ rows'[e] = Delivered(WithClaim(r)[e])
    BY <1>6, <2>1 DEF RecordDelivered
  <2> QED BY <2>2, WrittenRowStep
<1>7. CASE Tick
  <2>1. /\ rows'[e].owner = rows[e].owner
        /\ rows'[e].dead = rows[e].dead
        /\ rows'[e].attempts = rows[e].attempts
    BY <1>2, <1>7 DEF Tick, Row
  <2> QED BY <1>2, <2>1 DEF RowStep
<1>8. CASE UNCHANGED vars
  BY <1>3, <1>8 DEF vars
<1> QED
  BY <1>3, <1>4, <1>5, <1>6, <1>7, <1>8 DEF Next, Poll, Load, FailUnroutable, Publish,
     PublishError, LeaseLost, Recover, RecordFailure, Crash

(* A running lease passes to no other relay, although the claims of others  *)
(* may be committed long after they looked at the table.                    *)
THEOREM LeasesRespected == Spec => NoLiveLeaseStolen
<1>1. RelayInv /\ [Next]_vars =>
        [\A e \in Events :
            rows[e].owner # Nobody /\ rows[e].lease > 0
                => rows'[e].owner \in {rows[e].owner, Nobody}]_vars
  BY EveryRowStep DEF RowStep
<1> QED BY <1>1, Invariance, PTL DEF Spec, NoLiveLeaseStolen

(* Death is final and attempts are never taken back by a stale write.       *)
THEOREM DeadForGood == Spec => DeadIsFinal
<1>1. RelayInv /\ [Next]_vars =>
        [\A e \in Events : /\ rows[e].dead => rows'[e].dead
                           /\ rows'[e].attempts >= rows[e].attempts]_vars
  BY EveryRowStep DEF RowStep
<1> QED BY <1>1, Invariance, PTL DEF Spec, DeadIsFinal

-----------------------------------------------------------------------------
(* The rows a relay has in hand are in the table. *)
BatchesRecorded ==
    \A r \in Relays : \A e \in Elems(relay[r].batch) : rows[e].status # "ABSENT"

(* No step removes a row. *)
LEMMA RowsStay ==
    ASSUME RelayInv, [Next]_vars, NEW e \in Events, rows[e].status # "ABSENT"
    PROVE  rows'[e].status # "ABSENT"
<1>1. TypeOK
  BY DEF RelayInv
<1>2. ASSUME NEW r \in Relays, relay[r].pc # "idle",
             \/ rows' = WithClaim(r)
             \/ rows' = [WithClaim(r) EXCEPT ![Current(r)] = Delivered(@)]
             \/ rows' = [WithClaim(r) EXCEPT ![Current(r)] = Failed(@, relay[r].view)]
      PROVE  rows'[e].status # "ABSENT"
  <2>1. WithClaim(r) \in [Events -> Row] /\ Current(r) \in Events /\ relay[r].view \in Row
    BY <1>1, <1>2, CommittedTable, CurrentRow DEF TypeOK, RelayState
  <2>2. WithClaim(r)[e].status = rows[e].status /\ WithClaim(r)[e] \in Row
    BY <1>1, <2>1, ClaimedTable
  <2>3. rows'[e] \in {WithClaim(r)[e], Delivered(WithClaim(r)[e]),
                      Failed(WithClaim(r)[e], relay[r].view)}
    BY <1>2, <2>1
  <2> QED BY <2>1, <2>2, <2>3, WrittenColumns
<1>3. ASSUME NEW r \in Relays, relay[r].pc # "idle", MarkFailure(r)
      PROVE  rows'[e].status # "ABSENT"
  BY <1>2, <1>3 DEF MarkFailure
<1>4. ASSUME NEW f \in Events, Insert(f) PROVE rows'[e].status # "ABSENT"
  BY <1>1, <1>4 DEF Insert, TypeOK, Row
<1>5. ASSUME Tick PROVE rows'[e].status # "ABSENT"
  BY <1>1, <1>5 DEF Tick, TypeOK, Row
<1>6. ASSUME NEW r \in Relays, RecordDelivered(r) PROVE rows'[e].status # "ABSENT"
  BY <1>2, <1>6 DEF RecordDelivered
<1> QED
  BY <1>3, <1>4, <1>5, <1>6 DEF vars, Next, Poll, Load, FailUnroutable, Publish,
     PublishError, LeaseLost, Recover, RecordFailure, Crash

LEMMA AdvanceShrinks ==
    ASSUME TypeOK, NEW r \in Relays, relay[r].pc # "idle", Advance(r), NEW q \in Relays
    PROVE  Elems(relay'[q].batch) \subseteq Elems(relay[q].batch)
<1>1. relay \in [Relays -> RelayState] /\ relay[r].batch \in Seq(Events) /\ relay[r].batch # <<>>
  BY DEF TypeOK, RelayState
<1>2. Elems(Tail(relay[r].batch)) \subseteq Elems(relay[r].batch)
  BY <1>1, BatchFacts
<1>3. relay'[r].batch = Tail(relay[r].batch) /\ (q # r => relay'[q] = relay[q])
  BY <1>1 DEF Advance, Idle
<1> QED BY <1>2, <1>3

LEMMA NextBatchesRecorded ==
    RelayInv /\ BatchesRecorded /\ [Next]_vars => BatchesRecorded'
<1> SUFFICES ASSUME RelayInv, BatchesRecorded, [Next]_vars,
                    NEW q \in Relays, NEW e \in Elems(relay'[q].batch)
             PROVE  rows'[e].status # "ABSENT"
  BY DEF BatchesRecorded
<1>1. TypeOK /\ relay \in [Relays -> RelayState]
  BY DEF RelayInv, TypeOK
<1>2. \A f \in Events : rows[f].status # "ABSENT" => rows'[f].status # "ABSENT"
  BY RowsStay
<1>3. ASSUME e \in Elems(relay[q].batch) PROVE rows'[e].status # "ABSENT"
  <2>1. relay[q].batch \in Seq(Events)
    BY <1>1 DEF RelayState
  <2>2. e \in Events
    BY <1>3, <2>1 DEF Elems
  <2> QED BY <1>2, <1>3, <2>2 DEF BatchesRecorded
<1>4. ASSUME NEW r \in Relays, relay[r].pc # "idle", Advance(r) PROVE rows'[e].status # "ABSENT"
  BY <1>1, <1>3, <1>4, AdvanceShrinks
<1>5. ASSUME NEW r \in Relays, Poll(r) PROVE rows'[e].status # "ABSENT"
  <2>1. CASE q = r
    <3>1. PICK batch \in Batches : ClaimableBatch(r, batch) /\ relay'[r].batch = batch
      BY <1>1, <1>5 DEF Poll
    <3>2. \A f \in Elems(batch) : f \in Events /\ Eligible(f)
      BY <3>1 DEF ClaimableBatch
    <3> QED BY <1>2, <2>1, <3>1, <3>2 DEF Eligible
  <2>2. CASE q # r
    BY <1>1, <1>3, <1>5, <2>2 DEF Poll
  <2> QED BY <2>1, <2>2
<1>6. ASSUME NEW r \in Relays, Crash(r) PROVE rows'[e].status # "ABSENT"
  <2>1. q = r => Elems(relay'[q].batch) = {}
    BY <1>1, <1>6 DEF Crash, Idle, Elems
  <2>2. q # r => relay'[q] = relay[q]
    BY <1>1, <1>6 DEF Crash
  <2> QED BY <1>3, <2>1, <2>2
<1>7. ASSUME relay'[q].batch = relay[q].batch PROVE rows'[e].status # "ABSENT"
  BY <1>3, <1>7
<1>8. ASSUME NEW r \in Relays,
             Load(r) \/ Publish(r) \/ PublishError(r) \/ LeaseLost(r)
      PROVE  rows'[e].status # "ABSENT"
  <2>1. PICK pc \in {"loaded", "sent", "error"}, view \in {relay[r].view, rows[Current(r)]} :
           relay' = [relay EXCEPT ![r] = [relay[r] EXCEPT !.pc = pc, !.view = view]]
    <3>1. relay[r] = [relay[r] EXCEPT !.view = relay[r].view]
      BY <1>1 DEF RelayState
    <3>2. CASE Load(r)
      <4>1. relay' = [relay EXCEPT ![r] = [relay[r] EXCEPT !.pc = "loaded",
                                                         !.view = rows[Current(r)]]]
        BY <1>1, <3>2 DEF Load, RelayState
      <4> QED BY <4>1
    <3>3. CASE Publish(r) \/ PublishError(r) \/ LeaseLost(r)
      <4>1. PICK pc \in {"sent", "error"} : relay' = [relay EXCEPT ![r].pc = pc]
        BY <3>3 DEF Publish, PublishError, LeaseLost
      <4>2. relay' = [relay EXCEPT ![r] = [relay[r] EXCEPT !.pc = pc, !.view = relay[r].view]]
        BY <1>1, <4>1 DEF RelayState
      <4> QED BY <4>2
    <3> QED BY <1>8, <3>2, <3>3
  <2>2. relay'[q].batch = relay[q].batch
    BY <1>1, <2>1 DEF RelayState
  <2> QED BY <1>7, <2>2
<1>9. ASSUME NEW r \in Relays, Recover(r) PROVE rows'[e].status # "ABSENT"
  <2>1. CASE Advance(r)
    BY <1>4, <1>9, <2>1 DEF Recover
  <2>2. CASE relay' = [relay EXCEPT ![r] = [relay[r] EXCEPT !.pc = "failing", !.open = FALSE,
                                            !.left = 0, !.view = rows[Current(r)]]]
    <3>1. relay'[q].batch = relay[q].batch
      BY <1>1, <2>2 DEF RelayState
    <3> QED BY <1>7, <3>1
  <2> QED BY <1>9, <2>1, <2>2 DEF Recover
<1>10. ASSUME Tick PROVE rows'[e].status # "ABSENT"
  <2>1. relay'[q].batch = relay[q].batch
    BY <1>1, <1>10 DEF Tick, RelayState
  <2> QED BY <1>7, <2>1
<1>11. ASSUME \/ \E f \in Events : Insert(f)
              \/ UNCHANGED vars
       PROVE rows'[e].status # "ABSENT"
  BY <1>7, <1>11 DEF Insert, vars
<1>12. ASSUME NEW r \in Relays, FailUnroutable(r) \/ RecordDelivered(r) \/ RecordFailure(r)
       PROVE  rows'[e].status # "ABSENT"
  BY <1>4, <1>12 DEF FailUnroutable, RecordDelivered, RecordFailure
<1> QED
  BY <1>5, <1>6, <1>8, <1>9, <1>10, <1>11, <1>12 DEF Next

(* A commit of a relay counts the tries of its claim and settles one row. *)
LEMMA CommitSettles ==
    ASSUME RelayInv, BatchesRecorded, NEW r \in Relays, relay[r].pc # "idle",
           published' = published, rows' \in [Events -> Row],
           \/ rows' = WithClaim(r)
           \/ /\ rows' = [WithClaim(r) EXCEPT ![Current(r)] = Delivered(@)]
              /\ Current(r) \in published
           \/ /\ rows' = [WithClaim(r) EXCEPT ![Current(r)] = Failed(@, relay[r].view)]
              /\ relay[r].view.attempts <= WithClaim(r)[Current(r)].attempts
    PROVE  Ledger!Next
<1> DEFINE c == Current(r)
           view == relay[r].view
           batch == IF relay[r].open THEN Elems(relay[r].batch) ELSE {}
<1>1. TypeOK /\ c \in Events /\ c \in Elems(relay[r].batch)
  BY CurrentRow DEF RelayInv
<1>2. /\ WithClaim(r) \in [Events -> Row]
      /\ view \in Row
      /\ rows \in [Events -> Row]
  BY <1>1, CommittedTable DEF TypeOK, RelayState
<1>3. \A f \in Events :
        /\ WithClaim(r)[f].status = rows[f].status
        /\ WithClaim(r)[f].dead = rows[f].dead
        /\ WithClaim(r)[f].attempts =
              IF f \in batch /\ rows[f].attempts < MaxAttempts
              THEN rows[f].attempts + 1 ELSE rows[f].attempts
  <2> SUFFICES ASSUME NEW f \in Events
               PROVE  /\ WithClaim(r)[f].status = rows[f].status
                      /\ WithClaim(r)[f].dead = rows[f].dead
                      /\ WithClaim(r)[f].attempts =
                            IF f \in batch /\ rows[f].attempts < MaxAttempts
                            THEN rows[f].attempts + 1 ELSE rows[f].attempts
    OBVIOUS
  <2>1. rows[f] \in Row
    BY <1>2
  <2>2. WithClaim(r)[f] = IF relay[r].open /\ f \in Elems(relay[r].batch)
                          THEN Claimed(rows[f], r, relay[r].left) ELSE rows[f]
    BY DEF WithClaim
  <2>3. Claimed(rows[f], r, relay[r].left).attempts =
            IF rows[f].attempts < MaxAttempts THEN rows[f].attempts + 1 ELSE rows[f].attempts
    BY <2>1 DEF Claimed, Row
  <2>4. WithClaim(r)[f].status = rows[f].status /\ WithClaim(r)[f].dead = rows[f].dead
    BY <1>1, ClaimedTable
  <2> HIDE DEF batch
  <2>5. f \in batch <=> relay[r].open /\ f \in Elems(relay[r].batch)
    BY DEF batch
  <2> QED BY <2>2, <2>3, <2>4, <2>5
<1>4. batch \in SUBSET Ledger!Recorded
  <2>1. Elems(relay[r].batch) \subseteq Events
    BY <1>1 DEF TypeOK, RelayState, Elems
  <2> QED BY <2>1 DEF BatchesRecorded, Ledger!Recorded, Outcome
<1>5. \A f \in Events : rows'[f].attempts = WithClaim(r)[f].attempts
  <2> SUFFICES ASSUME NEW f \in Events
               PROVE  rows'[f].attempts = WithClaim(r)[f].attempts
    OBVIOUS
  <2>1. rows'[f] \in {WithClaim(r)[f], Delivered(WithClaim(r)[f]), Failed(WithClaim(r)[f], view)}
    BY <1>1, <1>2
  <2>2. WithClaim(r)[f] \in Row
    BY <1>2
  <2>3. /\ Delivered(WithClaim(r)[f]).attempts = WithClaim(r)[f].attempts
        /\ Failed(WithClaim(r)[f], view).attempts = WithClaim(r)[f].attempts
    BY <1>2, <2>2, WrittenColumns
  <2> QED BY <2>1, <2>3
<1>6. Ledger!Counted(batch)
  BY <1>3, <1>5 DEF Ledger!Counted, Tries
<1>7. \A f \in Events \ {c} : Outcome'[f] = Outcome[f]
  BY <1>1, <1>2, <1>3 DEF Outcome
<1>8. c \in Ledger!Recorded /\ rows[c].status # "ABSENT"
  BY <1>1 DEF BatchesRecorded, Ledger!Recorded, Outcome
<1>9. CASE Outcome'[c] = Outcome[c]
  <2>1. Outcome' = Outcome
    BY <1>7, <1>9 DEF Outcome
  <2> QED BY <1>4, <1>6, <2>1 DEF Ledger!Next, Ledger!Waste
<1>10. CASE Outcome'[c] # Outcome[c]
  <2>1. Outcome' = [Outcome EXCEPT ![c] = Outcome'[c]]
    <3>1. Outcome = [f \in Events |-> Outcome[f]] /\ Outcome' = [f \in Events |-> Outcome'[f]]
      BY DEF Outcome
    <3> QED BY <1>1, <1>7, <3>1
  <2>2. ~rows[c].dead
    <3> SUFFICES ASSUME rows[c].dead PROVE FALSE
      OBVIOUS
    <3>1. WithClaim(r)[c] \in Row /\ WithClaim(r)[c].dead
      BY <1>1, <1>2, <1>3
    <3>2. rows'[c] \in {WithClaim(r)[c], Delivered(WithClaim(r)[c]), Failed(WithClaim(r)[c], view)}
      BY <1>1, <1>2
    <3>3. /\ Delivered(WithClaim(r)[c]).dead
          /\ Failed(WithClaim(r)[c], view).dead
      BY <3>1 DEF Delivered, Failed, Row
    <3>4. rows'[c].dead
      BY <3>1, <3>2, <3>3
    <3>5. rows'[c].status # "ABSENT"
      <4>1. WithClaim(r)[c].status # "ABSENT"
        BY <1>1, <1>3, <1>8
      <4>2. /\ Delivered(WithClaim(r)[c]).status = "DELIVERED"
            /\ Failed(WithClaim(r)[c], view).status \in {WithClaim(r)[c].status, "FAILED"}
        BY <1>2, <3>1, WrittenColumns
      <4> QED BY <3>2, <4>1, <4>2
    <3>6. Outcome[c] = "dead" /\ Outcome'[c] = "dead"
      BY <1>1, <1>8, <3>4, <3>5 DEF Outcome
    <3> QED BY <1>10, <3>6
  <2>3. Outcome[c] # "dead"
    BY <1>1, <2>2 DEF Outcome
  <2>4. ASSUME NEW result, Outcome'[c] = result PROVE Ledger!Settle(c, result)
    BY <1>8, <2>1, <2>3, <2>4 DEF Ledger!Settle
  <2>5. CASE rows' = [WithClaim(r) EXCEPT ![c] = Delivered(@)] /\ c \in published
    <3>1. rows'[c].status = "DELIVERED" /\ ~rows'[c].dead
      BY <1>1, <1>2, <1>3, <2>2, <2>5, WrittenColumns
    <3>2. Outcome'[c] = "delivered"
      BY <1>1, <3>1 DEF Outcome
    <3> QED BY <1>1, <1>4, <1>6, <2>4, <2>5, <3>2 DEF Ledger!Next, Ledger!Deliver
  <2>6. CASE /\ rows' = [WithClaim(r) EXCEPT ![c] = Failed(@, view)]
             /\ view.attempts <= WithClaim(r)[c].attempts
    <3>1. rows'[c] = Failed(WithClaim(r)[c], view)
      BY <1>1, <1>2, <2>6
    <3>2. rows'[c].status \in {rows[c].status, "FAILED"}
      <4>1. WithClaim(r)[c] \in Row /\ WithClaim(r)[c].status = rows[c].status
        BY <1>1, <1>2, <1>3
      <4> QED BY <1>2, <3>1, <4>1, WrittenColumns
    <3>3. CASE rows'[c].dead
      <4>1. view.attempts >= MaxAttempts
        <5>1. WithClaim(r)[c] \in Row /\ ~WithClaim(r)[c].dead
          BY <1>1, <1>2, <1>3, <2>2
        <5> QED BY <1>2, <3>1, <3>3, <5>1, WrittenColumns
      <4>2. rows'[c].attempts \in 0..MaxAttempts /\ view.attempts \in 0..MaxAttempts
        BY <1>1, <1>2 DEF Row
      <4>3. rows'[c].attempts = MaxAttempts
        BY ConstantsAssumption, <1>1, <1>5, <2>6, <4>1, <4>2 DEF ConstantsAssumption
      <4>4. Tries'[c] = MaxAttempts /\ Outcome'[c] = "dead"
        BY <1>1, <1>8, <3>2, <3>3, <4>3 DEF Tries, Outcome
      <4> QED BY <1>1, <1>4, <1>6, <2>4, <4>4 DEF Ledger!Next, Ledger!GiveUp
    <3>4. CASE ~rows'[c].dead
      <4>1. Outcome'[c] = "due"
        BY <1>1, <1>8, <1>10, <2>2, <3>2, <3>4 DEF Outcome
      <4> QED BY <1>1, <1>4, <1>6, <2>4, <4>1 DEF Ledger!Next, Ledger!PutBack
    <3> QED BY <3>3, <3>4
  <2>7. CASE rows' = WithClaim(r)
    BY <1>1, <1>3, <1>10, <2>7 DEF Outcome
  <2> QED BY <2>5, <2>6, <2>7
<1> QED BY <1>9, <1>10

LEMMA FailureSettles ==
    ASSUME RelayInv, BatchesRecorded, NEW r \in Relays, relay[r].pc \in {"loaded", "failing"},
           MarkFailure(r), published' = published, rows' \in [Events -> Row]
    PROVE  Ledger!Next
<1>1. relay[r].view.attempts <= WithClaim(r)[Current(r)].attempts
  BY DEF RelayInv, ViewsNotAhead
<1> QED BY <1>1, CommitSettles DEF MarkFailure

LEMMA EveryStepRefines ==
    ASSUME RelayInv, RelayInv', BatchesRecorded, [Next]_vars
    PROVE  [Ledger!Next]_Ledger!vars
<1>1. /\ TypeOK
      /\ rows \in [Events -> Row]
      /\ rows' \in [Events -> Row]
  BY DEF RelayInv, TypeOK
<1>2. ASSUME UNCHANGED <<rows, published>> PROVE UNCHANGED Ledger!vars
  BY <1>2 DEF Ledger!vars, Outcome, Tries
<1>3. ASSUME NEW e \in Events, Insert(e) PROVE Ledger!Next
  <2>1. rows[e].status = "ABSENT" /\ ~rows[e].dead
    BY <1>3 DEF Insert, Blank
  <2>2. /\ rows'[e].status = "PENDING"
        /\ rows'[e].dead = rows[e].dead
        /\ rows'[e].attempts = rows[e].attempts
        /\ \A f \in Events \ {e} : rows'[f] = rows[f]
    BY <1>1, <1>3 DEF Insert, Row
  <2>3. Outcome[e] = "none" /\ Outcome' = [Outcome EXCEPT ![e] = "due"]
    BY <2>1, <2>2 DEF Outcome
  <2>4. Tries' = Tries /\ published' = published
    BY <1>3, <2>2 DEF Tries, Insert
  <2> QED BY <2>3, <2>4 DEF Ledger!Next, Ledger!Record
<1>4. ASSUME NEW r \in Relays, relay[r].pc = "loaded", Current(r) \in Routable \ Poison,
             published' = published \cup {Current(r)}, rows' = rows
      PROVE  Ledger!Next
  <2>1. Current(r) \in Events /\ Current(r) \in Elems(relay[r].batch)
    BY <1>1, <1>4, CurrentRow
  <2>2. Current(r) \in Ledger!Recorded
    BY <2>1 DEF BatchesRecorded, Ledger!Recorded, Outcome
  <2>3. Outcome' = Outcome /\ Tries' = Tries
    BY <1>4 DEF Outcome, Tries
  <2> QED BY <1>4, <2>1, <2>2, <2>3 DEF Ledger!Next, Ledger!Accept
<1>5. ASSUME NEW r \in Relays, Publish(r) \/ PublishError(r)
      PROVE  [Ledger!Next]_Ledger!vars
  BY <1>2, <1>4, <1>5 DEF Publish, PublishError
<1>6. ASSUME NEW r \in Relays, RecordDelivered(r) PROVE Ledger!Next
  <2>1. relay[r].pc = "sent" /\ Current(r) \in published
    BY <1>6 DEF RecordDelivered, RelayInv, ViewsNotAhead
  <2> QED BY <1>1, <1>6, <2>1, CommitSettles DEF RecordDelivered
<1>7. ASSUME NEW r \in Relays, FailUnroutable(r) \/ RecordFailure(r) PROVE Ledger!Next
  BY <1>1, <1>7, FailureSettles DEF FailUnroutable, RecordFailure
<1>8. ASSUME Tick PROVE UNCHANGED Ledger!vars
  <2>1. \A e \in Events : /\ rows'[e].status = rows[e].status
                          /\ rows'[e].dead = rows[e].dead
                          /\ rows'[e].attempts = rows[e].attempts
    BY <1>1, <1>8 DEF Tick, Row
  <2> QED BY <1>8, <2>1 DEF Tick, Ledger!vars, Outcome, Tries
<1> QED
  BY <1>2, <1>3, <1>5, <1>6, <1>7, <1>8 DEF Next, vars, Poll, Load, LeaseLost, Recover, Crash

(* The relays implement the outbox's promise (AtLeastOnce): every step of a *)
(* relay is a step of the ledger or none at all.                            *)
THEOREM Refinement == Spec => KeepsTheLedger
<1>1. Init => Ledger!Init
  BY DEF Init, Ledger!Init, Blank, Outcome, Tries
<1>2. Init => BatchesRecorded
  BY DEF Init, BatchesRecorded, Idle, Elems
<1>3. RelayInv /\ RelayInv' /\ BatchesRecorded /\ [Next]_vars => [Ledger!Next]_Ledger!vars
  BY EveryStepRefines
<1> QED
  BY <1>1, <1>2, <1>3, Invariance, NextBatchesRecorded, PTL DEF Spec, KeepsTheLedger, Ledger!Spec
=============================================================================
