---------------------------- MODULE MCOutboxRelay ----------------------------
(* Small instances of OutboxRelay for TLC. *)
EXTENDS OutboxRelay, TLC

CONSTANTS e1, e2, e3, r1, r2

OneRelay == {r1}
TwoRelays == {r1, r2}
TwoEvents == {e1, e2}
ThreeEvents == {e1, e2, e3}
NoEvents == {}
FirstEvent == {e1}
SecondEvent == {e2}

\* min(3600, 2 ** min(attempts, 10)) seconds, in coarse ticks.
ShortBackoff == [n \in 0..MaxAttempts |-> IF n < 2 THEN 1 ELSE 2]

Symmetric == Permutations(Relays)
=============================================================================
