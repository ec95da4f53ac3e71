--------------------------- MODULE MCRegistrations ---------------------------
(* Small instances of Registrations for TLC. *)
EXTENDS Registrations, TLC

CONSTANTS f1, f2, f3, m1, m2, u1, u2

TwoForms == {f1, f2}
ThreeForms == {f1, f2, f3}
TwoEmails == {m1, m2}
TwoUsns == {u1, u2}

\* Two people on one address, and a third who gives the USN of the first.
SharedAddress == [f \in Forms |-> IF f = f3 THEN m2 ELSE m1]
SharedUsn == [f \in Forms |-> IF f = f2 THEN u2 ELSE u1]

\* Two people, one USN.
OwnAddress == [f \in Forms |-> IF f = f1 THEN m1 ELSE m2]
OneUsn == [f \in Forms |-> u1]

Symmetric == Permutations(Calls)
=============================================================================
