--------------------------- MODULE MCLeaveRequests ---------------------------
(* One or two requests of one applicant, two days that touch.              *)
EXTENDS LeaveRequests, TLC

CONSTANTS l1, l2, c1, c2, c3, c4, c5, a1, p1, p2

\* The table of l1 has one line.
OneForm == [a \in {a1} |-> l1]

TouchingDays == {{l1, l2}}

CallSymmetry == Permutations(Calls) \cup Permutations(Staff)
=============================================================================
