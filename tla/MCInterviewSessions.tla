------------------------- MODULE MCInterviewSessions -------------------------
(***************************************************************************)
(* One student with two or three handshakes, on two workers.               *)
(***************************************************************************)
EXTENDS InterviewSessions, TLC

CONSTANTS a1, a2, a3, s1, w1, w2

OneStudent == [a \in Attempts |-> s1]

(* The handshakes of one student are alike, and so are the workers. *)
AttemptSymmetry == Permutations(Attempts) \cup Permutations(Workers)
=============================================================================
