---------------------------- MODULE MCDomainWorker ----------------------------
(* Small instances of DomainWorker for TLC. *)
EXTENDS DomainWorker, TLC

CONSTANTS j1, j2, m1, m2, m3, w1, w2

OneJob == {j1}
TwoJobs == {j1, j2}
OneMessage == {m1}
TwoMessages == {m1, m2}
ThreeMessages == {m1, m2, m3}
OneWorker == {w1}
TwoWorkers == {w1, w2}
NoJobs == {}

\* m1 announces j1, m2 is a copy of it or announces j2, m3 names no job.
Single == [m \in Messages |-> j1]
Mixed == [m \in Messages |-> IF m = m1 THEN j1 ELSE IF m = m2 THEN j2 ELSE NoJob]

Symmetric == Permutations(Workers)
=============================================================================
