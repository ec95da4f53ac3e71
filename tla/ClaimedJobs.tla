---------------------------- MODULE ClaimedJobs ----------------------------
(***************************************************************************)
(* What the consumers of job notifications promise together, whatever      *)
(* workers, sessions and leases are behind them                            *)
(* (apps/api-py/app/workers/domain_worker.py, complete_job and retry_job   *)
(* of leasing.py).                                                         *)
(*                                                                         *)
(* Work on an open job is claimed, and the claims of a job are numbered.   *)
(* A claim may commit writes while it is at work and reports at most once: *)
(* success only after its own writes are in, failure for good only as a    *)
(* claim that used the budget up.  A claim may also end without a report,  *)
(* and a claim that reports late is believed, whatever others reported.    *)
(***************************************************************************)
EXTENDS Naturals

CONSTANTS Jobs, Budget

VARIABLES claims, atWork, effects, verdict

vars == <<claims, atWork, effects, verdict>>

Init ==
    /\ claims = [j \in Jobs |-> 0]
    /\ atWork = {}
    /\ effects = {}
    /\ verdict = [j \in Jobs |-> "open"]

(* A claim, whose transaction commits the writes that `flushed' left behind. *)
Claim(j) ==
    /\ verdict[j] = "open"
    /\ claims' = [claims EXCEPT ![j] = @ + 1]
    /\ \E flushed \in SUBSET atWork :
          /\ atWork' = (atWork \ flushed) \cup {<<j, claims[j] + 1>>}
          /\ effects' = effects \cup flushed
    /\ UNCHANGED verdict

Commit(c) ==
    /\ c \in atWork
    /\ effects' = effects \cup {c}
    /\ UNCHANGED <<claims, atWork, verdict>>

(* What a claim may say of its job. *)
Truthful(c, said) ==
    CASE said = "succeeded" -> c \in effects
      [] said = "failed" -> c[2] >= Budget
      [] said = "open" -> c[2] < Budget

Report(c, said) ==
    /\ c \in atWork /\ Truthful(c, said)
    /\ atWork' = atWork \ {c}
    /\ verdict' = [verdict EXCEPT ![c[1]] = said]
    /\ UNCHANGED <<claims, effects>>

(* Claims end without a word: a lost lease, no handler, a crash. *)
End ==
    /\ UNCHANGED <<claims, effects, verdict>>
    /\ atWork' \in SUBSET atWork

Next ==
    \/ End
    \/ \E c \in atWork : Commit(c) \/ \E said \in {"open", "succeeded", "failed"} : Report(c, said)
    \/ \E j \in Jobs : Claim(j)

Spec == Init /\ [][Next]_vars
=============================================================================
