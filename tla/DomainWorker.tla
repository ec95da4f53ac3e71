----------------------------- MODULE DomainWorker -----------------------------
(***************************************************************************)
(* The consumers of job notifications                                      *)
(* (apps/api-py/app/workers/domain_worker.py, complete_job and retry_job   *)
(* of leasing.py, the loop of apps/api-py/app/worker.py).                  *)
(*                                                                         *)
(* A worker receives a batch of messages and handles them one after the    *)
(* other with one database session.  For each it claims the job the        *)
(* message names, commits, runs the handler of the job's type, reads the   *)
(* job again and records the outcome, and deletes the message.             *)
(*                                                                         *)
(* The session matters: a `with db.begin()' on a session that is in a      *)
(* transaction raises InvalidRequestError.  The claim's commit expires the *)
(* job, so reading job.job_type begins a transaction; it ends only if the  *)
(* handler itself commits or rolls back last.                              *)
(*                                                                         *)
(* The lease token of a claim is unique to it, and so is the number of     *)
(* attempts it counts: that number stands for the token.  available_at is  *)
(* left out: retry_job sets it, and only claim_jobs, which has no caller,  *)
(* reads it.                                                               *)
(***************************************************************************)
EXTENDS Naturals, Sequences, FiniteSets

CONSTANTS
    Jobs,         \* rows of redesign_domain_jobs
    Messages,     \* notifications in the queue, some of them copies of others
    JobOf,        \* the job a message names, or NoJob
    Workers,
    Handled,      \* the jobs whose type has a handler ({} in app.worker)
    MaxAttempts,  \* the column max_attempts
    LeaseTicks,   \* lease_seconds, in ticks
    BatchSize,    \* max_messages
    MaxReceives,  \* the queue's redrive policy: receives before the dead-letter queue
    MaxCrashes,   \* bound: how often workers die in one behaviour
    NoJob, Nobody

ASSUME ConstantsAssumption ==
    /\ JobOf \in [Messages -> Jobs \cup {NoJob}]
    /\ NoJob \notin Jobs
    /\ Handled \subseteq Jobs
    /\ MaxAttempts \in Nat \ {0}
    /\ LeaseTicks \in Nat \ {0}
    /\ BatchSize \in Nat \ {0}
    /\ MaxReceives \in Nat \ {0}
    /\ MaxCrashes \in Nat
    /\ Nobody \notin Workers

VARIABLES
    jobs,      \* the committed job rows
    queue,     \* the messages: where they are and how often they were received
    worker,    \* the state of each worker process
    effects,   \* the claims <<j, n>> whose handler's writes are committed
    crashes

vars == <<jobs, queue, worker, effects, crashes>>

Terminal == {"SUCCEEDED", "FAILED", "CANCELLED"}

Job == [status   : {"QUEUED", "RUNNING"} \cup Terminal,
        attempts : Nat,
        owner    : Workers \cup {Nobody},
        lease    : Nat]

Message == [at : {"visible", "hidden", "deleted", "dead"}, receives : 0..MaxReceives]

(***************************************************************************)
(* A worker: `inbox' the messages of its batch it has not finished, the    *)
(* current one first; `token' the claim it made for the current message;   *)
(* `dirty' the claims whose handler left writes in the session's open      *)
(* transaction; `outcome' what it means to record; `view' the copy of the  *)
(* job it is about to write.                                               *)
(***************************************************************************)
Fresh == [status |-> "QUEUED", attempts |-> 0, owner |-> Nobody, lease |-> 0]

Idle == [pc |-> "idle", inbox |-> <<>>, token |-> 0, dirty |-> {}, outcome |-> "none",
         view |-> Fresh]

WorkerState ==
    [pc : {"idle", "next", "running", "recording", "writing", "done"},
     inbox : Seq(Messages), token : Nat, dirty : SUBSET (Jobs \X Nat),
     outcome : {"none", "complete", "retry"}, view : Job]

Init ==
    /\ jobs = [j \in Jobs |-> Fresh]
    /\ queue = [m \in Messages |-> [at |-> "visible", receives |-> 0]]
    /\ worker = [w \in Workers |-> Idle]
    /\ effects = {}
    /\ crashes = 0

-----------------------------------------------------------------------------
Current(w) == Head(worker[w].inbox)

CurrentJob(w) == JobOf[Current(w)]

\* The checks of _claim_job, made on the locked row.
IsTerminal(job) == job.status \in Terminal

OwnedByOther(w, job) ==
    job.status = "RUNNING" /\ job.lease > 0 /\ job.owner # w

ClaimedBy(w, job) ==
    [job EXCEPT !.status = "RUNNING", !.owner = w, !.lease = LeaseTicks, !.attempts = @ + 1]

\* The check of complete_job and retry_job, made on the copy just read.
HoldsLease(w, view) ==
    view.status = "RUNNING" /\ view.owner = w /\ view.attempts = worker[w].token

\* The writes name only the columns that change, and the id in the WHERE.
Completed(job) == [job EXCEPT !.status = "SUCCEEDED", !.owner = Nobody, !.lease = 0]

\* Faulty variant: the budget is off by one.
RetriedEarly(job, view) ==
    [job EXCEPT !.status = IF view.attempts + 1 >= MaxAttempts THEN "FAILED" ELSE "QUEUED",
                !.owner = Nobody, !.lease = 0]

Retried(job, view) ==
    [job EXCEPT !.status = IF view.attempts >= MaxAttempts THEN "FAILED" ELSE "QUEUED",
                !.owner = Nobody, !.lease = 0]

\* Faulty variant: the end of the batch is not noticed.
GoOnAlways(w, dirty) ==
    worker' = [worker EXCEPT ![w] =
                 [Idle EXCEPT !.pc = "next", !.inbox = Tail(worker[w].inbox), !.dirty = dirty]]

\* The loop of consume_once goes on; the session closes with the last message.
GoOn(w, dirty) ==
    LET rest == Tail(worker[w].inbox)
    IN  worker' = [worker EXCEPT ![w] =
                     IF rest = <<>> THEN Idle
                     ELSE [Idle EXCEPT !.pc = "next", !.inbox = rest, !.dirty = dirty]]

\* transport.delete, which may itself fail: the message then comes back.
Acknowledge(w) ==
    \/ UNCHANGED queue
    \/ /\ queue[Current(w)].at \in {"visible", "hidden"}
       /\ queue' = [queue EXCEPT ![Current(w)].at = "deleted"]

-----------------------------------------------------------------------------
(* transport.receive: up to BatchSize visible messages, in any order.      *)
Inboxes == UNION {[1..n -> Messages] : n \in 1..BatchSize}

Receive(w) ==
    /\ worker[w].pc = "idle"
    /\ \E inbox \in Inboxes :
        /\ \A i \in DOMAIN inbox : queue[inbox[i]].at = "visible"
        /\ \A i, j \in DOMAIN inbox : i # j => inbox[i] # inbox[j]
        /\ queue' = [m \in Messages |->
                        IF \E i \in DOMAIN inbox : inbox[i] = m
                        THEN [at |-> "hidden", receives |-> queue[m].receives + 1]
                        ELSE queue[m]]
        /\ worker' = [worker EXCEPT ![w] = [Idle EXCEPT !.pc = "next", !.inbox = inbox]]
    /\ UNCHANGED <<jobs, effects, crashes>>

(* The visibility timeout of a received message ends, whoever handles it;  *)
(* the redrive policy moves it away after MaxReceives receives.            *)
Reappear(m) ==
    /\ queue[m].at = "hidden"
    /\ queue' = [queue EXCEPT ![m].at =
                    IF queue[m].receives >= MaxReceives THEN "dead" ELSE "visible"]
    /\ UNCHANGED <<jobs, worker, effects, crashes>>

(* The message is malformed or names no job: it is left to the redrive.    *)
Reject(w) ==
    /\ worker[w].pc = "next"
    /\ CurrentJob(w) = NoJob
    /\ GoOn(w, worker[w].dirty)
    /\ UNCHANGED <<jobs, queue, effects, crashes>>

(* "terminal" or "owned": the session rolls back and the message goes.     *)
Noop(w) ==
    /\ worker[w].pc = "next"
    /\ CurrentJob(w) \in Jobs
    /\ IsTerminal(jobs[CurrentJob(w)]) \/ OwnedByOther(w, jobs[CurrentJob(w)])
    /\ Acknowledge(w)
    /\ GoOn(w, {})
    /\ UNCHANGED <<jobs, effects, crashes>>

(* The claim and its commit, which commits whatever an earlier handler left *)
(* in the session.                                                          *)
Claim(w) ==
    LET j == CurrentJob(w)
    IN  /\ worker[w].pc = "next"
        /\ j \in Jobs
        /\ ~IsTerminal(jobs[j]) /\ ~OwnedByOther(w, jobs[j])
        /\ jobs' = [jobs EXCEPT ![j] = ClaimedBy(w, @)]
        /\ worker' = [worker EXCEPT ![w] =
                        [@ EXCEPT !.pc = "running", !.token = jobs[j].attempts + 1, !.dirty = {}]]
        /\ effects' = effects \cup worker[w].dirty
        /\ UNCHANGED <<queue, crashes>>

(* No handler: job.job_type has begun a transaction, so the branch that     *)
(* would call retry_job raises; the job stays RUNNING, the message stays.   *)
NoHandler(w) ==
    /\ worker[w].pc = "running"
    /\ CurrentJob(w) \notin Handled
    /\ GoOn(w, {})
    /\ UNCHANGED <<jobs, queue, effects, crashes>>

\* The claim the current message was given.
Run(w) == <<CurrentJob(w), worker[w].token>>

\* What comes after the handler: the job is read again to record the outcome.
Record(w, outcome) ==
    worker' = [worker EXCEPT ![w] = [@ EXCEPT !.pc = "recording", !.outcome = outcome]]

(* The handler returns and has ended its transaction last.                 *)
HandlerCommits(w) ==
    /\ worker[w].pc = "running"
    /\ CurrentJob(w) \in Handled
    /\ effects' = effects \cup {Run(w)}
    /\ Record(w, "complete")
    /\ UNCHANGED <<jobs, queue, crashes>>

(* A faulty variant: an error counts as success. *)
HandlerFailsQuietly(w) ==
    /\ worker[w].pc = "running"
    /\ CurrentJob(w) \in Handled
    /\ Record(w, "complete")
    /\ UNCHANGED <<jobs, queue, effects, crashes>>

(* The handler raises, or returns with the transaction open, which makes    *)
(* db.begin() raise; a rollback follows.  What it committed stays.          *)
HandlerFails(w) ==
    /\ worker[w].pc = "running"
    /\ CurrentJob(w) \in Handled
    /\ effects' \in {effects, effects \cup {Run(w)}}
    /\ Record(w, "retry")
    /\ UNCHANGED <<jobs, queue, crashes>>

(* The handler raises PermanentMessageError with the transaction open: the  *)
(* branch for it raises too, consume_once keeps the message and goes on     *)
(* with the same session, in which the handler's writes are still pending.  *)
HandlerGivesUp(w) ==
    /\ worker[w].pc = "running"
    /\ CurrentJob(w) \in Handled
    /\ \E dirty \in SUBSET {Run(w)} : GoOn(w, dirty)
    /\ UNCHANGED <<jobs, queue, effects, crashes>>

(* The job is read again, unlocked; if another worker has claimed it, the   *)
(* outcome is dropped.                                                      *)
ReadAgain(w) ==
    LET fresh == jobs[CurrentJob(w)]
    IN  /\ worker[w].pc = "recording"
        /\ worker' = [worker EXCEPT ![w] =
                        IF HoldsLease(w, fresh)
                        THEN [@ EXCEPT !.pc = "writing", !.view = fresh]
                        ELSE [@ EXCEPT !.pc = "done"]]
        /\ UNCHANGED <<jobs, queue, effects, crashes>>

(* complete_job or retry_job, and the commit.                              *)
Write(w) ==
    LET j == CurrentJob(w)
    IN  /\ worker[w].pc = "writing"
        /\ jobs' = [jobs EXCEPT ![j] =
                        IF worker[w].outcome = "complete" THEN Completed(@)
                        ELSE Retried(@, worker[w].view)]
        /\ worker' = [worker EXCEPT ![w].pc = "done"]
        /\ UNCHANGED <<queue, effects, crashes>>

(* process_event has returned: the message is deleted, whatever it returned. *)
Finish(w) ==
    /\ worker[w].pc = "done"
    /\ Acknowledge(w)
    /\ GoOn(w, {})
    /\ UNCHANGED <<jobs, effects, crashes>>

(* The process dies; what its session had not committed is undone.         *)
Crash(w) ==
    /\ crashes < MaxCrashes
    /\ worker[w].pc # "idle"
    /\ worker' = [worker EXCEPT ![w] = Idle]
    /\ crashes' = crashes + 1
    /\ UNCHANGED <<jobs, queue, effects>>

Less(n) == IF n = 0 THEN 0 ELSE n - 1

Tick ==
    /\ \E j \in Jobs : jobs[j].lease > 0
    /\ jobs' = [j \in Jobs |-> [jobs[j] EXCEPT !.lease = Less(@)]]
    /\ UNCHANGED <<queue, worker, effects, crashes>>

WorkerStep(w) ==
    \/ Reject(w) \/ Noop(w) \/ Claim(w)
    \/ NoHandler(w) \/ HandlerCommits(w) \/ HandlerFails(w) \/ HandlerGivesUp(w)
    \/ ReadAgain(w) \/ Write(w) \/ Finish(w)

Next ==
    \/ \E w \in Workers : Receive(w) \/ WorkerStep(w) \/ Crash(w)
    \/ \E m \in Messages : Reappear(m)
    \/ Tick

Spec == Init /\ [][Next]_vars

-----------------------------------------------------------------------------
(* Type correctness of the job table, the queue and the workers. *)
TypeOK ==
    /\ jobs \in [Jobs -> Job]
    /\ queue \in [Messages -> Message]
    /\ worker \in [Workers -> WorkerState]
    /\ effects \subseteq Jobs \X Nat
    /\ \A w \in Workers : worker[w].pc # "idle" => worker[w].inbox # <<>>
    /\ crashes \in 0..MaxCrashes

(* A job that succeeded had a handler whose writes were committed: neither  *)
(* a failed handler nor a lost lease ends in SUCCEEDED.                     *)
SucceededAfterEffects ==
    \A j \in Jobs : jobs[j].status = "SUCCEEDED" => \E n \in 1..jobs[j].attempts : <<j, n>> \in effects

(* A job fails for good only after max_attempts claims, although retry_job  *)
(* counts on a copy of the row that another worker may have claimed since.  *)
FailedOnlyAfterBudget ==
    \A j \in Jobs : jobs[j].status = "FAILED" => jobs[j].attempts >= MaxAttempts

-----------------------------------------------------------------------------
(* The claims whose work may still come to something: their worker has them *)
(* in hand, or their writes are pending in its session.                     *)
HasClaimed(w) == worker[w].pc \in {"running", "recording", "writing"}

Holds(w) == (IF HasClaimed(w) THEN {Run(w)} ELSE {}) \cup worker[w].dirty

Held == UNION {Holds(w) : w \in Workers}

Claims == [j \in Jobs |-> jobs[j].attempts]

Verdict == [j \in Jobs |-> CASE jobs[j].status = "SUCCEEDED" -> "succeeded"
                             [] jobs[j].status = "FAILED" -> "failed"
                             [] OTHER -> "open"]

Agreement == INSTANCE ClaimedJobs WITH Budget <- MaxAttempts,
                                       claims <- Claims, atWork <- Held, verdict <- Verdict

(* Queue, sessions and leases add up to numbered claims, of which each      *)
(* reports at most once, and truthfully (ClaimedJobs).                      *)
KeepsTheAgreement == Agreement!Spec

-----------------------------------------------------------------------------
(* What documents say of the workers and the code does not do. *)

Notified(j) == \E m \in Messages : JobOf[m] = j /\ queue[m].at # "deleted"

WorkedOn(j) == \E w \in Workers : worker[w].pc # "idle" /\ CurrentJob(w) = j

(* "Duplicate delivery is expected and must be harmless", and workers       *)
(* "retry with bounded backoff": a job that is not finished and that nobody *)
(* works on has a message left, since nothing but a message makes a worker  *)
(* look at a job.                                                           *)
UnfinishedJobsHaveMessage ==
    \A j \in Jobs :
        ~IsTerminal(jobs[j]) /\ jobs[j].lease = 0 /\ ~WorkedOn(j) => Notified(j)

=============================================================================
