------------------------- MODULE DomainWorker_proofs -------------------------
(***************************************************************************)
(* What holds of the job consumers for any number of jobs, messages and    *)
(* workers.  The argument is that claims are counted and never uncounted:  *)
(* whatever a worker records speaks of a claim of its own that the row has *)
(* counted, however many others it has counted since.                      *)
(***************************************************************************)
EXTENDS DomainWorker, SequenceTheorems, TLAPS

(* A visible message has receives left. *)
VisibleMayBeReceived == \A m \in Messages : queue[m].at = "visible" => queue[m].receives < MaxReceives

(* Who has claimed has claimed a job, and the row has counted the claim. *)
ClaimsCounted ==
    \A w \in Workers : HasClaimed(w) =>
        /\ CurrentJob(w) \in Jobs
        /\ worker[w].token \in 1..jobs[CurrentJob(w)].attempts

(* Who means to record a success has its handler's writes committed. *)
SuccessIsCommitted ==
    \A w \in Workers :
        worker[w].pc \in {"recording", "writing"} /\ worker[w].outcome = "complete" => Run(w) \in effects

(* The copy that is about to be written is of the claim, and not ahead of   *)
(* the row.                                                                *)
ViewsOfTheClaim == \A w \in Workers : worker[w].pc = "writing" => worker[w].view.attempts = worker[w].token

(* The inductive invariant. *)
DomainInv ==
    /\ TypeOK
    /\ VisibleMayBeReceived
    /\ ClaimsCounted
    /\ SuccessIsCommitted
    /\ ViewsOfTheClaim
    /\ SucceededAfterEffects
    /\ FailedOnlyAfterBudget

\* What the invariant says of the workers alone, given the rows and effects.
WorkersInv == ClaimsCounted /\ SuccessIsCommitted /\ ViewsOfTheClaim

\* What it says of the rows.
OutcomesInv == SucceededAfterEffects /\ FailedOnlyAfterBudget

-----------------------------------------------------------------------------
(* A worker that has nothing in hand. *)
LEMMA IdleIsAState == Fresh \in Job /\ Idle \in WorkerState
<1>1. Fresh \in Job
  BY DEF Fresh, Job, Terminal
<1>2. <<>> \in Seq(Messages)
  BY EmptySeq
<1> QED
  BY <1>1, <1>2 DEF Idle, WorkerState

(* It holds of the queue and the table as they are found. *)
LEMMA InitInv == Init => DomainInv
<1> SUFFICES ASSUME Init PROVE DomainInv
  OBVIOUS
<1> USE ConstantsAssumption DEF Init
<1>1. TypeOK
  BY IdleIsAState DEF TypeOK, Message, Idle
<1>2. \A w \in Workers : worker[w].pc = "idle"
  BY DEF Idle
<1>3. ClaimsCounted /\ SuccessIsCommitted /\ ViewsOfTheClaim
  BY <1>2 DEF ClaimsCounted, SuccessIsCommitted, ViewsOfTheClaim, HasClaimed
<1>4. VisibleMayBeReceived
  BY DEF VisibleMayBeReceived
<1>5. SucceededAfterEffects /\ FailedOnlyAfterBudget
  BY DEF SucceededAfterEffects, FailedOnlyAfterBudget, Fresh
<1> QED
  BY <1>1, <1>3, <1>4, <1>5 DEF DomainInv

(* What a worker with a message in hand is made of. *)
LEMMA WorkerFields ==
    ASSUME TypeOK, NEW w \in Workers
    PROVE  /\ worker[w] \in WorkerState
           /\ worker[w].inbox \in Seq(Messages) /\ worker[w].token \in Nat
           /\ worker[w].view \in Job /\ worker[w].dirty \in SUBSET (Jobs \X Nat)
           /\ worker[w].pc # "idle" =>
                 /\ worker[w].inbox # <<>>
                 /\ Current(w) \in Messages
                 /\ CurrentJob(w) \in Jobs \cup {NoJob}
                 /\ Tail(worker[w].inbox) \in Seq(Messages)
<1>1. worker[w] \in WorkerState
  BY DEF TypeOK
<1>2. /\ worker[w].inbox \in Seq(Messages) /\ worker[w].token \in Nat
      /\ worker[w].view \in Job /\ worker[w].dirty \in SUBSET (Jobs \X Nat)
  BY <1>1 DEF WorkerState
<1>3. ASSUME worker[w].pc # "idle"
      PROVE  /\ worker[w].inbox # <<>>
             /\ Current(w) \in Messages
             /\ CurrentJob(w) \in Jobs \cup {NoJob}
             /\ Tail(worker[w].inbox) \in Seq(Messages)
  <2>1. worker[w].inbox # <<>>
    BY <1>3 DEF TypeOK
  <2>2. Head(worker[w].inbox) \in Messages /\ Tail(worker[w].inbox) \in Seq(Messages)
    BY <1>2, <2>1, HeadTailProperties
  <2> QED
    BY <2>1, <2>2, ConstantsAssumption DEF Current, CurrentJob
<1> QED
  BY <1>1, <1>2, <1>3

(* A step of one worker that leaves it without a claim, while rows lose no  *)
(* count and effects none of their members, keeps what is said of workers. *)
LEMMA OthersKept ==
    ASSUME DomainInv, NEW w \in Workers, NEW new, new \in WorkerState,
           worker' = [worker EXCEPT ![w] = new],
           new.pc \in {"idle", "next", "done"},
           effects \subseteq effects',
           \A j \in Jobs : jobs'[j].attempts \in Nat /\ jobs[j].attempts <= jobs'[j].attempts
    PROVE  WorkersInv'
<1> USE DEF DomainInv
<1>1. worker'[w] = new /\ \A x \in Workers \ {w} : worker'[x] = worker[x]
  BY DEF TypeOK
<1>2. \A x \in Workers : worker'[x].pc \in {"running", "recording", "writing"} => x # w /\ worker'[x] = worker[x]
  BY <1>1
<1>3. \A x \in Workers : worker'[x] = worker[x] => CurrentJob(x)' = CurrentJob(x) /\ Run(x)' = Run(x)
  BY DEF CurrentJob, Current, Run
<1>4. \A j \in Jobs : jobs[j].attempts \in Nat
  BY DEF TypeOK, Job
<1>5. ClaimsCounted'
  <2> SUFFICES ASSUME NEW x \in Workers, HasClaimed(x)'
               PROVE  CurrentJob(x)' \in Jobs /\ worker'[x].token \in 1..jobs'[CurrentJob(x)'].attempts
    BY DEF ClaimsCounted
  <2>1. worker'[x] = worker[x] /\ CurrentJob(x)' = CurrentJob(x) /\ HasClaimed(x)
    BY <1>2, <1>3 DEF HasClaimed
  <2>2. CurrentJob(x) \in Jobs /\ worker[x].token \in 1..jobs[CurrentJob(x)].attempts
    BY <2>1 DEF ClaimsCounted
  <2> QED
    BY <1>4, <2>1, <2>2
<1>6. SuccessIsCommitted' /\ ViewsOfTheClaim'
  BY <1>2, <1>3 DEF SuccessIsCommitted, ViewsOfTheClaim
<1> QED
  BY <1>5, <1>6 DEF WorkersInv

(* The state GoOn leaves a worker in. *)
LEMMA GoneOn ==
    ASSUME TypeOK, NEW w \in Workers, worker[w].pc # "idle",
           NEW dirty, dirty \in SUBSET (Jobs \X Nat), GoOn(w, dirty)
    PROVE  \E new \in WorkerState : /\ worker' = [worker EXCEPT ![w] = new]
                                    /\ new.pc \in {"idle", "next"}
                                    /\ new.pc # "idle" => new.inbox # <<>>
<1> DEFINE rest == Tail(worker[w].inbox)
           new == [Idle EXCEPT !.pc = "next", !.inbox = rest, !.dirty = dirty]
<1>1. rest \in Seq(Messages)
  BY WorkerFields
<1>2. CASE rest = <<>>
  BY <1>2, IdleIsAState DEF GoOn, Idle
<1>3. CASE rest # <<>>
  <2> HIDE DEF rest
  <2>1. new \in WorkerState /\ new.pc = "next" /\ new.inbox = rest
    BY <1>1, IdleIsAState DEF WorkerState, Idle
  <2>2. worker' = [worker EXCEPT ![w] = new]
    BY <1>3 DEF GoOn, rest
  <2> QED
    BY <1>3, <2>1, <2>2
<1> QED
  BY <1>2, <1>3

(* A worker's new state keeps the types. *)
LEMMA WorkerTyped ==
    ASSUME TypeOK, NEW w \in Workers, NEW new \in WorkerState,
           worker' = [worker EXCEPT ![w] = new], new.pc # "idle" => new.inbox # <<>>
    PROVE  /\ worker' \in [Workers -> WorkerState]
           /\ \A x \in Workers : worker'[x].pc # "idle" => worker'[x].inbox # <<>>
BY DEF TypeOK

(* An acknowledged message is gone, or comes back. *)
LEMMA AcknowledgedKept ==
    ASSUME TypeOK, VisibleMayBeReceived, NEW w \in Workers, worker[w].pc # "idle", Acknowledge(w)
    PROVE  queue' \in [Messages -> Message] /\ VisibleMayBeReceived'
<1>1. Current(w) \in Messages
  BY WorkerFields
<1>2. CASE UNCHANGED queue
  BY <1>2 DEF TypeOK, VisibleMayBeReceived
<1>3. CASE queue' = [queue EXCEPT ![Current(w)].at = "deleted"]
  <2> DEFINE q == Current(w)
  <2>1. [queue[q] EXCEPT !.at = "deleted"] \in Message
    BY <1>1 DEF TypeOK, Message
  <2>2. queue' = [queue EXCEPT ![q] = [queue[q] EXCEPT !.at = "deleted"]]
    BY <1>3
  <2>3. [queue[q] EXCEPT !.at = "deleted"].at = "deleted"
    BY <1>1 DEF TypeOK, Message
  <2> HIDE DEF q
  <2>4. q \in Messages
    BY <1>1 DEF q
  <2> QED
    BY <2>1, <2>2, <2>3, <2>4 DEF TypeOK, VisibleMayBeReceived
<1> QED
  BY <1>2, <1>3 DEF Acknowledge

(* Rows that are not written keep their outcomes, whatever effects follow. *)
LEMMA OutcomesKept ==
    ASSUME OutcomesInv, jobs' = jobs, effects \subseteq effects'
    PROVE  OutcomesInv'
<1>1. SucceededAfterEffects'
  BY DEF OutcomesInv, SucceededAfterEffects
<1>2. FailedOnlyAfterBudget'
  BY DEF OutcomesInv, FailedOnlyAfterBudget
<1> QED
  BY <1>1, <1>2 DEF OutcomesInv

-----------------------------------------------------------------------------
(* Receive hides what it takes, and gives it to a worker that had nothing. *)
LEMMA ReceiveInv ==
    ASSUME DomainInv, NEW w \in Workers, Receive(w)
    PROVE  DomainInv'
<1> USE DEF DomainInv
<1>1. PICK inbox \in Inboxes :
          /\ \A i \in DOMAIN inbox : queue[inbox[i]].at = "visible"
          /\ queue' = [m \in Messages |->
                          IF \E i \in DOMAIN inbox : inbox[i] = m
                          THEN [at |-> "hidden", receives |-> queue[m].receives + 1]
                          ELSE queue[m]]
          /\ worker' = [worker EXCEPT ![w] = [Idle EXCEPT !.pc = "next", !.inbox = inbox]]
  BY DEF Receive
<1> DEFINE new == [Idle EXCEPT !.pc = "next", !.inbox = inbox]
<1>2. inbox \in Seq(Messages) /\ inbox # <<>>
  <2>1. PICK n \in 1..BatchSize : inbox \in [1..n -> Messages]
    BY DEF Inboxes
  <2>2. n \in Nat /\ n >= 1
    BY <2>1, ConstantsAssumption
  <2>3. inbox \in Seq(Messages) /\ Len(inbox) = n
    BY <2>1, <2>2
  <2> QED
    BY <2>2, <2>3
<1>3. new \in WorkerState /\ new.pc = "next" /\ new.inbox = inbox
  BY <1>2, IdleIsAState DEF Idle, WorkerState
<1> HIDE DEF new
<1>4. worker' = [worker EXCEPT ![w] = new]
  BY <1>1 DEF new
<1>5. UNCHANGED <<jobs, effects, crashes>>
  BY DEF Receive
<1>6. queue' \in [Messages -> Message] /\ VisibleMayBeReceived'
  <2>1. \A m \in Messages : queue[m].at = "visible" =>
            [at |-> "hidden", receives |-> queue[m].receives + 1] \in Message
    BY ConstantsAssumption DEF TypeOK, Message, VisibleMayBeReceived
  <2>2. \A m \in Messages : (\E i \in DOMAIN inbox : inbox[i] = m) => queue[m].at = "visible"
    BY <1>1
  <2> QED
    BY <1>1, <2>1, <2>2 DEF TypeOK, VisibleMayBeReceived
<1>7. TypeOK'
  BY <1>2, <1>3, <1>4, <1>5, <1>6, WorkerTyped DEF TypeOK
<1>8. WorkersInv'
  <2>1. \A j \in Jobs : jobs'[j].attempts \in Nat /\ jobs[j].attempts <= jobs'[j].attempts
    BY <1>5 DEF TypeOK, Job
  <2> QED
    BY <1>3, <1>4, <1>5, <2>1, OthersKept
<1>9. OutcomesInv'
  BY <1>5, OutcomesKept DEF OutcomesInv
<1> QED
  BY <1>6, <1>7, <1>8, <1>9 DEF WorkersInv, OutcomesInv

(* A step that ends a worker's message, or its life, and writes no row. *)
LEMMA EndedInv ==
    ASSUME DomainInv, NEW w \in Workers, NEW new \in WorkerState,
           worker' = [worker EXCEPT ![w] = new],
           new.pc \in {"idle", "next", "done"}, new.pc # "idle" => new.inbox # <<>>,
           jobs' = jobs, effects' = effects, crashes' \in 0..MaxCrashes,
           queue' \in [Messages -> Message], VisibleMayBeReceived'
    PROVE  DomainInv'
<1> USE DEF DomainInv
<1>1. TypeOK'
  BY WorkerTyped DEF TypeOK
<1>2. WorkersInv'
  <2>1. \A j \in Jobs : jobs'[j].attempts \in Nat /\ jobs[j].attempts <= jobs'[j].attempts
    BY DEF TypeOK, Job
  <2> QED
    BY <2>1, OthersKept
<1>3. OutcomesInv'
  BY OutcomesKept DEF OutcomesInv
<1> QED
  BY <1>1, <1>2, <1>3 DEF WorkersInv, OutcomesInv

(* Reject, Noop, NoHandler, HandlerGivesUp and Finish go on; Crash ends. *)
LEMMA QuietInv ==
    ASSUME DomainInv, NEW w \in Workers,
           Reject(w) \/ Noop(w) \/ NoHandler(w) \/ HandlerGivesUp(w) \/ Finish(w) \/ Crash(w)
    PROVE  DomainInv'
<1> USE DEF DomainInv
<1>1. CASE Crash(w)
  <2>1. /\ worker' = [worker EXCEPT ![w] = Idle]
        /\ UNCHANGED <<jobs, queue, effects>> /\ crashes' = crashes + 1 /\ crashes < MaxCrashes
    BY <1>1 DEF Crash
  <2>2. crashes' \in 0..MaxCrashes
    BY <2>1, ConstantsAssumption DEF TypeOK
  <2>3. Idle.pc = "idle"
    BY DEF Idle
  <2>4. queue' \in [Messages -> Message] /\ VisibleMayBeReceived'
    BY <2>1 DEF TypeOK, VisibleMayBeReceived
  <2> QED
    BY <2>1, <2>2, <2>3, <2>4, IdleIsAState, EndedInv
<1>2. CASE Reject(w) \/ Noop(w) \/ NoHandler(w) \/ HandlerGivesUp(w) \/ Finish(w)
  <2>1. worker[w].pc # "idle" /\ UNCHANGED <<jobs, effects, crashes>>
    BY <1>2 DEF Reject, Noop, NoHandler, HandlerGivesUp, Finish
  <2>2. queue' = queue \/ Acknowledge(w)
    BY <1>2 DEF Reject, Noop, NoHandler, HandlerGivesUp, Finish
  <2>3. queue' \in [Messages -> Message] /\ VisibleMayBeReceived'
    <3>1. CASE queue' = queue
      BY <3>1 DEF TypeOK, VisibleMayBeReceived
    <3>2. CASE Acknowledge(w)
      BY <2>1, <3>2, AcknowledgedKept
    <3> QED
      BY <2>2, <3>1, <3>2
  <2>4. \E dirty \in SUBSET (Jobs \X Nat) : GoOn(w, dirty)
    <3>1. CASE Reject(w)
      BY <3>1, WorkerFields DEF Reject
    <3>2. CASE Noop(w) \/ NoHandler(w) \/ Finish(w)
      BY <3>2 DEF Noop, NoHandler, Finish
    <3>3. CASE HandlerGivesUp(w)
      <4>1. HasClaimed(w)
        BY <3>3 DEF HandlerGivesUp, HasClaimed
      <4>2. Run(w) \in Jobs \X Nat
        BY <4>1, WorkerFields DEF ClaimsCounted, Run
      <4> QED
        BY <3>3, <4>2 DEF HandlerGivesUp
    <3> QED
      BY <1>2, <3>1, <3>2, <3>3
  <2>5. PICK new \in WorkerState :
            /\ worker' = [worker EXCEPT ![w] = new]
            /\ new.pc \in {"idle", "next"}
            /\ new.pc # "idle" => new.inbox # <<>>
    BY <2>1, <2>4, GoneOn
  <2>6. crashes' \in 0..MaxCrashes
    BY <2>1 DEF TypeOK
  <2> QED
    BY <2>1, <2>3, <2>5, <2>6, EndedInv
<1> QED
  BY <1>1, <1>2

(* The visibility timeout moves a message only. *)
LEMMA ReappearInv ==
    ASSUME DomainInv, NEW m \in Messages, Reappear(m)
    PROVE  DomainInv'
<1> USE DEF DomainInv
<1>1. UNCHANGED <<jobs, worker, effects, crashes>>
  BY DEF Reappear
<1> DEFINE at == IF queue[m].receives >= MaxReceives THEN "dead" ELSE "visible"
           new == [queue[m] EXCEPT !.at = at]
<1>2. queue' = [queue EXCEPT ![m] = new]
  BY DEF Reappear
<1>3. new \in Message /\ new.at = at /\ new.receives = queue[m].receives
  BY DEF TypeOK, Message
<1>4. queue[m].receives \in Nat
  BY ConstantsAssumption DEF TypeOK, Message
<1> HIDE DEF new
<1>5. queue' \in [Messages -> Message] /\ VisibleMayBeReceived'
  BY <1>2, <1>3, <1>4, ConstantsAssumption DEF TypeOK, VisibleMayBeReceived
<1>6. TypeOK'
  BY <1>1, <1>5 DEF TypeOK
<1>7. WorkersInv'
  BY <1>1 DEF WorkersInv, ClaimsCounted, SuccessIsCommitted, ViewsOfTheClaim, HasClaimed, Run,
              CurrentJob, Current
<1>8. OutcomesInv'
  BY <1>1, OutcomesKept DEF OutcomesInv
<1> QED
  BY <1>5, <1>6, <1>7, <1>8 DEF WorkersInv, OutcomesInv

(* Time runs out leases and nothing else. *)
LEMMA TickInv == ASSUME DomainInv, Tick PROVE DomainInv'
<1> USE DEF DomainInv
<1>1. UNCHANGED <<queue, worker, effects, crashes>>
  BY DEF Tick
<1>2. /\ jobs' \in [Jobs -> Job]
      /\ \A j \in Jobs : jobs'[j].attempts = jobs[j].attempts /\ jobs'[j].status = jobs[j].status
  <2>1. \A j \in Jobs : jobs'[j] = [jobs[j] EXCEPT !.lease = Less(jobs[j].lease)]
    BY DEF Tick
  <2>2. \A j \in Jobs : jobs[j] \in Job /\ jobs[j].lease \in Nat
    BY DEF TypeOK, Job
  <2>3. \A j \in Jobs : Less(jobs[j].lease) \in Nat
    BY <2>2 DEF Less
  <2>4. \A j \in Jobs : /\ jobs'[j] \in Job
                        /\ jobs'[j].attempts = jobs[j].attempts /\ jobs'[j].status = jobs[j].status
    BY <2>1, <2>2, <2>3 DEF Job
  <2>5. jobs' = [j \in Jobs |-> jobs'[j]]
    BY DEF Tick
  <2> QED
    BY <2>4, <2>5
<1>3. TypeOK' /\ VisibleMayBeReceived'
  BY <1>1, <1>2 DEF TypeOK, VisibleMayBeReceived
<1>4. WorkersInv'
  BY <1>1, <1>2 DEF WorkersInv, ClaimsCounted, SuccessIsCommitted, ViewsOfTheClaim, HasClaimed, Run,
                    CurrentJob, Current
<1>5. OutcomesInv'
  BY <1>1, <1>2 DEF OutcomesInv, SucceededAfterEffects, FailedOnlyAfterBudget
<1> QED
  BY <1>3, <1>4, <1>5 DEF WorkersInv, OutcomesInv

(* A worker that goes on with the message it has in hand. *)
LEMMA SameMessage ==
    ASSUME TypeOK, NEW w \in Workers, NEW new \in WorkerState,
           worker' = [worker EXCEPT ![w] = new], new.inbox = worker[w].inbox
    PROVE  /\ worker'[w] = new
           /\ \A x \in Workers \ {w} : worker'[x] = worker[x]
           /\ \A x \in Workers : CurrentJob(x)' = CurrentJob(x)
           /\ \A x \in Workers \ {w} : Run(x)' = Run(x)
           /\ Run(w)' = <<CurrentJob(w), new.token>>
BY DEF TypeOK, CurrentJob, Current, Run

(* What a claim makes of a row. *)
LEMMA ClaimedRow ==
    ASSUME NEW w \in Workers, NEW job \in Job
    PROVE  /\ ClaimedBy(w, job) \in Job
           /\ ClaimedBy(w, job).attempts = job.attempts + 1
           /\ ClaimedBy(w, job).status = "RUNNING"
<1>1. job.attempts + 1 \in Nat /\ LeaseTicks \in Nat
  BY ConstantsAssumption DEF Job
<1>2. ClaimedBy(w, job) =
        [job EXCEPT !.status = "RUNNING", !.owner = w, !.lease = LeaseTicks, !.attempts = job.attempts + 1]
  BY DEF ClaimedBy
<1> QED
  BY <1>1, <1>2 DEF Job

(* A claim counts itself. *)
LEMMA ClaimInv ==
    ASSUME DomainInv, NEW w \in Workers, Claim(w)
    PROVE  DomainInv'
<1> USE DEF DomainInv
<1> DEFINE j == CurrentJob(w)
           n == jobs[j].attempts + 1
           new == [worker[w] EXCEPT !.pc = "running", !.token = n, !.dirty = {}]
           row == ClaimedBy(w, jobs[j])
<1>1. /\ worker[w].pc = "next" /\ j \in Jobs
      /\ jobs' = [jobs EXCEPT ![j] = row]
      /\ worker' = [worker EXCEPT ![w] = new]
      /\ effects' = effects \cup worker[w].dirty
      /\ UNCHANGED <<queue, crashes>>
  BY DEF Claim
<1>2. jobs[j].attempts \in Nat
  BY <1>1 DEF TypeOK, Job
<1>3. row \in Job /\ row.attempts = n /\ row.status = "RUNNING"
  <2>1. jobs[j] \in Job
    BY <1>1 DEF TypeOK
  <2> QED
    BY <2>1, ClaimedRow
<1>4. /\ new \in WorkerState /\ new.pc = "running" /\ new.token = n
      /\ new.inbox = worker[w].inbox
  <2>1. n \in Nat
    BY <1>2
  <2> HIDE DEF n
  <2> QED
    BY <2>1, WorkerFields DEF WorkerState
<1>5. worker[w].inbox # <<>> /\ worker[w].dirty \in SUBSET (Jobs \X Nat)
  BY <1>1, WorkerFields
<1> HIDE DEF new, row, j, n
<1>6. /\ jobs'[j] = row /\ \A k \in Jobs \ {j} : jobs'[k] = jobs[k]
      /\ jobs' \in [Jobs -> Job]
  BY <1>1, <1>3 DEF TypeOK
<1>7. n \in Nat /\ n >= 1 /\ n = jobs[j].attempts + 1
  BY <1>2 DEF n
<1>8. \A k \in Jobs : jobs[k].attempts \in Nat /\ jobs[k].attempts <= jobs'[k].attempts
  <2>1. \A k \in Jobs : jobs[k].attempts \in Nat
    BY DEF TypeOK, Job
  <2>2. jobs'[j].attempts = jobs[j].attempts + 1
    BY <1>3, <1>6, <1>7
  <2>3. \A k \in Jobs \ {j} : jobs'[k].attempts = jobs[k].attempts
    BY <1>6
  <2> QED
    BY <2>1, <2>2, <2>3
<1>9. TypeOK' /\ VisibleMayBeReceived'
  BY <1>1, <1>4, <1>5, <1>6, WorkerTyped DEF TypeOK, VisibleMayBeReceived
<1>10. /\ worker'[w] = new /\ \A x \in Workers \ {w} : worker'[x] = worker[x]
       /\ \A x \in Workers : CurrentJob(x)' = CurrentJob(x)
       /\ \A x \in Workers \ {w} : Run(x)' = Run(x)
  BY <1>1, <1>4, SameMessage
<1>11. ClaimsCounted'
  <2> SUFFICES ASSUME NEW x \in Workers, HasClaimed(x)'
               PROVE  CurrentJob(x)' \in Jobs /\ worker'[x].token \in 1..jobs'[CurrentJob(x)'].attempts
    BY DEF ClaimsCounted
  <2>1. CASE x = w
    BY <1>1, <1>3, <1>4, <1>6, <1>7, <1>10, <2>1 DEF j
  <2>2. CASE x # w
    <3>1. HasClaimed(x)
      BY <1>10, <2>2 DEF HasClaimed
    <3>2. CurrentJob(x) \in Jobs /\ worker[x].token \in 1..jobs[CurrentJob(x)].attempts
      BY <3>1 DEF ClaimsCounted
    <3>3. jobs'[CurrentJob(x)].attempts \in Nat
      BY <1>6, <3>2 DEF Job
    <3> QED
      BY <1>8, <1>10, <2>2, <3>2, <3>3
  <2> QED
    BY <2>1, <2>2
<1>12. SuccessIsCommitted' /\ ViewsOfTheClaim'
  BY <1>1, <1>4, <1>10 DEF SuccessIsCommitted, ViewsOfTheClaim
<1>13. SucceededAfterEffects' /\ FailedOnlyAfterBudget'
  <2>1. \A k \in Jobs : jobs'[k].status \in {"SUCCEEDED", "FAILED"} => jobs'[k] = jobs[k]
    BY <1>3, <1>6
  <2> QED
    BY <1>1, <2>1 DEF SucceededAfterEffects, FailedOnlyAfterBudget
<1> QED
  BY <1>9, <1>11, <1>12, <1>13

(* The handler, and the reading of the row after it: no row is written. *)
LEMMA RecordInv ==
    ASSUME DomainInv, NEW w \in Workers, HandlerCommits(w) \/ HandlerFails(w) \/ ReadAgain(w)
    PROVE  DomainInv'
<1> USE DEF DomainInv
<1>1. /\ UNCHANGED <<jobs, queue, crashes>> /\ effects \subseteq effects'
      /\ worker[w].pc # "idle" /\ HasClaimed(w)
  BY DEF HandlerCommits, HandlerFails, ReadAgain, HasClaimed
<1>2. CurrentJob(w) \in Jobs /\ worker[w].token \in 1..jobs[CurrentJob(w)].attempts
  BY <1>1 DEF ClaimsCounted
<1>3. /\ Run(w) \in Jobs \X Nat /\ worker[w].inbox # <<>>
      /\ jobs[CurrentJob(w)] \in Job
  BY <1>1, <1>2, WorkerFields DEF Run, TypeOK
<1>4. effects' \subseteq Jobs \X Nat
  BY <1>3 DEF HandlerCommits, HandlerFails, ReadAgain, TypeOK
<1>5. PICK new \in WorkerState :
          /\ worker' = [worker EXCEPT ![w] = new]
          /\ new.inbox = worker[w].inbox /\ new.token = worker[w].token
          /\ \/ new.pc = "done"
             \/ /\ new.pc \in {"recording", "writing"}
                /\ new.outcome = "complete" => Run(w) \in effects'
                /\ new.pc = "writing" => new.view.attempts = new.token
  <2>1. CASE HandlerCommits(w)
    <3> DEFINE new == [worker[w] EXCEPT !.pc = "recording", !.outcome = "complete"]
    <3>1. worker' = [worker EXCEPT ![w] = new] /\ Run(w) \in effects'
      BY <2>1 DEF HandlerCommits, Record
    <3>2. /\ new \in WorkerState /\ new.pc = "recording"
          /\ new.inbox = worker[w].inbox /\ new.token = worker[w].token
      BY WorkerFields DEF WorkerState
    <3> QED
      BY <3>1, <3>2
  <2>2. CASE HandlerFails(w)
    <3> DEFINE new == [worker[w] EXCEPT !.pc = "recording", !.outcome = "retry"]
    <3>1. worker' = [worker EXCEPT ![w] = new]
      BY <2>2 DEF HandlerFails, Record
    <3>2. /\ new \in WorkerState /\ new.pc = "recording" /\ new.outcome = "retry"
          /\ new.inbox = worker[w].inbox /\ new.token = worker[w].token
      BY WorkerFields DEF WorkerState
    <3> QED
      BY <3>1, <3>2
  <2>3. CASE ReadAgain(w)
    <3> DEFINE fresh == jobs[CurrentJob(w)]
               new == IF HoldsLease(w, fresh) THEN [worker[w] EXCEPT !.pc = "writing", !.view = fresh]
                      ELSE [worker[w] EXCEPT !.pc = "done"]
    <3>1. /\ worker' = [worker EXCEPT ![w] = new] /\ effects' = effects
          /\ worker[w].outcome = "complete" => Run(w) \in effects
      BY <2>3 DEF ReadAgain, SuccessIsCommitted
    <3>2. /\ new \in WorkerState /\ new.inbox = worker[w].inbox /\ new.token = worker[w].token
          /\ new.outcome = worker[w].outcome
          /\ new.pc = "done" \/ (new.pc = "writing" /\ new.view.attempts = new.token)
      BY <1>3, WorkerFields DEF WorkerState, HoldsLease
    <3> HIDE DEF new
    <3> QED
      BY <3>1, <3>2
  <2> QED
    BY <2>1, <2>2, <2>3
<1>6. TypeOK' /\ VisibleMayBeReceived'
  BY <1>1, <1>3, <1>4, <1>5, WorkerTyped DEF TypeOK, VisibleMayBeReceived
<1>7. /\ worker'[w] = new /\ \A x \in Workers \ {w} : worker'[x] = worker[x]
      /\ \A x \in Workers : CurrentJob(x)' = CurrentJob(x)
      /\ \A x \in Workers : Run(x)' = Run(x)
  <2>1. /\ worker'[w] = new /\ \A x \in Workers \ {w} : worker'[x] = worker[x]
        /\ \A x \in Workers : CurrentJob(x)' = CurrentJob(x)
        /\ \A x \in Workers \ {w} : Run(x)' = Run(x)
        /\ Run(w)' = <<CurrentJob(w), new.token>>
    BY <1>5, SameMessage
  <2>2. Run(w)' = Run(w)
    BY <1>5, <2>1 DEF Run
  <2> QED
    BY <2>1, <2>2
<1>8. ClaimsCounted'
  BY <1>1, <1>2, <1>5, <1>7 DEF ClaimsCounted, HasClaimed
<1>9. SuccessIsCommitted' /\ ViewsOfTheClaim'
  <2> SUFFICES ASSUME NEW x \in Workers
               PROVE  /\ worker'[x].pc \in {"recording", "writing"} /\ worker'[x].outcome = "complete"
                            => Run(x)' \in effects'
                      /\ worker'[x].pc = "writing" => worker'[x].view.attempts = worker'[x].token
    BY DEF SuccessIsCommitted, ViewsOfTheClaim
  <2>1. CASE x = w
    BY <1>5, <1>7, <2>1
  <2>2. CASE x # w
    BY <1>1, <1>7, <2>2 DEF SuccessIsCommitted, ViewsOfTheClaim
  <2> QED
    BY <2>1, <2>2
<1>10. OutcomesInv'
  BY <1>1, OutcomesKept DEF OutcomesInv
<1> QED
  BY <1>6, <1>8, <1>9, <1>10 DEF OutcomesInv

(* What is recorded is of a claim the row has counted. *)
LEMMA WriteInv ==
    ASSUME DomainInv, NEW w \in Workers, Write(w)
    PROVE  DomainInv'
<1> USE DEF DomainInv
<1> DEFINE j == CurrentJob(w)
           row == IF worker[w].outcome = "complete" THEN Completed(jobs[j])
                  ELSE Retried(jobs[j], worker[w].view)
           new == [worker[w] EXCEPT !.pc = "done"]
<1>1. /\ worker[w].pc = "writing" /\ HasClaimed(w)
      /\ jobs' = [jobs EXCEPT ![j] = row]
      /\ worker' = [worker EXCEPT ![w] = new]
      /\ UNCHANGED <<queue, effects, crashes>>
  BY DEF Write, HasClaimed
<1>2. /\ j \in Jobs /\ jobs[j] \in Job /\ worker[w].token \in 1..jobs[j].attempts
      /\ worker[w].view \in Job /\ worker[w].view.attempts = worker[w].token
  BY <1>1, WorkerFields DEF ClaimsCounted, ViewsOfTheClaim, TypeOK
<1>3. jobs[j].attempts \in Nat
  BY <1>2 DEF Job
<1>4. row \in Job /\ row.attempts = jobs[j].attempts
  BY <1>2 DEF Completed, Retried, Job, Terminal
<1>5. row.status = "SUCCEEDED" => worker[w].outcome = "complete"
  BY <1>2 DEF Completed, Retried, Job
<1>6. row.status = "FAILED" => jobs[j].attempts >= MaxAttempts
  <2>1. row.status = "FAILED" => worker[w].view.attempts >= MaxAttempts
    BY <1>2 DEF Completed, Retried, Job
  <2> QED
    BY <1>2, <1>3, <2>1, ConstantsAssumption
<1>7. /\ new \in WorkerState /\ new.pc = "done" /\ new.inbox = worker[w].inbox
      /\ worker[w].inbox # <<>>
  BY <1>1, WorkerFields DEF WorkerState
<1> HIDE DEF new, row, j
<1>8. /\ jobs'[j] = row /\ \A k \in Jobs \ {j} : jobs'[k] = jobs[k]
      /\ jobs' \in [Jobs -> Job]
  BY <1>1, <1>2, <1>4 DEF TypeOK
<1>9. TypeOK' /\ VisibleMayBeReceived'
  BY <1>1, <1>7, <1>8, WorkerTyped DEF TypeOK, VisibleMayBeReceived
<1>10. WorkersInv'
  <2>1. \A k \in Jobs : jobs'[k].attempts \in Nat /\ jobs[k].attempts <= jobs'[k].attempts
    BY <1>3, <1>4, <1>8 DEF TypeOK, Job
  <2> QED
    BY <1>1, <1>7, <2>1, OthersKept
<1>11. SucceededAfterEffects'
  <2> SUFFICES ASSUME NEW k \in Jobs, jobs'[k].status = "SUCCEEDED"
               PROVE  \E n \in 1..jobs'[k].attempts : <<k, n>> \in effects'
    BY DEF SucceededAfterEffects
  <2>1. CASE k = j
    <3>1. <<j, worker[w].token>> \in effects
      BY <1>1, <1>5, <1>8, <2>1 DEF SuccessIsCommitted, Run, j
    <3> QED
      BY <1>1, <1>2, <1>4, <1>8, <2>1, <3>1
  <2>2. CASE k # j
    BY <1>1, <1>8, <2>2 DEF SucceededAfterEffects
  <2> QED
    BY <2>1, <2>2
<1>12. FailedOnlyAfterBudget'
  BY <1>4, <1>6, <1>8 DEF FailedOnlyAfterBudget
<1> QED
  BY <1>9, <1>10, <1>11, <1>12 DEF WorkersInv

-----------------------------------------------------------------------------
(* Every step keeps the invariant. *)
LEMMA NextInv == DomainInv /\ [Next]_vars => DomainInv'
<1> SUFFICES ASSUME DomainInv, [Next]_vars PROVE DomainInv'
  OBVIOUS
<1>1. CASE UNCHANGED vars
  BY <1>1 DEF vars, DomainInv, TypeOK, VisibleMayBeReceived, ClaimsCounted, SuccessIsCommitted,
              ViewsOfTheClaim, HasClaimed, Run, CurrentJob, Current, SucceededAfterEffects,
              FailedOnlyAfterBudget
<1>2. CASE \E w \in Workers : Receive(w) \/ WorkerStep(w) \/ Crash(w)
  BY <1>2, ReceiveInv, QuietInv, ClaimInv, RecordInv, WriteInv DEF WorkerStep
<1>3. CASE \E m \in Messages : Reappear(m)
  BY <1>3, ReappearInv
<1>4. CASE Tick
  BY <1>4, TickInv
<1> QED
  BY <1>1, <1>2, <1>3, <1>4 DEF Next

(* The inductive invariant holds of every behaviour. *)
THEOREM DomainInvTheorem == Spec => []DomainInv
BY InitInv, NextInv, PTL DEF Spec

(* Job rows, messages and workers keep their types. *)
THEOREM TypeCorrect == Spec => []TypeOK
<1>1. DomainInv => TypeOK
  BY DEF DomainInv
<1> QED
  BY <1>1, DomainInvTheorem, PTL

(* No job is recorded as succeeded whose handler did not commit             *)
(* (complete_job).                                                         *)
THEOREM SuccessWasEarned == Spec => []SucceededAfterEffects
<1>1. DomainInv => SucceededAfterEffects
  BY DEF DomainInv
<1> QED
  BY <1>1, DomainInvTheorem, PTL

(* No job fails for good before its budget of claims is used (retry_job).  *)
THEOREM BudgetIsGiven == Spec => []FailedOnlyAfterBudget
<1>1. DomainInv => FailedOnlyAfterBudget
  BY DEF DomainInv
<1> QED
  BY <1>1, DomainInvTheorem, PTL

-----------------------------------------------------------------------------
(***************************************************************************)
(* The refinement.  A claim that may still come to something is one that   *)
(* its row has counted, and no two workers have the same in hand: a claim  *)
(* takes a number nobody has had.                                          *)
(***************************************************************************)
OnlyNextIsDirty == \A w \in Workers : worker[w].dirty # {} => worker[w].pc = "next"

HeldAreCounted ==
    \A w \in Workers : \A c \in Holds(w) : c \in Jobs \X Nat /\ c[2] <= jobs[c[1]].attempts

HeldApart == \A w, x \in Workers : w # x => Holds(w) \cap Holds(x) = {}

HeldInv == OnlyNextIsDirty /\ HeldAreCounted /\ HeldApart

LEMMA InitHeld == Init => HeldInv /\ Held = {}
BY DEF Init, Idle, HeldInv, OnlyNextIsDirty, HeldAreCounted, HeldApart, Held, Holds, HasClaimed

(* What others hold does not change with a worker. *)
LEMMA OthersHold ==
    ASSUME TypeOK, NEW w \in Workers, NEW new, worker' = [worker EXCEPT ![w] = new]
    PROVE  \A x \in Workers \ {w} : worker'[x] = worker[x] /\ Holds(x)' = Holds(x)
<1>1. \A x \in Workers \ {w} : worker'[x] = worker[x]
  BY DEF TypeOK
<1> QED
  BY <1>1 DEF Holds, HasClaimed, Run, CurrentJob, Current

(* A step by which a worker lets go of claims, or of none. *)
LEMMA LettingGo ==
    ASSUME TypeOK, HeldInv, NEW w \in Workers, NEW new, worker' = [worker EXCEPT ![w] = new],
           new.dirty # {} => new.pc = "next",
           Holds(w)' \subseteq Holds(w),
           \A j \in Jobs : jobs'[j].attempts = jobs[j].attempts
    PROVE  /\ HeldInv'
           /\ Holds(w) \ Holds(w)' \subseteq Held
           /\ Held' = Held \ (Holds(w) \ Holds(w)')
<1>1. \A x \in Workers \ {w} : worker'[x] = worker[x] /\ Holds(x)' = Holds(x)
  BY OthersHold
<1>2. worker'[w] = new
  BY DEF TypeOK
<1>3. OnlyNextIsDirty'
  BY <1>1, <1>2 DEF HeldInv, OnlyNextIsDirty
<1>4. HeldAreCounted'
  <2> SUFFICES ASSUME NEW x \in Workers, NEW c \in Holds(x)'
               PROVE  c \in Jobs \X Nat /\ c[2] <= jobs'[c[1]].attempts
    BY DEF HeldAreCounted
  <2>1. c \in Holds(x)
    BY <1>1
  <2>2. c \in Jobs \X Nat /\ c[2] <= jobs[c[1]].attempts
    BY <2>1 DEF HeldInv, HeldAreCounted
  <2>3. c[1] \in Jobs
    BY <2>2
  <2> QED
    BY <2>2, <2>3
<1>5. HeldApart'
  BY <1>1 DEF HeldInv, HeldApart
<1>6. Held' = Held \ (Holds(w) \ Holds(w)')
  <2>1. \A c : c \in Held' <=> \E x \in Workers : c \in Holds(x)'
    BY DEF Held
  <2>2. \A c : c \in Held <=> \E x \in Workers : c \in Holds(x)
    BY DEF Held
  <2>3. \A x \in Workers \ {w} : \A c : c \in Holds(x) => c \notin Holds(w)
    BY DEF HeldInv, HeldApart
  <2> QED
    BY <1>1, <2>1, <2>2, <2>3
<1> QED
  BY <1>3, <1>4, <1>5, <1>6 DEF HeldInv, Held

(* The same, when it says nothing and writes nothing. *)
LEMMA Silently ==
    ASSUME TypeOK, HeldInv, NEW w \in Workers, NEW new, worker' = [worker EXCEPT ![w] = new],
           new.dirty # {} => new.pc = "next",
           Holds(w)' \subseteq Holds(w), UNCHANGED <<jobs, effects>>
    PROVE  HeldInv' /\ Agreement!Next
<1>1. /\ HeldInv'
      /\ Holds(w) \ Holds(w)' \subseteq Held
      /\ Held' = Held \ (Holds(w) \ Holds(w)')
  BY LettingGo
<1>2. Claims' = Claims /\ Verdict' = Verdict
  BY DEF Claims, Verdict
<1>3. Agreement!End
  BY <1>1, <1>2 DEF Agreement!End
<1> QED
  BY <1>1, <1>3 DEF Agreement!Next

(* The end of a message, with writes left pending or not. *)
LEMMA GoneOnHolds ==
    ASSUME TypeOK, NEW w \in Workers, NEW dirty \in SUBSET Holds(w), GoOn(w, dirty)
    PROVE  \E new : /\ worker' = [worker EXCEPT ![w] = new]
                    /\ new.dirty # {} => new.pc = "next"
                    /\ Holds(w)' \subseteq Holds(w)
<1>1. PICK new : /\ worker' = [worker EXCEPT ![w] = new]
                 /\ new.pc \in {"idle", "next"} /\ new.dirty \in {{}, dirty}
                 /\ new.dirty # {} => new.pc = "next"
  <2>1. CASE Tail(worker[w].inbox) = <<>>
    <3>1. Idle.pc = "idle" /\ Idle.dirty = {}
      BY DEF Idle
    <3>2. worker' = [worker EXCEPT ![w] = Idle]
      BY <2>1 DEF GoOn
    <3> QED
      BY <3>1, <3>2
  <2>2. CASE Tail(worker[w].inbox) # <<>>
    <3> DEFINE new == [Idle EXCEPT !.pc = "next", !.inbox = Tail(worker[w].inbox), !.dirty = dirty]
    <3>1. new.pc = "next" /\ new.dirty = dirty
      BY DEF Idle
    <3>2. worker' = [worker EXCEPT ![w] = new]
      BY <2>2 DEF GoOn
    <3> QED
      BY <3>1, <3>2
  <2> QED
    BY <2>1, <2>2
<1>2. worker'[w] = new
  BY <1>1 DEF TypeOK
<1>3. Holds(w)' \subseteq dirty
  BY <1>1, <1>2 DEF Holds, HasClaimed
<1> QED
  BY <1>1, <1>3

(* A worker that stays with its claim. *)
LEMMA SameClaim ==
    ASSUME TypeOK, NEW w \in Workers, HasClaimed(w), NEW new, worker' = [worker EXCEPT ![w] = new],
           new.inbox = worker[w].inbox, new.token = worker[w].token, new.dirty = worker[w].dirty
    PROVE  Holds(w)' \subseteq Holds(w) /\ (HasClaimed(w)' => Holds(w)' = Holds(w))
<1>1. worker'[w] = new
  BY DEF TypeOK
<1>2. Run(w)' = Run(w)
  BY <1>1 DEF Run, CurrentJob, Current
<1> QED
  BY <1>1, <1>2 DEF Holds

-----------------------------------------------------------------------------
(* Steps by which a worker lets claims go without a word, or takes a batch. *)
LEMMA QuietRefines ==
    ASSUME DomainInv, HeldInv, NEW w \in Workers,
           Receive(w) \/ Reject(w) \/ Noop(w) \/ NoHandler(w) \/ HandlerGivesUp(w) \/ ReadAgain(w)
             \/ Finish(w) \/ Crash(w)
    PROVE  HeldInv' /\ Agreement!Next
<1> SUFFICES \E new : /\ worker' = [worker EXCEPT ![w] = new]
                      /\ new.dirty # {} => new.pc = "next"
                      /\ Holds(w)' \subseteq Holds(w)
  BY Silently
  DEF DomainInv, Receive, Reject, Noop, NoHandler, HandlerGivesUp, ReadAgain, Finish, Crash
<1>0. TypeOK
  BY DEF DomainInv
<1>1. ASSUME NEW dirty \in SUBSET Holds(w), GoOn(w, dirty)
      PROVE  \E new : /\ worker' = [worker EXCEPT ![w] = new]
                      /\ new.dirty # {} => new.pc = "next"
                      /\ Holds(w)' \subseteq Holds(w)
  BY <1>0, <1>1, GoneOnHolds
<1>2. CASE Receive(w)
  <2>1. PICK inbox \in Inboxes :
            worker' = [worker EXCEPT ![w] = [Idle EXCEPT !.pc = "next", !.inbox = inbox]]
    BY <1>2 DEF Receive
  <2>2. worker'[w] = [Idle EXCEPT !.pc = "next", !.inbox = inbox]
    BY <1>0, <2>1 DEF TypeOK
  <2>3. Holds(w)' = {}
    BY <2>2 DEF Holds, HasClaimed, Idle
  <2>4. [Idle EXCEPT !.pc = "next", !.inbox = inbox].pc = "next"
    BY DEF Idle
  <2> QED
    BY <2>1, <2>3, <2>4
<1>3. CASE Reject(w)
  <2>1. worker[w].dirty \in SUBSET Holds(w)
    BY DEF Holds
  <2> QED
    BY <1>1, <1>3, <2>1 DEF Reject
<1>4. CASE Noop(w) \/ NoHandler(w) \/ Finish(w)
  BY <1>1, <1>4 DEF Noop, NoHandler, Finish
<1>5. CASE HandlerGivesUp(w)
  <2>1. Run(w) \in Holds(w)
    BY <1>5 DEF HandlerGivesUp, Holds, HasClaimed
  <2> QED
    BY <1>1, <1>5, <2>1 DEF HandlerGivesUp
<1>6. CASE ReadAgain(w)
  <2> DEFINE fresh == jobs[CurrentJob(w)]
             new == IF HoldsLease(w, fresh) THEN [worker[w] EXCEPT !.pc = "writing", !.view = fresh]
                    ELSE [worker[w] EXCEPT !.pc = "done"]
  <2>1. worker' = [worker EXCEPT ![w] = new] /\ worker[w].pc = "recording" /\ HasClaimed(w)
    BY <1>6 DEF ReadAgain, HasClaimed
  <2>2. /\ new.inbox = worker[w].inbox /\ new.token = worker[w].token
        /\ new.dirty = worker[w].dirty
    BY <1>0, WorkerFields DEF WorkerState
  <2>3. worker[w].dirty = {}
    BY <2>1 DEF HeldInv, OnlyNextIsDirty
  <2> HIDE DEF new
  <2>4. Holds(w)' \subseteq Holds(w)
    BY <1>0, <2>1, <2>2, SameClaim
  <2> QED
    BY <2>1, <2>2, <2>3, <2>4
<1>7. CASE Crash(w)
  <2>1. worker' = [worker EXCEPT ![w] = Idle] /\ worker'[w] = Idle
    BY <1>0, <1>7 DEF Crash, TypeOK
  <2>2. Holds(w)' = {}
    BY <2>1 DEF Holds, HasClaimed, Idle
  <2> QED
    BY <2>1, <2>2 DEF Idle
<1> QED
  BY <1>2, <1>3, <1>4, <1>5, <1>6, <1>7

(* A handler commits writes of its claim, or none. *)
LEMMA HandlerRefines ==
    ASSUME DomainInv, HeldInv, NEW w \in Workers, HandlerCommits(w) \/ HandlerFails(w)
    PROVE  HeldInv' /\ [Agreement!Next]_Agreement!vars
<1>0. TypeOK
  BY DEF DomainInv
<1>1. PICK outcome \in {"complete", "retry"} : Record(w, outcome)
  BY DEF HandlerCommits, HandlerFails
<1> DEFINE new == [worker[w] EXCEPT !.pc = "recording", !.outcome = outcome]
<1>2. /\ worker' = [worker EXCEPT ![w] = new] /\ worker[w].pc = "running" /\ HasClaimed(w)
      /\ UNCHANGED jobs
      /\ effects' = effects \/ effects' = effects \cup {Run(w)}
  BY <1>1 DEF Record, HandlerCommits, HandlerFails, HasClaimed
<1>3. /\ new.inbox = worker[w].inbox /\ new.token = worker[w].token
      /\ new.dirty = worker[w].dirty /\ new.pc = "recording"
  BY <1>0, WorkerFields DEF WorkerState
<1>4. worker[w].dirty = {}
  BY <1>2 DEF HeldInv, OnlyNextIsDirty
<1> HIDE DEF new
<1>5. Holds(w)' = Holds(w)
  <2>1. HasClaimed(w)'
    BY <1>0, <1>2, <1>3 DEF TypeOK, HasClaimed
  <2> QED
    BY <1>0, <1>2, <1>3, <2>1, SameClaim
<1>6. HeldInv' /\ Held' = Held \ (Holds(w) \ Holds(w)')
  BY <1>0, <1>2, <1>3, <1>4, <1>5, LettingGo
<1>7. Held' = Held /\ Claims' = Claims /\ Verdict' = Verdict
  BY <1>2, <1>5, <1>6 DEF Claims, Verdict
<1>8. Run(w) \in Held
  BY <1>2 DEF Held, Holds
<1>9. CASE effects' = effects
  BY <1>6, <1>7, <1>9 DEF Agreement!vars
<1>10. CASE effects' = effects \cup {Run(w)}
  <2>1. Agreement!Commit(Run(w))
    BY <1>7, <1>8, <1>10 DEF Agreement!Commit
  <2> QED
    BY <1>6, <1>8, <2>1 DEF Agreement!Next
<1> QED
  BY <1>2, <1>9, <1>10

(* What a worker writes is a truthful report of the claim in its hands. *)
LEMMA WriteRefines ==
    ASSUME DomainInv, HeldInv, NEW w \in Workers, Write(w)
    PROVE  HeldInv' /\ Agreement!Next
<1> DEFINE j == CurrentJob(w)
           row == IF worker[w].outcome = "complete" THEN Completed(jobs[j])
                  ELSE Retried(jobs[j], worker[w].view)
           said == IF worker[w].outcome = "complete" THEN "succeeded"
                   ELSE IF worker[w].token >= MaxAttempts THEN "failed" ELSE "open"
           new == [worker[w] EXCEPT !.pc = "done"]
<1>0. TypeOK
  BY DEF DomainInv
<1>1. /\ worker[w].pc = "writing" /\ HasClaimed(w)
      /\ jobs' = [jobs EXCEPT ![j] = row]
      /\ worker' = [worker EXCEPT ![w] = new]
      /\ effects' = effects
  BY DEF Write, HasClaimed
<1>2. /\ j \in Jobs /\ jobs[j] \in Job
      /\ worker[w].view.attempts = worker[w].token
      /\ worker[w].token \in Nat
  BY <1>0, <1>1, WorkerFields DEF DomainInv, ClaimsCounted, ViewsOfTheClaim, TypeOK
<1>3. /\ row.attempts = jobs[j].attempts
      /\ row.status = CASE said = "succeeded" -> "SUCCEEDED"
                        [] said = "failed" -> "FAILED"
                        [] said = "open" -> "QUEUED"
  BY <1>2 DEF Completed, Retried, Job
<1>4. Agreement!Truthful(Run(w), said)
  <2>1. worker[w].outcome = "complete" => Run(w) \in effects
    BY <1>1 DEF DomainInv, SuccessIsCommitted
  <2>2. Run(w)[2] = worker[w].token
    BY DEF Run
  <2>3. CASE worker[w].outcome = "complete"
    <3>1. said = "succeeded"
      BY <2>3
    <3> QED
      BY <2>1, <2>3, <3>1 DEF Agreement!Truthful
  <2>4. CASE worker[w].outcome # "complete" /\ worker[w].token >= MaxAttempts
    <3>1. said = "failed"
      BY <2>4
    <3> QED
      BY <2>2, <2>4, <3>1 DEF Agreement!Truthful
  <2>5. CASE worker[w].outcome # "complete" /\ ~(worker[w].token >= MaxAttempts)
    <3>1. said = "open" /\ worker[w].token < MaxAttempts
      BY <1>2, <2>5, ConstantsAssumption
    <3> QED
      BY <2>2, <3>1 DEF Agreement!Truthful
  <2> QED
    BY <2>3, <2>4, <2>5
<1>5. said \in {"open", "succeeded", "failed"}
  OBVIOUS
<1>6. /\ new.inbox = worker[w].inbox /\ new.token = worker[w].token
      /\ new.dirty = worker[w].dirty /\ new.pc = "done"
  BY <1>0, WorkerFields DEF WorkerState
<1>7. Run(w)[1] = j
  BY DEF Run
<1> HIDE DEF new, row, said, j
<1>8. /\ jobs'[j] = row /\ \A k \in Jobs \ {j} : jobs'[k] = jobs[k]
  BY <1>0, <1>1, <1>2 DEF TypeOK
<1>9. worker[w].dirty = {} /\ worker'[w] = new
  BY <1>0, <1>1 DEF HeldInv, OnlyNextIsDirty, TypeOK
<1>10. Holds(w) = {Run(w)} /\ Holds(w)' = {}
  BY <1>1, <1>6, <1>9 DEF Holds, HasClaimed
<1>11. /\ HeldInv' /\ Held' = Held \ (Holds(w) \ Holds(w)')
       /\ Holds(w) \ Holds(w)' \subseteq Held
  <2>1. \A k \in Jobs : jobs'[k].attempts = jobs[k].attempts
    BY <1>3, <1>8
  <2> QED
    BY <1>0, <1>1, <1>6, <1>9, <1>10, <2>1, LettingGo
<1>12. Held' = Held \ {Run(w)} /\ Run(w) \in Held
  BY <1>10, <1>11
<1>13. Claims' = Claims
  BY <1>3, <1>8 DEF Claims
<1>14. Verdict' = [Verdict EXCEPT ![j] = said]
  <2>1. Verdict'[j] = said
    BY <1>2, <1>3, <1>5, <1>8 DEF Verdict
  <2>2. \A k \in Jobs \ {j} : Verdict'[k] = Verdict[k]
    BY <1>8 DEF Verdict
  <2>3. /\ Verdict = [k \in Jobs |-> Verdict[k]]
        /\ Verdict' = [k \in Jobs |-> Verdict'[k]]
    BY DEF Verdict
  <2> HIDE DEF Verdict
  <2> QED
    BY <1>2, <2>1, <2>2, <2>3
<1>15. Agreement!Report(Run(w), said)
  BY <1>1, <1>4, <1>7, <1>12, <1>13, <1>14 DEF Agreement!Report
<1> QED
  BY <1>5, <1>11, <1>12, <1>15 DEF Agreement!Next

(* A claim takes a number that nobody has in hand. *)
LEMMA ClaimRefines ==
    ASSUME DomainInv, HeldInv, NEW w \in Workers, Claim(w)
    PROVE  HeldInv' /\ Agreement!Next
<1> DEFINE j == CurrentJob(w)
           n == jobs[j].attempts + 1
           row == ClaimedBy(w, jobs[j])
           new == [worker[w] EXCEPT !.pc = "running", !.token = n, !.dirty = {}]
           flushed == worker[w].dirty
<1>0. TypeOK
  BY DEF DomainInv
<1>1. /\ worker[w].pc = "next" /\ j \in Jobs /\ ~IsTerminal(jobs[j])
      /\ jobs' = [jobs EXCEPT ![j] = row]
      /\ worker' = [worker EXCEPT ![w] = new]
      /\ effects' = effects \cup flushed
  BY DEF Claim
<1>2. jobs[j] \in Job /\ jobs[j].attempts \in Nat
  BY <1>0, <1>1 DEF TypeOK, Job
<1>3. row.attempts = n /\ row.status = "RUNNING"
  BY <1>2, ClaimedRow
<1>4. /\ new.pc = "running" /\ new.token = n /\ new.dirty = {} /\ new.inbox = worker[w].inbox
  BY <1>0, WorkerFields DEF WorkerState
<1>5. n = jobs[j].attempts + 1 /\ n \in Nat
  BY <1>2
<1> HIDE DEF new, row, n, j
<1>6. worker'[w] = new /\ \A x \in Workers \ {w} : worker'[x] = worker[x] /\ Holds(x)' = Holds(x)
  BY <1>0, <1>1, OthersHold DEF TypeOK
<1>7. Holds(w) = flushed /\ Holds(w)' = {<<j, n>>}
  <2>1. Run(w)' = <<j, n>>
    BY <1>4, <1>6 DEF Run, CurrentJob, Current, j
  <2> QED
    BY <1>1, <1>4, <1>6, <2>1 DEF Holds, HasClaimed
<1>8. jobs'[j] = row /\ \A k \in Jobs \ {j} : jobs'[k] = jobs[k]
  BY <1>0, <1>1 DEF TypeOK
<1>9. \A x \in Workers : \A c \in Holds(x) :
          c \in Jobs \X Nat /\ c[2] <= jobs[c[1]].attempts /\ c # <<j, n>>
  <2> SUFFICES ASSUME NEW x \in Workers, NEW c \in Holds(x)
               PROVE  c \in Jobs \X Nat /\ c[2] <= jobs[c[1]].attempts /\ c # <<j, n>>
    OBVIOUS
  <2>1. c \in Jobs \X Nat /\ c[2] <= jobs[c[1]].attempts
    BY DEF HeldInv, HeldAreCounted
  <2>2. ~(n <= jobs[j].attempts)
    BY <1>2, <1>5
  <2>3. c # <<j, n>>
    BY <2>1, <2>2
  <2> QED
    BY <2>1, <2>3
<1>10. OnlyNextIsDirty'
  BY <1>4, <1>6 DEF HeldInv, OnlyNextIsDirty
<1>11. HeldAreCounted'
  <2> SUFFICES ASSUME NEW x \in Workers, NEW c \in Holds(x)'
               PROVE  c \in Jobs \X Nat /\ c[2] <= jobs'[c[1]].attempts
    BY DEF HeldAreCounted
  <2>1. CASE x = w
    <3>1. c = <<j, n>>
      BY <1>7, <2>1
    <3>2. c[1] = j /\ c[2] = n /\ c \in Jobs \X Nat
      BY <1>1, <1>5, <3>1
    <3> QED
      BY <1>3, <1>5, <1>8, <3>2
  <2>2. CASE x # w
    <3>1. c \in Jobs \X Nat /\ c[2] <= jobs[c[1]].attempts
      BY <1>6, <1>9, <2>2
    <3>2. c[1] \in Jobs /\ c[2] \in Nat
      BY <3>1
    <3>3. CASE c[1] = j
      BY <1>2, <1>3, <1>5, <1>8, <3>1, <3>2, <3>3
    <3>4. CASE c[1] # j
      BY <1>8, <3>1, <3>2, <3>4
    <3> QED
      BY <3>3, <3>4
  <2> QED
    BY <2>1, <2>2
<1>12. HeldApart'
  BY <1>6, <1>7, <1>9 DEF HeldInv, HeldApart
<1>13. flushed \subseteq Held /\ Held' = (Held \ flushed) \cup {<<j, n>>}
  <2>1. \A c : c \in Held' <=> \E x \in Workers : c \in Holds(x)'
    BY DEF Held
  <2>2. \A c : c \in Held <=> \E x \in Workers : c \in Holds(x)
    BY DEF Held
  <2>3. \A x \in Workers \ {w} : \A c : c \in Holds(x) => c \notin Holds(w)
    BY DEF HeldInv, HeldApart
  <2> QED
    BY <1>6, <1>7, <2>1, <2>2, <2>3
<1>14. Claims' = [Claims EXCEPT ![j] = n] /\ n = Claims[j] + 1
  <2>1. Claims'[j] = n /\ Claims[j] + 1 = n
    BY <1>1, <1>3, <1>5, <1>8 DEF Claims
  <2>2. \A k \in Jobs \ {j} : Claims'[k] = Claims[k]
    BY <1>8 DEF Claims
  <2> QED
    BY <2>1, <2>2 DEF Claims
<1>15. Verdict[j] = "open" /\ Verdict' = Verdict
  <2>1. jobs[j].status \notin {"SUCCEEDED", "FAILED"}
    BY <1>1 DEF IsTerminal, Terminal
  <2>2. Verdict[j] = "open" /\ Verdict'[j] = "open"
    BY <1>1, <1>3, <1>8, <2>1 DEF Verdict
  <2>3. \A k \in Jobs \ {j} : Verdict'[k] = Verdict[k]
    BY <1>8 DEF Verdict
  <2> QED
    BY <2>2, <2>3 DEF Verdict
<1>16. Agreement!Claim(j)
  <2>1. Claims' = [Claims EXCEPT ![j] = Claims[j] + 1] /\ <<j, Claims[j] + 1>> = <<j, n>>
    BY <1>14
  <2> QED
    BY <1>1, <1>13, <1>15, <2>1 DEF Agreement!Claim
<1> QED
  BY <1>1, <1>10, <1>11, <1>12, <1>13, <1>16 DEF Agreement!Next, HeldInv

(* The queue and the clock are none of the agreement's business. *)
LEMMA OutsideRefines ==
    ASSUME TypeOK, HeldInv, worker' = worker, effects' = effects,
           \A j \in Jobs : jobs'[j].attempts = jobs[j].attempts /\ jobs'[j].status = jobs[j].status
    PROVE  HeldInv' /\ UNCHANGED Agreement!vars
<1>1. \A w \in Workers : Holds(w)' = Holds(w)
  BY DEF Holds, HasClaimed, Run, CurrentJob, Current
<1>2. Held' = Held
  BY <1>1 DEF Held
<1>3. Claims' = Claims /\ Verdict' = Verdict
  BY DEF Claims, Verdict
<1>4. HeldAreCounted'
  <2> SUFFICES ASSUME NEW w \in Workers, NEW c \in Holds(w)
               PROVE  c \in Jobs \X Nat /\ c[2] <= jobs'[c[1]].attempts
    BY <1>1 DEF HeldAreCounted
  <2>1. c \in Jobs \X Nat /\ c[2] <= jobs[c[1]].attempts
    BY DEF HeldInv, HeldAreCounted
  <2>2. c[1] \in Jobs
    BY <2>1
  <2> QED
    BY <2>1, <2>2
<1> QED
  BY <1>1, <1>2, <1>3, <1>4 DEF HeldInv, OnlyNextIsDirty, HeldApart, Agreement!vars

(***************************************************************************)
(* Queue, sessions and leases implement the agreement (ClaimedJobs): every *)
(* step of a worker is a claim, a commit of its writes, a truthful report, *)
(* the silent end of claims, or nothing the agreement speaks of.           *)
(***************************************************************************)
THEOREM AgreementKept == Spec => KeepsTheAgreement
<1>1. Init => Agreement!Init
  BY InitHeld DEF Init, Agreement!Init, Fresh, Claims, Verdict
<1>2. Init => HeldInv
  BY InitHeld
<1>3. DomainInv /\ HeldInv /\ [Next]_vars => HeldInv' /\ [Agreement!Next]_Agreement!vars
  <2> SUFFICES ASSUME DomainInv, HeldInv, [Next]_vars
               PROVE  HeldInv' /\ [Agreement!Next]_Agreement!vars
    OBVIOUS
  <2>0. TypeOK
    BY DEF DomainInv
  <2>1. CASE UNCHANGED vars \/ \E m \in Messages : Reappear(m)
    BY <2>0, <2>1, OutsideRefines DEF vars, Reappear
  <2>2. CASE Tick
    <3>1. \A j \in Jobs : jobs'[j].attempts = jobs[j].attempts /\ jobs'[j].status = jobs[j].status
      BY <2>0, <2>2 DEF Tick, TypeOK, Job
    <3> QED
      BY <2>0, <2>2, <3>1, OutsideRefines DEF Tick
  <2>3. ASSUME NEW w \in Workers, Receive(w) \/ WorkerStep(w) \/ Crash(w)
        PROVE  HeldInv' /\ [Agreement!Next]_Agreement!vars
    BY <2>3, QuietRefines, HandlerRefines, WriteRefines, ClaimRefines DEF WorkerStep
  <2> QED
    BY <2>1, <2>2, <2>3 DEF Next
<1> QED
  BY <1>1, <1>2, <1>3, DomainInvTheorem, PTL DEF Spec, KeepsTheAgreement, Agreement!Spec
=============================================================================
