-------------------------- MODULE InterviewSessions --------------------------
(***************************************************************************)
(* The life of a mock interview, from the handshake to the closed record   *)
(* (apps/api-py/app/routers/interview.py, with the limiter of              *)
(* interview_core.py, the caps of interview_policy.py, the end of a call   *)
(* in interview_nova.py and the orphan sweep of retention.py).             *)
(*                                                                         *)
(* A socket takes a slot of its worker's limiter, resolves its track,      *)
(* opens its record in a transaction that is serialized per student by an  *)
(* advisory lock, and runs.  Three layers close the record: the engine,    *)
(* the router's `finally', and the sweep of a worker that boots.  Records  *)
(* and lock live in PostgreSQL and are shared; limiters die with their     *)
(* worker.                                                                 *)
(*                                                                         *)
(* Time is counted in ticks of heartbeat silence.  The consent gate and    *)
(* the unknown track are refusals that may happen; rehearsals, which open  *)
(* no record, are left out.                                                *)
(***************************************************************************)
EXTENDS Naturals, FiniteSets, FiniteSetsExt

CONSTANTS
    Attempts,    \* WebSocket handshakes past the authentication
    Students, StudentOf,
    Workers,     \* uvicorn processes
    NoAttempt, NoWorker,
    WorkerLimit, PerUser,    \* interview_max_sessions, .._per_user
    DailyCap, AttemptCap,    \* the two ceilings of the policy
    Talked,      \* the students that have an open conversation at the start
    LiveGrace, OrphanGrace,  \* 180 s and 1200 s, in ticks
    SessionCap,  \* the longest an interview is served, the cap of its engine, in ticks
    MaxFaults, MaxEscapes, MaxCrashes, MaxResets   \* bounds on the environment

ASSUME ConstantsAssumption ==
    /\ StudentOf \in [Attempts -> Students]
    /\ IsFiniteSet(Attempts)
    /\ NoAttempt \notin Attempts /\ NoWorker \notin Workers
    /\ WorkerLimit \in Nat /\ PerUser \in Nat /\ DailyCap \in Nat /\ AttemptCap \in Nat
    /\ Talked \subseteq Students
    /\ LiveGrace \in Nat /\ OrphanGrace \in Nat /\ SessionCap \in Nat
    /\ LiveGrace < OrphanGrace
    /\ MaxFaults \in Nat /\ MaxEscapes \in Nat /\ MaxCrashes \in Nat /\ MaxResets \in Nat

VARIABLES
    phase,      \* how far the handler of an attempt is
    worker,     \* the process that serves it
    row,        \* its interview_sessions row
    ended,      \* the class of the code it closes with
    settled,    \* the attempts whose report has settled
    late,       \* Layer 1 writes that timed out and are still on their thread
    slots,      \* _LIMITER._by_user of each process
    opener,     \* who holds the advisory lock of a student
    talked,     \* the students that have an open conversation
    up,         \* the processes that run
    faults, escapes, crashes, resets

records == <<row, settled, late, ended>>
budgets == <<faults, escapes, crashes, resets>>
vars == <<phase, worker, records, slots, opener, talked, up, budgets>>

Holding == {"resolving", "opening", "counted", "inserting", "opened", "live", "ending", "releasing"}

Over == {"refused", "closed", "escaped", "dead"}

Phase == Holding \cup Over \cup {"new", "released"}

Terminal == {"completed", "abandoned", "failed"}

(***************************************************************************)
(* "pending" is a row that is not committed yet.  `silence' counts from    *)
(* the last heartbeat; `missed' is a history: the record was at some time  *)
(* silent for longer than the count across workers looks back.             *)
(***************************************************************************)
Row == [status : Terminal \cup {"none", "pending", "running"}, silence : 0 .. OrphanGrace + 1,
        counted : BOOLEAN, missed : BOOLEAN]

NoRow == [status |-> "none", silence |-> 0, counted |-> FALSE, missed |-> FALSE]

Init ==
    /\ phase = [a \in Attempts |-> "new"]
    /\ worker = [a \in Attempts |-> NoWorker]
    /\ row = [a \in Attempts |-> NoRow]
    /\ ended = [a \in Attempts |-> "no"]
    /\ settled = {} /\ late = {}
    /\ slots = [w \in Workers |-> [s \in Students |-> 0]]
    /\ opener = [s \in Students |-> NoAttempt]
    /\ talked = Talked
    /\ up = Workers
    /\ faults = 0 /\ escapes = 0 /\ crashes = 0 /\ resets = 0

-----------------------------------------------------------------------------
Of(s) == {a \in Attempts : StudentOf[a] = s}

GoesTo(a, p) == phase' = [phase EXCEPT ![a] = p]

Active(w) == MapThenSumSet(LAMBDA s : slots[w][s], Students)

(* A faulty variant: both limits are tested one too late. *)
RefusesLate(w, s) == Active(w) > WorkerLimit \/ slots[w][s] > PerUser

(***************************************************************************)
(* try_acquire: the worker's limit first (1013), then the student's (4012).*)
(* The test and the increment have no await between them.                  *)
(***************************************************************************)
Refuses(w, s) == Active(w) >= WorkerLimit \/ slots[w][s] >= PerUser

Connect(a, w) ==
    /\ phase[a] = "new" /\ w \in up
    /\ worker' = [worker EXCEPT ![a] = w]
    /\ \/ Refuses(w, StudentOf[a]) /\ GoesTo(a, "refused") /\ UNCHANGED slots
       \/ /\ ~Refuses(w, StudentOf[a])
          /\ slots' = [slots EXCEPT ![w][StudentOf[a]] = @ + 1]
          /\ GoesTo(a, "resolving")
    /\ UNCHANGED <<records, opener, talked, up, budgets>>

(* A faulty variant: a student's entry is popped whatever it counts. *)
FreedAll(w, s) == [slots EXCEPT ![w][s] = 0]

(* release: the count goes down, and never below zero. *)
Freed(w, s) == [slots EXCEPT ![w][s] = IF @ <= 1 THEN 0 ELSE @ - 1]

Releases(a) == slots' = Freed(worker[a], StudentOf[a])

(* A faulty variant: the transaction of a refusal is left open. *)
UnlockedNot(a) == opener

(* The advisory lock falls with the transaction of the attempt. *)
Unlocked(a) == [s \in Students |-> IF opener[s] = a THEN NoAttempt ELSE opener[s]]

(***************************************************************************)
(* The handler gives up before the interview: it rolls back, gives the     *)
(* slot back and closes the socket with the code of the refusal.           *)
(***************************************************************************)
GivesUp(a) ==
    /\ row' = [row EXCEPT ![a] = NoRow]
    /\ opener' = Unlocked(a)
    /\ Releases(a)
    /\ GoesTo(a, "refused")
    /\ UNCHANGED <<worker, ended, settled, late, talked, up>>

(* resolve_specialization, or its refusal of an unknown track (4010). *)
Resolve(a) ==
    /\ phase[a] = "resolving"
    /\ \/ GivesUp(a)
       \/ GoesTo(a, "opening") /\ UNCHANGED <<worker, records, slots, opener, talked, up>>
    /\ UNCHANGED budgets

(***************************************************************************)
(* The handler is left by an exception that no clause of it catches: the   *)
(* two queries of resolve_specialization, and the building of the engine   *)
(* (its imports are lazy), are outside of every try.                       *)
(***************************************************************************)
Escape(a) ==
    /\ phase[a] \in {"resolving", "opened"} /\ escapes < MaxEscapes
    /\ GoesTo(a, "escaped")
    /\ escapes' = escapes + 1
    /\ UNCHANGED <<worker, records, slots, opener, talked, up, faults, crashes, resets>>

-----------------------------------------------------------------------------
(* _open_records *)

(* A faulty variant: no advisory lock is taken. *)
LockIgnored(s) == TRUE

LockFree(s) == opener[s] = NoAttempt

Stored(s) == {a \in Of(s) : row[a].status \notin {"none", "pending"} /\ row[a].counted}

Completed(s) == {a \in Stored(s) : row[a].status = "completed"}

(* A faulty variant: only clean finishes count. *)
CappedCompleted(s) == Cardinality(Completed(s)) >= DailyCap

(* evaluate_caps, over the rows since the last reset. *)
Capped(s) == Cardinality(Completed(s)) >= DailyCap \/ Cardinality(Stored(s)) >= AttemptCap

(* The first reads of the transaction: no live consent (4013), or a cap (4015). *)
CountCaps(a) ==
    /\ phase[a] = "opening" /\ LockFree(StudentOf[a])
    /\ \/ GivesUp(a)
       \/ /\ ~Capped(StudentOf[a])
          /\ opener' = [opener EXCEPT ![StudentOf[a]] = a]
          /\ row' = [row EXCEPT ![a] = [NoRow EXCEPT !.status = "pending", !.counted = TRUE]]
          /\ GoesTo(a, "counted")
          /\ UNCHANGED <<worker, ended, settled, late, slots, talked, up>>
    /\ UNCHANGED budgets

(* The rows that the fleet's workers still beat. *)
LiveElsewhere(s) == {a \in Of(s) : row[a].status = "running" /\ row[a].silence <= LiveGrace}

(***************************************************************************)
(* The count across workers (4012), then convo.get_or_create.  When that   *)
(* has to create the conversation it commits, and the commit lets the      *)
(* advisory lock go before the row of the interview is inserted.           *)
(***************************************************************************)
CountLive(a) ==
    /\ phase[a] = "counted"
    /\ LET s == StudentOf[a] IN
       \/ Cardinality(LiveElsewhere(s)) >= PerUser /\ GivesUp(a)
       \/ /\ Cardinality(LiveElsewhere(s)) < PerUser
          /\ GoesTo(a, "inserting")
          /\ opener' = IF s \in talked THEN opener ELSE Unlocked(a)
          /\ talked' = talked \cup {s}
          /\ UNCHANGED <<worker, records, slots, up>>
    /\ UNCHANGED budgets

(* The row is inserted and committed. *)
Insert(a) ==
    /\ phase[a] = "inserting"
    /\ row' = [row EXCEPT ![a].status = "running"]
    /\ opener' = Unlocked(a)
    /\ GoesTo(a, "opened")
    /\ UNCHANGED <<worker, ended, settled, late, slots, talked, up, budgets>>

(* The recorder and the engine are built, and the engine runs. *)
Start(a) ==
    /\ phase[a] = "opened"
    /\ GoesTo(a, "live")
    /\ UNCHANGED <<worker, records, slots, opener, talked, up, budgets>>

(* Any exception of _open_records: 1011. *)
OpenFails(a) ==
    /\ phase[a] \in {"opening", "counted", "inserting"} /\ faults < MaxFaults
    /\ GivesUp(a)
    /\ faults' = faults + 1
    /\ UNCHANGED <<escapes, crashes, resets>>

-----------------------------------------------------------------------------
(* The interview *)

(* A faulty variant: a record is closed whatever its status. *)
ClosableAlways(a) == row[a].status # "none"

(* The predicate all the finalizers share. *)
Closable(a) == row[a].status = "running"

Closes(a, status) == row' = IF Closable(a) THEN [row EXCEPT ![a].status = status] ELSE row

(* A heartbeat is written.  One whose write fails is only logged: nothing happens. *)
Beat(a) ==
    /\ phase[a] = "live" /\ row[a].status = "running"
    /\ row' = [row EXCEPT ![a].silence = 0]
    /\ UNCHANGED <<phase, worker, ended, settled, late, slots, opener, talked, up, budgets>>

(* The report settles, with a scorecard or without one: _finish_report. *)
Settle(a) ==
    /\ phase[a] = "live"
    /\ settled' = settled \cup {a}
    /\ UNCHANGED <<phase, worker, row, ended, late, slots, opener, talked, up, budgets>>

(***************************************************************************)
(* The call ends: "gently" with 1000, 1001, idle or the session cap,       *)
(* "broken" with any other code.  Layer 1 is skipped when the engine never *)
(* opened its stream or raised.                                            *)
(***************************************************************************)
End(a) ==
    /\ phase[a] = "live"
    /\ \E kind \in {"gently", "broken"} : ended' = [ended EXCEPT ![a] = kind]
    /\ \E p \in {"ending", "releasing"} : GoesTo(a, p)
    /\ UNCHANGED <<worker, row, settled, late, slots, opener, talked, up, budgets>>

(* _finalize_session's status, and _backstop_status, which knows less. *)
Backstop(a) == IF ended[a] = "gently" THEN "abandoned" ELSE "failed"

Outcome(a) == IF a \in settled THEN "completed" ELSE Backstop(a)

Layer1(a) ==
    /\ phase[a] = "ending"
    /\ Closes(a, Outcome(a))
    /\ GoesTo(a, "releasing")
    /\ UNCHANGED <<worker, ended, settled, late, slots, opener, talked, up, budgets>>

(* The write fails, or its wait times out and the thread goes on with it. *)
Layer1Lost(a) ==
    /\ phase[a] = "ending" /\ faults < MaxFaults
    /\ faults' = faults + 1
    /\ late' \in {late, late \cup {a}}
    /\ GoesTo(a, "releasing")
    /\ UNCHANGED <<worker, row, ended, settled, slots, opener, talked, up, escapes, crashes, resets>>

LateWrite(a) ==
    /\ a \in late
    /\ late' = late \ {a}
    /\ Closes(a, Outcome(a))
    /\ UNCHANGED <<phase, worker, ended, settled, slots, opener, talked, up, budgets>>

(* The first step of _run_relay's finally. *)
Release(a) ==
    /\ phase[a] = "releasing"
    /\ Releases(a)
    /\ GoesTo(a, "released")
    /\ UNCHANGED <<worker, records, opener, talked, up, budgets>>

(* A faulty variant: the backstop looks after the calls that broke only. *)
BackstoppedBroken(a) ==
    IF Closable(a) /\ ended[a] = "broken" THEN [row EXCEPT ![a].status = Backstop(a)] ELSE row

Backstopped(a) == IF Closable(a) THEN [row EXCEPT ![a].status = Backstop(a)] ELSE row

(* Its last step, the backstop, which may fail. *)
Layer2(a) ==
    /\ phase[a] = "released"
    /\ \/ row' = Backstopped(a) /\ UNCHANGED faults
       \/ faults < MaxFaults /\ faults' = faults + 1 /\ UNCHANGED row
    /\ GoesTo(a, "closed")
    /\ UNCHANGED <<worker, ended, settled, late, slots, opener, talked, up, escapes, crashes, resets>>

-----------------------------------------------------------------------------
(* The environment *)

(* A process dies with its sockets, its threads and its open transactions. *)
Crash(w) ==
    /\ w \in up /\ crashes < MaxCrashes
    /\ LET lost == {a \in Attempts : worker[a] = w /\ phase[a] \notin Over \ {"escaped"}} IN
       /\ phase' = [a \in Attempts |-> IF a \in lost THEN "dead" ELSE phase[a]]
       /\ row' = [a \in Attempts |->
                    IF a \in lost /\ row[a].status = "pending" THEN NoRow ELSE row[a]]
       /\ late' = {a \in late : worker[a] # w}
       /\ opener' = [s \in Students |-> IF opener[s] \in lost THEN NoAttempt ELSE opener[s]]
    /\ slots' = [slots EXCEPT ![w] = [s \in Students |-> 0]]
    /\ up' = up \ {w}
    /\ crashes' = crashes + 1
    /\ UNCHANGED <<worker, ended, settled, talked, faults, escapes, resets>>

(* A faulty variant: every running row is taken for an orphan. *)
OrphansAll == {a \in Attempts : row[a].status = "running"}

(* Layer 3: finalize_orphaned_interviews. *)
Orphans == {a \in Attempts : row[a].status = "running" /\ row[a].silence > OrphanGrace}

(* A process starts, and sweeps once; a sweep that fails is only logged. *)
Boot(w) ==
    /\ w \notin up
    /\ up' = up \cup {w}
    /\ \/ /\ row' = [a \in Attempts |->
                        IF a \in Orphans THEN [row[a] EXCEPT !.status = "abandoned"] ELSE row[a]]
          /\ UNCHANGED faults
       \/ faults < MaxFaults /\ faults' = faults + 1 /\ UNCHANGED row
    /\ UNCHANGED <<phase, worker, ended, settled, late, slots, opener, talked, escapes, crashes, resets>>

Served(a) == phase[a] \in {"counted", "inserting", "opened", "live", "ending", "releasing", "released"}

Later(r) ==
    IF r.status \in {"pending", "running"} /\ r.silence <= OrphanGrace
    THEN [r EXCEPT !.silence = @ + 1, !.missed = @ \/ r.silence >= LiveGrace] ELSE r

(***************************************************************************)
(* Time passes.  Any heartbeat may be missing, all of a call's included:   *)
(* its silence ends only when the watchdog ends the call.                  *)
(***************************************************************************)
Tick ==
    /\ \A a \in Attempts : Served(a) => row[a].silence < SessionCap
    /\ row' = [a \in Attempts |-> Later(row[a])]
    /\ UNCHANGED <<phase, worker, ended, settled, late, slots, opener, talked, up, budgets>>

(* An administrator resets the caps of a student: the window starts anew. *)
ResetCaps(s) ==
    /\ resets < MaxResets
    /\ resets' = resets + 1
    /\ row' = [a \in Attempts |-> IF StudentOf[a] = s THEN [row[a] EXCEPT !.counted = FALSE] ELSE row[a]]
    /\ UNCHANGED <<phase, worker, ended, settled, late, slots, opener, talked, up, faults, escapes, crashes>>

Handle(a) ==
    \/ Resolve(a) \/ CountCaps(a) \/ CountLive(a) \/ Insert(a) \/ Start(a) \/ End(a)
    \/ Layer1(a) \/ LateWrite(a) \/ Release(a) \/ Layer2(a)

Next ==
    \/ \E a \in Attempts, w \in Workers : Connect(a, w)
    \/ \E a \in Attempts : Handle(a) \/ Beat(a) \/ Settle(a)
    \/ \E a \in Attempts : Escape(a) \/ OpenFails(a) \/ Layer1Lost(a)
    \/ \E w \in Workers : Crash(w) \/ Boot(w)
    \/ \E s \in Students : ResetCaps(s)
    \/ Tick

Spec == Init /\ [][Next]_vars

(***************************************************************************)
(* A handler that can go on does so: PostgreSQL serves the waiters of a    *)
(* lock in turn, the watchdog ends every call at its cap, and a supervisor *)
(* restarts a dead process.  Nobody has to connect, to be marked, to crash.*)
(***************************************************************************)
Fairness ==
    /\ \A a \in Attempts : WF_vars(Handle(a))
    /\ \A w \in Workers : WF_vars(Boot(w))
    /\ WF_vars(Tick)

FairSpec == Spec /\ Fairness

-----------------------------------------------------------------------------
(* Properties *)

(* The shape of the state: what is running has been let in by its worker.  *)
TypeOK ==
    /\ phase \in [Attempts -> Phase]
    /\ worker \in [Attempts -> Workers \cup {NoWorker}]
    /\ row \in [Attempts -> Row]
    /\ ended \in [Attempts -> {"no", "gently", "broken"}]
    /\ settled \subseteq Attempts /\ late \subseteq Attempts
    /\ slots \in [Workers -> [Students -> 0 .. PerUser]]
    /\ opener \in [Students -> Attempts \cup {NoAttempt}]
    /\ talked \subseteq Students /\ up \subseteq Workers

Serving(s) == {a \in Of(s) : phase[a] \in {"opened", "live"}}

(* Those that the count across workers never lost sight of. *)
Seen(s) == {a \in Of(s) : ~row[a].missed}

(* A student never has more interviews at once than the per-user limit, on *)
(* all the workers together: the limiter of one cannot see another's, and  *)
(* the count in _open_records is what it rests on.  An interview whose     *)
(* heartbeats failed for longer than that count looks back goes uncounted. *)
FleetCap == \A s \in Students : Cardinality(Serving(s) \cap Seen(s)) <= PerUser

(* The attempt ceiling bounds the rows of the window, whatever handshakes  *)
(* race for the last one and however the interviews end.                   *)
AttemptsCapped == \A s \in Students : Cardinality(Stored(s)) <= AttemptCap

(* What a limiter counts is the handlers that are on their way and those an *)
(* exception took out of the handler: no other exit keeps a slot, and none  *)
(* gives one back twice.                                                    *)
SlotsAreHeld ==
    \A w \in Workers, s \in Students :
        slots[w][s] = Cardinality({a \in Of(s) : worker[a] = w /\ phase[a] \in Holding \cup {"escaped"}})

(* While an interview is served its record says that it runs, unless it    *)
(* has been silent for longer than the grace of the sweep: no other        *)
(* attempt's finalizer closes it, and a booting worker's sweep closes a    *)
(* live one only when its heartbeats kept failing for that long            *)
(* (retention.py:finalize_orphaned_interviews).                            *)
ServedIsRunning ==
    \A s \in Students : \A a \in Serving(s) :
        row[a].status = "running" \/ row[a].silence > OrphanGrace

(* A closed record stays as it was closed, whichever of the three layers   *)
(* comes late.                                                             *)
ClosedIsFinal ==
    [][\A a \in Attempts : row[a].status \in Terminal => row'[a].status = row[a].status]_vars

(* A record whose engine came to its own finalizer is closed, even when    *)
(* one write of the closing fails or is cut off by its timeout.            *)
FinalizedRecordCloses ==
    \A a \in Attempts : phase[a] = "ending" ~> row[a].status # "running"

(* Every handshake comes to its end: no refusal, failure or crash leaves a *)
(* handler waiting for a student's lock.                                   *)
EveryHandlerEnds == \A a \in Attempts : phase[a] # "new" ~> phase[a] \in Over

=============================================================================
