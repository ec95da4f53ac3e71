# Verification of REEP

REEP is a college platform: students, mentors and an office work with notebooks,
leave requests, mock interviews, registrations and mail through a FastAPI
service (`apps/api-py/app`), PostgreSQL, SQS queues and worker processes. This
directory holds TLA+ specifications of the parts of that service whose
correctness depends on the order in which transactions, messages and processes
happen to run, the TLC configurations that check them on small instances, and
TLAPS proofs of what holds for instances of every size.

All paths below are relative to `apps/api-py/app` unless they begin with `docs/`.

## 1. The system

| Part | State it keeps | Operations | What makes it hard |
|---|---|---|---|
| Transactional outbox and relay (`workers/outbox_relay.py`, `workers/leasing.py`, `architecture_events.py`) | rows of `redesign_outbox_events`: status, attempts, lease, `available_at`, `dead_at` | `record_change` inserts with the change it announces; `relay_once` claims a batch, publishes, records each row | several relays, SKIP LOCKED, a batch claim and per-row commits in one session, leases that run out, a transport that refuses, a relay that dies between publish and commit |
| Domain job workers (`workers/domain_worker.py`, `workers/leasing.py`, `worker.py`) | rows of `redesign_domain_jobs`, the SQS queue | receive, claim, run the handler, `complete_job` / `retry_job`, delete the message | repeated and late messages, handlers that commit in the worker's own session, leases, redrive policy |
| Notebook commands and idempotency keys (`routers/redesign.py`, `architecture_events.py`) | notebook entries, revisions, audit rows, `api_idempotency_keys` | create, update, publish, archive, attach; `replay_or_reserve`, `store_response` | a client's retry racing the first attempt, optimistic versions, two lock orders, expiry of keys |
| Mock interviews (`routers/interview.py`, `interview_core.py`, `interview_nova.py`, `interview_policy.py`, `retention.py`) | slots per process, an advisory lock per student, `interview_sessions`, conversations | handshake, caps, record, heartbeats, three layers that close a record, orphan sweep at boot | count-then-insert across processes, cancelled tasks whose thread goes on, crashes, timeouts |
| Leave requests (`routers/leave.py`, `routers/leave_alternate.py`, `leave_policy.py`, `leave_mail.py`) | `leave_requests` with the table of colleagues who cover, audit rows, the mail log | submit, withdraw, decide, revoke, reopen, mail; assign and accept an alternate | all but one endpoint read without a lock; legacy rows with two signatures; dedupe keys; a table that is written back whole |
| Registration (`routers/registration.py`, `registration_documents.py`, `grant_access.py`) | `registrations`, users, students, documents | submit in two transactions, rules, decide, hold, reopen, correct, replace a document, invite | a rule applied to a row read without a lock; provisioning that refuses half way; retries; unique indexes that only a commit meets |
| Sessions (`security.py`, `identity.py`, `routers/auth.py`, `routers/passwords.py`, `routers/admin_faculty.py`) | `users.token_version`, a cache in each worker, cookies | sign in, check, log out, revoke, disable, remove | stale caches, a read outside the lock, updates lost between loads and commits, a database that cannot be asked |
| Links and codes (`account_links.py`, `routers/onboarding.py`, `routers/passwords.py`, `routers/auth.py`) | `auth_tokens` | issue, peek, consume, retire; activation, onboarding, reset, sign-in and change codes | a token found alive by one statement and spent by another; resends that overlap; requests that fail after the spending |
| Interview consent, policy, recording (`interview_policy.py`, `routers/interview_records.py`, `interview_audio.py`) | acknowledgements, policies, pinned grants | grant, supersede, pin at open, check at each heartbeat | a consent that changes while a call runs |
| Interview engines (`interview_nova.py`, `interview_local.py`) | phase of a call, turns, report | stream events, deadline, wrap-up | model stream against deadline against hang-up |
| Embedding worker (`workers/embedding_worker.py`) | `knowledge_chunk_embeddings` | claim, embed, record | a transaction begun by reading an expired row |
| Mail (`mailer.py`, `mail_transport.py`) | `mail_logs` | `deliver_once` | a unique key, a driver and two commits |
| Voice platform (`voice_platform/`) | calls, chunks, projections, SQS | media bridge, close, store and acknowledge | close called by several parties, redelivery |
| Governance, retention, assistant, consoles, portal, web client, migrations | see `PROJECT.json` | | mostly single-transaction edits and reads |

The parts meet in few places. Every command that matters writes its audit and
outbox row in its own transaction (`record_change`), so the relay sees a change
exactly if it was committed. The relay hands messages to queues whose consumers
are the domain workers. Routers and workers share nothing but PostgreSQL, except
that a process keeps its interview slots in memory. Transactions run at READ
COMMITTED: an unlocked read followed by an UPDATE that names only the id is the
pattern behind most of what section 6 reports.

What makes each part correct:

* **Outbox.** Table and relays together are an at-least-once outbox: what is
  recorded as delivered was published, a row is dead only after its budget and
  stays dead, tries are counted and not taken back. No row is in two open
  claims, a running lease is not taken over, and every row is settled in the end.
* **Jobs.** A job that succeeded had its effects committed, it fails only after
  its budget, and an unfinished job has a message left.
* **Commands.** Once per key, replays that are true, updates that follow the
  version they were written against, a trail without gaps, students who see
  what was published and no more, archived entries that stay as they are.
* **Interviews.** Limits per process, per student over all processes, and per
  window; slots that come back; a record that is running while it is served and
  heard of, closed once, and closed in the end.
* **Leave.** A decision with a signature, a trail that holds every change, an
  applicant who has been told what stands, and no colleague who is said to cover
  without having agreed.
* **Registration.** An approved application has its account and its seat, no
  step of the queue seats a member of staff, a file belongs to one row, a retry is
  answered with its own application, an invitation opens a door, and there is no
  student account that nobody approved.
* **Sessions.** A revocation reaches every worker within the time to live of its
  cache and the time of a handler; as long as the account has a row, a cookie
  that is admitted had not been counted past for longer than that; an account
  that is barred or deleted is given no new cookie.
* **Links and codes.** A token works once, is spent for what was done with it,
  and is dead when its successor is out, unless their requests overlapped.

## 2. Modules

| Module | Models | Checked with | Proofs |
|---|---|---|---|
| `OutboxRelay` | outbox, claims, relay | `MCOutboxRelay` | `OutboxRelay_proofs` |
| `AtLeastOnce` | what an outbox promises | through `OutboxRelay` | `OutboxRelay_proofs` |
| `DomainWorker` | job consumers and their queue | `MCDomainWorker` | `DomainWorker_proofs` |
| `ClaimedJobs` | what the consumers of job notifications promise together | through `DomainWorker` | `DomainWorker_proofs` |
| `NotebookCommands` | idempotent commands on notebook entries | `MCNotebookCommands` | `NotebookCommands_proofs` |
| `KeyedCommands` | what those commands promise their clients | through `NotebookCommands` | `NotebookCommands_proofs` |
| `InterviewSessions` | an interview from handshake to closed record | `MCInterviewSessions` | `InterviewSessions_proofs` |
| `LeaveRequests` | leave requests, their mails and their alternates | `MCLeaveRequests` | `LeaveRequests_proofs` |
| `Registrations` | an application, its rule and its reviewers, the account it leads to | `MCRegistrations` | `Registrations_proofs` |
| `Sessions` | cookies, revocation and the caches of the workers | `MCSessions` | `Sessions_proofs` |
| `AccountLinks` | one-time links and codes | `MCAccountLinks` | `AccountLinks_proofs` |

In all of them one action is what one transaction, or the code between two
awaits, does. Where the code reads without a lock and writes later, the read and
the write are two actions and the process carries the copy it read (`view`,
`seen`). Where it holds a lock from read to commit, the lock is a variable and
the second reader's action is disabled. An UPDATE changes the columns it names
in the row as it is then, not in the copy. `map` in `PROJECT.json` names the
lines behind each definition.

**OutboxRelay.** `rows` is the table with committed values, `relay[r]` a process
with its batch, the copy of the current row, its token (the attempt it counted)
and `open`, which says that its claim is only flushed. `Poll` is
`claim_outbox`; `Load`, `Publish`, `RecordDelivered` and the failure actions are the body
of the loop. `before` is the order in which `available_at` sorts the rows.
Leases and backoffs are counted down by `Tick`. The variable `published` is the
queue service's memory. `Ledger == INSTANCE AtLeastOnce` maps the table to the
abstract outbox: what the queue has accepted, the `Outcome` of a row (due,
delivered or dead, dead whatever its status says) and its `Tries`, which count an
attempt when its transaction commits. A claim that is rolled back is a step the
abstract outbox does not see; a batch whose first outcome is committed counts a
try for every row in it. `KeepsTheLedger` is that specification; the transport accepts every message but those of
`Poison`, which stand for messages it always refuses, and may fail once in a
while for the others.

**DomainWorker.** `queue` is SQS as the code relies on it: a received message is
invisible, reappears, and moves to the dead-letter queue after `MaxReceives`
receives. The session's state is kept because it matters: reading `job.job_type`
after the claim's commit begins a transaction, and a `with db.begin()` in a
session that has one raises. `available_at` is left out: nothing that runs
reads it. `effects` records which claims' handlers committed
their writes. `Agreement == INSTANCE ClaimedJobs` maps workers and queue to numbered
claims: the claims of a job are its attempts, the claims at work those some worker
has in hand (`Held`), its `Verdict` what was reported last. `KeepsTheAgreement` is
that specification. It promises less than `AtLeastOnce` does of the outbox: a
claim that was taken over and reports late is believed, so a verdict is not final.

**NotebookCommands.** `Reserve` is `replay_or_reserve` (a row lock on the key or
the wait of a second inserter on the unique constraint), `Admit` the lock on the
entry and the checks, `Apply`/`Create`/`Attach`/`CreateAction` the change, its audit and outbox
rows, `store_response` and the commit; an action is a command about a student
and needs no entry. `changes` is the set of committed audit
rows. A refusal rolls back everything, the key included.
`Promise == INSTANCE KeyedCommands` forgets locks, reservations and stored
responses: `changes` is its ledger, `Life` counts how often a key was forgotten,
`Told` is what a client has been answered. `KeepsThePromise` is that
specification: a command is one step on the entry as it is then. To attach a file
is the exception, for its entry may be archived between the look and the insert.

**InterviewSessions.** `phase[a]` follows the handler of one WebSocket: slot,
track, caps, live count, insert, start, end, the writes of the closing layers,
release. `slots` is the limiter of each process, `opener` the advisory lock,
`row` the record with the silence of its heartbeat. `Layer1`, `Layer2` and
`Boot` are the engine's finalizer, the router's `finally` and the sweep of a
starting process; `LateWrite` is the thread of a finalizer whose task was
cancelled. `Escape` is an exception between the slot and the `try` that frees
it. A heartbeat may fail, at any time and for the whole call: `Tick` lets a served
record be silent up to `SessionCap`, where the watchdog ends the call, and so past
`LiveGrace`, after which the count over all workers overlooks it, and past
`OrphanGrace`, after which the sweep takes it for an orphan. `missed` is the
history of the first.

**LeaveRequests.** `Admit` reads and checks, `Commit` writes and commits,
`Notify` refreshes the row and mails. Only `change_decision` locks. `Decided`
signs the slot that the status *as read* calls for, in the row *as it is*.
`Assign` and `Accept` copy the table of alternates and change their lines in the
copy; `WriteTable` puts the copy back, whatever the table is by then. A call that
has recorded an acceptance stays as the evidence of it (`arranged`).

**Registrations.** `Submit`, `Save`, `Refresh` and `ApplyRule` are the stages of
`submit`, `Open` what a reviewer's or the applicant's endpoint does under its
row lock, `Commit` the end of either, `Mail` what follows. `call[c].mint` and
`call[c].seat` are the users and students rows that the open transaction has
inserted; `InsertsAllowed` and `OneLiveEach` are the unique indexes, which let a
commit through or leave the request no step but `Abort`. `Refused` and `Mints` follow
`_provision_student` in its order: the user is inserted before the USN is asked.
`Grant` is an administrator who makes a staff account meanwhile.

**Sessions.** `Arrive`, `Ask`, `Learn` are `account_state` with its two locked
sections and the SELECT between them; `Load`, `Commit`, `Refresh`, `Note` are the
load, the UPDATE, the reading after the commit and `note_revocation` of every handler that counts
`token_version` up, and of a permanent deletion, after which the row is `Gone`: a
later SELECT finds version 0 and no bar, while the worker of the deletion notes
`PastAll`. `behind` and `barredFor` are histories: for how long there has been no
row that had not counted past each version, and none without a bar. `behind` is about
versions only; a bar matters to it through the version that comes with it. `Lag` bounds the time of a handler from
its load to its last step; the code states no such bound, and what it says of revocation
is true only up to it.

**AccountLinks.** A request reads (`Begin`), spends a token by an UPDATE whose
WHERE clause asks again (`Spend`), commits a code at once where the code does
(`CommitSpent`), begins the statement that retires other tokens on the rows it
sees then (`Look`), and commits when it has had the locks it waits for
(`Finish`). `effects` records what was done on the strength of which token.

## 3. Runs

`tlc -config X.cfg M` with the module and configuration below.

| Run | Configuration | Shows |
|---|---|---|
| `outbox` | `OutboxRelay.cfg` | two relays, one that may die, a sound row and an unroutable one in shared batches: running leases are respected, table and relays implement `AtLeastOnce`, and with fair relays every row is settled for good |
| `domain` | `DomainWorker.cfg` | two workers, one that may die, three notifications in batches of two (of a job, of a job without handler, of no job), each received up to twice: workers and queue implement `ClaimedJobs`, and a success is earned |
| `notebook_edits` | `NotebookEdits.cfg` | seven requests on one entry with rival updates, a replay, a publication, an archival, an attachment, and one expiry: replays are true, updates follow their version, students see what was published |
| `notebook_retries` | `NotebookMix.cfg` | a create sent twice, an action, requests that are out of scope, an update: the commands implement `KeyedCommands`, and everybody is answered |
| `interview_opening` | `InterviewOpening.cfg` | three handshakes of a student on two processes, a crash, a boot, a reset of the caps: heartbeats that fail for as long as a call may last: the limits hold for a student with an open conversation, and a served record is running unless it was silent past the sweep's grace |
| `interview_closing` | `InterviewClosing.cfg` | two interviews at once, an exception that escapes, a write that fails or comes late: slots equal the handlers that hold them, closed records stay, finalized records close, handlers end |
| `leave` | `LeaveRequests.cfg` | a legacy row and one whose days touch, a line of its table and two colleagues, five calls: signatures go with outcomes, the trail and the mails are right, agreements are their colleagues' own |
| `registration` | `Registrations.cfg` | four requests, two applications, three forms of which two share an address and two a USN: approved means seated, staff keep out, files have one owner, retries get their own answer, invitations open a door |
| `sessions` | `Sessions.cfg` | two workers, three requests that overlap among sign-ins, a change of password, disabling, enabling and permanent deletion, one failing read or commit: revocation, admission and new cookies in time |
| `account_links` | `AccountLinks.cfg` | any three requests on an account with two tokens out: tokens work once, are spent for their effect, and are superseded |
| `domain_unfinished`, `registration_unapproved` | `DomainWorkerUnfinished.cfg`, `RegistrationsClash.cfg` | one property each that a document states and the code does not keep; each ends in a counterexample (section 6) |

**Bounds.** Rows, relays, workers, requests and calls are finite sets of model
values, two or three each, which is what it takes for every pair of roles to
meet with a third in between: a claim that is stolen needs two relays, a stale
write over a reopened legacy row four calls, and a sanction, its revocation, the
reopening and a second sanction with one call across them five. `MaxAttempts = 2` distinguishes the
first failure from the last. Leases of one or two ticks can run out between any
two steps of their holder, and longer ones only delay that. `MaxCrashes`,
`MaxFaults`, `MaxEscapes`, `MaxResets` and `MaxExpiries` bound the environment;
one of each is enough for each property's counterexamples to appear when the
code is changed. The outbox has two rows because what matters about a batch is that a second row
follows a first whose outcome commits or undoes the claim of both. The opening of
interviews is checked with one interview and one attempt allowed per student and
three that try; the reset of the caps sets old attempts aside, so that the limit over
processes binds where the ceiling of attempts does not. `LiveGrace = 1`,
`OrphanGrace = 2` and `SessionCap = 3` let a silent record pass both graces. Their
closing is checked with two allowed at once, so that a limiter counts above one,
and with `SessionCap = 1`, since no worker boots there and time plays no part.
The interviews use one student because nothing in them couples
two: locks, counts and limits are per student, but for the limit of a process,
which is set at or above what one student may use. `Sessions` needs three requests for an update to be lost and found again, and its
clock three ticks: with `TTL = Lag = 1` a cookie that is admitted on evidence older than
that needs a third. `AccountLinks` has one account because every statement names
one user; it begins with tokens already out, so that three requests suffice for
a resend, a click on the old link and a third that runs into both. The one token that
may be out of its time (`MaxExpired`) meets each of them. Two applications
and four requests let a registration be retried, decided and have its CV
replaced while another application claims its address or its USN.
Symmetry is used in safety
runs only, on sets whose members the specification does not tell apart.
Deadlock is not checked where a system of finitely many requests comes to rest.

**Fairness.** Relays, workers and handlers are loops of processes that a
supervisor restarts, so a step that stays possible is taken (weak fairness of
each process). Crashes, escapes, refusals and losses are never required. Time
passes. For the outbox, a publish that is tried again and again succeeds unless
the message is one that is always refused, and the skipping of locked rows does
not starve a row for ever; for the commands, PostgreSQL wakes the waiters of a
lock; for interviews, the watchdog ends every call.

## 4. Proofs

TLAPS proves the following for every value of the constants that satisfies the
assumptions of the module.

* `OutboxRelay_proofs`: `RelayInv` is inductive; from it type correctness,
  `DeliveredWasPublished`, `DeadOnlyAfterBudget`, `OpenClaimsDisjoint`,
  `NoLiveLeaseStolen`, `DeadIsFinal`, and the refinement `KeepsTheLedger`: every
  step of a relay is a step of `AtLeastOnce` or leaves it unchanged. The safety properties are not inductive as
  they stand. What a relay records comes from a copy of the row, so the
  invariant says that a copy never claims more attempts than the row it will be
  written to (`ViewsNotAhead`), and that the rows of an open claim are as the
  claim found them (`OpenClaimsUndisturbed`). The second is what SKIP LOCKED
  buys: nobody can write those rows, so committing the claim takes over no
  lease.
* `DomainWorker_proofs`: `DomainInv` is inductive; from it `TypeOK`,
  `SucceededAfterEffects` and that a job fails only after its budget
  (`FailedOnlyAfterBudget`). Claims are counted and never
  uncounted, so whatever a worker records, however late, speaks of a claim of its
  own that the row has counted (`ClaimsCounted`, `ViewsOfTheClaim`); a worker that
  means to record a success has its handler's writes committed
  (`SuccessIsCommitted`); and a visible message has receives left
  (`VisibleMayBeReceived`). The refinement `KeepsTheAgreement` needs `HeldInv` on
  top of it: what workers have in hand are claims that their rows have counted
  (`HeldAreCounted`), no two have the same (`HeldApart`), and only a worker
  between two messages has writes left in its session (`OnlyNextIsDirty`), so that
  they go out with its next claim or not at all.
* `NotebookCommands_proofs`: `CommandsInv` is inductive; from it that a command
  is carried out once in each life of its key (`OncePerKey`), and
  `SuccessIsReal`, `UpdatesFollowTheirVersion`, `ArchivedIsFinal`.
  It adds that a request under way holds its key and, once admitted, its entry
  (`KeyHeld`, `EntryHeld`), that a stored response belongs to a change that was
  made (`StoredIsMade`), and that a change of the present life of a key is the
  one whose response is stored (`MadeIsStored`). `SeenAsPublished` follows from
  `TrailTells`, inductive on top of it: the kinds of changes made to an entry
  determine its status as far as a student can tell. The refinement
  `KeepsThePromise` needs `PromiseInv`: a request on its way was told nothing yet,
  it may do what it is about to do, and a stored response is that of a change in
  the present life of its key. `LocksHaveHolders` says that no lock outlives its
  request, and `NoDeadlock` that no waiting requests form a circle, of any length: every
  command locks its key first and its entry second.
* `LeaveRequests_proofs`: `LeaveInv` is inductive; from it
  `AuditCountsChanges`, `BeforeImageIsTrue`, `PendingUnsigned`,
  `SignedOutcome`, `AgreementIsOwn`. It adds that an admitted change holds the row's lock and an
  exact copy of it (`ChangeHoldsRow`) - the other endpoints must wait for the
  lock although they do not take it -, that a row comes to be by one
  submission only (`RowsAppearOnce`), and that a table of alternates on its way
  to the row holds no agreement but recorded ones and its caller's own
  (`AgreementsUnderWay`): old copies may lose an agreement, they cannot make one.
  `ToldOfOutcome` follows from `MailInv` on top of it: whoever writes an outcome
  has a mail to send afterwards (`ToldOrPending`), and a key that is found used was
  used for the same news (`KeysTell`), because a revision is the work of one
  change, which its audit row names (`ChangesAreTracked`, `OneMaker`).
* `InterviewSessions_proofs` goes step by step. `PhasesInv` says that a handler
  and its record agree (`Agrees`): no row before the caps are counted, one in the
  open transaction until it is inserted, running while it is served unless it was
  silent past the sweep's grace, and a late write only of a handler past its call.
  From it `TypeOK`, `ClosedIsFinal` and `ServedIsRunning`: of all that may end, die or
  write late, only the sweep of a booting worker closes a record that is served, and
  only one whose heartbeats have failed that long. `ServedRunWithinCap` adds that it
  never happens if `SessionCap <= OrphanGrace`. That is so for a Nova interview,
  whose wall of eight minutes is below the grace of twenty
  (`interview_nova.py:2147`, `config.py:916`), and not for the local engine under a
  policy that allows up to an hour (`interview_local.py:424`,
  `models/interview_policy.py:110`).
  `SlotsAreHeld` is inductive on top of it.
  `CapsInv` says that who has counted holds the student's lock (`LocksHeld`), and
  that the rows and the handlers that may still insert one stay within the ceiling
  (`CapsRoom`). The lock is let go early in a student's first talk (section 6), and
  at most one attempt goes astray by it: `CeilingNearlyHolds` is the ceiling plus
  that one, `AttemptsCapped` its corollary for `Talked = Students`. `FleetRoom`
  bounds in the same way those who are served and those about to be, as far as the
  count has never lost sight of them (`Seen`: no silence past `LiveGrace`); it gives
  `FleetIsNearlyCapped` and, as a corollary for `Talked = Students`, `FleetCap`.
  `ForgottenInv` counts the records that a handler past all its layers has left
  running: no more than writes failed (`BackstopHolds`). It is what `DailyInv`
  needs: while the lock is free, whoever may still complete has completed, is being
  served or was forgotten, so the daily ceiling is passed by the
  limit per student at most, and by one for a first talk and for each
  failed write (`DailyCapNearlyHolds`, again of the interviews in `Seen`).
  `LocksAreLetGo` says that the holder of a student's lock is an attempt about to
  count or to insert; with `BackstopHolds` it is the safety side of the two
  liveness properties below.
* `Registrations_proofs`: `RegistrationsInv` is inductive; from it `TypeOK`,
  `ApprovedIsSeated`, `StaffKeepOut`, `FilesOwnedOnce`, `AnsweredWithOwn`,
  `InvitedCanSignIn`. A rule works on a copy that was read without a lock, and a
  reviewer on accounts nobody locks, so the invariant says what of a copy lasts: a
  row keeps its form, a seat and a student account are for ever (`ViewOfApp`,
  `SeatIsAccount`), an approval finds its account or brings it (`Provides`), and
  the unique indexes refuse it if somebody else was first. A seat says more than a
  status: a row that was approved and is rejected later keeps its account.
  `SeatsAreKept` is the action property behind that: no step touches an
  account that has a seat, nor the form of an application that gave one.
* `Sessions_proofs`: `SessionsInv` is inductive; from it `RevocationReaches`,
  `AdmittedOnEvidence` and `NoCookieLongAfterBar`. `RevocationReaches` alone is
  not inductive, since a reading that is on its way to the cache may be older
  than what it replaces. What saves it is that the deadline of an entry counts
  from before the SELECT: an old reading carries a deadline as old
  (`ReadsNotOlder`), and the histories are exact (`HistoriesExact`). The one entry
  that `RevocationReaches` excepts is the answer that there is no row, and
  `AdmittedOnEvidence` is stated for as long as there is one: of the cookies of a
  deleted account the code promises nothing (section 6). `NoCookieLongAfterBar` is
  about handing a cookie out, one with a new version or with a version that
  exists, for an account barred or deleted. The theorems hold for every time to live and every `Lag`, and updates that are lost do not
  matter to them, since they speak of the row as it is.
* `AccountLinks_proofs`: `LinksInv` is inductive; from it `TypeOK`, `OneEffect`,
  `SpentForItsEffect`, `Superseded`. It adds that a token whose row a request
  holds is unspent and held by nobody else (`LocksHold`), that a code committed
  ahead of its effect is spent and has had no effect yet (`SpentAhead`), and that a
  token is there only once the request it is named after has committed
  (`IssuedAtCommit`). So a statement that retires tokens finds each of them dead or
  its own to write by the time it commits. `DeadTokensStay` is an action property:
  a token that was used or retired keeps its row, none changes its purpose, and one
  out of its time is never live again.

Each of these modules also has its type invariant as a theorem. The inductive
invariants themselves are the theorems `Invariance`, `CommandsCorrect`,
`LeavesCorrect`, `DomainInvTheorem`, `PhasesInvTheorem`, `RegistrationsInvTheorem`,
`SessionsInvTheorem` and `LinksInvTheorem`. Some theorems are about more
than a run is kept for: `ClaimsExclusive`, `DeliveredMeansPublished`,
`DeadMeansSpent`, `DeadForGood`, `BudgetIsGiven`, `CarriedOutOnce`, `ArchivedStays`,
`LocksHaveHolders`, `NoDeadlock`, `TrailHoldsWhatWasUndone`, `ReopenedIsClean`,
`ServedRunWithinCap`, `CeilingNearlyHolds`, `FleetIsNearlyCapped`, `BackstopHolds`,
`DailyCapNearlyHolds`, `LocksAreLetGo`, `SeatsAreKept`, `DeadTokensStay`.

Assumptions are named `ConstantsAssumption` in each module (and `KeyNamesRoute`
in `NotebookCommands`: requests with one key are for one route, since the route
is part of the key). TLC evaluates them in every run.

Only model-checked: liveness (`EventuallySettled`, `EveryRequestAnswered`,
`EveryHandlerEnds`, `FinalizedRecordCloses`), since TLAPS does not reason about
fairness or ENABLED here. Every invariant and every refinement a run checks is
proved.

## 5. What is left out, and why

* Formats, texts, hashes and identifiers: a message is a model value, a token is
  the number of the claim that drew it, equal request hashes are equal commands.
* Who may do what: a gate may refuse any call.
* In `InterviewSessions`: rehearsals, which open no record; the consent gate, a
  refusal that may happen; the 24-hour window, of which only the reset is
  modelled; the conversation between student and engine.
* `claim_jobs` and `heartbeat_job`, which nothing calls.
* In `LeaveRequests`: the balance of days (a number the office edits by hand),
  attachments, the mails to approvers and colleagues.
* In `Registrations`: the academic claim and the seat it leads to, the editing of
  rules, the photo (it goes the way of the CV), the promotion of an account that
  exists, the mail to a rejected applicant.
* In `Sessions`: passwords and the Google flow, which admit whom they like; the
  twelve hours after which a cookie ends by itself; attempt limits.
* In `AccountLinks`: `delete_code`, which does to an administrator's own account
  what a change code does; the sweep of dead codes; attempt limits; the lock on
  the users row, whose deadlocks end a request as `Abort` does; the sign-in that
  follows an activation, which is in `Sessions`.
* Whole parts: see `PROJECT.json`, each with its reason.

## 6. What the checks found

| Run | The code | What is said of it |
|---|---|---|
| `domain_unfinished` | the message of a job that was put back to QUEUED is deleted, and so is a duplicate that comes while the first delivery is worked on; nothing looks for queued jobs | "retry with bounded backoff", "duplicate delivery is expected and must be harmless" (`docs/phase4-staging-runbook.md:84`) |
| `registration_unapproved` | a refusal of provisioning is caught after the user was inserted, and committed with the queued application | such an application "lands in the review queue ... which is where a human decision belongs" (`routers/registration.py:2499`); `decide` is "the ONLY path that mints a student account" (`:2599`) |

The modules contain the steps of the following as well; no run is kept for them.

*Outbox and jobs*

* A refused first row of a batch loses its attempt with the rollback and is tried
  for ever; the rows behind it lose their claim and are published again at each
  poll (`workers/outbox_relay.py:56`; "attempt counter and dead-letter",
  `docs/postgres-senior-checklist.md:444`; "each row is committed independently",
  `workers/outbox_relay.py:25`).
* The first message of a batch is published while the claim is uncommitted, and
  a relay or worker checks its lease on a copy that may be old: the runbook's
  "commit the claim before external work" and "complete only with the active
  lease" are not what the code does (`workers/outbox_relay.py:50`,
  `workers/domain_worker.py:76`). What nevertheless holds of the outcomes is
  `RelayInv` and the properties of `domain`.
* A claim of a job does not look at `available_at` (`workers/domain_worker.py:41`).

*Interviews*

* `get_or_create` commits inside the advisory lock of a student's first talk and
  so gives the lock up before the attempt is inserted (`routers/interview.py:1900`,
  against `:1819`). The ceiling of attempts and the limit over all workers can be passed by
  one then, and by no more (`CeilingNearlyHolds`, `FleetIsNearlyCapped`). The runs
  are for a student with an open conversation.
* A heartbeat that cannot be written is only logged (`interview_nova.py:2394`). A
  worker that boots abandons a record silent for more than twenty minutes although
  its interview is going on, which `retention.py:549` states and accepts; the
  verdict of the call comes too late then, for the record is closed. Only a call
  that may last longer can meet it, which is one of the local engine under a long
  policy limit. `ServedIsRunning` says that nothing else closes a served record.
* The count over all workers overlooks a record silent for more than three minutes
  (`routers/interview.py:1884`), so a student whose heartbeats fail may open one
  more interview on another worker; `FleetCap` and `DailyCapNearlyHolds` are
  about the others.
* Completed interviews are counted at the open, when rivals still run, so a
  student can pass the daily ceiling by as many as may run at once
  (`interview_policy.py:301`); `DailyCapNearlyHolds` says that it is no worse.
* An exception of `resolve_specialization` leaves the handler with its slot
  taken until the process ends (`routers/interview.py:1387`): `SlotsAreHeld` names
  this exit and excludes any other.
* A finalizer that is cut off goes on in its thread, so the backstop is not last
  (`interview_nova.py:2367`); `ClosedIsFinal` holds all the same, but an interview
  whose report settled may be recorded as abandoned.
* The orphan sweep runs at boot only and finds a record too young when the
  process was restarted at once (`retention.py:560`), so not every record closes.
  A handler that runs to its end leaves one open only where a write failed
  (`BackstopHolds`).

*Leave*

* A second decision, or a withdrawal, writes over a decision
  (`routers/leave.py:646`, `:445`, against `:411` and `:710`), and two submissions that
  overlap pass the overlap rule together (`:358`, against `:807`).
* A slow decision on a legacy row can sign the second slot after the row was
  reopened, and the paper then prints a signer who decided otherwise
  (`routers/leave.py:672`).
* Two acceptances, or an acceptance and an assignment, that overlap lose one of
  the agreements, although "an acceptance already recorded is left exactly as it
  was" (`routers/leave_alternate.py:349`), and an acceptance may land on a request that has been
  revoked since it was read.

*Registration*

* A rule is applied to a row read without a lock: it writes its outcome over a
  reviewer's decision (`routers/registration.py:2045`), and may send an approved
  application back to the queue. The seat stays (`SeatsAreKept`).
* An application that a rule approved can be rejected while its account stays,
  and `reopen` does not ask whether its address has applied again; the unique
  index then refuses the commit.
* `attach_document` unlinks the bytes of the old file before it commits
  (`routers/registration.py:2773`), so a failed commit leaves a row whose file is gone.

*Sessions, links and codes*

* Two revocations that overlap count one version, and the later commit of an
  older copy can set the number back: a cookie can be ahead of its row, which
  `security.py:303` says cannot happen, and a version that was retired is good
  again. `RevocationReaches` is therefore stated of the row as it is.
* Two sign-ins that overlap leave two live sessions (`routers/auth.py:663`,
  "exactly ONE live session").
* `note_revocation` is told `disabled=False` by sign-ins and resets that began
  before the account was disabled (`security.py:243`), so their worker admits for
  one more time to live.
* Once an account is deleted for good, every cookie of it is admitted again, also
  one that had been revoked, on each worker as soon as what it has cached runs
  out: a row that has vanished reads as version 0 and not disabled
  (`security.py:207`), although the deletion notes version 10**9 and disabled on
  its own worker (`routers/admin_deletion.py:474`). The comment there leaves it to "the deps that do
  authorisation"; those of `identity.py` do not look for the row. `RevocationReaches` names the exception, `AdmittedOnEvidence` is silent
  on deleted accounts.
* A removed account that is signed out everywhere is noted by `disabled_at` alone
  (`routers/admin_faculty.py:913`), and an enabling may be noted after a removal; the
  version that was counted up keeps the old cookies out, the bar does not. No
  property claims more than the version does.
* "During the backoff the check simply admits" (`security.py:92`): the code
  refuses, and that is what `AdmittedOnEvidence` needs.
* Google's door hands out its cookie although the commit of the version failed.
* Two requests for a link or code that overlap leave two alive ("only the newest works",
  "at most one exists", `account_links.py:288`). With two activation links the
  second overwrites the password the first has set; two resets can end in a
  deadlock that PostgreSQL breaks.
* A second onboarding step that saw the invitation before the third committed
  hands out another ticket ("a link that reached step 3 cannot be walked again",
  `routers/onboarding.py:223`); what the ticket does, it does once (`OneEffect`).
* The background half of `forgot` can issue a link after an account was disabled
  and all its links were revoked: the "loaded gun" of `account_links.py:157`.

*Parts without a module yet*

* The embedding worker reads an expired row after its commit; that begins a
  transaction, the following `db.begin()` raises, and no outcome is ever recorded
  (`workers/embedding_worker.py:77`).
* `mailer.py:87` rolls back what its caller had pending, and `:92` sends before
  the row that reserves the key is committed.

## 7. Plan

In the order of what it would cost the college to have it wrong.

1. `MailLog` (`deliver_once`): the unique key, a driver that fails, a process
   that dies, a caller whose pending rows a rollback drops. Abstract
   specification: at most one message for each key; `LeaveRequests` then uses it
   in place of its own set of mails.
2. `InterviewConsent`: acknowledgements, the policies they copy, the grant a call
   is pinned to, the heartbeat that ends it; composed with `InterviewSessions`
   through the open and the close of a record.
3. `EmbeddingWorker`: a claim that is committed, and the later transactions of one
   delivery; its promise is that an embedding is recorded.
4. `PlatformCalls`: the close of a call by its parties, the recording and the
   projection consumer with redelivery.
5. The composition of `AtLeastOnce` and `ClaimedJobs`: from a recorded change to
   one effect at least, where the code keeps it.
6. `GovernanceGrants`, `InterviewPhases`, the academic claim of `Registrations`.

For each: a type invariant, the properties its hazards in `PROJECT.json` ask for,
a run with two or three of everything, and a proof of the safety properties with
no RECURSIVE operator in the module.
