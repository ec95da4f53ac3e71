------------------------------ MODULE OutboxRelay ------------------------------
(***************************************************************************)
(* The transactional outbox and the relays that publish it to the queue    *)
(* (apps/api-py/app/workers/outbox_relay.py and leasing.py).               *)
(*                                                                         *)
(* A command handler inserts an outbox row in its own transaction          *)
(* (record_change).  Every relay process polls the table: it claims a      *)
(* batch with SELECT ... FOR UPDATE SKIP LOCKED, and then handles the      *)
(* rows of the batch one by one, a commit or a rollback after each.  The   *)
(* claim is only flushed, so until the first of those commits the other    *)
(* sessions see the rows unclaimed, but locked; a rollback undoes the      *)
(* claim of the whole batch.                                               *)
(*                                                                         *)
(* Time is relative: `wait' is how many ticks remain until available_at,   *)
(* `lease' how many until lease_until, and Tick takes one off each.  The   *)
(* lease token is left out: relay_once reads the token it compares from    *)
(* the very row it compares it with, so that half of the check never       *)
(* fails.                                                                  *)
(***************************************************************************)
EXTENDS Naturals, Sequences, FiniteSets

CONSTANTS
    Events,       \* the outbox rows that commands may record
    Relays,       \* relay processes; each keeps its REEP_WORKER_ID over a restart
    Routable,     \* the rows whose routing key is in the relay's queue_map
    Poison,       \* the routable rows the transport rejects every time
    MaxAttempts,  \* the column max_attempts (8 in production)
    LeaseTicks,   \* lease_seconds, in ticks
    Backoff,      \* ticks until a row that failed its n-th attempt is available
    Limit,        \* the size of a batch
    MaxCrashes,   \* bound: how often relay processes die in one behaviour
    Nobody        \* a NULL lease_owner

ASSUME ConstantsAssumption ==
    /\ Routable \subseteq Events
    /\ Poison \subseteq Routable
    /\ MaxAttempts \in Nat \ {0}
    /\ LeaseTicks \in Nat \ {0}
    /\ Backoff \in [0..MaxAttempts -> Nat \ {0}]
    /\ Limit \in Nat \ {0}
    /\ MaxCrashes \in Nat
    /\ Nobody \notin Relays

VARIABLES
    rows,       \* the committed outbox table
    before,     \* before[e]: the rows that precede e in available_at, created_at
    published,  \* the rows the transport has accepted a message for
    relay,      \* the state of each relay process
    crashes     \* how many relay processes have died

vars == <<rows, before, published, relay, crashes>>

Row == [status   : {"ABSENT", "PENDING", "DELIVERED", "FAILED"},
        attempts : 0..MaxAttempts,     \* saturates: only attempts >= max_attempts is tested
        wait     : Nat,
        owner    : Relays \cup {Nobody},
        lease    : Nat,
        dead     : BOOLEAN]            \* dead_at IS NOT NULL

Blank == [status |-> "ABSENT", attempts |-> 0, wait |-> 0,
          owner |-> Nobody, lease |-> 0, dead |-> FALSE]

Batches == UNION {[1..n -> Events] : n \in 0..Limit}

(***************************************************************************)
(* A relay: `batch' is what is left of the claimed rows, the row being     *)
(* handled first; `open' while the claim is not committed; `left' what is  *)
(* left of the lease of an open claim; `view' the session's copy of the    *)
(* row being handled, on which every check and every write is based.       *)
(***************************************************************************)
RelayState ==
    [pc : {"idle", "next", "loaded", "sent", "error", "failing"},
     batch : Seq(Events), open : BOOLEAN, left : Nat, view : Row]

Idle == [pc |-> "idle", batch |-> <<>>, open |-> FALSE, left |-> 0, view |-> Blank]

Init ==
    /\ rows = [e \in Events |-> Blank]
    /\ before = [e \in Events |-> {}]
    /\ published = {}
    /\ relay = [r \in Relays |-> Idle]
    /\ crashes = 0

-----------------------------------------------------------------------------
Present == {e \in Events : rows[e].status # "ABSENT"}

Elems(batch) == {batch[i] : i \in 1..Len(batch)}

Current(r) == Head(relay[r].batch)

\* Faulty variant: the claim's SELECT takes no lock.
LockedForNobody(r) == {}

\* The rows that the uncommitted claims of other sessions keep locked.
LockedFor(r) ==
    UNION {Elems(relay[q].batch) : q \in {p \in Relays \ {r} : relay[p].open}}

\* A faulty variant of the WHERE clause: failed rows are not tried again.
EligiblePending(e) ==
    rows[e].status = "PENDING" /\ rows[e].wait = 0 /\ rows[e].lease = 0 /\ ~rows[e].dead

\* The WHERE clause of claim_outbox.
Eligible(e) ==
    /\ rows[e].status \in {"PENDING", "FAILED"}
    /\ rows[e].wait = 0
    /\ rows[e].lease = 0
    /\ ~rows[e].dead

\* What claim_outbox writes on a row.
Claimed(row, r, left) ==
    [row EXCEPT !.attempts = IF @ < MaxAttempts THEN @ + 1 ELSE @,
                !.owner = r,
                !.lease = left]

\* The table once relay r commits: with its open claim, if it has one.
WithClaim(r) ==
    [e \in Events |-> IF relay[r].open /\ e \in Elems(relay[r].batch)
                      THEN Claimed(rows[e], r, relay[r].left)
                      ELSE rows[e]]

\* The order by available_at after e was made available in w ticks.
Reordered(e, w) ==
    [f \in Events |->
        IF f = e THEN {g \in Present \ {e} : rows[g].wait <= w}
        ELSE IF rows[f].wait > w THEN before[f] \cup {e}
        ELSE before[f] \ {e}]

\* The ORM writes the columns that differ from the session's copy, no others.
Delivered(row) ==
    [row EXCEPT !.status = "DELIVERED", !.owner = Nobody, !.lease = 0]

Failed(row, view) ==
    [row EXCEPT !.status = IF view.status = "FAILED" THEN @ ELSE "FAILED",
                !.dead = @ \/ view.attempts >= MaxAttempts,
                !.wait = IF view.attempts >= MaxAttempts THEN @ ELSE Backoff[view.attempts],
                !.owner = Nobody,
                !.lease = 0]

\* The check shared by mark_outbox_delivered and mark_outbox_failure.
HoldsLease(r, view) == view.owner = r /\ ~view.dead

\* Faulty variant: the end of the batch is not noticed.
AdvanceOn(r) ==
    relay' = [relay EXCEPT ![r] =
                [Idle EXCEPT !.pc = "next", !.batch = Tail(relay[r].batch)]]

\* The loop goes on to the next row of the batch, if any.
Advance(r) ==
    LET rest == Tail(relay[r].batch)
    IN  relay' = [relay EXCEPT ![r] =
                    [Idle EXCEPT !.pc = IF rest = <<>> THEN "idle" ELSE "next",
                                 !.batch = rest]]

\* An UPDATE of the current row waits for the lock of another open claim.
MayWrite(r) == Current(r) \notin LockedFor(r)

-----------------------------------------------------------------------------
(* A command commits its outbox row. *)
Insert(e) ==
    /\ rows[e] = Blank
    /\ rows' = [rows EXCEPT ![e].status = "PENDING"]
    /\ before' = Reordered(e, 0)
    /\ UNCHANGED <<published, relay, crashes>>

\* A batch claim_outbox may return: the first Limit eligible rows that are not
\* locked, in the order of available_at and created_at.
ClaimableBatch(r, batch) ==
    LET free == {e \in Events : Eligible(e)} \ LockedFor(r)
    IN  /\ batch # <<>>
        /\ Elems(batch) \subseteq free
        /\ \A i, j \in DOMAIN batch : i < j => batch[i] \in before[batch[j]]
        /\ \A i \in DOMAIN batch : free \cap before[batch[i]] \subseteq Elems(batch)
        /\ Len(batch) = Limit \/ free \subseteq Elems(batch)

(* claim_outbox: the claim is flushed and its rows are locked. *)
Poll(r) ==
    /\ relay[r].pc = "idle"
    /\ \E batch \in Batches :
        /\ ClaimableBatch(r, batch)
        /\ relay' = [relay EXCEPT ![r] =
                        [pc |-> "loaded", batch |-> batch, open |-> TRUE, left |-> LeaseTicks,
                         view |-> Claimed(rows[batch[1]], r, LeaseTicks)]]
    /\ UNCHANGED <<rows, before, published, crashes>>

(* After a commit or a rollback the next row is read again when first used. *)
Load(r) ==
    /\ relay[r].pc = "next"
    /\ relay' = [relay EXCEPT ![r].pc = "loaded", ![r].view = rows[Current(r)]]
    /\ UNCHANGED <<rows, before, published, crashes>>

\* mark_outbox_failure followed by the commit.
MarkFailure(r) ==
    LET e == Current(r)
        view == relay[r].view
    IN  \/ /\ ~HoldsLease(r, view)
           /\ rows' = WithClaim(r)
           /\ UNCHANGED before
        \/ /\ HoldsLease(r, view)
           /\ MayWrite(r)
           /\ rows' = [WithClaim(r) EXCEPT ![e] = Failed(@, view)]
           /\ before' = IF view.attempts >= MaxAttempts THEN before
                        ELSE Reordered(e, Backoff[view.attempts])

(* No queue is known for the row's routing key. *)
FailUnroutable(r) ==
    /\ relay[r].pc = "loaded"
    /\ Current(r) \notin Routable
    /\ MarkFailure(r)
    /\ Advance(r)
    /\ UNCHANGED <<published, crashes>>

(* transport.publish returns a message id. *)
Publish(r) ==
    /\ relay[r].pc = "loaded"
    /\ Current(r) \in Routable \ Poison
    /\ published' = published \cup {Current(r)}
    /\ relay' = [relay EXCEPT ![r].pc = "sent"]
    /\ UNCHANGED <<rows, before, crashes>>

(* transport.publish raises: the message was refused, or its answer was lost. *)
PublishError(r) ==
    /\ relay[r].pc = "loaded"
    /\ Current(r) \in Routable
    /\ published' \in {published} \cup {published \cup {e} : e \in {Current(r)} \ Poison}
    /\ relay' = [relay EXCEPT ![r].pc = "error"]
    /\ UNCHANGED <<rows, before, crashes>>

(* Faulty variant: the row is recorded before its message is sent. *)
RecordFirst(r) ==
    /\ relay[r].pc = "loaded"
    /\ HoldsLease(r, relay[r].view)
    /\ MayWrite(r)
    /\ rows' = [WithClaim(r) EXCEPT ![Current(r)] = Delivered(@)]
    /\ Advance(r)
    /\ UNCHANGED <<before, published, crashes>>

(* mark_outbox_delivered and the commit; its check looks at the copy of the *)
(* row that was read before the message was published.                      *)
RecordDelivered(r) ==
    /\ relay[r].pc = "sent"
    /\ HoldsLease(r, relay[r].view)
    /\ MayWrite(r)
    /\ rows' = [WithClaim(r) EXCEPT ![Current(r)] = Delivered(@)]
    /\ Advance(r)
    /\ UNCHANGED <<before, published, crashes>>

(* The check fails: "outbox lease was lost before delivery was recorded". *)
LeaseLost(r) ==
    /\ relay[r].pc = "sent"
    /\ ~HoldsLease(r, relay[r].view)
    /\ relay' = [relay EXCEPT ![r].pc = "error"]
    /\ UNCHANGED <<rows, before, published, crashes>>

(* The except branch: the rollback, which drops an open claim with all its *)
(* rows, and the fresh copy of the row.                                    *)
Recover(r) ==
    LET fresh == rows[Current(r)]
    IN  /\ relay[r].pc = "error"
        /\ \/ /\ fresh.owner = r
              /\ relay' = [relay EXCEPT ![r] =
                            [@ EXCEPT !.pc = "failing", !.open = FALSE, !.left = 0, !.view = fresh]]
           \/ /\ fresh.owner # r
              /\ Advance(r)
        /\ UNCHANGED <<rows, before, published, crashes>>

(* mark_outbox_failure on the fresh copy, and the commit. *)
RecordFailure(r) ==
    /\ relay[r].pc = "failing"
    /\ MarkFailure(r)
    /\ Advance(r)
    /\ UNCHANGED <<published, crashes>>

(* The process dies and is started again; its open transaction is undone. *)
Crash(r) ==
    /\ crashes < MaxCrashes
    /\ relay[r].pc # "idle"
    /\ relay' = [relay EXCEPT ![r] = Idle]
    /\ crashes' = crashes + 1
    /\ UNCHANGED <<rows, before, published>>

Less(n) == IF n = 0 THEN 0 ELSE n - 1

(* Time passes, for the rows and for the claims that are still open. *)
Tick ==
    /\ \/ \E e \in Events : rows[e].wait > 0 \/ rows[e].lease > 0
       \/ \E r \in Relays : relay[r].left > 0
    /\ rows' = [e \in Events |->
                  [rows[e] EXCEPT !.wait = Less(@), !.lease = Less(@)]]
    /\ relay' = [r \in Relays |-> [relay[r] EXCEPT !.left = Less(@)]]
    /\ UNCHANGED <<before, published, crashes>>

Next ==
    \/ \E e \in Events : Insert(e)
    \/ \E r \in Relays :
        \/ Poll(r) \/ Load(r) \/ FailUnroutable(r)
        \/ Publish(r) \/ PublishError(r)
        \/ RecordDelivered(r) \/ LeaseLost(r)
        \/ Recover(r) \/ RecordFailure(r)
        \/ Crash(r)
    \/ Tick

Spec == Init /\ [][Next]_vars

(***************************************************************************)
(* Fairness.  A live relay process runs its loop, time passes, and a       *)
(* transport that is offered a sound message again and again accepts it    *)
(* at last; publish returns or raises (boto3 has timeouts).  Nothing is    *)
(* assumed of Insert, and crashes are bounded.                             *)
(***************************************************************************)
Fairness ==
    /\ WF_vars(Tick)
    /\ \A r \in Relays :
        /\ WF_vars(Poll(r))
        /\ WF_vars(Load(r) \/ FailUnroutable(r) \/ LeaseLost(r) \/ Recover(r))
        /\ WF_vars(RecordDelivered(r) \/ RecordFailure(r))
        /\ WF_vars(Publish(r) \/ PublishError(r))
        /\ \A e \in Events : SF_vars(Publish(r) /\ Current(r) = e)

FairSpec == Spec /\ Fairness

-----------------------------------------------------------------------------
(* Type correctness of the table, of the relays and of the history. *)
TypeOK ==
    /\ rows \in [Events -> Row]
    /\ before \in [Events -> SUBSET Events]
    /\ published \subseteq Routable \ Poison
    /\ relay \in [Relays -> RelayState]
    /\ \A r \in Relays : relay[r].pc # "idle" => relay[r].batch # <<>>
    /\ crashes \in 0..MaxCrashes

(* A row is recorded DELIVERED only if the transport accepted its message,  *)
(* whatever copy of the row the recording relay had.                        *)
DeliveredWasPublished ==
    \A e \in Events : rows[e].status = "DELIVERED" => e \in published

(* A row is given up only after max_attempts claims of it were committed,   *)
(* although the relay that gives it up counts on a copy of the row.         *)
DeadOnlyAfterBudget ==
    \A e \in Events : rows[e].dead => rows[e].attempts >= MaxAttempts

(* A row that is delivered or given up carries no lease: no relay's late    *)
(* claim or commit leaves one behind.                                       *)
SettledRowsUnleased ==
    \A e \in Events :
        rows[e].status = "DELIVERED" \/ rows[e].dead => rows[e].owner = Nobody

(* SKIP LOCKED: no row is in two claims that are both uncommitted, so two   *)
(* relays that poll at once never start on the same row.                    *)
OpenClaimsDisjoint ==
    \A r, q \in Relays :
        r # q /\ relay[r].open /\ relay[q].open
            => Elems(relay[r].batch) \cap Elems(relay[q].batch) = {}

\* The rows of an open claim are as the SELECT found them: nobody else writes them.
OpenClaimsUndisturbed ==
    \A r \in Relays : relay[r].open =>
        \A e \in Elems(relay[r].batch) :
            /\ rows[e].status \in {"PENDING", "FAILED"}
            /\ rows[e].lease = 0
            /\ ~rows[e].dead

\* What a relay acts on is not ahead of the table it will commit.
ViewsNotAhead ==
    \A r \in Relays :
        /\ relay[r].open => relay[r].pc \in {"loaded", "sent", "error"}
        /\ relay[r].pc = "sent" => Current(r) \in published
        /\ relay[r].pc \in {"loaded", "failing"} =>
              relay[r].view.attempts <= WithClaim(r)[Current(r)].attempts

(* The invariant that is inductive: a relay may hold an old copy of a row,  *)
(* but one that never claims more attempts than the table, and never of a   *)
(* row that another session has claimed and not committed.                  *)
RelayInv ==
    /\ TypeOK
    /\ DeliveredWasPublished
    /\ DeadOnlyAfterBudget
    /\ SettledRowsUnleased
    /\ OpenClaimsDisjoint
    /\ OpenClaimsUndisturbed
    /\ ViewsNotAhead

(* A committed lease that is still running passes to no other relay, not    *)
(* even through a claim that stayed open while another one was committed.   *)
NoLiveLeaseStolen ==
    [][\A e \in Events :
        rows[e].owner # Nobody /\ rows[e].lease > 0
            => rows'[e].owner \in {rows[e].owner, Nobody}]_vars

(* A row that was given up stays so, and keeps its attempts: no stale write *)
(* of a slow relay brings it back to life.                                  *)
DeadIsFinal ==
    [][\A e \in Events :
        /\ rows[e].dead => rows'[e].dead
        /\ rows'[e].attempts >= rows[e].attempts]_vars

(* A row is settled when it is delivered or given up. *)
Settled(e) == rows[e].status = "DELIVERED" \/ rows[e].dead

(* Every recorded row is settled for good at last, whatever relays do to    *)
(* each other's claims, if the transport accepts every routable row at last.*)
EventuallySettled ==
    \A e \in Events : rows[e].status # "ABSENT" ~> []Settled(e)

-----------------------------------------------------------------------------
(* The outcome of a row: a row that was given up stays so, even if a slow *)
(* relay records its delivery after all.                                  *)
Outcome ==
    [e \in Events |->
        IF rows[e].status = "ABSENT" THEN "none"
        ELSE IF rows[e].dead THEN "dead"
        ELSE IF rows[e].status = "DELIVERED" THEN "delivered"
        ELSE "due"]

Tries == [e \in Events |-> rows[e].attempts]

Ledger == INSTANCE AtLeastOnce WITH
            Items <- Events, Deliverable <- Routable \ Poison, Budget <- MaxAttempts,
            accepted <- published, outcome <- Outcome, tries <- Tries

(* The relays together keep the promise of an outbox: every commit of a     *)
(* relay counts the tries of its batch and settles one row as it may be     *)
(* settled, whatever copy of the row it acts on and whoever else has        *)
(* written the row meanwhile.                                               *)
KeepsTheLedger == Ledger!Spec

=============================================================================
