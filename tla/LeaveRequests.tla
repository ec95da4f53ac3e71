---------------------------- MODULE LeaveRequests ----------------------------
(***************************************************************************)
(* Leave requests, from submission to a decision and its changes           *)
(* (apps/api-py/app/routers/leave.py, the overlap rule of leave_policy.py  *)
(* and the dedupe keys of leave_mail.py), and the table of the colleagues  *)
(* who cover for the applicant (routers/leave_alternate.py).               *)
(*                                                                         *)
(* Every endpoint is one transaction: it reads the row, checks it, writes  *)
(* and commits, then mails the applicant about the row as it is by then.   *)
(* Only change_decision reads the row FOR UPDATE.  The others read it      *)
(* without a lock, and their UPDATE names the columns they changed and the *)
(* id: it waits for a lock and then writes over what is there.  The table  *)
(* of alternates is one column, so whoever changes a line writes all.      *)
(*                                                                         *)
(* A call stands for the person who makes it.  Who may make which call is  *)
(* left to the gates, which refuse any call they like; so do the rules for *)
(* a revocation after the first day.  Leave mail is switched on.           *)
(***************************************************************************)
EXTENDS Naturals, FiniteSets

CONSTANTS
    Leaves,    \* rows of leave_requests, submitted or still to be
    Legacy,    \* the rows that were signed once under the old two-signature chain
    Calls,     \* HTTP requests
    Checked,   \* requests of a kind for which the office has recorded an allowance
    Overlaps,  \* the pairs {l, m} of one applicant whose days touch
    Lines,     \* the lines of the tables of alternates
    FormOf,    \* the request whose table a line belongs to
    Staff,     \* the colleagues who may be asked to cover
    Nobody,
    Mentor     \* the first signer of a legacy row

ASSUME ConstantsAssumption ==
    /\ Leaves # {} /\ Legacy \subseteq Leaves /\ Checked \subseteq Leaves
    /\ FormOf \in [Lines -> Leaves]
    /\ Nobody \notin Calls /\ Mentor \notin Calls /\ Nobody # Mentor
    /\ Nobody \notin Staff

VARIABLES
    leave,  \* the committed rows
    cover,  \* their alt_rows
    lock,   \* which call holds a row FOR UPDATE
    call,   \* the progress of each call, and the row as it read it
    audit,  \* the audit rows of changed decisions
    mails   \* the rows of the mail log, one for each dedupe key

vars == <<leave, cover, lock, call, audit, mails>>

Decisions == {"approve", "reject"}
Changes == {"revoke", "reopen"}
Arrangements == {"assign", "accept"}
Ops == {"submit", "cancel"} \cup Decisions \cup Changes \cup Arrangements

Status == {"ABSENT", "SUBMITTED", "FIRST_APPROVED", "APPROVED", "REJECTED", "CANCELLED", "REVOKED"}

\* CANCELLABLE, and what decide_leave accepts.
Pending == {"SUBMITTED", "FIRST_APPROVED"}

\* LIVE_STATUSES: the requests that occupy their days.
Live == Pending \cup {"APPROVED"}

Slot == [by : Calls \cup {Mentor, Nobody}, decision : {"none", "APPROVED", "REJECTED"}]

Unsigned == [by |-> Nobody, decision |-> "none"]

(* first_*, second_* and decision_revision of a row. *)
Row == [status : Status, first : Slot, second : Slot, revision : Nat]

Fresh == [status |-> "ABSENT", first |-> Unsigned, second |-> Unsigned, revision |-> 0]

SignedOnce ==
    [Fresh EXCEPT !.status = "FIRST_APPROVED", !.first = [by |-> Mentor, decision |-> "APPROVED"]]

(* A line of the table: the account it names, and whether accepted_at is set. *)
Cover == [named : Staff \cup {Nobody}, agreed : BOOLEAN]

Unasked == [named |-> Nobody, agreed |-> FALSE]

(* `table' is what a call makes of the table it has read, for `who'. *)
Call == [pc : {"idle", "ready", "written", "arranged", "done"}, op : Ops, leave : Leaves, view : Row,
         who : Staff \cup {Nobody}, table : [Lines -> Cover]]

NoCall == [pc |-> "idle", op |-> "submit", leave |-> CHOOSE l \in Leaves : TRUE, view |-> Fresh,
           who |-> Nobody, table |-> [a \in Lines |-> Unasked]]

Init ==
    /\ leave = [l \in Leaves |-> IF l \in Legacy THEN SignedOnce ELSE Fresh]
    /\ cover \in [Lines -> {k \in Cover : ~k.agreed}]
    /\ lock = [l \in Leaves |-> Nobody]
    /\ call = [c \in Calls |-> NoCall]
    /\ audit = {}
    /\ mails = {}

-----------------------------------------------------------------------------
(* overlapping_request *)
Clash(l) == \E m \in Leaves \ {l} : {l, m} \in Overlaps /\ leave[m].status \in Live

(* A submission inserts a row under an id of its own. *)
Drawn(l) == \E d \in Calls : call[d].pc = "ready" /\ call[d].op = "submit" /\ call[d].leave = l

(***************************************************************************)
(* What the endpoint requires of the row it has read: submit_refusal,      *)
(* CANCELLABLE, the branches of decide_leave, CHANGE_FROM.                 *)
(***************************************************************************)
Accepts(op, l) ==
    LET status == leave[l].status IN
    \/ op = "submit" /\ status = "ABSENT" /\ ~Drawn(l) /\ (l \in Checked => ~Clash(l))
    \/ op \in Decisions \cup {"cancel"} /\ status \in Pending
    \/ op = "revoke" /\ status = "APPROVED"
    \/ op = "reopen" /\ status \in {"REJECTED", "REVOKED"} /\ ~Clash(l)

(* A faulty variant: change_decision reads without a lock. *)
LocksNothing(op) == FALSE

(* db.get(LeaveRequest, leave_id, with_for_update=True), of one endpoint. *)
Locks(op) == op \in Changes

(***************************************************************************)
(* A call reads its row, under a lock if it is a change, and passes its    *)
(* checks.                                                                 *)
(***************************************************************************)
Admit(c, op, l) ==
    /\ call[c].pc = "idle"
    /\ Locks(op) => lock[l] = Nobody
    /\ Accepts(op, l)
    /\ call' = [call EXCEPT ![c] = [NoCall EXCEPT !.pc = "ready", !.op = op, !.leave = l, !.view = leave[l]]]
    /\ lock' = IF Locks(op) THEN [lock EXCEPT ![l] = c] ELSE lock
    /\ UNCHANGED <<leave, cover, audit, mails>>

Released(c) == [l \in Leaves |-> IF lock[l] = c THEN Nobody ELSE lock[l]]

Over == [NoCall EXCEPT !.pc = "done"]

(* Any 403, 404, 409 or 422; a failed commit or a process that dies. *)
Refuse(c) ==
    /\ call[c].pc = "ready"
    /\ call' = [call EXCEPT ![c] = Over]
    /\ lock' = Released(c)
    /\ UNCHANGED <<leave, cover, audit, mails>>

-----------------------------------------------------------------------------
(* A faulty variant: the word of the request is stored as it came. *)
VerdictAsSent(op) == IF op = "approve" THEN "APPROVE" ELSE "REJECT"

(* LeaveDecision and LeaveStatus of a decision. *)
Verdict(op) == IF op = "approve" THEN "APPROVED" ELSE "REJECTED"

(* A faulty variant: the second signature carries no decision. *)
DecidedHalf(row, view, op, c) ==
    IF view.status = "SUBMITTED"
    THEN [row EXCEPT !.status = Verdict(op), !.first = [by |-> c, decision |-> Verdict(op)]]
    ELSE [row EXCEPT !.status = Verdict(op), !.second.by = c]

(* decide_leave signs the first slot, or the second of a row signed once. *)
Decided(row, view, op, c) ==
    LET signature == [by |-> c, decision |-> Verdict(op)] IN
    IF view.status = "SUBMITTED"
    THEN [row EXCEPT !.status = Verdict(op), !.first = signature]
    ELSE [row EXCEPT !.status = Verdict(op), !.second = signature]

(* _clear_decision *)
Reopened(row) == [row EXCEPT !.status = "SUBMITTED", !.first = Unsigned, !.second = Unsigned]

(* The row after the UPDATE (or INSERT) of a call that had read `view'. *)
After(row, view, op, c) ==
    CASE op = "submit" -> [Fresh EXCEPT !.status = "SUBMITTED"]
      [] op = "cancel" -> [row EXCEPT !.status = "CANCELLED"]
      [] op \in Decisions -> Decided(row, view, op, c)
      [] op = "revoke" -> [row EXCEPT !.status = "REVOKED", !.revision = view.revision + 1]
      [] op = "reopen" -> [Reopened(row) EXCEPT !.revision = view.revision + 1]

(* The flush and the commit, with the audit row of a change. *)
Commit(c) ==
    LET l == call[c].leave
        op == call[c].op
        view == call[c].view
    IN
    /\ call[c].pc = "ready" /\ op \notin Arrangements
    /\ lock[l] \in {c, Nobody}
    /\ leave' = [leave EXCEPT ![l] = After(leave[l], view, op, c)]
    /\ audit' = IF op \in Changes
                THEN audit \cup {[call |-> c, leave |-> l, action |-> op, before |-> view]}
                ELSE audit
    /\ call' = [call EXCEPT ![c] = [NoCall EXCEPT !.pc = "written", !.op = op, !.leave = l]]
    /\ lock' = Released(c)
    /\ UNCHANGED <<cover, mails>>

-----------------------------------------------------------------------------
(* A faulty variant: the key of before the revision suffix. *)
BareKey(op, row) == IF op \in Changes THEN <<"change", row.revision>> ELSE <<row.status, 0>>

(* dedupe_key and change_dedupe_key *)
MailKey(op, row) == <<IF op \in Changes THEN "change" ELSE row.status, row.revision>>

(* The statuses that notify_transition and notify_decision_changed have     *)
(* words for; a SUBMITTED row is a reopened one for a change.               *)
Worded(op) ==
    CASE op = "cancel" -> {}
      [] op \in Changes -> {"REVOKED", "SUBMITTED"}
      [] OTHER -> {"SUBMITTED", "APPROVED", "REJECTED"}

(* db.refresh, then deliver_once: a key that was used sends nothing. *)
Notify(c) ==
    LET l == call[c].leave
        row == leave[l]
        key == MailKey(call[c].op, row)
    IN
    /\ call[c].pc = "written"
    /\ mails' = IF /\ row.status \in Worded(call[c].op)
                   /\ ~\E m \in mails : m.leave = l /\ m.key = key
                THEN mails \cup {[leave |-> l, key |-> key, status |-> row.status, revision |-> row.revision]}
                ELSE mails
    /\ call' = [call EXCEPT ![c] = Over]
    /\ UNCHANGED <<leave, cover, lock, audit>>

-----------------------------------------------------------------------------
Arrange(c, op, l, who, table) ==
    /\ call[c].pc = "idle"
    /\ call' = [call EXCEPT ![c] = [NoCall EXCEPT !.pc = "ready", !.op = op, !.leave = l,
                                                 !.who = who, !.table = table]]
    /\ UNCHANGED <<leave, cover, lock, audit, mails>>

(* A faulty variant: the agreement stays when the line is given to another. *)
AssignedStill(a, who) == [cover EXCEPT ![a].named = who]

(* An agreement goes with the colleague who gave it. *)
Assigned(a, who) == [cover EXCEPT ![a] = [named |-> who, agreed |-> FALSE]]

(* assign_alternate: the applicant names a colleague, or nobody, on a line. *)
(* Where that changes nothing the ORM sends no UPDATE.                     *)
Assign(c, a, who) ==
    /\ leave[FormOf[a]].status \in Pending
    /\ Assigned(a, who) # cover
    /\ Arrange(c, "assign", FormOf[a], who, Assigned(a, who))

Asked(l, who) == {a \in Lines : FormOf[a] = l /\ cover[a].named = who}

(* accept_alternate: a colleague agrees to every line that names them; one *)
(* who has agreed before changes nothing.                                  *)
Accept(c, l, who) ==
    /\ leave[l].status \in Live
    /\ \E a \in Asked(l, who) : ~cover[a].agreed
    /\ Arrange(c, "accept", l, who,
               [a \in Lines |-> IF a \in Asked(l, who) THEN [cover[a] EXCEPT !.agreed = TRUE]
                               ELSE cover[a]])

(* The UPDATE of alt_rows and its commit. *)
WriteTable(c) ==
    /\ call[c].pc = "ready" /\ call[c].op \in Arrangements
    /\ lock[call[c].leave] = Nobody
    /\ cover' = [a \in Lines |-> IF FormOf[a] = call[c].leave THEN call[c].table[a] ELSE cover[a]]
    /\ call' = [call EXCEPT ![c] = IF @.op = "accept" THEN [@ EXCEPT !.pc = "arranged"] ELSE Over]
    /\ UNCHANGED <<leave, lock, audit, mails>>

Next ==
    \/ \E c \in Calls, op \in Ops, l \in Leaves : Admit(c, op, l)
    \/ \E c \in Calls, a \in Lines, who \in Staff \cup {Nobody} : Assign(c, a, who)
    \/ \E c \in Calls, l \in Leaves, who \in Staff : Accept(c, l, who)
    \/ \E c \in Calls : Refuse(c) \/ Commit(c) \/ Notify(c) \/ WriteTable(c)

Spec == Init /\ [][Next]_vars

-----------------------------------------------------------------------------
(* Properties *)

(* Type correctness of the rows, the calls and the two logs. *)
TypeOK ==
    /\ leave \in [Leaves -> Row]
    /\ cover \in [Lines -> Cover]
    /\ lock \in [Leaves -> Calls \cup {Nobody}]
    /\ call \in [Calls -> Call]
    /\ audit \subseteq [call : Calls, leave : Leaves, action : Changes, before : Row]
    /\ \A m \in mails : m.leave \in Leaves /\ m.status \in Status /\ m.revision \in Nat

AuditOf(l) == {a \in audit : a.leave = l}

(* The audit trail has exactly one row for each change of a decision that   *)
(* the request counts: two approvers who press Revoke at the same moment    *)
(* do not both succeed (change_decision).                                   *)
AuditCountsChanges ==
    \A l \in Leaves :
        /\ {a.before.revision : a \in AuditOf(l)} = {n \in 0..leave[l].revision : n < leave[l].revision}
        /\ \A a, b \in AuditOf(l) : a.before.revision = b.before.revision => a = b

(* The before-image of an audit row is the decision it undid, as it stood   *)
(* when it was undone and not as the caller had once read it.               *)
BeforeImageIsTrue == [][\A a \in audit' \ audit : a.before = leave[a.leave]]_vars

(* A request that waits for its first signature has none, not even one that *)
(* a slow approver wrote while it was being reopened (_clear_decision).     *)
PendingUnsigned ==
    \A l \in Leaves : leave[l].status \in {"ABSENT", "SUBMITTED"} =>
        leave[l].first = Unsigned /\ leave[l].second = Unsigned

(* A request is sanctioned or refused only with the signature of somebody   *)
(* who decided so, whoever else wrote to the row in between.                *)
SignedOutcome ==
    \A l \in Leaves : leave[l].status \in {"APPROVED", "REJECTED"} =>
        leave[l].status \in {leave[l].first.decision, leave[l].second.decision}

(* A colleague's agreement is never put in their mouth: a line that is      *)
(* marked as agreed names somebody who pressed accept when it named them,   *)
(* though assignments and acceptances write whole tables over one another,  *)
(* from copies that may be old (assign_alternate, accept_alternate).        *)
AgreementIsOwn ==
    \A a \in Lines : cover[a].agreed =>
        \E c \in Calls : /\ call[c].pc = "arranged" /\ call[c].leave = FormOf[a]
                         /\ call[c].who = cover[a].named /\ call[c].table[a].named = cover[a].named

AtRest(l) == \A c \in Calls : call[c].pc = "written" => call[c].leave # l

(* Once every mail about a request is out, the applicant has been told of   *)
(* the outcome it has now, also of a second sanction after a revocation,    *)
(* though each mail speaks of the row as refreshed and a used key is        *)
(* silent (dedupe_key, change_dedupe_key).                                  *)
ToldOfOutcome ==
    \A l \in Leaves : AtRest(l) /\ leave[l].status \in {"APPROVED", "REJECTED", "REVOKED"} =>
        \E m \in mails : /\ m.leave = l
                         /\ m.status = leave[l].status
                         /\ m.revision = leave[l].revision

=============================================================================
