---------------------------- MODULE Registrations ----------------------------
(***************************************************************************)
(* Applications to join, from the public form to an account                *)
(* (apps/api-py/app/routers/registration.py).                              *)
(*                                                                         *)
(* submit takes two transactions: the first inserts the application with   *)
(* its CV, the second applies the seating rule to the row as it is read    *)
(* again, without a lock, and may approve it.  The reviewers' endpoints    *)
(* and the applicant's replacement of the CV are one transaction each and  *)
(* read the row FOR UPDATE.  Approval, by a rule or by a reviewer, makes   *)
(* the user and the student, hands the CV to the student and, once it is   *)
(* committed, mails an invitation.                                         *)
(*                                                                         *)
(* A transaction reads what is committed and holds its own writes until it *)
(* commits.  The database keeps three unique indexes, on which a commit    *)
(* may fail: users by address, students by USN, and the applications that  *)
(* are not rejected by address.                                            *)
(*                                                                         *)
(* Left out: the gates and the rate limit, which refuse any call they      *)
(* like, the academic claim and the seat it leads to, the profile, the     *)
(* stamps and notes of a decision, the mail to a rejected applicant, the   *)
(* photo, which goes the way of the CV, and the promotion of an account    *)
(* that exists.                                                            *)
(***************************************************************************)
EXTENDS FiniteSets

CONSTANTS
    Forms,     \* filled-in forms; a form keeps its submission key over retries
    Apps,      \* ids of registrations
    Emails, Usns,
    EmailOf,   \* the address on a form
    UsnOf,     \* the USN on a form
    OnDomain,  \* the addresses on a college domain
    Calls,     \* HTTP requests; a stored file is named for the request that sent it
    NoFile

ASSUME ConstantsAssumption ==
    /\ Forms # {} /\ Apps # {} /\ Usns # {}
    /\ EmailOf \in [Forms -> Emails]
    /\ UsnOf \in [Forms -> Usns]
    /\ OnDomain \subseteq Emails
    /\ NoFile \notin Calls

VARIABLES
    regs,     \* the committed registrations
    users,    \* the committed users and students, by address
    uploads,  \* the files that are uploads of each student
    call,     \* the progress of each request and the transaction it has open
    invited   \* the addresses an onboarding link was mailed to

vars == <<regs, users, uploads, call, invited>>

Status == {"ABSENT", "PENDING_REVIEW", "HOLD", "AUTO_APPROVED", "APPROVED", "REJECTED"}

Waiting == {"PENDING_REVIEW", "HOLD"}

Approved == {"AUTO_APPROVED", "APPROVED"}

Decided == {"APPROVED", "REJECTED"}

(* A row of registrations with its CV; `seat' is approved_student_id IS NOT NULL. *)
Row == [status : Status, form : Forms, usn : Usns, seat : BOOLEAN, doc : Calls \cup {NoFile}]

NoRow == [status |-> "ABSENT", form |-> CHOOSE f \in Forms : TRUE,
          usn |-> CHOOSE u \in Usns : TRUE, seat |-> FALSE, doc |-> NoFile]

(* The account of an address and its students row, if `seated'. *)
Account == [role : {"none", "STUDENT", "STAFF"}, seated : BOOLEAN, usn : Usns]

NoAccount == [role |-> "none", seated |-> FALSE, usn |-> CHOOSE u \in Usns : TRUE]

Ops == {"submit", "approve", "reject", "hold", "reopen", "correct", "attach"}

(***************************************************************************)
(* A request: the form it sends (submit), the application it is about, the *)
(* row as it read it, what the rule said, the rows of users and students   *)
(* it has inserted and not committed, and its answer.                      *)
(***************************************************************************)
Request ==
    [pc : {"new", "clear", "saved", "fresh", "open", "mail", "done"}, op : Ops,
     form : Forms, app : Apps, view : Row, rule : {"none", "approve", "queue"},
     mint : BOOLEAN, seat : BOOLEAN, answer : {"none", "created", "conflict"}]

NoRequest ==
    [pc |-> "new", op |-> "submit", form |-> NoRow.form, app |-> CHOOSE a \in Apps : TRUE,
     view |-> NoRow, rule |-> "none", mint |-> FALSE, seat |-> FALSE, answer |-> "none"]

Init ==
    /\ regs = [a \in Apps |-> NoRow]
    /\ users = [e \in Emails |-> NoAccount]
    /\ uploads = [e \in Emails |-> {}]
    /\ call = [c \in Calls |-> NoRequest]
    /\ invited = {}

-----------------------------------------------------------------------------
Email(row) == EmailOf[row.form]

IsLive(row) == row.status \notin {"ABSENT", "REJECTED"}

(* The live application of an address, if there is one. *)
LiveOf(e) == {a \in Apps : IsLive(regs[a]) /\ Email(regs[a]) = e}

(* uq_registration_live_email *)
OneLiveEach(rows) ==
    \A a, b \in Apps :
        IsLive(rows[a]) /\ IsLive(rows[b]) /\ Email(rows[a]) = Email(rows[b]) => a = b

(* The row of `a' is locked FOR UPDATE, or by a flushed UPDATE. *)
Locked(a) == \E c \in Calls : call[c].pc = "open" /\ call[c].app = a

HoldsUsn(e, u) == users[e].seated /\ users[e].usn = u

UsnTaken(u) == \E e \in Emails : HoldsUsn(e, u)

(* What is kept of a request: the form, and the application it was answered with. *)
Answered(c, f, a, answer) ==
    call' = [call EXCEPT ![c] = [NoRequest EXCEPT !.pc = "done", !.form = f, !.app = a,
                                                  !.answer = answer]]

Ended(c) == call' = [call EXCEPT ![c] = [NoRequest EXCEPT !.pc = "done"]]

(* A faulty variant: whoever has an application is answered with it. *)
DuplicateAnswerAny(c, f, as) == \E a \in as : Answered(c, f, a, "created")

(* _duplicate_answer: the form's own application, or the opaque 409. *)
DuplicateAnswer(c, f, as) ==
    \E a \in as : Answered(c, f, a, IF regs[a].form = f THEN "created" ELSE "conflict")

-----------------------------------------------------------------------------
(* submit: the guard finds a live application of the address, or none. *)
Submit(c, f) ==
    /\ call[c].pc = "new"
    /\ \/ DuplicateAnswer(c, f, LiveOf(EmailOf[f]))
       \/ /\ LiveOf(EmailOf[f]) = {}
          /\ call' = [call EXCEPT ![c].pc = "clear", ![c].form = f]
    /\ UNCHANGED <<regs, users, uploads, invited>>

(* The insert of the row and of its files, and the commit; or the flush    *)
(* meets the index, and the loser of the race is answered like a retry.    *)
Save(c, a) ==
    LET f == call[c].form
        live == LiveOf(EmailOf[f])
    IN  /\ call[c].pc = "clear"
        /\ \/ /\ live = {}
              /\ regs[a].status = "ABSENT"
              /\ regs' = [regs EXCEPT ![a] =
                    [status |-> "PENDING_REVIEW", form |-> f, usn |-> UsnOf[f],
                     seat |-> FALSE, doc |-> c]]
              /\ call' = [call EXCEPT ![c].pc = "saved", ![c].app = a]
           \/ /\ a \in live
              /\ DuplicateAnswer(c, f, {a})
              /\ UNCHANGED regs
        /\ UNCHANGED <<users, uploads, invited>>

(* db.refresh(reg): the second transaction reads the row, without a lock. *)
Refresh(c) ==
    /\ call[c].pc = "saved"
    /\ call' = [call EXCEPT ![c].pc = "fresh", ![c].view = regs[call[c].app]]
    /\ UNCHANGED <<regs, users, uploads, invited>>

-----------------------------------------------------------------------------
(***************************************************************************)
(* _provision_student reuses what it finds and inserts what is missing:    *)
(* the user before GUARD 3 (the USN) is asked, the student after it.       *)
(***************************************************************************)
UsnClash(row) == ~users[Email(row)].seated /\ UsnTaken(row.usn)

\* A faulty variant: GUARD 2, the role, is missing.
BarredDomain(row) == Email(row) \notin OnDomain

(* GUARDS 1 and 2: the domain and the role. *)
BarredAddress(row) == Email(row) \notin OnDomain \/ users[Email(row)].role = "STAFF"

Refused(row) == ~row.seat /\ (BarredAddress(row) \/ UsnClash(row))

Mints(row) == ~row.seat /\ ~BarredAddress(row) /\ users[Email(row)].role = "none"

\* A faulty variant: the students row is made along with the user only.
SeatsMinted(row) == Mints(row) /\ ~UsnClash(row)

Seats(row) == ~row.seat /\ ~Refused(row) /\ ~users[Email(row)].seated

(***************************************************************************)
(* _apply_rule, up to its commit: the best matching rule approves or sends *)
(* to the queue, and an approval that is refused goes to the queue as      *)
(* well, in the transaction that may have inserted a user.  The first      *)
(* flush locks the row.                                                    *)
(***************************************************************************)
ApplyRule(c) ==
    LET a == call[c].app
        row == call[c].view
    IN  /\ call[c].pc = "fresh"
        /\ ~Locked(a)
        /\ \/ call' = [call EXCEPT ![c].pc = "open", ![c].rule = "queue"]
           \/ call' = [call EXCEPT ![c].pc = "open",
                          ![c].rule = IF Refused(row) THEN "queue" ELSE "approve",
                          ![c].mint = Mints(row), ![c].seat = Seats(row)]
        /\ UNCHANGED <<regs, users, uploads, invited>>

(* SELECT ... FOR UPDATE waits for the lock. *)
MayRead(a) == ~Locked(a)

(* The status an endpoint asks for. *)
Accepts(op, row) ==
    CASE op \in {"approve", "reject"} -> row.status \notin Decided \cup {"ABSENT"}
      [] op \in {"correct", "attach"} -> row.status \in Waiting
      [] op = "hold"                  -> row.status = "PENDING_REVIEW"
      [] op = "reopen"                -> row.status \in {"REJECTED", "HOLD"}
      [] OTHER                        -> FALSE

(* decide, hold, reopen, correct and attach_document, up to the commit; `u' *)
(* is the corrected USN.  A refused approval raises, and is rolled back.    *)
Open(c, op, a, u) ==
    /\ call[c].pc = "new"
    /\ MayRead(a)
    /\ Accepts(op, regs[a])
    /\ op = "approve" => ~Refused(regs[a])
    /\ op = "correct" => u # regs[a].usn /\ (UsnTaken(u) => HoldsUsn(Email(regs[a]), u))
    /\ op # "correct" => u = regs[a].usn
    /\ call' = [call EXCEPT ![c] =
                  [NoRequest EXCEPT !.pc = "open", !.op = op, !.app = a,
                      !.view = [regs[a] EXCEPT !.usn = u],
                      !.mint = op = "approve" /\ Mints(regs[a]),
                      !.seat = op = "approve" /\ Seats(regs[a])]]
    /\ UNCHANGED <<regs, users, uploads, invited>>

-----------------------------------------------------------------------------
IsApproval(c) == call[c].op = "approve" \/ call[c].rule = "approve"

(* The status a transaction sets. *)
NewStatus(c) ==
    CASE call[c].op = "approve"      -> "APPROVED"
      [] call[c].op = "reject"       -> "REJECTED"
      [] call[c].op = "hold"         -> "HOLD"
      [] call[c].op = "reopen"       -> "PENDING_REVIEW"
      [] call[c].rule = "approve"    -> "AUTO_APPROVED"
      [] call[c].rule = "queue"      -> "PENDING_REVIEW"
      [] OTHER                       -> call[c].view.status

(* A faulty variant: the rule forgets to hand the documents over. *)
UpdatedOnly(row, c) ==
    LET view == call[c].view
    IN  [row EXCEPT !.status = IF NewStatus(c) = view.status THEN @ ELSE NewStatus(c),
                    !.usn = IF call[c].op = "correct" THEN view.usn ELSE @,
                    !.seat = @ \/ IsApproval(c),
                    !.doc = IF call[c].op = "attach" THEN c ELSE @]

(* The UPDATE names the columns that differ from the copy that was read. *)
Updated(row, c) ==
    LET view == call[c].view
    IN  [row EXCEPT !.status = IF NewStatus(c) = view.status THEN @ ELSE NewStatus(c),
                    !.usn = IF call[c].op = "correct" THEN view.usn ELSE @,
                    !.seat = @ \/ IsApproval(c),
                    !.doc = IF IsApproval(c) THEN NoFile
                            ELSE IF call[c].op = "attach" THEN c
                            ELSE @]

(* A faulty variant: the role is named after the queue. *)
ProvisionedApplicant(c, account) ==
    [role   |-> IF call[c].mint THEN "APPLICANT" ELSE account.role,
     seated |-> account.seated \/ call[c].seat,
     usn    |-> IF call[c].seat THEN call[c].view.usn ELSE account.usn]

(* The account with the rows a transaction inserted. *)
Provisioned(c, account) ==
    [role   |-> IF call[c].mint THEN "STUDENT" ELSE account.role,
     seated |-> account.seated \/ call[c].seat,
     usn    |-> IF call[c].seat THEN call[c].view.usn ELSE account.usn]

(* The unique indexes on users and on students let the inserts through. *)
InsertsAllowed(c, e) ==
    /\ call[c].mint => users[e].role = "none"
    /\ call[c].seat => ~users[e].seated /\ ~UsnTaken(call[c].view.usn)

(* The commit of a rule or of an endpoint. *)
Commit(c) ==
    LET a == call[c].app
        e == Email(regs[a])
        rows == [regs EXCEPT ![a] = Updated(@, c)]
    IN  /\ call[c].pc = "open"
        /\ InsertsAllowed(c, e)
        /\ OneLiveEach(rows)
        /\ regs' = rows
        /\ users' = [users EXCEPT ![e] = Provisioned(c, @)]
        /\ uploads' = IF IsApproval(c) THEN [uploads EXCEPT ![e] = @ \cup ({regs[a].doc} \ {NoFile})]
                      ELSE uploads
        /\ IF IsApproval(c)
           THEN call' = [call EXCEPT ![c] = [@ EXCEPT !.pc = "mail", !.view = NoRow]]
           ELSE IF call[c].op = "submit" THEN Answered(c, call[c].form, a, "created")
           ELSE Ended(c)
        /\ UNCHANGED invited

(* A faulty variant: the invitation is mailed before the commit. *)
InviteEarly(c) ==
    LET row == regs[call[c].app]
    IN  /\ call[c].pc = "open"
        /\ IsApproval(c)
        /\ invited' = invited \cup {Email(row)}
        /\ UNCHANGED <<regs, users, uploads, call>>

(* issue_onboarding, once the approval is committed; a reviewer's request  *)
(* reads the application again before it mails.                            *)
Mail(c) ==
    LET a == call[c].app
    IN  /\ call[c].pc = "mail"
        /\ invited' = IF call[c].op = "submit" \/ regs[a].status = "APPROVED"
                      THEN invited \cup {Email(regs[a])} ELSE invited
        /\ IF call[c].op = "submit" THEN Answered(c, call[c].form, a, "created") ELSE Ended(c)
        /\ UNCHANGED <<regs, users, uploads>>

(* A request fails or its process dies: what it has not committed is gone. *)
Abort(c) ==
    /\ call[c].pc \notin {"new", "done"}
    /\ Ended(c)
    /\ UNCHANGED <<regs, users, uploads, invited>>

(* grant_access makes a staff account of an address that has none. *)
Grant(e) ==
    /\ users[e].role = "none"
    /\ users' = [users EXCEPT ![e].role = "STAFF"]
    /\ UNCHANGED <<regs, uploads, call, invited>>

Next ==
    \/ \E c \in Calls :
        \/ \E f \in Forms : Submit(c, f)
        \/ \E a \in Apps : Save(c, a)
        \/ Refresh(c) \/ ApplyRule(c)
        \/ \E op \in Ops, a \in Apps, u \in Usns : Open(c, op, a, u)
        \/ Commit(c) \/ Mail(c) \/ Abort(c)
    \/ \E e \in Emails : Grant(e)

Spec == Init /\ [][Next]_vars

-----------------------------------------------------------------------------
(* Type correctness of the tables, of the requests and of the mails. *)
TypeOK ==
    /\ regs \in [Apps -> Row]
    /\ users \in [Emails -> Account]
    /\ uploads \in [Emails -> SUBSET Calls]
    /\ call \in [Calls -> Request]
    /\ invited \subseteq Emails

(* An approved application has its account and its seat behind it, however *)
(* rule, reviewers and other applications for the same address or USN ran  *)
(* into each other.                                                        *)
ApprovedIsSeated ==
    \A a \in Apps : regs[a].status \in Approved =>
        /\ regs[a].seat
        /\ users[Email(regs[a])].role = "STUDENT"
        /\ users[Email(regs[a])].seated

(* No step of the queue seats an account that belongs to staff, not even   *)
(* one that was made after the address was looked up.                      *)
StaffKeepOut ==
    \A e \in Emails : users[e].role = "STAFF" => ~users[e].seated /\ uploads[e] = {}

(* A file is named by one row only: the CV of an application until it is   *)
(* approved, an upload of one student from then on.                        *)
FilesOwnedOnce ==
    /\ \A a \in Apps : regs[a].status \in Approved => regs[a].doc = NoFile
    /\ \A a, b \in Apps : regs[a].doc = regs[b].doc => a = b \/ regs[a].doc = NoFile
    /\ \A e \in Emails : \A a \in Apps : regs[a].doc \notin uploads[e]
    /\ \A e, g \in Emails : e # g => uploads[e] \cap uploads[g] = {}

(* A submit is answered with an application of its own form, and refused   *)
(* as a duplicate only if a different form has applied for the address.    *)
AnsweredWithOwn ==
    \A c \in Calls :
        /\ call[c].answer = "created" => regs[call[c].app].form = call[c].form
        /\ call[c].answer = "conflict" =>
              \E a \in Apps : /\ regs[a].status # "ABSENT"
                              /\ regs[a].form # call[c].form
                              /\ Email(regs[a]) = EmailOf[call[c].form]

(* An invitation goes only to an address whose student account is there,   *)
(* though requests fail before their commit.                               *)
InvitedCanSignIn == \A e \in invited : users[e].role = "STUDENT" /\ users[e].seated

-----------------------------------------------------------------------------
(* What documents say of the queue and the code does not do. *)

(* "The roster is the access control", and an application that a rule would *)
(* approve but provisioning refuses goes to the queue, "where a human       *)
(* decision belongs": an address has a student account only if one of its   *)
(* applications was approved.                                               *)
NoAccountUnapproved ==
    \A e \in Emails : users[e].role = "STUDENT" =>
        \E a \in Apps : Email(regs[a]) = e /\ regs[a].seat

=============================================================================
