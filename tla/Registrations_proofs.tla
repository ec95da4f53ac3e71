------------------------- MODULE Registrations_proofs -------------------------
(***************************************************************************)
(* What holds of applications for any number of forms, rows and requests.  *)
(* The argument is that whatever a transaction read of other tables it     *)
(* either still finds when it commits, because seats and student accounts  *)
(* stay, or one of the unique indexes refuses the commit.                  *)
(***************************************************************************)
EXTENDS Registrations, TLAPS

\* A request that has an application.
HasApp(c) == call[c].pc \in {"saved", "fresh", "open", "mail"}

\* An address has its student account and its seat.
Housed(e) == users[e].role = "STUDENT" /\ users[e].seated

(* A row that was approved, whatever became of it since, has its account.  *)
SeatIsAccount == \A a \in Apps : regs[a].seat => Housed(Email(regs[a]))

ApprovedHasSeat == \A a \in Apps : regs[a].status \in Approved => regs[a].seat

(* Only students have a seat and uploads. *)
OnlyStudentsHold == \A e \in Emails : users[e].role # "STUDENT" => ~users[e].seated /\ uploads[e] = {}

RowsInv == SeatIsAccount /\ ApprovedHasSeat /\ OnlyStudentsHold /\ FilesOwnedOnce /\ InvitedCanSignIn

(* Where a request is says what it is. *)
Shape(c) ==
    /\ call[c].pc # "done" => call[c].answer = "none"
    /\ call[c].pc \in {"new", "clear", "saved", "fresh"} =>
          call[c].op = "submit" /\ call[c].rule = "none" /\ ~call[c].mint /\ ~call[c].seat
    /\ call[c].pc = "open" => (call[c].op = "submit" <=> call[c].rule # "none")

(* Its application is there, and a submit's is of its own form. *)
OwnApp(c) ==
    HasApp(c) =>
        /\ regs[call[c].app].status # "ABSENT"
        /\ call[c].op = "submit" => regs[call[c].app].form = call[c].form

(* The copy it works on is of that row: the form is final, a seat stays.   *)
ViewOfApp(c) ==
    call[c].pc \in {"fresh", "open"} =>
        /\ call[c].view.status # "ABSENT"
        /\ call[c].view.form = regs[call[c].app].form
        /\ call[c].view.seat => regs[call[c].app].seat

(* A replacement of the CV is for a row that waits for its decision.       *)
AttachesToWaiting(c) ==
    call[c].pc = "open" /\ call[c].op = "attach" => regs[call[c].app].status \in Waiting

(* An approval finds an account and a seat or brings what is missing.      *)
Provides(c) ==
    LET e == Email(regs[call[c].app])
    IN  call[c].pc = "open" =>
            /\ call[c].seat => IsApproval(c)
            /\ IsApproval(c) => /\ call[c].mint \/ users[e].role = "STUDENT"
                                /\ call[c].seat \/ users[e].seated

(* An approval is mailed once it is committed. *)
MailIsDue(c) == call[c].pc = "mail" => Housed(Email(regs[call[c].app]))

(* An answer speaks of a row that is there. *)
AnswerIsTrue(c) ==
    /\ call[c].answer = "created" =>
          regs[call[c].app].status # "ABSENT" /\ regs[call[c].app].form = call[c].form
    /\ call[c].answer = "conflict" =>
          \E a \in Apps : /\ regs[a].status # "ABSENT"
                          /\ regs[a].form # call[c].form
                          /\ Email(regs[a]) = EmailOf[call[c].form]

(* The file of a request that has not stored it is nobody's. *)
FileIsFree(c) ==
    call[c].pc \in {"new", "clear"} \/ (call[c].pc = "open" /\ call[c].op = "attach") =>
        /\ \A a \in Apps : regs[a].doc # c
        /\ \A e \in Emails : c \notin uploads[e]

Fits(c) ==
    /\ Shape(c) /\ OwnApp(c) /\ ViewOfApp(c) /\ AttachesToWaiting(c) /\ Provides(c)
    /\ MailIsDue(c) /\ AnswerIsTrue(c) /\ FileIsFree(c)

CallsInv == \A c \in Calls : Fits(c)

(* Two transactions never hold one row. *)
LocksExclude ==
    \A c, d \in Calls :
        call[c].pc = "open" /\ call[d].pc = "open" /\ call[c].app = call[d].app => c = d

(* The inductive invariant. *)
RegistrationsInv == TypeOK /\ RowsInv /\ CallsInv /\ LocksExclude

-----------------------------------------------------------------------------
(* The placeholders are of the types they stand in for. *)
LEMMA Placeholders == NoRow \in Row /\ NoAccount \in Account /\ NoRequest \in Request
<1> USE ConstantsAssumption
<1>1. (CHOOSE f \in Forms : TRUE) \in Forms /\ (CHOOSE u \in Usns : TRUE) \in Usns /\ (CHOOSE a \in Apps : TRUE) \in Apps
  OBVIOUS
<1>2. NoRow \in Row
  BY <1>1 DEF NoRow, Row, Status
<1>3. NoAccount \in Account
  BY <1>1 DEF NoAccount, Account
<1>4. NoRow.form \in Forms
  BY <1>1 DEF NoRow
<1>5. NoRequest \in Request
  BY <1>1, <1>2, <1>4 DEF NoRequest, Request, Ops
<1> QED
  BY <1>2, <1>3, <1>5

(* It holds before the first form. *)
LEMMA InitInv == Init => RegistrationsInv
<1> SUFFICES ASSUME Init PROVE RegistrationsInv
  OBVIOUS
<1> USE ConstantsAssumption DEF Init
<1>1. TypeOK
  BY Placeholders DEF TypeOK
<1>2. \A a \in Apps : regs[a].status = "ABSENT" /\ ~regs[a].seat /\ regs[a].doc = NoFile
  BY DEF NoRow
<1>3. \A c \in Calls : /\ call[c].pc = "new" /\ call[c].answer = "none" /\ call[c].op = "submit"
                       /\ call[c].rule = "none" /\ ~call[c].mint /\ ~call[c].seat
  BY DEF NoRequest
<1>4. RowsInv
  BY <1>2 DEF RowsInv, SeatIsAccount, ApprovedHasSeat, Approved, OnlyStudentsHold, FilesOwnedOnce,
              InvitedCanSignIn, NoAccount
<1>5. CallsInv
  <2> SUFFICES ASSUME NEW c \in Calls PROVE Fits(c)
    BY DEF CallsInv
  <2>1. FileIsFree(c)
    BY <1>2 DEF FileIsFree
  <2> QED
    BY <1>3, <2>1 DEF Fits, Shape, OwnApp, HasApp, ViewOfApp, AttachesToWaiting, Provides, MailIsDue,
                      AnswerIsTrue
<1> QED
  BY <1>1, <1>3, <1>4, <1>5 DEF RegistrationsInv, LocksExclude

-----------------------------------------------------------------------------
(* A row that is there stays, with its form, and keeps its seat. *)
RowsGrow ==
    \A a \in Apps : regs[a].status # "ABSENT" =>
        /\ regs'[a].status # "ABSENT"
        /\ regs'[a].form = regs[a].form
        /\ regs[a].seat => regs'[a].seat

(* So do student accounts and their seats. *)
UsersGrow ==
    \A e \in Emails :
        /\ users[e].role = "STUDENT" => users'[e].role = "STUDENT"
        /\ users[e].seated => users'[e].seated

(* What holds of a request outlives the steps of others. *)
LEMMA FitsKept ==
    ASSUME TypeOK, NEW c \in Calls, Fits(c), call'[c] = call[c], RowsGrow, UsersGrow,
           call[c].pc = "open" => regs'[call[c].app] = regs[call[c].app], FileIsFree(c)'
    PROVE  Fits(c)'
<1> USE DEF Fits
<1>1. call[c] \in Request /\ call[c].app \in Apps /\ call[c].form \in Forms
  BY DEF TypeOK, Request
<1>2. \A a \in Apps : Email(regs[a]) \in Emails
  BY ConstantsAssumption DEF TypeOK, Row, Email
<1>3. HasApp(c) => /\ regs[call[c].app].status # "ABSENT" /\ regs'[call[c].app].status # "ABSENT"
                   /\ regs'[call[c].app].form = regs[call[c].app].form
                   /\ Email(regs'[call[c].app]) = Email(regs[call[c].app])
                   /\ regs[call[c].app].seat => regs'[call[c].app].seat
  BY <1>1 DEF OwnApp, RowsGrow, Email
<1>4. Shape(c)' /\ OwnApp(c)' /\ ViewOfApp(c)'
  BY <1>3 DEF Shape, OwnApp, ViewOfApp, HasApp
<1>5. AttachesToWaiting(c)'
  BY DEF AttachesToWaiting
<1>6. Provides(c)'
  <2> SUFFICES ASSUME call[c].pc = "open"
               PROVE  LET e == Email(regs'[call[c].app])
                      IN  /\ call[c].seat => IsApproval(c)
                          /\ IsApproval(c) => /\ call[c].mint \/ users'[e].role = "STUDENT"
                                              /\ call[c].seat \/ users'[e].seated
    BY DEF Provides, IsApproval
  <2>1. Email(regs[call[c].app]) \in Emails
    BY <1>1, <1>2
  <2> QED
    BY <1>3, <2>1 DEF Provides, UsersGrow, HasApp
<1>7. MailIsDue(c)'
  BY <1>1, <1>2, <1>3 DEF MailIsDue, Housed, UsersGrow, HasApp
<1>8. AnswerIsTrue(c)'
  <2>1. \A a \in Apps : regs[a].status # "ABSENT" =>
            regs'[a].status # "ABSENT" /\ regs'[a].form = regs[a].form /\ Email(regs'[a]) = Email(regs[a])
    BY DEF RowsGrow, Email
  <2> QED
    BY <1>1, <2>1 DEF AnswerIsTrue
<1> QED
  BY <1>4, <1>5, <1>6, <1>7, <1>8

(* What holds of the rows does not speak of the requests. *)
LEMMA RowsKept ==
    ASSUME RowsInv, UNCHANGED <<regs, users, uploads, invited>>
    PROVE  RowsInv'
BY DEF RowsInv, SeatIsAccount, ApprovedHasSeat, OnlyStudentsHold, FilesOwnedOnce, InvitedCanSignIn, Housed

(* A step that moves one request on and writes no row. *)
LEMMA RequestStep ==
    ASSUME RegistrationsInv, NEW c \in Calls, NEW new, new \in Request,
           call' = [call EXCEPT ![c] = new], UNCHANGED <<regs, users, uploads, invited>>,
           new.pc = "open" => ~Locked(new.app),
           Fits(c)'
    PROVE  RegistrationsInv'
<1> USE DEF RegistrationsInv
<1>1. call'[c] = new /\ \A d \in Calls \ {c} : call'[d] = call[d]
  BY DEF TypeOK
<1>2. TypeOK'
  BY DEF TypeOK
<1>3. RowsGrow /\ UsersGrow
  BY DEF RowsGrow, UsersGrow
<1>4. CallsInv'
  <2> SUFFICES ASSUME NEW d \in Calls PROVE Fits(d)'
    BY DEF CallsInv
  <2>1. CASE d # c
    <3>1. call'[d] = call[d] /\ Fits(d)
      BY <1>1, <2>1 DEF CallsInv
    <3>2. FileIsFree(d)'
      BY <3>1 DEF Fits, FileIsFree
    <3> QED
      BY <1>3, <3>1, <3>2, FitsKept
  <2> QED
    BY <2>1
<1>5. LocksExclude'
  BY <1>1 DEF LocksExclude, Locked
<1> QED
  BY <1>2, <1>4, <1>5, RowsKept

-----------------------------------------------------------------------------
(* A request that has ended fits. *)
LEMMA EndedFits ==
    ASSUME RegistrationsInv, NEW c \in Calls, Ended(c)
    PROVE  \E new \in Request : /\ call' = [call EXCEPT ![c] = new]
                                /\ new.pc = "done" /\ Fits(c)'
<1> DEFINE new == [NoRequest EXCEPT !.pc = "done"]
<1>1. new \in Request /\ new.pc = "done" /\ new.answer = "none"
  BY Placeholders DEF Request, NoRequest
<1>2. call' = [call EXCEPT ![c] = new]
  BY DEF Ended
<1> HIDE DEF new
<1>3. call'[c] = new
  BY <1>2 DEF RegistrationsInv, TypeOK
<1>4. Fits(c)'
  BY <1>1, <1>3 DEF Fits, Shape, OwnApp, HasApp, ViewOfApp, AttachesToWaiting, Provides, MailIsDue,
                    AnswerIsTrue, FileIsFree
<1> QED
  BY <1>1, <1>2, <1>4

(* A request that was answered truly fits. *)
LEMMA AnsweredFits ==
    ASSUME RegistrationsInv, NEW c \in Calls, NEW f \in Forms, NEW a \in Apps,
           NEW answer \in {"created", "conflict"}, Answered(c, f, a, answer),
           regs'[a].status # "ABSENT",
           answer = "created" => regs'[a].form = f,
           answer = "conflict" => regs'[a].form # f /\ Email(regs'[a]) = EmailOf[f]
    PROVE  \E new \in Request : /\ call' = [call EXCEPT ![c] = new]
                                /\ new.pc = "done" /\ Fits(c)'
<1> DEFINE new == [NoRequest EXCEPT !.pc = "done", !.form = f, !.app = a, !.answer = answer]
<1>1. new \in Request /\ new.pc = "done" /\ new.answer = answer /\ new.app = a /\ new.form = f
  BY Placeholders DEF Request, NoRequest
<1>2. call' = [call EXCEPT ![c] = new]
  BY DEF Answered
<1> HIDE DEF new
<1>3. call'[c] = new
  BY <1>2 DEF RegistrationsInv, TypeOK
<1>4. Shape(c)' /\ OwnApp(c)' /\ ViewOfApp(c)' /\ AttachesToWaiting(c)' /\ Provides(c)' /\ MailIsDue(c)'
      /\ FileIsFree(c)'
  BY <1>1, <1>3 DEF Shape, OwnApp, HasApp, ViewOfApp, AttachesToWaiting, Provides, MailIsDue, FileIsFree
<1>5. AnswerIsTrue(c)'
  BY <1>1, <1>3 DEF AnswerIsTrue
<1> QED
  BY <1>1, <1>2, <1>4, <1>5 DEF Fits

(* An answer to a duplicate is true. *)
LEMMA DuplicateFits ==
    ASSUME RegistrationsInv, UNCHANGED regs, NEW c \in Calls, NEW f \in Forms,
           NEW as, as \subseteq LiveOf(EmailOf[f]), DuplicateAnswer(c, f, as)
    PROVE  \E new \in Request : /\ call' = [call EXCEPT ![c] = new]
                                /\ new.pc = "done" /\ Fits(c)'
<1>1. PICK a \in as : Answered(c, f, a, IF regs[a].form = f THEN "created" ELSE "conflict")
  BY DEF DuplicateAnswer
<1>2. a \in Apps /\ regs[a].status # "ABSENT" /\ Email(regs[a]) = EmailOf[f]
  BY DEF LiveOf, IsLive
<1>3. regs'[a] = regs[a] /\ Email(regs'[a]) = EmailOf[f]
  BY <1>2
<1>4. CASE regs[a].form = f
  <2>1. Answered(c, f, a, "created")
    BY <1>1, <1>4
  <2> QED
    BY <1>2, <1>3, <1>4, <2>1, AnsweredFits
<1>5. CASE regs[a].form # f
  <2>1. Answered(c, f, a, "conflict")
    BY <1>1, <1>5
  <2> QED
    BY <1>2, <1>3, <1>5, <2>1, AnsweredFits
<1> QED
  BY <1>4, <1>5

(* A new form looks the address up, and writes nothing. *)
LEMMA SubmitInv ==
    ASSUME RegistrationsInv, NEW c \in Calls, NEW f \in Forms, Submit(c, f)
    PROVE  RegistrationsInv'
<1> USE DEF Submit
<1>1. CASE DuplicateAnswer(c, f, LiveOf(EmailOf[f]))
  BY <1>1, DuplicateFits, RequestStep
<1>2. CASE call' = [call EXCEPT ![c].pc = "clear", ![c].form = f]
  <2> DEFINE new == [call[c] EXCEPT !.pc = "clear", !.form = f]
  <2>1. call[c] \in Request /\ Fits(c)
    BY DEF RegistrationsInv, TypeOK, CallsInv
  <2>2. new \in Request /\ new.pc = "clear" /\ new.answer = call[c].answer /\ new.op = call[c].op
        /\ new.rule = call[c].rule /\ new.mint = call[c].mint /\ new.seat = call[c].seat
    BY <2>1 DEF Request
  <2>3. call' = [call EXCEPT ![c] = new]
    BY <1>2
  <2> HIDE DEF new
  <2>4. call'[c] = new
    BY <2>3 DEF RegistrationsInv, TypeOK
  <2>5. FileIsFree(c)'
    BY <2>1 DEF Fits, FileIsFree
  <2>6. Shape(c)' /\ AnswerIsTrue(c)'
    BY <2>1, <2>2, <2>4 DEF Fits, Shape, AnswerIsTrue
  <2>7. Fits(c)'
    BY <2>2, <2>4, <2>5, <2>6 DEF Fits, OwnApp, HasApp, ViewOfApp, AttachesToWaiting, Provides, MailIsDue
  <2> QED
    BY <2>2, <2>3, <2>7, RequestStep
<1> QED
  BY <1>1, <1>2

(* The row is read again as it is. *)
LEMMA RefreshInv ==
    ASSUME RegistrationsInv, NEW c \in Calls, Refresh(c)
    PROVE  RegistrationsInv'
<1> USE DEF Refresh
<1> DEFINE new == [call[c] EXCEPT !.pc = "fresh", !.view = regs[call[c].app]]
<1>1. call[c] \in Request /\ Fits(c) /\ regs[call[c].app] \in Row
  BY DEF RegistrationsInv, TypeOK, CallsInv, Request
<1>2. new \in Request /\ new.pc = "fresh" /\ new.answer = call[c].answer /\ new.op = call[c].op
      /\ new.rule = call[c].rule /\ new.mint = call[c].mint /\ new.seat = call[c].seat
      /\ new.app = call[c].app /\ new.form = call[c].form /\ new.view = regs[call[c].app]
  BY <1>1 DEF Request
<1>3. call' = [call EXCEPT ![c] = new]
  OBVIOUS
<1> HIDE DEF new
<1>4. call'[c] = new
  BY <1>3 DEF RegistrationsInv, TypeOK
<1>5. OwnApp(c)' /\ ViewOfApp(c)'
  BY <1>1, <1>2, <1>4 DEF Fits, OwnApp, HasApp, ViewOfApp
<1>6. Fits(c)'
  BY <1>1, <1>2, <1>4, <1>5 DEF Fits, Shape, AnswerIsTrue, AttachesToWaiting, Provides, MailIsDue, FileIsFree
<1> QED
  BY <1>2, <1>3, <1>6, RequestStep

(* A request that fails has written nothing. *)
LEMMA AbortInv ==
    ASSUME RegistrationsInv, NEW c \in Calls, Abort(c)
    PROVE  RegistrationsInv'
BY EndedFits, RequestStep DEF Abort

(* What an approval that is not refused brings or finds. *)
LEMMA ApprovalProvides ==
    ASSUME RegistrationsInv, NEW a \in Apps, NEW row \in Row, row.form = regs[a].form,
           row.seat => regs[a].seat
    PROVE  LET e == Email(regs[a])
           IN  /\ Seats(row) => ~Refused(row)
               /\ ~Refused(row) => /\ Mints(row) \/ users[e].role = "STUDENT"
                                   /\ Seats(row) \/ users[e].seated
<1>1. Email(row) = Email(regs[a]) /\ Email(regs[a]) \in Emails
  BY ConstantsAssumption DEF RegistrationsInv, TypeOK, Row, Email
<1>2. regs[a].seat => Housed(Email(regs[a]))
  BY DEF RegistrationsInv, RowsInv, SeatIsAccount
<1>3. users[Email(regs[a])].role \in {"none", "STUDENT", "STAFF"}
  BY <1>1 DEF RegistrationsInv, TypeOK, Account
<1> QED
  BY <1>1, <1>2, <1>3 DEF Seats, Mints, Refused, BarredAddress, Housed

(* The rule opens its transaction on the copy it has. *)
LEMMA ApplyRuleInv ==
    ASSUME RegistrationsInv, NEW c \in Calls, ApplyRule(c)
    PROVE  RegistrationsInv'
<1> DEFINE a == call[c].app
           row == call[c].view
<1>1. call[c] \in Request /\ Fits(c) /\ a \in Apps /\ row \in Row /\ call[c].pc = "fresh"
  BY DEF RegistrationsInv, TypeOK, CallsInv, Request, ApplyRule
<1>2. /\ row.status # "ABSENT" /\ row.form = regs[a].form /\ (row.seat => regs[a].seat)
      /\ regs[a].status # "ABSENT" /\ regs[a].form = call[c].form
      /\ call[c].op = "submit" /\ call[c].rule = "none" /\ ~call[c].mint /\ ~call[c].seat /\ call[c].answer = "none"
  BY <1>1 DEF Fits, Shape, OwnApp, HasApp, ViewOfApp
<1>3. PICK rule \in {"approve", "queue"}, mint \in BOOLEAN, seat \in BOOLEAN :
          /\ call' = [call EXCEPT ![c] = [call[c] EXCEPT !.pc = "open", !.rule = rule, !.mint = mint, !.seat = seat]]
          /\ seat => rule = "approve"
          /\ rule = "approve" => /\ mint \/ users[Email(regs[a])].role = "STUDENT"
                                 /\ seat \/ users[Email(regs[a])].seated
  <2>1. CASE call' = [call EXCEPT ![c].pc = "open", ![c].rule = "queue"]
    <3>1. [call[c] EXCEPT !.pc = "open", !.rule = "queue", !.mint = FALSE, !.seat = FALSE]
            = [call[c] EXCEPT !.pc = "open", !.rule = "queue"]
      BY <1>1, <1>2 DEF Request
    <3>2. call' = [call EXCEPT ![c] = [call[c] EXCEPT !.pc = "open", !.rule = "queue", !.mint = FALSE, !.seat = FALSE]]
      BY <2>1, <3>1
    <3> QED
      BY <3>2
  <2>2. CASE call' = [call EXCEPT ![c].pc = "open",
                          ![c].rule = IF Refused(row) THEN "queue" ELSE "approve",
                          ![c].mint = Mints(row), ![c].seat = Seats(row)]
    <3>1. Mints(row) \in BOOLEAN /\ Seats(row) \in BOOLEAN
      BY <1>1 DEF Mints, Seats, Refused, BarredAddress, UsnClash
    <3>2. /\ Seats(row) => ~Refused(row)
          /\ ~Refused(row) => /\ Mints(row) \/ users[Email(regs[a])].role = "STUDENT"
                              /\ Seats(row) \/ users[Email(regs[a])].seated
      BY <1>1, <1>2, ApprovalProvides
    <3>3. call' = [call EXCEPT ![c] = [call[c] EXCEPT !.pc = "open",
                       !.rule = IF Refused(row) THEN "queue" ELSE "approve",
                       !.mint = Mints(row), !.seat = Seats(row)]]
      BY <2>2
    <3> QED
      BY <3>1, <3>2, <3>3
  <2> QED
    BY <2>1, <2>2 DEF ApplyRule
<1> DEFINE new == [call[c] EXCEPT !.pc = "open", !.rule = rule, !.mint = mint, !.seat = seat]
<1>4. /\ new \in Request /\ new.pc = "open" /\ new.rule = rule /\ new.mint = mint /\ new.seat = seat
      /\ new.op = "submit" /\ new.answer = "none" /\ new.app = a /\ new.view = row /\ new.form = call[c].form
  BY <1>1, <1>2 DEF Request
<1>5. call' = [call EXCEPT ![c] = new]
  BY <1>3
<1> HIDE DEF new
<1>6. call'[c] = new
  BY <1>5 DEF RegistrationsInv, TypeOK
<1>7. UNCHANGED <<regs, users, uploads, invited>> /\ ~Locked(a)
  BY DEF ApplyRule
<1>8. Provides(c)'
  BY <1>3, <1>4, <1>6, <1>7 DEF Provides, IsApproval, Email
<1>9. Shape(c)' /\ OwnApp(c)' /\ ViewOfApp(c)' /\ AttachesToWaiting(c)' /\ MailIsDue(c)' /\ AnswerIsTrue(c)'
      /\ FileIsFree(c)'
  BY <1>2, <1>4, <1>6, <1>7 DEF Shape, OwnApp, HasApp, ViewOfApp, AttachesToWaiting, MailIsDue, AnswerIsTrue, FileIsFree
<1> QED
  BY <1>4, <1>5, <1>7, <1>8, <1>9, RequestStep DEF Fits

(* An endpoint opens its transaction on a row it has locked. *)
LEMMA OpenInv ==
    ASSUME RegistrationsInv, NEW c \in Calls, NEW op \in Ops, NEW a \in Apps, NEW u \in Usns, Open(c, op, a, u)
    PROVE  RegistrationsInv'
<1> DEFINE view == [regs[a] EXCEPT !.usn = u]
           new == [NoRequest EXCEPT !.pc = "open", !.op = op, !.app = a, !.view = view,
                       !.mint = op = "approve" /\ Mints(regs[a]),
                       !.seat = op = "approve" /\ Seats(regs[a])]
<1>1. regs[a] \in Row /\ Fits(c) /\ call[c].pc = "new"
  BY DEF RegistrationsInv, TypeOK, CallsInv, Open
<1>2. /\ regs[a].status # "ABSENT"
      /\ op # "submit"
      /\ op = "attach" => regs[a].status \in Waiting
  BY DEF Open, Accepts, Waiting, Decided
<1>3. view \in Row /\ view.status = regs[a].status /\ view.form = regs[a].form /\ view.seat = regs[a].seat
  BY <1>1 DEF Row
<1>4. Mints(regs[a]) \in BOOLEAN /\ Seats(regs[a]) \in BOOLEAN
  BY <1>1 DEF Mints, Seats, Refused, BarredAddress, UsnClash
<1>5. call' = [call EXCEPT ![c] = new] /\ UNCHANGED <<regs, users, uploads, invited>> /\ ~Locked(a)
      /\ (op = "approve" => ~Refused(regs[a]))
  BY DEF Open, MayRead
<1>6. op = "approve" => /\ Mints(regs[a]) \/ users[Email(regs[a])].role = "STUDENT"
                        /\ Seats(regs[a]) \/ users[Email(regs[a])].seated
  BY <1>1, <1>5, ApprovalProvides
<1> HIDE DEF view
<1>7. /\ new \in Request /\ new.pc = "open" /\ new.rule = "none" /\ new.op = op /\ new.app = a
      /\ new.answer = "none" /\ new.view = view
      /\ new.mint = (op = "approve" /\ Mints(regs[a])) /\ new.seat = (op = "approve" /\ Seats(regs[a]))
  BY <1>3, <1>4, Placeholders DEF Request, NoRequest
<1> HIDE DEF new
<1>8. call'[c] = new
  BY <1>5 DEF RegistrationsInv, TypeOK
<1>9. Provides(c)'
  BY <1>5, <1>6, <1>7, <1>8 DEF Provides, IsApproval, Email
<1>10. FileIsFree(c)'
  BY <1>1, <1>5 DEF Fits, FileIsFree
<1>11. Shape(c)' /\ OwnApp(c)' /\ ViewOfApp(c)' /\ AttachesToWaiting(c)' /\ MailIsDue(c)' /\ AnswerIsTrue(c)'
  BY <1>2, <1>3, <1>5, <1>7, <1>8 DEF Shape, OwnApp, HasApp, ViewOfApp, AttachesToWaiting, MailIsDue, AnswerIsTrue
<1> QED
  BY <1>5, <1>7, <1>9, <1>10, <1>11, RequestStep DEF Fits

-----------------------------------------------------------------------------
(* The insert of an application, with a file that nobody has. *)
LEMMA SaveInv ==
    ASSUME RegistrationsInv, NEW c \in Calls, NEW a \in Apps, Save(c, a)
    PROVE  RegistrationsInv'
<1> USE DEF RegistrationsInv
<1> DEFINE f == call[c].form
<1>1. call[c] \in Request /\ Fits(c) /\ call[c].pc = "clear" /\ f \in Forms
  BY DEF TypeOK, CallsInv, Request, Save
<1>2. CASE /\ a \in LiveOf(EmailOf[f])
           /\ DuplicateAnswer(c, f, {a})
           /\ UNCHANGED regs
  BY <1>1, <1>2, DuplicateFits, RequestStep DEF Save
<1>3. CASE /\ regs[a].status = "ABSENT"
           /\ regs' = [regs EXCEPT ![a] =
                 [status |-> "PENDING_REVIEW", form |-> f, usn |-> UsnOf[f], seat |-> FALSE, doc |-> c]]
           /\ call' = [call EXCEPT ![c].pc = "saved", ![c].app = a]
  <2> DEFINE row == [status |-> "PENDING_REVIEW", form |-> f, usn |-> UsnOf[f], seat |-> FALSE, doc |-> c]
             new == [call[c] EXCEPT !.pc = "saved", !.app = a]
  <2>1. row \in Row /\ row.status = "PENDING_REVIEW" /\ row.form = f /\ ~row.seat /\ row.doc = c
    BY <1>1, ConstantsAssumption DEF Row, Status
  <2>2. /\ new \in Request /\ new.pc = "saved" /\ new.app = a /\ new.form = f /\ new.op = call[c].op
        /\ new.rule = call[c].rule /\ new.mint = call[c].mint /\ new.seat = call[c].seat
        /\ new.answer = call[c].answer
    BY <1>1 DEF Request
  <2>3. regs' = [regs EXCEPT ![a] = row] /\ call' = [call EXCEPT ![c] = new]
    BY <1>3
  <2> HIDE DEF row, new
  <2>4. /\ regs'[a] = row /\ \A b \in Apps \ {a} : regs'[b] = regs[b]
        /\ call'[c] = new /\ \A d \in Calls \ {c} : call'[d] = call[d]
    BY <2>3 DEF TypeOK
  <2>5. UNCHANGED <<users, uploads, invited>>
    BY DEF Save
  <2>6. TypeOK'
    BY <2>1, <2>2, <2>3, <2>5 DEF TypeOK
  <2>7. RowsGrow /\ UsersGrow
    BY <1>3, <2>4, <2>5 DEF RowsGrow, UsersGrow
  <2>8. /\ \A b \in Apps : regs[b].doc # c
        /\ \A e \in Emails : c \notin uploads[e]
    BY <1>1 DEF Fits, FileIsFree
  <2>9. RowsInv'
    <3>1. SeatIsAccount' /\ ApprovedHasSeat'
      BY <2>1, <2>4, <2>5 DEF RowsInv, SeatIsAccount, ApprovedHasSeat, Approved, Housed, Email
    <3>2. FilesOwnedOnce'
      BY <2>1, <2>4, <2>5, <2>8 DEF RowsInv, FilesOwnedOnce, Approved
    <3> QED
      BY <2>5, <3>1, <3>2 DEF RowsInv, OnlyStudentsHold, InvitedCanSignIn
  <2>10. CallsInv'
    <3> SUFFICES ASSUME NEW d \in Calls PROVE Fits(d)'
      BY DEF CallsInv
    <3>1. CASE d # c
      <4>1. call'[d] = call[d] /\ Fits(d)
        BY <2>4, <3>1 DEF CallsInv
      <4>2. call[d].pc = "open" => call[d].app \in Apps /\ regs[call[d].app].status # "ABSENT"
        BY <4>1 DEF Fits, OwnApp, HasApp, TypeOK, Request
      <4>3. call[d].pc = "open" => regs'[call[d].app] = regs[call[d].app]
        BY <1>3, <2>4, <4>2
      <4>4. FileIsFree(d)'
        BY <2>1, <2>4, <2>5, <3>1, <4>1 DEF Fits, FileIsFree
      <4> QED
        BY <2>7, <4>1, <4>3, <4>4, FitsKept
    <3>2. CASE d = c
      BY <1>1, <2>1, <2>2, <2>4, <3>2 DEF Fits, Shape, OwnApp, HasApp, ViewOfApp, AttachesToWaiting,
            Provides, MailIsDue, AnswerIsTrue, FileIsFree
    <3> QED
      BY <3>1, <3>2
  <2>11. LocksExclude'
    BY <2>2, <2>4 DEF LocksExclude
  <2> QED
    BY <2>6, <2>9, <2>10, <2>11
<1> QED
  BY <1>2, <1>3 DEF Save

-----------------------------------------------------------------------------
(* What a commit makes of the row. *)
LEMMA UpdatedRow ==
    ASSUME RegistrationsInv, NEW c \in Calls, call[c].pc = "open",
           NEW row \in Row, row = regs[call[c].app]
    PROVE  LET new == Updated(row, c)
           IN  /\ new \in Row /\ new.status # "ABSENT" /\ new.form = row.form
               /\ row.seat => new.seat
               /\ IsApproval(c) => new.seat /\ new.doc = NoFile
               /\ new.status \in Approved => new.seat /\ new.doc = NoFile
               /\ new.doc \in {row.doc, NoFile, c}
               /\ new.doc = c => row.doc = c \/ call[c].op = "attach"
               /\ new.seat => row.seat \/ IsApproval(c)
<1> DEFINE view == call[c].view
           new == Updated(row, c)
<1>1. call[c] \in Request /\ view \in Row /\ Fits(c) /\ call[c].app \in Apps
  BY DEF RegistrationsInv, CallsInv, TypeOK, Request
<1>2. row.status # "ABSENT" /\ view.status # "ABSENT" /\ (call[c].op = "submit" <=> call[c].rule # "none")
      /\ (call[c].op = "attach" => row.status \in Waiting)
  BY <1>1 DEF Fits, Shape, OwnApp, HasApp, ViewOfApp, AttachesToWaiting
<1>3. row.status \in Approved => row.seat /\ row.doc = NoFile
  BY <1>1 DEF RegistrationsInv, RowsInv, ApprovedHasSeat, FilesOwnedOnce
<1>4. NewStatus(c) \in Status \ {"ABSENT"}
  BY <1>1, <1>2 DEF NewStatus, Status, Row
<1>5. NewStatus(c) \in Approved => IsApproval(c) \/ NewStatus(c) = view.status
  BY <1>1 DEF NewStatus, IsApproval, Approved
<1>6. /\ new.status = IF NewStatus(c) = view.status THEN row.status ELSE NewStatus(c)
      /\ new.usn = IF call[c].op = "correct" THEN view.usn ELSE row.usn
      /\ new.seat = (row.seat \/ IsApproval(c))
      /\ new.doc = IF IsApproval(c) THEN NoFile ELSE IF call[c].op = "attach" THEN c ELSE row.doc
      /\ new.form = row.form
  BY DEF Updated, Row
<1>7. new \in Row
  BY <1>1, <1>4 DEF Updated, Row, IsApproval
<1>8. NoFile # c
  BY ConstantsAssumption
<1>9. new.status \in Approved => new.seat /\ new.doc = NoFile
  BY <1>2, <1>3, <1>5, <1>6 DEF Approved, Waiting
<1>10. new.doc \in {row.doc, NoFile, c} /\ (new.doc = c => row.doc = c \/ call[c].op = "attach")
  BY <1>6, <1>8
<1>11. new.status # "ABSENT"
  BY <1>2, <1>4, <1>6
<1>12. new.form = row.form /\ (row.seat => new.seat) /\ (new.seat => row.seat \/ IsApproval(c))
       /\ (IsApproval(c) => new.seat /\ new.doc = NoFile)
  BY <1>6
<1> HIDE DEF new
<1> QED
  BY <1>7, <1>9, <1>10, <1>11, <1>12 DEF new

(* What a commit makes of the account, if the unique indexes let it. *)
LEMMA ProvisionedAccount ==
    ASSUME RegistrationsInv, NEW c \in Calls, call[c].pc = "open",
           NEW e \in Emails, e = Email(regs[call[c].app]), InsertsAllowed(c, e)
    PROVE  LET new == Provisioned(c, users[e])
           IN  /\ new \in Account
               /\ users[e].role = "STUDENT" => new.role = "STUDENT"
               /\ users[e].seated => new.seated
               /\ IsApproval(c) => new.role = "STUDENT" /\ new.seated
               /\ new.role # "STUDENT" => ~new.seated /\ users[e].role # "STUDENT"
<1>1. call[c] \in Request /\ call[c].view \in Row /\ call[c].view.usn \in Usns /\ Fits(c) /\ users[e] \in Account
  BY DEF RegistrationsInv, CallsInv, TypeOK, Request, Row
<1>2. users[e].role # "STUDENT" => ~users[e].seated
  BY DEF RegistrationsInv, RowsInv, OnlyStudentsHold
<1>3. /\ call[c].seat => IsApproval(c)
      /\ IsApproval(c) => /\ call[c].mint \/ users[e].role = "STUDENT"
                          /\ call[c].seat \/ users[e].seated
  BY <1>1 DEF Fits, Provides
<1>4. Provisioned(c, users[e]) \in Account
  BY <1>1 DEF Provisioned, Account, Request
<1> QED
  BY <1>2, <1>3, <1>4 DEF Provisioned, InsertsAllowed

(* A commit keeps the tables in order. *)
LEMMA CommitRows ==
    ASSUME RegistrationsInv, NEW c \in Calls, Commit(c)
    PROVE  /\ regs' \in [Apps -> Row] /\ users' \in [Emails -> Account]
           /\ uploads' \in [Emails -> SUBSET Calls]
           /\ RowsGrow /\ UsersGrow /\ RowsInv'
           /\ \A b \in Apps \ {call[c].app} : regs'[b] = regs[b]
           /\ \A d \in Calls \ {c} : (\A b \in Apps : regs[b].doc # d) /\ (\A e \in Emails : d \notin uploads[e])
                => (\A b \in Apps : regs'[b].doc # d) /\ (\A e \in Emails : d \notin uploads'[e])
           /\ IsApproval(c) => LET e == Email(regs'[call[c].app])
                               IN  users'[e].role = "STUDENT" /\ users'[e].seated
<1> USE DEF RegistrationsInv
<1> DEFINE a == call[c].app
           e == Email(regs[a])
           row == Updated(regs[a], c)
           account == Provisioned(c, users[e])
<1>1. a \in Apps /\ regs[a] \in Row /\ e \in Emails /\ Fits(c) /\ call[c].pc = "open" /\ InsertsAllowed(c, e)
      /\ NoFile \notin Calls
  BY ConstantsAssumption DEF TypeOK, CallsInv, Request, Row, Email, Commit
<1>2. /\ row \in Row /\ row.status # "ABSENT" /\ row.form = regs[a].form
      /\ regs[a].seat => row.seat
      /\ IsApproval(c) => row.seat /\ row.doc = NoFile
      /\ row.status \in Approved => row.seat /\ row.doc = NoFile
      /\ row.doc \in {regs[a].doc, NoFile, c}
      /\ row.doc = c => regs[a].doc = c \/ call[c].op = "attach"
      /\ row.seat => regs[a].seat \/ IsApproval(c)
  BY <1>1, UpdatedRow
<1>3. /\ account \in Account
      /\ users[e].role = "STUDENT" => account.role = "STUDENT"
      /\ users[e].seated => account.seated
      /\ IsApproval(c) => account.role = "STUDENT" /\ account.seated
      /\ account.role # "STUDENT" => ~account.seated /\ users[e].role # "STUDENT"
  BY <1>1, ProvisionedAccount
<1>4. /\ regs' = [regs EXCEPT ![a] = row]
      /\ users' = [users EXCEPT ![e] = account]
      /\ uploads' = IF IsApproval(c) THEN [uploads EXCEPT ![e] = @ \cup ({regs[a].doc} \ {NoFile})] ELSE uploads
      /\ UNCHANGED invited
  BY DEF Commit
<1> HIDE DEF a, e, row, account
<1>5. regs[a].doc \in Calls \cup {NoFile}
  BY <1>1 DEF Row
<1>6. regs' \in [Apps -> Row] /\ users' \in [Emails -> Account] /\ uploads' \in [Emails -> SUBSET Calls]
  <2>1. {regs[a].doc} \ {NoFile} \subseteq Calls
    BY <1>5
  <2> QED
    BY <1>1, <1>2, <1>3, <1>4, <2>1 DEF TypeOK
<1>7. /\ regs'[a] = row /\ \A b \in Apps \ {a} : regs'[b] = regs[b]
      /\ users'[e] = account /\ \A g \in Emails \ {e} : users'[g] = users[g]
  BY <1>1, <1>4 DEF TypeOK
<1>8. /\ ~IsApproval(c) => uploads' = uploads
      /\ IsApproval(c) => /\ uploads'[e] = uploads[e] \cup ({regs[a].doc} \ {NoFile})
                          /\ \A g \in Emails \ {e} : uploads'[g] = uploads[g]
  BY <1>1, <1>4 DEF TypeOK
<1>9. RowsGrow /\ UsersGrow
  BY <1>1, <1>2, <1>3, <1>7 DEF RowsGrow, UsersGrow
<1>10. \A b \in Apps : Email(regs'[b]) = Email(regs[b])
  BY <1>2, <1>7 DEF Email
<1>12. IsApproval(c) => users'[Email(regs'[a])].role = "STUDENT" /\ users'[Email(regs'[a])].seated
  <2>1. Email(regs'[a]) = e
    BY <1>1, <1>2, <1>7 DEF Email, e
  <2> QED
    BY <1>3, <1>7, <2>1
<1>13. RowsInv'
  <2>1. SeatIsAccount'
    <3> SUFFICES ASSUME NEW b \in Apps, regs'[b].seat
                 PROVE  users'[Email(regs[b])].role = "STUDENT" /\ users'[Email(regs[b])].seated
      BY <1>10 DEF SeatIsAccount, Housed
    <3>1. Email(regs[b]) \in Emails
      BY ConstantsAssumption DEF TypeOK, Row, Email
    <3>2. CASE regs[b].seat
      BY <1>9, <3>1, <3>2 DEF RowsInv, SeatIsAccount, Housed, UsersGrow
    <3>3. CASE ~regs[b].seat
      <4>1. b = a /\ IsApproval(c)
        BY <1>2, <1>7, <3>3
      <4>2. Email(regs[b]) = e
        BY <4>1 DEF e
      <4> QED
        BY <1>3, <1>7, <4>1, <4>2
    <3> QED
      BY <3>2, <3>3
  <2>2. ApprovedHasSeat'
    BY <1>2, <1>7 DEF RowsInv, ApprovedHasSeat
  <2>3. OnlyStudentsHold'
    <3> SUFFICES ASSUME NEW g \in Emails, users'[g].role # "STUDENT"
                 PROVE  ~users'[g].seated /\ uploads'[g] = {}
      BY DEF OnlyStudentsHold
    <3>1. users[g].role # "STUDENT" => ~users[g].seated /\ uploads[g] = {}
      BY DEF RowsInv, OnlyStudentsHold
    <3> QED
      BY <1>3, <1>7, <1>8, <3>1
  <2>4. FilesOwnedOnce'
    <3>1. \A b \in Apps : regs'[b].status \in Approved => regs'[b].doc = NoFile
      BY <1>2, <1>7 DEF RowsInv, FilesOwnedOnce
    <3>2. /\ \A b, d \in Apps : regs[b].doc = regs[d].doc => b = d \/ regs[b].doc = NoFile
          /\ \A g \in Emails : \A b \in Apps : regs[b].doc \notin uploads[g]
          /\ \A g, h \in Emails : g # h => uploads[g] \cap uploads[h] = {}
      BY DEF RowsInv, FilesOwnedOnce
    <3>3. row.doc = c /\ regs[a].doc # c =>
              (\A b \in Apps : regs[b].doc # c) /\ (\A g \in Emails : c \notin uploads[g])
      BY <1>1, <1>2 DEF Fits, FileIsFree
    <3>4. \A g \in Emails : NoFile \notin uploads'[g]
      BY <1>1, <1>6
    <3>5. \A b, d \in Apps : regs'[b].doc = regs'[d].doc => b = d \/ regs'[b].doc = NoFile
      BY <1>1, <1>2, <1>7, <3>2, <3>3
    <3>6. \A g \in Emails : \A b \in Apps : regs'[b].doc \notin uploads'[g]
      <4>1. CASE ~IsApproval(c)
        BY <1>1, <1>2, <1>7, <1>8, <3>2, <3>3, <3>4, <4>1
      <4>2. CASE IsApproval(c)
        <5>1. regs'[a].doc = NoFile
          BY <1>2, <1>7, <4>2
        <5>2. \A b \in Apps \ {a} : regs[b].doc # NoFile => regs[b].doc # regs[a].doc
          BY <1>1, <3>2
        <5> QED
          BY <1>1, <1>7, <1>8, <3>2, <3>4, <4>2, <5>1, <5>2
      <4> QED
        BY <4>1, <4>2
    <3>7. \A g, h \in Emails : g # h => uploads'[g] \cap uploads'[h] = {}
      BY <1>1, <1>8, <3>2
    <3> QED
      BY <3>1, <3>5, <3>6, <3>7 DEF FilesOwnedOnce
  <2>5. InvitedCanSignIn'
    BY <1>4, <1>9 DEF RowsInv, InvitedCanSignIn, UsersGrow, TypeOK
  <2> QED
    BY <2>1, <2>2, <2>3, <2>4, <2>5 DEF RowsInv
<1>14. ASSUME NEW d \in Calls \ {c}, \A b \in Apps : regs[b].doc # d, \A g \in Emails : d \notin uploads[g]
       PROVE  (\A b \in Apps : regs'[b].doc # d) /\ (\A g \in Emails : d \notin uploads'[g])
  <2>1. regs[a].doc # d /\ d # NoFile /\ d # c
    BY <1>1, <1>14
  <2>2. \A b \in Apps : regs'[b].doc # d
    BY <1>2, <1>7, <1>14, <2>1
  <2>3. \A g \in Emails : d \notin uploads'[g]
    BY <1>1, <1>8, <1>14, <2>1
  <2> QED
    BY <2>2, <2>3
<1> QED
  BY <1>6, <1>7, <1>9, <1>12, <1>13, <1>14 DEF a

(* The commit of a rule or of an endpoint. *)
LEMMA CommitInv ==
    ASSUME RegistrationsInv, NEW c \in Calls, Commit(c)
    PROVE  RegistrationsInv'
<1> USE DEF RegistrationsInv
<1> DEFINE a == call[c].app
<1>1. call[c] \in Request /\ Fits(c) /\ call[c].pc = "open" /\ a \in Apps /\ call[c].form \in Forms
  BY DEF TypeOK, CallsInv, Request, Commit
<1>2. /\ regs' \in [Apps -> Row] /\ users' \in [Emails -> Account]
      /\ uploads' \in [Emails -> SUBSET Calls]
      /\ RowsGrow /\ UsersGrow /\ RowsInv'
      /\ \A b \in Apps \ {a} : regs'[b] = regs[b]
      /\ \A d \in Calls \ {c} : (\A b \in Apps : regs[b].doc # d) /\ (\A e \in Emails : d \notin uploads[e])
           => (\A b \in Apps : regs'[b].doc # d) /\ (\A e \in Emails : d \notin uploads'[e])
  BY CommitRows
<1>3. IsApproval(c) => users'[Email(regs'[a])].role = "STUDENT" /\ users'[Email(regs'[a])].seated
  BY CommitRows
<1>4. /\ regs[a].status # "ABSENT" /\ regs'[a].status # "ABSENT" /\ regs'[a].form = regs[a].form
      /\ call[c].op = "submit" => regs[a].form = call[c].form
      /\ call[c].answer = "none"
  BY <1>1, <1>2 DEF Fits, Shape, OwnApp, HasApp, RowsGrow
<1>5. \E new \in Request : call' = [call EXCEPT ![c] = new] /\ new.pc \in {"mail", "done"} /\ Fits(c)'
  <2>1. CASE IsApproval(c)
    <3> DEFINE new == [call[c] EXCEPT !.pc = "mail", !.view = NoRow]
    <3>1. /\ new \in Request /\ new.pc = "mail" /\ new.app = a /\ new.op = call[c].op
          /\ new.form = call[c].form /\ new.answer = "none"
      BY <1>1, <1>4, Placeholders DEF Request
    <3>2. call' = [call EXCEPT ![c] = new]
      BY <2>1 DEF Commit
    <3> HIDE DEF new
    <3>3. call'[c] = new
      BY <3>2 DEF TypeOK
    <3>4. MailIsDue(c)'
      BY <1>3, <2>1, <3>1, <3>3 DEF MailIsDue, Housed, Email
    <3>5. Fits(c)'
      BY <1>4, <3>1, <3>3, <3>4 DEF Fits, Shape, OwnApp, HasApp, ViewOfApp, AttachesToWaiting, Provides,
            AnswerIsTrue, FileIsFree
    <3> QED
      BY <3>1, <3>2, <3>5
  <2>2. CASE ~IsApproval(c) /\ call[c].op = "submit"
    <3>1. Answered(c, call[c].form, a, "created")
      BY <2>2 DEF Commit
    <3> QED
      BY <1>1, <1>4, <2>2, <3>1, AnsweredFits
  <2>3. CASE ~IsApproval(c) /\ call[c].op # "submit"
    <3>1. Ended(c)
      BY <2>3 DEF Commit
    <3> QED
      BY <3>1, EndedFits
  <2> QED
    BY <2>1, <2>2, <2>3
<1>6. PICK new \in Request : call' = [call EXCEPT ![c] = new] /\ new.pc \in {"mail", "done"} /\ Fits(c)'
  BY <1>5
<1>7. call'[c] = new /\ \A d \in Calls \ {c} : call'[d] = call[d]
  BY <1>6 DEF TypeOK
<1>8. TypeOK'
  BY <1>2, <1>6 DEF TypeOK, Commit
<1>9. CallsInv'
  <2> SUFFICES ASSUME NEW d \in Calls PROVE Fits(d)'
    BY DEF CallsInv
  <2>1. CASE d # c
    <3>1. call'[d] = call[d] /\ Fits(d) /\ call[d] \in Request
      BY <1>7, <2>1 DEF CallsInv, TypeOK
    <3>2. call[d].pc = "open" => regs'[call[d].app] = regs[call[d].app]
      BY <1>1, <1>2, <2>1, <3>1 DEF LocksExclude, Request
    <3>3. FileIsFree(d)'
      BY <1>2, <2>1, <3>1 DEF Fits, FileIsFree
    <3> QED
      BY <1>2, <3>1, <3>2, <3>3, FitsKept
  <2> QED
    BY <1>6, <2>1
<1>10. LocksExclude'
  BY <1>6, <1>7 DEF LocksExclude
<1> QED
  BY <1>2, <1>8, <1>9, <1>10

(* The invitation, to an address with its account. *)
LEMMA MailInv ==
    ASSUME RegistrationsInv, NEW c \in Calls, Mail(c)
    PROVE  RegistrationsInv'
<1> USE DEF RegistrationsInv
<1> DEFINE a == call[c].app
<1>1. call[c] \in Request /\ Fits(c) /\ call[c].pc = "mail" /\ a \in Apps /\ call[c].form \in Forms
      /\ Email(regs[a]) \in Emails
  BY ConstantsAssumption DEF TypeOK, CallsInv, Request, Mail, Row, Email
<1>2. /\ regs[a].status # "ABSENT" /\ Housed(Email(regs[a]))
      /\ call[c].op = "submit" => regs[a].form = call[c].form
  BY <1>1 DEF Fits, OwnApp, HasApp, MailIsDue
<1>3. UNCHANGED <<regs, users, uploads>> /\ invited' \subseteq invited \cup {Email(regs[a])}
  BY DEF Mail
<1>4. \E new \in Request : call' = [call EXCEPT ![c] = new] /\ new.pc = "done" /\ Fits(c)'
  <2>1. CASE call[c].op = "submit"
    <3>1. Answered(c, call[c].form, a, "created") /\ regs'[a] = regs[a]
      BY <1>3, <2>1 DEF Mail
    <3> QED
      BY <1>1, <1>2, <2>1, <3>1, AnsweredFits
  <2>2. CASE call[c].op # "submit"
    <3>1. Ended(c)
      BY <2>2 DEF Mail
    <3> QED
      BY <3>1, EndedFits
  <2> QED
    BY <2>1, <2>2
<1>5. PICK new \in Request : call' = [call EXCEPT ![c] = new] /\ new.pc = "done" /\ Fits(c)'
  BY <1>4
<1>6. call'[c] = new /\ \A d \in Calls \ {c} : call'[d] = call[d]
  BY <1>5 DEF TypeOK
<1>7. TypeOK'
  BY <1>1, <1>3, <1>5 DEF TypeOK
<1>8. RowsInv'
  BY <1>2, <1>3 DEF RowsInv, SeatIsAccount, ApprovedHasSeat, OnlyStudentsHold, FilesOwnedOnce, InvitedCanSignIn,
                    Housed
<1>9. CallsInv'
  <2> SUFFICES ASSUME NEW d \in Calls PROVE Fits(d)'
    BY DEF CallsInv
  <2>1. CASE d # c
    <3>1. call'[d] = call[d] /\ Fits(d)
      BY <1>6, <2>1 DEF CallsInv
    <3>2. FileIsFree(d)' /\ RowsGrow /\ UsersGrow
      BY <1>3, <3>1 DEF Fits, FileIsFree, RowsGrow, UsersGrow
    <3> QED
      BY <1>3, <3>1, <3>2, FitsKept
  <2> QED
    BY <1>5, <2>1
<1>10. LocksExclude'
  BY <1>5, <1>6 DEF LocksExclude
<1> QED
  BY <1>7, <1>8, <1>9, <1>10

(* A staff account goes to an address that has none. *)
LEMMA GrantInv ==
    ASSUME RegistrationsInv, NEW e \in Emails, Grant(e)
    PROVE  RegistrationsInv'
<1> USE DEF RegistrationsInv
<1> DEFINE account == [users[e] EXCEPT !.role = "STAFF"]
<1>1. users[e] \in Account /\ users[e].role = "none" /\ UNCHANGED <<regs, uploads, call, invited>>
  BY DEF TypeOK, Grant
<1>2. account \in Account /\ account.role = "STAFF" /\ account.seated = users[e].seated
  BY <1>1 DEF Account
<1>3. users' = [users EXCEPT ![e] = account]
  BY DEF Grant
<1> HIDE DEF account
<1>4. users'[e] = account /\ \A g \in Emails \ {e} : users'[g] = users[g]
  BY <1>3 DEF TypeOK
<1>5. TypeOK'
  BY <1>1, <1>2, <1>3 DEF TypeOK
<1>6. RowsGrow /\ UsersGrow
  BY <1>1, <1>2, <1>4 DEF RowsGrow, UsersGrow
<1>7. RowsInv'
  <2>1. \A a \in Apps : Email(regs[a]) \in Emails
    BY ConstantsAssumption DEF TypeOK, Row, Email
  <2>2. SeatIsAccount'
    BY <1>1, <1>6, <2>1 DEF RowsInv, SeatIsAccount, Housed, UsersGrow, Email
  <2>3. OnlyStudentsHold'
    BY <1>1, <1>2, <1>4 DEF RowsInv, OnlyStudentsHold
  <2>4. ApprovedHasSeat' /\ FilesOwnedOnce'
    BY <1>1 DEF RowsInv, ApprovedHasSeat, FilesOwnedOnce
  <2>5. InvitedCanSignIn'
    BY <1>1, <1>6 DEF RowsInv, InvitedCanSignIn, UsersGrow, TypeOK
  <2> QED
    BY <2>2, <2>3, <2>4, <2>5 DEF RowsInv
<1>8. CallsInv'
  <2> SUFFICES ASSUME NEW d \in Calls PROVE Fits(d)'
    BY DEF CallsInv
  <2>1. Fits(d) /\ call'[d] = call[d]
    BY <1>1 DEF CallsInv
  <2>2. FileIsFree(d)'
    BY <1>1, <2>1 DEF Fits, FileIsFree
  <2> QED
    BY <1>1, <1>6, <2>1, <2>2, FitsKept
<1>9. LocksExclude'
  BY <1>1 DEF LocksExclude
<1> QED
  BY <1>5, <1>7, <1>8, <1>9

-----------------------------------------------------------------------------
(* Every step keeps the invariant. *)
LEMMA NextInv == RegistrationsInv /\ [Next]_vars => RegistrationsInv'
<1> SUFFICES ASSUME RegistrationsInv, [Next]_vars PROVE RegistrationsInv'
  OBVIOUS
<1>1. CASE UNCHANGED vars
  BY <1>1, RowsKept DEF vars, RegistrationsInv, TypeOK, CallsInv, Fits, Shape, OwnApp, HasApp, ViewOfApp,
        AttachesToWaiting, Provides, IsApproval, MailIsDue, Housed, AnswerIsTrue, FileIsFree, LocksExclude
<1>2. CASE Next
  <2>1. ASSUME NEW c \in Calls, NEW f \in Forms, Submit(c, f) PROVE RegistrationsInv'
    BY <2>1, SubmitInv
  <2>2. ASSUME NEW c \in Calls, NEW a \in Apps, Save(c, a) PROVE RegistrationsInv'
    BY <2>2, SaveInv
  <2>3. ASSUME NEW c \in Calls, Refresh(c) PROVE RegistrationsInv'
    BY <2>3, RefreshInv
  <2>4. ASSUME NEW c \in Calls, ApplyRule(c) PROVE RegistrationsInv'
    BY <2>4, ApplyRuleInv
  <2>5. ASSUME NEW c \in Calls, NEW op \in Ops, NEW a \in Apps, NEW u \in Usns, Open(c, op, a, u)
        PROVE  RegistrationsInv'
    BY <2>5, OpenInv
  <2>6. ASSUME NEW c \in Calls, Commit(c) PROVE RegistrationsInv'
    BY <2>6, CommitInv
  <2>7. ASSUME NEW c \in Calls, Mail(c) PROVE RegistrationsInv'
    BY <2>7, MailInv
  <2>8. ASSUME NEW c \in Calls, Abort(c) PROVE RegistrationsInv'
    BY <2>8, AbortInv
  <2>9. ASSUME NEW e \in Emails, Grant(e) PROVE RegistrationsInv'
    BY <2>9, GrantInv
  <2> QED
    BY <1>2, <2>1, <2>2, <2>3, <2>4, <2>5, <2>6, <2>7, <2>8, <2>9 DEF Next
<1> QED
  BY <1>1, <1>2

(* The inductive invariant holds of every behaviour of the queue. *)
THEOREM RegistrationsInvTheorem == Spec => []RegistrationsInv
BY InitInv, NextInv, PTL DEF Spec

(* The tables, the requests and the mails keep their types. *)
THEOREM TypeCorrect == Spec => []TypeOK
<1>1. RegistrationsInv => TypeOK
  BY DEF RegistrationsInv
<1> QED
  BY <1>1, RegistrationsInvTheorem, PTL

(* However many rules, reviewers and applications for one address or one    *)
(* USN run into each other, who is approved has an account and a seat: what *)
(* provisioning found stays, and what it inserts passed the unique indexes. *)
THEOREM ApprovalSeats == Spec => []ApprovedIsSeated
<1>1. RegistrationsInv => ApprovedIsSeated
  BY DEF RegistrationsInv, RowsInv, SeatIsAccount, ApprovedHasSeat, Housed, ApprovedIsSeated
<1> QED
  BY <1>1, RegistrationsInvTheorem, PTL

(* An address that was granted a staff account while an application for it  *)
(* was being approved is not seated: the index on users refuses one of the  *)
(* two.                                                                     *)
THEOREM StaffAreNotSeated == Spec => []StaffKeepOut
<1>1. RegistrationsInv => StaffKeepOut
  BY DEF RegistrationsInv, RowsInv, OnlyStudentsHold, StaffKeepOut
<1> QED
  BY <1>1, RegistrationsInvTheorem, PTL

(* No file is named by two rows, whenever a CV is replaced and whoever      *)
(* approves meanwhile.                                                      *)
THEOREM FilesAreOwned == Spec => []FilesOwnedOnce
<1>1. RegistrationsInv => FilesOwnedOnce
  BY DEF RegistrationsInv, RowsInv
<1> QED
  BY <1>1, RegistrationsInvTheorem, PTL

(* Retries and losers of a race are answered with the application of their  *)
(* own form, and told of a duplicate only if another form came first.       *)
THEOREM AnswersAreTrue == Spec => []AnsweredWithOwn
<1>1. RegistrationsInv => AnsweredWithOwn
  BY DEF RegistrationsInv, CallsInv, Fits, AnswerIsTrue, AnsweredWithOwn
<1> QED
  BY <1>1, RegistrationsInvTheorem, PTL

(* Whoever is invited has an account to activate.                           *)
THEOREM InvitationsWork == Spec => []InvitedCanSignIn
<1>1. RegistrationsInv => InvitedCanSignIn
  BY DEF RegistrationsInv, RowsInv
<1> QED
  BY <1>1, RegistrationsInvTheorem, PTL

(* A row is there before it has a seat. *)
SeatedIsThere == \A a \in Apps : regs[a].seat => regs[a].status # "ABSENT"

(* What a commit leaves of the row it works on, and of the others. *)
LEMMA CommitLeaves ==
    ASSUME RegistrationsInv, NEW c \in Calls, Commit(c), NEW b \in Apps
    PROVE  regs'[b] = regs[b] \/ (regs[b].status # "ABSENT" /\ regs'[b].status # "ABSENT"
                                  /\ regs'[b].form = regs[b].form /\ (regs[b].seat => regs'[b].seat))
<1>1. CASE b # call[c].app
  BY <1>1, CommitRows
<1>2. CASE b = call[c].app
  <2>1. regs[b].status # "ABSENT"
    BY <1>2 DEF Commit, RegistrationsInv, CallsInv, Fits, OwnApp, HasApp
  <2> QED
    BY <2>1, CommitRows DEF RowsGrow
<1> QED
  BY <1>1, <1>2

LEMMA SeatedIsThereNext == RegistrationsInv /\ SeatedIsThere /\ [Next]_vars => SeatedIsThere'
<1> SUFFICES ASSUME RegistrationsInv, SeatedIsThere, [Next]_vars PROVE SeatedIsThere'
  OBVIOUS
<1>1. CASE UNCHANGED regs
  BY <1>1 DEF SeatedIsThere
<1>2. ASSUME NEW c \in Calls, NEW a \in Apps, Save(c, a) PROVE SeatedIsThere'
  BY <1>2 DEF Save, SeatedIsThere, RegistrationsInv, TypeOK
<1>3. ASSUME NEW c \in Calls, Commit(c) PROVE SeatedIsThere'
  BY <1>3, CommitLeaves DEF SeatedIsThere
<1> QED
  BY <1>1, <1>2, <1>3 DEF Next, vars, Submit, Refresh, ApplyRule, Open, Mail, Abort, Grant

(***************************************************************************)
(* A seat is for good: once an address has one, no other application, rule *)
(* or reviewer changes its account or the USN it was seated with, not even *)
(* by rejecting the application or by sending it back to the queue         *)
(* (_provision_student only inserts, decide and reopen only stamp).        *)
(***************************************************************************)
SeatIsForGood ==
    [][/\ \A e \in Emails : users[e].seated => users'[e] = users[e]
       /\ \A a \in Apps : regs[a].seat => regs'[a].seat /\ regs'[a].form = regs[a].form]_vars

THEOREM SeatsAreKept == Spec => SeatIsForGood
<1> DEFINE Kept == /\ \A e \in Emails : users[e].seated => users'[e] = users[e]
                   /\ \A a \in Apps : regs[a].seat => regs'[a].seat /\ regs'[a].form = regs[a].form
<1>1. RegistrationsInv /\ SeatedIsThere /\ [Next]_vars => [Kept]_vars
  <2> SUFFICES ASSUME RegistrationsInv, SeatedIsThere, Next PROVE Kept
    OBVIOUS
  <2>1. CASE UNCHANGED <<regs, users>>
    BY <2>1
  <2>2. ASSUME NEW c \in Calls, NEW a \in Apps, Save(c, a) PROVE Kept
    <3>1. UNCHANGED users /\ \A b \in Apps : regs[b].status # "ABSENT" => regs'[b] = regs[b]
      BY <2>2 DEF Save, RegistrationsInv, TypeOK
    <3> QED
      BY <3>1 DEF SeatedIsThere
  <2>3. ASSUME NEW c \in Calls, Commit(c) PROVE Kept
    <3> DEFINE e == Email(regs[call[c].app])
    <3>1. OnlyStudentsHold /\ InsertsAllowed(c, e) /\ users \in [Emails -> Account]
          /\ users' = [users EXCEPT ![e] = Provisioned(c, @)] /\ e \in Emails
      BY <2>3, ConstantsAssumption DEF Commit, RegistrationsInv, RowsInv, TypeOK, Request, Row, Email
    <3>2. users[e].seated => Provisioned(c, users[e]) = users[e]
      <4>1. users[e].seated => ~call[c].mint /\ ~call[c].seat
        BY <3>1 DEF OnlyStudentsHold, InsertsAllowed
      <4> QED
        BY <3>1, <4>1 DEF Provisioned, Account
    <3> HIDE DEF e
    <3>3. \A g \in Emails : users[g].seated => users'[g] = users[g]
      BY <3>1, <3>2
    <3>4. \A b \in Apps : regs[b].seat => regs'[b].seat /\ regs'[b].form = regs[b].form
      BY <2>3, CommitLeaves
    <3> QED
      BY <3>3, <3>4
  <2>4. ASSUME NEW e \in Emails, Grant(e) PROVE Kept
    BY <2>4 DEF Grant, RegistrationsInv, RowsInv, OnlyStudentsHold, TypeOK
  <2> QED
    BY <2>1, <2>2, <2>3, <2>4 DEF Next, Submit, Refresh, ApplyRule, Open, Mail, Abort
<1>2. Init => SeatedIsThere
  BY DEF Init, SeatedIsThere, NoRow
<1> QED
  BY <1>1, <1>2, SeatedIsThereNext, RegistrationsInvTheorem, PTL DEF Spec, SeatIsForGood

=============================================================================
