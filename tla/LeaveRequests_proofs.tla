------------------------ MODULE LeaveRequests_proofs ------------------------
(***************************************************************************)
(* What holds of leave requests for any number of requests and calls.      *)
(* The argument is the lock of change_decision: the row it has read is the *)
(* row it writes, so each change counts on from the last and its audit row *)
(* holds what it undid.  The table of alternates has no such lock; an       *)
(* agreement in it is true because no call ever writes one that was not     *)
(* recorded before, or its own caller's.                                   *)
(***************************************************************************)
EXTENDS LeaveRequests, TLAPS

Ready(c) == call[c].pc = "ready"

(* A change that has been admitted holds the lock and an exact copy.       *)
ChangeHoldsRow ==
    \A c \in Calls : Ready(c) /\ call[c].op \in Changes =>
        /\ lock[call[c].leave] = c
        /\ call[c].view = leave[call[c].leave]

(* A row exists from its submission on; until then it is blank, and only    *)
(* one submission is on its way to it.                                     *)
RowsAppearOnce ==
    /\ \A l \in Leaves : leave[l].status = "ABSENT" => leave[l] = Fresh
    /\ \A c \in Calls : Ready(c) /\ call[c].op \notin Arrangements =>
          (call[c].op = "submit" <=> leave[call[c].leave].status = "ABSENT")
    /\ \A c, d \in Calls :
          Ready(c) /\ Ready(d) /\ call[c].op = "submit" /\ call[d].op = "submit" /\ c # d
              => call[c].leave # call[d].leave

(* An acceptance of a line by the colleague it names has been recorded. *)
Accepted(a, who) ==
    \E c \in Calls : /\ call[c].pc = "arranged" /\ call[c].leave = FormOf[a]
                     /\ call[c].who = who /\ call[c].table[a].named = who

AgreementsGiven == \A a \in Lines : cover[a].agreed => Accepted(a, cover[a].named)

(* A table on its way to the row holds no agreement but those, and the one  *)
(* of the colleague who is sending it.                                     *)
AgreementsUnderWay ==
    \A c \in Calls, a \in Lines :
        Ready(c) /\ call[c].op \in Arrangements /\ FormOf[a] = call[c].leave /\ call[c].table[a].agreed =>
            \/ Accepted(a, call[c].table[a].named)
            \/ call[c].op = "accept" /\ call[c].who = call[c].table[a].named

(* The inductive invariant. *)
LeaveInv ==
    /\ TypeOK
    /\ ChangeHoldsRow
    /\ RowsAppearOnce
    /\ AuditCountsChanges
    /\ PendingUnsigned
    /\ SignedOutcome
    /\ AgreementsGiven
    /\ AgreementsUnderWay

(* The fields of a call, and the calls a call may turn into. *)
LEMMA CallFields ==
    ASSUME TypeOK, NEW c \in Calls
    PROVE  /\ call[c] \in Call
           /\ call[c].op \in Ops /\ call[c].leave \in Leaves /\ call[c].view \in Row
           /\ call[c].who \in Staff \cup {Nobody} /\ call[c].table \in [Lines -> Cover]
           /\ call[c].pc \in {"idle", "ready", "written", "arranged", "done"}
           /\ leave[call[c].leave] \in Row
BY DEF TypeOK, Call

LEMMA BlankCalls == NoCall \in Call /\ Over \in Call
<1>1. (CHOOSE l \in Leaves : TRUE) \in Leaves
  BY ConstantsAssumption
<1>2. Fresh \in Row
  BY DEF Fresh, Unsigned, Row, Slot, Status
<1>3. [a \in Lines |-> Unasked] \in [Lines -> Cover]
  BY DEF Unasked, Cover
<1>4. NoCall \in Call
  BY <1>1, <1>2, <1>3 DEF NoCall, Call, Ops
<1> QED
  BY <1>4 DEF Over, Call

(* It holds of the rows as they are found. *)
LEMMA InitInv == Init => LeaveInv
<1> SUFFICES ASSUME Init PROVE LeaveInv
  OBVIOUS
<1> USE ConstantsAssumption DEF Init, Fresh, SignedOnce, Unsigned, NoCall
<1>1. Fresh \in Row /\ SignedOnce \in Row
  BY DEF Row, Slot, Status
<1>2. TypeOK
  BY <1>1, BlankCalls DEF TypeOK, Cover
<1>3. ChangeHoldsRow /\ RowsAppearOnce
  BY DEF ChangeHoldsRow, RowsAppearOnce, Ready
<1>4. AuditCountsChanges
  <2>1. \A l \in Leaves : leave[l].revision = 0
    OBVIOUS
  <2>2. {n \in 0..0 : n < 0} = {}
    OBVIOUS
  <2> QED
    BY <2>1, <2>2 DEF AuditCountsChanges, AuditOf
<1>5. PendingUnsigned /\ SignedOutcome
  BY DEF PendingUnsigned, SignedOutcome
<1>6. AgreementsGiven /\ AgreementsUnderWay
  BY DEF AgreementsGiven, AgreementsUnderWay, Ready
<1> QED
  BY <1>2, <1>3, <1>4, <1>5, <1>6 DEF LeaveInv

(* A call that takes no row along leaves every other call as it was. *)
LEMMA ReleasedKeeps ==
    ASSUME TypeOK, NEW c \in Calls
    PROVE  /\ Released(c) \in [Leaves -> Calls \cup {Nobody}]
           /\ \A l \in Leaves : lock[l] # c => Released(c)[l] = lock[l]
BY DEF Released, TypeOK

(* Admit keeps the invariant: a lock is taken only when it is free. *)
LEMMA AdmitInv ==
    ASSUME LeaveInv, NEW c \in Calls, NEW op \in Ops, NEW l \in Leaves, Admit(c, op, l)
    PROVE  LeaveInv'
<1> USE ConstantsAssumption DEF LeaveInv
<1>1. leave[l] \in Row
  BY DEF TypeOK
<1> DEFINE admitted == [NoCall EXCEPT !.pc = "ready", !.op = op, !.leave = l, !.view = leave[l]]
<1>2. /\ admitted \in Call
      /\ admitted.pc = "ready" /\ admitted.op = op /\ admitted.leave = l /\ admitted.view = leave[l]
  BY <1>1, BlankCalls DEF Call
<1> HIDE DEF admitted
<1>3. /\ call'[c] = admitted
      /\ call' \in [Calls -> Call]
      /\ \A d \in Calls \ {c} : call'[d] = call[d]
      /\ op \notin Arrangements
  <2>1. call' = [call EXCEPT ![c] = admitted]
    BY DEF Admit, admitted
  <2>2. op \notin Arrangements
    BY DEF Admit, Accepts, Arrangements, Decisions
  <2> QED
    BY <1>2, <2>1, <2>2 DEF TypeOK
<1>8. TypeOK'
  BY <1>3 DEF TypeOK, Admit
<1>9. AgreementsGiven' /\ AgreementsUnderWay'
  <2>1. \A a \in Lines : \A who : Accepted(a, who) => Accepted(a, who)'
    <3>1. call[c].pc # "arranged"
      BY DEF Admit
    <3> QED
      BY <1>3, <3>1 DEF Accepted
  <2>2. cover' = cover
    BY DEF Admit
  <2> QED
    BY <1>2, <1>3, <2>1, <2>2 DEF AgreementsGiven, AgreementsUnderWay, Ready
<1>4. ChangeHoldsRow'
  <2> SUFFICES ASSUME NEW d \in Calls, Ready(d)', call'[d].op \in Changes
               PROVE  /\ lock'[call'[d].leave] = d
                      /\ call'[d].view = leave'[call'[d].leave]
    BY DEF ChangeHoldsRow
  <2>1. CASE d = c
    BY <2>1, <1>2, <1>3 DEF Admit, Locks, TypeOK
  <2>2. CASE d # c
    <3>1. Ready(d) /\ call[d].op \in Changes
      BY <2>2, <1>3 DEF Ready
    <3>2. lock[call[d].leave] = d /\ call[d].leave \in Leaves
      BY <3>1, CallFields DEF ChangeHoldsRow
    <3>3. lock'[call[d].leave] = d
      BY <3>2 DEF Admit, Locks, TypeOK
    <3> QED
      BY <2>2, <1>3, <3>1, <3>3 DEF ChangeHoldsRow, Admit
  <2> QED
    BY <2>1, <2>2
<1>5. RowsAppearOnce'
  <2>1. op = "submit" <=> leave[l].status = "ABSENT"
    BY <1>3 DEF Admit, Accepts, Decisions, Changes, Ops, Pending, Arrangements
  <2>2. op = "submit" => \A d \in Calls : Ready(d) /\ call[d].op = "submit" => call[d].leave # l
    BY DEF Admit, Accepts, Decisions, Drawn, Ready
  <2> QED
    BY <1>2, <1>3, <2>1, <2>2 DEF RowsAppearOnce, Ready, Admit
<1>6. AuditCountsChanges' /\ PendingUnsigned' /\ SignedOutcome'
  BY DEF Admit, AuditCountsChanges, AuditOf, PendingUnsigned, SignedOutcome
<1> QED
  BY <1>4, <1>5, <1>6, <1>8, <1>9

(* A call that is refused, or has only its mail to send, writes no row. *)
LEMMA QuietInv ==
    ASSUME LeaveInv, NEW c \in Calls, Refuse(c) \/ Notify(c)
    PROVE  LeaveInv'
<1> USE ConstantsAssumption DEF LeaveInv
<1>1. /\ UNCHANGED <<leave, audit>>
      /\ \A d \in Calls \ {c} : call'[d] = call[d]
      /\ call' \in [Calls -> Call]
      /\ call'[c] = Over
      /\ ~Ready(c)'
      /\ cover' = cover /\ call[c].pc # "arranged"
  <2>1. call' = [call EXCEPT ![c] = Over] /\ UNCHANGED <<leave, audit>>
        /\ cover' = cover /\ call[c].pc # "arranged"
    BY DEF Refuse, Notify
  <2>2. Over.pc = "done"
    BY DEF Over, NoCall
  <2> QED
    BY <2>1, <2>2, BlankCalls DEF TypeOK, Ready
<1>2. /\ lock' \in [Leaves -> Calls \cup {Nobody}]
      /\ \A l \in Leaves : lock[l] # c => lock'[l] = lock[l]
  BY ReleasedKeeps DEF Refuse, Notify, TypeOK
<1>3. \A m \in mails' : m.leave \in Leaves /\ m.status \in Status /\ m.revision \in Nat
  <2>1. CASE Refuse(c)
    BY <2>1 DEF Refuse, TypeOK
  <2>2. CASE Notify(c)
    <3>1. call[c].leave \in Leaves /\ leave[call[c].leave] \in Row
      BY CallFields
    <3> QED
      BY <2>2, <3>1 DEF Notify, TypeOK, Row
  <2> QED
    BY <2>1, <2>2
<1>4. TypeOK'
  BY <1>1, <1>2, <1>3 DEF TypeOK
<1>5. ChangeHoldsRow'
  <2> SUFFICES ASSUME NEW d \in Calls, Ready(d)', call'[d].op \in Changes
               PROVE  /\ lock'[call'[d].leave] = d
                      /\ call'[d].view = leave'[call'[d].leave]
    BY DEF ChangeHoldsRow
  <2>1. d # c /\ call'[d] = call[d] /\ Ready(d)
    BY <1>1 DEF Ready
  <2>2. call[d].leave \in Leaves /\ lock[call[d].leave] = d /\ call[d].view = leave[call[d].leave]
    BY <2>1, CallFields DEF ChangeHoldsRow
  <2> QED
    BY <1>1, <1>2, <2>1, <2>2
<1>6. RowsAppearOnce'
  BY <1>1 DEF RowsAppearOnce, Ready
<1>7. AuditCountsChanges' /\ PendingUnsigned' /\ SignedOutcome'
  BY <1>1 DEF AuditCountsChanges, AuditOf, PendingUnsigned, SignedOutcome
<1>8. AgreementsGiven' /\ AgreementsUnderWay'
  <2>1. \A a \in Lines : \A who : Accepted(a, who) => Accepted(a, who)'
    BY <1>1 DEF Accepted
  <2> QED
    BY <1>1, <2>1 DEF AgreementsGiven, AgreementsUnderWay, Ready
<1> QED
  BY <1>4, <1>5, <1>6, <1>7, <1>8

(* What one UPDATE or INSERT makes of a row. *)
LEMMA WrittenRow ==
    ASSUME LeaveInv, NEW c \in Calls, Ready(c), call[c].op \notin Arrangements,
           NEW row, row = leave[call[c].leave],
           NEW new, new = After(row, call[c].view, call[c].op, c)
    PROVE  /\ new \in Row
           /\ new.status # "ABSENT"
           /\ new.revision = IF call[c].op \in Changes THEN row.revision + 1 ELSE row.revision
           /\ new.status = "SUBMITTED" => new.first = Unsigned /\ new.second = Unsigned
           /\ new.status \in {"APPROVED", "REJECTED"} =>
                 new.status \in {new.first.decision, new.second.decision}
<1> USE DEF LeaveInv
<1>1. row \in Row /\ call[c].view \in Row /\ call[c].op \in Ops
  BY CallFields
<1>2. CASE call[c].op = "submit"
  <2>1. row = Fresh
    BY <1>2, CallFields DEF RowsAppearOnce
  <2>2. new = [Fresh EXCEPT !.status = "SUBMITTED"]
    BY <1>2 DEF After, Decisions
  <2> QED
    BY <1>2, <2>1, <2>2 DEF Fresh, Unsigned, Row, Slot, Status, Changes
<1>3. CASE call[c].op = "cancel"
  <2>1. new = [row EXCEPT !.status = "CANCELLED"]
    BY <1>3 DEF After, Decisions
  <2> QED
    BY <1>1, <1>3, <2>1 DEF Row, Status, Changes
<1>4. CASE call[c].op \in Decisions
  <2> DEFINE verdict == Verdict(call[c].op)
             signature == [by |-> c, decision |-> verdict]
  <2>1. new = Decided(row, call[c].view, call[c].op, c)
    BY <1>4 DEF After, Decisions
  <2>2. \/ new = [row EXCEPT !.status = verdict, !.first = signature]
        \/ new = [row EXCEPT !.status = verdict, !.second = signature]
    BY <2>1 DEF Decided
  <2>3. verdict \in {"APPROVED", "REJECTED"} /\ signature \in Slot
    BY DEF Verdict, Slot
  <2>4. call[c].op \notin Changes
    BY <1>4 DEF Decisions, Changes
  <2>5. signature.decision = verdict
    OBVIOUS
  <2> HIDE DEF verdict, signature
  <2>6. CASE new = [row EXCEPT !.status = verdict, !.first = signature]
    BY <1>1, <2>3, <2>4, <2>5, <2>6 DEF Row, Status
  <2>7. CASE new = [row EXCEPT !.status = verdict, !.second = signature]
    BY <1>1, <2>3, <2>4, <2>5, <2>7 DEF Row, Status
  <2> QED
    BY <2>2, <2>6, <2>7
<1>5. CASE call[c].op = "revoke"
  <2>1. call[c].view = row
    BY <1>5 DEF ChangeHoldsRow, Changes
  <2>2. new = [row EXCEPT !.status = "REVOKED", !.revision = row.revision + 1]
    BY <1>5, <2>1 DEF After, Decisions
  <2>3. row.revision + 1 \in Nat
    BY <1>1 DEF Row
  <2> QED
    BY <1>1, <1>5, <2>2, <2>3 DEF Row, Status, Changes
<1>6. CASE call[c].op = "reopen"
  <2>1. call[c].view = row
    BY <1>6 DEF ChangeHoldsRow, Changes
  <2>2. new = [Reopened(row) EXCEPT !.revision = row.revision + 1]
    BY <1>6, <2>1 DEF After, Decisions
  <2>3. Unsigned \in Slot
    BY DEF Unsigned, Slot
  <2>4. new = [row EXCEPT !.status = "SUBMITTED", !.first = Unsigned, !.second = Unsigned,
                          !.revision = row.revision + 1]
    BY <1>1, <2>2 DEF Reopened, Row
  <2>5. row.revision + 1 \in Nat
    BY <1>1 DEF Row
  <2> QED
    BY <1>1, <1>6, <2>3, <2>4, <2>5 DEF Row, Status, Changes
<1> QED
  BY <1>1, <1>2, <1>3, <1>4, <1>5, <1>6 DEF Ops, Changes, Arrangements

(* Commit keeps the invariant: an admitted change is waited for. *)
LEMMA CommitInv ==
    ASSUME LeaveInv, NEW c \in Calls, Commit(c)
    PROVE  LeaveInv'
<1> USE ConstantsAssumption DEF LeaveInv
<1>0. PICK l \in Leaves : l = call[c].leave
  BY CallFields
<1> DEFINE new == After(leave[l], call[c].view, call[c].op, c)
<1>1. Ready(c) /\ l \in Leaves /\ lock[l] \in {c, Nobody} /\ call[c].op \notin Arrangements
  BY <1>0 DEF Commit, Ready, TypeOK
<1>2. /\ new \in Row
      /\ new.status # "ABSENT"
      /\ new.revision = IF call[c].op \in Changes THEN leave[l].revision + 1 ELSE leave[l].revision
      /\ new.status = "SUBMITTED" => new.first = Unsigned /\ new.second = Unsigned
      /\ new.status \in {"APPROVED", "REJECTED"} =>
            new.status \in {new.first.decision, new.second.decision}
  BY <1>0, <1>1, WrittenRow
<1> HIDE DEF new
<1>3. /\ leave' = [leave EXCEPT ![l] = new]
      /\ leave' \in [Leaves -> Row]
      /\ leave'[l] = new
      /\ \A m \in Leaves \ {l} : leave'[m] = leave[m]
  BY <1>0, <1>1, <1>2 DEF Commit, TypeOK, new
<1>4. /\ \A d \in Calls \ {c} : call'[d] = call[d]
      /\ call' \in [Calls -> Call]
      /\ ~Ready(c)'
      /\ cover' = cover /\ call[c].pc # "arranged"
  <2> DEFINE sent == [NoCall EXCEPT !.pc = "written", !.op = call[c].op, !.leave = call[c].leave]
  <2>1. call' = [call EXCEPT ![c] = sent] /\ cover' = cover /\ call[c].pc # "arranged"
    BY DEF Commit
  <2>2. sent \in Call /\ sent.pc = "written"
    BY BlankCalls, CallFields DEF Call
  <2> QED
    BY <2>1, <2>2 DEF TypeOK, Ready
<1>5. /\ lock' \in [Leaves -> Calls \cup {Nobody}]
      /\ \A m \in Leaves : lock[m] # c => lock'[m] = lock[m]
  BY ReleasedKeeps DEF Commit
<1>6. TypeOK'
  <2>1. audit' \subseteq [call : Calls, leave : Leaves, action : Changes, before : Row]
    BY <1>0, <1>1, CallFields DEF Commit, TypeOK
  <2> QED
    BY <1>3, <1>4, <1>5, <2>1 DEF TypeOK, Commit
<1>7. ChangeHoldsRow'
  <2> SUFFICES ASSUME NEW d \in Calls, Ready(d)', call'[d].op \in Changes
               PROVE  /\ lock'[call'[d].leave] = d
                      /\ call'[d].view = leave'[call'[d].leave]
    BY DEF ChangeHoldsRow
  <2>1. d # c /\ call'[d] = call[d] /\ Ready(d) /\ d # Nobody
    BY <1>4 DEF Ready
  <2>2. call[d].leave \in Leaves /\ lock[call[d].leave] = d /\ call[d].view = leave[call[d].leave]
    BY <2>1, CallFields DEF ChangeHoldsRow
  <2>3. call[d].leave # l
    BY <1>0, <1>1, <2>1, <2>2
  <2> QED
    BY <1>3, <1>5, <2>1, <2>2, <2>3
<1>8. RowsAppearOnce'
  <2>1. \A d \in Calls : Ready(d)' => d # c /\ Ready(d) /\ call'[d] = call[d] /\ call[d].leave \in Leaves
    BY <1>4, CallFields DEF Ready
  <2>2. \A m \in Leaves : leave'[m].status = "ABSENT" => leave'[m] = Fresh
    BY <1>2, <1>3 DEF RowsAppearOnce
  <2>3. ASSUME NEW d \in Calls, Ready(d)', call'[d].op \notin Arrangements
        PROVE  call'[d].op = "submit" <=> leave'[call'[d].leave].status = "ABSENT"
    <3>1. CASE call[d].leave = l
      <4>1. call[d].op # "submit"
        BY <1>0, <1>1, <2>1, <2>3, <3>1 DEF RowsAppearOnce
      <4> QED
        BY <1>2, <1>3, <2>1, <2>3, <3>1, <4>1
    <3>2. CASE call[d].leave # l
      BY <1>3, <2>1, <2>3, <3>2 DEF RowsAppearOnce
    <3> QED
      BY <3>1, <3>2
  <2> QED
    BY <2>1, <2>2, <2>3 DEF RowsAppearOnce
<1>9. AuditCountsChanges'
  <2>1. ASSUME NEW m \in Leaves, AuditOf(m)' = AuditOf(m), leave'[m].revision = leave[m].revision
        PROVE  /\ {a.before.revision : a \in AuditOf(m)'} = {n \in 0..leave'[m].revision : n < leave'[m].revision}
               /\ \A a, b \in AuditOf(m)' : a.before.revision = b.before.revision => a = b
    BY <2>1 DEF AuditCountsChanges
  <2>2. CASE call[c].op \notin Changes
    <3>1. \A m \in Leaves : leave'[m].revision = leave[m].revision
      BY <1>2, <1>3, <2>2
    <3>2. \A m \in Leaves : AuditOf(m)' = AuditOf(m)
      BY <2>2 DEF Commit, AuditOf
    <3> QED
      BY <2>1, <3>1, <3>2 DEF AuditCountsChanges
  <2>3. CASE call[c].op \in Changes
    <3> DEFINE new_audit == [call |-> c, leave |-> l, action |-> call[c].op, before |-> call[c].view]
               r == leave[l].revision
    <3>1. /\ \A m \in Leaves \ {l} : AuditOf(m)' = AuditOf(m)
          /\ AuditOf(l)' = AuditOf(l) \cup {new_audit}
      BY <1>0, <2>3 DEF Commit, AuditOf
    <3>2. new_audit.before.revision = r /\ r \in Nat /\ leave'[l].revision = r + 1
      BY <1>0, <1>1, <1>2, <1>3, <2>3 DEF ChangeHoldsRow, TypeOK, Row
    <3>3. /\ {a.before.revision : a \in AuditOf(l)} = {n \in 0..r : n < r}
          /\ \A a, b \in AuditOf(l) : a.before.revision = b.before.revision => a = b
      BY <1>1 DEF AuditCountsChanges
    <3> HIDE DEF new_audit, r
    <3>4. \A a \in AuditOf(l) : a.before.revision # r
      <4> SUFFICES ASSUME NEW a \in AuditOf(l), a.before.revision = r PROVE FALSE
        OBVIOUS
      <4>1. r \in {n \in 0..r : n < r}
        BY <3>3
      <4> QED
        BY <3>2, <4>1
    <3>5. {a.before.revision : a \in AuditOf(l)'} = {n \in 0..(r + 1) : n < r + 1}
      <4>1. {a.before.revision : a \in AuditOf(l)'} = {a.before.revision : a \in AuditOf(l)} \cup {r}
        BY <3>1, <3>2
      <4>2. {n \in 0..r : n < r} \cup {r} = {n \in 0..(r + 1) : n < r + 1}
        BY <3>2
      <4> QED
        BY <3>3, <4>1, <4>2
    <3>6. \A a, b \in AuditOf(l)' : a.before.revision = b.before.revision => a = b
      BY <3>1, <3>2, <3>3, <3>4
    <3>7. \A m \in Leaves \ {l} : leave'[m].revision = leave[m].revision
      BY <1>3
    <3>8. leave'[l].revision = r + 1
      BY <3>2
    <3>9. ASSUME NEW m \in Leaves
          PROVE  /\ {a.before.revision : a \in AuditOf(m)'} = {n \in 0..leave'[m].revision : n < leave'[m].revision}
                 /\ \A a, b \in AuditOf(m)' : a.before.revision = b.before.revision => a = b
      <4>1. CASE m = l
        BY <3>5, <3>6, <3>8, <4>1
      <4>2. CASE m # l
        BY <2>1, <3>1, <3>7, <4>2
      <4> QED
        BY <4>1, <4>2
    <3> QED
      BY <3>9 DEF AuditCountsChanges
  <2> QED
    BY <2>2, <2>3
<1>10. PendingUnsigned' /\ SignedOutcome'
  BY <1>2, <1>3 DEF PendingUnsigned, SignedOutcome
<1>11. AgreementsGiven' /\ AgreementsUnderWay'
  <2>1. \A a \in Lines : \A who : Accepted(a, who) => Accepted(a, who)'
    BY <1>4 DEF Accepted
  <2> QED
    BY <1>4, <2>1 DEF AgreementsGiven, AgreementsUnderWay, Ready
<1> QED
  BY <1>6, <1>7, <1>8, <1>9, <1>10, <1>11

(* A call that sets out to change the table carries no agreement of its own *)
(* making.                                                                 *)
LEMMA ArrangeInv ==
    ASSUME LeaveInv, NEW c \in Calls, NEW op \in Arrangements, NEW l \in Leaves,
           NEW who \in Staff \cup {Nobody}, NEW table \in [Lines -> Cover],
           Arrange(c, op, l, who, table),
           \A a \in Lines : FormOf[a] = l /\ table[a].agreed =>
               Accepted(a, table[a].named) \/ (op = "accept" /\ who = table[a].named)
    PROVE  LeaveInv'
<1> USE DEF LeaveInv
<1> DEFINE new == [NoCall EXCEPT !.pc = "ready", !.op = op, !.leave = l, !.who = who, !.table = table]
<1>1. /\ new \in Call
      /\ new.pc = "ready" /\ new.op = op /\ new.leave = l /\ new.who = who /\ new.table = table
  BY BlankCalls DEF Call, Ops
<1>2. call' = [call EXCEPT ![c] = new] /\ UNCHANGED <<leave, cover, lock, audit, mails>>
  BY DEF Arrange
<1> HIDE DEF new
<1>3. /\ call' \in [Calls -> Call]
      /\ call'[c] = new
      /\ \A d \in Calls \ {c} : call'[d] = call[d]
      /\ call[c].pc # "arranged"
  BY <1>1, <1>2 DEF TypeOK, Arrange
<1>4. TypeOK'
  BY <1>2, <1>3 DEF TypeOK
<1>5. op \notin Changes /\ op # "submit"
  BY DEF Changes, Arrangements
<1>6. ChangeHoldsRow' /\ RowsAppearOnce'
  BY <1>1, <1>2, <1>3, <1>5 DEF ChangeHoldsRow, RowsAppearOnce, Ready
<1>7. AuditCountsChanges' /\ PendingUnsigned' /\ SignedOutcome'
  BY <1>2 DEF AuditCountsChanges, AuditOf, PendingUnsigned, SignedOutcome
<1>8. \A a \in Lines : \A w : Accepted(a, w) => Accepted(a, w)'
  BY <1>3 DEF Accepted
<1>9. AgreementsGiven' /\ AgreementsUnderWay'
  BY <1>1, <1>2, <1>3, <1>8 DEF AgreementsGiven, AgreementsUnderWay, Ready
<1> QED
  BY <1>4, <1>6, <1>7, <1>9

(* An assignment takes the agreement of its line away. *)
LEMMA AssignInv ==
    ASSUME LeaveInv, NEW c \in Calls, NEW a \in Lines, NEW who \in Staff \cup {Nobody},
           Assign(c, a, who)
    PROVE  LeaveInv'
<1>1. cover \in [Lines -> Cover] /\ FormOf[a] \in Leaves
  BY ConstantsAssumption DEF LeaveInv, TypeOK
<1>2. Assigned(a, who) \in [Lines -> Cover]
  BY <1>1 DEF Assigned, Cover
<1>3. \A b \in Lines : Assigned(a, who)[b].agreed => Assigned(a, who)[b] = cover[b]
  BY <1>1 DEF Assigned, Cover
<1>4. \A b \in Lines : Assigned(a, who)[b].agreed => Accepted(b, Assigned(a, who)[b].named)
  BY <1>3 DEF LeaveInv, AgreementsGiven
<1> QED
  BY <1>1, <1>2, <1>4, ArrangeInv DEF Assign, Arrangements

(* An acceptance adds the agreement of the one who accepts, on lines that   *)
(* name them.                                                              *)
LEMMA AcceptInv ==
    ASSUME LeaveInv, NEW c \in Calls, NEW l \in Leaves, NEW who \in Staff, Accept(c, l, who)
    PROVE  LeaveInv'
<1> DEFINE table == [a \in Lines |-> IF a \in Asked(l, who) THEN [cover[a] EXCEPT !.agreed = TRUE]
                                    ELSE cover[a]]
<1>1. cover \in [Lines -> Cover]
  BY DEF LeaveInv, TypeOK
<1>2. table \in [Lines -> Cover]
  BY <1>1 DEF Cover
<1>3. \A a \in Lines : table[a].agreed => Accepted(a, table[a].named) \/ who = table[a].named
  BY <1>1 DEF LeaveInv, AgreementsGiven, Asked, Cover
<1>4. Arrange(c, "accept", l, who, table)
  BY DEF Accept
<1> HIDE DEF table
<1> QED
  BY <1>2, <1>3, <1>4, ArrangeInv DEF Arrangements

(* WriteTable replaces the table of one request by the table of a call.    *)
LEMMA WriteTableInv ==
    ASSUME LeaveInv, NEW c \in Calls, WriteTable(c)
    PROVE  LeaveInv'
<1> USE DEF LeaveInv
<1> DEFINE new == IF call[c].op = "accept" THEN [call[c] EXCEPT !.pc = "arranged"] ELSE Over
<1>1. /\ call' = [call EXCEPT ![c] = new] /\ UNCHANGED <<leave, lock, audit, mails>>
      /\ Ready(c) /\ call[c].op \in Arrangements
      /\ cover' = [a \in Lines |-> IF FormOf[a] = call[c].leave THEN call[c].table[a] ELSE cover[a]]
  BY DEF WriteTable, Ready
<1>2. new \in Call /\ new.pc # "ready"
  BY BlankCalls, CallFields DEF Call, Over, NoCall
<1>3. call[c].op = "accept" => /\ new.pc = "arranged" /\ new.leave = call[c].leave
                               /\ new.who = call[c].who /\ new.table = call[c].table
  BY CallFields DEF Call
<1> HIDE DEF new
<1>4. /\ call' \in [Calls -> Call]
      /\ call'[c] = new
      /\ \A d \in Calls \ {c} : call'[d] = call[d]
      /\ call[c].pc # "arranged"
  BY <1>1, <1>2 DEF TypeOK, Ready
<1>5. TypeOK'
  <2>1. cover' \in [Lines -> Cover]
    BY <1>1, CallFields DEF TypeOK
  <2> QED
    BY <1>1, <1>4, <2>1 DEF TypeOK
<1>6. ChangeHoldsRow' /\ RowsAppearOnce'
  BY <1>1, <1>2, <1>4 DEF ChangeHoldsRow, RowsAppearOnce, Ready
<1>7. AuditCountsChanges' /\ PendingUnsigned' /\ SignedOutcome'
  BY <1>1 DEF AuditCountsChanges, AuditOf, PendingUnsigned, SignedOutcome
<1>8. \A a \in Lines : \A w : Accepted(a, w) => Accepted(a, w)'
  BY <1>4 DEF Accepted
<1>9. AgreementsUnderWay'
  BY <1>2, <1>4, <1>8 DEF AgreementsUnderWay, Ready
<1>10. AgreementsGiven'
  <2> SUFFICES ASSUME NEW a \in Lines, cover'[a].agreed
               PROVE  Accepted(a, cover[a].named)'
    BY DEF AgreementsGiven
  <2>1. CASE FormOf[a] # call[c].leave
    BY <1>1, <1>8, <2>1 DEF AgreementsGiven
  <2>2. CASE FormOf[a] = call[c].leave
    <3>1. cover'[a] = call[c].table[a]
      BY <1>1, <2>2
    <3>2. CASE Accepted(a, call[c].table[a].named)
      BY <1>8, <3>1, <3>2
    <3>3. CASE call[c].op = "accept" /\ call[c].who = call[c].table[a].named
      BY <1>3, <1>4, <2>2, <3>1, <3>3 DEF Accepted
    <3> QED
      BY <1>1, <2>2, <3>1, <3>2, <3>3 DEF AgreementsUnderWay
  <2> QED
    BY <2>1, <2>2
<1> QED
  BY <1>5, <1>6, <1>7, <1>9, <1>10

(* Every step keeps the invariant. *)
LEMMA NextInv == LeaveInv /\ [Next]_vars => LeaveInv'
<1> SUFFICES ASSUME LeaveInv, [Next]_vars PROVE LeaveInv'
  OBVIOUS
<1>1. CASE \E c \in Calls, op \in Ops, l \in Leaves : Admit(c, op, l)
  BY <1>1, AdmitInv
<1>2. CASE \E c \in Calls : Refuse(c) \/ Notify(c)
  BY <1>2, QuietInv
<1>3. CASE \E c \in Calls : Commit(c)
  BY <1>3, CommitInv
<1>4. CASE \E c \in Calls, a \in Lines, who \in Staff \cup {Nobody} : Assign(c, a, who)
  BY <1>4, AssignInv
<1>5. CASE \E c \in Calls, l \in Leaves, who \in Staff : Accept(c, l, who)
  BY <1>5, AcceptInv
<1>6. CASE \E c \in Calls : WriteTable(c)
  BY <1>6, WriteTableInv
<1>7. CASE UNCHANGED vars
  BY <1>7 DEF vars, LeaveInv, TypeOK, ChangeHoldsRow, RowsAppearOnce, Ready,
              AuditCountsChanges, AuditOf, PendingUnsigned, SignedOutcome,
              AgreementsGiven, AgreementsUnderWay, Accepted
<1> QED
  BY <1>1, <1>2, <1>3, <1>4, <1>5, <1>6, <1>7 DEF Next

(* The inductive invariant holds of every behaviour. *)
THEOREM LeavesCorrect == Spec => []LeaveInv
BY InitInv, NextInv, PTL DEF Spec

(* Rows, calls and logs keep their types. *)
THEOREM TypeCorrect == Spec => []TypeOK
<1>1. LeaveInv => TypeOK
  BY DEF LeaveInv
<1> QED
  BY <1>1, LeavesCorrect, PTL

(* One audit row for each change a request counts (change_decision). *)
THEOREM OneAuditRowPerChange == Spec => []AuditCountsChanges
<1>1. LeaveInv => AuditCountsChanges
  BY DEF LeaveInv
<1> QED
  BY <1>1, LeavesCorrect, PTL

(* A request that waits for its first signature has none (_clear_decision). *)
THEOREM ReopenedIsClean == Spec => []PendingUnsigned
<1>1. LeaveInv => PendingUnsigned
  BY DEF LeaveInv
<1> QED
  BY <1>1, LeavesCorrect, PTL

(* An outcome bears the signature of somebody who decided so (decide_leave). *)
THEOREM OutcomesAreSigned == Spec => []SignedOutcome
<1>1. LeaveInv => SignedOutcome
  BY DEF LeaveInv
<1> QED
  BY <1>1, LeavesCorrect, PTL

(* The audit trail holds the decision that was undone (change_decision). *)
THEOREM TrailHoldsWhatWasUndone == Spec => BeforeImageIsTrue
<1>1. LeaveInv /\ [Next]_vars => [\A a \in audit' \ audit : a.before = leave[a.leave]]_vars
  <2> SUFFICES ASSUME LeaveInv, Next, NEW a \in audit' \ audit
               PROVE  a.before = leave[a.leave]
    OBVIOUS
  <2>1. PICK c \in Calls : Commit(c)
    BY DEF Next, Admit, Refuse, Notify, Assign, Accept, Arrange, WriteTable
  <2>2. /\ call[c].op \in Changes
        /\ a = [call |-> c, leave |-> call[c].leave, action |-> call[c].op, before |-> call[c].view]
    BY <2>1 DEF Commit
  <2>3. Ready(c)
    BY <2>1 DEF Commit, Ready
  <2> QED
    BY <2>2, <2>3 DEF LeaveInv, ChangeHoldsRow
<1> QED
  BY <1>1, LeavesCorrect, PTL DEF Spec, BeforeImageIsTrue

(* A line marked as agreed names a colleague who agreed to it               *)
(* (assign_alternate, accept_alternate).                                   *)
THEOREM AgreementIsTheirs == Spec => []AgreementIsOwn
<1>1. LeaveInv => AgreementIsOwn
  BY DEF LeaveInv, AgreementsGiven, Accepted, AgreementIsOwn
<1> QED
  BY <1>1, LeavesCorrect, PTL

-----------------------------------------------------------------------------
(***************************************************************************)
(* The mails.  Whoever writes an outcome still has a mail to send, and it  *)
(* is about the outcome unless the row was written again, by somebody who  *)
(* then has one to send too.  A key that is used already was used for the  *)
(* very same news: a revision is made by one change, and its audit row     *)
(* says which (AuditCountsChanges).                                        *)
(***************************************************************************)
Outcomes == {"APPROVED", "REJECTED", "REVOKED"}

Told(l) == \E m \in mails : m.leave = l /\ m.status = leave[l].status /\ m.revision = leave[l].revision

(* The calls that write an outcome. *)
Writers(status) == IF status = "REVOKED" THEN {"revoke"} ELSE Decisions

ToldOrPending ==
    \A l \in Leaves : leave[l].status \in Outcomes =>
        \/ Told(l)
        \/ \E c \in Calls : /\ call[c].pc = "written" /\ call[c].leave = l
                            /\ call[c].op \in Writers(leave[l].status)

MadeBy(l, r, action) == \E a \in AuditOf(l) : a.before.revision + 1 = r /\ a.action = action

ChangesAreTracked ==
    /\ \A l \in Leaves :
          /\ leave[l].status = "REVOKED" => MadeBy(l, leave[l].revision, "revoke")
          /\ leave[l].status = "SUBMITTED" /\ leave[l].revision # 0 =>
                MadeBy(l, leave[l].revision, "reopen")
    /\ \A c \in Calls : call[c].pc = "written" /\ call[c].op \in Changes =>
          leave[call[c].leave].revision # 0

KeysTell ==
    \A m \in mails :
        \/ m.key = <<m.status, m.revision>>
        \/ /\ m.key = <<"change", m.revision>>
           /\ \/ m.status = "REVOKED" /\ MadeBy(m.leave, m.revision, "revoke")
              \/ m.status = "SUBMITTED" /\ MadeBy(m.leave, m.revision, "reopen")

MailInv == ToldOrPending /\ ChangesAreTracked /\ KeysTell

(* A revision is the work of one change. *)
LEMMA OneMaker ==
    ASSUME LeaveInv, NEW l \in Leaves, NEW r \in Nat, NEW x, NEW y,
           MadeBy(l, r, x), MadeBy(l, r, y)
    PROVE  x = y
<1>1. PICK a \in AuditOf(l) : a.before.revision + 1 = r /\ a.action = x
  BY DEF MadeBy
<1>2. PICK b \in AuditOf(l) : b.before.revision + 1 = r /\ b.action = y
  BY DEF MadeBy
<1>3. a.before.revision \in Nat /\ b.before.revision \in Nat
  BY DEF LeaveInv, TypeOK, AuditOf, Row
<1>4. a.before.revision = b.before.revision
  BY <1>1, <1>2, <1>3
<1> QED
  BY <1>1, <1>2, <1>4 DEF LeaveInv, AuditCountsChanges

(* The audit only grows. *)
LEMMA MadeStays ==
    ASSUME audit \subseteq audit'
    PROVE  \A l, r, action : MadeBy(l, r, action) => MadeBy(l, r, action)'
BY DEF MadeBy, AuditOf

(* Which status a write leaves. *)
LEMMA WrittenStatus ==
    ASSUME LeaveInv, NEW c \in Calls, Ready(c), call[c].op \notin Arrangements,
           NEW row, row = leave[call[c].leave],
           NEW new, new = After(row, call[c].view, call[c].op, c)
    PROVE  \/ call[c].op = "submit" /\ new.status = "SUBMITTED" /\ new.revision = 0
           \/ call[c].op = "cancel" /\ new.status = "CANCELLED"
           \/ call[c].op \in Decisions /\ new.status \in {"APPROVED", "REJECTED"}
           \/ call[c].op = "revoke" /\ new.status = "REVOKED"
           \/ call[c].op = "reopen" /\ new.status = "SUBMITTED"
<1>1. row \in Row /\ call[c].view \in Row /\ call[c].op \in Ops
  BY CallFields DEF LeaveInv
<1>2. CASE call[c].op = "submit"
  BY <1>2 DEF After, Fresh, Decisions
<1>3. CASE call[c].op = "cancel"
  BY <1>1, <1>3 DEF After, Decisions, Row
<1>4. CASE call[c].op \in Decisions
  <2>1. new = Decided(row, call[c].view, call[c].op, c)
    BY <1>4 DEF After, Decisions
  <2>2. new.status = Verdict(call[c].op)
    BY <1>1, <2>1 DEF Decided, Row
  <2> QED
    BY <1>4, <2>2 DEF Verdict
<1>5. CASE call[c].op = "revoke"
  <2>1. new = [row EXCEPT !.status = "REVOKED", !.revision = call[c].view.revision + 1]
    BY <1>5 DEF After, Decisions
  <2> QED
    BY <1>1, <1>5, <2>1 DEF Row
<1>6. CASE call[c].op = "reopen"
  <2>1. new = [Reopened(row) EXCEPT !.revision = call[c].view.revision + 1]
    BY <1>6 DEF After, Decisions
  <2> QED
    BY <1>1, <1>6, <2>1 DEF Reopened, Row
<1> QED
  BY <1>1, <1>2, <1>3, <1>4, <1>5, <1>6 DEF Ops, Changes, Arrangements

Written(c) == call[c].pc = "written"

(* A step that writes no row and sends no mail. *)
LEMMA SilentMail ==
    ASSUME MailInv, UNCHANGED <<leave, audit, mails>>,
           \A c \in Calls : (Written(c) \/ Written(c)') => call'[c] = call[c]
    PROVE  MailInv'
<1>1. \A l, r, action : MadeBy(l, r, action)' <=> MadeBy(l, r, action)
  BY DEF MadeBy, AuditOf
<1>2. ToldOrPending'
  <2>1. \A l \in Leaves : Told(l)' <=> Told(l)
    BY DEF Told
  <2> QED
    BY <2>1 DEF MailInv, ToldOrPending, Written
<1>3. ChangesAreTracked'
  BY <1>1 DEF MailInv, ChangesAreTracked, Written
<1>4. KeysTell'
  BY <1>1 DEF MailInv, KeysTell
<1> QED
  BY <1>2, <1>3, <1>4 DEF MailInv

(* Commit: who writes an outcome has its mail to send. *)
LEMMA CommitMail ==
    ASSUME LeaveInv, MailInv, NEW c \in Calls, Commit(c)
    PROVE  MailInv'
<1> USE ConstantsAssumption
<1>0. PICK l \in Leaves : l = call[c].leave
  BY CallFields DEF LeaveInv
<1> DEFINE new == After(leave[l], call[c].view, call[c].op, c)
           sent == [NoCall EXCEPT !.pc = "written", !.op = call[c].op, !.leave = l]
           MadeThen(m, r, action) ==
               \E a \in audit' : a.leave = m /\ a.before.revision + 1 = r /\ a.action = action
<1>1. Ready(c) /\ call[c].op \notin Arrangements
  BY DEF Commit, Ready
<1>2. /\ new.revision = IF call[c].op \in Changes THEN leave[l].revision + 1 ELSE leave[l].revision
      /\ leave[l].revision \in Nat
  BY <1>0, <1>1, WrittenRow, CallFields DEF LeaveInv, Row
<1>3. \/ call[c].op = "submit" /\ new.status = "SUBMITTED" /\ new.revision = 0
      \/ call[c].op = "cancel" /\ new.status = "CANCELLED"
      \/ call[c].op \in Decisions /\ new.status \in {"APPROVED", "REJECTED"}
      \/ call[c].op = "revoke" /\ new.status = "REVOKED"
      \/ call[c].op = "reopen" /\ new.status = "SUBMITTED"
  BY <1>0, <1>1, WrittenStatus
<1>4. /\ leave' = [leave EXCEPT ![l] = new] /\ call' = [call EXCEPT ![c] = sent]
      /\ mails' = mails /\ audit \subseteq audit'
      /\ call[c].op \in Changes =>
            [call |-> c, leave |-> l, action |-> call[c].op, before |-> call[c].view] \in audit'
  BY <1>0 DEF Commit
<1>5. sent.pc = "written" /\ sent.op = call[c].op /\ sent.leave = l
  BY DEF NoCall
<1>6. call[c].op \in Changes => MadeThen(l, new.revision, call[c].op)
  <2> SUFFICES ASSUME call[c].op \in Changes PROVE MadeThen(l, new.revision, call[c].op)
    OBVIOUS
  <2> DEFINE a == [call |-> c, leave |-> l, action |-> call[c].op, before |-> call[c].view]
  <2>1. call[c].view = leave[l]
    BY <1>0, <1>1 DEF LeaveInv, ChangeHoldsRow
  <2>2. a \in audit' /\ a.leave = l /\ a.action = call[c].op
        /\ a.before.revision + 1 = leave[l].revision + 1
    BY <1>4, <2>1
  <2>3. new.revision = leave[l].revision + 1
    BY <1>2
  <2> HIDE DEF a, new
  <2> QED
    BY <2>2, <2>3
<1> HIDE DEF new, sent
<1>7. /\ leave'[l] = new /\ \A m \in Leaves \ {l} : leave'[m] = leave[m]
      /\ call'[c] = sent /\ \A d \in Calls \ {c} : call'[d] = call[d]
      /\ call[c].pc # "written"
  BY <1>1, <1>4 DEF LeaveInv, TypeOK, Ready
<1>8. \A m, r, action : /\ MadeBy(m, r, action) => MadeBy(m, r, action)'
                        /\ MadeBy(m, r, action)' <=> MadeThen(m, r, action)
  BY <1>4, MadeStays DEF MadeBy, AuditOf
<1> HIDE DEF MadeThen
<1>9. ToldOrPending'
  <2> SUFFICES ASSUME NEW m \in Leaves, leave'[m].status \in Outcomes
               PROVE  \/ Told(m)'
                      \/ \E d \in Calls : /\ call'[d].pc = "written" /\ call'[d].leave = m
                                          /\ call'[d].op \in Writers(leave'[m].status)
    BY DEF ToldOrPending
  <2>1. CASE m = l
    <3>1. call[c].op \in Writers(new.status)
      BY <1>3, <1>7, <2>1 DEF Outcomes, Writers
    <3> QED
      BY <1>5, <1>7, <2>1, <3>1
  <2>2. CASE m # l
    <3>1. leave'[m] = leave[m] /\ (Told(m) => Told(m)')
      BY <1>4, <1>7, <2>2 DEF Told
    <3> QED
      BY <1>7, <3>1 DEF MailInv, ToldOrPending
  <2> QED
    BY <2>1, <2>2
<1>10. ChangesAreTracked'
  <2>1. ASSUME NEW m \in Leaves
        PROVE  /\ leave'[m].status = "REVOKED" => MadeThen(m, leave'[m].revision, "revoke")
               /\ leave'[m].status = "SUBMITTED" /\ leave'[m].revision # 0 =>
                     MadeThen(m, leave'[m].revision, "reopen")
    <3>1. CASE m = l
      BY <1>3, <1>6, <1>7, <3>1 DEF Changes
    <3>2. CASE m # l
      BY <1>7, <1>8, <3>2 DEF MailInv, ChangesAreTracked
    <3> QED
      BY <3>1, <3>2
  <2>2. ASSUME NEW d \in Calls, call'[d].pc = "written", call'[d].op \in Changes
        PROVE  leave'[call'[d].leave].revision # 0
    <3>1. CASE d = c
      BY <1>2, <1>5, <1>7, <2>2, <3>1
    <3>2. CASE d # c
      <4>1. /\ call'[d] = call[d] /\ call[d].leave \in Leaves
            /\ leave[call[d].leave].revision # 0
        BY <1>7, <2>2, <3>2, CallFields DEF LeaveInv, MailInv, ChangesAreTracked
      <4> QED
        BY <1>2, <1>7, <4>1
    <3> QED
      BY <3>1, <3>2
  <2> QED
    BY <1>8, <2>1, <2>2 DEF ChangesAreTracked
<1>11. KeysTell'
  BY <1>4, <1>8 DEF MailInv, KeysTell
<1> QED
  BY <1>9, <1>10, <1>11 DEF MailInv

(* Notify: the news is sent, or was; or this call's is not the last word. *)
LEMMA NotifyMail ==
    ASSUME LeaveInv, MailInv, NEW c \in Calls, Notify(c)
    PROVE  MailInv'
<1> USE ConstantsAssumption
<1>0. PICK l \in Leaves : l = call[c].leave /\ leave[l] \in Row /\ call[c].op \in Ops
  BY CallFields DEF LeaveInv
<1> DEFINE row == leave[l]
           op == call[c].op
           key == MailKey(op, row)
           news == [leave |-> l, key |-> key, status |-> row.status, revision |-> row.revision]
           used == \E m \in mails : m.leave = l /\ m.key = key
<1>1. /\ call[c].pc = "written"
      /\ mails' = IF row.status \in Worded(op) /\ ~used THEN mails \cup {news} ELSE mails
      /\ UNCHANGED <<leave, audit>>
      /\ call' = [call EXCEPT ![c] = Over]
  BY <1>0 DEF Notify
<1>2. /\ call'[c].pc = "done" /\ \A d \in Calls \ {c} : call'[d] = call[d]
      /\ mails \subseteq mails'
  BY <1>1 DEF LeaveInv, TypeOK, Over, NoCall
<1>3. \A m, r, action : MadeBy(m, r, action)' <=> MadeBy(m, r, action)
  BY <1>1 DEF MadeBy, AuditOf
<1>4. key = <<IF op \in Changes THEN "change" ELSE row.status, row.revision>>
  BY DEF MailKey
<1>5. op \in Changes => row.revision # 0
  BY <1>0, <1>1 DEF MailInv, ChangesAreTracked
<1>6. ChangesAreTracked'
  BY <1>1, <1>2, <1>3 DEF MailInv, ChangesAreTracked
<1>7. KeysTell'
  <2>1. ASSUME row.status \in Worded(op)
        PROVE  \/ news.key = <<news.status, news.revision>>
               \/ /\ news.key = <<"change", news.revision>>
                  /\ \/ news.status = "REVOKED" /\ MadeBy(news.leave, news.revision, "revoke")
                     \/ news.status = "SUBMITTED" /\ MadeBy(news.leave, news.revision, "reopen")
    <3>1. CASE op \notin Changes
      BY <1>4, <3>1
    <3>2. CASE op \in Changes
      <4>1. row.status \in {"REVOKED", "SUBMITTED"}
        BY <2>1, <3>2 DEF Worded, Changes
      <4> QED
        BY <1>0, <1>4, <1>5, <3>2, <4>1 DEF MailInv, ChangesAreTracked
    <3> QED
      BY <3>1, <3>2
  <2> HIDE DEF news
  <2> QED
    BY <1>1, <1>3, <2>1 DEF MailInv, KeysTell
<1>8. ToldOrPending'
  <2> SUFFICES ASSUME NEW m \in Leaves, leave[m].status \in Outcomes
               PROVE  \/ Told(m)'
                      \/ \E d \in Calls : /\ call'[d].pc = "written" /\ call'[d].leave = m
                                          /\ call'[d].op \in Writers(leave[m].status)
    BY <1>1 DEF ToldOrPending
  <2>1. Told(m) => Told(m)'
    BY <1>1, <1>2 DEF Told
  <2>2. CASE Told(m)
    BY <2>1, <2>2
  <2>3. CASE ~Told(m)
    <3>1. PICK d \in Calls : /\ call[d].pc = "written" /\ call[d].leave = m
                             /\ call[d].op \in Writers(leave[m].status)
      BY <2>3 DEF MailInv, ToldOrPending
    <3>2. CASE d # c
      BY <1>2, <3>1, <3>2
    <3>3. CASE d = c
      <4>1. m = l /\ op \in Writers(row.status) /\ row.status \in Outcomes
        BY <1>0, <3>1, <3>3
      <4>2. row.status \in Worded(op)
        BY <4>1 DEF Worded, Writers, Outcomes, Decisions, Changes
      <4>3. CASE ~used
        <5>1. news \in mails'
          BY <1>1, <4>2, <4>3
        <5> QED
          BY <1>1, <4>1, <5>1 DEF Told
      <4>4. CASE used
        <5>1. PICK n \in mails : n.leave = l /\ n.key = key
          BY <4>4
        <5>2. row.revision \in Nat
          BY <1>0 DEF Row
        <5>3. CASE op \in Decisions
          <6>1. key = <<row.status, row.revision>> /\ row.status # "change"
            BY <1>0, <1>4, <5>3 DEF Decisions, Changes, Row, Status
          <6>2. n.key = <<n.status, n.revision>>
            BY <5>1, <6>1 DEF MailInv, KeysTell
          <6> QED
            BY <2>3, <4>1, <5>1, <6>1, <6>2 DEF Told
        <5>4. CASE op \notin Decisions
          <6>1. op = "revoke" /\ row.status = "REVOKED"
            BY <4>1, <5>4 DEF Writers
          <6>2. key = <<"change", row.revision>>
            BY <1>4, <6>1 DEF Changes
          <6>3. MadeBy(l, row.revision, "revoke")
            BY <6>1 DEF MailInv, ChangesAreTracked
          <6>4. n.status # "change"
            BY DEF LeaveInv, TypeOK, Status
          <6>5. /\ n.revision = row.revision
                /\ \/ n.status = "REVOKED"
                   \/ n.status = "SUBMITTED" /\ MadeBy(l, row.revision, "reopen")
            BY <5>1, <6>2, <6>4 DEF MailInv, KeysTell
          <6>6. n.status = "REVOKED"
            BY <5>2, <6>3, <6>5, OneMaker
          <6> QED
            BY <2>3, <4>1, <5>1, <6>1, <6>5, <6>6 DEF Told
        <5> QED
          BY <5>3, <5>4
      <4> QED
        BY <4>3, <4>4
    <3> QED
      BY <3>2, <3>3
  <2> QED
    BY <2>2, <2>3
<1> QED
  BY <1>6, <1>7, <1>8 DEF MailInv

(* Every step keeps what the mails say. *)
LEMMA MailStep == LeaveInv /\ MailInv /\ [Next]_vars => MailInv'
<1> SUFFICES ASSUME LeaveInv, MailInv, [Next]_vars PROVE MailInv'
  OBVIOUS
<1> DEFINE Silent == /\ UNCHANGED <<leave, audit, mails>>
                     /\ \A c \in Calls : (Written(c) \/ Written(c)') => call'[c] = call[c]
<1>0. ASSUME NEW c \in Calls, NEW new, call[c].pc # "written", new.pc # "written",
             call' = [call EXCEPT ![c] = new], UNCHANGED <<leave, audit, mails>>
      PROVE  Silent
  BY <1>0 DEF LeaveInv, TypeOK, Written
<1>1. ASSUME NEW c \in Calls, NEW op \in Ops, NEW l \in Leaves, Admit(c, op, l) PROVE Silent
  <2> DEFINE new == [NoCall EXCEPT !.pc = "ready", !.op = op, !.leave = l, !.view = leave[l]]
  <2>1. new.pc = "ready" /\ call[c].pc = "idle"
    BY <1>1 DEF NoCall, Admit
  <2> QED
    BY <1>0, <1>1, <2>1 DEF Admit
<1>2. ASSUME NEW c \in Calls, Refuse(c) PROVE Silent
  BY <1>0, <1>2 DEF Refuse, Over, NoCall
<1>3. ASSUME NEW c \in Calls, NEW op, NEW l, NEW who, NEW table, Arrange(c, op, l, who, table)
      PROVE  Silent
  <2> DEFINE new == [NoCall EXCEPT !.pc = "ready", !.op = op, !.leave = l, !.who = who, !.table = table]
  <2>1. new.pc = "ready" /\ call[c].pc = "idle"
    BY <1>3 DEF NoCall, Arrange
  <2> QED
    BY <1>0, <1>3, <2>1 DEF Arrange
<1>4. ASSUME NEW c \in Calls, WriteTable(c) PROVE Silent
  <2> DEFINE new == IF call[c].op = "accept" THEN [call[c] EXCEPT !.pc = "arranged"] ELSE Over
  <2>1. new.pc # "written" /\ call[c].pc = "ready"
    BY <1>4, CallFields DEF WriteTable, Over, NoCall, LeaveInv, Call
  <2>2. call' = [call EXCEPT ![c] = new] /\ UNCHANGED <<leave, audit, mails>>
    BY <1>4 DEF WriteTable
  <2> HIDE DEF new
  <2> QED
    BY <1>0, <2>1, <2>2
<1>5. CASE UNCHANGED vars
  BY <1>5, SilentMail DEF vars
<1> QED
  BY <1>1, <1>2, <1>3, <1>4, <1>5, SilentMail, CommitMail, NotifyMail DEF Next, Assign, Accept

(* With its mails out, the applicant knows the outcome (dedupe_key,         *)
(* change_dedupe_key).                                                     *)
THEOREM ApplicantsAreTold == Spec => []ToldOfOutcome
<1>1. Init => MailInv
  <2> SUFFICES ASSUME Init PROVE MailInv
    OBVIOUS
  <2>1. \A l \in Leaves : leave[l].status \in {"ABSENT", "FIRST_APPROVED"}
    BY DEF Init, Fresh, SignedOnce
  <2>2. mails = {} /\ \A c \in Calls : call[c].pc = "idle"
    BY DEF Init, NoCall
  <2> QED
    BY <2>1, <2>2 DEF MailInv, ToldOrPending, Outcomes, ChangesAreTracked, KeysTell
<1>2. Spec => []MailInv
  BY <1>1, MailStep, LeavesCorrect, PTL DEF Spec
<1>3. MailInv => ToldOfOutcome
  BY DEF MailInv, ToldOrPending, Outcomes, Told, ToldOfOutcome, AtRest
<1> QED
  BY <1>2, <1>3, PTL
=============================================================================
