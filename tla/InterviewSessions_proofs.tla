----------------------- MODULE InterviewSessions_proofs -----------------------
(***************************************************************************)
(* What holds of interviews for any number of handshakes, students and     *)
(* workers: the phases of a handler and its record agree; the limiters     *)
(* count the handlers; the advisory lock makes the counts of an opening    *)
(* transaction last until its row is in, but for one attempt of a student  *)
(* who never talked; and who holds it is about to let it go.               *)
(***************************************************************************)
EXTENDS InterviewSessions, FiniteSetTheorems, TLAPS

(***************************************************************************)
(* How far a handler is and what its record says, and whether a write of   *)
(* its finalizer is still to come.  A record that is served runs, unless   *)
(* its heartbeats failed for longer than the sweep waits; one that was     *)
(* silent for longer than the count looks back is marked as missed.        *)
(***************************************************************************)
Agrees(p, r, isLate) ==
    /\ p \in {"new", "resolving", "opening"} => r.status = "none"
    /\ p \in {"counted", "inserting"} <=> r.status = "pending"
    /\ p \in {"counted", "inserting", "opened", "live", "ending", "releasing", "released"} => r.silence <= SessionCap
    /\ r.silence > LiveGrace => r.missed
    /\ p \in {"opened", "live"} => r.status = "running" \/ r.silence > OrphanGrace
    /\ isLate => p \in {"releasing", "released", "closed"}

AllAgree == \A a \in Attempts : Agrees(phase[a], row[a], a \in late)

PhasesInv == TypeOK /\ AllAgree

-----------------------------------------------------------------------------
(* The handlers and their records *)

LEMMA NoRowIsARow ==
    NoRow \in Row /\ NoRow.status = "none" /\ NoRow.silence = 0 /\ ~NoRow.counted /\ ~NoRow.missed
BY ConstantsAssumption DEF NoRow, Row, Terminal

(* It holds before the first handshake. *)
LEMMA PhasesInit == Init => PhasesInv
<1> SUFFICES ASSUME Init PROVE PhasesInv
  OBVIOUS
<1> USE ConstantsAssumption, NoRowIsARow DEF Init
<1>1. TypeOK
  BY DEF TypeOK, Phase
<1>2. AllAgree
  BY DEF AllAgree, Agrees
<1> QED
  BY <1>1, <1>2 DEF PhasesInv

(* A step of one handler need only be looked at for that handler. *)
LEMMA OwnStep ==
    ASSUME PhasesInv, NEW a \in Attempts, NEW p \in Phase, NEW r \in Row,
           phase' = [phase EXCEPT ![a] = p], row' = [row EXCEPT ![a] = r],
           late' \in SUBSET Attempts, late' \ {a} = late \ {a}, Agrees(p, r, a \in late')
    PROVE  phase' \in [Attempts -> Phase] /\ row' \in [Attempts -> Row] /\ AllAgree'
<1>1. phase' \in [Attempts -> Phase] /\ row' \in [Attempts -> Row]
  BY DEF PhasesInv, TypeOK
<1>2. ASSUME NEW b \in Attempts PROVE Agrees(phase'[b], row'[b], b \in late')
  <2>1. CASE b = a
    BY <2>1 DEF PhasesInv, TypeOK
  <2>2. CASE b # a
    <3>1. phase'[b] = phase[b] /\ row'[b] = row[b] /\ (b \in late') = (b \in late)
      BY <2>2 DEF PhasesInv, TypeOK
    <3>2. Agrees(phase[b], row[b], b \in late)
      BY DEF PhasesInv, AllAgree
    <3> QED
      BY <3>1, <3>2
  <2> QED
    BY <2>1, <2>2
<1> QED
  BY <1>1, <1>2 DEF AllAgree

(* What is known of a handler. *)
LEMMA Known ==
    ASSUME PhasesInv, NEW a \in Attempts
    PROVE  /\ phase[a] \in Phase /\ row[a] \in Row /\ Agrees(phase[a], row[a], a \in late)
           /\ phase = [phase EXCEPT ![a] = phase[a]] /\ row = [row EXCEPT ![a] = row[a]]
           /\ late \in SUBSET Attempts /\ StudentOf[a] \in Students
BY ConstantsAssumption DEF PhasesInv, TypeOK, AllAgree

(* A slot that is given back keeps the counts within their bounds. *)
LEMMA FreedTyped ==
    ASSUME TypeOK, NEW w, NEW s \in Students
    PROVE  Freed(w, s) \in [Workers -> [Students -> 0 .. PerUser]]
<1>1. CASE w \notin Workers
  <2>1. Freed(w, s) = slots
    BY <1>1 DEF Freed, TypeOK
  <2> QED
    BY <2>1 DEF TypeOK
<1>2. CASE w \in Workers
  <2> DEFINE n == IF slots[w][s] <= 1 THEN 0 ELSE slots[w][s] - 1
             f == [slots[w] EXCEPT ![s] = n]
  <2>1. slots[w] \in [Students -> 0 .. PerUser] /\ slots[w][s] \in 0 .. PerUser /\ PerUser \in Nat
    BY <1>2, ConstantsAssumption DEF TypeOK
  <2>2. n \in 0 .. PerUser
    BY <2>1
  <2>3. Freed(w, s) = [slots EXCEPT ![w] = f]
    BY DEF Freed
  <2> HIDE DEF n
  <2>4. f \in [Students -> 0 .. PerUser]
    BY <2>1, <2>2
  <2> HIDE DEF f
  <2> QED
    BY <1>2, <2>3, <2>4 DEF TypeOK
<1> QED
  BY <1>1, <1>2

(* A handler that gives up leaves no row. *)
LEMMA GivesUpPhases ==
    ASSUME PhasesInv, NEW a \in Attempts, GivesUp(a),
           phase[a] \in {"resolving", "opening", "counted", "inserting"}
    PROVE  PhasesInv'
<1> USE DEF GivesUp, GoesTo
<1>1. "refused" \in Phase
  BY DEF Phase, Over
<1>2. Agrees("refused", NoRow, a \in late')
  BY Known, NoRowIsARow, ConstantsAssumption DEF Agrees
<1>3. phase' \in [Attempts -> Phase] /\ row' \in [Attempts -> Row] /\ AllAgree'
  BY <1>1, <1>2, Known, NoRowIsARow, OwnStep
<1>4. TypeOK'
  BY <1>3, Known, FreedTyped DEF PhasesInv, TypeOK, Releases, Unlocked
<1> QED
  BY <1>3, <1>4 DEF PhasesInv

(* A handshake takes a slot that is there, or is refused. *)
LEMMA ConnectPhases ==
    ASSUME PhasesInv, NEW a \in Attempts, NEW w \in Workers, Connect(a, w)
    PROVE  PhasesInv'
<1> USE DEF Connect, GoesTo, records
<1>1. \A p \in {"refused", "resolving"} : p \in Phase /\ Agrees(p, row[a], a \in late)
  BY Known DEF Agrees, Phase, Over, Holding
<1>2. phase' \in [Attempts -> Phase] /\ row' \in [Attempts -> Row] /\ AllAgree'
  BY <1>1, Known, OwnStep
<1>3. slots' \in [Workers -> [Students -> 0 .. PerUser]]
  <2>1. CASE UNCHANGED slots
    BY <2>1 DEF PhasesInv, TypeOK
  <2>2. CASE ~Refuses(w, StudentOf[a]) /\ slots' = [slots EXCEPT ![w][StudentOf[a]] = @ + 1]
    <3> DEFINE s == StudentOf[a]
               f == [slots[w] EXCEPT ![s] = slots[w][s] + 1]
    <3>1. s \in Students /\ slots[w] \in [Students -> 0 .. PerUser] /\ slots[w][s] \in 0 .. PerUser
      BY Known DEF PhasesInv, TypeOK
    <3>2. slots[w][s] + 1 \in 0 .. PerUser
      BY <2>2, <3>1, ConstantsAssumption DEF Refuses
    <3>3. slots' = [slots EXCEPT ![w] = f]
      BY <2>2
    <3> HIDE DEF s
    <3>4. f \in [Students -> 0 .. PerUser]
      BY <3>1, <3>2
    <3> HIDE DEF f
    <3> QED
      BY <3>3, <3>4 DEF PhasesInv, TypeOK
  <2> QED
    BY <2>1, <2>2
<1>4. TypeOK'
  BY <1>2, <1>3 DEF PhasesInv, TypeOK
<1> QED
  BY <1>2, <1>4 DEF PhasesInv

(* A track is found, or the handshake is given up. *)
LEMMA ResolvePhases ==
    ASSUME PhasesInv, NEW a \in Attempts, Resolve(a)
    PROVE  PhasesInv'
<1> USE DEF Resolve, records
<1>1. CASE GivesUp(a)
  BY <1>1, GivesUpPhases
<1>2. CASE GoesTo(a, "opening") /\ UNCHANGED <<worker, records, slots, opener, talked, up>>
  <2>1. "opening" \in Phase /\ Agrees("opening", row[a], a \in late)
    BY Known DEF Agrees, Phase, Holding
  <2>2. phase' \in [Attempts -> Phase] /\ row' \in [Attempts -> Row] /\ AllAgree'
    BY <1>2, <2>1, Known, OwnStep DEF GoesTo
  <2>3. TypeOK'
    BY <1>2, <2>2 DEF PhasesInv, TypeOK
  <2> QED
    BY <2>2, <2>3 DEF PhasesInv
<1> QED
  BY <1>1, <1>2

(* The caps are counted, and the row is prepared. *)
LEMMA CountCapsPhases ==
    ASSUME PhasesInv, NEW a \in Attempts, CountCaps(a)
    PROVE  PhasesInv'
<1> USE DEF CountCaps
<1>1. CASE GivesUp(a)
  BY <1>1, GivesUpPhases
<1>2. CASE ~GivesUp(a)
  <2> DEFINE r == [NoRow EXCEPT !.status = "pending", !.counted = TRUE]
  <2>1. "counted" \in Phase /\ r \in Row /\ r.status = "pending" /\ r.silence = 0
    <3>1. NoRow \in Row /\ NoRow.silence = 0
      BY NoRowIsARow
    <3> QED
      BY <3>1 DEF Phase, Holding, Row
  <2>2. row' = [row EXCEPT ![a] = r] /\ late' = late /\ phase' = [phase EXCEPT ![a] = "counted"]
    BY <1>2 DEF GoesTo
  <2> HIDE DEF r
  <2>3. Agrees("counted", r, a \in late')
    BY <2>1, <2>2, Known, ConstantsAssumption DEF Agrees
  <2>4. phase' \in [Attempts -> Phase] /\ row' \in [Attempts -> Row] /\ AllAgree'
    BY <2>1, <2>2, <2>3, Known, OwnStep
  <2>5. TypeOK'
    BY <1>2, <2>4 DEF PhasesInv, TypeOK
  <2> QED
    BY <2>4, <2>5 DEF PhasesInv
<1> QED
  BY <1>1, <1>2

(* The live rows are counted, and the conversation is found or made. *)
LEMMA CountLivePhases ==
    ASSUME PhasesInv, NEW a \in Attempts, CountLive(a)
    PROVE  PhasesInv'
<1> USE DEF CountLive, records
<1>1. CASE GivesUp(a)
  BY <1>1, GivesUpPhases
<1>2. CASE ~GivesUp(a)
  <2>1. "inserting" \in Phase /\ Agrees("inserting", row[a], a \in late)
    BY Known DEF Agrees, Phase, Holding
  <2>2. phase' \in [Attempts -> Phase] /\ row' \in [Attempts -> Row] /\ AllAgree'
    BY <1>2, <2>1, Known, OwnStep DEF GoesTo
  <2>3. TypeOK'
    BY <1>2, <2>2, Known DEF PhasesInv, TypeOK, Unlocked
  <2> QED
    BY <2>2, <2>3 DEF PhasesInv
<1> QED
  BY <1>1, <1>2

(* The opening transaction fails. *)
LEMMA OpenFailsPhases ==
    ASSUME PhasesInv, NEW a \in Attempts, OpenFails(a)
    PROVE  PhasesInv'
BY GivesUpPhases DEF OpenFails

(* An exception leaves the handler, and its row as it is. *)
LEMMA EscapePhases ==
    ASSUME PhasesInv, NEW a \in Attempts, Escape(a)
    PROVE  PhasesInv'
<1> USE DEF Escape, GoesTo, records
<1>1. "escaped" \in Phase /\ Agrees("escaped", row[a], a \in late')
  BY Known DEF Agrees, Phase, Holding, Over
<1>2. phase' \in [Attempts -> Phase] /\ row' \in [Attempts -> Row] /\ AllAgree'
  BY <1>1, Known, OwnStep
<1>3. TypeOK'
  BY <1>2 DEF PhasesInv, TypeOK
<1> QED
  BY <1>2, <1>3 DEF PhasesInv

(* The engine runs. *)
LEMMA StartPhases ==
    ASSUME PhasesInv, NEW a \in Attempts, Start(a)
    PROVE  PhasesInv'
<1> USE DEF Start, GoesTo, records
<1>1. "live" \in Phase /\ Agrees("live", row[a], a \in late')
  BY Known DEF Agrees, Phase, Holding, Over
<1>2. phase' \in [Attempts -> Phase] /\ row' \in [Attempts -> Row] /\ AllAgree'
  BY <1>1, Known, OwnStep
<1>3. TypeOK'
  BY <1>2 DEF PhasesInv, TypeOK
<1> QED
  BY <1>2, <1>3 DEF PhasesInv

(* A report settles. *)
LEMMA SettlePhases ==
    ASSUME PhasesInv, NEW a \in Attempts, Settle(a)
    PROVE  PhasesInv'
<1> USE DEF Settle, GoesTo, records
<1>1. phase[a] \in Phase /\ Agrees(phase[a], row[a], a \in late')
  BY Known DEF Agrees, Phase, Holding, Over
<1>2. phase' \in [Attempts -> Phase] /\ row' \in [Attempts -> Row] /\ AllAgree'
  BY <1>1, Known, OwnStep
<1>3. TypeOK'
  BY <1>2 DEF PhasesInv, TypeOK
<1> QED
  BY <1>2, <1>3 DEF PhasesInv

(* The slot is given back. *)
LEMMA ReleasePhases ==
    ASSUME PhasesInv, NEW a \in Attempts, Release(a)
    PROVE  PhasesInv'
<1> USE DEF Release, GoesTo, records
<1>1. "released" \in Phase /\ Agrees("released", row[a], a \in late')
  BY Known DEF Agrees, Phase, Holding, Over
<1>2. phase' \in [Attempts -> Phase] /\ row' \in [Attempts -> Row] /\ AllAgree'
  BY <1>1, Known, OwnStep
<1>3. TypeOK'
  BY <1>2, Known, FreedTyped DEF PhasesInv, TypeOK, Releases
<1> QED
  BY <1>2, <1>3 DEF PhasesInv

(* A write of the finalizer is lost, or comes later. *)
LEMMA Layer1LostPhases ==
    ASSUME PhasesInv, NEW a \in Attempts, Layer1Lost(a)
    PROVE  PhasesInv'
<1> USE DEF Layer1Lost, GoesTo, records
<1>1. "releasing" \in Phase /\ Agrees("releasing", row[a], a \in late')
  BY Known DEF Agrees, Phase, Holding, Over
<1>2. phase' \in [Attempts -> Phase] /\ row' \in [Attempts -> Row] /\ AllAgree'
  BY <1>1, Known, OwnStep
<1>3. TypeOK'
  BY <1>2 DEF PhasesInv, TypeOK
<1> QED
  BY <1>2, <1>3 DEF PhasesInv

(* The call ends. *)
LEMMA EndPhases ==
    ASSUME PhasesInv, NEW a \in Attempts, End(a)
    PROVE  PhasesInv'
<1> USE DEF End, GoesTo
<1>1. \A p \in {"ending", "releasing"} : p \in Phase /\ Agrees(p, row[a], a \in late)
  BY Known DEF Agrees, Phase, Holding
<1>2. phase' \in [Attempts -> Phase] /\ row' \in [Attempts -> Row] /\ AllAgree'
  BY <1>1, Known, OwnStep
<1>3. TypeOK'
  BY <1>2 DEF PhasesInv, TypeOK
<1> QED
  BY <1>2, <1>3 DEF PhasesInv

(* The row is in. *)
LEMMA InsertPhases ==
    ASSUME PhasesInv, NEW a \in Attempts, Insert(a)
    PROVE  PhasesInv'
<1> USE DEF Insert, GoesTo
<1> DEFINE r == [row[a] EXCEPT !.status = "running"]
<1>1. "opened" \in Phase /\ r \in Row /\ r.status = "running"
      /\ r.silence = row[a].silence /\ r.missed = row[a].missed
  BY Known DEF Phase, Holding, Row
<1>2. row' = [row EXCEPT ![a] = r]
  OBVIOUS
<1> HIDE DEF r
<1>3. Agrees("opened", r, a \in late')
  BY <1>1, Known DEF Agrees
<1>4. phase' \in [Attempts -> Phase] /\ row' \in [Attempts -> Row] /\ AllAgree'
  BY <1>1, <1>2, <1>3, Known, OwnStep
<1>5. TypeOK'
  BY <1>4 DEF PhasesInv, TypeOK, Unlocked
<1> QED
  BY <1>4, <1>5 DEF PhasesInv

(* A heartbeat ends the silence. *)
LEMMA BeatPhases ==
    ASSUME PhasesInv, NEW a \in Attempts, Beat(a)
    PROVE  PhasesInv'
<1> USE DEF Beat
<1> DEFINE r == [row[a] EXCEPT !.silence = 0]
<1>1. r \in Row /\ r.status = row[a].status /\ r.silence = 0
  BY Known, ConstantsAssumption DEF Row
<1>2. row' = [row EXCEPT ![a] = r]
  OBVIOUS
<1> HIDE DEF r
<1>3. Agrees(phase[a], r, a \in late')
  BY <1>1, Known, ConstantsAssumption DEF Agrees
<1>4. phase' \in [Attempts -> Phase] /\ row' \in [Attempts -> Row] /\ AllAgree'
  BY <1>1, <1>2, <1>3, Known, OwnStep
<1>5. TypeOK'
  BY <1>4 DEF PhasesInv, TypeOK
<1> QED
  BY <1>4, <1>5 DEF PhasesInv

(* What a finalizer makes of a record that is past its interview. *)
LEMMA ClosedRow ==
    ASSUME PhasesInv, NEW a \in Attempts, NEW status \in Terminal, NEW p \in {"releasing", "released", "closed"},
           row' = IF Closable(a) THEN [row EXCEPT ![a].status = status] ELSE row,
           phase' = [phase EXCEPT ![a] = p], late' \in SUBSET late, late' \ {a} = late \ {a},
           phase[a] \in {"ending", "releasing", "released"} \/ phase[a] = p
    PROVE  phase' \in [Attempts -> Phase] /\ row' \in [Attempts -> Row] /\ AllAgree'
<1> DEFINE r == IF Closable(a) THEN [row[a] EXCEPT !.status = status] ELSE row[a]
<1>1. /\ r \in Row /\ r.silence = row[a].silence /\ r.missed = row[a].missed
      /\ r.status = row[a].status \/ r.status \in Terminal
  BY Known DEF Row
<1>2. row' = [row EXCEPT ![a] = r]
  BY Known
<1> HIDE DEF r
<1>3. Agrees(p, r, a \in late')
  BY <1>1, Known DEF Agrees, Terminal
<1>4. p \in Phase
  BY DEF Phase, Holding, Over
<1>5. late' \in SUBSET Attempts
  BY Known
<1> QED
  BY <1>1, <1>2, <1>3, <1>4, <1>5, OwnStep

LEMMA StatusesAreTerminal == ASSUME NEW a PROVE Outcome(a) \in Terminal /\ Backstop(a) \in Terminal
BY DEF Outcome, Backstop, Terminal

(* The engine's own write. *)
LEMMA Layer1Phases ==
    ASSUME PhasesInv, NEW a \in Attempts, Layer1(a)
    PROVE  PhasesInv'
<1>1. phase' \in [Attempts -> Phase] /\ row' \in [Attempts -> Row] /\ AllAgree'
  BY Known, StatusesAreTerminal, ClosedRow DEF Layer1, Closes, GoesTo
<1>2. TypeOK'
  BY <1>1 DEF PhasesInv, TypeOK, Layer1
<1> QED
  BY <1>1, <1>2 DEF PhasesInv

(* The same write, late. *)
LEMMA LateWritePhases ==
    ASSUME PhasesInv, NEW a \in Attempts, LateWrite(a)
    PROVE  PhasesInv'
<1>1. phase[a] \in {"releasing", "released", "closed"}
  BY Known DEF Agrees, LateWrite
<1>2. phase' = [phase EXCEPT ![a] = phase[a]] /\ late' = late \ {a}
      /\ row' = IF Closable(a) THEN [row EXCEPT ![a].status = Outcome(a)] ELSE row
  BY Known DEF LateWrite, Closes
<1>3. phase' \in [Attempts -> Phase] /\ row' \in [Attempts -> Row] /\ AllAgree'
  BY <1>1, <1>2, StatusesAreTerminal, ClosedRow
<1>4. TypeOK'
  BY <1>3 DEF PhasesInv, TypeOK, LateWrite
<1> QED
  BY <1>3, <1>4 DEF PhasesInv

(* The backstop. *)
LEMMA Layer2Phases ==
    ASSUME PhasesInv, NEW a \in Attempts, Layer2(a)
    PROVE  PhasesInv'
<1> USE DEF Layer2, GoesTo
<1>1. phase' \in [Attempts -> Phase] /\ row' \in [Attempts -> Row] /\ AllAgree'
  <2>1. CASE row' = Backstopped(a)
    BY <2>1, Known, StatusesAreTerminal, ClosedRow DEF Backstopped
  <2>2. CASE UNCHANGED row
    <3>1. "closed" \in Phase /\ Agrees("closed", row[a], a \in late')
      BY Known DEF Agrees, Phase, Over
    <3> QED
      BY <2>2, <3>1, Known, OwnStep
  <2> QED
    BY <2>1, <2>2
<1>2. TypeOK'
  BY <1>1 DEF PhasesInv, TypeOK
<1> QED
  BY <1>1, <1>2 DEF PhasesInv

(* A process dies with all it has under way. *)
LEMMA CrashPhases ==
    ASSUME PhasesInv, NEW w \in Workers, Crash(w)
    PROVE  PhasesInv'
<1> USE DEF Crash
<1> DEFINE lost == {a \in Attempts : worker[a] = w /\ phase[a] \notin Over \ {"escaped"}}
<1>1. phase' = [a \in Attempts |-> IF a \in lost THEN "dead" ELSE phase[a]]
      /\ row' = [a \in Attempts |-> IF a \in lost /\ row[a].status = "pending" THEN NoRow ELSE row[a]]
      /\ late' = {a \in late : worker[a] # w}
      /\ opener' = [s \in Students |-> IF opener[s] \in lost THEN NoAttempt ELSE opener[s]]
  OBVIOUS
<1>2. slots' \in [Workers -> [Students -> 0 .. PerUser]]
  <2>1. [s \in Students |-> 0] \in [Students -> 0 .. PerUser]
    BY ConstantsAssumption
  <2> QED
    BY <2>1 DEF PhasesInv, TypeOK
<1>3. ASSUME NEW a \in Attempts PROVE Agrees(phase'[a], row'[a], a \in late')
  <2>1. Agrees(phase[a], row[a], a \in late)
    BY Known
  <2>2. CASE a \in lost
    <3>1. phase'[a] = "dead" /\ a \notin late' /\ row'[a].status # "pending"
          /\ row'[a] \in {row[a], NoRow}
      BY <1>1, <2>2, NoRowIsARow
    <3>2. row'[a].silence > LiveGrace => row'[a].missed
      BY <2>1, <3>1, NoRowIsARow, ConstantsAssumption DEF Agrees
    <3> QED
      BY <3>1, <3>2 DEF Agrees
  <2>3. CASE a \notin lost
    <3>1. phase'[a] = phase[a] /\ row'[a] = row[a] /\ (a \in late' => a \in late)
      BY <1>1, <2>3
    <3> QED
      BY <2>1, <3>1 DEF Agrees
  <2> QED
    BY <2>2, <2>3
<1>4. phase' \in [Attempts -> Phase] /\ row' \in [Attempts -> Row]
  BY <1>1, NoRowIsARow DEF PhasesInv, TypeOK, Phase, Over
<1>5. TypeOK'
  BY <1>1, <1>2, <1>4 DEF PhasesInv, TypeOK
<1> QED
  BY <1>3, <1>5 DEF PhasesInv, AllAgree

(* A step that rewrites records, if it starts and ends none that is served. *)
LEMMA RecordsStep ==
    ASSUME PhasesInv, UNCHANGED <<phase, worker, ended, settled, late, slots, opener, talked>>,
           up' \in SUBSET Workers, row' \in [Attempts -> Row],
           \A a \in Attempts : Agrees(phase[a], row'[a], a \in late)
    PROVE  PhasesInv'
<1>1. TypeOK'
  BY DEF PhasesInv, TypeOK
<1>2. AllAgree'
  BY DEF AllAgree
<1> QED
  BY <1>1, <1>2 DEF PhasesInv

(* A booting worker sweeps what has been silent for too long. *)
LEMMA BootPhases ==
    ASSUME PhasesInv, NEW w \in Workers, Boot(w)
    PROVE  PhasesInv'
<1> USE DEF Boot
<1>1. CASE row' = [a \in Attempts |-> IF a \in Orphans THEN [row[a] EXCEPT !.status = "abandoned"] ELSE row[a]]
  <2>1. ASSUME NEW a \in Attempts PROVE row'[a] \in Row /\ Agrees(phase[a], row'[a], a \in late)
    <3>1. CASE a \in Orphans
      <4>1. /\ row'[a].status = "abandoned" /\ row'[a] \in Row
            /\ row'[a].silence = row[a].silence /\ row'[a].missed = row[a].missed
        BY <1>1, <3>1, Known DEF Row, Terminal
      <4>2. row[a].status = "running" /\ row[a].silence > OrphanGrace
        BY <3>1 DEF Orphans
      <4> QED
        BY <4>1, <4>2, Known DEF Agrees
    <3>2. CASE a \notin Orphans
      BY <1>1, <3>2, Known
    <3> QED
      BY <3>1, <3>2
  <2>2. row' \in [Attempts -> Row]
    BY <1>1, <2>1
  <2> QED
    BY <2>1, <2>2, RecordsStep DEF PhasesInv, TypeOK
<1>2. CASE UNCHANGED row
  BY <1>2, RecordsStep DEF PhasesInv, TypeOK, AllAgree
<1> QED
  BY <1>1, <1>2

(* What a tick makes of a record. *)
LEMMA LaterRow ==
    ASSUME NEW r \in Row
    PROVE  /\ Later(r) \in Row /\ Later(r).status = r.status /\ Later(r).counted = r.counted
           /\ Later(r).silence \in {r.silence, r.silence + 1}
           /\ r.silence > OrphanGrace => Later(r) = r
           /\ r.missed => Later(r).missed
           /\ (r.silence > LiveGrace => r.missed) => (Later(r).silence > LiveGrace => Later(r).missed)
<1>1. r.silence \in 0 .. OrphanGrace + 1 /\ OrphanGrace \in Nat /\ LiveGrace \in Nat
  BY ConstantsAssumption DEF Row
<1>2. CASE r.status \in {"pending", "running"} /\ r.silence <= OrphanGrace
  <2> DEFINE m == r.missed \/ r.silence >= LiveGrace
             n == r.silence + 1
  <2>1. Later(r) = [[r EXCEPT !.silence = n] EXCEPT !.missed = m]
    BY <1>2 DEF Later, Row
  <2>2. n \in 0 .. OrphanGrace + 1 /\ m \in BOOLEAN
    BY <1>1, <1>2
  <2>3. (m <=> r.missed \/ r.silence >= LiveGrace) /\ n = r.silence + 1
    OBVIOUS
  <2> HIDE DEF m, n
  <2>4. /\ Later(r) \in Row /\ Later(r).status = r.status /\ Later(r).counted = r.counted
        /\ Later(r).silence = n /\ Later(r).missed = m
    BY <2>1, <2>2 DEF Row
  <2>5. n > LiveGrace => r.silence >= LiveGrace
    BY <1>1, <2>3
  <2>6. r.missed => m
    BY <2>3
  <2>7. n > LiveGrace => m
    BY <2>3, <2>5
  <2> QED
    BY <1>1, <1>2, <2>3, <2>4, <2>6, <2>7
<1>3. CASE ~(r.status \in {"pending", "running"} /\ r.silence <= OrphanGrace)
  <2>1. Later(r) = r
    BY <1>3 DEF Later
  <2> QED
    BY <2>1
<1> QED
  BY <1>2, <1>3

(* Time passes, however many heartbeats fail. *)
LEMMA TickPhases == ASSUME PhasesInv, Tick PROVE PhasesInv'
<1> USE DEF Tick
<1>1. ASSUME NEW a \in Attempts PROVE row'[a] \in Row /\ Agrees(phase[a], row'[a], a \in late)
  <2>1. row'[a] = Later(row[a])
    OBVIOUS
  <2>2. /\ Later(row[a]) \in Row /\ Later(row[a]).status = row[a].status
        /\ Later(row[a]).silence \in {row[a].silence, row[a].silence + 1}
        /\ row[a].silence > OrphanGrace => Later(row[a]) = row[a]
    BY Known, LaterRow
  <2>3. Served(a) => Later(row[a]).silence <= SessionCap
    BY <2>2, Known, ConstantsAssumption DEF Row
  <2>4. Later(row[a]).silence > LiveGrace => Later(row[a]).missed
    BY Known, LaterRow DEF Agrees
  <2> QED
    BY <2>1, <2>2, <2>3, <2>4, Known DEF Agrees, Served
<1>2. row' \in [Attempts -> Row]
  BY <1>1
<1> QED
  BY <1>1, <1>2, RecordsStep DEF PhasesInv, TypeOK

(* A new window for the caps changes no status. *)
LEMMA ResetCapsPhases ==
    ASSUME PhasesInv, NEW s \in Students, ResetCaps(s)
    PROVE  PhasesInv'
<1> USE DEF ResetCaps
<1>1. ASSUME NEW a \in Attempts PROVE row'[a] \in Row /\ Agrees(phase[a], row'[a], a \in late)
  <2>1. /\ row'[a] \in Row /\ row'[a].status = row[a].status
        /\ row'[a].silence = row[a].silence /\ row'[a].missed = row[a].missed
    BY Known DEF Row
  <2> QED
    BY <2>1, Known DEF Agrees
<1>2. row' \in [Attempts -> Row]
  BY <1>1
<1> QED
  BY <1>1, <1>2, RecordsStep DEF PhasesInv, TypeOK

(* Every step keeps handlers and records in agreement. *)
LEMMA PhasesNext == PhasesInv /\ [Next]_vars => PhasesInv'
<1> SUFFICES ASSUME PhasesInv, [Next]_vars PROVE PhasesInv'
  OBVIOUS
<1>1. CASE UNCHANGED vars
  BY <1>1 DEF vars, records, PhasesInv, TypeOK, AllAgree
<1>2. ASSUME NEW a \in Attempts, Handle(a) PROVE PhasesInv'
  BY <1>2, ResolvePhases, CountCapsPhases, CountLivePhases, InsertPhases, StartPhases, EndPhases, Layer1Phases,
     LateWritePhases, ReleasePhases, Layer2Phases DEF Handle
<1>3. ASSUME NEW a \in Attempts,
             Beat(a) \/ Settle(a) \/ Escape(a) \/ OpenFails(a) \/ Layer1Lost(a) \/ \E w \in Workers : Connect(a, w)
      PROVE  PhasesInv'
  BY <1>3, BeatPhases, SettlePhases, EscapePhases, OpenFailsPhases, Layer1LostPhases, ConnectPhases
<1>4. ASSUME (\E w \in Workers : Crash(w) \/ Boot(w)) \/ (\E s \in Students : ResetCaps(s)) \/ Tick
      PROVE  PhasesInv'
  BY <1>4, CrashPhases, BootPhases, ResetCapsPhases, TickPhases
<1> QED
  BY <1>1, <1>2, <1>3, <1>4 DEF Next

(* Handlers and records agree in every behaviour. *)
THEOREM PhasesInvTheorem == Spec => []PhasesInv
BY PhasesInit, PhasesNext, PTL DEF Spec

(* The tables, limiters and locks keep their types. *)
THEOREM TypeCorrect == Spec => []TypeOK
<1>1. PhasesInv => TypeOK
  BY DEF PhasesInv
<1> QED
  BY <1>1, PhasesInvTheorem, PTL

(* The record of a served interview is closed by nobody but its own         *)
(* finalizer while it is heard of: whoever crashes, boots, gives up or      *)
(* writes late, a live record that does not run has been silent for longer  *)
(* than the grace of the sweep (finalize_orphaned_interviews).              *)
THEOREM ServedAreRunning == Spec => []ServedIsRunning
<1>1. PhasesInv => ServedIsRunning
  BY DEF PhasesInv, AllAgree, Agrees, ServedIsRunning, Serving, Of
<1> QED
  BY <1>1, PhasesInvTheorem, PTL

(* A live record always runs where the watchdog ends every call before the  *)
(* sweep would take it for an orphan, even if no heartbeat is ever written. *)
ServedRuns == \A s \in Students : \A a \in Serving(s) : row[a].status = "running"

THEOREM ServedRunWithinCap == SessionCap <= OrphanGrace => (Spec => []ServedRuns)
<1> SUFFICES ASSUME SessionCap <= OrphanGrace PROVE Spec => []ServedRuns
  OBVIOUS
<1>1. PhasesInv => ServedRuns
  <2> SUFFICES ASSUME PhasesInv, NEW a \in Attempts, phase[a] \in {"opened", "live"}
               PROVE  row[a].status = "running"
    BY DEF ServedRuns, Serving, Of
  <2>1. row[a].silence <= SessionCap /\ row[a].silence \in Nat
    BY Known, ConstantsAssumption DEF Agrees, Row
  <2> QED
    BY <2>1, Known, ConstantsAssumption DEF Agrees
<1> QED
  BY <1>1, PhasesInvTheorem, PTL

-----------------------------------------------------------------------------
(* A closed record *)

(* A handler that gives up has no record to lose. *)
LEMMA GivesUpFinal ==
    ASSUME PhasesInv, NEW a \in Attempts, GivesUp(a),
           phase[a] \in {"resolving", "opening", "counted", "inserting"},
           NEW b \in Attempts, row[b].status \in Terminal
    PROVE  row'[b].status = row[b].status
BY Known DEF GivesUp, Agrees, Terminal, PhasesInv, TypeOK

(* No step changes what a record was closed with. *)
LEMMA FinalStep ==
    ASSUME PhasesInv, Next, NEW b \in Attempts, row[b].status \in Terminal
    PROVE  row'[b].status = row[b].status
<1> USE DEF Terminal
<1>1. row \in [Attempts -> Row]
  BY DEF PhasesInv, TypeOK
<1>2. CASE UNCHANGED row
  BY <1>2
<1>3. ASSUME NEW a \in Attempts, Resolve(a) \/ CountCaps(a) \/ CountLive(a) \/ OpenFails(a), ~UNCHANGED row
      PROVE  row'[b].status = row[b].status
  <2>1. phase[a] \in {"resolving", "opening", "counted", "inserting"}
    BY <1>3 DEF Resolve, CountCaps, CountLive, OpenFails
  <2>2. CASE GivesUp(a)
    BY <2>1, <2>2, GivesUpFinal
  <2>3. CASE ~GivesUp(a)
    <3>1. CountCaps(a) /\ row[a].status = "none"
      BY <1>3, <2>3, Known DEF Resolve, CountCaps, CountLive, OpenFails, records, Agrees
    <3> QED
      BY <1>1, <2>3, <3>1 DEF CountCaps
  <2> QED
    BY <2>2, <2>3
<1>4. ASSUME NEW a \in Attempts, Insert(a) PROVE row'[b].status = row[b].status
  BY <1>1, <1>4, Known DEF Insert, Agrees
<1>5. ASSUME NEW a \in Attempts, Beat(a) PROVE row'[b].status = row[b].status
  BY <1>1, <1>5 DEF Beat
<1>6. ASSUME NEW a \in Attempts, Layer1(a) \/ LateWrite(a) \/ Layer2(a) PROVE row'[b].status = row[b].status
  <2>1. UNCHANGED row \/ \E status : row' = IF Closable(a) THEN [row EXCEPT ![a].status = status] ELSE row
    BY <1>6 DEF Layer1, LateWrite, Layer2, Closes, Backstopped
  <2> QED
    BY <1>1, <2>1 DEF Closable
<1>7. ASSUME NEW w \in Workers, Crash(w) \/ Boot(w) PROVE row'[b].status = row[b].status
  BY <1>1, <1>7 DEF Crash, Boot, Orphans
<1>8. ASSUME Tick PROVE row'[b].status = row[b].status
  <2>1. row'[b] = Later(row[b]) /\ row[b] \in Row
    BY <1>1, <1>8 DEF Tick
  <2> QED
    BY <2>1 DEF Later, Row
<1>9. ASSUME NEW s \in Students, ResetCaps(s) PROVE row'[b].status = row[b].status
  <2>1. row'[b] \in {row[b], [row[b] EXCEPT !.counted = FALSE]} /\ row[b] \in Row
    BY <1>1, <1>9 DEF ResetCaps
  <2> QED
    BY <2>1 DEF Row
<1> QED
  BY <1>2, <1>3, <1>4, <1>5, <1>6, <1>7, <1>8, <1>9
     DEF Next, Handle, Connect, Start, End, Release, Settle, Escape, Layer1Lost, records

(* Whichever of the three layers comes late, and whatever gives up or dies, *)
(* a record stays as it was closed.                                         *)
THEOREM ClosedStays == Spec => ClosedIsFinal
<1>1. PhasesInv /\ [Next]_vars =>
          [\A a \in Attempts : row[a].status \in Terminal => row'[a].status = row[a].status]_vars
  <2> SUFFICES ASSUME PhasesInv, Next, NEW a \in Attempts, row[a].status \in Terminal
               PROVE  row'[a].status = row[a].status
    OBVIOUS
  <2> QED
    BY FinalStep
<1> QED
  BY <1>1, PhasesInvTheorem, PTL DEF Spec, ClosedIsFinal

-----------------------------------------------------------------------------
(* The limiters *)

Counted == Holding \cup {"escaped"}

(* The handlers a limiter counts for a student. *)
Held(w, s) == {a \in Of(s) : worker[a] = w /\ phase[a] \in Counted}

LEMMA HeldFinite ==
    ASSUME NEW w, NEW s
    PROVE  IsFiniteSet(Held(w, s)) /\ Cardinality(Held(w, s)) \in Nat
<1>1. Held(w, s) \in SUBSET Attempts
  BY DEF Held, Of
<1>2. IsFiniteSet(Attempts)
  BY ConstantsAssumption
<1>3. IsFiniteSet(Held(w, s))
  BY <1>1, <1>2, FS_Subset
<1> QED
  BY <1>3, FS_CardinalityType

LEMMA SlotsOfHeld == SlotsAreHeld <=> \A w \in Workers, s \in Students : slots[w][s] = Cardinality(Held(w, s))
BY DEF SlotsAreHeld, Held, Counted

(* Nobody comes and nobody goes. *)
LEMMA SameHolders ==
    ASSUME SlotsAreHeld, UNCHANGED <<worker, slots>>,
           \A a \in Attempts : phase'[a] \in Counted <=> phase[a] \in Counted
    PROVE  SlotsAreHeld'
<1>1. \A w \in Workers, s \in Students : Held(w, s)' = Held(w, s)
  BY DEF Held, Of
<1>2. \A w \in Workers, s \in Students : slots'[w][s] = Cardinality(Held(w, s)')
  BY <1>1, SlotsOfHeld
<1> QED
  BY <1>2 DEF SlotsAreHeld, Held, Counted

(* A handler gives its slot back on its way out. *)
LEMMA GivesBack ==
    ASSUME PhasesInv, SlotsAreHeld, NEW a \in Attempts, phase[a] \in Holding, NEW p, p \notin Counted,
           GoesTo(a, p), UNCHANGED worker, Releases(a)
    PROVE  SlotsAreHeld'
<1>0. PICK v, t : v = worker[a] /\ t = StudentOf[a]
  OBVIOUS
<1>1. /\ \A b \in Attempts \ {a} : phase'[b] = phase[b]
      /\ phase'[a] = p
  BY DEF GoesTo, PhasesInv, TypeOK
<1>2. t \in Students /\ a \in Held(v, t)
  BY <1>0, Known DEF Held, Of, Counted
<1>3. \A w \in Workers, s \in Students : w # v \/ s # t => Held(w, s)' = Held(w, s)
  BY <1>0, <1>1 DEF Held, Of
<1>4. Held(v, t)' = Held(v, t) \ {a}
  BY <1>0, <1>1 DEF Held, Of
<1>5. \A w \in Workers, s \in Students : slots[w][s] = Cardinality(Held(w, s))
  BY SlotsOfHeld
<1>6. Cardinality(Held(v, t) \ {a}) = Cardinality(Held(v, t)) - 1
  BY <1>2, HeldFinite, FS_RemoveElement
<1>7. Cardinality(Held(v, t)) \in Nat /\ Cardinality(Held(v, t)) # 0
  BY <1>2, HeldFinite, FS_EmptySet
<1>8. slots' = [slots EXCEPT ![v][t] = IF slots[v][t] <= 1 THEN 0 ELSE slots[v][t] - 1]
  BY <1>0 DEF Releases, Freed
<1>9. ASSUME NEW w \in Workers, NEW s \in Students PROVE slots'[w][s] = Cardinality(Held(w, s)')
  <2>1. CASE w = v /\ s = t
    <3>1. slots[v][t] = Cardinality(Held(v, t))
      BY <1>5, <2>1
    <3>2. slots'[v][t] = IF slots[v][t] <= 1 THEN 0 ELSE slots[v][t] - 1
      BY <1>8, <2>1 DEF PhasesInv, TypeOK
    <3>3. Cardinality(Held(w, s)') = Cardinality(Held(v, t) \ {a})
      BY <1>4, <2>1
    <3> QED
      BY <1>6, <1>7, <2>1, <3>1, <3>2, <3>3
  <2>2. CASE w # v \/ s # t
    <3>1. slots'[w][s] = slots[w][s]
      BY <1>8, <2>2 DEF PhasesInv, TypeOK
    <3> QED
      BY <1>3, <1>5, <2>2, <3>1
  <2> QED
    BY <2>1, <2>2
<1> QED
  BY <1>9 DEF SlotsAreHeld, Held, Counted

(* A handler takes a slot. *)
LEMMA ConnectSlots ==
    ASSUME PhasesInv, SlotsAreHeld, NEW a \in Attempts, NEW v \in Workers, Connect(a, v)
    PROVE  SlotsAreHeld'
<1> DEFINE t == StudentOf[a]
<1>1. /\ \A b \in Attempts \ {a} : phase'[b] = phase[b] /\ worker'[b] = worker[b]
      /\ phase[a] = "new" /\ worker'[a] = v
  BY DEF Connect, GoesTo, PhasesInv, TypeOK
<1>2. \A w, s : a \notin Held(w, s)
  BY <1>1 DEF Held, Counted, Holding
<1>3. \A w \in Workers, s \in Students : slots[w][s] = Cardinality(Held(w, s))
  BY SlotsOfHeld
<1>4. CASE GoesTo(a, "refused") /\ UNCHANGED slots
  <2>1. phase'[a] = "refused"
    BY <1>4 DEF GoesTo, PhasesInv, TypeOK
  <2>2. \A w \in Workers, s \in Students : Held(w, s)' = Held(w, s)
    BY <1>1, <1>2, <2>1 DEF Held, Of, Counted, Holding
  <2>3. \A w \in Workers, s \in Students : slots'[w][s] = Cardinality(Held(w, s)')
    BY <1>3, <1>4, <2>2
  <2> QED
    BY <2>3 DEF SlotsAreHeld, Held, Counted
<1>5. CASE slots' = [slots EXCEPT ![v][t] = @ + 1] /\ GoesTo(a, "resolving")
  <2>1. phase'[a] = "resolving" /\ t \in Students
    BY <1>5, Known DEF GoesTo, PhasesInv, TypeOK
  <2>2. \A w \in Workers, s \in Students : w # v \/ s # t => Held(w, s)' = Held(w, s)
    BY <1>1, <1>2 DEF Held, Of
  <2>3. Held(v, t)' = Held(v, t) \cup {a}
    BY <1>1, <2>1 DEF Held, Of, Counted, Holding
  <2> HIDE DEF t
  <2>4. Cardinality(Held(v, t) \cup {a}) = Cardinality(Held(v, t)) + 1
    BY <1>2, HeldFinite, FS_AddElement
  <2>5. ASSUME NEW w \in Workers, NEW s \in Students PROVE slots'[w][s] = Cardinality(Held(w, s)')
    <3>1. CASE w = v /\ s = t
      <4>1. slots'[v][t] = slots[v][t] + 1
        BY <1>5, <2>1 DEF PhasesInv, TypeOK
      <4> QED
        BY <1>3, <2>1, <2>3, <2>4, <3>1, <4>1
    <3>2. CASE w # v \/ s # t
      <4>1. slots'[w][s] = slots[w][s]
        BY <1>5, <3>2 DEF PhasesInv, TypeOK
      <4> QED
        BY <1>3, <2>2, <3>2, <4>1
    <3> QED
      BY <3>1, <3>2
  <2> QED
    BY <2>5 DEF SlotsAreHeld, Held, Counted
<1> QED
  BY <1>4, <1>5 DEF Connect

(* A limiter dies with the handlers it counts. *)
LEMMA CrashSlots ==
    ASSUME PhasesInv, SlotsAreHeld, NEW v \in Workers, Crash(v)
    PROVE  SlotsAreHeld'
<1> DEFINE lost == {a \in Attempts : worker[a] = v /\ phase[a] \notin Over \ {"escaped"}}
<1>1. /\ phase' = [a \in Attempts |-> IF a \in lost THEN "dead" ELSE phase[a]]
      /\ slots' = [slots EXCEPT ![v] = [s \in Students |-> 0]]
      /\ UNCHANGED worker
  BY DEF Crash
<1>2. \A s \in Students : Held(v, s)' = {}
  BY <1>1 DEF Held, Of, Counted, Holding, Over
<1>3. \A w \in Workers \ {v}, s \in Students : Held(w, s)' = Held(w, s)
  BY <1>1 DEF Held, Of
<1>4. ASSUME NEW w \in Workers, NEW s \in Students PROVE slots'[w][s] = Cardinality(Held(w, s)')
  <2>1. CASE w = v
    <3>1. slots'[w][s] = 0
      BY <1>1, <2>1 DEF PhasesInv, TypeOK
    <3> QED
      BY <1>2, <2>1, <3>1, FS_EmptySet
  <2>2. CASE w # v
    <3>1. slots'[w][s] = slots[w][s]
      BY <1>1, <2>2 DEF PhasesInv, TypeOK
    <3> QED
      BY <1>3, <2>2, <3>1, SlotsOfHeld
  <2> QED
    BY <2>1, <2>2
<1> QED
  BY <1>4 DEF SlotsAreHeld, Held, Counted

(* No exit keeps a slot or gives one back twice. *)
LEMMA SlotsNext == PhasesInv /\ SlotsAreHeld /\ [Next]_vars => SlotsAreHeld'
<1> SUFFICES ASSUME PhasesInv, SlotsAreHeld, [Next]_vars PROVE SlotsAreHeld'
  OBVIOUS
<1> USE DEF GoesTo
<1>1. CASE UNCHANGED vars
  BY <1>1, SameHolders DEF vars
<1>2. ASSUME NEW a \in Attempts, Resolve(a) \/ CountCaps(a) \/ CountLive(a) \/ OpenFails(a) PROVE SlotsAreHeld'
  <2>1. CASE GivesUp(a)
    <3>1. phase[a] \in Holding /\ "refused" \notin Counted
      BY <1>2 DEF Resolve, CountCaps, CountLive, OpenFails, Holding, Counted
    <3> QED
      BY <2>1, <3>1, GivesBack DEF GivesUp
  <2>2. CASE ~GivesUp(a)
    <3>1. UNCHANGED <<worker, slots>> /\ phase[a] \in Counted
          /\ \E p \in Counted : phase' = [phase EXCEPT ![a] = p]
      BY <1>2, <2>2 DEF Resolve, CountCaps, CountLive, OpenFails, Holding, Counted
    <3> QED
      BY <3>1, SameHolders DEF PhasesInv, TypeOK
  <2> QED
    BY <2>1, <2>2
<1>3. ASSUME NEW a \in Attempts, Release(a) PROVE SlotsAreHeld'
  <2>1. phase[a] \in Holding /\ "released" \notin Counted
    BY <1>3 DEF Release, Holding, Counted
  <2> QED
    BY <1>3, <2>1, GivesBack DEF Release
<1>4. ASSUME NEW a \in Attempts,
             Insert(a) \/ Start(a) \/ End(a) \/ Layer1(a) \/ Layer1Lost(a) \/ Escape(a) \/ Layer2(a)
      PROVE  SlotsAreHeld'
  <2>1. UNCHANGED <<worker, slots>>
    BY <1>4 DEF Insert, Start, End, Layer1, Layer1Lost, Escape, Layer2
  <2>2. \E p : phase' = [phase EXCEPT ![a] = p] /\ (p \in Counted <=> phase[a] \in Counted)
    BY <1>4 DEF Insert, Start, End, Layer1, Layer1Lost, Escape, Layer2, Counted, Holding
  <2> QED
    BY <2>1, <2>2, SameHolders DEF PhasesInv, TypeOK
<1>5. ASSUME UNCHANGED <<phase, worker, slots>> PROVE SlotsAreHeld'
  BY <1>5, SameHolders
<1>6. ASSUME NEW a \in Attempts, LateWrite(a) \/ Beat(a) \/ Settle(a) PROVE SlotsAreHeld'
  BY <1>5, <1>6 DEF LateWrite, Beat, Settle
<1>7. ASSUME (\E w \in Workers : Boot(w)) \/ (\E s \in Students : ResetCaps(s)) \/ Tick PROVE SlotsAreHeld'
  BY <1>5, <1>7 DEF Boot, ResetCaps, Tick
<1> QED
  BY <1>1, <1>2, <1>3, <1>4, <1>6, <1>7, ConnectSlots, CrashSlots DEF Next, Handle

(* A limiter counts the handlers that are on their way, and those that an   *)
(* exception took out of the handler; every other way out gives the slot    *)
(* back once.                                                               *)
THEOREM SlotsAreExact == Spec => []SlotsAreHeld
<1>1. Init => SlotsAreHeld
  <2> SUFFICES ASSUME Init, NEW w \in Workers, NEW s \in Students PROVE slots[w][s] = Cardinality(Held(w, s))
    BY SlotsOfHeld
  <2>1. Held(w, s) = {}
    BY DEF Init, Held, Of, Counted, Holding
  <2> QED
    BY <2>1, FS_EmptySet DEF Init
<1> QED
  BY <1>1, SlotsNext, PhasesInvTheorem, PTL DEF Spec

-----------------------------------------------------------------------------
(* The caps *)

Opening == {"counted", "inserting"}

IsStored(r) == r.status \notin {"none", "pending"} /\ r.counted

(***************************************************************************)
(* What most steps do to the counts of an opening transaction: nothing, or *)
(* they lower them, and they take no lock away from it.                    *)
(***************************************************************************)
Quiet ==
    /\ talked' = talked
    /\ \A b \in Attempts :
        /\ phase'[b] \in Opening => phase[b] = phase'[b]
        /\ phase'[b] \in Opening /\ opener[StudentOf[b]] = b => opener'[StudentOf[b]] = b
        /\ phase'[b] \in {"opened", "live"} => phase[b] \in {"opened", "live"}
        /\ IsStored(row'[b]) => IsStored(row[b])

(* The transaction has counted the attempts of the window. *)
LocksCaps(a) ==
    /\ CountCaps(a) /\ ~Capped(StudentOf[a])
    /\ opener' = [opener EXCEPT ![StudentOf[a]] = a]
    /\ row' = [row EXCEPT ![a] = [NoRow EXCEPT !.status = "pending", !.counted = TRUE]]
    /\ GoesTo(a, "counted")
    /\ UNCHANGED talked

(* It has counted the live rows, and the conversation was there or is made. *)
FindsRoom(a) ==
    /\ CountLive(a) /\ Cardinality(LiveElsewhere(StudentOf[a])) < PerUser
    /\ GoesTo(a, "inserting")
    /\ opener' = IF StudentOf[a] \in talked THEN opener ELSE Unlocked(a)
    /\ talked' = talked \cup {StudentOf[a]}
    /\ UNCHANGED row

(* A handler that gives up is quiet. *)
LEMMA GivesUpQuiet ==
    ASSUME PhasesInv, NEW a \in Attempts, GivesUp(a)
    PROVE  Quiet
<1>1. \A b \in Attempts \ {a} : phase'[b] = phase[b] /\ row'[b] = row[b]
  BY DEF GivesUp, GoesTo, PhasesInv, TypeOK
<1>2. phase'[a] = "refused" /\ row'[a] = NoRow
  BY DEF GivesUp, GoesTo, PhasesInv, TypeOK
<1>3. \A b \in Attempts \ {a} : opener[StudentOf[b]] = b => opener'[StudentOf[b]] = b
  BY ConstantsAssumption DEF GivesUp, Unlocked
<1> QED
  BY <1>1, <1>2, <1>3, NoRowIsARow DEF Quiet, Opening, IsStored, GivesUp

(* A step that neither opens nor locks is quiet, if it stores no row. *)
LEMMA QuietStep ==
    ASSUME PhasesInv, NEW a \in Attempts, NEW p, phase' = [phase EXCEPT ![a] = p], UNCHANGED <<opener, talked>>,
           p \notin Opening, p \in {"opened", "live"} => phase[a] \in {"opened", "live"},
           \A b \in Attempts : IsStored(row'[b]) => IsStored(row[b])
    PROVE  Quiet
BY DEF Quiet, PhasesInv, TypeOK

(* A write of a finalizer stores no row. *)
LEMMA ClosesQuiet ==
    ASSUME PhasesInv, NEW a \in Attempts, NEW status,
           row' = IF Closable(a) THEN [row EXCEPT ![a].status = status] ELSE row
    PROVE  \A b \in Attempts : IsStored(row'[b]) => IsStored(row[b])
<1> SUFFICES ASSUME NEW b \in Attempts, IsStored(row'[b]) PROVE IsStored(row[b])
  OBVIOUS
<1>1. CASE Closable(a) /\ b = a
  <2>1. row[a].status = "running" /\ row'[a].counted = row[a].counted
    BY <1>1, Known DEF Closable, PhasesInv, TypeOK, Row
  <2> QED
    BY <1>1, <2>1 DEF IsStored
<1>2. CASE ~Closable(a) \/ b # a
  BY <1>2 DEF PhasesInv, TypeOK
<1> QED
  BY <1>1, <1>2

(* Rows that keep their status, or end, are not stored anew. *)
LEMMA SweepQuiet ==
    ASSUME PhasesInv, Tick \/ (\E w \in Workers : Boot(w)) \/ (\E s \in Students : ResetCaps(s))
    PROVE  Quiet
<1>1. UNCHANGED <<phase, opener, talked>>
  BY DEF Tick, Boot, ResetCaps
<1>2. ASSUME NEW b \in Attempts
      PROVE  /\ row'[b].counted => row[b].counted
             /\ row'[b].status # row[b].status => row[b].status = "running"
  <2>1. row[b] \in Row
    BY Known
  <2>2. CASE Tick
    BY <2>1, <2>2 DEF Tick, Later, Row
  <2>3. CASE \E w \in Workers : Boot(w)
    <3>1. row'[b] = row[b] \/ (b \in Orphans /\ row'[b] = [row[b] EXCEPT !.status = "abandoned"])
      BY <2>3 DEF Boot
    <3> QED
      BY <2>1, <3>1 DEF Orphans, Row
  <2>4. CASE \E s \in Students : ResetCaps(s)
    <3>1. row'[b] = row[b] \/ row'[b] = [row[b] EXCEPT !.counted = FALSE]
      BY <2>4 DEF ResetCaps
    <3> QED
      BY <2>1, <3>1 DEF Row
  <2> QED
    BY <2>2, <2>3, <2>4
<1> QED
  BY <1>1, <1>2 DEF Quiet, IsStored

(* A crash takes its transactions with it. *)
LEMMA CrashQuiet ==
    ASSUME PhasesInv, NEW v \in Workers, Crash(v)
    PROVE  Quiet
<1> DEFINE lost == {a \in Attempts : worker[a] = v /\ phase[a] \notin Over \ {"escaped"}}
<1>1. /\ phase' = [a \in Attempts |-> IF a \in lost THEN "dead" ELSE phase[a]]
      /\ row' = [a \in Attempts |-> IF a \in lost /\ row[a].status = "pending" THEN NoRow ELSE row[a]]
      /\ opener' = [s \in Students |-> IF opener[s] \in lost THEN NoAttempt ELSE opener[s]]
      /\ talked' = talked
  BY DEF Crash
<1> HIDE DEF lost
<1>2. \A b \in Attempts : phase'[b] \in Opening => b \notin lost /\ phase'[b] = phase[b]
  BY <1>1 DEF Opening
<1>3. \A b \in Attempts : b \notin lost /\ opener[StudentOf[b]] = b => opener'[StudentOf[b]] = b
  BY <1>1, ConstantsAssumption
<1>4. \A b \in Attempts : phase'[b] \in {"opened", "live"} => phase[b] \in {"opened", "live"}
  BY <1>1
<1>5. \A b \in Attempts : IsStored(row'[b]) => IsStored(row[b])
  BY <1>1, NoRowIsARow DEF IsStored
<1> QED
  BY <1>1, <1>2, <1>3, <1>4, <1>5 DEF Quiet

(* Each step is quiet or one of the three of an opening transaction. *)
LEMMA StepIsQuiet ==
    ASSUME PhasesInv, Next
    PROVE  Quiet \/ \E a \in Attempts : LocksCaps(a) \/ FindsRoom(a) \/ Insert(a)
<1> USE DEF GoesTo
<1>1. ASSUME NEW a \in Attempts, GivesUp(a) PROVE Quiet
  BY <1>1, GivesUpQuiet
<1>2. ASSUME NEW a \in Attempts, Resolve(a) \/ OpenFails(a) PROVE Quiet
  <2>1. CASE GivesUp(a)
    BY <1>1, <2>1
  <2>2. CASE ~GivesUp(a)
    BY <1>2, <2>2, QuietStep DEF Resolve, OpenFails, records, Opening
  <2> QED
    BY <2>1, <2>2
<1>3. ASSUME NEW a \in Attempts, CountCaps(a) PROVE Quiet \/ LocksCaps(a)
  BY <1>1, <1>3 DEF CountCaps, LocksCaps
<1>4. ASSUME NEW a \in Attempts, CountLive(a) PROVE Quiet \/ FindsRoom(a)
  BY <1>1, <1>4 DEF CountLive, FindsRoom, records
<1>5. ASSUME NEW a \in Attempts, Start(a) \/ End(a) \/ Release(a) \/ Settle(a) \/ Escape(a) \/ Layer1Lost(a)
                                 \/ \E w \in Workers : Connect(a, w)
      PROVE  Quiet
  <2>1. UNCHANGED <<row, opener, talked>>
    BY <1>5 DEF Start, End, Release, Settle, Escape, Layer1Lost, Connect, records
  <2>2. CASE UNCHANGED phase
    BY <2>1, <2>2 DEF Quiet
  <2>3. \/ UNCHANGED phase
        \/ \E p : /\ phase' = [phase EXCEPT ![a] = p] /\ p \notin Opening
                  /\ p \in {"opened", "live"} => phase[a] \in {"opened", "live"}
    BY <1>5 DEF Start, End, Release, Settle, Escape, Layer1Lost, Connect, Opening
  <2> QED
    BY <2>1, <2>2, <2>3, QuietStep
<1>6. ASSUME NEW a \in Attempts, Layer1(a) \/ Layer2(a) \/ LateWrite(a) PROVE Quiet
  <2>1. UNCHANGED row \/ \E status : row' = IF Closable(a) THEN [row EXCEPT ![a].status = status] ELSE row
    BY <1>6 DEF Layer1, Layer2, LateWrite, Closes, Backstopped
  <2>2. \A b \in Attempts : IsStored(row'[b]) => IsStored(row[b])
    BY <2>1, ClosesQuiet
  <2>3. UNCHANGED <<opener, talked>>
    BY <1>6 DEF Layer1, Layer2, LateWrite
  <2>4. CASE UNCHANGED phase
    BY <2>2, <2>3, <2>4 DEF Quiet
  <2>5. UNCHANGED phase \/ \E p : phase' = [phase EXCEPT ![a] = p] /\ p \notin Opening \cup {"opened", "live"}
    BY <1>6 DEF Layer1, Layer2, LateWrite, Opening
  <2> QED
    BY <2>2, <2>3, <2>4, <2>5, QuietStep
<1>7. ASSUME NEW a \in Attempts, Beat(a) PROVE Quiet
  <2>1. row[a] \in Row /\ row'[a] = [row[a] EXCEPT !.silence = 0] /\ \A b \in Attempts \ {a} : row'[b] = row[b]
    BY <1>7, Known DEF Beat, PhasesInv, TypeOK
  <2>2. \A b \in Attempts : IsStored(row'[b]) => IsStored(row[b])
    BY <2>1 DEF IsStored, Row
  <2> QED
    BY <1>7, <2>2 DEF Quiet, Beat
<1> QED
  BY <1>2, <1>3, <1>4, <1>5, <1>6, <1>7, SweepQuiet, CrashQuiet DEF Next, Handle

(***************************************************************************)
(* The commit that creates a student's conversation lets the advisory lock *)
(* go before the row is in.  The attempt is then astray: nobody who counts *)
(* can see it.  That happens to one attempt of a student without a         *)
(* conversation, and never again.                                          *)
(***************************************************************************)
FirstTalk(s) == IF s \in Talked THEN 0 ELSE 1

(* The attempts that may have gone astray by now. *)
Slack(s) == IF s \in talked THEN FirstTalk(s) ELSE 0

Astray(a) == phase[a] = "inserting" /\ opener[StudentOf[a]] # a

LocksHeld ==
    /\ Talked \subseteq talked
    /\ \A a \in Attempts : phase[a] = "counted" => opener[StudentOf[a]] = a
    /\ \A a \in Attempts : Astray(a) => StudentOf[a] \in talked \ Talked
    /\ \A a, b \in Attempts : Astray(a) /\ Astray(b) /\ StudentOf[a] = StudentOf[b] => a = b

InFlight(s) == {a \in Of(s) : phase[a] \in Opening}

(* The rows of the window, and those that are on their way, fit. *)
CapsRoom == \A s \in Students : Cardinality(Stored(s) \cup InFlight(s)) <= AttemptCap + Slack(s)

CapsInv == LocksHeld /\ CapsRoom

LEMMA FiniteOf ==
    ASSUME NEW s, NEW S \in SUBSET Of(s)
    PROVE  IsFiniteSet(S) /\ Cardinality(S) \in Nat
<1>1. S \in SUBSET Attempts /\ IsFiniteSet(Attempts)
  BY ConstantsAssumption DEF Of
<1>2. IsFiniteSet(S)
  BY <1>1, FS_Subset
<1> QED
  BY <1>2, FS_CardinalityType

(* Fewer members, no higher count. *)
LEMMA FewerCount ==
    ASSUME NEW s, NEW S \in SUBSET Of(s), NEW T \in SUBSET S
    PROVE  Cardinality(T) \in Nat /\ Cardinality(S) \in Nat /\ Cardinality(T) <= Cardinality(S)
<1>1. IsFiniteSet(S) /\ Cardinality(S) \in Nat /\ Cardinality(T) \in Nat
  BY FiniteOf
<1> QED
  BY <1>1, FS_Subset

(* At most one attempt of a student is astray, none of one who had talked. *)
LEMMA FewAstray ==
    ASSUME LocksHeld, NEW s \in Students, NEW S \in SUBSET Of(s), \A b \in S : Astray(b)
    PROVE  Cardinality(S) \in Nat /\ Slack(s) \in Nat /\ Cardinality(S) <= Slack(s)
<1>1. Slack(s) \in Nat
  BY DEF Slack, FirstTalk
<1>2. CASE S = {}
  BY <1>1, <1>2, FS_EmptySet
<1>3. CASE S # {}
  <2>1. PICK b \in S : TRUE
    BY <1>3
  <2>2. \A c \in S : c = b
    BY <2>1 DEF LocksHeld, Of
  <2>3. S = {b}
    BY <2>1, <2>2
  <2>4. Cardinality(S) = 1
    BY <2>3, FS_Singleton
  <2>5. Slack(s) = 1
    BY <2>1 DEF LocksHeld, Of, Slack, FirstTalk
  <2> QED
    BY <2>4, <2>5
<1> QED
  BY <1>2, <1>3

(* Who lies in S, in T, and one more. *)
LEMMA OneMore ==
    ASSUME NEW s, NEW S \in SUBSET Of(s), NEW T \in SUBSET Of(s), NEW a \in Of(s),
           NEW U \in SUBSET (S \cup T \cup {a})
    PROVE  /\ Cardinality(S) \in Nat /\ Cardinality(T) \in Nat /\ Cardinality(U) \in Nat
           /\ Cardinality(U) <= Cardinality(S) + Cardinality(T) + 1
<1>1. /\ IsFiniteSet(S) /\ Cardinality(S) \in Nat
      /\ IsFiniteSet(T) /\ Cardinality(T) \in Nat
      /\ IsFiniteSet(S \cup T) /\ Cardinality(S \cup T) \in Nat
      /\ Cardinality(S \cap T) \in Nat
  <2>1. S \cup T \in SUBSET Of(s) /\ S \cap T \in SUBSET Of(s)
    OBVIOUS
  <2> QED
    BY <2>1, FiniteOf
<1>2. Cardinality(S \cup T) = Cardinality(S) + Cardinality(T) - Cardinality(S \cap T)
  BY <1>1, FS_Union
<1>3. Cardinality(S \cup T \cup {a}) = IF a \in S \cup T THEN Cardinality(S \cup T) ELSE Cardinality(S \cup T) + 1
  BY <1>1, FS_AddElement
<1>4. S \cup T \cup {a} \in SUBSET Of(s)
  OBVIOUS
<1>5. /\ Cardinality(U) \in Nat /\ Cardinality(S \cup T \cup {a}) \in Nat
      /\ Cardinality(U) <= Cardinality(S \cup T \cup {a})
  BY <1>4, FewerCount
<1> QED
  BY <1>1, <1>2, <1>3, <1>5

-----------------------------------------------------------------------------
(* The lock *)

(* A quiet step takes no lock away. *)
LEMMA QuietLocks == LocksHeld /\ Quiet => LocksHeld'
<1> SUFFICES ASSUME LocksHeld, Quiet PROVE LocksHeld'
  OBVIOUS
<1>1. \A b \in Attempts : Astray(b)' => Astray(b)
  BY DEF Quiet, Astray, Opening
<1> QED
  BY <1>1 DEF Quiet, LocksHeld, Opening

(* Who counts the caps finds the lock free and takes it. *)
LEMMA LocksCapsLocks ==
    ASSUME PhasesInv, LocksHeld, NEW a \in Attempts, LocksCaps(a)
    PROVE  LocksHeld'
<1>1. StudentOf[a] \in Students /\ opener[StudentOf[a]] = NoAttempt /\ NoAttempt \notin Attempts
  BY Known, ConstantsAssumption DEF LocksCaps, CountCaps, LockFree
<1>2. /\ phase'[a] = "counted" /\ talked' = talked
      /\ \A b \in Attempts \ {a} : phase'[b] = phase[b]
      /\ opener'[StudentOf[a]] = a /\ \A s \in Students \ {StudentOf[a]} : opener'[s] = opener[s]
  BY <1>1 DEF LocksCaps, GoesTo, PhasesInv, TypeOK
<1>3. \A b \in Attempts : Astray(b)' => Astray(b)
  BY <1>1, <1>2, ConstantsAssumption DEF Astray
<1> QED
  BY <1>1, <1>2, <1>3, ConstantsAssumption DEF LocksHeld

(* A lock that an attempt lets go takes no other's. *)
LEMMA OthersLocks ==
    ASSUME PhasesInv, NEW a \in Attempts, opener' = opener \/ opener' = Unlocked(a)
    PROVE  \A b \in Attempts \ {a} : opener'[StudentOf[b]] = b <=> opener[StudentOf[b]] = b
BY ConstantsAssumption DEF Unlocked

(* Who finds room goes on under the lock, or is the first to go astray. *)
LEMMA FindsRoomLocks ==
    ASSUME PhasesInv, LocksHeld, NEW a \in Attempts, FindsRoom(a)
    PROVE  LocksHeld'
<1> DEFINE s == StudentOf[a]
<1>1. s \in Students /\ opener[s] = a /\ Talked \subseteq talked
  BY Known DEF FindsRoom, CountLive, LocksHeld
<1>2. /\ phase'[a] = "inserting" /\ talked' = talked \cup {s}
      /\ \A b \in Attempts \ {a} : phase'[b] = phase[b]
      /\ opener' = IF s \in talked THEN opener ELSE Unlocked(a)
  BY DEF FindsRoom, GoesTo, PhasesInv, TypeOK
<1>3. \A b \in Attempts \ {a} : opener'[StudentOf[b]] = b <=> opener[StudentOf[b]] = b
  BY <1>2, OthersLocks
<1>4. \A b \in Attempts \ {a} : Astray(b)' => Astray(b)
  BY <1>2, <1>3 DEF Astray
<1>5. Astray(a)' => s \notin talked
  BY <1>1, <1>2 DEF Astray
<1>6. \A b \in Attempts : Astray(b)' => StudentOf[b] \in talked' \ Talked
  BY <1>1, <1>2, <1>4, <1>5 DEF LocksHeld
<1>7. \A b \in Attempts \ {a} : Astray(b)' /\ StudentOf[b] = s => ~Astray(a)'
  BY <1>4, <1>5 DEF LocksHeld
<1>8. \A b, c \in Attempts : Astray(b)' /\ Astray(c)' /\ StudentOf[b] = StudentOf[c] => b = c
  BY <1>4, <1>7 DEF LocksHeld
<1>9. \A b \in Attempts : phase'[b] = "counted" => opener'[StudentOf[b]] = b
  BY <1>2, <1>3 DEF LocksHeld
<1> QED
  BY <1>1, <1>2, <1>6, <1>8, <1>9 DEF LocksHeld

LEMMA InsertLocks ==
    ASSUME PhasesInv, LocksHeld, NEW a \in Attempts, Insert(a)
    PROVE  LocksHeld'
<1>1. /\ phase'[a] = "opened" /\ talked' = talked /\ opener' = Unlocked(a)
      /\ \A b \in Attempts \ {a} : phase'[b] = phase[b]
  BY DEF Insert, GoesTo, PhasesInv, TypeOK
<1>2. \A b \in Attempts \ {a} : opener'[StudentOf[b]] = b <=> opener[StudentOf[b]] = b
  BY <1>1, OthersLocks
<1>3. \A b \in Attempts : Astray(b)' => Astray(b)
  BY <1>1, <1>2 DEF Astray
<1> QED
  BY <1>1, <1>2, <1>3 DEF LocksHeld

-----------------------------------------------------------------------------
(* The window *)

(* Nobody is stored or on the way who was neither. *)
LEMMA CapsKept ==
    ASSUME CapsRoom, talked \subseteq talked', Talked \subseteq talked,
           \A s \in Students : (Stored(s) \cup InFlight(s))' \in SUBSET (Stored(s) \cup InFlight(s))
    PROVE  CapsRoom'
<1> SUFFICES ASSUME NEW s \in Students PROVE Cardinality((Stored(s) \cup InFlight(s))') <= AttemptCap + Slack(s)'
  BY DEF CapsRoom
<1>1. Stored(s) \cup InFlight(s) \in SUBSET Of(s)
  BY DEF Stored, InFlight
<1>2. /\ Cardinality((Stored(s) \cup InFlight(s))') \in Nat /\ Cardinality(Stored(s) \cup InFlight(s)) \in Nat
      /\ Cardinality((Stored(s) \cup InFlight(s))') <= Cardinality(Stored(s) \cup InFlight(s))
  BY <1>1, FewerCount
<1>3. Slack(s) \in Nat /\ Slack(s)' \in Nat /\ Slack(s) <= Slack(s)'
  BY DEF Slack, FirstTalk
<1> QED
  BY <1>2, <1>3, ConstantsAssumption DEF CapsRoom

LEMMA QuietCaps == CapsInv /\ Quiet => CapsRoom'
<1> SUFFICES ASSUME CapsInv, Quiet PROVE CapsRoom'
  OBVIOUS
<1>1. \A s \in Students : (Stored(s) \cup InFlight(s))' \in SUBSET (Stored(s) \cup InFlight(s))
  BY DEF Quiet, Stored, InFlight, Of, IsStored
<1> QED
  BY <1>1, CapsKept DEF CapsInv, LocksHeld, Quiet

(* Who counts sees all rows but the one that is astray. *)
LEMMA LocksCapsCaps ==
    ASSUME PhasesInv, CapsInv, NEW a \in Attempts, LocksCaps(a)
    PROVE  CapsRoom'
<1> DEFINE t == StudentOf[a]
<1>1. t \in Students /\ opener[t] = NoAttempt /\ NoAttempt \notin Attempts /\ a \in Of(t)
  BY Known, ConstantsAssumption DEF LocksCaps, CountCaps, LockFree, Of
<1>2. /\ \A b \in Attempts \ {a} : phase'[b] = phase[b] /\ row'[b] = row[b]
      /\ talked' = talked
  BY DEF LocksCaps, GoesTo, PhasesInv, TypeOK
<1>3. \A s \in Students \ {t} : (Stored(s) \cup InFlight(s))' = Stored(s) \cup InFlight(s)
  BY <1>2 DEF Stored, InFlight, Of
<1>4. \A b \in InFlight(t) : Astray(b)
  BY <1>1 DEF CapsInv, LocksHeld, InFlight, Of, Opening, Astray
<1>5. Stored(t) \in SUBSET Of(t) /\ InFlight(t) \in SUBSET Of(t)
  BY DEF Stored, InFlight
<1>6. Cardinality(InFlight(t)) \in Nat /\ Slack(t) \in Nat /\ Cardinality(InFlight(t)) <= Slack(t)
  BY <1>1, <1>4, <1>5, FewAstray DEF CapsInv
<1>7. (Stored(t) \cup InFlight(t))' \in SUBSET (Stored(t) \cup InFlight(t) \cup {a})
  BY <1>2 DEF Stored, InFlight, Of
<1>8. Cardinality(Stored(t)) < AttemptCap
  BY <1>5, FiniteOf, ConstantsAssumption DEF LocksCaps, Capped
<1>9. /\ Cardinality(Stored(t)) \in Nat /\ Cardinality((Stored(t) \cup InFlight(t))') \in Nat
      /\ Cardinality((Stored(t) \cup InFlight(t))') <= Cardinality(Stored(t)) + Cardinality(InFlight(t)) + 1
  BY <1>1, <1>5, <1>7, OneMore
<1>10. Cardinality((Stored(t) \cup InFlight(t))') <= AttemptCap + Slack(t)
  BY <1>6, <1>8, <1>9, ConstantsAssumption
<1>11. \A s \in Students : Slack(s)' = Slack(s)
  BY <1>2 DEF Slack
<1> HIDE DEF t
<1> QED
  BY <1>3, <1>10, <1>11 DEF CapsInv, CapsRoom

(* The counts of a transaction that goes on do not change. *)
LEMMA CapsNext == PhasesInv /\ CapsInv /\ [Next]_vars => CapsInv'
<1> SUFFICES ASSUME PhasesInv, CapsInv, [Next]_vars PROVE CapsInv'
  OBVIOUS
<1>1. CASE UNCHANGED vars
  BY <1>1 DEF vars, records, CapsInv, LocksHeld, CapsRoom, Astray, Slack, InFlight, Stored, Of
<1>2. CASE Quiet
  BY <1>2, QuietLocks, QuietCaps DEF CapsInv
<1>3. ASSUME NEW a \in Attempts, LocksCaps(a) PROVE CapsInv'
  BY <1>3, LocksCapsLocks, LocksCapsCaps DEF CapsInv
<1>4. ASSUME NEW a \in Attempts, FindsRoom(a) PROVE CapsInv'
  <2>1. /\ UNCHANGED row /\ talked \subseteq talked' /\ phase[a] \in Opening
        /\ \A b \in Attempts \ {a} : phase'[b] = phase[b]
    BY <1>4 DEF FindsRoom, CountLive, GoesTo, PhasesInv, TypeOK, Opening
  <2>2. \A s \in Students : (Stored(s) \cup InFlight(s))' \in SUBSET (Stored(s) \cup InFlight(s))
    BY <2>1 DEF Stored, InFlight, Of
  <2> QED
    BY <1>4, <2>1, <2>2, CapsKept, FindsRoomLocks DEF CapsInv, LocksHeld
<1>5. ASSUME NEW a \in Attempts, Insert(a) PROVE CapsInv'
  <2>1. /\ \A b \in Attempts \ {a} : phase'[b] = phase[b] /\ row'[b] = row[b]
        /\ phase[a] \in Opening /\ talked' = talked
    BY <1>5 DEF Insert, GoesTo, PhasesInv, TypeOK, Opening
  <2>2. \A s \in Students : (Stored(s) \cup InFlight(s))' \in SUBSET (Stored(s) \cup InFlight(s))
    BY <2>1 DEF Stored, InFlight, Of
  <2> QED
    BY <1>5, <2>1, <2>2, CapsKept, InsertLocks DEF CapsInv, LocksHeld
<1> QED
  BY <1>1, <1>2, <1>3, <1>4, <1>5, StepIsQuiet

LEMMA CapsInit == Init => CapsInv
<1> SUFFICES ASSUME Init PROVE CapsInv
  OBVIOUS
<1>1. \A s \in Students : Stored(s) \cup InFlight(s) = {} /\ Slack(s) \in Nat
  BY DEF Init, Stored, NoRow, InFlight, Opening, Of, Slack, FirstTalk
<1>2. CapsRoom
  BY <1>1, FS_EmptySet, ConstantsAssumption DEF CapsRoom
<1> QED
  BY <1>2 DEF Init, CapsInv, LocksHeld, Astray

(***************************************************************************)
(* Whatever handshakes race, a student has no more rows in the window than *)
(* the ceiling says, but for one that a first talk may have let slip       *)
(* through (_open_records, get_or_create).                                 *)
(***************************************************************************)
CeilingButFirst == \A s \in Students : Cardinality(Stored(s)) <= AttemptCap + FirstTalk(s)

THEOREM CeilingNearlyHolds == Spec => []CeilingButFirst
<1>1. CapsInv => CeilingButFirst
  <2> SUFFICES ASSUME CapsInv, NEW s \in Students
               PROVE  Cardinality(Stored(s)) <= AttemptCap + FirstTalk(s)
    BY DEF CeilingButFirst
  <2>1. Stored(s) \cup InFlight(s) \in SUBSET Of(s)
    BY DEF Stored, InFlight
  <2>2. /\ Cardinality(Stored(s)) \in Nat /\ Cardinality(Stored(s) \cup InFlight(s)) \in Nat
        /\ Cardinality(Stored(s)) <= Cardinality(Stored(s) \cup InFlight(s))
    BY <2>1, FewerCount
  <2>3. Slack(s) \in Nat /\ FirstTalk(s) \in Nat /\ Slack(s) <= FirstTalk(s)
    BY DEF Slack, FirstTalk
  <2>4. Cardinality(Stored(s) \cup InFlight(s)) <= AttemptCap + Slack(s)
    BY DEF CapsInv, CapsRoom
  <2> QED
    BY <2>2, <2>3, <2>4, ConstantsAssumption
<1> QED
  BY <1>1, CapsInit, CapsNext, PhasesInvTheorem, PTL DEF Spec

(* The attempt ceiling holds where the advisory lock does: it is not let go *)
(* between the count and the row for a student with a conversation.         *)
THEOREM CeilingHolds == Talked = Students => (Spec => []AttemptsCapped)
<1> SUFFICES ASSUME Talked = Students PROVE Spec => []AttemptsCapped
  OBVIOUS
<1>1. CeilingButFirst => AttemptsCapped
  BY ConstantsAssumption DEF CeilingButFirst, AttemptsCapped, FirstTalk
<1> QED
  BY <1>1, CeilingNearlyHolds, PTL

-----------------------------------------------------------------------------
(* Who is under way *)

Underway == {"opened", "live", "ending", "releasing", "released"}

(* The attempts whose record runs under a handler, or is about to, and was  *)
(* never silent for longer than the count across workers looks back.        *)
Attending(s) == {a \in Seen(s) : phase[a] \in Underway /\ row[a].status = "running"}

Entering(s) == {a \in Seen(s) : phase[a] = "inserting"}

Engaged(s) == Attending(s) \cup Entering(s)

(* Completed, or it may still come to that. *)
MayComplete(p, r, isLate) ==
    /\ r.counted /\ ~r.missed
    /\ \/ r.status = "completed"
       \/ p \in Opening
       \/ r.status = "running" /\ (p \in Underway \/ isLate)

Promising(s) == {a \in Of(s) : MayComplete(phase[a], row[a], a \in late)}

Busy(p, r) == ~r.missed /\ (p = "inserting" \/ (p \in Underway /\ r.status = "running"))

LEMMA EngagedIsBusy == \A s : Engaged(s) = {a \in Of(s) : Busy(phase[a], row[a])}
BY DEF Engaged, Attending, Entering, Seen, Busy

(* What a step may not bring about for a handler. *)
NoNews(b) ==
    /\ Busy(phase'[b], row'[b]) => Busy(phase[b], row[b])
    /\ MayComplete(phase'[b], row'[b], b \in late') => MayComplete(phase[b], row[b], b \in late)

(* A handler that gives up has nothing left to come. *)
LEMMA GivesUpNoNews ==
    ASSUME PhasesInv, NEW a \in Attempts, GivesUp(a), NEW b \in Attempts
    PROVE  NoNews(b)
<1>1. CASE b = a
  <2>1. phase'[a] = "refused" /\ row'[a] = NoRow
    BY DEF GivesUp, GoesTo, PhasesInv, TypeOK
  <2> QED
    BY <1>1, <2>1, NoRowIsARow DEF NoNews, Busy, MayComplete, Opening, Underway
<1>2. CASE b # a
  <2>1. phase'[b] = phase[b] /\ row'[b] = row[b] /\ late' = late
    BY <1>2 DEF GivesUp, GoesTo, PhasesInv, TypeOK
  <2> QED
    BY <2>1 DEF NoNews
<1> QED
  BY <1>1, <1>2

(* A handler that only goes on, its record as it was. *)
LEMMA GoesOnNoNews ==
    ASSUME PhasesInv, NEW a \in Attempts, NEW p, phase' = [phase EXCEPT ![a] = p], UNCHANGED <<row, late>>,
           Busy(p, row[a]) => Busy(phase[a], row[a]),
           MayComplete(p, row[a], a \in late) => MayComplete(phase[a], row[a], a \in late),
           NEW b \in Attempts
    PROVE  NoNews(b)
BY DEF NoNews, PhasesInv, TypeOK

(* A record that ends, but does not complete unless it still could. *)
LEMMA EndsNoNews ==
    ASSUME PhasesInv, NEW a \in Attempts, NEW p, NEW status,
           phase'[a] = p, row' = IF Closable(a) THEN [row EXCEPT ![a].status = status] ELSE row,
           a \in late' => a \in late, status \in Terminal,
           p \in Underway => phase[a] \in Underway, p \notin Opening,
           status = "completed" => phase[a] \in Underway \/ a \in late
    PROVE  NoNews(a)
<1>1. row[a] \in Row
  BY Known
<1>2. CASE Closable(a)
  <2>1. /\ row'[a].status = status /\ row[a].status = "running"
        /\ row'[a].counted = row[a].counted /\ row'[a].missed = row[a].missed
    BY <1>1, <1>2 DEF Closable, PhasesInv, TypeOK, Row
  <2> QED
    BY <2>1 DEF NoNews, Busy, MayComplete, Terminal, Opening
<1>3. CASE ~Closable(a)
  BY <1>3 DEF NoNews, Busy, MayComplete, Opening
<1> QED
  BY <1>2, <1>3

(* The steps of a call that ends. *)
LEMMA ClosingNoNews ==
    ASSUME PhasesInv, NEW a \in Attempts, Layer1(a) \/ LateWrite(a) \/ Layer2(a), NEW b \in Attempts
    PROVE  NoNews(b)
<1>1. CASE b # a
  <2>1. phase'[b] = phase[b] /\ row'[b] = row[b] /\ (b \in late' <=> b \in late)
    BY <1>1 DEF Layer1, LateWrite, Layer2, Closes, Backstopped, GoesTo, PhasesInv, TypeOK
  <2> QED
    BY <2>1 DEF NoNews
<1>2. CASE b = a
  <2>1. CASE Layer1(a)
    <3>1. phase[a] = "ending" /\ phase'[a] = "releasing" /\ late' = late
          /\ row' = IF Closable(a) THEN [row EXCEPT ![a].status = Outcome(a)] ELSE row
      BY <2>1 DEF Layer1, GoesTo, Closes, PhasesInv, TypeOK
    <3> QED
      BY <1>2, <3>1, EndsNoNews, StatusesAreTerminal DEF Underway, Opening
  <2>2. CASE LateWrite(a)
    <3>1. phase'[a] = phase[a] /\ a \in late
          /\ row' = IF Closable(a) THEN [row EXCEPT ![a].status = Outcome(a)] ELSE row
      BY <2>2 DEF LateWrite, Closes
    <3>2. phase[a] \notin Opening
      BY <3>1, Known DEF Agrees, Opening
    <3> QED
      BY <1>2, <3>1, <3>2, EndsNoNews, StatusesAreTerminal
  <2>3. CASE Layer2(a)
    <3>1. phase[a] = "released" /\ phase'[a] = "closed" /\ late' = late
          /\ (UNCHANGED row \/ row' = IF Closable(a) THEN [row EXCEPT ![a].status = Backstop(a)] ELSE row)
      BY <2>3 DEF Layer2, GoesTo, Backstopped, PhasesInv, TypeOK
    <3>2. CASE UNCHANGED row
      BY <1>2, <3>1, <3>2 DEF NoNews, Busy, MayComplete, Underway, Opening
    <3>3. CASE row' = IF Closable(a) THEN [row EXCEPT ![a].status = Backstop(a)] ELSE row
      BY <1>2, <3>1, <3>3, EndsNoNews, StatusesAreTerminal DEF Underway, Opening
    <3> QED
      BY <3>1, <3>2, <3>3
  <2> QED
    BY <1>2, <2>1, <2>2, <2>3
<1> QED
  BY <1>1, <1>2

(* Time, the sweep, a reset of the caps and a crash bring nothing about. *)
LEMMA OutsideNoNews ==
    ASSUME PhasesInv, NEW b \in Attempts,
           Tick \/ (\E w \in Workers : Boot(w) \/ Crash(w)) \/ (\E s \in Students : ResetCaps(s))
    PROVE  NoNews(b)
<1>1. row[b] \in Row
  BY Known
<1>2. CASE Tick
  <2>1. /\ phase' = phase /\ late' = late /\ row'[b].status = row[b].status
        /\ row'[b].counted = row[b].counted /\ (row[b].missed => row'[b].missed)
    BY <1>1, <1>2 DEF Tick, Later, Row
  <2> QED
    BY <2>1 DEF NoNews, Busy, MayComplete
<1>3. ASSUME NEW w \in Workers, Boot(w) PROVE NoNews(b)
  <2>1. phase' = phase /\ late' = late
        /\ (row'[b] = row[b] \/ row'[b] = [row[b] EXCEPT !.status = "abandoned"])
    BY <1>3 DEF Boot
  <2>2. CASE row'[b] = row[b]
    BY <2>1, <2>2 DEF NoNews, Busy, MayComplete
  <2>3. CASE row'[b] = [row[b] EXCEPT !.status = "abandoned"]
    <3>1. row'[b].status = "abandoned" /\ row'[b].counted = row[b].counted /\ row'[b].missed = row[b].missed
      BY <1>1, <2>3 DEF Row
    <3> QED
      BY <2>1, <3>1 DEF NoNews, Busy, MayComplete
  <2> QED
    BY <2>1, <2>2, <2>3
<1>4. ASSUME NEW w \in Workers, Crash(w) PROVE NoNews(b)
  <2>1. /\ row'[b] = row[b] \/ row'[b] = NoRow
        /\ phase'[b] = phase[b] \/ phase'[b] = "dead"
        /\ b \in late' => b \in late
        /\ row'[b] = NoRow /\ row[b] # NoRow => phase'[b] = "dead"
    BY <1>4 DEF Crash
  <2>2. CASE row'[b] = row[b]
    BY <2>1, <2>2 DEF NoNews, Busy, MayComplete, Opening, Underway
  <2>3. CASE row'[b] # row[b]
    BY <2>1, <2>3, NoRowIsARow DEF NoNews, Busy, MayComplete, Opening, Underway
  <2> QED
    BY <2>2, <2>3
<1>5. ASSUME NEW s \in Students, ResetCaps(s) PROVE NoNews(b)
  <2>1. phase' = phase /\ late' = late
        /\ (row'[b] = row[b] \/ row'[b] = [row[b] EXCEPT !.counted = FALSE])
    BY <1>5 DEF ResetCaps
  <2>2. row'[b].status = row[b].status /\ (row'[b].counted => row[b].counted) /\ row'[b].missed = row[b].missed
    BY <1>1, <2>1 DEF Row
  <2> QED
    BY <2>1, <2>2 DEF NoNews, Busy, MayComplete
<1> QED
  BY <1>2, <1>3, <1>4, <1>5

(* Nobody enters but who finds room, and nobody promises to complete but    *)
(* who has counted the caps.                                                *)
LEMMA NewsIsRare ==
    ASSUME PhasesInv, Next
    PROVE  (\A b \in Attempts : NoNews(b)) \/ \E a \in Attempts : LocksCaps(a) \/ FindsRoom(a)
<1> USE DEF GoesTo
<1>1. ASSUME NEW a \in Attempts, GivesUp(a) PROVE \A b \in Attempts : NoNews(b)
  BY <1>1, GivesUpNoNews
<1>2. ASSUME NEW a \in Attempts, Resolve(a) \/ OpenFails(a) PROVE \A b \in Attempts : NoNews(b)
  <2>1. CASE GivesUp(a)
    BY <1>1, <2>1
  <2>2. CASE ~GivesUp(a)
    <3>1. phase' = [phase EXCEPT ![a] = "opening"] /\ UNCHANGED <<row, late>> /\ phase[a] = "resolving"
      BY <1>2, <2>2 DEF Resolve, OpenFails, records
    <3>2. row[a].status = "none"
      BY <3>1, Known DEF Agrees
    <3> QED
      BY <3>1, <3>2, GoesOnNoNews DEF Busy, MayComplete, Opening, Underway
  <2> QED
    BY <2>1, <2>2
<1>3. ASSUME NEW a \in Attempts, CountCaps(a) PROVE GivesUp(a) \/ LocksCaps(a)
  BY <1>3 DEF CountCaps, LocksCaps
<1>4. ASSUME NEW a \in Attempts, CountLive(a) PROVE GivesUp(a) \/ FindsRoom(a)
  BY <1>4 DEF CountLive, FindsRoom, records
<1>5. ASSUME NEW a \in Attempts, Insert(a) PROVE \A b \in Attempts : NoNews(b)
  <2> SUFFICES ASSUME NEW b \in Attempts PROVE NoNews(b)
    OBVIOUS
  <2>1. phase[a] = "inserting" /\ phase'[a] = "opened" /\ row'[a] = [row[a] EXCEPT !.status = "running"]
        /\ \A c \in Attempts \ {a} : phase'[c] = phase[c] /\ row'[c] = row[c]
        /\ late' = late
    BY <1>5 DEF Insert, PhasesInv, TypeOK
  <2>2. row[a] \in Row
    BY Known
  <2>3. row'[a].counted = row[a].counted /\ row'[a].missed = row[a].missed
    BY <2>1, <2>2 DEF Row
  <2>4. NoNews(a)
    BY <2>1, <2>3 DEF NoNews, Busy, MayComplete, Opening
  <2>5. CASE b # a
    BY <2>1, <2>5 DEF NoNews
  <2> QED
    BY <2>4, <2>5
<1>6. ASSUME NEW a \in Attempts, Start(a) \/ End(a) \/ Release(a) \/ Escape(a) \/ \E w \in Workers : Connect(a, w)
      PROVE  \A b \in Attempts : NoNews(b)
  <2>1. UNCHANGED <<row, late>>
        /\ \E p : /\ phase' = [phase EXCEPT ![a] = p] /\ p \notin Opening
                  /\ p \in Underway => phase[a] \in Underway
    BY <1>6 DEF Start, End, Release, Escape, Connect, records, Opening, Underway
  <2> QED
    BY <2>1, GoesOnNoNews DEF Busy, MayComplete, Opening
<1>7. ASSUME NEW a \in Attempts, Layer1Lost(a) PROVE \A b \in Attempts : NoNews(b)
  <2> SUFFICES ASSUME NEW b \in Attempts PROVE NoNews(b)
    OBVIOUS
  <2>1. phase[a] = "ending" /\ phase'[a] = "releasing" /\ row' = row
        /\ \A c \in Attempts \ {a} : phase'[c] = phase[c] /\ (c \in late' <=> c \in late)
    BY <1>7 DEF Layer1Lost, PhasesInv, TypeOK
  <2>2. NoNews(a)
    BY <2>1 DEF NoNews, Busy, MayComplete, Opening, Underway
  <2>3. CASE b # a
    BY <2>1, <2>3 DEF NoNews
  <2> QED
    BY <2>2, <2>3
<1>8. ASSUME NEW a \in Attempts, Beat(a) \/ Settle(a) PROVE \A b \in Attempts : NoNews(b)
  <2> SUFFICES ASSUME NEW b \in Attempts PROVE NoNews(b)
    OBVIOUS
  <2>1. row[b] \in Row
    BY Known
  <2>2. phase' = phase /\ late' = late /\ (row'[b] = row[b] \/ row'[b] = [row[b] EXCEPT !.silence = 0])
    BY <1>8 DEF Beat, Settle, PhasesInv, TypeOK
  <2>3. row'[b].status = row[b].status /\ row'[b].counted = row[b].counted /\ row'[b].missed = row[b].missed
    BY <2>1, <2>2 DEF Row
  <2> QED
    BY <2>2, <2>3 DEF NoNews, Busy, MayComplete
<1> QED
  BY <1>1, <1>2, <1>3, <1>4, <1>5, <1>6, <1>7, <1>8, ClosingNoNews, OutsideNoNews DEF Next, Handle

-----------------------------------------------------------------------------
(* The limit over all workers *)

(* The seen interviews of a student, and those that are about to begin, fit. *)
FleetRoom == \A s \in Students : Cardinality(Engaged(s)) <= PerUser + Slack(s)

(* Once a student has a conversation it stays. *)
LEMMA TalkedGrows ==
    ASSUME PhasesInv, LocksHeld, [Next]_vars, NEW s \in Students
    PROVE  Slack(s) \in Nat /\ Slack(s)' \in Nat /\ Slack(s) <= Slack(s)'
<1>1. talked \subseteq talked' /\ Talked \subseteq talked
  BY StepIsQuiet DEF Quiet, LocksCaps, FindsRoom, Insert, vars, LocksHeld
<1> QED
  BY <1>1 DEF Slack, FirstTalk

(* Who is under way and was always heard of is counted, on whatever worker: *)
(* its record runs, and its silence is within the grace of the count.       *)
LEMMA AttendingIsCounted ==
    ASSUME PhasesInv, NEW s
    PROVE  Cardinality(Attending(s)) \in Nat /\ Cardinality(LiveElsewhere(s)) \in Nat
           /\ Cardinality(Attending(s)) <= Cardinality(LiveElsewhere(s))
<1>1. ASSUME NEW a \in Attending(s) PROVE a \in LiveElsewhere(s)
  <2>1. a \in Of(s) /\ a \in Attempts /\ row[a].status = "running" /\ ~row[a].missed
    BY DEF Attending, Seen, Of
  <2>2. row[a].silence <= LiveGrace
    BY <2>1, Known, ConstantsAssumption DEF Agrees, Row
  <2> QED
    BY <2>1, <2>2, ConstantsAssumption DEF LiveElsewhere
<1>2. Attending(s) \in SUBSET LiveElsewhere(s) /\ LiveElsewhere(s) \in SUBSET Of(s)
  BY <1>1 DEF LiveElsewhere
<1> QED
  BY <1>2, FewerCount

(* The room that is found is for all who are under way, and only one is     *)
(* astray.                                                                  *)
LEMMA FindsRoomFleet ==
    ASSUME PhasesInv, CapsInv, FleetRoom, NEW a \in Attempts, FindsRoom(a)
    PROVE  FleetRoom'
<1> DEFINE t == StudentOf[a]
<1>1. t \in Students /\ a \in Of(t) /\ opener[t] = a /\ Talked \subseteq talked
  BY Known DEF FindsRoom, CountLive, CapsInv, LocksHeld, Of
<1>2. /\ \A b \in Attempts \ {a} : phase'[b] = phase[b]
      /\ phase[a] = "counted" /\ phase'[a] = "inserting" /\ talked' = talked \cup {t}
      /\ Cardinality(LiveElsewhere(t)) < PerUser /\ row' = row
  BY DEF FindsRoom, CountLive, GoesTo, PhasesInv, TypeOK
<1>3. \A s \in Students \ {t} : Engaged(s)' = Engaged(s) /\ Slack(s)' = Slack(s)
  BY <1>2 DEF Engaged, Attending, Entering, Seen, Of, Slack
<1>4. \A b \in Entering(t) : Astray(b)
  BY <1>1, <1>2 DEF Entering, Seen, Of, Astray
<1>5. Attending(t) \in SUBSET Of(t) /\ Entering(t) \in SUBSET Of(t)
  BY DEF Attending, Entering, Seen
<1>6. Cardinality(Entering(t)) \in Nat /\ Slack(t) \in Nat /\ Cardinality(Entering(t)) <= Slack(t)
  BY <1>1, <1>4, <1>5, FewAstray DEF CapsInv
<1>7. Slack(t)' \in Nat /\ Slack(t) <= Slack(t)'
  BY <1>1, <1>2 DEF Slack, FirstTalk
<1>8. Engaged(t)' \in SUBSET (Attending(t) \cup Entering(t) \cup {a})
  BY <1>2 DEF Engaged, Attending, Entering, Seen, Of
<1>9. /\ Cardinality(Attending(t)) \in Nat /\ Cardinality(Engaged(t)') \in Nat
      /\ Cardinality(Engaged(t)') <= Cardinality(Attending(t)) + Cardinality(Entering(t)) + 1
  BY <1>1, <1>5, <1>8, OneMore
<1>10. Cardinality(Attending(t)) < PerUser
  BY <1>2, AttendingIsCounted, ConstantsAssumption
<1>11. Cardinality(Engaged(t)') <= PerUser + Slack(t)'
  BY <1>6, <1>7, <1>9, <1>10, ConstantsAssumption
<1> HIDE DEF t
<1> QED
  BY <1>3, <1>11 DEF FleetRoom

(* Every step keeps to the limit. *)
LEMMA FleetNext == PhasesInv /\ CapsInv /\ FleetRoom /\ [Next]_vars => FleetRoom'
<1> SUFFICES ASSUME PhasesInv, CapsInv, FleetRoom, [Next]_vars PROVE FleetRoom'
  OBVIOUS
<1>1. ASSUME \A s \in Students : Engaged(s)' \in SUBSET Engaged(s) PROVE FleetRoom'
  <2> SUFFICES ASSUME NEW s \in Students PROVE Cardinality(Engaged(s)') <= PerUser + Slack(s)'
    BY DEF FleetRoom
  <2>1. Engaged(s) \in SUBSET Of(s)
    BY DEF Engaged, Attending, Entering, Seen
  <2>2. /\ Cardinality(Engaged(s)') \in Nat /\ Cardinality(Engaged(s)) \in Nat
        /\ Cardinality(Engaged(s)') <= Cardinality(Engaged(s))
    BY <1>1, <2>1, FewerCount
  <2>3. Cardinality(Engaged(s)) <= PerUser + Slack(s)
    BY DEF FleetRoom
  <2> QED
    BY <2>2, <2>3, TalkedGrows, ConstantsAssumption DEF CapsInv
<1>2. CASE UNCHANGED vars
  BY <1>1, <1>2 DEF vars, records, Engaged, Attending, Entering, Seen, Of
<1>3. CASE \A b \in Attempts : NoNews(b)
  <2>1. \A s \in Students : Engaged(s)' \in SUBSET Engaged(s)
    BY <1>3 DEF NoNews, Busy, Engaged, Attending, Entering, Seen, Of
  <2> QED
    BY <1>1, <2>1
<1>4. ASSUME NEW a \in Attempts, LocksCaps(a) PROVE FleetRoom'
  <2>1. /\ \A b \in Attempts \ {a} : phase'[b] = phase[b] /\ row'[b] = row[b]
        /\ phase'[a] = "counted"
    BY <1>4 DEF LocksCaps, GoesTo, PhasesInv, TypeOK
  <2>2. \A s \in Students : Engaged(s)' \in SUBSET Engaged(s)
    BY <2>1 DEF Engaged, Attending, Entering, Seen, Of, Underway
  <2> QED
    BY <1>1, <2>2
<1>5. ASSUME NEW a \in Attempts, FindsRoom(a) PROVE FleetRoom'
  BY <1>5, FindsRoomFleet
<1> QED
  BY <1>2, <1>3, <1>4, <1>5, NewsIsRare

LEMMA FleetInit == Init => FleetRoom
<1> SUFFICES ASSUME Init, NEW s \in Students PROVE Cardinality(Engaged(s)) <= PerUser + Slack(s)
  BY DEF FleetRoom
<1>1. Engaged(s) = {} /\ Slack(s) \in Nat
  BY DEF Init, Engaged, Attending, Entering, Seen, Underway, Of, Slack, FirstTalk
<1>2. Cardinality(Engaged(s)) = 0
  BY <1>1, FS_EmptySet
<1> QED
  BY <1>1, <1>2, ConstantsAssumption

(***************************************************************************)
(* A student has no more interviews at once than the limit, over all       *)
(* workers, but for one begun in a first talk, and for those whose         *)
(* heartbeats failed for longer than the count looks back (_open_records,  *)
(* get_or_create).                                                         *)
(***************************************************************************)
FleetButFirst == \A s \in Students : Cardinality(Serving(s) \cap Seen(s)) <= PerUser + FirstTalk(s)

THEOREM FleetIsNearlyCapped == Spec => []FleetButFirst
<1>1. PhasesInv /\ CapsInv /\ FleetRoom /\ [Next]_vars => FleetRoom'
  BY FleetNext
<1>2. PhasesInv /\ FleetRoom => FleetButFirst
  <2> SUFFICES ASSUME PhasesInv, FleetRoom, NEW s \in Students
               PROVE  Cardinality(Serving(s) \cap Seen(s)) <= PerUser + FirstTalk(s)
    BY DEF FleetButFirst
  <2> DEFINE S == Serving(s) \cap Seen(s)
  <2>1. \A a \in S : a \in Seen(s) /\ a \in Attempts /\ ~row[a].missed /\ phase[a] \in {"opened", "live"}
    BY DEF Serving, Seen, Of
  <2>2. ASSUME NEW a \in S PROVE row[a].status = "running"
    <3>1. row[a].silence <= LiveGrace
      BY <2>1, Known, ConstantsAssumption DEF Agrees, Row
    <3> QED
      BY <2>1, <3>1, Known, ConstantsAssumption DEF Agrees, Row
  <2>3. S \in SUBSET Engaged(s) /\ Engaged(s) \in SUBSET Of(s)
    BY <2>1, <2>2 DEF Engaged, Attending, Entering, Seen, Underway
  <2> HIDE DEF S
  <2>4. /\ Cardinality(S) \in Nat /\ Cardinality(Engaged(s)) \in Nat
        /\ Cardinality(S) <= Cardinality(Engaged(s))
    BY <2>3, FewerCount
  <2>5. Slack(s) \in Nat /\ FirstTalk(s) \in Nat /\ Slack(s) <= FirstTalk(s)
    BY DEF Slack, FirstTalk
  <2> QED
    BY <2>4, <2>5, ConstantsAssumption DEF FleetRoom, S
<1> QED
  BY <1>1, <1>2, FleetInit, CapsInit, CapsNext, PhasesInvTheorem, PTL DEF Spec

(* No student has more interviews at once than the limit, whatever worker   *)
(* each of them is on, where the advisory lock is kept; those the count     *)
(* lost sight of, because their heartbeats failed, are not among them.      *)
THEOREM FleetIsCapped == Talked = Students => (Spec => []FleetCap)
<1> SUFFICES ASSUME Talked = Students PROVE Spec => []FleetCap
  OBVIOUS
<1>1. FleetButFirst => FleetCap
  BY ConstantsAssumption DEF FleetButFirst, FleetCap, FirstTalk
<1> QED
  BY <1>1, FleetIsNearlyCapped, PTL

-----------------------------------------------------------------------------
(* The records that are left behind *)

Forgotten == {a \in Attempts : phase[a] = "closed" /\ row[a].status = "running"}

ForgottenInv == faults \in Nat /\ Cardinality(Forgotten) <= faults

(* Nothing is forgiven. *)
LEMMA FaultsGrow ==
    ASSUME [Next]_vars, faults \in Nat
    PROVE  faults' \in Nat /\ faults <= faults'
<1>1. faults' = faults \/ faults' = faults + 1
  BY DEF Next, Handle, vars, budgets, Connect, Resolve, CountCaps, CountLive, Insert, Start, OpenFails, Escape,
         Beat, Settle, End, Layer1, Layer1Lost, LateWrite, Release, Layer2, Crash, Boot, Tick, ResetCaps
<1> QED
  BY <1>1

(* Only the last step of a handler closes it. *)
LEMMA ClosedBefore ==
    ASSUME PhasesInv, Next, NEW b \in Attempts, phase'[b] = "closed"
    PROVE  phase[b] = "closed" \/ Layer2(b)
<1> USE DEF GoesTo
<1>1. CASE UNCHANGED phase
  BY <1>1
<1>2. ASSUME NEW a \in Attempts, NEW p, phase' = [phase EXCEPT ![a] = p], p # "closed"
      PROVE  phase[b] = "closed"
  BY <1>2 DEF PhasesInv, TypeOK
<1>3. ASSUME NEW a \in Attempts, Layer2(a) PROVE phase[b] = "closed" \/ Layer2(b)
  BY <1>3 DEF Layer2, PhasesInv, TypeOK
<1>4. ASSUME NEW w \in Workers, Crash(w) PROVE phase[b] = "closed"
  BY <1>4 DEF Crash
<1>5. ASSUME NEW a \in Attempts,
             \/ Resolve(a) \/ CountCaps(a) \/ CountLive(a) \/ OpenFails(a) \/ Insert(a) \/ Start(a) \/ End(a)
             \/ Layer1(a) \/ Layer1Lost(a) \/ Release(a) \/ Escape(a) \/ \E w \in Workers : Connect(a, w)
      PROVE  \E p : phase' = [phase EXCEPT ![a] = p] /\ p # "closed"
  BY <1>5 DEF Resolve, CountCaps, CountLive, OpenFails, GivesUp, Insert, Start, End,
              Layer1, Layer1Lost, Release, Escape, Connect
<1>6. ASSUME \/ \E a \in Attempts : LateWrite(a) \/ Beat(a) \/ Settle(a)
             \/ (\E w \in Workers : Boot(w)) \/ (\E s \in Students : ResetCaps(s)) \/ Tick
      PROVE  UNCHANGED phase
  BY <1>6 DEF LateWrite, Beat, Settle, Boot, ResetCaps, Tick
<1> QED
  BY <1>1, <1>2, <1>3, <1>4, <1>5, <1>6 DEF Next, Handle

(* Only the insert makes a record run. *)
LEMMA RunsBefore ==
    ASSUME PhasesInv, Next, NEW b \in Attempts, row'[b].status = "running"
    PROVE  row[b].status = "running" \/ Insert(b)
<1>1. row \in [Attempts -> Row] /\ row[b] \in Row
  BY DEF PhasesInv, TypeOK
<1>2. CASE UNCHANGED row
  BY <1>2
<1>3. ASSUME NEW a \in Attempts, GivesUp(a) PROVE row[b].status = "running"
  BY <1>1, <1>3, NoRowIsARow DEF GivesUp
<1>4. ASSUME NEW a \in Attempts, CountCaps(a), ~GivesUp(a) PROVE row[b].status = "running"
  BY <1>1, <1>4 DEF CountCaps, NoRow
<1>5. ASSUME NEW a \in Attempts, Resolve(a) \/ CountLive(a) \/ OpenFails(a), ~GivesUp(a) PROVE UNCHANGED row
  BY <1>5 DEF Resolve, CountLive, OpenFails, records
<1>6. ASSUME NEW a \in Attempts, Insert(a) PROVE row[b].status = "running" \/ Insert(b)
  BY <1>1, <1>6 DEF Insert
<1>7. ASSUME NEW a \in Attempts, Beat(a) PROVE row[b].status = "running"
  BY <1>1, <1>7 DEF Beat
<1>8. ASSUME NEW a \in Attempts, Layer1(a) \/ LateWrite(a) \/ Layer2(a) PROVE row[b].status = "running"
  <2>1. UNCHANGED row \/ \E status : row' = IF Closable(a) THEN [row EXCEPT ![a].status = status] ELSE row
    BY <1>8 DEF Layer1, LateWrite, Layer2, Closes, Backstopped
  <2> QED
    BY <1>1, <2>1 DEF Closable
<1>9. ASSUME NEW w \in Workers, Crash(w) \/ Boot(w) PROVE row[b].status = "running"
  BY <1>1, <1>9, NoRowIsARow DEF Crash, Boot, Orphans
<1>10. ASSUME Tick PROVE row[b].status = "running"
  <2>1. row'[b] = Later(row[b])
    BY <1>10 DEF Tick
  <2> QED
    BY <1>1, <2>1 DEF Later, Row
<1>11. ASSUME NEW s \in Students, ResetCaps(s) PROVE row[b].status = "running"
  <2>1. row'[b] \in {row[b], [row[b] EXCEPT !.counted = FALSE]}
    BY <1>11 DEF ResetCaps
  <2> QED
    BY <1>1, <2>1 DEF Row
<1> QED
  BY <1>2, <1>3, <1>4, <1>5, <1>6, <1>7, <1>8, <1>9, <1>10, <1>11
     DEF Next, Handle, Connect, Start, End, Release, Settle, Escape, Layer1Lost, records

(* A closed handler whose record runs was so before, or its backstop just   *)
(* failed.                                                                  *)
LEMMA ForgottenBefore ==
    ASSUME PhasesInv, Next, NEW b \in Attempts, b \in Forgotten'
    PROVE  b \in Forgotten \/ (Layer2(b) /\ faults' = faults + 1)
<1>1. phase'[b] = "closed" /\ row'[b].status = "running"
  BY DEF Forgotten
<1>2. CASE Layer2(b)
  <2>1. ~ (row' = Backstopped(b))
    <3>1. SUFFICES ASSUME row' = Backstopped(b) PROVE FALSE
      OBVIOUS
    <3>2. CASE Closable(b)
      <4>1. row'[b].status = Backstop(b)
        BY <3>1, <3>2 DEF Backstopped, PhasesInv, TypeOK
      <4> QED
        BY <1>1, <4>1, StatusesAreTerminal DEF Terminal
    <3> QED
      BY <1>1, <3>1, <3>2 DEF Backstopped, Closable
  <2> QED
    BY <1>2, <2>1 DEF Layer2
<1>3. CASE ~Layer2(b)
  <2>1. phase[b] = "closed"
    BY <1>1, <1>3, ClosedBefore
  <2>2. row[b].status = "running"
    BY <1>1, <2>1, RunsBefore DEF Insert
  <2> QED
    BY <2>1, <2>2 DEF Forgotten
<1> QED
  BY <1>2, <1>3

LEMMA ForgottenFinite == IsFiniteSet(Forgotten) /\ Cardinality(Forgotten) \in Nat
<1>1. Forgotten \in SUBSET Attempts /\ IsFiniteSet(Attempts)
  BY ConstantsAssumption DEF Forgotten
<1>2. IsFiniteSet(Forgotten)
  BY <1>1, FS_Subset
<1> QED
  BY <1>2, FS_CardinalityType

(* Each record that is left behind is paid with a fault of its own. *)
LEMMA ForgottenNext == PhasesInv /\ ForgottenInv /\ [Next]_vars => ForgottenInv'
<1> SUFFICES ASSUME PhasesInv, ForgottenInv, [Next]_vars PROVE ForgottenInv'
  OBVIOUS
<1>1. faults' \in Nat /\ faults <= faults'
  BY FaultsGrow DEF ForgottenInv
<1>2. ASSUME Forgotten' \in SUBSET Forgotten PROVE ForgottenInv'
  <2>1. Cardinality(Forgotten') \in Nat /\ Cardinality(Forgotten') <= Cardinality(Forgotten)
    BY <1>2, ForgottenFinite, FS_Subset, FS_CardinalityType
  <2> QED
    BY <1>1, <2>1, ForgottenFinite DEF ForgottenInv
<1>3. CASE UNCHANGED vars
  BY <1>2, <1>3 DEF vars, records, Forgotten
<1>4. ASSUME NEW a \in Attempts, Layer2(a), faults' = faults + 1 PROVE ForgottenInv'
  <2>1. Forgotten' \in SUBSET (Forgotten \cup {a})
    BY <1>4 DEF Forgotten, Layer2, GoesTo, Backstopped, PhasesInv, TypeOK
  <2>2. /\ IsFiniteSet(Forgotten \cup {a}) /\ Cardinality(Forgotten \cup {a}) \in Nat
        /\ Cardinality(Forgotten \cup {a}) <= Cardinality(Forgotten) + 1
    <3>1. /\ IsFiniteSet(Forgotten \cup {a})
          /\ Cardinality(Forgotten \cup {a})
                 = IF a \in Forgotten THEN Cardinality(Forgotten) ELSE Cardinality(Forgotten) + 1
      BY ForgottenFinite, FS_AddElement
    <3>2. CASE a \in Forgotten
      BY <3>1, <3>2, ForgottenFinite
    <3>3. CASE a \notin Forgotten
      BY <3>1, <3>3, ForgottenFinite
    <3> QED
      BY <3>2, <3>3
  <2>3. Cardinality(Forgotten') \in Nat /\ Cardinality(Forgotten') <= Cardinality(Forgotten \cup {a})
    BY <2>1, <2>2, FS_Subset, FS_CardinalityType
  <2> QED
    BY <1>1, <1>4, <2>2, <2>3, ForgottenFinite DEF ForgottenInv
<1>5. CASE Next /\ ~ \E a \in Attempts : Layer2(a) /\ faults' = faults + 1
  <2>1. \A b \in Forgotten' : b \in Attempts
    BY DEF Forgotten
  <2>2. Forgotten' \in SUBSET Forgotten
    BY <1>5, <2>1, ForgottenBefore
  <2> QED
    BY <1>2, <2>2
<1> QED
  BY <1>3, <1>4, <1>5

LEMMA ForgottenInit == Init => ForgottenInv
<1> SUFFICES ASSUME Init PROVE ForgottenInv
  OBVIOUS
<1>1. Forgotten = {}
  BY DEF Init, Forgotten
<1> QED
  BY <1>1, FS_EmptySet DEF Init, ForgottenInv

(***************************************************************************)
(* The backstop of the router's finally leaves no record running behind a  *)
(* closed handler, however the call ended and whatever became of the       *)
(* engine's own write: only where the backstop's write failed itself, and  *)
(* then the sweep of a booting worker is what is left (_run_relay).        *)
(***************************************************************************)
FewForgotten == Cardinality(Forgotten) <= faults

THEOREM BackstopHolds == Spec => []FewForgotten
<1>1. ForgottenInv => FewForgotten
  BY DEF ForgottenInv, FewForgotten
<1> QED
  BY <1>1, ForgottenInit, ForgottenNext, PhasesInvTheorem, PTL DEF Spec

-----------------------------------------------------------------------------
(* The daily cap *)

(* It is counted before the live rows are: who is under way then may still  *)
(* complete in between.                                                     *)
DailyRoom == \A s \in Students : Cardinality(Promising(s)) <= DailyCap + PerUser + Slack(s) + faults

DailyInv == FleetRoom /\ ForgottenInv /\ DailyRoom

(* While the lock is free, who promises to complete has completed, is under *)
(* way, or writes late for a closed handler.                                *)
LEMMA PromisesAreSeen ==
    ASSUME PhasesInv, LocksHeld, NEW s \in Students, LockFree(s), NEW b \in Promising(s)
    PROVE  b \in Completed(s) \/ b \in Engaged(s) \/ b \in Forgotten
<1>1. /\ b \in Of(s) /\ b \in Attempts /\ StudentOf[b] = s
      /\ MayComplete(phase[b], row[b], b \in late)
  BY DEF Promising, Of
<1>0. b \in Seen(s)
  BY <1>1 DEF MayComplete, Seen
<1>2. CASE row[b].status = "completed"
  BY <1>1, <1>2 DEF MayComplete, Completed, Stored
<1>3. CASE phase[b] \in Opening
  <2>1. phase[b] # "counted"
    BY <1>1, ConstantsAssumption DEF LocksHeld, LockFree
  <2> QED
    BY <1>1, <1>0, <1>3, <2>1 DEF Opening, Engaged, Entering
<1>4. CASE row[b].status = "running" /\ phase[b] \in Underway
  BY <1>1, <1>0, <1>4 DEF Engaged, Attending
<1>5. CASE row[b].status = "running" /\ b \in late
  <2>1. phase[b] \in {"releasing", "released", "closed"}
    BY <1>1, <1>5, Known DEF Agrees
  <2> QED
    BY <1>1, <1>4, <1>5, <2>1 DEF Underway, Forgotten
<1> QED
  BY <1>1, <1>2, <1>3, <1>4, <1>5 DEF MayComplete

(* Who counts the caps leaves room for itself. *)
LEMMA LocksCapsDaily ==
    ASSUME PhasesInv, CapsInv, DailyInv, NEW a \in Attempts, LocksCaps(a)
    PROVE  DailyRoom'
<1> DEFINE t == StudentOf[a]
           F == Forgotten \cap Of(t)
           R == Engaged(t) \cup F
<1>1. t \in Students /\ LockFree(t) /\ a \in Of(t) /\ Cardinality(Completed(t)) < DailyCap
  <2>1. t \in Students /\ LockFree(t) /\ a \in Of(t) /\ ~(Cardinality(Completed(t)) >= DailyCap)
    BY Known DEF LocksCaps, CountCaps, Of, Capped
  <2>2. Completed(t) \in SUBSET Of(t)
    BY DEF Completed, Stored
  <2>3. Cardinality(Completed(t)) \in Nat
    BY <2>2, FiniteOf
  <2> QED
    BY <2>1, <2>3, ConstantsAssumption
<1>2. /\ \A b \in Attempts \ {a} : phase'[b] = phase[b] /\ row'[b] = row[b]
      /\ talked' = talked
  BY DEF LocksCaps, GoesTo, PhasesInv, TypeOK
<1>3. late' = late /\ faults' = faults
  <2>1. ~GivesUp(a)
    BY DEF LocksCaps, GoesTo, GivesUp, PhasesInv, TypeOK
  <2> QED
    BY <2>1 DEF LocksCaps, CountCaps, budgets
<1>4. \A s \in Students \ {t} : Promising(s)' = Promising(s)
  BY <1>2, <1>3 DEF Promising, Of
<1>5. Promising(t)' \in SUBSET (Promising(t) \cup {a})
  BY <1>2, <1>3 DEF Promising, Of
<1>6. \A b \in Promising(t) : b \in Of(t)
  BY DEF Promising
<1>7. Promising(t) \in SUBSET (Completed(t) \cup R)
  BY <1>1, <1>6, PromisesAreSeen DEF CapsInv
<1>8. /\ Completed(t) \in SUBSET Of(t) /\ Engaged(t) \in SUBSET Of(t)
      /\ F \in SUBSET Of(t) /\ F \in SUBSET Forgotten /\ R \in SUBSET Of(t)
  BY DEF Completed, Stored, Engaged, Attending, Entering, Seen
<1> HIDE DEF F, R
<1>9. Promising(t)' \in SUBSET (Completed(t) \cup R \cup {a})
  BY <1>5, <1>7
<1>10. /\ Cardinality(Completed(t)) \in Nat /\ Cardinality(R) \in Nat /\ Cardinality(Promising(t)') \in Nat
       /\ Cardinality(Promising(t)') <= Cardinality(Completed(t)) + Cardinality(R) + 1
  BY <1>1, <1>8, <1>9, OneMore
<1>11. /\ Cardinality(Engaged(t)) \in Nat /\ Cardinality(F) \in Nat
       /\ Cardinality(R) <= Cardinality(Engaged(t)) + Cardinality(F)
  <2>1. /\ IsFiniteSet(Engaged(t)) /\ Cardinality(Engaged(t)) \in Nat
        /\ IsFiniteSet(F) /\ Cardinality(F) \in Nat /\ Cardinality(Engaged(t) \cap F) \in Nat
    <3>1. Engaged(t) \cap F \in SUBSET Of(t)
      BY <1>8
    <3> QED
      BY <1>8, <3>1, FiniteOf
  <2>2. Cardinality(R) = Cardinality(Engaged(t)) + Cardinality(F) - Cardinality(Engaged(t) \cap F)
    BY <2>1, FS_Union DEF R
  <2> QED
    BY <2>1, <2>2
<1>12. Cardinality(F) <= faults /\ faults \in Nat
  <2>1. Cardinality(F) <= Cardinality(Forgotten)
    BY <1>8, ForgottenFinite, FS_Subset
  <2> QED
    BY <1>11, <2>1, ForgottenFinite DEF DailyInv, ForgottenInv
<1>13. Cardinality(Engaged(t)) <= PerUser + Slack(t) /\ Slack(t) \in Nat
  BY <1>1 DEF DailyInv, FleetRoom, Slack, FirstTalk
<1>14. Cardinality(Promising(t)') <= DailyCap + PerUser + Slack(t) + faults
  BY <1>1, <1>10, <1>11, <1>12, <1>13, ConstantsAssumption
<1>15. \A s \in Students : Slack(s)' = Slack(s)
  BY <1>2 DEF Slack
<1> HIDE DEF t
<1> QED
  BY <1>3, <1>4, <1>14, <1>15 DEF DailyInv, DailyRoom

LEMMA DailyNext == PhasesInv /\ CapsInv /\ DailyInv /\ [Next]_vars => DailyInv'
<1> SUFFICES ASSUME PhasesInv, CapsInv, DailyInv, [Next]_vars PROVE DailyRoom'
  BY FleetNext, ForgottenNext DEF DailyInv
<1>1. ASSUME \A s \in Students : Promising(s)' \in SUBSET Promising(s) PROVE DailyRoom'
  <2> SUFFICES ASSUME NEW s \in Students
               PROVE  Cardinality(Promising(s)') <= DailyCap + PerUser + Slack(s)' + faults'
    BY DEF DailyRoom
  <2>1. Promising(s) \in SUBSET Of(s)
    BY DEF Promising
  <2>2. /\ Cardinality(Promising(s)') \in Nat /\ Cardinality(Promising(s)) \in Nat
        /\ Cardinality(Promising(s)') <= Cardinality(Promising(s))
    BY <1>1, <2>1, FewerCount
  <2>3. faults \in Nat /\ faults' \in Nat /\ faults <= faults'
    BY FaultsGrow DEF DailyInv, ForgottenInv
  <2>4. Slack(s) \in Nat /\ Slack(s)' \in Nat /\ Slack(s) <= Slack(s)'
    BY TalkedGrows DEF CapsInv
  <2>5. Cardinality(Promising(s)) <= DailyCap + PerUser + Slack(s) + faults
    BY DEF DailyInv, DailyRoom
  <2> QED
    BY <2>2, <2>3, <2>4, <2>5, ConstantsAssumption
<1>2. CASE UNCHANGED vars
  BY <1>1, <1>2 DEF vars, records, Promising, Of
<1>3. CASE \A b \in Attempts : NoNews(b)
  <2>1. \A s \in Students : Promising(s)' \in SUBSET Promising(s)
    BY <1>3 DEF NoNews, Promising, Of
  <2> QED
    BY <1>1, <2>1
<1>4. ASSUME NEW a \in Attempts, LocksCaps(a) PROVE DailyRoom'
  BY <1>4, LocksCapsDaily
<1>5. ASSUME NEW a \in Attempts, FindsRoom(a) PROVE DailyRoom'
  <2>1. /\ \A b \in Attempts \ {a} : phase'[b] = phase[b]
        /\ phase[a] \in Opening /\ row' = row
    BY <1>5 DEF FindsRoom, CountLive, GoesTo, PhasesInv, TypeOK, Opening
  <2>2. late' = late
    <3>1. ~GivesUp(a)
      BY <1>5 DEF FindsRoom, GoesTo, GivesUp, PhasesInv, TypeOK
    <3> QED
      BY <1>5, <3>1 DEF FindsRoom, CountLive, records
  <2>3. \A s \in Students : Promising(s)' \in SUBSET Promising(s)
    BY <2>1, <2>2 DEF Promising, MayComplete, Of
  <2> QED
    BY <1>1, <2>3
<1> QED
  BY <1>2, <1>3, <1>4, <1>5, NewsIsRare

LEMMA DailyInit == Init => DailyInv
<1> SUFFICES ASSUME Init PROVE DailyRoom
  BY FleetInit, ForgottenInit DEF DailyInv
<1> SUFFICES ASSUME NEW s \in Students
             PROVE  Cardinality(Promising(s)) <= DailyCap + PerUser + Slack(s) + faults
  BY DEF DailyRoom
<1>1. Promising(s) = {} /\ Slack(s) \in Nat /\ faults = 0
  <2>1. \A b \in Of(s) : ~MayComplete(phase[b], row[b], b \in late)
    BY DEF Init, MayComplete, NoRow, Of
  <2>2. Promising(s) = {}
    BY <2>1 DEF Promising
  <2> QED
    BY <2>2 DEF Init, Slack, FirstTalk
<1>2. Cardinality(Promising(s)) = 0
  BY <1>1, FS_EmptySet
<1> QED
  BY <1>1, <1>2, ConstantsAssumption

(***************************************************************************)
(* How far the daily cap can be overrun.  The cap counts what completed    *)
(* before the live rows are counted, so those under way when it is counted *)
(* may complete as well: at most the per-user limit of them, one more in a *)
(* first talk, one for each write that failed, and those whose heartbeats  *)
(* failed for longer than the count looks back (evaluate_caps,             *)
(* _open_records).                                                         *)
(***************************************************************************)
DailyCapNearly ==
    \A s \in Students : Cardinality(Completed(s) \cap Seen(s)) <= DailyCap + PerUser + FirstTalk(s) + faults

THEOREM DailyCapNearlyHolds == Spec => []DailyCapNearly
<1>1. PhasesInv /\ CapsInv /\ DailyInv /\ [Next]_vars => DailyInv'
  BY DailyNext
<1>2. DailyInv => DailyCapNearly
  <2> SUFFICES ASSUME DailyInv, NEW s \in Students
               PROVE  Cardinality(Completed(s) \cap Seen(s)) <= DailyCap + PerUser + FirstTalk(s) + faults
    BY DEF DailyCapNearly
  <2> DEFINE S == Completed(s) \cap Seen(s)
  <2>1. S \in SUBSET Promising(s) /\ Promising(s) \in SUBSET Of(s)
    BY DEF Completed, Stored, Seen, Promising, MayComplete
  <2> HIDE DEF S
  <2>2. /\ Cardinality(S) \in Nat /\ Cardinality(Promising(s)) \in Nat
        /\ Cardinality(S) <= Cardinality(Promising(s))
    BY <2>1, FewerCount
  <2>3. Slack(s) \in Nat /\ FirstTalk(s) \in Nat /\ Slack(s) <= FirstTalk(s) /\ faults \in Nat
    BY DEF Slack, FirstTalk, DailyInv, ForgottenInv
  <2>4. Cardinality(Promising(s)) <= DailyCap + PerUser + Slack(s) + faults
    BY DEF DailyInv, DailyRoom
  <2> QED
    BY <2>2, <2>3, <2>4, ConstantsAssumption DEF S
<1> QED
  BY <1>1, <1>2, DailyInit, CapsInit, CapsNext, PhasesInvTheorem, PTL DEF Spec

-----------------------------------------------------------------------------
(* The advisory lock *)

(* Who holds the lock of a student is an attempt of that student whose      *)
(* opening transaction is on its way; it waits for no other lock.           *)
HoldersOpen ==
    \A s \in Students : opener[s] # NoAttempt =>
        /\ opener[s] \in Attempts /\ StudentOf[opener[s]] = s
        /\ phase[opener[s]] \in Opening

(* Locks only fall, and those who hold one stay where they are. *)
LEMMA HoldersStay ==
    ASSUME HoldersOpen,
           \A s \in Students : opener'[s] # NoAttempt =>
               opener'[s] = opener[s] /\ phase'[opener[s]] \in Opening
    PROVE  HoldersOpen'
BY DEF HoldersOpen

LEMMA HoldersNext == PhasesInv /\ HoldersOpen /\ [Next]_vars => HoldersOpen'
<1> SUFFICES ASSUME PhasesInv, HoldersOpen, [Next]_vars PROVE HoldersOpen'
  OBVIOUS
<1> USE DEF GoesTo
<1>0. NoAttempt \notin Attempts
  BY ConstantsAssumption
<1>1. CASE UNCHANGED vars
  BY <1>1, HoldersStay DEF vars, HoldersOpen
<1>2. ASSUME UNCHANGED <<phase, opener>> PROVE HoldersOpen'
  BY <1>2, HoldersStay DEF HoldersOpen
<1>3. ASSUME NEW a \in Attempts, NEW p, phase' = [phase EXCEPT ![a] = p], opener' = Unlocked(a)
      PROVE  HoldersOpen'
  <2>1. \A s \in Students : opener'[s] # NoAttempt => opener'[s] = opener[s] /\ opener[s] # a
    BY <1>3 DEF Unlocked
  <2>2. \A s \in Students : opener'[s] # NoAttempt => phase'[opener[s]] \in Opening
    BY <1>3, <2>1 DEF HoldersOpen, PhasesInv, TypeOK
  <2> QED
    BY <2>1, <2>2, HoldersStay
<1>4. ASSUME NEW a \in Attempts, NEW p, phase' = [phase EXCEPT ![a] = p], UNCHANGED opener,
             phase[a] \notin Opening \/ p \in Opening
      PROVE  HoldersOpen'
  BY <1>4, HoldersStay DEF HoldersOpen, PhasesInv, TypeOK
<1>5. ASSUME NEW a \in Attempts, GivesUp(a) PROVE HoldersOpen'
  BY <1>3, <1>5 DEF GivesUp
<1>6. ASSUME NEW a \in Attempts, LocksCaps(a) PROVE HoldersOpen'
  <2>1. StudentOf[a] \in Students
    BY Known
  <2>2. /\ opener' = [opener EXCEPT ![StudentOf[a]] = a] /\ phase' = [phase EXCEPT ![a] = "counted"]
        /\ phase[a] = "opening" /\ opener \in [Students -> Attempts \cup {NoAttempt}]
    BY <1>6 DEF LocksCaps, CountCaps, PhasesInv, TypeOK
  <2> SUFFICES ASSUME NEW s \in Students, opener'[s] # NoAttempt
               PROVE  /\ opener'[s] \in Attempts /\ StudentOf[opener'[s]] = s
                      /\ phase'[opener'[s]] \in Opening
    BY DEF HoldersOpen
  <2>3. CASE s = StudentOf[a]
    BY <2>1, <2>2, <2>3 DEF Opening, PhasesInv, TypeOK
  <2>4. CASE s # StudentOf[a]
    BY <2>2, <2>4 DEF HoldersOpen, Opening, PhasesInv, TypeOK
  <2> QED
    BY <2>3, <2>4
<1>7. ASSUME NEW a \in Attempts, FindsRoom(a) PROVE HoldersOpen'
  <2>1. phase' = [phase EXCEPT ![a] = "inserting"] /\ (opener' = opener \/ opener' = Unlocked(a))
    BY <1>7 DEF FindsRoom
  <2> QED
    BY <1>3, <1>4, <2>1 DEF Opening
<1>8. ASSUME NEW a \in Attempts, Resolve(a) \/ CountCaps(a) \/ CountLive(a) \/ OpenFails(a) PROVE HoldersOpen'
  <2>1. CASE GivesUp(a) \/ LocksCaps(a) \/ FindsRoom(a)
    BY <1>5, <1>6, <1>7, <2>1
  <2>2. CASE Resolve(a) /\ ~GivesUp(a)
    <3>1. phase' = [phase EXCEPT ![a] = "opening"] /\ UNCHANGED opener /\ phase[a] = "resolving"
      BY <2>2 DEF Resolve
    <3> QED
      BY <1>4, <3>1 DEF Opening
  <2> QED
    BY <1>8, <2>1, <2>2 DEF CountCaps, CountLive, OpenFails, LocksCaps, FindsRoom, records
<1>9. ASSUME NEW a \in Attempts, Insert(a) PROVE HoldersOpen'
  BY <1>3, <1>9 DEF Insert
<1>10. ASSUME NEW a \in Attempts,
              \/ Start(a) \/ End(a) \/ Layer1(a) \/ Layer1Lost(a) \/ Release(a) \/ Layer2(a) \/ Escape(a)
              \/ \E w \in Workers : Connect(a, w)
       PROVE  HoldersOpen'
  <2>1. UNCHANGED opener /\ phase[a] \notin Opening /\ \E p : phase' = [phase EXCEPT ![a] = p]
    BY <1>10 DEF Start, End, Layer1, Layer1Lost, Release, Layer2, Escape, Connect, Opening
  <2> QED
    BY <1>4, <2>1
<1>11. ASSUME NEW w \in Workers, Crash(w) PROVE HoldersOpen'
  <2> DEFINE lost == {a \in Attempts : worker[a] = w /\ phase[a] \notin Over \ {"escaped"}}
  <2>1. /\ phase' = [a \in Attempts |-> IF a \in lost THEN "dead" ELSE phase[a]]
        /\ opener' = [s \in Students |-> IF opener[s] \in lost THEN NoAttempt ELSE opener[s]]
    BY <1>11 DEF Crash
  <2> HIDE DEF lost
  <2> QED
    BY <2>1, HoldersStay DEF HoldersOpen
<1>12. ASSUME \/ \E a \in Attempts : LateWrite(a) \/ Beat(a) \/ Settle(a)
              \/ (\E w \in Workers : Boot(w)) \/ (\E s \in Students : ResetCaps(s)) \/ Tick
       PROVE  HoldersOpen'
  BY <1>2, <1>12 DEF LateWrite, Beat, Settle, Boot, ResetCaps, Tick
<1> QED
  BY <1>1, <1>8, <1>9, <1>10, <1>11, <1>12 DEF Next, Handle

(* No refusal, failure or crash leaves a student's lock behind: whoever     *)
(* holds it is about to count or to insert, and its commit, its rollback or *)
(* its death lets it go (_open_records).                                    *)
THEOREM LocksAreLetGo == Spec => []HoldersOpen
<1>1. Init => HoldersOpen
  BY DEF Init, HoldersOpen
<1> QED
  BY <1>1, HoldersNext, PhasesInvTheorem, PTL DEF Spec

=============================================================================
