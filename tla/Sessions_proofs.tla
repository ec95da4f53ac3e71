--------------------------- MODULE Sessions_proofs ---------------------------
(* Proofs about Sessions, for any number of workers, requests and ticks. *)
EXTENDS Sessions, TLAPS

LEMMA NumberFacts ==
    /\ MaxVersion \in Nat /\ MaxTime \in Nat /\ MaxFaults \in Nat
    /\ TTL \in Nat /\ Lag \in Nat /\ Backoff \in Nat
    /\ 0 \in 0..TTL /\ TTL \in 0..TTL
BY ConstantsAssumption DEF ConstantsAssumption

LEMMA NoRequestType == NoRequest \in Request
BY NumberFacts DEF NoRequest, Request, Row, Bars, Versions, Ops

LEMMA LessFacts ==
    ASSUME NEW m \in Nat, NEW n \in 0..m
    PROVE  Less(n) \in 0..m /\ (Less(n) > 0 => Less(n) = n - 1)
BY DEF Less

(* A request that ends keeps nothing. *)
LEMMA EndedFacts ==
    ASSUME TypeOK, NEW c \in Calls, Ended(c)
    PROVE  /\ call' \in [Calls -> Request]
           /\ \A d \in Calls \ {c} : call'[d] = call[d]
           /\ call'[c].pc = "done" /\ call'[c].op = "request" /\ call'[c].view.there
<1>1. [NoRequest EXCEPT !.pc = "done"] \in Request
  BY NoRequestType DEF Request
<1>2. /\ [NoRequest EXCEPT !.pc = "done"].pc = "done"
      /\ [NoRequest EXCEPT !.pc = "done"].op = "request"
      /\ [NoRequest EXCEPT !.pc = "done"].view.there
  BY DEF NoRequest
<1> QED BY <1>1, <1>2 DEF Ended, TypeOK

(* A request whose session was looked at keeps its cookie and its evidence. *)
LEMMA GoesFacts ==
    ASSUME TypeOK, NEW c \in Calls, NEW req \in Request, NEW admitted \in BOOLEAN,
           Goes(c, req, admitted)
    PROVE  /\ call' \in [Calls -> Request]
           /\ \A d \in Calls \ {c} : call'[d] = call[d]
           /\ call'[c].pc = IF admitted THEN "admitted" ELSE "done"
           /\ call'[c].age = req.age
           /\ call'[c].op = req.op /\ call'[c].view = req.view
<1> DEFINE q == [req EXCEPT !.pc = IF admitted THEN "admitted" ELSE "done", !.left = 0]
<1>1. /\ q \in Request
      /\ q.pc = IF admitted THEN "admitted" ELSE "done"
      /\ q.age = req.age /\ q.op = req.op /\ q.view = req.view
  <2>1. 0 \in 0..TTL
    BY NumberFacts
  <2> QED BY <2>1 DEF Request
<1>2. call' = [call EXCEPT ![c] = q]
  BY DEF Goes
<1> HIDE DEF q
<1> QED BY <1>1, <1>2 DEF TypeOK

(* A request outside its handler has no reading to answer for. *)
LEMMA IdleReads ==
    ASSUME NEW q \in Request, q.pc \in {"new", "asking", "admitted", "done"},
           row.there => q.view.there, ~q.view.there => q.view = Gone
    PROVE  ReadAsOld(q)
BY DEF ReadAsOld

(* A reading stays as old as it says while the histories stand still. *)
LEMMA OthersKeepReads ==
    ASSUME SessionsInv, NEW c \in Calls, UNCHANGED <<row, behind, barredFor>>,
           \A d \in Calls \ {c} : call'[d] = call[d], ReadAsOld(call'[c])
    PROVE  ReadsNotOlder'
<1>1. ASSUME NEW d \in Calls PROVE ReadAsOld(call'[d])
  <2>1. CASE d = c
    BY <2>1
  <2>2. CASE d # c
    BY <2>2 DEF SessionsInv, ReadsNotOlder
  <2> QED BY <2>1, <2>2
<1> QED BY <1>1 DEF ReadsNotOlder, ReadAsOld

(* Steps that only change requests: what is left to show of the new ones.  *)
LEMMA RequestStep ==
    ASSUME SessionsInv, NEW c \in Calls,
           UNCHANGED <<row, cache, tokens, clock, behind, barredFor>>,
           retry' \in [Workers -> 0..Backoff], faults' \in 0..MaxFaults,
           call' \in [Calls -> Request],
           \A d \in Calls \ {c} : call'[d] = call[d],
           row.there /\ call'[c].pc = "admitted" /\ call'[c].op \in NeedsSession
              => call'[c].age <= TTL + Lag,
           ReadAsOld(call'[c])
    PROVE  SessionsInv'
<1>1. TypeOK'
  BY DEF SessionsInv, TypeOK
<1>2. RevocationReaches' /\ HistoriesExact'
  BY DEF SessionsInv, RevocationReaches, ReadAsGone, HistoriesExact
<1>3. AdmittedOnEvidence'
  BY DEF SessionsInv, AdmittedOnEvidence
<1>4. ReadsNotOlder'
  BY OthersKeepReads
<1> QED BY <1>1, <1>2, <1>3, <1>4 DEF SessionsInv

(* A request that ends, or is admitted on evidence, and changes nothing else. *)
LEMMA EndedKeepsInv ==
    ASSUME SessionsInv, NEW c \in Calls, Ended(c),
           UNCHANGED <<row, cache, tokens, clock, behind, barredFor>>,
           retry' \in [Workers -> 0..Backoff], faults' \in 0..MaxFaults
    PROVE  SessionsInv'
<1>1. TypeOK
  BY DEF SessionsInv
<1>2. /\ call' \in [Calls -> Request]
      /\ \A d \in Calls \ {c} : call'[d] = call[d]
      /\ call'[c].pc = "done" /\ call'[c].view.there
  BY <1>1, EndedFacts
<1>3. ReadAsOld(call'[c])
  BY <1>2, IdleReads
<1> QED BY <1>2, <1>3, RequestStep

LEMMA GoesKeepsInv ==
    ASSUME SessionsInv, NEW c \in Calls, NEW req \in Request, NEW admitted \in BOOLEAN,
           Goes(c, req, admitted), row.there /\ admitted => req.age <= TTL + Lag,
           row.there => req.view.there, ~req.view.there => req.view = Gone,
           UNCHANGED <<row, cache, tokens, clock, behind, barredFor>>,
           retry' \in [Workers -> 0..Backoff], faults' \in 0..MaxFaults
    PROVE  SessionsInv'
<1>1. TypeOK
  BY DEF SessionsInv
<1>2. /\ call' \in [Calls -> Request]
      /\ \A d \in Calls \ {c} : call'[d] = call[d]
      /\ call'[c].pc \in {"admitted", "done"}
      /\ call'[c].pc = "admitted" => admitted
      /\ call'[c].age = req.age /\ call'[c].view = req.view
  BY <1>1, GoesFacts
<1>3. ReadAsOld(call'[c])
  BY <1>2, IdleReads
<1> QED BY <1>2, <1>3, RequestStep

LEMMA InitSessionsInv == Init => SessionsInv
<1> SUFFICES ASSUME Init PROVE SessionsInv
  OBVIOUS
<1>1. TypeOK
  BY NumberFacts, NoRequestType DEF Init, TypeOK, Row, Bars, Entry, PastAll, Versions
<1>2. \A c \in Calls : /\ call[c] \in Request /\ call[c].pc = "new"
                       /\ call[c].op = "request" /\ call[c].view.there
  BY NoRequestType DEF Init, NoRequest
<1>3. RevocationReaches
  BY DEF Init, RevocationReaches
<1>4. HistoriesExact
  BY DEF Init, HistoriesExact
<1>5. ReadsNotOlder
  BY <1>2, IdleReads DEF ReadsNotOlder
<1> QED BY <1>1, <1>2, <1>3, <1>4, <1>5 DEF SessionsInv, AdmittedOnEvidence

(* The lookup: from the cache only while its deadline has not passed. *)
LEMMA ArriveKeepsInv ==
    ASSUME SessionsInv, NEW c \in Calls, NEW w \in Workers, NEW op \in Ops, NEW token \in tokens,
           Arrive(c, w, op, token)
    PROVE  SessionsInv'
<1> DEFINE req == [NoRequest EXCEPT !.op = op, !.worker = w, !.token = token, !.age = behind[token]]
           e == cache[w]
<1>1. TypeOK
  BY DEF SessionsInv
<1>2. /\ token \in Versions
      /\ behind[token] \in 0..clock /\ clock \in 0..MaxTime
      /\ behind[token] \in Nat
      /\ behind[token] \in 0..MaxTime
  BY <1>1, NumberFacts DEF TypeOK
<1>3. /\ req \in Request
      /\ req.worker = w /\ req.token = token /\ req.age = behind[token] /\ req.op = op
      /\ req.view.there
  BY <1>2, NoRequestType DEF Request, NoRequest
<1>4. e \in Entry /\ retry \in [Workers -> 0..Backoff] /\ faults \in 0..MaxFaults
  BY <1>1 DEF TypeOK
<1>5. UNCHANGED <<row, cache, retry, tokens, clock, faults, behind, barredFor>> /\ Check(c, req)
  BY DEF Arrive
<1> HIDE DEF req
<1>6. CASE e.left > 0 /\ Goes(c, req, Admits(e.version, e.disabled, req.token))
  <2>1. Admits(e.version, e.disabled, req.token) \in BOOLEAN
    BY <1>4 DEF Admits, Entry
  <2>2. ASSUME row.there, Admits(e.version, e.disabled, req.token) PROVE req.age <= TTL + Lag
    <3>1. e.version <= token
      BY <1>2, <1>3, <1>4, <2>2, NumberFacts DEF Admits, Entry, PastAll, Versions
    <3>2. behind[token] + e.left <= TTL + Lag
      BY <1>2, <1>6, <2>2, <3>1 DEF SessionsInv, RevocationReaches, ReadAsGone
    <3> QED BY <1>2, <1>3, <1>4, <3>2, NumberFacts DEF Entry
  <2> QED BY <1>3, <1>4, <1>5, <1>6, <2>1, <2>2, GoesKeepsInv
<1>7. CASE Goes(c, req, FALSE)
  BY <1>3, <1>4, <1>5, <1>7, GoesKeepsInv
<1>8. CASE call' = [call EXCEPT ![c] = [req EXCEPT !.pc = "asking", !.left = TTL]]
  <2>1. [req EXCEPT !.pc = "asking", !.left = TTL] \in Request
    <3>1. TTL \in 0..TTL
      BY NumberFacts
    <3> QED BY <1>3, <3>1 DEF Request
  <2>2. /\ call' \in [Calls -> Request]
        /\ \A d \in Calls \ {c} : call'[d] = call[d]
        /\ call'[c].pc = "asking" /\ call'[c].view.there
    BY <1>1, <1>3, <1>8, <2>1 DEF TypeOK, Request
  <2>3. ReadAsOld(call'[c])
    BY <2>2, IdleReads
  <2> QED BY <1>4, <1>5, <2>2, <2>3, RequestStep
<1> QED BY <1>3, <1>5, <1>6, <1>7, <1>8 DEF Check

LEMMA AskKeepsInv ==
    ASSUME SessionsInv, NEW c \in Calls, Ask(c)
    PROVE  SessionsInv'
<1>1. TypeOK
  BY DEF SessionsInv
<1>2. call[c] \in Request /\ row \in Row
  BY <1>1 DEF TypeOK
<1>3. /\ call[c].token \in Versions /\ call[c].left \in 0..TTL
      /\ behind[call[c].token] \in 0..MaxTime
      /\ \A v \in Versions : behind[v] \in Nat
  BY <1>1, <1>2, NumberFacts DEF TypeOK, Request
<1> DEFINE q == [call[c] EXCEPT !.pc = "asked", !.view = row, !.age = behind[call[c].token]]
<1>4. /\ q \in Request
      /\ q.pc = "asked" /\ q.view = row /\ q.age = behind[call[c].token]
      /\ q.token = call[c].token /\ q.left = call[c].left
  BY <1>2, <1>3 DEF Request
<1>5. call' = [call EXCEPT ![c] = q]
  BY <1>1, <1>2 DEF Ask, Request
<1> HIDE DEF q
<1>6. call' \in [Calls -> Request] /\ call'[c] = q /\ \A d \in Calls \ {c} : call'[d] = call[d]
  BY <1>1, <1>4, <1>5 DEF TypeOK
<1>7. row.there => \A v \in Versions : row.version <= v => behind[v] = 0
  BY DEF SessionsInv, HistoriesExact
<1>8. retry \in [Workers -> 0..Backoff] /\ faults \in 0..MaxFaults
  BY <1>1 DEF TypeOK
<1>9. row.there => \A v \in Versions : q.view.version <= v /\ q.left > 0 => behind[v] + q.left <= TTL
  BY <1>3, <1>4, <1>7, NumberFacts
<1>10. row.there /\ q.view.version <= q.token => q.age = 0
  BY <1>3, <1>4, <1>7
<1>11. ~row.there => row = Gone
  BY DEF SessionsInv, HistoriesExact
<1>12. ReadAsOld(q)
  BY <1>4, <1>9, <1>10, <1>11 DEF ReadAsOld
<1> QED BY <1>4, <1>6, <1>8, <1>12, RequestStep DEF Ask

LEMMA AskFailsKeepsInv ==
    ASSUME SessionsInv, NEW c \in Calls, AskFails(c)
    PROVE  SessionsInv'
<1>1. /\ call[c] \in Request
      /\ retry \in [Workers -> 0..Backoff]
      /\ faults \in 0..MaxFaults
  BY DEF SessionsInv, TypeOK
<1>2. retry' \in [Workers -> 0..Backoff]
  <2>1. Backoff \in 0..Backoff
    BY NumberFacts
  <2> QED BY <1>1, <2>1 DEF AskFails
<1>3. faults' \in 0..MaxFaults
  <2>1. faults < MaxFaults /\ faults' = faults + 1
    BY DEF AskFails
  <2> QED BY <1>1, <2>1, NumberFacts
<1>4. /\ row.there => call[c].view.there
      /\ ~call[c].view.there => call[c].view = Gone
  BY DEF SessionsInv, ReadsNotOlder, ReadAsOld
<1> QED BY <1>1, <1>2, <1>3, <1>4, GoesKeepsInv DEF AskFails

(* The answer of the SELECT goes into the cache under the deadline of the question. *)
LEMMA LearnKeepsInv ==
    ASSUME SessionsInv, NEW c \in Calls, Learn(c)
    PROVE  SessionsInv'
<1> DEFINE q == call[c]
           r == call[c].view
           n == [version |-> r.version, disabled |-> r.bars # {}, left |-> q.left]
<1>1. TypeOK
  BY DEF SessionsInv
<1>2. /\ q \in Request /\ q.pc = "asked"
      /\ r \in Row /\ r.version \in Versions /\ q.left \in 0..TTL
      /\ q.token \in Versions /\ q.age \in 0..MaxTime
  BY <1>1 DEF TypeOK, Request, Row, Learn
<1>3. /\ cache' = [cache EXCEPT ![q.worker] = n]
      /\ Goes(c, q, Admits(r.version, r.bars # {}, q.token))
      /\ UNCHANGED <<row, retry, tokens, clock, faults, behind, barredFor>>
  BY DEF Learn, Deadline
<1>4. /\ row.there => r.there
      /\ ~r.there => r = Gone
      /\ r.there =>
            /\ \A v \in Versions : r.version <= v /\ q.left > 0 => behind[v] + q.left <= TTL
            /\ r.version <= q.token => q.age = 0
  BY <1>2 DEF SessionsInv, ReadsNotOlder, ReadAsOld
<1>5. /\ n \in Entry /\ n.version = r.version /\ n.left = q.left
      /\ r = Gone => n.version = 0 /\ ~n.disabled
  <2>1. r.version \in 0..PastAll
    BY <1>2, NumberFacts DEF PastAll, Versions
  <2>2. n.disabled \in BOOLEAN /\ n \in Entry /\ n.version = r.version /\ n.left = q.left
    BY <1>2, <2>1 DEF Entry
  <2>3. ASSUME r = Gone PROVE n.version = 0 /\ ~n.disabled
    <3>1. r.version = 0 /\ r.bars = {}
      BY <2>3 DEF Gone
    <3> QED BY <3>1
  <2> QED BY <2>2, <2>3
<1> HIDE DEF q, r, n
<1>7. /\ call' \in [Calls -> Request]
      /\ \A d \in Calls \ {c} : call'[d] = call[d]
      /\ call'[c].pc \in {"admitted", "done"}
      /\ call'[c].pc = "admitted" => Admits(r.version, r.bars # {}, q.token)
      /\ call'[c].age = q.age /\ call'[c].view = r
  <2>1. Admits(r.version, r.bars # {}, q.token) \in BOOLEAN
    BY DEF Admits
  <2>2. q.view = r
    BY DEF q, r
  <2> QED BY <1>1, <1>2, <1>3, <2>1, <2>2, GoesFacts
<1>8. TypeOK'
  <2>1. cache \in [Workers -> Entry]
    BY <1>1 DEF TypeOK
  <2>2. cache' \in [Workers -> Entry]
    BY <1>3, <1>5, <2>1
  <2> QED BY <1>1, <1>3, <1>7, <2>2 DEF TypeOK
<1>9. RevocationReaches'
  <2> SUFFICES ASSUME NEW w \in Workers, NEW v \in Versions,
                      cache'[w].left > 0, cache'[w].version <= v
               PROVE  behind[v] + cache'[w].left <= TTL + Lag \/ ReadAsGone(cache'[w])
    BY <1>3 DEF RevocationReaches, ReadAsGone
  <2>1. cache \in [Workers -> Entry] /\ behind[v] \in Nat
    BY <1>1 DEF TypeOK
  <2>2. CASE w = q.worker
    <3>1. cache'[w] = n
      BY <1>3, <2>1, <2>2
    <3>2. CASE r.there
      <4>1. behind[v] + q.left <= TTL
        BY <1>4, <1>5, <3>1, <3>2
      <4> QED BY <1>2, <1>5, <2>1, <3>1, <4>1, NumberFacts
    <3>3. CASE ~r.there
      BY <1>4, <1>5, <3>1, <3>3 DEF ReadAsGone
    <3> QED BY <3>2, <3>3
  <2>3. CASE w # q.worker
    <3>1. cache'[w] = cache[w]
      BY <1>3, <2>1, <2>3
    <3> QED BY <3>1 DEF SessionsInv, RevocationReaches
  <2> QED BY <2>2, <2>3
<1>10. AdmittedOnEvidence'
  <2> SUFFICES ASSUME row.there, NEW d \in Calls,
                      call'[d].pc = "admitted", call'[d].op \in NeedsSession
               PROVE  call'[d].age <= TTL + Lag
    BY <1>3 DEF AdmittedOnEvidence
  <2>1. CASE d = c
    <3>1. r.version <= q.token
      BY <1>2, <1>7, <2>1 DEF Admits, Versions
    <3> QED BY <1>4, <1>7, <2>1, <3>1, NumberFacts
  <2>2. CASE d # c
    BY <1>7, <2>2 DEF SessionsInv, AdmittedOnEvidence
  <2> QED BY <2>1, <2>2
<1>11. HistoriesExact'
  BY <1>3 DEF SessionsInv, HistoriesExact
<1>12. ReadsNotOlder'
  <2>1. ReadAsOld(call'[c])
    BY <1>4, <1>7, IdleReads
  <2> QED BY <1>3, <1>7, <2>1, OthersKeepReads
<1> QED BY <1>8, <1>9, <1>10, <1>11, <1>12 DEF SessionsInv

(* The handler loads the user: what it sees is as the row is. *)
LEMMA LoadKeepsInv ==
    ASSUME SessionsInv, NEW c \in Calls, NEW req \in Request, Load(c, req)
    PROVE  SessionsInv'
<1> DEFINE q == [req EXCEPT !.pc = "loaded", !.view = row]
<1>1. TypeOK
  BY DEF SessionsInv
<1>2. retry \in [Workers -> 0..Backoff] /\ faults \in 0..MaxFaults /\ row \in Row
  BY <1>1 DEF TypeOK
<1>3. UNCHANGED <<row, cache, retry, tokens, clock, faults, behind, barredFor>>
  BY DEF Load
<1>4. CASE Ended(c)
  BY <1>2, <1>3, <1>4, EndedKeepsInv
<1>5. CASE row.there /\ Accepts(req.op, row) /\ row.version < MaxVersion /\ call' = [call EXCEPT ![c] = q]
  <2>1. /\ q \in Request /\ q.pc = "loaded" /\ q.view = row
        /\ q.op = req.op /\ q.lag \in Nat
    <3>1. /\ q \in Request /\ q.pc = "loaded" /\ q.view = row
          /\ q.op = req.op /\ q.lag = req.lag
      BY <1>2 DEF Request
    <3>2. req.lag \in 0..Lag
      BY DEF Request
    <3> QED BY <3>1, <3>2, NumberFacts
  <2>2. q.op = "google" => barredFor <= q.lag
    <3>1. q.op = "google" => row.bars = {}
      BY <1>5, <2>1 DEF Accepts, RefusesBarred
    <3> QED BY <1>5, <2>1, <3>1 DEF SessionsInv, HistoriesExact
  <2> HIDE DEF q
  <2>3. call' \in [Calls -> Request] /\ call'[c] = q /\ \A d \in Calls \ {c} : call'[d] = call[d]
    BY <1>1, <1>5, <2>1 DEF TypeOK
  <2>4. ReadAsOld(q)
    BY <1>5, <2>1, <2>2 DEF ReadAsOld
  <2> QED BY <1>2, <1>3, <1>5, <2>1, <2>3, <2>4, RequestStep
<1> QED BY <1>4, <1>5 DEF Load

LEMMA OpenKeepsInv ==
    ASSUME SessionsInv, NEW c \in Calls, NEW w \in Workers, NEW op \in Ops, Open(c, w, op)
    PROVE  SessionsInv'
<1>1. [NoRequest EXCEPT !.op = op, !.worker = w] \in Request
  BY NoRequestType DEF Request
<1> QED BY <1>1, LoadKeepsInv DEF Open

LEMMA ProceedKeepsInv ==
    ASSUME SessionsInv, NEW c \in Calls, Proceed(c)
    PROVE  SessionsInv'
BY LoadKeepsInv DEF Proceed, SessionsInv, TypeOK

(* The UPDATE: whatever number it writes, the histories only shrink. *)
LEMMA CommitKeepsInv ==
    ASSUME SessionsInv, NEW c \in Calls, Commit(c)
    PROVE  SessionsInv'
<1> DEFINE q == call[c]
           r == Written(q.op, q.view)
<1>1. TypeOK
  BY DEF SessionsInv
<1>2. /\ q \in Request /\ q.pc = "loaded"
      /\ q.view \in Row /\ q.view.version \in Nat /\ q.view.version < MaxVersion
      /\ row \in Row
  BY <1>1 DEF TypeOK, Request, Row, Versions, Commit, SessionsInv, ReadsNotOlder, ReadAsOld
<1>3. r \in Row /\ (~r.there => r = Gone) /\ (r.there => row.there)
  <2>0. CASE q.op = "delete"
    BY <2>0, NumberFacts DEF Written, Gone, Row, Bars, Versions
  <2>1. q.view.version + 1 \in Versions
    BY <1>2, NumberFacts DEF Versions
  <2>2. row.version \in Versions /\ row.bars \in Bars
    BY <1>2 DEF Row
  <2>3. CASE q.op # "delete"
    <3>1. row.there /\ r.there
      BY <1>2, <2>3 DEF Commit, NeedsRow, Written, Row
    <3>2. r.bars \in Bars
      BY <1>2, <2>2, <2>3 DEF Written, Bars, Row
    <3>3. r.version \in Versions
      BY <1>2, <2>1, <2>2, <2>3 DEF Written, Row
    <3>4. r = [version |-> r.version, bars |-> r.bars, there |-> r.there]
      BY <1>2, <2>3 DEF Written, Row
    <3> QED BY <3>1, <3>2, <3>3, <3>4 DEF Row
  <2> QED BY <2>0, <2>3
<1>4. /\ row' = r
      /\ behind' = [v \in Versions |-> IF r.there /\ r.version <= v THEN 0 ELSE behind[v]]
      /\ barredFor' = IF r.there /\ r.bars = {} THEN 0 ELSE barredFor
      /\ call' = [call EXCEPT ![c] = [q EXCEPT !.pc = "saved"]]
      /\ UNCHANGED <<cache, retry, tokens, clock, faults>>
  BY <1>1, <1>2 DEF Commit
<1>5. /\ [q EXCEPT !.pc = "saved"] \in Request
      /\ [q EXCEPT !.pc = "saved"].pc = "saved"
      /\ [q EXCEPT !.pc = "saved"].op = q.op
      /\ [q EXCEPT !.pc = "saved"].lag = q.lag
      /\ [q EXCEPT !.pc = "saved"].view = q.view
  BY <1>2 DEF Request
<1>6. r.version \in Nat
  BY <1>3 DEF Row, Versions
<1> HIDE DEF q, r
<1>7. /\ call' \in [Calls -> Request]
      /\ \A d \in Calls \ {c} : call'[d] = call[d]
      /\ call'[c].pc = "saved" /\ call'[c].op = q.op /\ call'[c].lag = q.lag
      /\ call'[c].view = q.view
  BY <1>1, <1>4, <1>5 DEF TypeOK
<1>8. /\ behind \in [Versions -> 0..clock] /\ clock \in Nat /\ barredFor \in 0..clock
      /\ \A v \in Versions : behind[v] \in Nat /\ v \in Nat
      /\ barredFor \in Nat
  BY <1>1 DEF TypeOK, Versions
<1>9. /\ \A v \in Versions : behind'[v] \in 0..clock /\ behind'[v] <= behind[v]
      /\ barredFor' \in 0..clock /\ barredFor' <= barredFor
      /\ barredFor' \in Nat /\ \A v \in Versions : behind'[v] \in Nat
  BY <1>4, <1>8
<1>10. TypeOK'
  BY <1>1, <1>3, <1>4, <1>7, <1>9 DEF TypeOK
<1>11. RevocationReaches'
  <2> SUFFICES ASSUME NEW w \in Workers, NEW v \in Versions, cache[w].left > 0, cache[w].version <= v
               PROVE  behind'[v] + cache[w].left <= TTL + Lag \/ ReadAsGone(cache[w])'
    BY <1>4 DEF RevocationReaches, ReadAsGone
  <2>0. CASE ReadAsGone(cache[w])
    BY <1>3, <1>4, <2>0 DEF ReadAsGone
  <2>1. CASE behind[v] + cache[w].left <= TTL + Lag
    <3>1. cache[w].left \in Nat
      BY <1>1 DEF TypeOK, Entry
    <3> QED BY <1>8, <1>9, <2>1, <3>1, NumberFacts
  <2> QED BY <2>0, <2>1 DEF SessionsInv, RevocationReaches
<1>12. AdmittedOnEvidence'
  BY <1>3, <1>4, <1>7 DEF SessionsInv, AdmittedOnEvidence
<1>13. HistoriesExact'
  BY <1>3, <1>4, <1>6, <1>8 DEF HistoriesExact
<1>14. ReadsNotOlder'
  <2> SUFFICES ASSUME NEW d \in Calls
               PROVE  ReadAsOld(call[d])'
    BY DEF ReadsNotOlder
  <2>1. ReadAsOld(call[d])
    BY DEF SessionsInv, ReadsNotOlder
  <2>2. call[d] \in Request /\ call[d].lag \in Nat /\ call[d].left \in Nat
    BY <1>1, NumberFacts DEF TypeOK, Request
  <2>3. barredFor <= call[d].lag => barredFor' <= call[d].lag
    BY <1>8, <1>9, <2>2
  <2>4. row'.there => row.there
    BY <1>3, <1>4
  <2>5. CASE d = c
    BY <1>2, <1>7, <2>1, <2>3, <2>4, <2>5 DEF ReadAsOld, q
  <2>6. CASE d # c
    <3>1. call'[d] = call[d]
      BY <1>7, <2>6
    <3>2. \A v \in Versions : behind[v] + call[d].left <= TTL => behind'[v] + call[d].left <= TTL
      BY <1>8, <1>9, <2>2, NumberFacts
    <3>3. \A v \in Versions : behind[v] <= call[d].lag => behind'[v] <= call[d].lag
      BY <1>8, <1>9, <2>2
    <3> QED BY <2>1, <2>3, <2>4, <3>1, <3>2, <3>3 DEF ReadAsOld
  <2> QED BY <2>5, <2>6
<1> QED BY <1>10, <1>11, <1>12, <1>13, <1>14 DEF SessionsInv

(* Google's door gives its cookie although its commit failed, or its reading. *)
LEMMA CommitFailsKeepsInv ==
    ASSUME SessionsInv, NEW c \in Calls, CommitFails(c)
    PROVE  SessionsInv'
<1>1. TypeOK
  BY DEF SessionsInv
<1>2. /\ call[c] \in Request /\ call[c].view \in Row
      /\ call[c].view.version < MaxVersion
  BY <1>1 DEF TypeOK, Request, CommitFails, SessionsInv, ReadsNotOlder, ReadAsOld
<1>3. call[c].view.version + 1 \in Versions
  BY <1>2, NumberFacts DEF Row, Versions
<1>4. /\ Ended(c)
      /\ UNCHANGED <<row, cache, retry, clock, behind, barredFor>>
      /\ tokens' = tokens \/ tokens' = tokens \cup {call[c].view.version + 1}
      /\ (faults < MaxFaults /\ faults' = faults + 1) \/ faults' = faults
  BY DEF CommitFails
<1>5. faults' \in 0..MaxFaults
  BY <1>1, <1>4, NumberFacts DEF TypeOK
<1>6. tokens' \subseteq Versions
  BY <1>1, <1>3, <1>4 DEF TypeOK
<1>7. /\ call' \in [Calls -> Request]
      /\ \A d \in Calls \ {c} : call'[d] = call[d]
      /\ call'[c].pc = "done" /\ call'[c].view.there
  BY <1>1, <1>4, EndedFacts
<1>8. TypeOK'
  BY <1>1, <1>4, <1>5, <1>6, <1>7 DEF TypeOK
<1>9. RevocationReaches' /\ HistoriesExact'
  BY <1>4 DEF SessionsInv, RevocationReaches, ReadAsGone, HistoriesExact
<1>10. AdmittedOnEvidence'
  BY <1>4, <1>7 DEF SessionsInv, AdmittedOnEvidence
<1>11. ReadsNotOlder'
  <2>1. ReadAsOld(call'[c])
    BY <1>7, IdleReads
  <2> QED BY <1>4, <1>7, <2>1, OthersKeepReads
<1> QED BY <1>8, <1>9, <1>10, <1>11 DEF SessionsInv

(* The user is read again after the commit: as the row is by now. *)
LEMMA RefreshKeepsInv ==
    ASSUME SessionsInv, NEW c \in Calls, Refresh(c)
    PROVE  SessionsInv'
<1> DEFINE t == IF call[c].op = "google" THEN call[c].view.version + 1 ELSE row.version
           q == [call[c] EXCEPT !.pc = "fresh", !.view = row, !.token = t]
<1>1. TypeOK
  BY DEF SessionsInv
<1>2. /\ call[c] \in Request /\ call[c].pc = "saved" /\ call[c].view \in Row
      /\ call[c].view.version < MaxVersion
      /\ row \in Row /\ row.there /\ call[c].lag \in 0..Lag
  BY <1>1 DEF TypeOK, Request, Refresh, SessionsInv, ReadsNotOlder, ReadAsOld
<1>3. t \in Versions
  BY <1>2, NumberFacts DEF Row, Versions
<1> HIDE DEF t
<1>4. /\ q \in Request /\ q.pc = "fresh" /\ q.view = row
      /\ q.op = call[c].op /\ q.lag = call[c].lag
  BY <1>2, <1>3 DEF Request
<1>5. call' = [call EXCEPT ![c] = q]
  BY <1>1, <1>2 DEF Refresh, Request, t
<1> HIDE DEF q
<1>6. call' \in [Calls -> Request] /\ call'[c] = q /\ \A d \in Calls \ {c} : call'[d] = call[d]
  BY <1>1, <1>4, <1>5 DEF TypeOK
<1>7. retry \in [Workers -> 0..Backoff] /\ faults \in 0..MaxFaults
  BY <1>1 DEF TypeOK
<1>8. /\ \A v \in Versions : q.view.version <= v => behind[v] <= q.lag
      /\ q.view.bars = {} => barredFor <= q.lag
  BY <1>2, <1>4, NumberFacts DEF SessionsInv, HistoriesExact
<1>9. q.op = "google" => barredFor <= q.lag
  BY <1>2, <1>4 DEF SessionsInv, ReadsNotOlder, ReadAsOld
<1>10. ReadAsOld(q)
  BY <1>2, <1>4, <1>8, <1>9 DEF ReadAsOld
<1> QED BY <1>4, <1>6, <1>7, <1>10, RequestStep DEF Refresh

(* The new entry is as old as the reading, which is no older than the handler. *)
LEMMA NoteKeepsInv ==
    ASSUME SessionsInv, NEW c \in Calls, Note(c)
    PROVE  SessionsInv'
<1> DEFINE q == call[c]
           n == Noted(q)
<1>1. TypeOK
  BY DEF SessionsInv
<1>2. /\ q \in Request /\ q.view \in Row
      /\ q.op # "delete" => q.pc = "fresh"
      /\ q.token \in Versions /\ q.lag \in 0..Lag
  BY <1>1 DEF TypeOK, Request, Note, NeedsRow
<1>3. /\ cache' = [cache EXCEPT ![q.worker] = n]
      /\ tokens' = tokens \cup Minted(q)
      /\ Ended(c)
      /\ UNCHANGED <<row, retry, clock, faults, behind, barredFor>>
  BY DEF Note
<1>4. q.op # "delete" => \A v \in Versions : q.view.version <= v => behind[v] <= q.lag
  BY <1>2 DEF SessionsInv, ReadsNotOlder, ReadAsOld
<1>5. /\ n \in Entry /\ n.left = TTL
      /\ \A v \in Versions : n.version <= v => q.op # "delete" /\ n.version = q.view.version
  <2>1. NotedDisabled(q.op, q.view) \in BOOLEAN
    BY DEF NotedDisabled
  <2>2. TTL \in 0..TTL
    BY NumberFacts
  <2>3. q.view.version \in 0..PastAll /\ PastAll \in 0..PastAll
    BY <1>2, NumberFacts DEF Row, Versions, PastAll
  <2>4. \A v \in Versions : ~(PastAll <= v)
    BY NumberFacts DEF Versions, PastAll
  <2>5. CASE q.op = "delete"
    BY <2>2, <2>3, <2>4, <2>5 DEF Entry, Noted
  <2>6. CASE q.op # "delete"
    BY <2>1, <2>2, <2>3, <2>6 DEF Entry, Noted
  <2> QED BY <2>5, <2>6
<1>6. Minted(q) \subseteq Versions
  BY <1>2 DEF Minted
<1> HIDE DEF q, n
<1>7. /\ call' \in [Calls -> Request]
      /\ \A d \in Calls \ {c} : call'[d] = call[d]
      /\ call'[c].pc = "done" /\ call'[c].view.there
  BY <1>1, <1>3, EndedFacts
<1>8. cache \in [Workers -> Entry] /\ cache' \in [Workers -> Entry]
  BY <1>1, <1>3, <1>5 DEF TypeOK
<1>9. TypeOK'
  BY <1>1, <1>3, <1>6, <1>7, <1>8 DEF TypeOK
<1>10. RevocationReaches'
  <2> SUFFICES ASSUME NEW w \in Workers, NEW v \in Versions,
                      cache'[w].left > 0, cache'[w].version <= v
               PROVE  behind[v] + cache'[w].left <= TTL + Lag \/ ReadAsGone(cache'[w])
    BY <1>3 DEF RevocationReaches, ReadAsGone
  <2>1. behind[v] \in Nat
    BY <1>1 DEF TypeOK
  <2>2. CASE w = q.worker
    <3>1. cache'[w] = n
      BY <1>3, <1>8, <2>2
    <3>2. behind[v] <= q.lag
      BY <1>4, <1>5, <3>1
    <3> QED BY <1>2, <1>5, <2>1, <3>1, <3>2, NumberFacts
  <2>3. CASE w # q.worker
    <3>1. cache'[w] = cache[w]
      BY <1>3, <1>8, <2>3
    <3> QED BY <3>1 DEF SessionsInv, RevocationReaches, ReadAsGone
  <2> QED BY <2>2, <2>3
<1>11. AdmittedOnEvidence'
  BY <1>3, <1>7 DEF SessionsInv, AdmittedOnEvidence
<1>12. HistoriesExact'
  BY <1>3 DEF SessionsInv, HistoriesExact
<1>13. ReadsNotOlder'
  <2>1. ReadAsOld(call'[c])
    BY <1>7, IdleReads
  <2> QED BY <1>3, <1>7, <2>1, OthersKeepReads
<1> QED BY <1>9, <1>10, <1>11, <1>12, <1>13 DEF SessionsInv

(* A tick: what counts down goes down as the histories go up. *)
LEMMA TickKeepsInv ==
    ASSUME SessionsInv, Tick
    PROVE  SessionsInv'
<1> DEFINE Aged(c) == [call[c] EXCEPT !.left = Less(call[c].left),
                                      !.lag = IF InHandler(c) THEN call[c].lag + 1 ELSE call[c].lag]
<1>1. TypeOK
  BY DEF SessionsInv
<1>2. /\ clock < MaxTime /\ clock' = clock + 1
      /\ \A c \in Calls : InHandler(c) => call[c].lag < Lag
      /\ cache' = [w \in Workers |-> [cache[w] EXCEPT !.left = Less(cache[w].left)]]
      /\ retry' = [w \in Workers |-> Less(retry[w])]
      /\ call' = [c \in Calls |-> Aged(c)]
      /\ behind' = [v \in Versions |-> IF row.there /\ row.version <= v THEN 0 ELSE behind[v] + 1]
      /\ barredFor' = IF row.there /\ row.bars = {} THEN 0 ELSE barredFor + 1
      /\ UNCHANGED <<row, tokens, faults>>
  BY DEF Tick
<1>3. /\ clock \in Nat /\ clock' \in 0..MaxTime /\ clock' \in Nat
      /\ barredFor \in 0..clock
      /\ \A v \in Versions : behind[v] \in 0..clock
      /\ row.version \in Nat
  <2>1. /\ row \in Row /\ behind \in [Versions -> 0..clock] /\ barredFor \in 0..clock
        /\ clock \in 0..MaxTime
    BY <1>1 DEF TypeOK
  <2>2. row.version \in Nat
    BY <2>1 DEF Row, Versions
  <2>3. clock \in Nat /\ clock' \in 0..MaxTime /\ clock' \in Nat
    <3>1. clock < MaxTime /\ clock' = clock + 1
      BY <1>2
    <3> QED BY <2>1, <3>1, NumberFacts
  <2> QED BY <2>1, <2>2, <2>3
<1>4. /\ \A v \in Versions : /\ behind[v] \in Nat /\ behind'[v] \in 0..clock'
                             /\ behind'[v] \in Nat /\ behind'[v] <= behind[v] + 1
      /\ barredFor \in Nat /\ barredFor' \in Nat
      /\ barredFor' \in 0..clock' /\ barredFor' <= barredFor + 1
  <2>1. clock' = clock + 1 /\ barredFor' = IF row.there /\ row.bars = {} THEN 0 ELSE barredFor + 1
    BY <1>2
  <2>2. /\ barredFor \in Nat /\ barredFor' \in Nat
        /\ barredFor' \in 0..clock' /\ barredFor' <= barredFor + 1
    BY <1>3, <2>1
  <2>3. ASSUME NEW v \in Versions
        PROVE  /\ behind[v] \in Nat /\ behind'[v] \in 0..clock'
               /\ behind'[v] \in Nat /\ behind'[v] <= behind[v] + 1
    <3>1. behind'[v] = IF row.there /\ row.version <= v THEN 0 ELSE behind[v] + 1
      BY <1>2
    <3>2. behind'[v] = behind[v] + 1 \/ behind'[v] = 0
      BY <3>1
    <3>3. behind[v] \in 0..clock
      BY <1>3
    <3> QED BY <1>3, <2>1, <3>2, <3>3
  <2> QED BY <2>2, <2>3
<1>5. \A w \in Workers :
         /\ cache[w] \in Entry /\ cache'[w] \in Entry
         /\ cache'[w].version = cache[w].version /\ cache'[w].disabled = cache[w].disabled
         /\ cache[w].left \in Nat
         /\ cache'[w].left > 0 => cache'[w].left = cache[w].left - 1
  <2> TAKE w \in Workers
  <2>1. cache[w] \in Entry /\ cache[w].left \in 0..TTL
    BY <1>1 DEF TypeOK, Entry
  <2>2. Less(cache[w].left) \in 0..TTL /\ (Less(cache[w].left) > 0 => Less(cache[w].left) = cache[w].left - 1)
    BY <2>1, NumberFacts, LessFacts
  <2>3. cache'[w] = [cache[w] EXCEPT !.left = Less(cache[w].left)]
    BY <1>2
  <2>4. cache[w].left \in Nat
    BY <2>1, NumberFacts
  <2> QED BY <2>1, <2>2, <2>3, <2>4 DEF Entry
<1>6. \A c \in Calls :
         /\ call[c] \in Request /\ call'[c] \in Request
         /\ call'[c].pc = call[c].pc /\ call'[c].op = call[c].op /\ call'[c].view = call[c].view
         /\ call'[c].token = call[c].token /\ call'[c].age = call[c].age
         /\ call[c].left \in Nat /\ call[c].lag \in Nat
         /\ call'[c].left > 0 => call'[c].left = call[c].left - 1
         /\ InHandler(c) => call'[c].lag = call[c].lag + 1
  <2> TAKE c \in Calls
  <2>1. call[c] \in Request /\ call[c].left \in 0..TTL /\ call[c].lag \in 0..Lag
    BY <1>1 DEF TypeOK, Request
  <2>2. Less(call[c].left) \in 0..TTL /\ (Less(call[c].left) > 0 => Less(call[c].left) = call[c].left - 1)
    BY <2>1, NumberFacts, LessFacts
  <2> DEFINE l == IF InHandler(c) THEN call[c].lag + 1 ELSE call[c].lag
  <2>3. l \in 0..Lag
    <3>1. CASE InHandler(c)
      <4>1. call[c].lag < Lag /\ l = call[c].lag + 1
        BY <1>2, <3>1
      <4> QED BY <2>1, <4>1, NumberFacts
    <3>2. CASE ~InHandler(c)
      BY <2>1, <3>2
    <3> QED BY <3>1, <3>2
  <2>4. InHandler(c) => l = call[c].lag + 1
    OBVIOUS
  <2>5. call'[c] = [call[c] EXCEPT !.left = Less(call[c].left), !.lag = l]
    BY <1>2
  <2>6. call[c].left \in Nat /\ call[c].lag \in Nat
    BY <2>1, NumberFacts
  <2> HIDE DEF l
  <2> QED BY <2>1, <2>2, <2>3, <2>4, <2>5, <2>6 DEF Request
<1>7. TypeOK'
  <2>1. cache' \in [Workers -> Entry]
    BY <1>2, <1>5
  <2>2. retry' \in [Workers -> 0..Backoff]
    <3>1. \A w \in Workers : Less(retry[w]) \in 0..Backoff
      BY <1>1, NumberFacts, LessFacts DEF TypeOK
    <3> QED BY <1>2, <3>1
  <2>3. call' \in [Calls -> Request]
    BY <1>2, <1>6
  <2>4. behind' \in [Versions -> 0..clock']
    BY <1>2, <1>4
  <2> QED BY <1>1, <1>2, <1>3, <1>4, <2>1, <2>2, <2>3, <2>4 DEF TypeOK
<1>8. RevocationReaches'
  <2> SUFFICES ASSUME NEW w \in Workers, NEW v \in Versions,
                      cache'[w].left > 0, cache'[w].version <= v
               PROVE  behind'[v] + cache'[w].left <= TTL + Lag \/ ReadAsGone(cache[w])'
    BY DEF RevocationReaches, ReadAsGone
  <2>1. cache[w].left > 0 /\ cache[w].version <= v /\ cache'[w].left = cache[w].left - 1
    BY <1>5
  <2>2. CASE behind[v] + cache[w].left <= TTL + Lag
    BY <1>4, <1>5, <2>1, <2>2, NumberFacts
  <2>3. CASE ReadAsGone(cache[w])
    BY <1>2, <1>5, <2>3 DEF ReadAsGone
  <2> QED BY <2>1, <2>2, <2>3 DEF SessionsInv, RevocationReaches
<1>9. AdmittedOnEvidence'
  BY <1>2, <1>6 DEF SessionsInv, AdmittedOnEvidence
<1>10. HistoriesExact'
  <2>1. ASSUME row.there, NEW v \in Versions, row.version <= v PROVE behind'[v] = 0
    BY <1>2, <2>1
  <2>2. row' = row /\ (row.there /\ row.bars = {} => barredFor' = 0)
    BY <1>2
  <2> QED BY <2>1, <2>2 DEF SessionsInv, HistoriesExact
<1>11. ReadsNotOlder'
  <2> SUFFICES ASSUME NEW d \in Calls
               PROVE  ReadAsOld(call[d])'
    BY DEF ReadsNotOlder
  <2>1. ReadAsOld(call[d])
    BY DEF SessionsInv, ReadsNotOlder
  <2>2. ASSUME NEW v \in Versions, call'[d].left > 0, behind[v] + call[d].left <= TTL
        PROVE  behind'[v] + call'[d].left <= TTL
    BY <1>4, <1>6, <2>2, NumberFacts
  <2>3. ASSUME call[d].pc \in {"loaded", "saved", "fresh"}, NEW v \in Versions, behind[v] <= call[d].lag
        PROVE  behind'[v] <= call'[d].lag
    BY <1>4, <1>6, <2>3 DEF InHandler
  <2>4. ASSUME call[d].pc \in {"loaded", "saved", "fresh"}, barredFor <= call[d].lag
        PROVE  barredFor' <= call'[d].lag
    BY <1>4, <1>6, <2>4 DEF InHandler
  <2>5. call'[d].left > 0 => call[d].left > 0
    BY <1>6
  <2> QED BY <1>2, <1>6, <2>1, <2>2, <2>3, <2>4, <2>5 DEF ReadAsOld
<1> QED BY <1>7, <1>8, <1>9, <1>10, <1>11 DEF SessionsInv

LEMMA NextKeepsInv == SessionsInv /\ [Next]_vars => SessionsInv'
<1> SUFFICES ASSUME SessionsInv, [Next]_vars
             PROVE  SessionsInv'
  OBVIOUS
<1>1. Offered \subseteq Ops
  BY ConstantsAssumption DEF ConstantsAssumption
<1>2. CASE \E c \in Calls, w \in Workers, op \in Offered \cap NeedsSession, v \in tokens :
              Arrive(c, w, op, v)
  BY <1>1, <1>2, ArriveKeepsInv
<1>3. CASE \E c \in Calls, w \in Workers, op \in Offered \ NeedsSession : Open(c, w, op)
  BY <1>1, <1>3, OpenKeepsInv
<1>4. ASSUME NEW c \in Calls,
             \/ Ask(c) \/ AskFails(c) \/ Learn(c)
             \/ Proceed(c) \/ Commit(c) \/ CommitFails(c) \/ Refresh(c) \/ Note(c)
      PROVE  SessionsInv'
  BY <1>4, AskKeepsInv, AskFailsKeepsInv, LearnKeepsInv, ProceedKeepsInv, CommitKeepsInv,
     CommitFailsKeepsInv, RefreshKeepsInv, NoteKeepsInv
<1>5. CASE Tick
  BY <1>5, TickKeepsInv
<1>6. CASE UNCHANGED vars
  BY <1>6 DEF vars, SessionsInv, TypeOK, RevocationReaches, ReadAsGone, AdmittedOnEvidence,
              HistoriesExact, ReadsNotOlder, ReadAsOld
<1> QED BY <1>2, <1>3, <1>4, <1>5, <1>6 DEF Next

-----------------------------------------------------------------------------
(* The inductive invariant holds: every value keeps its type, and the age  *)
(* of what is on its way to a cache is what its deadline says              *)
(* (security.py:account_state).                                            *)
THEOREM SessionsInvTheorem == Spec => []SessionsInv
<1>1. Init => SessionsInv
  BY InitSessionsInv
<1>2. SessionsInv /\ [Next]_vars => SessionsInv'
  BY NextKeepsInv
<1> QED BY <1>1, <1>2, PTL DEF Spec

(* Every variable keeps the type the code gives it (security.py, models/user.py). *)
THEOREM TypeCorrect == Spec => []TypeOK
<1>1. SessionsInv => TypeOK
  BY DEF SessionsInv
<1> QED BY <1>1, SessionsInvTheorem, PTL

(* A revocation reaches every worker within TTL and the time a handler     *)
(* takes, for any number of workers and overlapping requests; only the     *)
(* answer that a deleted account has no row is excepted                    *)
(* (security.py:account_state, note_revocation).                           *)
THEOREM RevocationInTime == Spec => []RevocationReaches
<1>1. SessionsInv => RevocationReaches
  BY DEF SessionsInv
<1> QED BY <1>1, SessionsInvTheorem, PTL

(* As long as the account has a row, no cookie is let in whose version the *)
(* row had counted past earlier than that, also while the database cannot  *)
(* be asked (security.py:verify_session_token).                            *)
THEOREM EvidenceIsRecent == Spec => []AdmittedOnEvidence
<1>1. SessionsInv => AdmittedOnEvidence
  BY DEF SessionsInv
<1> QED BY <1>1, SessionsInvTheorem, PTL

(* No cookie is handed out for an account barred or deleted for longer     *)
(* than a handler takes (routers/auth.py:_payload_for).                    *)
THEOREM NoLateCookie == Spec => NoCookieLongAfterBar
<1>1. ASSUME SessionsInv, NEW c \in Calls, Gives(c)
      PROVE  barredFor <= Lag
  <2>1. call[c] \in Request /\ call[c].lag \in 0..Lag /\ barredFor \in Nat
    BY <1>1 DEF SessionsInv, TypeOK, Request
  <2>2. ReadAsOld(call[c])
    BY <1>1 DEF SessionsInv, ReadsNotOlder
  <2>3. barredFor <= call[c].lag
    <3>1. CASE CommitFails(c) /\ call[c].op = "google"
      BY <2>2, <3>1 DEF CommitFails, ReadAsOld
    <3>2. CASE Note(c) /\ Minted(call[c]) # {}
      BY <2>2, <3>2 DEF Note, NeedsRow, Minted, Mints, ReadAsOld
    <3> QED BY <1>1, <3>1, <3>2 DEF Gives
  <2> QED BY <2>1, <2>3, NumberFacts
<1>2. SessionsInv /\ [Next]_vars => [\A c \in Calls : Gives(c) => barredFor <= Lag]_vars
  BY <1>1
<1> QED BY <1>2, SessionsInvTheorem, PTL DEF Spec, NoCookieLongAfterBar
=============================================================================
