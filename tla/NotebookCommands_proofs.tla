----------------------- MODULE NotebookCommands_proofs -----------------------
(***************************************************************************)
(* Proofs about the notebook's commands for any requests, keys and entries.*)
(*                                                                         *)
(* The argument: a request between its reservation and its end holds its   *)
(* key row, whose key is not stored (KeyHeld); one admitted to change an   *)
(* entry also holds that entry, as it saw it and not gone (EntryHeld).  So *)
(* nobody commits under a key that is stored, and nobody writes an entry   *)
(* from a stale view.                                                      *)
(***************************************************************************)
EXTENDS NotebookCommands, TLAPS

KeyHeld ==
    \A q \in Requests : request[q].pc \in {"reserved", "admitted"} =>
        keyLock[KeyOf[q]] = q /\ Reservable(KeyOf[q])

EntryHeld ==
    \A q \in Requests : At(q, "admitted") =>
        /\ ~ForStudent(q)
        /\ Op(q) # "attach" => /\ entryLock[Entered(q)] = q
                               /\ request[q].seen = entries[Entered(q)]
                               /\ ~Gone(Entered(q))
        /\ Op(q) = "update" => request[q].seen.version = CommandOf[q].body

(* A stored key answers with a change that was made under it. *)
StoredIsMade ==
    \A k \in Keys : keys[k].state = "stored" =>
        \E c \in changes : /\ c.key = k
                           /\ c.command = keys[k].command
                           /\ c.response = keys[k].response

(* A change of a key's present life was made only if the key is stored. *)
MadeIsStored ==
    \A c \in changes :
        /\ c.use <= keys[c.key].use
        /\ c.use = keys[c.key].use => keys[c.key].state = "stored"

CommandsInv ==
    /\ TypeOK
    /\ KeyHeld
    /\ EntryHeld
    /\ StoredIsMade
    /\ MadeIsStored
    /\ OncePerKey
    /\ SuccessIsReal
    /\ UpdatesFollowTheirVersion

-----------------------------------------------------------------------------
(* A request's key, command and entry are what the constants say. *)
LEMMA RequestTypes ==
    ASSUME NEW q \in Requests
    PROVE  /\ KeyOf[q] \in Keys
           /\ CommandOf[q] \in Command
           /\ Op(q) \in Ops
           /\ Entered(q) \in Entries
           /\ CommandOf[q].body \in Nat
           /\ q # Nobody
BY ConstantsAssumption DEF Command, Op, Entered

(* Before any request nothing is stored, held or answered. *)
LEMMA InitInv == Init => CommandsInv
<1> SUFFICES ASSUME Init PROVE CommandsInv
  OBVIOUS
<1>1. TypeOK
  BY ConstantsAssumption
  DEF Init, TypeOK, Entry, NoEntry, FreeKey, Answer
<1>2. KeyHeld /\ EntryHeld /\ StoredIsMade /\ MadeIsStored
  BY DEF Init, KeyHeld, EntryHeld, StoredIsMade, MadeIsStored, At
<1>3. OncePerKey /\ SuccessIsReal /\ UpdatesFollowTheirVersion
  BY DEF Init, OncePerKey, SuccessIsReal, UpdatesFollowTheirVersion
<1>. QED BY <1>1, <1>2, <1>3 DEF CommandsInv

(* An answer ends its request and no other. *)
LEMMA AnsweredTypes ==
    ASSUME TypeOK, NEW q \in Requests, NEW a \in Answer, Answered(q, a)
    PROVE  /\ request' \in [Requests -> [pc : {"start", "reserved", "admitted", "done"},
                                         seen : Entry, answer : Answer]]
           /\ request'[q].pc = "done" /\ request'[q].answer = a
           /\ \A r \in Requests \ {q} : request'[r] = request[r]
<1>1. NoEntry \in Entry
  BY DEF NoEntry, Entry
<1>. QED BY <1>1 DEF TypeOK, Answered

(* The end of a transaction gives back its own locks and no others. *)
LEMMA ReleaseTypes ==
    ASSUME TypeOK, NEW q \in Requests, Release(q)
    PROVE  /\ keyLock' \in [Keys -> Requests \cup {Nobody}]
           /\ entryLock' \in [Entries -> Requests \cup {Nobody}]
           /\ \A k \in Keys : keyLock[k] # q => keyLock'[k] = keyLock[k]
           /\ \A e \in Entries : entryLock[e] # q => entryLock'[e] = entryLock[e]
BY DEF TypeOK, Release

(* A request that ends without a change: refused, replayed or lost. *)
LEMMA EndInv ==
    ASSUME CommandsInv, NEW q \in Requests, NEW a \in Answer, Answered(q, a),
           Release(q) \/ UNCHANGED <<keyLock, entryLock>>,
           UNCHANGED <<entries, keys, changes, expiries>>,
           a.code = "success" => /\ keys[KeyOf[q]].state = "stored"
                                 /\ SameHash(q)
                                 /\ a.response = keys[KeyOf[q]].response
    PROVE  CommandsInv'
<1> USE RequestTypes
<1>1. TypeOK
  BY DEF CommandsInv
<1>2. /\ request' \in [Requests -> [pc : {"start", "reserved", "admitted", "done"},
                                    seen : Entry, answer : Answer]]
      /\ request'[q].pc = "done" /\ request'[q].answer = a
      /\ \A r \in Requests \ {q} : request'[r] = request[r]
  BY <1>1, AnsweredTypes
<1>3. /\ keyLock' \in [Keys -> Requests \cup {Nobody}]
      /\ entryLock' \in [Entries -> Requests \cup {Nobody}]
      /\ \A k \in Keys : keyLock[k] # q => keyLock'[k] = keyLock[k]
      /\ \A e \in Entries : entryLock[e] # q => entryLock'[e] = entryLock[e]
  <2>1. CASE Release(q)
    BY <2>1, <1>1, ReleaseTypes
  <2>2. CASE UNCHANGED <<keyLock, entryLock>>
    BY <2>2, <1>1 DEF TypeOK
  <2>. QED BY <2>1, <2>2
<1>4. TypeOK'
  BY <1>1, <1>2, <1>3 DEF TypeOK
<1>5. KeyHeld'
  BY <1>2, <1>3 DEF CommandsInv, KeyHeld, Reservable
<1>6. EntryHeld'
  BY <1>2, <1>3 DEF CommandsInv, EntryHeld, At, Gone
<1>7. StoredIsMade' /\ MadeIsStored' /\ OncePerKey' /\ UpdatesFollowTheirVersion'
  BY DEF CommandsInv, StoredIsMade, MadeIsStored, OncePerKey, UpdatesFollowTheirVersion
<1>8. SuccessIsReal'
  <2> SUFFICES ASSUME NEW r \in Requests, request'[r].answer.code = "success"
               PROVE  \E c \in changes : /\ c.key = KeyOf[r]
                                         /\ c.command = CommandOf[r]
                                         /\ c.response = request'[r].answer.response
    BY DEF SuccessIsReal
  <2>1. CASE r = q
    BY <2>1, <1>2 DEF CommandsInv, StoredIsMade, SameHash
  <2>2. CASE r # q
    BY <2>2, <1>2 DEF CommandsInv, SuccessIsReal
  <2>. QED BY <2>1, <2>2
<1>. QED BY <1>4, <1>5, <1>6, <1>7, <1>8 DEF CommandsInv

-----------------------------------------------------------------------------
(* A reservation is made of a key nobody holds and that is not stored. *)
LEMMA ReserveInv ==
    ASSUME CommandsInv, NEW q \in Requests, Reserve(q)
    PROVE  CommandsInv'
<1> USE RequestTypes
<1>1. TypeOK'
  BY DEF CommandsInv, TypeOK, Reserve
<1>2. KeyHeld'
  <2> SUFFICES ASSUME NEW r \in Requests, request'[r].pc \in {"reserved", "admitted"}
               PROVE  keyLock'[KeyOf[r]] = r /\ Reservable(KeyOf[r])'
    BY DEF KeyHeld
  <2>1. CASE r = q
    BY <2>1 DEF CommandsInv, TypeOK, Reserve, Reservable
  <2>2. CASE r # q
    <3>1. keyLock[KeyOf[r]] = r /\ Reservable(KeyOf[r])
      BY <2>2 DEF CommandsInv, TypeOK, KeyHeld, Reserve
    <3>2. KeyOf[r] # KeyOf[q]
      BY <3>1 DEF Reserve, Heard, KeyFree
    <3>. QED BY <3>1, <3>2 DEF CommandsInv, TypeOK, Reserve, Reservable
  <2>. QED BY <2>1, <2>2
<1>3. \A r \in Requests : /\ At(r, "admitted")' => At(r, "admitted")
                          /\ request'[r].seen = request[r].seen
                          /\ request'[r].answer = request[r].answer
  BY DEF CommandsInv, TypeOK, Reserve, At
<1>4. EntryHeld'
  BY <1>3 DEF CommandsInv, EntryHeld, Reserve, Gone
<1>5. SuccessIsReal'
  BY <1>3 DEF CommandsInv, SuccessIsReal, Reserve
<1>6. StoredIsMade' /\ MadeIsStored' /\ OncePerKey' /\ UpdatesFollowTheirVersion'
  BY DEF CommandsInv, StoredIsMade, MadeIsStored, OncePerKey, UpdatesFollowTheirVersion, Reserve
<1>. QED BY <1>1, <1>2, <1>4, <1>5, <1>6 DEF CommandsInv

(* A command with no refusal has its entry, and an update its version. *)
LEMMA RefusalMeaning ==
    ASSUME NEW q \in Requests, Refusal(q) = {}
    PROVE  /\ ~Gone(Entered(q))
           /\ Op(q) = "update" => entries[Entered(q)].version = CommandOf[q].body
<1>1. "404" \notin Refusal(q) /\ "409" \notin Refusal(q)
  OBVIOUS
<1>2. ~Gone(Entered(q))
  BY <1>1 DEF Refusal, Refusals
<1>3. q \in Allowed
  BY <1>1, <1>2 DEF Refusal, Refusals
<1>. QED BY <1>1, <1>2, <1>3 DEF Refusal, Refusals

(* A request is admitted with its entry in its hands. *)
LEMMA AdmitInv ==
    ASSUME CommandsInv, NEW q \in Requests, Admit(q)
    PROVE  CommandsInv'
<1> USE RequestTypes
<1>1. TypeOK'
  BY DEF CommandsInv, TypeOK, Admit
<1>2. \A r \in Requests : /\ request'[r].pc \in {"reserved", "admitted"} =>
                               request[r].pc \in {"reserved", "admitted"}
                          /\ request'[r].answer = request[r].answer
  BY DEF CommandsInv, TypeOK, Admit, Reads, At
<1>3. KeyHeld'
  BY <1>2 DEF CommandsInv, KeyHeld, Admit, Reservable
<1>4. EntryHeld'
  <2> SUFFICES ASSUME NEW r \in Requests, At(r, "admitted")'
               PROVE  /\ ~ForStudent(r)
                      /\ Op(r) # "attach" => /\ entryLock'[Entered(r)] = r
                                             /\ request'[r].seen = entries'[Entered(r)]
                                             /\ ~Gone(Entered(r))'
                      /\ Op(r) = "update" => request'[r].seen.version = CommandOf[r].body
    BY DEF EntryHeld
  <2>1. CASE r = q
    <3>1. request'[q].seen = entries[Entered(q)] /\ entries' = entries /\ ~ForStudent(q)
      BY DEF CommandsInv, TypeOK, Admit, Reads
    <3>2. ~Gone(Entered(q)) /\ (Op(q) = "update" => entries[Entered(q)].version = CommandOf[q].body)
      BY RefusalMeaning DEF Admit
    <3>3. Op(q) # "attach" => entryLock'[Entered(q)] = q
      BY <3>1 DEF CommandsInv, TypeOK, Admit, Locks, Ops, ForStudent
    <3>. QED BY <2>1, <3>1, <3>2, <3>3 DEF Gone
  <2>2. CASE r # q
    <3>1. At(r, "admitted") /\ request'[r] = request[r] /\ entries' = entries
      BY <2>2 DEF CommandsInv, TypeOK, Admit, At
    <3>2. entryLock[Entered(r)] = r => entryLock'[Entered(r)] = r
      BY <2>2 DEF CommandsInv, TypeOK, Admit, Reads
    <3>. QED BY <3>1, <3>2 DEF CommandsInv, EntryHeld, Gone
  <2>. QED BY <2>1, <2>2
<1>5. SuccessIsReal'
  <2>1. UNCHANGED <<keys, changes>> /\ SuccessIsReal
    BY DEF CommandsInv, Admit
  <2>. QED BY <1>2, <2>1 DEF SuccessIsReal
<1>6. StoredIsMade' /\ MadeIsStored' /\ OncePerKey' /\ UpdatesFollowTheirVersion'
  BY DEF CommandsInv, StoredIsMade, MadeIsStored, OncePerKey, UpdatesFollowTheirVersion, Admit
<1>. QED BY <1>1, <1>3, <1>4, <1>5, <1>6 DEF CommandsInv

(***************************************************************************)
(* A commit by a request that holds its key, of an entry nobody else is    *)
(* admitted to change.                                                     *)
(***************************************************************************)
LEMMA CommitInv ==
    ASSUME CommandsInv, NEW q \in Requests, NEW e \in Entries, NEW new \in Entry,
           request[q].pc \in {"reserved", "admitted"},
           Commit(q, e, new),
           new = entries[e] \/ \A r \in Requests \ {q} :
               At(r, "admitted") /\ Op(r) # "attach" => Entered(r) # e,
           Op(q) = "update" => new.version = CommandOf[q].body + 1
    PROVE  CommandsInv'
<1> USE RequestTypes
<1> DEFINE k == KeyOf[q]
           response == [entry |-> e, version |-> new.version]
           a == [code |-> "success", response |-> response]
           made == [by |-> q, key |-> k, use |-> keys[k].use,
                    command |-> CommandOf[q], response |-> response]
<1>0. TypeOK /\ keyLock[k] = q /\ Reservable(k)
  BY DEF CommandsInv, KeyHeld
<1>1. response \in Response /\ a \in Answer
  BY DEF Response, Answer, Entry
<1>2. /\ Answered(q, a) /\ Release(q)
      /\ changes' = changes \cup {made}
      /\ entries' = [entries EXCEPT ![e] = new]
      /\ keys' = [keys EXCEPT ![k] = [state |-> "stored", use |-> keys[k].use,
                                      command |-> CommandOf[q], response |-> response]]
      /\ expiries' = expiries
  BY DEF Commit
<1>3. /\ request' \in [Requests -> [pc : {"start", "reserved", "admitted", "done"},
                                    seen : Entry, answer : Answer]]
      /\ request'[q].pc = "done" /\ request'[q].answer = a
      /\ \A r \in Requests \ {q} : request'[r] = request[r]
  BY <1>0, <1>1, <1>2, AnsweredTypes
<1>4. /\ keyLock' \in [Keys -> Requests \cup {Nobody}]
      /\ entryLock' \in [Entries -> Requests \cup {Nobody}]
      /\ \A l \in Keys : keyLock[l] # q => keyLock'[l] = keyLock[l]
      /\ \A x \in Entries : entryLock[x] # q => entryLock'[x] = entryLock[x]
  BY <1>0, <1>2, ReleaseTypes
<1>5. keys[k].use \in Nat
  BY <1>0 DEF TypeOK, FreeKey, UsedKey
<1>6. made \in Change
  BY <1>1, <1>5 DEF Change
<1>7. /\ \A l \in Keys \ {k} : keys'[l] = keys[l]
      /\ keys'[k].state = "stored" /\ keys'[k].use = keys[k].use
      /\ keys'[k].command = CommandOf[q] /\ keys'[k].response = response
      /\ keys'[k] \in UsedKey
      /\ keys' \in [Keys -> FreeKey \cup UsedKey]
  BY <1>0, <1>1, <1>2, <1>5 DEF TypeOK, UsedKey
<1>8. TypeOK'
  BY <1>0, <1>2, <1>3, <1>4, <1>6, <1>7 DEF TypeOK
<1>9. KeyHeld'
  <2> SUFFICES ASSUME NEW r \in Requests, request'[r].pc \in {"reserved", "admitted"}
               PROVE  keyLock'[KeyOf[r]] = r /\ Reservable(KeyOf[r])'
    BY DEF KeyHeld
  <2>1. r # q
    BY <1>3
  <2>2. keyLock[KeyOf[r]] = r /\ Reservable(KeyOf[r])
    BY <2>1, <1>3 DEF CommandsInv, KeyHeld
  <2>3. KeyOf[r] # k
    BY <2>1, <2>2, <1>0
  <2>. QED BY <2>1, <2>2, <2>3, <1>4, <1>7 DEF Reservable
<1>10. EntryHeld'
  <2> SUFFICES ASSUME NEW r \in Requests, At(r, "admitted")'
               PROVE  /\ ~ForStudent(r)
                      /\ Op(r) # "attach" => /\ entryLock'[Entered(r)] = r
                                             /\ request'[r].seen = entries'[Entered(r)]
                                             /\ ~Gone(Entered(r))'
                      /\ Op(r) = "update" => request'[r].seen.version = CommandOf[r].body
    BY DEF EntryHeld
  <2>1. r # q /\ request'[r] = request[r] /\ At(r, "admitted")
    BY <1>3 DEF At
  <2>2. /\ ~ForStudent(r)
        /\ Op(r) # "attach" => /\ entryLock[Entered(r)] = r
                               /\ request[r].seen = entries[Entered(r)]
                               /\ ~Gone(Entered(r))
        /\ Op(r) = "update" => request[r].seen.version = CommandOf[r].body
    BY <2>1 DEF CommandsInv, EntryHeld
  <2>3. Op(r) # "attach" => entries'[Entered(r)] = entries[Entered(r)]
    BY <2>1, <1>0, <1>2 DEF TypeOK
  <2>. QED BY <2>1, <2>2, <2>3, <1>4 DEF Gone
<1>11. StoredIsMade'
  <2> SUFFICES ASSUME NEW l \in Keys, keys'[l].state = "stored"
               PROVE  \E c \in changes' : /\ c.key = l
                                          /\ c.command = keys'[l].command
                                          /\ c.response = keys'[l].response
    BY DEF StoredIsMade
  <2>1. CASE l = k
    <3>1. made \in changes' /\ made.key = l /\ made.command = CommandOf[q] /\ made.response = response
      BY <2>1, <1>2
    <3>. QED BY <2>1, <3>1, <1>7
  <2>2. CASE l # k
    BY <2>2, <1>2, <1>7 DEF CommandsInv, StoredIsMade
  <2>. QED BY <2>1, <2>2
<1>12. \A c \in changes : c.key = k => c.use < keys[k].use
  <2> SUFFICES ASSUME NEW c \in changes, c.key = k PROVE c.use < keys[k].use
    OBVIOUS
  <2>1. c.use \in Nat /\ c.use <= keys[k].use /\ c.use # keys[k].use
    BY <1>0 DEF CommandsInv, TypeOK, Change, MadeIsStored, Reservable
  <2>. QED BY <2>1, <1>5
<1>13. MadeIsStored'
  <2> SUFFICES ASSUME NEW c \in changes'
               PROVE  /\ c.use <= keys'[c.key].use
                      /\ c.use = keys'[c.key].use => keys'[c.key].state = "stored"
    BY DEF MadeIsStored
  <2>1. CASE c = made
    BY <2>1, <1>5, <1>7
  <2>2. CASE c \in changes
    <3>1. c.key \in Keys
      BY <2>2, <1>0 DEF TypeOK, Change
    <3>2. /\ c.use <= keys[c.key].use
          /\ c.use = keys[c.key].use => keys[c.key].state = "stored"
      BY <2>2 DEF CommandsInv, MadeIsStored
    <3>. QED BY <3>1, <3>2, <1>7
  <2>. QED BY <2>1, <2>2, <1>2
<1>14. OncePerKey'
  <2> SUFFICES ASSUME NEW c \in changes', NEW d \in changes', c.key = d.key, c.use = d.use
               PROVE  c = d
    BY DEF OncePerKey
  <2>1. CASE c \in changes /\ d \in changes
    BY <2>1 DEF CommandsInv, OncePerKey
  <2>2. CASE c = made /\ d \in changes
    BY <2>2, <1>5, <1>12
  <2>3. CASE c \in changes /\ d = made
    BY <2>3, <1>5, <1>12
  <2>. QED BY <2>1, <2>2, <2>3, <1>2
<1>15. SuccessIsReal'
  <2> SUFFICES ASSUME NEW r \in Requests, request'[r].answer.code = "success"
               PROVE  \E c \in changes' : /\ c.key = KeyOf[r]
                                          /\ c.command = CommandOf[r]
                                          /\ c.response = request'[r].answer.response
    BY DEF SuccessIsReal
  <2>1. CASE r = q
    <3>1. made \in changes' /\ made.key = k /\ made.command = CommandOf[q] /\ made.response = response
      BY <1>2
    <3>2. request'[r].answer.response = response
      BY <2>1, <1>3
    <3>. QED BY <2>1, <3>1, <3>2
  <2>2. CASE r # q
    BY <2>2, <1>2, <1>3 DEF CommandsInv, SuccessIsReal
  <2>. QED BY <2>1, <2>2
<1>16. UpdatesFollowTheirVersion'
  <2> SUFFICES ASSUME NEW c \in changes', c.command.op = "update"
               PROVE  c.response.version = c.command.body + 1
    BY DEF UpdatesFollowTheirVersion
  <2>1. CASE c = made
    BY <2>1 DEF Op
  <2>2. CASE c \in changes
    BY <2>2 DEF CommandsInv, UpdatesFollowTheirVersion
  <2>. QED BY <2>1, <2>2, <1>2
<1>. QED BY <1>8, <1>9, <1>10, <1>11, <1>13, <1>14, <1>15, <1>16 DEF CommandsInv

(***************************************************************************)
(* What a commit does to an entry: a draft of an id nobody uses, a change  *)
(* of an entry that is not gone, or nothing.                               *)
(***************************************************************************)
LEMMA ApplyWrites ==
    ASSUME CommandsInv, NEW q \in Requests, Apply(q)
    PROVE  \E new \in Entry :
             /\ Commit(q, Entered(q), new)
             /\ Op(q) = "update" => new.version = CommandOf[q].body + 1
             /\ ~Gone(Entered(q)) /\ entryLock[Entered(q)] = q
<1> USE RequestTypes
<1> DEFINE old == request[q].seen
           new == [status |-> StatusAfter(Op(q), old.status), version |-> old.version + 1]
<1>1. old \in Entry
  BY DEF CommandsInv, TypeOK
<1>2. old.version \in Nat /\ old.status \in {"ABSENT", "DRAFT", "PUBLISHED", "ARCHIVED"}
  BY <1>1 DEF Entry
<1>3. StatusAfter(Op(q), old.status) \in {"ABSENT", "DRAFT", "PUBLISHED", "ARCHIVED"}
  BY <1>2 DEF StatusAfter
<1>4. new \in Entry
  BY <1>2, <1>3 DEF Entry
<1>5. At(q, "admitted") /\ Op(q) # "attach" /\ Commit(q, Entered(q), new)
  BY DEF Apply
<1>6. /\ Op(q) = "update" => old.version = CommandOf[q].body
      /\ ~Gone(Entered(q)) /\ entryLock[Entered(q)] = q
  BY <1>5 DEF CommandsInv, EntryHeld
<1>. QED BY <1>4, <1>5, <1>6

(* A new entry, a changed entry, an action and a file keep the invariant. *)
LEMMA ChangeInv ==
    ASSUME CommandsInv, NEW q \in Requests, Create(q) \/ CreateAction(q) \/ Apply(q) \/ Attach(q)
    PROVE  CommandsInv'
<1> USE RequestTypes
<1>1. CASE Create(q)
  <2>1. PICK e \in Entries : /\ entries[e].status = "ABSENT"
                             /\ Commit(q, e, [status |-> "DRAFT", version |-> 1])
    BY <1>1 DEF Create
  <2>2. request[q].pc \in {"reserved", "admitted"} /\ Op(q) # "update"
    BY <1>1 DEF Create, At
  <2>3. [status |-> "DRAFT", version |-> 1] \in Entry
    BY DEF Entry
  <2>4. \A r \in Requests \ {q} : At(r, "admitted") /\ Op(r) # "attach" => Entered(r) # e
    BY <2>1 DEF CommandsInv, EntryHeld, Gone
  <2>. QED BY <2>1, <2>2, <2>3, <2>4, CommitInv
<1>2. CASE Apply(q)
  <2>1. PICK new \in Entry :
             /\ Commit(q, Entered(q), new)
             /\ Op(q) = "update" => new.version = CommandOf[q].body + 1
             /\ ~Gone(Entered(q)) /\ entryLock[Entered(q)] = q
    BY <1>2, ApplyWrites
  <2>2. request[q].pc \in {"reserved", "admitted"}
    BY <1>2 DEF Apply, At
  <2>3. \A r \in Requests \ {q} :
            At(r, "admitted") /\ Op(r) # "attach" => Entered(r) # Entered(q)
    BY <2>1 DEF CommandsInv, EntryHeld
  <2>. QED BY <2>1, <2>2, <2>3, CommitInv
<1>3. CASE Attach(q) \/ CreateAction(q)
  <2>1. /\ request[q].pc \in {"reserved", "admitted"} /\ Op(q) # "update"
        /\ Commit(q, Entered(q), entries[Entered(q)])
    BY <1>3 DEF Attach, CreateAction, At
  <2>2. entries[Entered(q)] \in Entry
    BY DEF CommandsInv, TypeOK
  <2>. QED BY <2>1, <2>2, CommitInv
<1>. QED BY <1>1, <1>2, <1>3

(* A key's 24 hours end: its next life begins with nothing done in it. *)
LEMMA ExpireInv ==
    ASSUME CommandsInv, NEW k \in Keys, Expire(k)
    PROVE  CommandsInv'
<1> USE RequestTypes
<1>1. TypeOK
  BY DEF CommandsInv
<1>2. keys[k] \in UsedKey /\ keys[k].use \in Nat
  BY <1>1 DEF TypeOK, Expire, FreeKey, UsedKey
<1>3. /\ keys' \in [Keys -> FreeKey \cup UsedKey]
      /\ keys'[k].state = "expired" /\ keys'[k].use = keys[k].use + 1
      /\ \A l \in Keys \ {k} : keys'[l] = keys[l]
  BY <1>1, <1>2 DEF TypeOK, Expire, FreeKey, UsedKey
<1>4. TypeOK'
  BY <1>1, <1>3, ConstantsAssumption DEF TypeOK, Expire
<1>5. KeyHeld'
  BY <1>3 DEF CommandsInv, KeyHeld, Expire, Reservable
<1>6. EntryHeld'
  BY DEF CommandsInv, EntryHeld, Expire, At, Gone
<1>7. StoredIsMade'
  BY <1>3 DEF CommandsInv, StoredIsMade, Expire
<1>8. MadeIsStored'
  <2> SUFFICES ASSUME NEW c \in changes
               PROVE  /\ c.use <= keys'[c.key].use
                      /\ c.use = keys'[c.key].use => keys'[c.key].state = "stored"
    BY DEF MadeIsStored, Expire
  <2>1. c.key \in Keys /\ c.use \in Nat
    BY <1>1 DEF TypeOK, Change
  <2>2. /\ c.use <= keys[c.key].use
        /\ c.use = keys[c.key].use => keys[c.key].state = "stored"
    BY DEF CommandsInv, MadeIsStored
  <2>. QED BY <1>2, <1>3, <2>1, <2>2
<1>9. OncePerKey' /\ SuccessIsReal' /\ UpdatesFollowTheirVersion'
  BY DEF CommandsInv, OncePerKey, SuccessIsReal, UpdatesFollowTheirVersion, Expire
<1>. QED BY <1>4, <1>5, <1>6, <1>7, <1>8, <1>9 DEF CommandsInv

-----------------------------------------------------------------------------
(* Every step of a request keeps the invariant. *)
LEMMA HandleInv ==
    ASSUME CommandsInv, NEW q \in Requests, Handle(q) \/ Abort(q)
    PROVE  CommandsInv'
<1>1. \A n \in Refusals \cup {"lost"} :
        [code |-> n] \in Answer /\ [code |-> n].code # "success"
  BY DEF Answer, Refusals
<1>2. CASE Forbid(q)
  <2>1. PICK n \in {"403", "404"} : Answered(q, [code |-> n])
    BY <1>2 DEF Forbid
  <2>2. [code |-> n] \in Answer /\ [code |-> n].code # "success"
    BY <1>1 DEF Refusals
  <2>3. UNCHANGED <<keyLock, entryLock>> /\ UNCHANGED <<entries, keys, changes, expiries>>
    BY <1>2 DEF Forbid
  <2>. QED BY <2>1, <2>2, <2>3, EndInv
<1>3. CASE Replay(q)
  <2> DEFINE a == [code |-> "success", response |-> keys[KeyOf[q]].response]
  <2>1. keys[KeyOf[q]].state = "stored" /\ SameHash(q) /\ Answered(q, a)
    BY <1>3 DEF Replay
  <2>2. a \in Answer
    BY <2>1, RequestTypes DEF CommandsInv, TypeOK, FreeKey, UsedKey, Answer
  <2>3. UNCHANGED <<keyLock, entryLock>> /\ UNCHANGED <<entries, keys, changes, expiries>>
    BY <1>3 DEF Replay
  <2>. QED BY <2>1, <2>2, <2>3, EndInv
<1>4. CASE Conflict(q)
  <2>1. Answered(q, [code |-> "409"])
    BY <1>4 DEF Conflict
  <2>2. [code |-> "409"] \in Answer /\ [code |-> "409"].code # "success"
    BY <1>1 DEF Refusals
  <2>3. UNCHANGED <<keyLock, entryLock>> /\ UNCHANGED <<entries, keys, changes, expiries>>
    BY <1>4 DEF Conflict
  <2>. QED BY <2>1, <2>2, <2>3, EndInv
<1>5. CASE Refuse(q)
  <2>1. PICK n \in Refusal(q) : Answered(q, [code |-> n])
    BY <1>5 DEF Refuse
  <2>2. [code |-> n] \in Answer /\ [code |-> n].code # "success"
    BY <1>1 DEF Refusal
  <2>3. Release(q) /\ UNCHANGED <<entries, keys, changes, expiries>>
    BY <1>5 DEF Refuse
  <2>. QED BY <2>1, <2>2, <2>3, EndInv
<1>6. CASE Abort(q)
  <2>1. Answered(q, [code |-> "lost"])
    BY <1>6 DEF Abort
  <2>2. [code |-> "lost"] \in Answer /\ [code |-> "lost"].code # "success"
    BY <1>1
  <2>3. Release(q) /\ UNCHANGED <<entries, keys, changes, expiries>>
    BY <1>6 DEF Abort
  <2>. QED BY <2>1, <2>2, <2>3, EndInv
<1>7. CASE Reserve(q)
  BY <1>7, ReserveInv
<1>8. CASE Admit(q)
  BY <1>8, AdmitInv
<1>9. CASE Create(q) \/ CreateAction(q) \/ Apply(q) \/ Attach(q)
  BY <1>9, ChangeInv
<1>. QED BY <1>2, <1>3, <1>4, <1>5, <1>6, <1>7, <1>8, <1>9 DEF Handle

(* The invariant is inductive. *)
LEMMA NextInv == CommandsInv /\ [Next]_vars => CommandsInv'
<1> SUFFICES ASSUME CommandsInv, [Next]_vars PROVE CommandsInv'
  OBVIOUS
<1>1. CASE Next
  BY <1>1, HandleInv, ExpireInv DEF Next
<1>2. CASE UNCHANGED vars
  BY <1>2 DEF vars, CommandsInv, TypeOK, KeyHeld, EntryHeld, StoredIsMade, MadeIsStored,
              OncePerKey, SuccessIsReal, UpdatesFollowTheirVersion, At, Gone, Reservable
<1>. QED BY <1>1, <1>2

(***************************************************************************)
(* The four facts the notebook's API promises of its keys and versions, in *)
(* every reachable state (replay_or_reserve, update_entry).                *)
(***************************************************************************)
THEOREM CommandsCorrect == Spec => []CommandsInv
<1>1. Init => CommandsInv
  BY InitInv
<1>2. CommandsInv /\ [Next]_vars => CommandsInv'
  BY NextInv
<1>. QED BY <1>1, <1>2, PTL DEF Spec

(* Every variable keeps its type. *)
THEOREM TypeCorrect == Spec => []TypeOK
<1>1. CommandsInv => TypeOK
  BY DEF CommandsInv
<1>. QED BY <1>1, CommandsCorrect, PTL

(* A command is carried out once in each life of its key. *)
THEOREM CarriedOutOnce == Spec => []OncePerKey
<1>1. CommandsInv => OncePerKey
  BY DEF CommandsInv
<1>. QED BY <1>1, CommandsCorrect, PTL

(* A client told of success is told of its own change. *)
THEOREM ReplaysAreReal == Spec => []SuccessIsReal
<1>1. CommandsInv => SuccessIsReal
  BY DEF CommandsInv
<1>. QED BY <1>1, CommandsCorrect, PTL

(* An update that succeeds follows the version it expected. *)
THEOREM NoLostUpdate == Spec => []UpdatesFollowTheirVersion
<1>1. CommandsInv => UpdatesFollowTheirVersion
  BY DEF CommandsInv
<1>. QED BY <1>1, CommandsCorrect, PTL

(* No step touches an archived entry. *)
THEOREM ArchivedStays == Spec => ArchivedIsFinal
<1>1. CommandsInv /\ [Next]_vars =>
        [\A e \in Entries : entries[e].status = "ARCHIVED" => entries'[e] = entries[e]]_vars
  <2> SUFFICES ASSUME CommandsInv, Next, NEW e \in Entries, entries[e].status = "ARCHIVED"
               PROVE  entries'[e] = entries[e]
    OBVIOUS
  <2>0. entries \in [Entries -> Entry]
    BY DEF CommandsInv, TypeOK
  <2>1. ASSUME NEW q \in Requests, Create(q) PROVE entries'[e] = entries[e]
    BY <2>0, <2>1 DEF Create, Commit
  <2>2. ASSUME NEW q \in Requests, Apply(q) PROVE entries'[e] = entries[e]
    <3>1. ~Gone(Entered(q)) /\ \E new \in Entry : Commit(q, Entered(q), new)
      BY <2>2, ApplyWrites
    <3>. QED BY <2>0, <3>1 DEF Gone, Commit
  <2>3. ASSUME NEW q \in Requests, Attach(q) \/ CreateAction(q) PROVE entries'[e] = entries[e]
    BY <2>0, <2>3 DEF Attach, CreateAction, Commit
  <2>. QED BY <2>1, <2>2, <2>3
       DEF Next, Handle, Forbid, Replay, Conflict, Reserve, Refuse, Admit, Abort, Expire
<1>. QED BY <1>1, CommandsCorrect, PTL DEF Spec, ArchivedIsFinal

-----------------------------------------------------------------------------
(***************************************************************************)
(* What the trail says of an entry: the changes of one kind made to it.    *)
(***************************************************************************)
Made(op, e) == \E c \in changes : c.response.entry = e /\ c.command.op = op

TrailTells ==
    \A e \in Entries :
        /\ entries[e].status = "ARCHIVED" <=> Made("archive", e)
        /\ entries[e].status = "PUBLISHED" => Made("publish", e)
        /\ Made("publish", e) => entries[e].status \in {"PUBLISHED", "ARCHIVED"}

(* A commit adds one change, of its own kind and entry, to the trail. *)
LEMMA CommitTells ==
    ASSUME CommandsInv, NEW q \in Requests, NEW e \in Entries, NEW new, Commit(q, e, new)
    PROVE  /\ entries'[e] = new
           /\ \A x \in Entries \ {e} : entries'[x] = entries[x]
           /\ \A op, x : Made(op, x)' <=> Made(op, x) \/ (op = Op(q) /\ x = e)
<1> DEFINE made == [by |-> q, key |-> KeyOf[q], use |-> keys[KeyOf[q]].use,
                    command |-> CommandOf[q],
                    response |-> [entry |-> e, version |-> new.version]]
<1>1. changes' = changes \cup {made} /\ entries' = [entries EXCEPT ![e] = new]
  BY DEF Commit
<1>2. made.response.entry = e /\ made.command.op = Op(q)
  BY DEF Op
<1>. HIDE DEF made
<1>3. entries \in [Entries -> Entry]
  BY DEF CommandsInv, TypeOK
<1>. QED BY <1>1, <1>2, <1>3 DEF Made

(* Every step keeps the trail true. *)
LEMMA TrailStep == CommandsInv /\ TrailTells /\ [Next]_vars => TrailTells'
<1> SUFFICES ASSUME CommandsInv, TrailTells, [Next]_vars PROVE TrailTells'
  OBVIOUS
<1>1. ASSUME UNCHANGED <<entries, changes>> PROVE TrailTells'
  BY <1>1 DEF TrailTells, Made
<1>2. ASSUME NEW q \in Requests, Create(q) PROVE TrailTells'
  <2>1. PICK e \in Entries : /\ entries[e].status = "ABSENT"
                             /\ Commit(q, e, [status |-> "DRAFT", version |-> 1])
    BY <1>2 DEF Create
  <2>2. Op(q) = "create"
    BY <1>2 DEF Create
  <2>. QED BY <2>1, <2>2, CommitTells DEF TrailTells
<1>3. ASSUME NEW q \in Requests, Apply(q) PROVE TrailTells'
  <2> DEFINE e == Entered(q)
             new == [status |-> StatusAfter(Op(q), request[q].seen.status),
                     version |-> request[q].seen.version + 1]
  <2>1. At(q, "admitted") /\ Op(q) # "attach" /\ Commit(q, e, new)
    BY <1>3 DEF Apply
  <2>2. e \in Entries /\ ~ForStudent(q) /\ Op(q) \in Ops
    BY <2>1, RequestTypes DEF CommandsInv, EntryHeld
  <2>3. request[q].seen = entries[e] /\ ~Gone(e)
    BY <2>1, <2>2 DEF CommandsInv, EntryHeld
  <2>4. new.status = StatusAfter(Op(q), entries[e].status)
    BY <2>3
  <2>. HIDE DEF e, new
  <2>5. /\ entries'[e] = new
        /\ \A x \in Entries \ {e} : entries'[x] = entries[x]
        /\ \A op, x : Made(op, x)' <=> Made(op, x) \/ (op = Op(q) /\ x = e)
    BY <2>1, <2>2, CommitTells
  <2>6. entries[e].status \in {"DRAFT", "PUBLISHED"}
    BY <2>2, <2>3 DEF CommandsInv, TypeOK, Entry, Gone
  <2>7. Op(q) \in {"update", "publish", "archive"}
    BY <2>1, <2>2 DEF ForStudent, Ops
  <2>. QED BY <2>2, <2>4, <2>5, <2>6, <2>7 DEF TrailTells, StatusAfter
<1>4. ASSUME NEW q \in Requests, Attach(q) \/ CreateAction(q) PROVE TrailTells'
  <2>1. Commit(q, Entered(q), entries[Entered(q)]) /\ Op(q) \in {"attach", "create_action"}
    BY <1>4 DEF Attach, CreateAction
  <2>2. Entered(q) \in Entries
    BY RequestTypes
  <2>. QED BY <2>1, <2>2, CommitTells DEF TrailTells
<1>. QED BY <1>1, <1>2, <1>3, <1>4
     DEF Next, Handle, Forbid, Replay, Conflict, Reserve, Refuse, Admit, Abort, Expire, vars

(* A student sees what the trail says was published and not taken back. *)
THEOREM StudentsSeePublished == Spec => []SeenAsPublished
<1>1. Init => TrailTells
  BY DEF Init, TrailTells, Made, NoEntry
<1>2. Spec => []TrailTells
  BY <1>1, TrailStep, CommandsCorrect, PTL DEF Spec
<1>3. TrailTells => SeenAsPublished
  BY DEF TrailTells, Made, SeenAsPublished, StudentSees
<1>. QED BY <1>2, <1>3, PTL

-----------------------------------------------------------------------------
(***************************************************************************)
(* Locks and their holders.  A transaction gives everything back when it   *)
(* ends, so who holds a row is on its way; and whoever holds an entry has  *)
(* passed both of its locks and waits for nobody.                          *)
(***************************************************************************)

(* The end of a transaction leaves none of its locks. *)
LEMMA ReleaseLeavesNone ==
    ASSUME TypeOK, NEW q \in Requests, Release(q)
    PROVE  /\ \A k \in Keys : keyLock'[k] # q /\ (keyLock'[k] # Nobody => keyLock'[k] = keyLock[k])
           /\ \A e \in Entries :
                entryLock'[e] # q /\ (entryLock'[e] # Nobody => entryLock'[e] = entryLock[e])
BY RequestTypes DEF TypeOK, Release

(* How a request's step moves it and its locks. *)
LEMMA LocksFollow ==
    ASSUME TypeOK, NoLockLeftBehind, NEW q \in Requests, Handle(q) \/ Abort(q)
    PROVE  NoLockLeftBehind'
<1> USE RequestTypes
<1>1. ASSUME \A r \in Requests \ {q} : request'[r] = request[r],
             \A k \in Keys : keyLock'[k] # q /\ (keyLock'[k] # Nobody => keyLock'[k] = keyLock[k]),
             \A e \in Entries :
                 entryLock'[e] # q /\ (entryLock'[e] # Nobody => entryLock'[e] = entryLock[e])
      PROVE  NoLockLeftBehind'
  BY <1>1 DEF NoLockLeftBehind, At
<1>2. ASSUME NEW a, Answered(q, a), Release(q) PROVE NoLockLeftBehind'
  <2>1. \A r \in Requests \ {q} : request'[r] = request[r]
    BY <1>2 DEF Answered, TypeOK
  <2> QED BY <1>1, <1>2, <2>1, ReleaseLeavesNone
<1>3. ASSUME NEW a, At(q, "start"), Answered(q, a), UNCHANGED <<keyLock, entryLock>>
      PROVE  NoLockLeftBehind'
  <2>1. \A r \in Requests \ {q} : request'[r] = request[r]
    BY <1>3 DEF Answered, TypeOK
  <2>2. \A k \in Keys : keyLock[k] # q
    BY <1>3 DEF NoLockLeftBehind, At
  <2>3. \A e \in Entries : entryLock[e] # q
    BY <1>3 DEF NoLockLeftBehind, At
  <2> QED BY <1>1, <1>3, <2>1, <2>2, <2>3
<1>4. CASE Reserve(q)
  <2>1. /\ request'[q].pc = "reserved" /\ \A r \in Requests \ {q} : request'[r] = request[r]
        /\ keyLock'[KeyOf[q]] = q /\ \A k \in Keys \ {KeyOf[q]} : keyLock'[k] = keyLock[k]
        /\ entryLock' = entryLock /\ At(q, "start")
    BY <1>4 DEF Reserve, Heard, TypeOK
  <2>2. \A k \in Keys, r \in Requests : keyLock'[k] = r =>
            KeyOf[r] = k /\ request'[r].pc \in {"reserved", "admitted"}
    BY <2>1 DEF NoLockLeftBehind
  <2>3. \A e \in Entries, r \in Requests : entryLock'[e] = r =>
            Entered(r) = e /\ Locks(r) /\ At(r, "admitted")'
    BY <2>1 DEF NoLockLeftBehind, At
  <2> QED BY <2>2, <2>3 DEF NoLockLeftBehind
<1>5. CASE Admit(q)
  <2>1. /\ request'[q].pc = "admitted" /\ \A r \in Requests \ {q} : request'[r] = request[r]
        /\ keyLock' = keyLock /\ At(q, "reserved")
        /\ \A e \in Entries : \/ entryLock'[e] = entryLock[e]
                              \/ e = Entered(q) /\ Locks(q) /\ entryLock'[e] = q
    BY <1>5 DEF Admit, Reads, TypeOK
  <2>2. \A k \in Keys, r \in Requests : keyLock'[k] = r =>
            KeyOf[r] = k /\ request'[r].pc \in {"reserved", "admitted"}
    BY <2>1 DEF NoLockLeftBehind
  <2>3. \A e \in Entries, r \in Requests : entryLock'[e] = r =>
            Entered(r) = e /\ Locks(r) /\ At(r, "admitted")'
    BY <2>1 DEF NoLockLeftBehind, At
  <2> QED BY <2>2, <2>3 DEF NoLockLeftBehind
<1>6. CASE Forbid(q) \/ Replay(q) \/ Conflict(q)
  BY <1>3, <1>6 DEF Forbid, Replay, Conflict, Heard
<1>7. CASE Refuse(q) \/ Abort(q)
  BY <1>2, <1>7 DEF Refuse, Abort
<1>8. CASE Create(q) \/ CreateAction(q) \/ Apply(q) \/ Attach(q)
  BY <1>2, <1>8 DEF Create, CreateAction, Apply, Attach, Commit
<1> QED
  BY <1>4, <1>5, <1>6, <1>7, <1>8 DEF Handle

(* Whoever holds a key or an entry is on its way with it. *)
THEOREM LocksHaveHolders == Spec => []NoLockLeftBehind
<1>1. Init => NoLockLeftBehind
  BY ConstantsAssumption DEF Init, NoLockLeftBehind
<1>2. TypeOK /\ NoLockLeftBehind /\ [Next]_vars => NoLockLeftBehind'
  <2> SUFFICES ASSUME TypeOK, NoLockLeftBehind, [Next]_vars PROVE NoLockLeftBehind'
    OBVIOUS
  <2>1. ASSUME UNCHANGED <<keyLock, entryLock, request>> PROVE NoLockLeftBehind'
    BY <2>1 DEF NoLockLeftBehind, At
  <2> QED BY <2>1, LocksFollow DEF Next, Expire, vars
<1> QED BY <1>1, <1>2, TypeCorrect, PTL DEF Spec

(* A request with an entry in its hands waits for nobody. *)
THEOREM NoDeadlock == Spec => []NoWaitingInCircles
<1>1. NoLockLeftBehind => NoWaitingInCircles
  <2> SUFFICES ASSUME NoLockLeftBehind, NEW q \in Requests, NEW r \in Requests,
                      NEW s \in Requests, NEW t \in Requests,
                      WaitsFor(q, r), WaitsFor(r, s), WaitsFor(s, t)
               PROVE  FALSE
    BY DEF NoWaitingInCircles
  <2>1. request[r].pc \in {"reserved", "admitted"}
    BY RequestTypes DEF NoLockLeftBehind, WaitsFor, At
  <2>2. entryLock[Entered(r)] = s
    BY <2>1 DEF WaitsFor, At
  <2>3. Locks(s) /\ At(s, "admitted")
    BY <2>2, RequestTypes DEF NoLockLeftBehind
  <2> QED BY <2>3 DEF WaitsFor, At, Locks
<1> QED BY <1>1, LocksHaveHolders, PTL

-----------------------------------------------------------------------------
(***************************************************************************)
(* The refinement.  What a request found out before it came to commit is   *)
(* still so then: it is unanswered, in scope, and the entry of an          *)
(* attachment still has its row, archived or not; and what a stored key    *)
(* answers with was done in the key's present life.                        *)
(***************************************************************************)
Unanswered == \A q \in Requests : ~At(q, "done") => request[q].answer = [code |-> "none"]

InScope ==
    \A q \in Requests :
        /\ At(q, "reserved") => (ForStudent(q) => q \in Allowed)
        /\ At(q, "admitted") => q \in Allowed /\ entries[Entered(q)].status # "ABSENT"

UnusedIsBlank == \A e \in Entries : entries[e].status = "ABSENT" => entries[e].version = 0

StoredThisLife ==
    \A k \in Keys : keys[k].state = "stored" =>
        \E c \in changes : /\ c.key = k /\ c.use = keys[k].use
                           /\ c.command = keys[k].command
                           /\ c.response = keys[k].response

PromiseInv == Unanswered /\ InScope /\ UnusedIsBlank /\ StoredThisLife

LEMMA InitPromise == Init => PromiseInv
BY ConstantsAssumption
DEF Init, PromiseInv, Unanswered, InScope, UnusedIsBlank, StoredThisLife, At, NoEntry

(* A request that ends keeps it, if entries and keys do. *)
LEMMA EndPromise ==
    ASSUME TypeOK, PromiseInv, NEW q \in Requests, NEW a, Answered(q, a),
           \A e \in Entries : entries[e].status # "ABSENT" => entries'[e].status # "ABSENT",
           UnusedIsBlank', StoredThisLife'
    PROVE  PromiseInv'
<1>1. request'[q].pc = "done" /\ \A r \in Requests \ {q} : request'[r] = request[r]
  BY DEF Answered, TypeOK
<1>2. Unanswered' /\ InScope'
  BY <1>1, RequestTypes DEF PromiseInv, Unanswered, InScope, At
<1> QED BY <1>2 DEF PromiseInv

(* What a commit leaves of the entries and the keys. *)
LEMMA CommitPromise ==
    ASSUME TypeOK, PromiseInv, NEW q \in Requests, NEW e \in Entries, NEW new \in Entry,
           Commit(q, e, new), new.status = "ABSENT" => new = entries[e]
    PROVE  PromiseInv'
<1> USE RequestTypes
<1> DEFINE k == KeyOf[q]
           response == [entry |-> e, version |-> new.version]
           made == [by |-> q, key |-> k, use |-> keys[k].use,
                    command |-> CommandOf[q], response |-> response]
           stored == [state |-> "stored", use |-> keys[k].use,
                      command |-> CommandOf[q], response |-> response]
<1>1. /\ entries' = [entries EXCEPT ![e] = new]
      /\ keys' = [keys EXCEPT ![k] = stored]
      /\ changes' = changes \cup {made}
      /\ Answered(q, [code |-> "success", response |-> response])
  BY DEF Commit
<1>2. keys'[k] = stored /\ \A l \in Keys \ {k} : keys'[l] = keys[l]
  BY <1>1 DEF TypeOK
<1>3. StoredThisLife'
  <2> SUFFICES ASSUME NEW l \in Keys, keys'[l].state = "stored"
               PROVE  \E c \in changes' : /\ c.key = l /\ c.use = keys'[l].use
                                          /\ c.command = keys'[l].command
                                          /\ c.response = keys'[l].response
    BY DEF StoredThisLife
  <2>1. CASE l = k
    <3>1. made \in changes' /\ made.key = l /\ made.use = stored.use
          /\ made.command = stored.command /\ made.response = stored.response
      BY <2>1, <1>1
    <3> QED BY <2>1, <3>1, <1>2
  <2>2. CASE l # k
    BY <2>2, <1>1, <1>2 DEF PromiseInv, StoredThisLife
  <2> QED BY <2>1, <2>2
<1>4. entries'[e] = new /\ \A x \in Entries \ {e} : entries'[x] = entries[x]
  BY <1>1 DEF TypeOK
<1>5. UnusedIsBlank'
  BY <1>4 DEF PromiseInv, UnusedIsBlank
<1>6. \A x \in Entries : entries[x].status # "ABSENT" => entries'[x].status # "ABSENT"
  BY <1>4
<1> QED BY <1>1, <1>3, <1>5, <1>6, EndPromise

(***************************************************************************)
(* Every change is a commit of what the command means for the entry as it  *)
(* is at that moment.                                                      *)
(***************************************************************************)
Means(q, e, new) ==
    /\ Commit(q, e, new) /\ new \in Entry
    /\ request[q].pc \in {"reserved", "admitted"} /\ q \in Allowed
    /\ Promise!Fits(q, e) /\ new = Promise!After(q, e)

LEMMA ChangeMeans ==
    ASSUME CommandsInv, PromiseInv, NEW q \in Requests,
           Create(q) \/ CreateAction(q) \/ Apply(q) \/ Attach(q)
    PROVE  \E e \in Entries, new \in Entry :
             Means(q, e, new) /\ (new.status = "ABSENT" => new = entries[e])
<1> USE RequestTypes
<1>1. CASE Create(q)
  <2>1. PICK e \in Entries : /\ entries[e].status = "ABSENT"
                             /\ Commit(q, e, [status |-> "DRAFT", version |-> 1])
    BY <1>1 DEF Create
  <2>2. [status |-> "DRAFT", version |-> 1] \in Entry
    BY DEF Entry
  <2>3. At(q, "reserved") /\ Op(q) = "create" /\ q \in Allowed
    BY <1>1 DEF Create, PromiseInv, InScope, ForStudent
  <2>4. entries[e].version = 0
    BY <2>1 DEF PromiseInv, UnusedIsBlank
  <2>5. Promise!Fits(q, e) /\ [status |-> "DRAFT", version |-> 1] = Promise!After(q, e)
    BY <2>1, <2>3, <2>4 DEF Promise!Fits, Promise!After, Op
  <2> QED BY <2>1, <2>2, <2>3, <2>5 DEF Means, At
<1>2. CASE CreateAction(q)
  <2>1. /\ At(q, "reserved") /\ Op(q) = "create_action" /\ q \in Allowed
        /\ Commit(q, Entered(q), entries[Entered(q)]) /\ entries[Entered(q)] \in Entry
    BY <1>2 DEF CreateAction, PromiseInv, InScope, ForStudent, CommandsInv, TypeOK
  <2>2. Promise!Fits(q, Entered(q)) /\ entries[Entered(q)] = Promise!After(q, Entered(q))
    BY <2>1 DEF Promise!Fits, Promise!After, Op, Entered
  <2> QED BY <2>1, <2>2 DEF Means, At
<1>3. CASE Attach(q)
  <2>1. /\ At(q, "admitted") /\ Op(q) = "attach" /\ q \in Allowed
        /\ entries[Entered(q)].status # "ABSENT"
        /\ Commit(q, Entered(q), entries[Entered(q)]) /\ entries[Entered(q)] \in Entry
    BY <1>3 DEF Attach, PromiseInv, InScope, CommandsInv, TypeOK
  <2>2. Promise!Fits(q, Entered(q)) /\ entries[Entered(q)] = Promise!After(q, Entered(q))
    BY <2>1 DEF Promise!Fits, Promise!After, Op, Entered
  <2> QED BY <2>1, <2>2 DEF Means, At
<1>4. CASE Apply(q)
  <2> DEFINE e == Entered(q)
             old == entries[e]
             new == [status |-> StatusAfter(Op(q), old.status), version |-> old.version + 1]
  <2>1. /\ At(q, "admitted") /\ Op(q) # "attach" /\ q \in Allowed /\ ~ForStudent(q)
        /\ request[q].seen = old /\ ~Gone(e) /\ old \in Entry /\ e \in Entries
        /\ Op(q) = "update" => old.version = CommandOf[q].body
    BY <1>4 DEF Apply, PromiseInv, InScope, CommandsInv, TypeOK, EntryHeld
  <2>2. Commit(q, e, new)
    BY <1>4, <2>1 DEF Apply
  <2>3. old.status \in {"DRAFT", "PUBLISHED"} /\ old.version \in Nat
    BY <2>1 DEF Gone, Entry
  <2>4. Op(q) \in {"update", "publish", "archive"}
    BY <2>1 DEF ForStudent, Ops
  <2>5. new \in Entry /\ new.status # "ABSENT"
    BY <2>3, <2>4 DEF StatusAfter, Entry
  <2>6. Promise!Fits(q, e) /\ new = Promise!After(q, e)
    <3>1. e = CommandOf[q].entry /\ Op(q) = CommandOf[q].op
      BY DEF Entered, Op
    <3>2. Promise!Live(e)
      BY <2>3 DEF Promise!Live
    <3>3. Promise!Fits(q, e)
      BY <2>1, <2>4, <3>1, <3>2 DEF Promise!Fits
    <3>4. new = Promise!After(q, e)
      BY <2>4, <3>1 DEF Promise!After, StatusAfter
    <3> QED BY <3>3, <3>4
  <2> QED BY <2>1, <2>2, <2>5, <2>6 DEF Means, At
<1> QED BY <1>1, <1>2, <1>3, <1>4

(* The four parts survive every step. *)
LEMMA NextPromise == CommandsInv /\ PromiseInv /\ [Next]_vars => PromiseInv'
<1> SUFFICES ASSUME CommandsInv, PromiseInv, [Next]_vars PROVE PromiseInv'
  OBVIOUS
<1>0. TypeOK
  BY DEF CommandsInv
<1>1. CASE UNCHANGED vars
  BY <1>1 DEF vars, PromiseInv, Unanswered, InScope, UnusedIsBlank, StoredThisLife, At
<1>2. ASSUME NEW q \in Requests, NEW a, Answered(q, a), UNCHANGED <<entries, keys, changes>>
      PROVE  PromiseInv'
  <2>1. UnusedIsBlank' /\ StoredThisLife'
    BY <1>2 DEF PromiseInv, UnusedIsBlank, StoredThisLife
  <2> QED BY <1>0, <1>2, <2>1, EndPromise
<1>3. ASSUME NEW q \in Requests, Create(q) \/ CreateAction(q) \/ Apply(q) \/ Attach(q)
      PROVE  PromiseInv'
  BY <1>0, <1>3, ChangeMeans, CommitPromise DEF Means
<1>4. ASSUME NEW q \in Requests, Reserve(q) PROVE PromiseInv'
  <2>1. /\ request'[q].pc = "reserved" /\ request'[q].answer = request[q].answer
        /\ \A r \in Requests \ {q} : request'[r] = request[r]
        /\ At(q, "start") /\ (ForStudent(q) => q \in Allowed)
    BY <1>0, <1>4 DEF Reserve, Heard, TypeOK
  <2>2. UNCHANGED <<entries, keys, changes>>
    BY <1>4 DEF Reserve
  <2>3. UnusedIsBlank' /\ StoredThisLife'
    BY <2>2 DEF PromiseInv, UnusedIsBlank, StoredThisLife
  <2> QED BY <2>1, <2>2, <2>3 DEF PromiseInv, Unanswered, InScope, At
<1>5. ASSUME NEW q \in Requests, Admit(q) PROVE PromiseInv'
  <2>1. /\ request'[q].pc = "admitted" /\ request'[q].answer = request[q].answer
        /\ \A r \in Requests \ {q} : request'[r] = request[r]
        /\ At(q, "reserved") /\ UNCHANGED <<entries, keys, changes>>
    BY <1>0, <1>5 DEF Admit, Reads, TypeOK
  <2>2. q \in Allowed /\ entries[Entered(q)].status # "ABSENT"
    <3>1. Refusal(q) = {} /\ ~Gone(Entered(q))
      BY <1>5, RefusalMeaning DEF Admit
    <3>2. "404" \notin Refusal(q)
      BY <3>1
    <3> QED BY <3>1, <3>2 DEF Refusal, Refusals, Gone
  <2>3. UnusedIsBlank' /\ StoredThisLife'
    BY <2>1 DEF PromiseInv, UnusedIsBlank, StoredThisLife
  <2> QED BY <2>1, <2>2, <2>3 DEF PromiseInv, Unanswered, InScope, At
<1>6. ASSUME NEW k \in Keys, Expire(k) PROVE PromiseInv'
  <2>1. keys'[k].state = "expired" /\ \A l \in Keys \ {k} : keys'[l] = keys[l]
    BY <1>0, <1>6 DEF Expire, TypeOK, FreeKey, UsedKey
  <2>2. UNCHANGED <<entries, changes, request>>
    BY <1>6 DEF Expire
  <2> QED
    BY <2>1, <2>2 DEF PromiseInv, Unanswered, InScope, UnusedIsBlank, StoredThisLife, At
<1> QED
  BY <1>1, <1>2, <1>3, <1>4, <1>5, <1>6
  DEF Next, Handle, Forbid, Replay, Conflict, Refuse, Abort

(* An answer is an answer of the promise. *)
LEMMA AnswerIsTold ==
    ASSUME TypeOK, Unanswered, NEW q \in Requests, ~At(q, "done"), NEW a, Answered(q, a)
    PROVE  Promise!Answer(q, a)
<1>1. request' = [request EXCEPT ![q] = [pc |-> "done", seen |-> NoEntry, answer |-> a]]
  BY DEF Answered
<1>2. Told[q].code = "none"
  BY DEF Unanswered, Told
<1>3. Told' = [Told EXCEPT ![q] = a]
  BY <1>1 DEF Told, TypeOK
<1> QED BY <1>2, <1>3 DEF Promise!Answer, Promise!Waiting

(* A key keeps its life unless it runs out. *)
LEMMA LifeStays ==
    ASSUME TypeOK, \A k \in Keys : keys'[k].use = keys[k].use
    PROVE  Life' = Life
BY DEF Life

(* A request that is refused is told what is so. *)
LEMMA RefusalIsTrue ==
    ASSUME CommandsInv, PromiseInv, NEW q \in Requests, Forbid(q) \/ Conflict(q) \/ Refuse(q)
    PROVE  Promise!Decline(q)
<1> USE RequestTypes
<1>0. TypeOK /\ Unanswered /\ ~At(q, "done") /\ UNCHANGED <<entries, keys, changes>> /\ Life' = Life
  BY LifeStays DEF CommandsInv, PromiseInv, Forbid, Conflict, Refuse, Heard, Reads, At
<1>1. PICK code \in Refusals : Promise!Reason(q, code) /\ Answered(q, [code |-> code])
  <2>1. CASE Forbid(q)
    <3>1. PICK n \in {"403", "404"} : Answered(q, [code |-> n])
      BY <2>1 DEF Forbid
    <3>2. q \notin Allowed /\ CommandOf[q].op \in {"create", "create_action"}
      BY <2>1 DEF Forbid, ForStudent, Op
    <3>3. Promise!Reason(q, n)
      BY <3>1, <3>2 DEF Promise!Reason
    <3> QED BY <3>1, <3>3 DEF Refusals
  <2>2. CASE Conflict(q)
    <3> DEFINE k == KeyOf[q]
    <3>1. keys[k].state = "stored" /\ keys[k].command # CommandOf[q] /\ Answered(q, [code |-> "409"])
      BY <2>2 DEF Conflict, SameHash
    <3>2. PICK c \in changes : c.key = k /\ c.use = keys[k].use /\ c.command = keys[k].command
      BY <3>1 DEF PromiseInv, StoredThisLife
    <3>3. c \in Promise!Done(q)
      BY <3>2 DEF Promise!Done, Life
    <3>4. Promise!Reason(q, "409")
      BY <3>1, <3>2, <3>3 DEF Promise!Reason
    <3> QED BY <3>1, <3>4 DEF Refusals
  <2>3. CASE Refuse(q)
    <3>1. PICK n \in Refusal(q) : Answered(q, [code |-> n])
      BY <2>3 DEF Refuse
    <3>2. ~ForStudent(q) /\ entries[Entered(q)] \in Entry
      BY <2>3, <1>0 DEF Refuse, Reads, TypeOK
    <3>3. Gone(Entered(q)) <=> ~Promise!Live(CommandOf[q].entry)
      BY <3>2 DEF Gone, Promise!Live, Entry, Entered
    <3>4. n \in Refusals /\ Promise!Reason(q, n)
      BY <3>2, <3>3 DEF Refusal, Promise!Reason, ForStudent, Op, Entered
    <3> QED BY <3>1, <3>4
  <2> QED BY <2>1, <2>2, <2>3
<1>2. Promise!Answer(q, [code |-> code])
  BY <1>0, <1>1, AnswerIsTold
<1>3. code \in {"403", "404", "409"}
  BY DEF Refusals
<1> QED BY <1>0, <1>1, <1>2, <1>3 DEF Promise!Decline

(* A stored response is the repeat of a command of the key's present life. *)
LEMMA ReplayRepeats ==
    ASSUME CommandsInv, PromiseInv, NEW q \in Requests, Replay(q)
    PROVE  Promise!Repeat(q)
<1> USE RequestTypes
<1> DEFINE k == KeyOf[q]
<1>0. TypeOK /\ Unanswered /\ ~At(q, "done") /\ UNCHANGED <<entries, keys, changes>> /\ Life' = Life
  BY LifeStays DEF CommandsInv, PromiseInv, Replay, Heard, At
<1>1. /\ keys[k].state = "stored" /\ keys[k].command = CommandOf[q]
      /\ Answered(q, [code |-> "success", response |-> keys[k].response])
  BY DEF Replay, SameHash
<1>2. PICK c \in changes : /\ c.key = k /\ c.use = keys[k].use
                           /\ c.command = keys[k].command /\ c.response = keys[k].response
  BY <1>1 DEF PromiseInv, StoredThisLife
<1>3. c \in Promise!Done(q)
  BY <1>2 DEF Promise!Done, Life
<1>4. Promise!Answer(q, [code |-> "success", response |-> c.response])
  BY <1>0, <1>1, <1>2, AnswerIsTold
<1> QED BY <1>0, <1>1, <1>2, <1>3, <1>4 DEF Promise!Repeat

(* A commit carries its command out, the first in the life of its key. *)
LEMMA ChangeCarriesOut ==
    ASSUME CommandsInv, PromiseInv, NEW q \in Requests,
           Create(q) \/ CreateAction(q) \/ Apply(q) \/ Attach(q)
    PROVE  \E e \in Entries : Promise!CarryOut(q, e)
<1> USE RequestTypes
<1> DEFINE k == KeyOf[q]
<1>1. PICK e \in Entries, new \in Entry : Means(q, e, new)
  BY ChangeMeans
<1> DEFINE response == [entry |-> e, version |-> new.version]
           made == [by |-> q, key |-> k, use |-> keys[k].use,
                    command |-> CommandOf[q], response |-> response]
<1>2. TypeOK /\ Unanswered /\ ~At(q, "done")
  BY <1>1 DEF Means, At, CommandsInv, PromiseInv
<1>3. /\ entries' = [entries EXCEPT ![e] = new]
      /\ keys' = [keys EXCEPT ![k] = [state |-> "stored", use |-> keys[k].use,
                                      command |-> CommandOf[q], response |-> response]]
      /\ changes' = changes \cup {made}
      /\ Answered(q, [code |-> "success", response |-> response])
  BY <1>1 DEF Means, Commit
<1>4. Life' = Life
  <2>1. \A l \in Keys : keys'[l].use = keys[l].use
    BY <1>2, <1>3 DEF TypeOK
  <2> QED BY <1>2, <2>1, LifeStays
<1>5. Promise!Done(q) = {}
  <2>1. keys[k].state # "stored"
    BY <1>1 DEF CommandsInv, KeyHeld, Means, Reservable
  <2> QED BY <2>1 DEF CommandsInv, MadeIsStored, Promise!Done, Life
<1>6. Promise!Answer(q, [code |-> "success", response |-> response])
  BY <1>2, <1>3, AnswerIsTold
<1>7. Life[k] = keys[k].use /\ new = Promise!After(q, e) /\ q \in Allowed /\ Promise!Fits(q, e)
  BY <1>1 DEF Means, Life
<1> QED BY <1>3, <1>4, <1>5, <1>6, <1>7 DEF Promise!CarryOut

(* A key that runs out was used in the life that ends. *)
LEMMA ExpireForgets ==
    ASSUME CommandsInv, PromiseInv, NEW k \in Keys, Expire(k)
    PROVE  Promise!Forget(k)
<1>1. keys[k].state = "stored" /\ UNCHANGED <<entries, changes, request>>
  BY DEF Expire
<1>2. \E c \in changes : c.key = k /\ c.use = Life[k]
  BY <1>1 DEF PromiseInv, StoredThisLife, Life
<1>3. keys'[k].use = keys[k].use + 1 /\ \A l \in Keys \ {k} : keys'[l] = keys[l]
  BY DEF Expire, CommandsInv, TypeOK, FreeKey, UsedKey
<1>4. Life' = [Life EXCEPT ![k] = @ + 1]
  BY <1>3 DEF Life
<1> QED BY <1>1, <1>2, <1>4 DEF Promise!Forget, Told

(***************************************************************************)
(* The notebook keeps its promise (KeyedCommands): a step of a request is  *)
(* a whole command, a repeat, a true refusal, a loss, or nothing a client  *)
(* can tell.                                                               *)
(***************************************************************************)
THEOREM PromiseKept == Spec => KeepsThePromise
<1>1. Init => Promise!Init
  BY DEF Init, Promise!Init, NoEntry, Life, Told
<1>2. CommandsInv /\ PromiseInv /\ [Next]_vars => [Promise!Next]_Promise!vars
  <2> SUFFICES ASSUME CommandsInv, PromiseInv, [Next]_vars
               PROVE  [Promise!Next]_Promise!vars
    OBVIOUS
  <2>0. TypeOK /\ Unanswered
    BY DEF CommandsInv, PromiseInv
  <2>1. CASE UNCHANGED vars
    BY <2>1 DEF vars, Promise!vars, Life, Told
  <2>2. ASSUME NEW q \in Requests, Reserve(q) \/ Admit(q) PROVE UNCHANGED Promise!vars
    <3>1. \A r \in Requests : request'[r].answer = request[r].answer
      BY <2>0, <2>2 DEF Reserve, Admit, TypeOK
    <3> QED BY <2>2, <3>1 DEF Reserve, Admit, Promise!vars, Life, Told
  <2>3. ASSUME NEW q \in Requests, Abort(q) PROVE Promise!Lose(q)
    <3>1. ~At(q, "done") /\ Answered(q, [code |-> "lost"]) /\ UNCHANGED <<entries, keys, changes>>
      BY <2>3 DEF Abort
    <3>2. Promise!Answer(q, [code |-> "lost"])
      BY <2>0, <3>1, AnswerIsTold
    <3> QED BY <3>1, <3>2 DEF Promise!Lose, Life
  <2>4. CASE Next
    BY <2>2, <2>3, <2>4, RefusalIsTrue, ReplayRepeats, ChangeCarriesOut, ExpireForgets
    DEF Next, Handle, Promise!Next
  <2> QED BY <2>1, <2>4
<1>3. Init => PromiseInv
  BY InitPromise
<1>4. CommandsInv /\ PromiseInv /\ [Next]_vars => PromiseInv'
  BY NextPromise
<1> QED
  BY <1>1, <1>2, <1>3, <1>4, CommandsCorrect, PTL DEF Spec, KeepsThePromise, Promise!Spec
=============================================================================
