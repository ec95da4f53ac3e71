--------------------------- MODULE NotebookCommands ---------------------------
(***************************************************************************)
(* The idempotent commands of the mentor notebook                          *)
(* (apps/api-py/app/routers/redesign.py) and the keys that make them so    *)
(* (replay_or_reserve and store_response of architecture_events.py).       *)
(*                                                                         *)
(* Every command is one transaction.  It looks its Idempotency-Key up      *)
(* under a row lock, or inserts it (the unique constraint makes a second   *)
(* inserter wait for the first); it locks the entry it changes, checks it, *)
(* writes the change with its audit and outbox rows, stores the response   *)
(* on the key and commits.  Any refusal rolls the key back with the rest,  *)
(* so a committed key always carries a response: the branches for a key    *)
(* that is reserved and not answered are dead code and are left out.       *)
(*                                                                         *)
(* A key below is the triple principal, route and key: requests that share *)
(* one are of one operation on one entry.  Equal commands are equal        *)
(* request hashes.                                                         *)
(***************************************************************************)
EXTENDS Naturals, FiniteSets

CONSTANTS
    Requests,   \* HTTP requests; a client's retry is a request of its own
    Keys,
    Entries,    \* ids of notebook entries, in use or still to be drawn
    Written,    \* the entries that exist at the start, as first drafts
    KeyOf,      \* the key a request carries
    CommandOf,  \* what it asks for
    Allowed,    \* the requests whose sender may act on the student
    MaxExpiries,\* bound: how often the 24 hours of a key run out
    Nobody

Ops == {"create", "update", "publish", "archive", "attach", "create_action"}

(***************************************************************************)
(* `body' is what the payload adds to the route: the expected version of   *)
(* an update, and a number that tells different payloads apart otherwise.  *)
(* A create or create_action is addressed to a student: its `entry' plays  *)
(* no part.                                                                *)
(***************************************************************************)
Command == [op : Ops, entry : Entries, body : Nat]

ASSUME ConstantsAssumption ==
    /\ KeyOf \in [Requests -> Keys]
    /\ CommandOf \in [Requests -> Command]
    /\ Written \subseteq Entries
    /\ Allowed \subseteq Requests
    /\ MaxExpiries \in Nat
    /\ Nobody \notin Requests

ASSUME KeyNamesRoute ==
    \A q, r \in Requests : KeyOf[q] = KeyOf[r] =>
        /\ CommandOf[q].op = CommandOf[r].op
        /\ CommandOf[q].entry = CommandOf[r].entry

VARIABLES
    entries,      \* the committed notebook entries
    keys,         \* the committed idempotency keys
    keyLock,      \* which transaction holds the key row
    entryLock,    \* which transaction holds the entry row FOR UPDATE
    request,      \* the progress and the answer of each request
    changes,      \* every committed change: the audit and outbox rows
    expiries

vars == <<entries, keys, keyLock, entryLock, request, changes, expiries>>

Entry == [status : {"ABSENT", "DRAFT", "PUBLISHED", "ARCHIVED"}, version : Nat]

NoEntry == [status |-> "ABSENT", version |-> 0]

(* A response names the entry and its version after the command. *)
Response == [entry : Entries, version : Nat]

Refusals == {"403", "404", "409"}

(* "lost" is no answer: the connection broke. *)
Answer == [code : Refusals \cup {"none", "lost"}] \cup [code : {"success"}, response : Response]

(***************************************************************************)
(* `use' counts the lives of a key that are over: an expired row is deleted*)
(* and the key reserved anew.                                              *)
(***************************************************************************)
Change == [by : Requests, key : Keys, use : Nat, command : Command, response : Response]

FreeKey == [state : {"free"}, use : Nat]

UsedKey == [state : {"stored", "expired"}, use : Nat, command : Command, response : Response]

Init ==
    /\ entries = [e \in Entries |->
                    IF e \in Written THEN [status |-> "DRAFT", version |-> 1] ELSE NoEntry]
    /\ keys = [k \in Keys |-> [state |-> "free", use |-> 0]]
    /\ keyLock = [k \in Keys |-> Nobody]
    /\ entryLock = [e \in Entries |-> Nobody]
    /\ request = [q \in Requests |-> [pc |-> "start", seen |-> NoEntry, answer |-> [code |-> "none"]]]
    /\ changes = {}
    /\ expiries = 0

-----------------------------------------------------------------------------
Op(q) == CommandOf[q].op

At(q, pc) == request[q].pc = pc

KeyFree(q) == keyLock[KeyOf[q]] = Nobody

(* The commands that take the entry's row lock. *)
Locks(q) == Op(q) \in {"update", "publish", "archive"}

Entered(q) == CommandOf[q].entry

Gone(e) == entries[e].status \in {"ABSENT", "ARCHIVED"}

(* A faulty variant: the expected version is not compared. *)
RefusalBlind(q) ==
    {n \in Refusals : n = "404" /\ (Gone(Entered(q)) \/ q \notin Allowed)}

(***************************************************************************)
(* The refusal a command meets once it has its entry, in the order of the  *)
(* code: not found, out of scope (which is answered in the same way),      *)
(* changed by another user.  A notebook entry is archived and deleted in   *)
(* one command, so publish_entry's own refusal of archived entries is      *)
(* never reached.                                                          *)
(***************************************************************************)
Refusal(q) ==
    {n \in Refusals :
        \/ n = "404" /\ (Gone(Entered(q)) \/ q \notin Allowed)
        \/ /\ n = "409" /\ ~Gone(Entered(q)) /\ q \in Allowed
           /\ Op(q) = "update" /\ entries[Entered(q)].version # CommandOf[q].body}

Answered(q, a) ==
    request' = [request EXCEPT ![q] = [pc |-> "done", seen |-> NoEntry, answer |-> a]]

(* A faulty variant: a refused command keeps its key reserved. *)
ReleaseEntryOnly(q) ==
    /\ entryLock' = [e \in Entries |-> IF entryLock[e] = q THEN Nobody ELSE entryLock[e]]
    /\ UNCHANGED keyLock

(* What the end of a transaction, either way, gives back. *)
Release(q) ==
    /\ keyLock' = [k \in Keys |-> IF keyLock[k] = q THEN Nobody ELSE keyLock[k]]
    /\ entryLock' = [e \in Entries |-> IF entryLock[e] = q THEN Nobody ELSE entryLock[e]]

-----------------------------------------------------------------------------
(* The commands addressed to a student, who may have no entry yet. *)
ForStudent(q) == Op(q) \in {"create", "create_action"}

(* Those check the scope (404) and the role (403) before they look the key up. *)
Forbid(q) ==
    /\ At(q, "start") /\ ForStudent(q) /\ q \notin Allowed
    /\ \E n \in {"403", "404"} : Answered(q, [code |-> n])
    /\ UNCHANGED <<entries, keys, keyLock, entryLock, changes, expiries>>

Heard(q) == At(q, "start") /\ (ForStudent(q) => q \in Allowed) /\ KeyFree(q)

(* A faulty variant: the request hash is not compared. *)
SameHashUnchecked(q) == TRUE

SameHash(q) == keys[KeyOf[q]].command = CommandOf[q]

(***************************************************************************)
(* replay_or_reserve finds a live key: the stored response is the answer   *)
(* when the request hash is the same, else a conflict.  The row's          *)
(* last_seen_at is never committed.                                        *)
(***************************************************************************)
Replay(q) ==
    /\ Heard(q)
    /\ keys[KeyOf[q]].state = "stored"
    /\ SameHash(q)
    /\ Answered(q, [code |-> "success", response |-> keys[KeyOf[q]].response])
    /\ UNCHANGED <<entries, keys, keyLock, entryLock, changes, expiries>>

Conflict(q) ==
    /\ Heard(q)
    /\ keys[KeyOf[q]].state = "stored"
    /\ ~SameHash(q)
    /\ Answered(q, [code |-> "409"])
    /\ UNCHANGED <<entries, keys, keyLock, entryLock, changes, expiries>>

(* It inserts a new key, after deleting an expired one. *)
Reservable(k) == keys[k].state \in {"free", "expired"}

Reserve(q) ==
    /\ Heard(q)
    /\ Reservable(KeyOf[q])
    /\ keyLock' = [keyLock EXCEPT ![KeyOf[q]] = q]
    /\ request' = [request EXCEPT ![q].pc = "reserved"]
    /\ UNCHANGED <<entries, keys, entryLock, changes, expiries>>

(***************************************************************************)
(* The command reads its entry, FOR UPDATE or, to attach a file, without a *)
(* lock, and is refused or goes on.                                        *)
(***************************************************************************)
Reads(q) ==
    /\ At(q, "reserved") /\ ~ForStudent(q)
    /\ Locks(q) => entryLock[Entered(q)] = Nobody

Refuse(q) ==
    /\ Reads(q)
    /\ \E n \in Refusal(q) : Answered(q, [code |-> n])
    /\ Release(q)
    /\ UNCHANGED <<entries, keys, changes, expiries>>

Admit(q) ==
    /\ Reads(q)
    /\ Refusal(q) = {}
    /\ entryLock' = IF Locks(q) THEN [entryLock EXCEPT ![Entered(q)] = q] ELSE entryLock
    /\ request' = [request EXCEPT ![q].pc = "admitted", ![q].seen = entries[Entered(q)]]
    /\ UNCHANGED <<entries, keys, keyLock, changes, expiries>>

(* A faulty variant: the response is not stored on the key. *)
CommitUnstored(q, e, new) ==
    LET response == [entry |-> e, version |-> new.version]
        k == KeyOf[q]
    IN  /\ entries' = [entries EXCEPT ![e] = new]
        /\ keys' = [keys EXCEPT ![k] = [state |-> "free", use |-> keys[k].use]]
        /\ changes' = changes \cup {[by |-> q, key |-> k, use |-> keys[k].use,
                                     command |-> CommandOf[q], response |-> response]}
        /\ Answered(q, [code |-> "success", response |-> response])
        /\ Release(q)
        /\ UNCHANGED expiries

(***************************************************************************)
(* The commit: the entry in its new state, the audit and outbox rows, the  *)
(* response on the key, and both locks given back.                         *)
(***************************************************************************)
Commit(q, e, new) ==
    LET response == [entry |-> e, version |-> new.version]
        k == KeyOf[q]
    IN  /\ entries' = [entries EXCEPT ![e] = new]
        /\ keys' = [keys EXCEPT ![k] =
                      [state |-> "stored", use |-> keys[k].use,
                       command |-> CommandOf[q], response |-> response]]
        /\ changes' = changes \cup {[by |-> q, key |-> k, use |-> keys[k].use,
                                     command |-> CommandOf[q], response |-> response]}
        /\ Answered(q, [code |-> "success", response |-> response])
        /\ Release(q)
        /\ UNCHANGED expiries

Create(q) ==
    /\ At(q, "reserved") /\ Op(q) = "create"
    /\ \E e \in Entries :
        /\ entries[e].status = "ABSENT"
        /\ Commit(q, e, [status |-> "DRAFT", version |-> 1])

(* An action has a row of its own, which no later command touches. *)
CreateAction(q) ==
    /\ At(q, "reserved") /\ Op(q) = "create_action"
    /\ Commit(q, Entered(q), entries[Entered(q)])

(* A faulty variant: an update puts its entry back to draft. *)
StatusAfterDrafted(op, old) == CASE op = "publish" -> "PUBLISHED"
                                 [] op = "archive" -> "ARCHIVED"
                                 [] OTHER -> "DRAFT"

(* A faulty variant: an archived entry is given a status of its own. *)
StatusAfterDeleted(op, old) == CASE op = "publish" -> "PUBLISHED"
                                 [] op = "archive" -> "DELETED"
                                 [] OTHER -> old

StatusAfter(op, old) == CASE op = "publish" -> "PUBLISHED"
                          [] op = "archive" -> "ARCHIVED"
                          [] OTHER -> old

Apply(q) ==
    /\ At(q, "admitted") /\ Op(q) # "attach"
    /\ LET old == request[q].seen
       IN  Commit(q, Entered(q), [status |-> StatusAfter(Op(q), old.status),
                                  version |-> old.version + 1])

(* The new row's foreign key waits for a transaction that holds the entry. *)
Attach(q) ==
    /\ At(q, "admitted") /\ Op(q) = "attach"
    /\ entryLock[Entered(q)] = Nobody
    /\ Commit(q, Entered(q), entries[Entered(q)])

(* The server dies, or the database gives up: the transaction rolls back. *)
Abort(q) ==
    /\ ~At(q, "done")
    /\ Answered(q, [code |-> "lost"])
    /\ Release(q)
    /\ UNCHANGED <<entries, keys, changes, expiries>>

(* _IDEMPOTENCY_TTL passes. *)
Expire(k) ==
    /\ expiries < MaxExpiries
    /\ keys[k].state = "stored"
    /\ keys' = [keys EXCEPT ![k].state = "expired", ![k].use = @ + 1]
    /\ expiries' = expiries + 1
    /\ UNCHANGED <<entries, keyLock, entryLock, request, changes>>

Handle(q) ==
    \/ Forbid(q) \/ Replay(q) \/ Conflict(q) \/ Reserve(q)
    \/ Refuse(q) \/ Admit(q) \/ Create(q) \/ CreateAction(q) \/ Apply(q)
    \/ Attach(q)

Next ==
    \/ \E q \in Requests : Handle(q) \/ Abort(q)
    \/ \E k \in Keys : Expire(k)

Spec == Init /\ [][Next]_vars

(* A handler runs on: PostgreSQL hands a row lock that is given back on. *)
Fairness == \A q \in Requests : WF_vars(Handle(q))

FairSpec == Spec /\ Fairness

-----------------------------------------------------------------------------
TypeOK ==
    /\ entries \in [Entries -> Entry]
    /\ keys \in [Keys -> FreeKey \cup UsedKey]
    /\ keyLock \in [Keys -> Requests \cup {Nobody}]
    /\ entryLock \in [Entries -> Requests \cup {Nobody}]
    /\ request \in [Requests -> [pc : {"start", "reserved", "admitted", "done"},
                                 seen : Entry, answer : Answer]]
    /\ changes \subseteq Change
    /\ expiries \in 0..MaxExpiries

(***************************************************************************)
(* However many requests carry a key, and whichever of them die, the       *)
(* command is carried out at most once in each life of the key             *)
(* (replay_or_reserve).                                                    *)
(***************************************************************************)
OncePerKey == \A c, d \in changes : c.key = d.key /\ c.use = d.use => c = d

(***************************************************************************)
(* A client told of success, by a retry of its own or at first hand, is    *)
(* told the outcome of a change that was made, for the very command it     *)
(* sent, under its key (replay_or_reserve, store_response).                *)
(***************************************************************************)
SuccessIsReal ==
    \A q \in Requests : request[q].answer.code = "success" =>
        \E c \in changes : /\ c.key = KeyOf[q]
                           /\ c.command = CommandOf[q]
                           /\ c.response = request[q].answer.response

(***************************************************************************)
(* Two authors who start from one version cannot both have their text: the *)
(* update that succeeds follows the version it expected at once            *)
(* (update_entry).                                                         *)
(***************************************************************************)
UpdatesFollowTheirVersion ==
    \A c \in changes : c.command.op = "update" => c.response.version = c.command.body + 1

StudentSees(e) == entries[e].status = "PUBLISHED"

(***************************************************************************)
(* A student sees an entry exactly when its trail says that it was         *)
(* published and not taken back since (student_notebook, publish_entry,    *)
(* archive_entry), whatever else was done to it in between.                *)
(***************************************************************************)
SeenAsPublished ==
    \A e \in Entries : StudentSees(e) <=>
        /\ \E c \in changes : c.response.entry = e /\ c.command.op = "publish"
        /\ ~\E c \in changes : c.response.entry = e /\ c.command.op = "archive"

(***************************************************************************)
(* An archived entry is never touched again: not published, not edited by  *)
(* a request that had read it before (publish_entry, update_entry).        *)
(***************************************************************************)
ArchivedIsFinal ==
    [][\A e \in Entries : entries[e].status = "ARCHIVED" => entries'[e] = entries[e]]_vars

(***************************************************************************)
(* Every request is answered: commands take the key and then the entry, so *)
(* none waits for one that waits for it, and a refusal leaves no lock      *)
(* behind.                                                                 *)
(***************************************************************************)
EveryRequestAnswered == \A q \in Requests : <>At(q, "done")

-----------------------------------------------------------------------------
(* The life each key is in, and what each client was told. *)
Life == [k \in Keys |-> keys[k].use]

Told == [q \in Requests |-> request[q].answer]

Promise == INSTANCE KeyedCommands WITH ledger <- changes, life <- Life, answer <- Told

(***************************************************************************)
(* Locks, reservations and transactions add up to commands that are done   *)
(* in one step, once for a key, and refused for true reasons               *)
(* (KeyedCommands).                                                        *)
(***************************************************************************)
KeepsThePromise == Promise!Spec

(* `q' cannot go on before the transaction of `r' ends. *)
WaitsFor(q, r) ==
    \/ At(q, "start") /\ keyLock[KeyOf[q]] = r
    \/ At(q, "reserved") /\ Locks(q) /\ entryLock[Entered(q)] = r
    \/ At(q, "admitted") /\ Op(q) = "attach" /\ entryLock[Entered(q)] = r

(***************************************************************************)
(* No circle of waiting requests: whoever waits, for a key or an entry,    *)
(* waits for one that waits for nobody, or for one whose holder does       *)
(* (every command locks its key first and its entry second).               *)
(***************************************************************************)
NoWaitingInCircles ==
    \A q, r, s, t \in Requests : ~(WaitsFor(q, r) /\ WaitsFor(r, s) /\ WaitsFor(s, t))

(***************************************************************************)
(* No lock outlives its request, whichever way that ends: a held key is    *)
(* held by a request on its way that carries it, a held entry by one       *)
(* admitted to change it (Session.commit, Session.rollback).               *)
(***************************************************************************)
NoLockLeftBehind ==
    /\ \A k \in Keys, q \in Requests : keyLock[k] = q =>
          KeyOf[q] = k /\ request[q].pc \in {"reserved", "admitted"}
    /\ \A e \in Entries, q \in Requests : entryLock[e] = q =>
          Entered(q) = e /\ Locks(q) /\ At(q, "admitted")
=============================================================================
