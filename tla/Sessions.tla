------------------------------ MODULE Sessions ------------------------------
(***************************************************************************)
(* Session cookies of one account and their revocation                     *)
(* (apps/api-py/app/security.py, routers/auth.py, routers/passwords.py,    *)
(* routers/admin_faculty.py, routers/admin_deletion.py,                    *)
(* account_deletion.py).                                                   *)
(*                                                                         *)
(* A cookie carries the version its account had when it was minted.  The   *)
(* account's row counts the revocations; a cookie whose version is behind  *)
(* the row is refused, and so is every cookie of an account that is        *)
(* disabled or removed.  Each worker process keeps what it last learnt of  *)
(* the row for TTL ticks: from its own SELECT, which runs outside the lock *)
(* of the cache, or from a handler of its own that has just committed.     *)
(*                                                                         *)
(* The handlers that count up load the row, add one to the copy and commit *)
(* it; no lock is held and the UPDATE sets the number.  After the commit   *)
(* the ORM reads the row again, and what it reads goes into the cache and, *)
(* at the doors other than Google's, into the new cookie.                  *)
(*                                                                         *)
(* An account deleted for good has no row.  The lookup of a cookie takes   *)
(* that for version 0, not barred, and lets every cookie of it in; the     *)
(* handlers that load the user refuse or fail.                             *)
(*                                                                         *)
(* Left out: passwords, codes and the Google flow, which admit whom they   *)
(* like; the attempt limits; the expiry of a cookie after twelve hours;    *)
(* the first pin of a Google identity.                                     *)
(***************************************************************************)
EXTENDS Naturals

CONSTANTS
    Workers,     \* processes, each with a cache
    NoWorker,
    Calls,       \* HTTP requests
    Offered,     \* the operations that are called
    TTL,         \* auth_revocation_cache_seconds
    Lag,         \* how long a handler takes from its load to its last step, at most
    Backoff,     \* _DB_FAILURE_BACKOFF_SECONDS
    MaxVersion,  \* bound on token_version
    MaxTime,     \* bound on the ticks of the clock
    MaxFaults    \* bound on failing reads and commits

Ops == {"request", "logout", "everywhere", "change", "password", "google", "reset",
        "disable", "enable", "remove", "restore", "signout", "delete"}

ASSUME ConstantsAssumption ==
    /\ Offered \subseteq Ops
    /\ TTL \in Nat /\ Lag \in Nat /\ Backoff \in Nat
    /\ MaxVersion \in Nat /\ MaxTime \in Nat /\ MaxFaults \in Nat

VARIABLES
    row,       \* the committed row: token_version, why the account is barred, whether it exists
    cache,     \* _version_cache of each worker
    retry,     \* ticks until the worker asks again after a failed read
    call,      \* the progress of each request
    tokens,    \* the versions of the cookies that were minted
    clock, faults,
    behind,    \* ticks since there was a row not past each version (history)
    barredFor  \* ticks since there was a row that was not barred (history)

vars == <<row, cache, retry, call, tokens, clock, faults, behind, barredFor>>

Versions == 0..MaxVersion

Bars == SUBSET {"disabled", "removed"}

(* users.token_version, and disabled_at and deleted_at where they are not null. *)
Row == [version : Versions, bars : Bars, there : BOOLEAN]

(* No row, as account_state reads it: version 0, and neither date. *)
Gone == [version |-> 0, bars |-> {}, there |-> FALSE]

(* What is noted of a deleted account, 10**9: past every version. *)
PastAll == MaxVersion + 1

(* An entry of the cache; `left' is what remains until its deadline. *)
Entry == [version : 0..PastAll, disabled : BOOLEAN, left : 0..TTL]

(* Operations behind get_current_session (or, at logout, verify_session_token). *)
NeedsSession == {"request", "logout", "everywhere", "change"}

(* Sign-in doors, and the change of a password, which gives the caller a new cookie. *)
Mints == {"password", "google", "change"}

(* Operations that begin by refusing an account that is barred. *)
RefusesBarred == {"password", "google", "reset"}

(***************************************************************************)
(* A request: the cookie it sends, and later the version of the one it     *)
(* gives, the deadline of what it asks the database, the row as it read it *)
(* last, the ticks since it loaded the row, and how long its cookie had    *)
(* been behind when the worker took the evidence it decides on.            *)
(***************************************************************************)
Request ==
    [pc : {"new", "asking", "asked", "admitted", "loaded", "saved", "fresh", "done"},
     op : Ops, worker : Workers \cup {NoWorker}, token : Versions, left : 0..TTL, view : Row,
     lag : 0..Lag, age : 0..MaxTime]

NoRequest ==
    [pc |-> "new", op |-> "request", worker |-> NoWorker, token |-> 0,
     left |-> 0, view |-> [version |-> 0, bars |-> {}, there |-> TRUE], lag |-> 0, age |-> 0]

Init ==
    /\ row = [version |-> 0, bars |-> {}, there |-> TRUE]
    /\ cache = [w \in Workers |-> [version |-> 0, disabled |-> FALSE, left |-> 0]]
    /\ retry = [w \in Workers |-> 0]
    /\ call = [c \in Calls |-> NoRequest]
    /\ tokens = {0}
    /\ clock = 0 /\ faults = 0
    /\ behind = [v \in Versions |-> 0]
    /\ barredFor = 0

-----------------------------------------------------------------------------
(* verify_session_token, given what account_state answered. *)
Admits(version, disabled, token) == ~disabled /\ token >= version

Ended(c) == call' = [call EXCEPT ![c] = [NoRequest EXCEPT !.pc = "done"]]

Goes(c, req, admitted) ==
    call' = [call EXCEPT ![c] = [req EXCEPT !.pc = IF admitted THEN "admitted" ELSE "done",
                                            !.left = 0]]

(* The first locked section of account_state: the entry that is still good, *)
(* the refusal while the database is not asked, or the start of a read,     *)
(* whose deadline counts from now.                                          *)
Check(c, req) ==
    LET e == cache[req.worker] IN
    \/ e.left > 0 /\ Goes(c, req, Admits(e.version, e.disabled, req.token))
    \/ e.left = 0 /\ retry[req.worker] > 0 /\ Goes(c, req, FALSE)
    \/ /\ e.left = 0 /\ retry[req.worker] = 0
       /\ call' = [call EXCEPT ![c] = [req EXCEPT !.pc = "asking", !.left = TTL]]

Arrive(c, w, op, token) ==
    /\ call[c].pc = "new"
    /\ Check(c, [NoRequest EXCEPT !.op = op, !.worker = w, !.token = token,
                                  !.age = behind[token]])
    /\ UNCHANGED <<row, cache, retry, tokens, clock, faults, behind, barredFor>>

(* The SELECT of account_state, which may find no row. *)
Ask(c) ==
    /\ call[c].pc = "asking"
    /\ call' = [call EXCEPT ![c].pc = "asked", ![c].view = row,
                            ![c].age = behind[call[c].token]]
    /\ UNCHANGED <<row, cache, retry, tokens, clock, faults, behind, barredFor>>

(* A faulty variant: who cannot be looked up is let in. *)
AskFailsOpen(c) ==
    /\ call[c].pc = "asking" /\ faults < MaxFaults
    /\ Goes(c, call[c], TRUE)
    /\ faults' = faults + 1
    /\ UNCHANGED <<row, cache, retry, tokens, clock, behind, barredFor>>

(* The SELECT raises: the request is refused, and the worker asks no more for a while. *)
AskFails(c) ==
    /\ call[c].pc = "asking" /\ faults < MaxFaults
    /\ Goes(c, call[c], FALSE)
    /\ retry' = [retry EXCEPT ![call[c].worker] = Backoff]
    /\ faults' = faults + 1
    /\ UNCHANGED <<row, cache, tokens, clock, behind, barredFor>>

(* The deadline of what was asked.  Faulty variants: it counts from the     *)
(* answer, and it is one tick late.                                         *)
DeadlineFromAnswer(c) == TTL
DeadlineLate(c) == call[c].left + 1
Deadline(c) == call[c].left

(***************************************************************************)
(* The second locked section: what was read replaces the entry, whatever   *)
(* it is by now.  A row that was not there has version 0 and no bars, and  *)
(* so admits every cookie.                                                 *)
(***************************************************************************)
Learn(c) ==
    LET r == call[c].view IN
    /\ call[c].pc = "asked"
    /\ cache' = [cache EXCEPT ![call[c].worker] =
                    [version |-> r.version, disabled |-> r.bars # {}, left |-> Deadline(c)]]
    /\ Goes(c, call[c], Admits(r.version, r.bars # {}, call[c].token))
    /\ UNCHANGED <<row, retry, tokens, clock, faults, behind, barredFor>>

-----------------------------------------------------------------------------
(* The 409s of the office's endpoints, and the doors' refuse_disabled_sign_in. *)
Accepts(op, r) ==
    CASE op \in RefusesBarred -> r.bars = {}
      [] op = "disable" -> r.bars = {}
      [] op = "enable"  -> r.bars = {"disabled"}
      [] op = "remove"  -> "removed" \notin r.bars
      [] op = "restore" -> "removed" \in r.bars
      [] OTHER -> TRUE

(***************************************************************************)
(* The handler reads the user, at once or when the session was admitted,   *)
(* and refuses when there is none.                                         *)
(***************************************************************************)
Load(c, req) ==
    /\ IF req.op # "request" /\ row.there /\ Accepts(req.op, row) /\ row.version < MaxVersion
       THEN call' = [call EXCEPT ![c] = [req EXCEPT !.pc = "loaded", !.view = row]]
       ELSE Ended(c)
    /\ UNCHANGED <<row, cache, retry, tokens, clock, faults, behind, barredFor>>

Open(c, w, op) ==
    call[c].pc = "new" /\ Load(c, [NoRequest EXCEPT !.op = op, !.worker = w])

Proceed(c) == call[c].pc = "admitted" /\ Load(c, call[c])

(* The UPDATE of the columns the handler changed, or the DELETE of the row. *)
Written(op, view) ==
    IF op = "delete" THEN Gone
    ELSE [row EXCEPT
            !.version = IF op \in {"enable", "restore"} THEN @ ELSE view.version + 1,
            !.bars = CASE op = "disable" -> @ \cup {"disabled"}
                       [] op = "enable"  -> @ \ {"disabled"}
                       [] op = "remove"  -> @ \cup {"removed"}
                       [] op = "restore" -> @ \ {"removed"}
                       [] OTHER -> @]

(* Who deletes an account has no need of its row. *)
NeedsRow(c) == call[c].op # "delete"

Commit(c) ==
    LET r == Written(call[c].op, call[c].view) IN
    /\ call[c].pc = "loaded" /\ (NeedsRow(c) => row.there)
    /\ row' = r
    /\ behind' = [v \in Versions |-> IF r.there /\ r.version <= v THEN 0 ELSE behind[v]]
    /\ barredFor' = IF r.there /\ r.bars = {} THEN 0 ELSE barredFor
    /\ call' = [call EXCEPT ![c].pc = "saved"]
    /\ UNCHANGED <<cache, retry, tokens, clock, faults>>

(***************************************************************************)
(* The commit fails, or what follows it: the reading of the row, for a     *)
(* deletion the commit of its audit entry.  Both fail when the row is gone *)
(* by then.  Google's door goes on with the payload it has built.          *)
(***************************************************************************)
CommitFails(c) ==
    /\ call[c].pc \in {"loaded", "saved"}
    /\ \/ faults < MaxFaults /\ faults' = faults + 1
       \/ NeedsRow(c) /\ ~row.there /\ UNCHANGED faults
    /\ tokens' = IF call[c].op = "google" THEN tokens \cup {call[c].view.version + 1} ELSE tokens
    /\ Ended(c)
    /\ UNCHANGED <<row, cache, retry, clock, behind, barredFor>>

(* The commit expired the user: its first attribute reads the row again. *)
Refresh(c) ==
    /\ call[c].pc = "saved" /\ NeedsRow(c) /\ row.there
    /\ call' = [call EXCEPT ![c].pc = "fresh",
                            ![c].view = row,
                            ![c].token = IF call[c].op = "google"
                                         THEN call[c].view.version + 1 ELSE row.version]
    /\ UNCHANGED <<row, cache, retry, tokens, clock, faults, behind, barredFor>>

(* The `disabled' that each caller of note_revocation passes. *)
NotedDisabled(op, r) ==
    \/ op \in {"disable", "remove"}
    \/ op \in {"restore", "signout"} /\ "disabled" \in r.bars

(* _payload_for, which Google's door has called before the commit; without *)
(* its backstop in the faulty variant.                                     *)
MintedAnyway(req) == IF req.op \in Mints THEN {req.token} ELSE {}
Minted(req) ==
    IF req.op = "google" \/ (req.op \in Mints /\ req.view.bars = {}) THEN {req.token} ELSE {}

(* What note_revocation is called with. *)
Noted(req) ==
    IF req.op = "delete" THEN [version |-> PastAll, disabled |-> TRUE, left |-> TTL]
    ELSE [version |-> req.view.version, disabled |-> NotedDisabled(req.op, req.view), left |-> TTL]

(* note_revocation, and the new cookie. *)
Note(c) ==
    LET q == call[c] IN
    /\ q.pc = IF NeedsRow(c) THEN "fresh" ELSE "saved"
    /\ cache' = [cache EXCEPT ![q.worker] = Noted(q)]
    /\ tokens' = tokens \cup Minted(q)
    /\ Ended(c)
    /\ UNCHANGED <<row, retry, clock, faults, behind, barredFor>>

-----------------------------------------------------------------------------
Less(n) == IF n = 0 THEN 0 ELSE n - 1

InHandler(c) == call[c].pc \in {"loaded", "saved", "fresh"}

(* The clock ticks unless a handler would take longer than Lag. *)
Tick ==
    /\ clock < MaxTime
    /\ \A c \in Calls : InHandler(c) => call[c].lag < Lag
    /\ clock' = clock + 1
    /\ cache' = [w \in Workers |-> [cache[w] EXCEPT !.left = Less(cache[w].left)]]
    /\ retry' = [w \in Workers |-> Less(retry[w])]
    /\ call' = [c \in Calls |-> [call[c] EXCEPT
                    !.left = Less(call[c].left),
                    !.lag = IF InHandler(c) THEN call[c].lag + 1 ELSE call[c].lag]]
    /\ behind' = [v \in Versions |-> IF row.there /\ row.version <= v THEN 0 ELSE behind[v] + 1]
    /\ barredFor' = IF row.there /\ row.bars = {} THEN 0 ELSE barredFor + 1
    /\ UNCHANGED <<row, tokens, faults>>

Next ==
    \/ \E c \in Calls, w \in Workers :
          \/ \E op \in Offered \cap NeedsSession, v \in tokens : Arrive(c, w, op, v)
          \/ \E op \in Offered \ NeedsSession : Open(c, w, op)
    \/ \E c \in Calls :
          \/ Ask(c) \/ AskFails(c) \/ Learn(c)
          \/ Proceed(c) \/ Commit(c) \/ CommitFails(c) \/ Refresh(c) \/ Note(c)
    \/ Tick

Spec == Init /\ [][Next]_vars

-----------------------------------------------------------------------------
TypeOK ==
    /\ row \in Row
    /\ cache \in [Workers -> Entry]
    /\ retry \in [Workers -> 0..Backoff]
    /\ call \in [Calls -> Request]
    /\ tokens \subseteq Versions
    /\ clock \in 0..MaxTime /\ faults \in 0..MaxFaults
    /\ behind \in [Versions -> 0..clock]
    /\ barredFor \in 0..clock

(* The entry is the answer that the account has no row. *)
ReadAsGone(e) == ~row.there /\ e.version = 0 /\ ~e.disabled

(***************************************************************************)
(* Revocation reaches every worker in time: an entry that would still let  *)
(* a version in runs out no later than TTL ticks, and the time a handler   *)
(* takes, after there last was a row not past that version - although a    *)
(* slow reader may put an old row over a newer entry.  The one exception   *)
(* is the answer that there is no row, which a worker that asks about a    *)
(* deleted account may keep for ever                                       *)
(* (security.py:account_state, note_revocation).                           *)
(***************************************************************************)
RevocationReaches ==
    \A w \in Workers, v \in Versions :
        cache[w].left > 0 /\ cache[w].version <= v
            => behind[v] + cache[w].left <= TTL + Lag \/ ReadAsGone(cache[w])

(***************************************************************************)
(* A revoked cookie is let in for a while only: as long as the account has *)
(* a row, that row had not counted past the cookie's version TTL + Lag     *)
(* ticks before the worker looked, in its cache or in the database, also   *)
(* while the database cannot be asked.  It says nothing of an account that *)
(* is deleted, whose cookies are let in, nor of a bar beyond the version   *)
(* that disabling and removing count up                                    *)
(* (security.py:verify_session_token).                                     *)
(***************************************************************************)
AdmittedOnEvidence ==
    row.there =>
        \A c \in Calls :
            call[c].pc = "admitted" /\ call[c].op \in NeedsSession => call[c].age <= TTL + Lag

(* A request hands a cookie out, with a new version or with one that exists. *)
Gives(c) ==
    \/ Note(c) /\ Minted(call[c]) # {}
    \/ CommitFails(c) /\ call[c].op = "google"

(***************************************************************************)
(* No cookie is handed out for an account that has been barred, or         *)
(* deleted, for longer than a handler takes, although a worker may go on   *)
(* admitting its old cookies                                               *)
(* (routers/auth.py:_payload_for, refuse_disabled_sign_in).                *)
(***************************************************************************)
NoCookieLongAfterBar == [][\A c \in Calls : Gives(c) => barredFor <= Lag]_vars

\* The histories count from the last step at which the row was otherwise.
HistoriesExact ==
    /\ ~row.there => row = Gone
    /\ row.there =>
          /\ \A v \in Versions : row.version <= v => behind[v] = 0
          /\ row.bars = {} => barredFor = 0

\* What a request has read is not older than its deadline, or its lag, tells;
\* only a row that is gone was seen to be gone.
ReadAsOld(q) ==
    /\ row.there => q.view.there
    /\ ~q.view.there => q.view = Gone
    /\ q.pc = "asked" /\ q.view.there =>
          /\ \A v \in Versions : q.view.version <= v /\ q.left > 0 => behind[v] + q.left <= TTL
          /\ q.view.version <= q.token => q.age = 0
    /\ q.pc = "fresh" =>
          /\ \A v \in Versions : q.view.version <= v => behind[v] <= q.lag
          /\ q.view.bars = {} => barredFor <= q.lag
    /\ q.op = "google" /\ q.pc \in {"loaded", "saved", "fresh"} => barredFor <= q.lag
    /\ q.pc \in {"loaded", "saved"} => q.view.version < MaxVersion

ReadsNotOlder == \A c \in Calls : ReadAsOld(call[c])

(* The invariant that is inductive: an old reading still on its way to the *)
(* cache carries a deadline that is as old.                                *)
SessionsInv ==
    /\ TypeOK
    /\ RevocationReaches
    /\ AdmittedOnEvidence
    /\ HistoriesExact
    /\ ReadsNotOlder

=============================================================================
