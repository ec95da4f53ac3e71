---------------------------- MODULE AccountLinks ----------------------------
(***************************************************************************)
(* The one-time links and codes of one account (account_links.py) and the  *)
(* requests that issue, spend and retire them (routers/onboarding.py,      *)
(* routers/passwords.py, routers/auth.py, routers/admin_faculty.py).       *)
(*                                                                         *)
(* Every statement names one user, so accounts do not meet.  A request     *)
(* reads, then spends a token by an UPDATE that holds its row until the    *)
(* commit, then retires others by a statement that works on the rows it    *)
(* saw when it began and waits for the locks on them.  Transactions are    *)
(* READ COMMITTED.  A token bears the name of the request that issued it.  *)
(***************************************************************************)
EXTENDS Naturals, FiniteSets

CONSTANTS
    Calls,      \* the requests
    MaxExpired, \* bound: the tokens whose life is over, unspent, at one time
    Old,        \* tokens that are out when the story begins
    NoToken     \* no token

ASSUME ConstantsAssumption ==
    IsFiniteSet(Calls) /\ Old \cap Calls = {} /\ NoToken \notin Calls \cup Old /\ MaxExpired \in Nat

VARIABLES
    acct,       \* the users row: its role, whether it has a password, barred_at
    token,      \* the auth_tokens rows
    call,       \* the requests
    effects     \* what was done on the strength of a token: <<request, token>>

vars == <<acct, token, call, effects>>

-----------------------------------------------------------------------------
Tokens == Calls \cup Old

CodePurposes == {"login_code", "onboard_code", "change_code"}

Purposes == {"activation", "reset", "onboard", "onboard_set"} \cup CodePurposes

Account == [role : {"STUDENT", "STAFF"}, password : BOOLEAN, barred : BOOLEAN]

(* A staff account is given no setup link and a student no activation link. *)
PurposesOf(role) == Purposes \ (IF role = "STUDENT" THEN {"activation"}
                                ELSE {"onboard", "onboard_code", "onboard_set"})

Token == [state : {"none", "live", "expired", "used", "retired"}, purpose : Purposes]

NoRow == [state |-> "none", purpose |-> "reset"]

Issuing == {"issue_activation", "issue_onboarding", "forgot", "start", "login",
            "change_password_code"}

Spending == {"activate", "verify", "set_first_password", "reset", "change_password",
             "login_with_code"}

Ops == Issuing \cup Spending \cup {"change_by_password", "disable", "enable"}

Request == [pc : {"new", "spend", "holding", "kill", "write", "done"},
            op : Ops, token : Tokens \cup {NoToken}, issues : Purposes,
            seen : SUBSET Tokens, began : Nat]

Idle == [pc |-> "new", op |-> "enable", token |-> NoToken, issues |-> "reset",
         seen |-> {}, began |-> 0]

(* What a request spends. *)
Spends == [activate |-> "activation", verify |-> "onboard_code",
           set_first_password |-> "onboard_set", reset |-> "reset",
           change_password |-> "change_code", login_with_code |-> "login_code"]

(* The requests that issue a token, verify among them. *)
Issues(op) == op \in Issuing \cup {"verify"}

(* A faulty variant: the sign-in by code commits the code first. *)
SplitsWithLogin(op) == op \in {"verify", "change_password", "login_with_code"}

(* The requests that commit the spending before they go on. *)
Splits(op) == op \in {"verify", "change_password"}

(* What forgot sends. *)
ForgotPurpose(a) == IF a.password THEN "reset" ELSE "onboard"

(* A faulty variant: staff without a password are sent a setup link too. *)
HasForgotDoorAll == TRUE

(* Staff without a password wait for the link their administrator holds. *)
HasForgotDoor == acct.password \/ acct.role = "STUDENT"

(* What a request issues. *)
IssuedBy(op, a) ==
    CASE op = "issue_activation" -> "activation"
      [] op = "issue_onboarding" -> "onboard"
      [] op = "forgot" -> ForgotPurpose(a)
      [] op = "start" -> "onboard_code"
      [] op = "login" -> "login_code"
      [] op = "change_password_code" -> "change_code"
      [] OTHER -> "onboard_set"

(* A faulty variant: only links are superseded on issue. *)
SupersededLinks(p) == {p} \ CodePurposes

(* What a new token of purpose p supersedes. *)
SupersededBy(p) == {p}

(* The purposes whose tokens a request retires: the predecessors of what it *)
(* issues, what could finish what it has begun, or all.                     *)
Kills(c) ==
    LET op == call[c].op IN
    IF Issues(op) THEN SupersededBy(call[c].issues)
    ELSE IF op \in {"reset", "change_password", "change_by_password"} THEN {"reset"}
    ELSE IF op = "set_first_password" THEN {"onboard"}
    ELSE IF op = "disable" THEN Purposes ELSE {}

Live(p) == {t \in Tokens : token[t].state = "live" /\ token[t].purpose = p}

IsUnspent(t) == token[t].state \in {"live", "expired"}

Begun == {c \in Calls : call[c].pc # "new"}

(* created_at is the time the transaction began. *)
Began(t) == IF t \in Calls THEN call[t].began ELSE 0

(* The row a code is compared with. *)
Newest(p) == {t \in Live(p) : \A u \in Live(p) : Began(u) <= Began(t)}

(* The token a request brings is one that the SELECT finds. *)
Found(op, t) ==
    IF op \in Spending
    THEN t \in IF Spends[op] \in CodePurposes THEN Newest(Spends[op]) ELSE Live(Spends[op])
    ELSE t = NoToken

(* The row locks that spending requests hold, but for those of c itself. *)
LockedFor(c) ==
    {call[d].token : d \in {e \in Calls \ {c} :
        \/ call[e].pc = "holding"
        \/ (call[e].pc = "write" /\ ~Splits(call[e].op))}} \cap Tokens

-----------------------------------------------------------------------------
(* What an account may have been sent before. *)
SentBefore(a) ==
    IF a.password THEN {"reset", "login_code", "change_code"}
    ELSE IF a.role = "STUDENT" THEN {"onboard", "onboard_code", "onboard_set"}
    ELSE {"activation"}

Init ==
    /\ acct \in {a \in Account : ~a.barred}
    /\ token \in [Tokens -> {NoRow} \cup [state : {"live"}, purpose : SentBefore(acct)]]
    /\ \A t, u \in Tokens : token[t] = token[u] => t = u \/ token[t] = NoRow
    /\ \A c \in Calls : token[c] = NoRow
    /\ call = [c \in Calls |-> Idle]
    /\ effects = {}

(* A request has read the account and the token it was sent. *)
Begin(c, op, t) ==
    /\ call[c].pc = "new"
    /\ Found(op, t)
    /\ call' = [call EXCEPT ![c] =
                  [pc |-> IF op \in Spending THEN "spend" ELSE "kill",
                   op |-> op, token |-> t, issues |-> IssuedBy(op, acct), seen |-> {},
                   began |-> IF Issues(op) THEN Cardinality(Begun) + 1 ELSE 0]]
    /\ UNCHANGED <<acct, token, effects>>

AwaitsFirstPassword == acct.role = "STAFF" /\ ~acct.password /\ ~acct.barred

IssueActivation(c) == AwaitsFirstPassword /\ Begin(c, "issue_activation", NoToken)

Activate(c, t) == AwaitsFirstPassword /\ Begin(c, "activate", t)

IssueOnboarding(c) == acct.role = "STUDENT" /\ Begin(c, "issue_onboarding", NoToken)

(* The background half of forgot. *)
Forgot(c) == HasForgotDoor /\ ~acct.barred /\ Begin(c, "forgot", NoToken)

(* Both ask for the setup link, and neither spends it. *)
Invited == ~acct.barred /\ Live("onboard") # {}

Start(c) == Invited /\ Begin(c, "start", NoToken)

Verify(c, t) == Invited /\ Begin(c, "verify", t)

SetFirstPassword(c, t) == ~acct.barred /\ Begin(c, "set_first_password", t)

Reset(c, t) == ~acct.barred /\ Begin(c, "reset", t)

ChangePasswordCode(c) == acct.password /\ Begin(c, "change_password_code", NoToken)

ChangePassword(c, t) ==
    /\ acct.password
    /\ Begin(c, "change_password", t) \/ Begin(c, "change_by_password", t)

(* The first step: the password was right, and a code is mailed. *)
Login(c) == acct.password /\ ~acct.barred /\ Begin(c, "login", NoToken)

LoginWithCode(c, t) == ~acct.barred /\ Begin(c, "login_with_code", t)

DisableAccount(c) == ~acct.barred /\ Begin(c, "disable", NoToken)

EnableAccount(c) == acct.barred /\ Begin(c, "enable", NoToken)

(* A faulty variant: the UPDATE trusts what the SELECT found. *)
StillSpendableAsRead(c) == TRUE

(* The WHERE clause of the UPDATE that spends: a code's does not ask again *)
(* whether it has expired.                                                 *)
StillSpendable(c) ==
    LET t == call[c].token IN
    \/ token[t].state = "live"
    \/ (token[t].state = "expired" /\ token[t].purpose \in CodePurposes)

(* consume_user_token, consume_user_code: the row is locked and written. *)
Spend(c) ==
    /\ call[c].pc = "spend"
    /\ call[c].token \notin LockedFor(c)
    /\ StillSpendable(c)
    /\ call' = [call EXCEPT ![c].pc = "holding"]
    /\ UNCHANGED <<acct, token, effects>>

(* The commit of a code before the rest of its request. *)
CommitSpent(c) ==
    /\ call[c].pc = "holding"
    /\ Splits(call[c].op)
    /\ token' = [token EXCEPT ![call[c].token].state = "used"]
    /\ call' = [call EXCEPT ![c].pc = "kill"]
    /\ UNCHANGED <<acct, effects>>

(* The statement that retires other tokens begins: these rows it will write. *)
Look(c) ==
    /\ \/ call[c].pc = "kill"
       \/ call[c].pc = "holding" /\ ~Splits(call[c].op)
    /\ call' = [call EXCEPT ![c].pc = "write",
                            ![c].seen = {t \in Tokens \ {call[c].token} : IsUnspent(t)}]
    /\ UNCHANGED <<acct, token, effects>>

(* The rows that the statement found. *)
Retires(c) == {t \in call[c].seen : token[t].purpose \in Kills(c)}

(* The rows as a request commits them. *)
Committed(c) ==
    [t \in Tokens |->
        IF t = c /\ Issues(call[c].op) THEN [state |-> "live", purpose |-> call[c].issues]
        ELSE IF t = call[c].token THEN [token[t] EXCEPT !.state = "used"]
        ELSE IF t \in Retires(c) /\ IsUnspent(t) THEN [token[t] EXCEPT !.state = "retired"]
        ELSE token[t]]

(* The account as a request commits it. *)
Settled(c) ==
    [acct EXCEPT
        !.password = @ \/ call[c].op \in {"activate", "set_first_password", "reset",
                                          "change_password", "change_by_password"},
        !.barred = IF call[c].op = "disable" THEN TRUE
                   ELSE IF call[c].op = "enable" THEN FALSE ELSE @]

(* The commit, once the statement has had the rows it waited for. *)
Finish(c) ==
    /\ call[c].pc = "write"
    /\ Retires(c) \cap LockedFor(c) = {}
    /\ token' = Committed(c)
    /\ acct' = Settled(c)
    /\ effects' = IF call[c].op \in Spending THEN effects \cup {<<c, call[c].token>>} ELSE effects
    /\ call' = [call EXCEPT ![c] = [@ EXCEPT !.pc = "done"]]

(* A request is refused, fails, is picked to end a deadlock, or dies, and  *)
(* its locks are gone; one that holds none has just not gone on.           *)
Abort(c) ==
    /\ call[c].pc \in {"holding", "write"}
    /\ call' = [call EXCEPT ![c] = [Idle EXCEPT !.pc = "done"]]
    /\ UNCHANGED <<acct, token, effects>>

(* The life of a token is over, unless its UPDATE has been made. *)
Expire(t) ==
    /\ Cardinality({u \in Tokens : token[u].state = "expired"}) < MaxExpired
    /\ token[t].state = "live"
    /\ \A c \in Calls : t \notin LockedFor(c)
    /\ token' = [token EXCEPT ![t].state = "expired"]
    /\ UNCHANGED <<acct, call, effects>>

Next ==
    \/ \E c \in Calls :
        \/ IssueActivation(c) \/ IssueOnboarding(c) \/ Forgot(c) \/ Start(c)
        \/ ChangePasswordCode(c) \/ Login(c) \/ DisableAccount(c) \/ EnableAccount(c)
        \/ \E t \in Tokens \cup {NoToken} :
            \/ Activate(c, t) \/ Verify(c, t) \/ SetFirstPassword(c, t) \/ Reset(c, t)
            \/ ChangePassword(c, t) \/ LoginWithCode(c, t)
        \/ Spend(c) \/ CommitSpent(c) \/ Look(c) \/ Finish(c) \/ Abort(c)
    \/ \E t \in Tokens : Expire(t)

Spec == Init /\ [][Next]_vars

-----------------------------------------------------------------------------
(* Type correctness; a token fits the role of its account, so that no link *)
(* lets staff skip their administrator or a student the proof of the mail. *)
TypeOK ==
    /\ acct \in Account
    /\ token \in [Tokens -> Token]
    /\ \A t \in Tokens : token[t].state # "none" => token[t].purpose \in PurposesOf(acct.role)
    /\ call \in [Calls -> Request]
    /\ effects \subseteq Calls \X Tokens

(* A token does its work once, however often it is sent at once and however *)
(* many requests had found it alive before the first of them committed; and *)
(* what was done with it was done with a token spent, not one retired.      *)
OneEffect ==
    /\ \A a, b \in effects : a[2] = b[2] => a = b
    /\ \A a \in effects : token[a[2]].state = "used"

(* A link or sign-in code is spent exactly when what it is for was done:   *)
(* "a failure here leaves the code unspent rather than spent-and-refused". *)
SpentForItsEffect ==
    \A t \in Tokens : token[t].state = "used" /\ token[t].purpose \notin {"onboard_code", "change_code"}
        => \E c \in Calls : <<c, t>> \in effects

(* Once a resend, a new password or the disabling of the account is done,   *)
(* no token it should retire is left among those that were there when it    *)
(* looked: not one whose spending was under way at the time and failed, and *)
(* not one found again when the account is enabled.  So two tokens for one  *)
(* purpose are alive together only if their requests overlapped.            *)
Superseded ==
    \A c \in Calls : call[c].pc = "done" => \A t \in call[c].seen : IsUnspent(t) =>
        /\ call[c].op # "disable"
        /\ token[c].state # "none" => token[t].purpose # token[c].purpose
        /\ call[c].op \in {"reset", "change_password", "change_by_password"} =>
              token[t].purpose # "reset"
        /\ call[c].op = "set_first_password" => token[t].purpose # "onboard"

=============================================================================
