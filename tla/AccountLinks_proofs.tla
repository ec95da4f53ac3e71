------------------------- MODULE AccountLinks_proofs -------------------------
(***************************************************************************)
(* What holds of links and codes for any number of requests and tokens.    *)
(* The argument is the row lock: a token that is being spent stays unspent *)
(* in the table, and no other request spends or retires it, until the one  *)
(* that holds it commits or gives up.                                      *)
(***************************************************************************)
EXTENDS AccountLinks, FiniteSetTheorems, TLAPS

HoldsRow(c) ==
    \/ call[c].pc = "holding"
    \/ call[c].pc = "write" /\ call[c].op \in Spending /\ ~Splits(call[c].op)

(* The spending is committed, the rest of the request is not. *)
HasSpent(c) == call[c].pc \in {"kill", "write"} /\ Splits(call[c].op)

(* A request carries a token of the purpose it spends, or none. *)
TokensFit ==
    \A c \in Calls : call[c].pc # "new" =>
        /\ call[c].op \in Spending =>
              /\ call[c].token \in Tokens
              /\ token[call[c].token].state # "none"
              /\ token[call[c].token].purpose = Spends[call[c].op]
        /\ call[c].op \notin Spending => call[c].token = NoToken
        /\ call[c].pc \in {"spend", "holding"} => call[c].op \in Spending
        /\ call[c].pc = "kill" => call[c].op \notin Spending \/ Splits(call[c].op)
        /\ Issues(call[c].op) => call[c].issues \in PurposesOf(acct.role)

(* What a statement saw are tokens, none of them the request's own. *)
SeenAreTokens ==
    \A c \in Calls : \A t \in call[c].seen :
        token[t].state # "none" /\ t # call[c].token /\ call[c].pc # "new"

(* A token appears with the commit of the request it is named after. *)
IssuedAtCommit == \A c \in Calls : token[c].state # "none" => call[c].pc = "done"

(* The row locks exclude one another and keep the token unspent. *)
LocksHold ==
    \A c \in Calls : HoldsRow(c) =>
        /\ IsUnspent(call[c].token)
        /\ \A d \in Calls \ {c} : HoldsRow(d) => call[d].token # call[c].token

(* A code committed ahead of its effect is spent, and nobody else's. *)
SpentAhead ==
    \A c \in Calls : HasSpent(c) =>
        /\ token[call[c].token].state = "used"
        /\ \A e \in effects : e[2] # call[c].token
        /\ \A d \in Calls \ {c} : HasSpent(d) => call[d].token # call[c].token

EffectsCommitted == \A e \in effects : call[e[1]].pc = "done"

(* The inductive invariant. *)
LinksInv ==
    /\ TypeOK
    /\ TokensFit
    /\ SeenAreTokens
    /\ IssuedAtCommit
    /\ LocksHold
    /\ SpentAhead
    /\ EffectsCommitted
    /\ OneEffect
    /\ SpentForItsEffect
    /\ Superseded

-----------------------------------------------------------------------------
(* What each request spends, and which of them commit it at once. *)
LEMMA SpendsFacts ==
    /\ \A op \in Spending : Spends[op] \in Purposes
    /\ \A op : Splits(op) => op \in Spending /\ Spends[op] \in {"onboard_code", "change_code"}
    /\ \A op \in Ops : \A a \in Account : IssuedBy(op, a) \in Purposes
BY DEF Spending, Spends, Purposes, CodePurposes, Splits, IssuedBy, ForgotPurpose, Ops, Issuing

(* The place of a request in the order of beginnings is a number. *)
LEMMA BegunIsCounted == Cardinality(Begun) \in Nat
<1>1. IsFiniteSet(Begun)
  BY ConstantsAssumption, FS_Subset DEF Begun
<1> QED
  BY <1>1, FS_CardinalityType

(* The invariant holds of an account with links that are out. *)
LEMMA InitInv == Init => LinksInv
<1> SUFFICES ASSUME Init PROVE LinksInv
  OBVIOUS
<1> USE DEF Init
<1>1. \A c \in Calls : call[c] = Idle
  OBVIOUS
<1>2. Idle \in Request /\ Idle.pc = "new" /\ Idle.seen = {}
  BY DEF Idle, Request, Ops, Purposes, Issuing
<1>3. acct \in Account
  OBVIOUS
<1>4. SentBefore(acct) \subseteq PurposesOf(acct.role) /\ SentBefore(acct) \subseteq Purposes
  BY <1>3 DEF SentBefore, PurposesOf, Account, Purposes, CodePurposes
<1>5. /\ token \in [Tokens -> Token]
      /\ \A t \in Tokens : token[t].state # "none" =>
            token[t].state = "live" /\ token[t].purpose \in PurposesOf(acct.role)
  <2> SUFFICES ASSUME NEW t \in Tokens
               PROVE  /\ token[t] \in Token
                      /\ token[t].state # "none" =>
                            token[t].state = "live" /\ token[t].purpose \in PurposesOf(acct.role)
    OBVIOUS
  <2>1. token[t] \in {NoRow} \cup [state : {"live"}, purpose : SentBefore(acct)]
    OBVIOUS
  <2>2. NoRow \in Token /\ NoRow.state = "none"
    BY DEF NoRow, Token, Purposes
  <2> QED
    BY <2>1, <2>2, <1>4 DEF Token
<1>6. TypeOK
  BY <1>1, <1>2, <1>3, <1>5 DEF TypeOK
<1>7. TokensFit /\ SeenAreTokens /\ EffectsCommitted /\ OneEffect
  BY <1>1, <1>2 DEF TokensFit, SeenAreTokens, EffectsCommitted, OneEffect
<1>8. IssuedAtCommit
  BY DEF IssuedAtCommit, NoRow
<1>9. LocksHold /\ SpentAhead /\ Superseded
  BY <1>1, <1>2 DEF LocksHold, SpentAhead, Superseded, HoldsRow, HasSpent
<1>10. SpentForItsEffect
  BY <1>5 DEF SpentForItsEffect
<1> QED
  BY <1>6, <1>7, <1>8, <1>9, <1>10 DEF LinksInv

-----------------------------------------------------------------------------
(* A request begins with a token that was found, and changes no row. *)
LEMMA BeginInv ==
    ASSUME LinksInv, NEW c \in Calls, NEW op \in Ops, NEW t \in Tokens \cup {NoToken},
           Begin(c, op, t),
           Issues(op) => IssuedBy(op, acct) \in PurposesOf(acct.role)
    PROVE  LinksInv'
<1> USE DEF LinksInv
<1> DEFINE r == [pc |-> IF op \in Spending THEN "spend" ELSE "kill",
                 op |-> op, token |-> t, issues |-> IssuedBy(op, acct), seen |-> {},
                 began |-> IF Issues(op) THEN Cardinality(Begun) + 1 ELSE 0]
<1>1. /\ call[c].pc = "new"
      /\ UNCHANGED <<acct, token, effects>>
      /\ call' = [call EXCEPT ![c] = r]
  BY DEF Begin
<1>2. call \in [Calls -> Request]
  BY DEF TypeOK
<1>3. call'[c] = r /\ \A d \in Calls \ {c} : call'[d] = call[d]
  BY <1>1, <1>2
<1>4. r \in Request
  BY SpendsFacts, BegunIsCounted DEF Request, TypeOK
<1>5. TypeOK'
  BY <1>1, <1>2, <1>4 DEF TypeOK
<1>6. /\ op \in Spending => t \in Tokens /\ token[t].state = "live" /\ token[t].purpose = Spends[op]
      /\ op \notin Spending => t = NoToken
  BY <1>1 DEF Begin, Found, Newest, Live
<1>7. TokensFit'
  BY <1>1, <1>3, <1>6 DEF TokensFit
<1>8. SeenAreTokens'
  BY <1>1, <1>3 DEF SeenAreTokens
<1>9. IssuedAtCommit' /\ EffectsCommitted'
  BY <1>1, <1>3 DEF IssuedAtCommit, EffectsCommitted, TypeOK
<1>10. ~HoldsRow(c)' /\ ~HasSpent(c)'
  BY <1>3, SpendsFacts DEF HoldsRow, HasSpent
<1>11. \A d \in Calls \ {c} : (HoldsRow(d)' <=> HoldsRow(d)) /\ (HasSpent(d)' <=> HasSpent(d))
  BY <1>3 DEF HoldsRow, HasSpent
<1>12. LocksHold' /\ SpentAhead'
  BY <1>1, <1>3, <1>10, <1>11 DEF LocksHold, SpentAhead, IsUnspent
<1>13. OneEffect' /\ SpentForItsEffect'
  BY <1>1 DEF OneEffect, SpentForItsEffect
<1>14. Superseded'
  BY <1>1, <1>3 DEF Superseded, IsUnspent
<1> QED
  BY <1>5, <1>7, <1>8, <1>9, <1>12, <1>13, <1>14

(* The lock is taken on a row that nobody else holds and that is unspent. *)
LEMMA SpendInv ==
    ASSUME LinksInv, NEW c \in Calls, Spend(c)
    PROVE  LinksInv'
<1> USE DEF LinksInv
<1>1. /\ call[c].pc = "spend"
      /\ call' = [call EXCEPT ![c].pc = "holding"]
      /\ UNCHANGED <<acct, token, effects>>
      /\ call[c].token \notin LockedFor(c)
      /\ IsUnspent(call[c].token)
  BY DEF Spend, StillSpendable, IsUnspent
<1>2. call \in [Calls -> Request]
  BY DEF TypeOK
<1>3. /\ call'[c] = [call[c] EXCEPT !.pc = "holding"]
      /\ \A d \in Calls \ {c} : call'[d] = call[d]
  BY <1>1, <1>2
<1>4. call[c].op \in Spending /\ call[c].token \in Tokens
  BY <1>1 DEF TokensFit
<1>5. TypeOK'
  BY <1>1, <1>2, <1>3 DEF TypeOK, Request
<1>6. TokensFit'
  BY <1>1, <1>2, <1>3, <1>4 DEF TokensFit, Request
<1>7. SeenAreTokens' /\ IssuedAtCommit' /\ EffectsCommitted'
  BY <1>1, <1>2, <1>3 DEF SeenAreTokens, IssuedAtCommit, EffectsCommitted, TypeOK, Request
<1>8. \A d \in Calls \ {c} : (HoldsRow(d)' <=> HoldsRow(d)) /\ (HasSpent(d)' <=> HasSpent(d))
  BY <1>3 DEF HoldsRow, HasSpent
<1>9. \A d \in Calls \ {c} : HoldsRow(d) => call[d].token # call[c].token
  BY <1>1, <1>4 DEF LockedFor, HoldsRow
<1>10. ~HasSpent(c)' /\ call'[c].token = call[c].token
  BY <1>2, <1>3 DEF HasSpent, Request
<1>11. LocksHold' /\ SpentAhead'
  BY <1>1, <1>3, <1>8, <1>9, <1>10 DEF LocksHold, SpentAhead, IsUnspent
<1>12. OneEffect' /\ SpentForItsEffect'
  BY <1>1 DEF OneEffect, SpentForItsEffect
<1>13. Superseded'
  BY <1>1, <1>2, <1>3 DEF Superseded, IsUnspent, Request
<1> QED
  BY <1>5, <1>6, <1>7, <1>11, <1>12, <1>13

(* The commit of a code ahead of its effect: the row was held, so nothing *)
(* was done with it before.                                               *)
LEMMA CommitSpentInv ==
    ASSUME LinksInv, NEW c \in Calls, CommitSpent(c)
    PROVE  LinksInv'
<1> USE DEF LinksInv
<1> DEFINE t == call[c].token
<1>1. /\ call[c].pc = "holding" /\ Splits(call[c].op)
      /\ token' = [token EXCEPT ![t].state = "used"]
      /\ call' = [call EXCEPT ![c].pc = "kill"]
      /\ UNCHANGED <<acct, effects>>
  BY DEF CommitSpent
<1>2. call \in [Calls -> Request] /\ token \in [Tokens -> Token]
  BY DEF TypeOK
<1>3. /\ call'[c] = [call[c] EXCEPT !.pc = "kill"]
      /\ \A d \in Calls \ {c} : call'[d] = call[d]
      /\ \A d \in Calls : call'[d].op = call[d].op /\ call'[d].token = call[d].token
                         /\ call'[d].seen = call[d].seen /\ call'[d].issues = call[d].issues
  BY <1>1, <1>2 DEF Request
<1>4. HoldsRow(c) /\ t \in Tokens /\ IsUnspent(t)
      /\ token[t].purpose \in {"onboard_code", "change_code"}
  BY <1>1, SpendsFacts DEF HoldsRow, TokensFit, LocksHold
<1>5. /\ \A u \in Tokens \ {t} : token'[u] = token[u]
      /\ token'[t].state = "used" /\ token'[t].purpose = token[t].purpose
      /\ token' \in [Tokens -> Token]
  BY <1>1, <1>2, <1>4 DEF Token
<1>6. TypeOK'
  BY <1>1, <1>2, <1>3, <1>4, <1>5 DEF TypeOK, Request, IsUnspent
<1>7. TokensFit'
  BY <1>1, <1>3, <1>4, <1>5 DEF TokensFit, IsUnspent
<1>8. SeenAreTokens'
  BY <1>1, <1>3, <1>4, <1>5, <1>2 DEF SeenAreTokens, IsUnspent, Request
<1>9. IssuedAtCommit' /\ EffectsCommitted'
  BY <1>1, <1>3, <1>4, <1>5 DEF IssuedAtCommit, EffectsCommitted, TypeOK, IsUnspent, Tokens
<1>10. /\ \A d \in Calls \ {c} : (HoldsRow(d)' <=> HoldsRow(d)) /\ (HasSpent(d)' <=> HasSpent(d))
       /\ ~HoldsRow(c)'
  BY <1>3 DEF HoldsRow, HasSpent
<1>11. LocksHold'
  <2> SUFFICES ASSUME NEW d \in Calls, HoldsRow(d)'
               PROVE  /\ IsUnspent(call[d].token)'
                      /\ \A e \in Calls \ {d} : HoldsRow(e)' => (call[e].token # call[d].token)'
    BY DEF LocksHold
  <2>1. d # c /\ HoldsRow(d) /\ call[d].token # t
    BY <1>4, <1>10 DEF LocksHold
  <2>2. call[d].token \in Tokens
    BY <2>1, <1>2 DEF HoldsRow, TokensFit, Request
  <2> QED
    BY <2>1, <2>2, <1>3, <1>5, <1>10 DEF LocksHold, IsUnspent
<1>12. SpentAhead'
  <2>1. \A e \in effects : e[2] # t
    BY <1>4 DEF OneEffect, IsUnspent
  <2>2. \A d \in Calls : HasSpent(d) => call[d].token # t
    BY <1>4 DEF SpentAhead, IsUnspent
  <2>3. \A d \in Calls : HasSpent(d) => call[d].token \in Tokens
    BY SpendsFacts DEF HasSpent, TokensFit
  <2> QED
    BY <1>1, <1>3, <1>5, <1>10, <2>1, <2>2, <2>3 DEF SpentAhead
<1>13. OneEffect'
  BY <1>1, <1>5 DEF OneEffect, TypeOK
<1>14. SpentForItsEffect'
  BY <1>1, <1>4, <1>5 DEF SpentForItsEffect
<1>15. Superseded'
  BY <1>1, <1>2, <1>3, <1>4, <1>5 DEF Superseded, IsUnspent, Tokens, Request
<1> QED
  BY <1>6, <1>7, <1>8, <1>9, <1>11, <1>12, <1>13, <1>14, <1>15

(* What the statement sees is there, and no lock changes hands. *)
LEMMA LookInv ==
    ASSUME LinksInv, NEW c \in Calls, Look(c)
    PROVE  LinksInv'
<1> USE DEF LinksInv
<1> DEFINE s == {t \in Tokens \ {call[c].token} : IsUnspent(t)}
<1>1. /\ call[c].pc = "kill" \/ (call[c].pc = "holding" /\ ~Splits(call[c].op))
      /\ call' = [call EXCEPT ![c].pc = "write", ![c].seen = s]
      /\ UNCHANGED <<acct, token, effects>>
  BY DEF Look
<1>0. /\ s \in SUBSET Tokens
      /\ \A t \in s : token[t].state # "none" /\ t # call[c].token
  BY DEF IsUnspent
<1> HIDE DEF s
<1>2. call \in [Calls -> Request]
  BY DEF TypeOK
<1>3. /\ call'[c] = [call[c] EXCEPT !.pc = "write", !.seen = s]
      /\ \A d \in Calls \ {c} : call'[d] = call[d]
      /\ call' \in [Calls -> Request]
  <2> DEFINE r == [call[c] EXCEPT !.pc = "write", !.seen = s]
  <2>1. call' = [call EXCEPT ![c] = r]
    BY <1>1, <1>2 DEF Request
  <2>2. r \in Request
    BY <1>0, <1>2 DEF Request
  <2> QED
    BY <2>1, <2>2, <1>2
<1>4. /\ call'[c].pc = "write" /\ call'[c].seen = s
      /\ \A d \in Calls : call'[d].op = call[d].op /\ call'[d].token = call[d].token
                         /\ call'[d].issues = call[d].issues
  <2>1. call[c] \in Request
    BY <1>2
  <2>2. /\ call'[c].pc = "write" /\ call'[c].seen = s /\ call'[c].op = call[c].op
        /\ call'[c].token = call[c].token /\ call'[c].issues = call[c].issues
    BY <2>1, <1>3 DEF Request
  <2> QED
    BY <2>2, <1>3
<1>5. TypeOK'
  BY <1>1, <1>3 DEF TypeOK
<1>6. TokensFit'
  BY <1>1, <1>3, <1>4 DEF TokensFit
<1>7. SeenAreTokens'
  BY <1>1, <1>3, <1>4, <1>0 DEF SeenAreTokens
<1>8. IssuedAtCommit' /\ EffectsCommitted'
  BY <1>1, <1>3, <1>4 DEF IssuedAtCommit, EffectsCommitted, TypeOK
<1>9. \A d \in Calls : (HoldsRow(d)' <=> HoldsRow(d)) /\ (HasSpent(d)' <=> HasSpent(d))
  BY <1>1, <1>3, <1>4, SpendsFacts DEF HoldsRow, HasSpent, TokensFit
<1>10. LocksHold' /\ SpentAhead'
  <2>1. \A d \in Calls : call'[d].token = call[d].token
    BY <1>4
  <2>2. \A d \in Calls : (HoldsRow(d)' => HoldsRow(d)) /\ (HasSpent(d)' => HasSpent(d))
    BY <1>9
  <2>3. LocksHold'
    BY <1>1, <2>1, <2>2 DEF LocksHold, IsUnspent
  <2>4. SpentAhead'
    <3> SUFFICES ASSUME NEW d \in Calls, HasSpent(d)'
                 PROVE  /\ token'[call'[d].token].state = "used"
                        /\ \A e \in effects' : e[2] # call'[d].token
                        /\ \A e \in Calls \ {d} : HasSpent(e)' => call'[e].token # call'[d].token
      BY DEF SpentAhead
    <3>1. HasSpent(d) /\ call'[d].token = call[d].token
      BY <2>1, <2>2
    <3> QED
      BY <1>1, <2>1, <2>2, <3>1 DEF SpentAhead
  <2> QED
    BY <2>3, <2>4
<1>11. OneEffect' /\ SpentForItsEffect'
  BY <1>1 DEF OneEffect, SpentForItsEffect
<1>12. Superseded'
  BY <1>1, <1>3, <1>4 DEF Superseded, IsUnspent
<1> QED
  BY <1>5, <1>6, <1>7, <1>8, <1>10, <1>11, <1>12

(* What a commit does to the rows: its own token appears, the one it holds *)
(* is spent, the ones it found and nobody holds are retired.               *)
LEMMA FinishRows ==
    ASSUME LinksInv, NEW c \in Calls, Finish(c)
    PROVE  /\ token' \in [Tokens -> Token]
           /\ token[c].state = "none"
           /\ call[c].op \in Spending => call[c].token \in Tokens /\ token'[call[c].token].state = "used"
           /\ \A u \in Tokens :
                /\ token[u].state = "none" /\ token'[u].state # "none" =>
                      u = c /\ Issues(call[c].op) /\ token'[u].purpose = call[c].issues
                /\ token[u].state # "none" =>
                      token'[u].state # "none" /\ token'[u].purpose = token[u].purpose
                /\ token[u].state = "used" => token'[u].state = "used"
                /\ token'[u].state = "used" =>
                      token[u].state = "used" \/ (u = call[c].token /\ call[c].op \in Spending)
                /\ token[u].state # "none" /\ IsUnspent(u)' => IsUnspent(u) /\ u \notin Retires(c)
                /\ token[u].state # "none" /\ u # call[c].token /\ u \notin Retires(c) =>
                      token'[u].state = token[u].state
<1> USE DEF LinksInv
<1> DEFINE t == call[c].token
           op == call[c].op
<1>1. call[c].pc = "write" /\ token' = Committed(c)
  BY DEF Finish
<1>2. token \in [Tokens -> Token] /\ call \in [Calls -> Request] /\ c \in Tokens
  BY DEF TypeOK, Tokens
<1>3. token[c].state = "none"
  BY <1>1 DEF IssuedAtCommit
<1>4. /\ op \in Spending => t \in Tokens /\ token[t].state # "none"
      /\ t \in Tokens => op \in Spending
  BY <1>1, ConstantsAssumption DEF TokensFit, Tokens
<1>5. t # c
  BY <1>2, <1>3, <1>4
<1>6. call[c].issues \in Purposes
  BY <1>2 DEF Request
<1>7. \A u \in Tokens :
        token'[u] = IF u = c /\ Issues(op) THEN [state |-> "live", purpose |-> call[c].issues]
                    ELSE IF u = t THEN [token[u] EXCEPT !.state = "used"]
                    ELSE IF u \in Retires(c) /\ IsUnspent(u) THEN [token[u] EXCEPT !.state = "retired"]
                    ELSE token[u]
  BY <1>1 DEF Committed
<1>8. token' = [u \in Tokens |-> token'[u]]
  BY <1>1 DEF Committed
<1> HIDE DEF t, op
<1>9. ASSUME NEW u \in Tokens
      PROVE  /\ token'[u] \in Token
             /\ token[u].state = "none" /\ token'[u].state # "none" =>
                   u = c /\ Issues(op) /\ token'[u].purpose = call[c].issues
             /\ token[u].state # "none" =>
                   token'[u].state # "none" /\ token'[u].purpose = token[u].purpose
             /\ token[u].state = "used" => token'[u].state = "used"
             /\ u = t => token'[u].state = "used"
             /\ token'[u].state = "used" => token[u].state = "used" \/ u = t
             /\ token[u].state # "none" /\ token'[u].state \in {"live", "expired"} =>
                   token[u].state \in {"live", "expired"} /\ u \notin Retires(c)
             /\ token[u].state # "none" /\ u # t /\ u \notin Retires(c) =>
                   token'[u].state = token[u].state
  <2>0. token[u] \in Token /\ (IsUnspent(u) <=> token[u].state \in {"live", "expired"})
    BY <1>2 DEF IsUnspent
  <2>1. CASE u = c /\ Issues(op)
    <3>1. token'[u] = [state |-> "live", purpose |-> call[c].issues]
      BY <1>7, <2>1
    <3> QED
      BY <3>1, <2>1, <1>3, <1>5, <1>6 DEF Token
  <2>2. CASE ~(u = c /\ Issues(op)) /\ u = t
    <3>1. token'[u] = [token[u] EXCEPT !.state = "used"]
      BY <1>7, <2>2
    <3>2. token[u].state # "none"
      BY <1>4, <2>2 DEF t, op
    <3> QED
      BY <3>1, <3>2, <2>2, <2>0 DEF Token
  <2>3. CASE ~(u = c /\ Issues(op)) /\ u # t /\ u \in Retires(c) /\ IsUnspent(u)
    <3>1. token'[u] = [token[u] EXCEPT !.state = "retired"]
      BY <1>7, <2>3
    <3> QED
      BY <3>1, <2>3, <2>0 DEF Token
  <2>4. CASE ~(u = c /\ Issues(op)) /\ u # t /\ ~(u \in Retires(c) /\ IsUnspent(u))
    <3>1. token'[u] = token[u]
      BY <1>7, <2>4
    <3> QED
      BY <3>1, <2>4, <2>0 DEF Token
  <2> QED
    BY <2>1, <2>2, <2>3, <2>4
<1>10. token' \in [Tokens -> Token]
  BY <1>8, <1>9
<1> QED
  BY <1>3, <1>4, <1>9, <1>10 DEF t, op, IsUnspent

(* A row that another request holds is not touched by a commit. *)
LEMMA FinishKeepsLocks ==
    ASSUME LinksInv, NEW c \in Calls, Finish(c), NEW d \in Calls \ {c}, HoldsRow(d)
    PROVE  /\ call[d].token \in Tokens
           /\ token'[call[d].token].state \in {"live", "expired"}
<1> USE DEF LinksInv
<1>1. call[d].token \in Tokens /\ IsUnspent(call[d].token) /\ token[call[d].token].state # "none"
  BY DEF HoldsRow, TokensFit, LocksHold
<1>2. call[c].pc = "write" /\ Retires(c) \cap LockedFor(c) = {}
  BY DEF Finish
<1>3. call[d].token \in LockedFor(c)
  BY <1>1 DEF LockedFor, HoldsRow
<1>4. call[d].token # call[c].token
  <2>1. CASE HoldsRow(c)
    BY <2>1 DEF LocksHold
  <2>2. CASE HasSpent(c)
    BY <2>2, <1>1 DEF SpentAhead, IsUnspent
  <2>3. CASE ~HoldsRow(c) /\ ~HasSpent(c)
    <3>1. call[c].op \notin Spending
      BY <2>3, <1>2 DEF HoldsRow, HasSpent
    <3>2. call[c].token = NoToken
      BY <3>1, <1>2 DEF TokensFit
    <3> QED
      BY <3>2, <1>1, ConstantsAssumption DEF Tokens
  <2> QED
    BY <2>1, <2>2, <2>3
<1>5. call[d].token \notin Retires(c)
  BY <1>2, <1>3
<1>6. token'[call[d].token].state = token[call[d].token].state
  BY <1>1, <1>4, <1>5, FinishRows
<1> QED
  BY <1>1, <1>6 DEF IsUnspent

(* The commit: nothing was done yet with what it spends, and all it should *)
(* retire of what it saw is gone.                                          *)
LEMMA FinishInv ==
    ASSUME LinksInv, NEW c \in Calls, Finish(c)
    PROVE  LinksInv'
<1> USE DEF LinksInv
<1> DEFINE t == call[c].token
           op == call[c].op
<1>1. /\ call[c].pc = "write"
      /\ acct' = Settled(c)
      /\ effects' = IF op \in Spending THEN effects \cup {<<c, t>>} ELSE effects
      /\ call' = [call EXCEPT ![c] = [@ EXCEPT !.pc = "done"]]
  BY DEF Finish
<1>2. call \in [Calls -> Request] /\ acct \in Account /\ effects \subseteq Calls \X Tokens
  BY DEF TypeOK
<1>3. /\ call' \in [Calls -> Request]
      /\ call'[c].pc = "done"
      /\ \A d \in Calls \ {c} : call'[d] = call[d]
      /\ \A d \in Calls : call'[d].op = call[d].op /\ call'[d].token = call[d].token
                         /\ call'[d].seen = call[d].seen /\ call'[d].issues = call[d].issues
  BY <1>1, <1>2 DEF Request
<1>4. acct' \in Account /\ acct'.role = acct.role
  BY <1>1, <1>2 DEF Settled, Account
<1>5. \A u \in Tokens :
        /\ token[u].state = "none" /\ token'[u].state # "none" =>
              u = c /\ Issues(op) /\ token'[u].purpose = call[c].issues
        /\ token[u].state # "none" =>
              token'[u].state # "none" /\ token'[u].purpose = token[u].purpose
        /\ token[u].state = "used" => token'[u].state = "used"
        /\ token'[u].state = "used" => token[u].state = "used" \/ (u = t /\ op \in Spending)
        /\ token[u].state # "none" /\ IsUnspent(u)' => IsUnspent(u) /\ u \notin Retires(c)
  BY FinishRows
<1>6. /\ token' \in [Tokens -> Token] /\ token[c].state = "none"
      /\ op \in Spending => t \in Tokens /\ token'[t].state = "used"
  BY FinishRows
<1>7. (op \in Spending => HoldsRow(c) \/ HasSpent(c)) /\ (op \notin Spending => t = NoToken)
  BY <1>1 DEF HoldsRow, HasSpent, TokensFit
<1>8. /\ ~HoldsRow(c)' /\ ~HasSpent(c)'
      /\ \A d \in Calls \ {c} : (HoldsRow(d)' <=> HoldsRow(d)) /\ (HasSpent(d)' <=> HasSpent(d))
  BY <1>3 DEF HoldsRow, HasSpent
<1>9. op \in Spending => \A e \in effects : e[2] # t
  <2>1. HoldsRow(c) => \A e \in effects : e[2] # t
    BY DEF LocksHold, OneEffect, IsUnspent
  <2>2. HasSpent(c) => \A e \in effects : e[2] # t
    BY DEF SpentAhead
  <2> QED
    BY <2>1, <2>2, <1>7
<1> HIDE DEF t, op
<1>10. TypeOK'
  <2>1. \A u \in Tokens : token'[u].state # "none" => token'[u].purpose \in PurposesOf(acct.role)
    BY <1>1, <1>5 DEF TypeOK, TokensFit, op
  <2>2. effects' \subseteq Calls \X Tokens
    BY <1>1, <1>2, <1>6
  <2> QED
    BY <2>1, <2>2, <1>3, <1>4, <1>6 DEF TypeOK
<1>11. TokensFit'
  <2> SUFFICES ASSUME NEW d \in Calls, call'[d].pc # "new"
               PROVE  /\ call'[d].op \in Spending =>
                            /\ call'[d].token \in Tokens
                            /\ token'[call'[d].token].state # "none"
                            /\ token'[call'[d].token].purpose = Spends[call'[d].op]
                      /\ call'[d].op \notin Spending => call'[d].token = NoToken
                      /\ call'[d].pc \in {"spend", "holding"} => call'[d].op \in Spending
                      /\ call'[d].pc = "kill" => call'[d].op \notin Spending \/ Splits(call'[d].op)
                      /\ Issues(call'[d].op) => call'[d].issues \in PurposesOf(acct'.role)
    BY DEF TokensFit
  <2>1. call[d].pc # "new"
    BY <1>1, <1>3
  <2> QED
    BY <2>1, <1>3, <1>4, <1>5 DEF TokensFit
<1>12. SeenAreTokens'
  <2> SUFFICES ASSUME NEW d \in Calls, NEW u \in call'[d].seen
               PROVE  token'[u].state # "none" /\ u # call'[d].token /\ call'[d].pc # "new"
    BY DEF SeenAreTokens
  <2>1. u \in call[d].seen /\ u \in Tokens
    BY <1>2, <1>3 DEF Request
  <2>2. token[u].state # "none" /\ u # call[d].token /\ call[d].pc # "new"
    BY <2>1 DEF SeenAreTokens
  <2> QED
    BY <2>1, <2>2, <1>3, <1>5
<1>13. IssuedAtCommit'
  BY <1>3, <1>5 DEF IssuedAtCommit, Tokens
<1>14. LocksHold'
  <2> SUFFICES ASSUME NEW d \in Calls, HoldsRow(d)'
               PROVE  /\ IsUnspent(call[d].token)'
                      /\ \A e \in Calls \ {d} : HoldsRow(e)' => (call[e].token # call[d].token)'
    BY DEF LocksHold
  <2>1. d # c /\ HoldsRow(d)
    BY <1>8
  <2>2. token'[call[d].token].state \in {"live", "expired"}
    BY <2>1, FinishKeepsLocks
  <2>3. IsUnspent(call[d].token)'
    BY <2>2, <1>3 DEF IsUnspent
  <2>4. \A e \in Calls \ {d} : HoldsRow(e)' => (call[e].token # call[d].token)'
    BY <2>1, <1>3, <1>8 DEF LocksHold
  <2> QED
    BY <2>3, <2>4
<1>15. SpentAhead'
  <2> SUFFICES ASSUME NEW d \in Calls, HasSpent(d)'
               PROVE  /\ token'[call'[d].token].state = "used"
                      /\ \A e \in effects' : e[2] # call'[d].token
                      /\ \A e \in Calls \ {d} : HasSpent(e)' => call'[e].token # call'[d].token
    BY DEF SpentAhead
  <2>1. d # c /\ HasSpent(d) /\ call'[d].token = call[d].token
    BY <1>3, <1>8
  <2>2. call[d].token \in Tokens /\ token[call[d].token].state = "used"
    BY <2>1, SpendsFacts DEF HasSpent, TokensFit, SpentAhead
  <2>3. op \in Spending => t # call[d].token
    <3>1. HoldsRow(c) => t # call[d].token
      BY <2>2 DEF LocksHold, IsUnspent, t
    <3>2. HasSpent(c) => t # call[d].token
      BY <2>1 DEF SpentAhead, t
    <3> QED
      BY <3>1, <3>2, <1>7
  <2>4. \A e \in effects' : e[2] # call[d].token
    BY <2>1, <2>3, <1>1 DEF SpentAhead, t, op
  <2>5. \A e \in Calls \ {d} : HasSpent(e)' => call'[e].token # call[d].token
    BY <2>1, <1>3, <1>8 DEF SpentAhead
  <2> QED
    BY <2>1, <2>2, <2>4, <2>5, <1>5
<1>16. EffectsCommitted'
  BY <1>1, <1>2, <1>3 DEF EffectsCommitted
<1>17. OneEffect'
  <2>1. \A a \in effects : token'[a[2]].state = "used"
    BY <1>2, <1>5 DEF OneEffect
  <2>2. CASE op \in Spending
    BY <2>1, <2>2, <1>1, <1>6, <1>9 DEF OneEffect, t, op
  <2>3. CASE op \notin Spending
    BY <2>1, <2>3, <1>1 DEF OneEffect, op
  <2> QED
    BY <2>2, <2>3
<1>18. SpentForItsEffect'
  <2> SUFFICES ASSUME NEW u \in Tokens, token'[u].state = "used",
                      token'[u].purpose \notin {"onboard_code", "change_code"}
               PROVE  \E d \in Calls : <<d, u>> \in effects'
    BY DEF SpentForItsEffect
  <2>1. CASE token[u].state = "used"
    BY <2>1, <1>1, <1>5 DEF SpentForItsEffect
  <2>2. CASE token[u].state # "used"
    BY <2>2, <1>1, <1>5 DEF t, op
  <2> QED
    BY <2>1, <2>2
<1>19. Superseded'
  <2> SUFFICES ASSUME NEW d \in Calls, call'[d].pc = "done", NEW u \in call'[d].seen, IsUnspent(u)'
               PROVE  /\ call'[d].op # "disable"
                      /\ token'[d].state # "none" => token'[u].purpose # token'[d].purpose
                      /\ call'[d].op \in {"reset", "change_password", "change_by_password"} =>
                            token'[u].purpose # "reset"
                      /\ call'[d].op = "set_first_password" => token'[u].purpose # "onboard"
    BY DEF Superseded
  <2>1. u \in call[d].seen /\ u \in Tokens /\ d \in Tokens /\ call'[d].op = call[d].op
    BY <1>2, <1>3 DEF Request, Tokens
  <2>2. token[u].state # "none" /\ u # call[d].token
    BY <2>1 DEF SeenAreTokens
  <2>3. IsUnspent(u) /\ u \notin Retires(c) /\ token'[u].purpose = token[u].purpose
    BY <2>1, <2>2, <1>5
  <2>4. CASE d # c
    <3>1. call[d].pc = "done"
      BY <2>4, <1>3
    <3>2. token'[d].state # "none" => token[d].state # "none" /\ token'[d].purpose = token[d].purpose
      BY <2>1, <2>4, <1>5
    <3> QED
      BY <2>1, <2>3, <3>1, <3>2 DEF Superseded
  <2>5. CASE d = c
    <3>1. token[u].purpose \notin Kills(c) /\ token[u].purpose \in Purposes
      BY <2>1, <2>3, <2>5 DEF Retires, TypeOK, Token
    <3>2. token'[d].state # "none" => Issues(op) /\ token'[d].purpose = call[c].issues
      BY <2>1, <2>5, <1>5, <1>6
    <3>3. Issues(op) => Kills(c) = {call[c].issues}
      BY DEF Kills, SupersededBy, op
    <3>4. /\ op = "disable" => Kills(c) = Purposes
          /\ op \in {"reset", "change_password", "change_by_password"} => Kills(c) = {"reset"}
          /\ op = "set_first_password" => Kills(c) = {"onboard"}
      BY DEF Kills, Issues, Issuing, op
    <3> QED
      BY <2>1, <2>3, <2>5, <3>1, <3>2, <3>3, <3>4 DEF op
  <2> QED
    BY <2>4, <2>5
<1> QED
  BY <1>10, <1>11, <1>12, <1>13, <1>14, <1>15, <1>16, <1>17, <1>18, <1>19

(* A request that gives up leaves its row as the table has it. *)
LEMMA AbortInv ==
    ASSUME LinksInv, NEW c \in Calls, Abort(c)
    PROVE  LinksInv'
<1> USE DEF LinksInv
<1> DEFINE r == [Idle EXCEPT !.pc = "done"]
<1>1. /\ call' = [call EXCEPT ![c] = r]
      /\ call[c].pc # "done"
      /\ UNCHANGED <<acct, token, effects>>
  BY DEF Abort
<1>2. call \in [Calls -> Request]
  BY DEF TypeOK
<1>3. call'[c] = r /\ \A d \in Calls \ {c} : call'[d] = call[d]
  BY <1>1, <1>2
<1>4. r \in Request /\ r.pc = "done" /\ r.op = "enable" /\ r.token = NoToken /\ r.seen = {}
  BY DEF Idle, Request, Ops, Purposes, Issuing
<1>5. TypeOK'
  BY <1>1, <1>2, <1>4 DEF TypeOK
<1>6. TokensFit'
  BY <1>1, <1>3, <1>4 DEF TokensFit, Issues, Issuing, Spending
<1>7. SeenAreTokens' /\ IssuedAtCommit' /\ EffectsCommitted'
  BY <1>1, <1>3, <1>4 DEF SeenAreTokens, IssuedAtCommit, EffectsCommitted, TypeOK
<1>8. /\ ~HoldsRow(c)' /\ ~HasSpent(c)'
      /\ \A d \in Calls \ {c} : (HoldsRow(d)' <=> HoldsRow(d)) /\ (HasSpent(d)' <=> HasSpent(d))
  BY <1>3, <1>4 DEF HoldsRow, HasSpent
<1>9. LocksHold' /\ SpentAhead'
  BY <1>1, <1>3, <1>8 DEF LocksHold, SpentAhead, IsUnspent
<1>10. OneEffect' /\ SpentForItsEffect'
  BY <1>1 DEF OneEffect, SpentForItsEffect
<1>11. Superseded'
  BY <1>1, <1>3, <1>4 DEF Superseded, IsUnspent
<1> QED
  BY <1>5, <1>6, <1>7, <1>9, <1>10, <1>11

(* A token that runs out is unspent and held by nobody. *)
LEMMA ExpireInv ==
    ASSUME LinksInv, NEW t \in Tokens, Expire(t)
    PROVE  LinksInv'
<1> USE DEF LinksInv
<1>1. /\ token[t].state = "live"
      /\ token' = [token EXCEPT ![t].state = "expired"]
      /\ UNCHANGED <<acct, call, effects>>
  BY DEF Expire
<1>2. token \in [Tokens -> Token] /\ call \in [Calls -> Request]
  BY DEF TypeOK
<1>3. /\ \A u \in Tokens \ {t} : token'[u] = token[u]
      /\ token'[t].state = "expired" /\ token'[t].purpose = token[t].purpose
      /\ token' \in [Tokens -> Token]
  BY <1>1, <1>2 DEF Token
<1>4. /\ \A u \in Tokens : /\ token'[u].purpose = token[u].purpose
                           /\ (token'[u].state = "none" <=> token[u].state = "none")
                           /\ (token'[u].state = "used" <=> token[u].state = "used")
                           /\ (IsUnspent(u)' <=> IsUnspent(u))
  BY <1>1, <1>3 DEF IsUnspent
<1>5. TypeOK'
  BY <1>1, <1>3, <1>4 DEF TypeOK
<1>6. TokensFit'
  BY <1>1, <1>4 DEF TokensFit
<1>7. SeenAreTokens' /\ IssuedAtCommit' /\ EffectsCommitted'
  BY <1>1, <1>2, <1>4 DEF SeenAreTokens, IssuedAtCommit, EffectsCommitted, Request, Tokens
<1>8. \A d \in Calls : (HoldsRow(d)' <=> HoldsRow(d)) /\ (HasSpent(d)' <=> HasSpent(d))
  BY <1>1 DEF HoldsRow, HasSpent
<1>9. \A d \in Calls : HoldsRow(d) \/ HasSpent(d) => call[d].token \in Tokens
  BY SpendsFacts DEF HoldsRow, HasSpent, TokensFit
<1>10. LocksHold' /\ SpentAhead'
  BY <1>1, <1>4, <1>8, <1>9 DEF LocksHold, SpentAhead
<1>11. OneEffect' /\ SpentForItsEffect'
  BY <1>1, <1>4 DEF OneEffect, SpentForItsEffect, TypeOK
<1>12. Superseded'
  BY <1>1, <1>2, <1>4 DEF Superseded, Request, Tokens
<1> QED
  BY <1>5, <1>6, <1>7, <1>10, <1>11, <1>12

-----------------------------------------------------------------------------
(* A setup link is out only for a student. *)
LEMMA OnboardingIsForStudents ==
    ASSUME LinksInv, Invited
    PROVE  acct.role = "STUDENT"
<1>1. PICK t \in Tokens : token[t].state = "live" /\ token[t].purpose = "onboard"
  BY DEF Invited, Live
<1>2. "onboard" \in PurposesOf(acct.role) /\ acct \in Account
  BY <1>1 DEF LinksInv, TypeOK
<1> QED
  BY <1>2 DEF PurposesOf, Account

(* Every request keeps the invariant as it begins: it issues only what its *)
(* account may be given.                                                   *)
LEMMA BeginsInv ==
    ASSUME LinksInv, NEW c \in Calls, NEW t \in Tokens \cup {NoToken},
           \/ IssueActivation(c) \/ IssueOnboarding(c) \/ Forgot(c) \/ Start(c)
           \/ ChangePasswordCode(c) \/ Login(c) \/ DisableAccount(c) \/ EnableAccount(c)
           \/ Activate(c, t) \/ Verify(c, t) \/ SetFirstPassword(c, t) \/ Reset(c, t)
           \/ ChangePassword(c, t) \/ LoginWithCode(c, t)
    PROVE  LinksInv'
<1> USE DEF Ops, Issuing, Spending
<1>0. acct \in Account
  BY DEF LinksInv, TypeOK
<1>1. CASE IssueActivation(c)
  <2>1. IssuedBy("issue_activation", acct) \in PurposesOf(acct.role)
    BY <1>1 DEF IssueActivation, AwaitsFirstPassword, IssuedBy, PurposesOf, Purposes
  <2> QED
    BY <1>1, <2>1, BeginInv DEF IssueActivation
<1>2. CASE IssueOnboarding(c)
  <2>1. IssuedBy("issue_onboarding", acct) \in PurposesOf(acct.role)
    BY <1>2 DEF IssueOnboarding, IssuedBy, PurposesOf, Purposes
  <2> QED
    BY <1>2, <2>1, BeginInv DEF IssueOnboarding
<1>3. CASE Forgot(c)
  <2>1. IssuedBy("forgot", acct) \in PurposesOf(acct.role)
    BY <1>3, <1>0 DEF Forgot, HasForgotDoor, IssuedBy, ForgotPurpose, PurposesOf, Purposes, Account
  <2> QED
    BY <1>3, <2>1, BeginInv DEF Forgot
<1>4. CASE Start(c)
  <2>1. IssuedBy("start", acct) \in PurposesOf(acct.role)
    BY <1>4, OnboardingIsForStudents DEF Start, IssuedBy, PurposesOf, Purposes, CodePurposes
  <2> QED
    BY <1>4, <2>1, BeginInv DEF Start
<1>5. CASE ChangePasswordCode(c)
  <2>1. IssuedBy("change_password_code", acct) \in PurposesOf(acct.role)
    BY <1>0 DEF IssuedBy, PurposesOf, Purposes, CodePurposes, Account
  <2> QED
    BY <1>5, <2>1, BeginInv DEF ChangePasswordCode
<1>6. CASE Login(c)
  <2>1. IssuedBy("login", acct) \in PurposesOf(acct.role)
    BY <1>0 DEF IssuedBy, PurposesOf, Purposes, CodePurposes, Account
  <2> QED
    BY <1>6, <2>1, BeginInv DEF Login
<1>7. CASE Verify(c, t)
  <2>1. IssuedBy("verify", acct) \in PurposesOf(acct.role)
    BY <1>7, OnboardingIsForStudents DEF Verify, IssuedBy, PurposesOf, Purposes
  <2> QED
    BY <1>7, <2>1, BeginInv DEF Verify
<1>8. CASE DisableAccount(c) \/ EnableAccount(c)
  BY <1>8, BeginInv DEF DisableAccount, EnableAccount, Issues
<1>9. CASE Activate(c, t) \/ SetFirstPassword(c, t) \/ Reset(c, t)
  BY <1>9, BeginInv DEF Activate, SetFirstPassword, Reset, Issues
<1>10. CASE ChangePassword(c, t) \/ LoginWithCode(c, t)
  BY <1>10, BeginInv DEF ChangePassword, LoginWithCode, Issues
<1> QED
  BY <1>1, <1>2, <1>3, <1>4, <1>5, <1>6, <1>7, <1>8, <1>9, <1>10

(* Nothing changes in a step of no request. *)
LEMMA StutterInv ==
    ASSUME LinksInv, UNCHANGED vars
    PROVE  LinksInv'
<1> USE DEF LinksInv, vars
<1>1. TypeOK' /\ TokensFit' /\ SeenAreTokens' /\ IssuedAtCommit' /\ EffectsCommitted'
  BY DEF TypeOK, TokensFit, SeenAreTokens, IssuedAtCommit, EffectsCommitted
<1>2. LocksHold' /\ SpentAhead'
  BY DEF LocksHold, SpentAhead, HoldsRow, HasSpent, IsUnspent
<1>3. OneEffect' /\ SpentForItsEffect' /\ Superseded'
  BY DEF OneEffect, SpentForItsEffect, Superseded, IsUnspent
<1> QED
  BY <1>1, <1>2, <1>3

(* Every step keeps the invariant. *)
LEMMA NextInv ==
    ASSUME LinksInv, [Next]_vars
    PROVE  LinksInv'
<1>1. CASE UNCHANGED vars
  BY <1>1, StutterInv
<1>2. CASE \E t \in Tokens : Expire(t)
  BY <1>2, ExpireInv
<1>3. CASE \E c \in Calls : Spend(c) \/ CommitSpent(c) \/ Look(c) \/ Finish(c) \/ Abort(c)
  BY <1>3, SpendInv, CommitSpentInv, LookInv, FinishInv, AbortInv
<1>4. CASE \E c \in Calls :
        \/ IssueActivation(c) \/ IssueOnboarding(c) \/ Forgot(c) \/ Start(c)
        \/ ChangePasswordCode(c) \/ Login(c) \/ DisableAccount(c) \/ EnableAccount(c)
        \/ \E t \in Tokens \cup {NoToken} :
            \/ Activate(c, t) \/ Verify(c, t) \/ SetFirstPassword(c, t) \/ Reset(c, t)
            \/ ChangePassword(c, t) \/ LoginWithCode(c, t)
  BY <1>4, BeginsInv
<1> QED
  BY <1>1, <1>2, <1>3, <1>4 DEF Next

-----------------------------------------------------------------------------
(* The invariant, for any number of requests and of tokens already out. *)
THEOREM LinksInvTheorem == Spec => []LinksInv
<1> QED
  BY InitInv, NextInv, PTL DEF Spec

(* Accounts, tokens and requests keep their shape, and no token is out that *)
(* its account's role has no use for.                                       *)
THEOREM TypeCorrect == Spec => []TypeOK
<1>1. LinksInv => TypeOK
  BY DEF LinksInv
<1> QED
  BY <1>1, LinksInvTheorem, PTL

(* A link or code does its work at most once (consume_user_token and        *)
(* consume_user_code), and what is done with it is done with a spent token. *)
THEOREM WorksOnce == Spec => []OneEffect
<1>1. LinksInv => OneEffect
  BY DEF LinksInv
<1> QED
  BY <1>1, LinksInvTheorem, PTL

(* A link or sign-in code is spent only together with what it is for. *)
THEOREM SpentWithEffect == Spec => []SpentForItsEffect
<1>1. LinksInv => SpentForItsEffect
  BY DEF LinksInv
<1> QED
  BY <1>1, LinksInvTheorem, PTL

(* A resend, a new password and the disabling of an account retire every    *)
(* token they should among those they saw (issue_user_token, revoke).       *)
THEOREM ResendSupersedes == Spec => []Superseded
<1>1. LinksInv => Superseded
  BY DEF LinksInv
<1> QED
  BY <1>1, LinksInvTheorem, PTL

(***************************************************************************)
(* A token that is spent or retired stays so, and a token never serves     *)
(* another purpose than it was issued for: no enabling of the account, no  *)
(* later request and no commit that looked earlier brings a dead link back *)
(* (consume_user_token, revoke_user_tokens).                               *)
(***************************************************************************)
DeadStaysDead ==
    [][\A t \in Tokens :
         /\ token[t].state \in {"used", "retired"} => token'[t] = token[t]
         /\ token[t].state # "none" => token'[t].state # "none" /\ token'[t].purpose = token[t].purpose
         /\ token[t].state = "expired" => token'[t].state # "live"]_vars

(* What a commit leaves of a row. *)
LEMMA FinishLeaves ==
    ASSUME LinksInv, NEW c \in Calls, Finish(c), NEW t \in Tokens, token[t].state # "none"
    PROVE  /\ token'[t].purpose = token[t].purpose
           /\ token'[t].state \in {"used", "retired", token[t].state}
           /\ token[t].state \in {"used", "retired"} => token'[t] = token[t]
<1>1. /\ call[c].pc = "write" /\ token' = Committed(c) /\ token \in [Tokens -> Token] /\ token[t] \in Token
      /\ call[c] \in Request
  BY DEF Finish, LinksInv, TypeOK
<1>2. t # c
  BY <1>1 DEF LinksInv, IssuedAtCommit
<1>3. token'[t] = IF t = call[c].token THEN [token[t] EXCEPT !.state = "used"]
                  ELSE IF t \in Retires(c) /\ IsUnspent(t) THEN [token[t] EXCEPT !.state = "retired"]
                  ELSE token[t]
  BY <1>1, <1>2 DEF Committed
<1>4. CASE t = call[c].token
  <2>1. call[c].op \in Spending
    BY <1>1, <1>4, ConstantsAssumption DEF LinksInv, TokensFit, Tokens
  <2>2. HoldsRow(c) \/ HasSpent(c)
    BY <1>1, <2>1 DEF HoldsRow, HasSpent
  <2>3. token[t].state # "retired"
    BY <1>4, <2>2 DEF LinksInv, LocksHold, SpentAhead, IsUnspent
  <2>4. token'[t] = [token[t] EXCEPT !.state = "used"]
    BY <1>3, <1>4
  <2> QED
    BY <1>1, <2>3, <2>4 DEF Token
<1>5. CASE t # call[c].token
  BY <1>1, <1>3, <1>5 DEF IsUnspent, Token
<1> QED
  BY <1>4, <1>5

(* Dead tokens stay dead, whatever requests overlap: only the locked writes *)
(* of a commit reach a row, and those spare it (consume_user_token).        *)
THEOREM DeadTokensStay == Spec => DeadStaysDead
<1> DEFINE Kept(t) ==
        /\ token[t].state \in {"used", "retired"} => token'[t] = token[t]
        /\ token[t].state # "none" => token'[t].state # "none" /\ token'[t].purpose = token[t].purpose
        /\ token[t].state = "expired" => token'[t].state # "live"
<1>1. LinksInv /\ [Next]_vars => [\A t \in Tokens : Kept(t)]_vars
  <2> SUFFICES ASSUME LinksInv, Next, NEW t \in Tokens PROVE Kept(t)
    OBVIOUS
  <2>0. token \in [Tokens -> Token] /\ token[t] \in Token
    BY DEF LinksInv, TypeOK
  <2>1. CASE UNCHANGED token
    BY <2>1
  <2>2. ASSUME NEW c \in Calls, CommitSpent(c) PROVE Kept(t)
    <3>1. HoldsRow(c) /\ IsUnspent(call[c].token) /\ token' = [token EXCEPT ![call[c].token].state = "used"]
      BY <2>2 DEF CommitSpent, HoldsRow, LinksInv, LocksHold
    <3>2. CASE t = call[c].token
      <4>1. token'[t] = [token[t] EXCEPT !.state = "used"]
        BY <2>0, <3>1, <3>2
      <4> QED
        BY <2>0, <3>1, <3>2, <4>1 DEF IsUnspent, Token
    <3>3. CASE t # call[c].token
      BY <2>0, <3>1, <3>3
    <3> QED
      BY <3>2, <3>3
  <2>3. ASSUME NEW c \in Calls, Finish(c) PROVE Kept(t)
    BY <2>3, FinishLeaves
  <2>4. ASSUME NEW u \in Tokens, Expire(u) PROVE Kept(t)
    <3>1. token[u].state = "live" /\ token' = [token EXCEPT ![u].state = "expired"]
      BY <2>4 DEF Expire
    <3>2. token'[t] = IF t = u THEN [token[t] EXCEPT !.state = "expired"] ELSE token[t]
      BY <2>0, <3>1
    <3> QED
      BY <2>0, <3>1, <3>2 DEF Token
  <2>5. UNCHANGED token \/ (\E c \in Calls : CommitSpent(c) \/ Finish(c)) \/ \E u \in Tokens : Expire(u)
    BY DEF Next, Begin, IssueActivation, IssueOnboarding, Forgot, Start, ChangePasswordCode, Login,
           DisableAccount, EnableAccount, Activate, Verify, SetFirstPassword, Reset, ChangePassword,
           LoginWithCode, Spend, Look, Abort
  <2> QED
    BY <2>1, <2>2, <2>3, <2>4, <2>5
<1> QED
  BY <1>1, LinksInvTheorem, PTL DEF Spec, DeadStaysDead

=============================================================================
