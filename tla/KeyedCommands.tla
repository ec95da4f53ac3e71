--------------------------- MODULE KeyedCommands ---------------------------
(***************************************************************************)
(* What the notebook's commands promise their clients, whatever locks and  *)
(* transactions are behind them (apps/api-py/app/routers/redesign.py,      *)
(* replay_or_reserve and store_response of architecture_events.py).        *)
(*                                                                         *)
(* A command is carried out in one step, on the entry as it is then, and   *)
(* once in each life of its key; its repeat is answered as the command     *)
(* was; and a refusal says what is so when it is given.  The one thing not *)
(* done in one step is to attach a file: the entry may be archived after   *)
(* it was looked at.                                                       *)
(***************************************************************************)
EXTENDS Naturals

CONSTANTS Requests, Keys, Entries, Written, KeyOf, CommandOf, Allowed

VARIABLES entries, ledger, life, answer

vars == <<entries, ledger, life, answer>>

Init ==
    /\ entries = [e \in Entries |-> IF e \in Written
                                    THEN [status |-> "DRAFT", version |-> 1]
                                    ELSE [status |-> "ABSENT", version |-> 0]]
    /\ ledger = {}
    /\ life = [k \in Keys |-> 0]
    /\ answer = [q \in Requests |-> [code |-> "none"]]

Waiting(q) == answer[q].code = "none"

Answer(q, a) == Waiting(q) /\ answer' = [answer EXCEPT ![q] = a]

(* What was done under the key of `q' in the key's present life. *)
Done(q) == {c \in ledger : c.key = KeyOf[q] /\ c.use = life[KeyOf[q]]}

Live(e) == entries[e].status \in {"DRAFT", "PUBLISHED"}

(* The entries a command may be carried out on. *)
Fits(q, e) ==
    LET c == CommandOf[q]
    IN  \/ c.op = "create" /\ entries[e].status = "ABSENT"
        \/ c.op = "create_action" /\ e = c.entry
        \/ c.op = "attach" /\ e = c.entry /\ entries[e].status # "ABSENT"
        \/ c.op \in {"publish", "archive"} /\ e = c.entry /\ Live(e)
        \/ c.op = "update" /\ e = c.entry /\ Live(e) /\ entries[e].version = c.body

(* The entry after the command. *)
After(q, e) ==
    LET status == [create |-> "DRAFT", publish |-> "PUBLISHED", archive |-> "ARCHIVED"]
        op == CommandOf[q].op
    IN  IF op \in {"create_action", "attach"}
        THEN entries[e]
        ELSE [status |-> IF op = "update" THEN entries[e].status ELSE status[op],
              version |-> entries[e].version + 1]

CarryOut(q, e) ==
    LET response == [entry |-> e, version |-> After(q, e).version]
    IN  /\ q \in Allowed /\ Done(q) = {} /\ Fits(q, e)
        /\ entries' = [entries EXCEPT ![e] = After(q, e)]
        /\ ledger' = ledger \cup {[by |-> q, key |-> KeyOf[q], use |-> life[KeyOf[q]],
                                   command |-> CommandOf[q], response |-> response]}
        /\ Answer(q, [code |-> "success", response |-> response])
        /\ UNCHANGED life

Repeat(q) ==
    /\ \E c \in Done(q) : /\ c.command = CommandOf[q]
                          /\ Answer(q, [code |-> "success", response |-> c.response])
    /\ UNCHANGED <<entries, ledger, life>>

(* The reasons there are to refuse a command. *)
Reason(q, code) ==
    LET c == CommandOf[q]
    IN  \/ code = "404" /\ q \notin Allowed
        \/ code = "403" /\ c.op \in {"create", "create_action"} /\ q \notin Allowed
        \/ code = "404" /\ c.op \notin {"create", "create_action"} /\ ~Live(c.entry)
        \/ code = "409" /\ \E d \in Done(q) : d.command # c
        \/ code = "409" /\ c.op = "update" /\ Live(c.entry) /\ entries[c.entry].version # c.body

Decline(q) ==
    /\ \E code \in {"403", "404", "409"} : Reason(q, code) /\ Answer(q, [code |-> code])
    /\ UNCHANGED <<entries, ledger, life>>

(* The connection breaks: nothing was done for this request. *)
Lose(q) == Answer(q, [code |-> "lost"]) /\ UNCHANGED <<entries, ledger, life>>

(* A key that was used is forgotten, and may be used anew. *)
Forget(k) ==
    /\ \E c \in ledger : c.key = k /\ c.use = life[k]
    /\ life' = [life EXCEPT ![k] = @ + 1]
    /\ UNCHANGED <<entries, ledger, answer>>

Next ==
    \/ \E q \in Requests : \/ \E e \in Entries : CarryOut(q, e)
                           \/ Repeat(q) \/ Decline(q) \/ Lose(q)
    \/ \E k \in Keys : Forget(k)

Spec == Init /\ [][Next]_vars
=============================================================================
