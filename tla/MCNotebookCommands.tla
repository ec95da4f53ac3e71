------------------------- MODULE MCNotebookCommands -------------------------
(***************************************************************************)
(* One draft, e1, and an id a create can draw.  Two rivals update e1 from  *)
(* its first version, one of them twice with one key (u1, u2) and once     *)
(* more with that key and another body (u3); e1 is published, archived and *)
(* given a file; a create is sent twice, one action is asked for; and two  *)
(* requests are out of scope.                                              *)
(***************************************************************************)
EXTENDS NotebookCommands

CONSTANTS e1, e2, e3, u1, u2, u3, v1, p1, a1, t1, c1, c2, n1, f1, f2, ku, kv, kp, ka, kt, kc, kn, kf, kg

MCEntries == {e1, e2, e3}

Cmd(op, e, body) == [op |-> op, entry |-> e, body |-> body]

(* Updates, a publication, an archival, an attachment. *)
EditRequests == {u1, u2, u3, v1, p1, a1, t1}
EditKeys == {ku, kv, kp, ka, kt}

AllKeyOf == [q \in {u1, u2, u3, v1, p1, a1, t1, c1, c2, n1, f1, f2} |->
    CASE q \in {u1, u2, u3} -> ku [] q = v1 -> kv [] q = p1 -> kp [] q = a1 -> ka
      [] q = t1 -> kt [] q \in {c1, c2} -> kc [] q = n1 -> kn [] q = f1 -> kf [] q = f2 -> kg]

AllCommandOf == [q \in DOMAIN AllKeyOf |->
    CASE q \in {u1, u2, v1} -> Cmd("update", e1, 1) [] q = u3 -> Cmd("update", e1, 2)
      [] q = p1 -> Cmd("publish", e1, 0) [] q = a1 -> Cmd("archive", e1, 0)
      [] q = t1 -> Cmd("attach", e1, 0) [] q \in {c1, c2} -> Cmd("create", e1, 0)
      [] q = n1 -> Cmd("create_action", e1, 0)
      [] q = f1 -> Cmd("create", e1, 1) [] q = f2 -> Cmd("update", e1, 1)]

EditKeyOf == [q \in EditRequests |-> AllKeyOf[q]]
EditCommandOf == [q \in EditRequests |-> AllCommandOf[q]]

(* A create sent twice, an action, out-of-scope requests and an update.     *)
MixRequests == {c1, c2, n1, f1, f2, v1}
MixKeys == {kc, kn, kf, kg, kv}
MixKeyOf == [q \in MixRequests |-> AllKeyOf[q]]
MixCommandOf == [q \in MixRequests |-> AllCommandOf[q]]
MixAllowed == MixRequests \ {f1, f2}
=============================================================================
