--------------------------- MODULE MCAccountLinks ---------------------------
(* AccountLinks with requests and old tokens that nothing tells apart. *)
EXTENDS AccountLinks, TLC

Symmetric == Permutations(Calls) \cup Permutations(Old)

=============================================================================
