----------------------------- MODULE MCClientRpc -----------------------------
(* Symmetry for the runs of ClientRpc: fields and the ids of callbacks are only *)
(* compared with each other.                                                   *)
EXTENDS ClientRpc

Symmetry == {p @@ q : p \in Permutations(Fields), q \in Permutations(CallbackIds)}
=============================================================================
