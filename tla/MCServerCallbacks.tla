-------------------------- MODULE MCServerCallbacks --------------------------
(* Symmetry for the safety run of ServerCallbacks: clients and values are only *)
(* compared with each other.                                                   *)
EXTENDS ServerCallbacks

Symmetry == {p @@ q : p \in Permutations(Clients), q \in Permutations(Values)}
=============================================================================
