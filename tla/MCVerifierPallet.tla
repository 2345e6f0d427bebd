-------------------------- MODULE MCVerifierPallet --------------------------
(* Model values for checking VerifierPallet with TLC. *)
EXTENDS VerifierPallet, TLC

Equal == [a \in Accounts |-> 9]

(* The accounts have the same funds and the same rights. *)
Interchangeable == Permutations(Accounts)
=============================================================================
