---------------------------- MODULE MCTokenClaim ----------------------------
(* Model values for checking TokenClaim with TLC. *)
EXTENDS TokenClaim, TLC

CONSTANTS alice, treasury

(* The pallet's account does not exist yet. *)
NoPot == [a \in Holders |-> IF a = treasury THEN 5 ELSE 0]
=============================================================================
