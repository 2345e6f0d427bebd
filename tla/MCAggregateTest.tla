-------------------------- MODULE MCAggregateTest ---------------------------
(* Model values for checking AggregateTest with TLC. *)
EXTENDS AggregateTest

CONSTANTS alice, bob

(* What the test registers. *)
TestRegistrations ==
  {Register(n, None, "Untrusted") : n \in Sizes} \cup {Register(4, 8, r) : r \in ProofSecurityRules}

(* With fourteen verifiers bob's balance passes 1000 when it publishes. *)
Rich == [a \in Accounts |-> IF a = bob THEN 1130 ELSE 400]

(* Enough for the proofs up to the last one. *)
Short == [a \in Accounts |-> IF a = bob THEN 1130 ELSE 85]
=============================================================================
