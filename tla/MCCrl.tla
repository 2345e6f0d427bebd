------------------------------- MODULE MCCrl --------------------------------
(* Model values for checking Crl with TLC: the issuers all chain to one of *)
(* the two roots.                                                          *)
EXTENDS Crl, TLC

CONSTANT intel

Chains == [i \in Issuers |-> intel]

Interchangeable == Permutations(Issuers) \cup Permutations(Serials)
=============================================================================
