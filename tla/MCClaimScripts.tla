--------------------------- MODULE MCClaimScripts ---------------------------
(* Model values for checking ClaimScripts with TLC. *)
EXTENDS ClaimScripts

CONSTANTS a1, a2, eve, s1, s2, s3, campaign

Row(who, digits, decimals) ==
  [address |-> who, tokens |-> [digits |-> digits, decimals |-> decimals]]

(* Two chunks of one and an empty one; amounts with and without a point;   *)
(* an amount of zero; an address twice; a decimal too many; more than the  *)
(* pot has.                                                                *)
Files ==
  {<<Row(a1, 12, 1), Row(a2, 0, 1), Row(eve, 1, 0)>>,
   <<Row(a1, 1, 0), Row(a1, 1, 1)>>,
   <<Row(eve, 12, 2)>>,
   <<Row(a2, 2, 0), Row(a1, 1, 0), Row(eve, 3, 1)>>}

Options(threshold, addresses, batch_size) ==
  [threshold |-> threshold, addresses |-> addresses, batch_size |-> batch_size,
   claim_msg |-> campaign]

(* Alone, with addresses but no threshold (refused), as a multisig that -m *)
(* gives in full, and as one of which -m gives the other signatories only. *)
Lines ==
  {Options(0, {}, 1), Options(0, {}, 2), Options(0, {}, 3), Options(0, {s2}, 1),
   Options(3, {s1, s2, s3}, 2), Options(2, {s2, s3}, 2)}

(* sudo obeys the proposer, or the account of all signatories. *)
Keys == {s1, multi(3, {s1, s2, s3})}

OldLists == {Nobody, [b \in {a2} |-> 5]}

Start == [a \in Holders |-> IF a = Pot THEN 32 ELSE 10]
=============================================================================
