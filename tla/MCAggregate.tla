---------------------------- MODULE MCAggregate -----------------------------
(* Model values and argument sets for checking Aggregate with TLC. *)
EXTENDS Aggregate

CONSTANTS alice, bob

Reg(size, queue, arule, prule, fee, owner) ==
  [aggregation_size |-> size, queue_size |-> queue, aggregate_rules |-> arule,
   proof_rules |-> prule, fee |-> fee, owner_tip |-> 0, delivery_owner |-> owner]

(* One domain at a time, every rule, sizes on both sides of their limits.  *)
DomainRegistrations ==
  {Reg(2, 1, "Untrusted", "Untrusted", 2, None),
   Reg(1, None, "OnlyOwnerUncompleted", "OnlyAllowlisted", 0, alice),
   Reg(2, 2, "OnlyOwner", "OnlyOwner", 2, alice),
   Reg(3, 1, "OnlyOwner", "Untrusted", 3, bob),
   Reg(0, 1, "Untrusted", "Untrusted", 0, bob),
   Reg(1, 0, "Untrusted", "Untrusted", 0, bob),
   Reg(4, 3, "Untrusted", "Untrusted", 0, bob)}

(* Two domains whose aggregations are published side by side. *)
PairRegistrations ==
  {Reg(2, 1, "OnlyOwnerUncompleted", "Untrusted", 0, alice),
   Reg(1, 1, "Untrusted", "OnlyAllowlisted", 0, alice)}

(* Fees that change while statements wait; bob starts with nothing, so a   *)
(* share below the existential deposit cannot be paid to it.               *)
FeeRegistrations ==
  {Reg(2, 1, "Untrusted", "Untrusted", 2, bob),
   Reg(1, 2, "OnlyOwner", "Untrusted", 1, bob)}

FeeDeliveries == {[fee |-> 5, owner_tip |-> 1]}

OwnerRegistrations == {Reg(2, 1, "Untrusted", "OnlyOwner", 2, bob)}

NoDeliveries == {}

RichAndPoor == [a \in Accounts |-> IF a = bob THEN 0 ELSE 40]

Equal == [a \in Accounts |-> 20]
=============================================================================
