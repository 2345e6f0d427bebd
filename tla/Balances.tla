------------------------------ MODULE Balances ------------------------------
(***************************************************************************)
(* The part of pallet_balances that the zkVerify pallets rely on: holds    *)
(* placed for a reason, released to their owner or transferred to another  *)
(* account.  pallet_balances is not part of the repository; the operators  *)
(* follow the way src/ calls it (fungible::MutateHold with the precision,  *)
(* restriction and fortitude written at the call sites).                   *)
(*                                                                         *)
(* A ledger is a record                                                    *)
(*   free   : what each account can spend,                                 *)
(*   held   : what each account has on hold, for each reason,              *)
(*   frozen : the lower bound that locks put on an account's total.        *)
(***************************************************************************)
EXTENDS Integers

CONSTANTS
  Accounts,            \* account identifiers
  ExistentialDeposit   \* least free balance of a live account

ASSUME LedgerAssumption == ExistentialDeposit \in Nat \ {0}

HoldReason == {"Aggregation", "Domain", "Delivery", "Allowlist", "VkRegistration"}

Ledger == [free   : [Accounts -> Nat],
           held   : [Accounts -> [HoldReason -> Nat]],
           frozen : [Accounts -> Nat]]

Least(m, n) == IF m <= n THEN m ELSE n

Excess(m, n) == IF m >= n THEN m - n ELSE 0     \* saturating subtraction

Reserved(b, a) == b.held[a]["Aggregation"] + b.held[a]["Domain"]
                    + b.held[a]["Delivery"] + b.held[a]["Allowlist"]
                    + b.held[a]["VkRegistration"]

(***************************************************************************)
(* hold: the free balance must stay at or above the existential deposit;   *)
(* holding nothing always succeeds.                                        *)
(***************************************************************************)
CanHold(b, a, n) == n <= Excess(b.free[a], ExistentialDeposit)

Hold(b, r, a, n) == [b EXCEPT !.free[a] = @ - n, !.held[a][r] = @ + n]

(* release with Precision::BestEffort: what is there, up to n. *)
Release(b, r, a, n) ==
  LET m == Least(n, b.held[a][r])
  IN  [b EXCEPT !.free[a] = @ + m, !.held[a][r] = @ - m]

(* A release for every account, n[a] for account a. *)
ReleaseEach(b, r, n) ==
  LET m == [a \in Accounts |-> Least(n[a], b.held[a][r])]
  IN  [b EXCEPT !.free = [a \in Accounts |-> b.free[a] + m[a]],
                !.held = [a \in Accounts |->
                            [b.held[a] EXCEPT ![r] = b.held[a][r] - m[a]]]]

(***************************************************************************)
(* transfer_on_hold with BestEffort, Restriction::Free, Fortitude::Polite: *)
(* at most what is held, and never so much that the total of the source    *)
(* falls below what its locks require.  It fails when the destination      *)
(* would stay below the existential deposit.                               *)
(***************************************************************************)
TransferableOnHold(b, r, a, n) ==
  Least(Least(n, b.held[a][r]),
        Excess(Reserved(b, a), Excess(b.frozen[a], b.free[a])))

CanTransferOnHold(b, r, a, dest, n) ==
  LET m == TransferableOnHold(b, r, a, n)
  IN  m = 0 \/ b.free[dest] + m >= ExistentialDeposit

TransferOnHold(b, r, a, dest, n) ==
  LET m == TransferableOnHold(b, r, a, n)
      debited == [b EXCEPT !.held[a][r] = @ - m]
  IN  [debited EXCEPT !.free[dest] = @ + m]
=============================================================================
