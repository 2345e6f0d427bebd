----------------------------- MODULE TokenClaim -----------------------------
(***************************************************************************)
(* pallet_token_claim (src/pallets/token-claim): token giveaways paid from *)
(* the account of the pallet.  A failed call is rolled back, so it is no   *)
(* step.  Claims are unsigned transactions: once a signature is public,    *)
(* anybody may submit it, late and more than once.                         *)
(***************************************************************************)
EXTENDS Integers, FiniteSets, FiniteSetsExt

CONSTANTS
  Accounts,             \* Substrate accounts that may be on a list: not the pallet's
  EthereumAddresses,
  Pot,                  \* the account of the pallet
  UnclaimedDestination, \* receives what is left when a claim ends
  ExistentialDeposit,
  Amounts,              \* amounts granted and transferred
  Messages, EmptyMessage,
  MaxBeneficiaries, MaxOpBeneficiaries,
  MaxClaims,            \* bound: claims begun after genesis
  MaxSignatures,        \* bound: signatures made public
  Funds                 \* initial balances

Beneficiary == Accounts \cup EthereumAddresses

Holders == Accounts \cup {Pot}

ASSUME ClaimAssumption ==
  /\ IsFiniteSet(Beneficiary)            \* identifiers of 32 and of 20 bytes
  /\ Accounts \cap EthereumAddresses = {}
  /\ Pot \notin Accounts
  /\ UnclaimedDestination \in Holders
  /\ ExistentialDeposit \in Nat \ {0}
  /\ Amounts \subseteq Nat
  /\ EmptyMessage \in Messages
  /\ MaxBeneficiaries \in Nat /\ MaxOpBeneficiaries \in 1 .. MaxBeneficiaries
  /\ MaxClaims \in Nat /\ MaxSignatures \in Nat
  /\ Funds \in [Holders -> Nat]

VARIABLES
  beneficiaries,   \* Beneficiaries: beneficiary -> amount
  total_claimable, \* TotalClaimable
  claim_active,    \* ClaimActive
  claim_id,        \* ClaimId: NoClaim, or the number and message of the last claim
  balance,         \* external: balance of each account
  signatures,      \* external: the signatures that have been made public
  payment          \* the latest Claimed event, and who asked for it

vars == <<beneficiaries, total_claimable, claim_active, claim_id,
          balance, signatures, payment>>

NoClaim == [id |-> -1, message |-> EmptyMessage]

Nobody == [x \in {} |-> x]

Lists == UNION {[S -> Amounts] : S \in SUBSET Beneficiary}

Sum(list) == SumFunction(list)

(* What the pot can pay without dying. *)
pot == IF balance[Pot] >= ExistentialDeposit THEN balance[Pot] - ExistentialDeposit ELSE 0

(* A transfer from the pot; a receiver must not stay below the minimum. *)
can_transfer(dest, n) == n <= pot /\ (n = 0 \/ balance[dest] + n >= ExistentialDeposit)

transfer(from, dest, n) ==
  [balance EXCEPT ![from] = @ - n, ![dest] = @ + n]
-----------------------------------------------------------------------------
check_max_op_beneficiaries(list) == Cardinality(DOMAIN list) <= MaxOpBeneficiaries

(* Faulty variant: those already on the list are not counted. *)
check_new_only(list) == Cardinality(DOMAIN list) <= MaxBeneficiaries

check_max_beneficiaries(list) ==
  Cardinality(DOMAIN beneficiaries) + Cardinality(DOMAIN list) <= MaxBeneficiaries

(* The checks of do_add_beneficiaries, and what it writes. *)
can_add_beneficiaries(list) ==
  /\ DOMAIN list \cap DOMAIN beneficiaries = {}
  /\ \A b \in DOMAIN list : list[b] > 0
  /\ list = Nobody \/ total_claimable + Sum(list) <= pot

do_add_beneficiaries(list) ==
  /\ can_add_beneficiaries(list)
  /\ beneficiaries' = [b \in DOMAIN beneficiaries \cup DOMAIN list |->
                         IF b \in DOMAIN list THEN list[b] ELSE beneficiaries[b]]
  /\ total_claimable' = total_claimable + Sum(list)

(* The genesis configuration may start a claim at once. *)
Init ==
  /\ balance = Funds
  /\ beneficiaries \in {list \in Lists :
       /\ Cardinality(DOMAIN list) <= MaxBeneficiaries
       /\ \A b \in DOMAIN list : list[b] > 0
       /\ list = Nobody \/ Sum(list) <= pot}
  /\ total_claimable = Sum(beneficiaries)
  /\ claim_active = (beneficiaries # Nobody)
  /\ IF claim_active
     THEN claim_id \in [id : {0}, message : Messages \ {EmptyMessage}]
     ELSE claim_id = NoClaim
  /\ signatures = {}
  /\ payment = NoClaim

on_initialize ==
  /\ balance[Pot] = 0
  /\ balance' = [balance EXCEPT ![Pot] = ExistentialDeposit]
  /\ UNCHANGED <<beneficiaries, total_claimable, claim_active, claim_id, signatures, payment>>

(* Faulty variant: a new claim starts over the leftovers of the last. *)
begin_over_leftovers(list, message) ==
  /\ message # EmptyMessage
  /\ ~ claim_active
  /\ claim_active' = TRUE
  /\ check_max_op_beneficiaries(list)
  /\ do_add_beneficiaries(list)
  /\ claim_id.id < MaxClaims
  /\ claim_id' = [id |-> claim_id.id + 1, message |-> message]
  /\ UNCHANGED <<balance, signatures, payment>>

can_begin_claim(list, message) ==
  /\ beneficiaries = Nobody
  /\ message # EmptyMessage
  /\ ~ claim_active
  /\ check_max_op_beneficiaries(list)
  /\ can_add_beneficiaries(list)

begin_claim(list, message) ==
  /\ can_begin_claim(list, message)
  /\ claim_active' = TRUE
  /\ do_add_beneficiaries(list)
  /\ claim_id.id < MaxClaims
  /\ claim_id' = [id |-> claim_id.id + 1, message |-> message]
  /\ UNCHANGED <<balance, signatures, payment>>

can_extend_claim(list) ==
  /\ claim_active
  /\ check_max_op_beneficiaries(list) /\ check_max_beneficiaries(list)
  /\ can_add_beneficiaries(list)

add_beneficiaries(list) ==
  /\ can_extend_claim(list)
  /\ do_add_beneficiaries(list)
  /\ UNCHANGED <<claim_active, claim_id, balance, signatures, payment>>

(* Faulty variant: the entry stays. *)
pay_and_keep(b, dest, by) ==
  LET amount == beneficiaries[b]
  IN  /\ can_transfer(dest, amount)
      /\ beneficiaries' = beneficiaries
      /\ balance' = transfer(Pot, dest, amount)
      /\ total_claimable' = total_claimable - amount
      /\ payment' = [beneficiary |-> b, dest |-> dest, by |-> by, message |-> claim_id.message]
      /\ UNCHANGED <<claim_active, claim_id, signatures>>

(* process_claim takes the entry, do_claim pays it. *)
process_and_do_claim(b, dest, by) ==
  LET amount == beneficiaries[b]
  IN  /\ can_transfer(dest, amount)
      /\ beneficiaries' = [c \in DOMAIN beneficiaries \ {b} |-> beneficiaries[c]]
      /\ balance' = transfer(Pot, dest, amount)
      /\ total_claimable' = total_claimable - amount
      /\ payment' = [beneficiary |-> b, dest |-> dest, by |-> by, message |-> claim_id.message]
      /\ UNCHANGED <<claim_active, claim_id, signatures>>

(* Faulty variant: the signature does not cover the destination. *)
verify_message_only(signature, message, b, dest) ==
  signature.signer = b /\ signature.message = message

verify(signature, message, b, dest) ==
  /\ signature.signer = b
  /\ signature.message = message
  /\ b \in EthereumAddresses => signature.dest = dest

check_claimant(b, dest, signature) ==
  /\ claim_active
  /\ b \in DOMAIN beneficiaries
  /\ verify(signature, claim_id.message, b, dest)

(* Run when a claim enters the pool, and again before it is executed. *)
validate_unsigned(b, dest, signature) == check_claimant(b, dest, signature)

claim(b, signature) ==
  /\ b \in Accounts
  /\ validate_unsigned(b, b, signature)
  /\ check_claimant(b, b, signature)
  /\ process_and_do_claim(b, b, "Signature")

claim_ethereum(b, dest, signature) ==
  /\ b \in EthereumAddresses
  /\ validate_unsigned(b, dest, signature)
  /\ check_claimant(b, dest, signature)
  /\ process_and_do_claim(b, dest, "Signature")

claim_for(b) ==
  /\ claim_active
  /\ b \in Accounts \cap DOMAIN beneficiaries
  /\ process_and_do_claim(b, b, "Manager")

claim_ethereum_for(b, dest) ==
  /\ claim_active
  /\ b \in EthereumAddresses \cap DOMAIN beneficiaries
  /\ process_and_do_claim(b, dest, "Manager")

end_claim ==
  /\ claim_active
  /\ claim_active' = FALSE
  /\ IF UnclaimedDestination # Pot
     THEN /\ can_transfer(UnclaimedDestination, pot)
          /\ balance' = transfer(Pot, UnclaimedDestination, pot)
     ELSE balance' = balance
  /\ total_claimable' = 0
  /\ UNCHANGED <<beneficiaries, claim_id, signatures, payment>>

(* Faulty variant: the list is given up only when all of it fits. *)
clear_all_or_nothing(limit) ==
  IF Cardinality(DOMAIN beneficiaries) <= limit THEN {Nobody} ELSE {beneficiaries}

(* What clear(limit) may leave: it takes the entries in hash order. *)
do_remove_beneficiaries(limit) ==
  LET count == Cardinality(DOMAIN beneficiaries)
      keep == IF limit >= count THEN 0 ELSE count - limit
  IN  {[b \in S |-> beneficiaries[b]] : S \in kSubset(keep, DOMAIN beneficiaries)}

remove_beneficiaries(limit) ==
  /\ ~ claim_active
  /\ beneficiaries' \in do_remove_beneficiaries(limit)
  /\ UNCHANGED <<total_claimable, claim_active, claim_id, balance, signatures, payment>>

(* External: a beneficiary signs the message of a claim, an account pays   *)
(* into the pot.                                                           *)
sign(b, message, dest) ==
  /\ Cardinality(signatures) < MaxSignatures
  /\ b \in Accounts => dest = b
  /\ signatures' = signatures \cup {[signer |-> b, message |-> message, dest |-> dest]}
  /\ UNCHANGED <<beneficiaries, total_claimable, claim_active, claim_id, balance, payment>>

fund(a, n) ==
  /\ n + ExistentialDeposit <= balance[a]
  /\ n = 0 \/ balance[Pot] + n >= ExistentialDeposit
  /\ balance' = transfer(a, Pot, n)
  /\ UNCHANGED <<beneficiaries, total_claimable, claim_active, claim_id, signatures, payment>>

Next ==
  \/ on_initialize
  \/ \E list \in Lists, message \in Messages : begin_claim(list, message)
  \/ \E list \in Lists : add_beneficiaries(list)
  \/ \E b \in Beneficiary :
       \/ \E s \in signatures : claim(b, s)
       \/ \E s \in signatures, dest \in Holders : claim_ethereum(b, dest, s)
       \/ claim_for(b)
       \/ \E dest \in Holders : claim_ethereum_for(b, dest)
       \/ \E message \in Messages \ {EmptyMessage}, dest \in Holders : sign(b, message, dest)
  \/ end_claim
  \/ \E limit \in 0 .. MaxOpBeneficiaries : remove_beneficiaries(limit)
  \/ \E a \in Accounts, n \in Amounts : fund(a, n)

Spec == Init /\ [][Next]_vars

(***************************************************************************)
(* Any signed account may remove leftovers; somebody who waits for the     *)
(* next claim does so, again and again, with the default limit.            *)
(***************************************************************************)
FairSpec == Spec /\ WF_vars(beneficiaries # Nobody /\ remove_beneficiaries(MaxOpBeneficiaries))
-----------------------------------------------------------------------------
(***************************************************************************)
(* Properties.                                                             *)
(***************************************************************************)
(* Storage has its declared types; no amount is zero, and an active claim  *)
(* has a message, so that ClaimId::get().unwrap() never fails.             *)
TypeOK ==
  /\ beneficiaries \in Lists
  /\ \A b \in DOMAIN beneficiaries : beneficiaries[b] > 0
  /\ Cardinality(DOMAIN beneficiaries) <= MaxBeneficiaries
  /\ total_claimable \in Nat
  /\ claim_active \in BOOLEAN
  /\ claim_active => claim_id.id \in Nat /\ claim_id.message # EmptyMessage
  /\ balance \in [Holders -> Nat]

(***************************************************************************)
(* The claimable total is the sum of the list while a claim is active and  *)
(* zero otherwise, and the pot always covers it: nobody on the list of an  *)
(* active claim can be refused for lack of funds, whatever leftovers       *)
(* earlier claims had.                                                     *)
(***************************************************************************)
PotCoversClaims ==
  /\ total_claimable = (IF claim_active THEN Sum(beneficiaries) ELSE 0)
  /\ total_claimable <= pot

(***************************************************************************)
(* An entry leaves the list of an active claim only by being paid in full  *)
(* out of the pot, and the pot pays nothing else while the claim is        *)
(* active.                                                                 *)
(***************************************************************************)
OnlyEntriesArePaid ==
  [][claim_active /\ claim_active' =>
       \/ /\ DOMAIN beneficiaries \subseteq DOMAIN beneficiaries'
          /\ balance'[Pot] >= balance[Pot]
       \/ \E b \in DOMAIN beneficiaries, dest \in Holders :
            /\ DOMAIN beneficiaries' = DOMAIN beneficiaries \ {b}
            /\ balance' = transfer(Pot, dest, beneficiaries[b])]_vars

(***************************************************************************)
(* An unsigned claim pays where its beneficiary asked for it: a Substrate  *)
(* account itself, an Ethereum address the account it signed together with *)
(* the message of the claim, whoever submits the signature and when.       *)
(***************************************************************************)
PaidAsSigned ==
  (payment # NoClaim /\ payment.by = "Signature") =>
    [signer |-> payment.beneficiary, message |-> payment.message, dest |-> payment.dest]
      \in signatures

(* Leftovers of a claim do not block the next one for ever. *)
LeftoversGo == ~ claim_active ~> (beneficiaries = Nobody)
=============================================================================
