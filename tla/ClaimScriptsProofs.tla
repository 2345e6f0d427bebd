------------------------- MODULE ClaimScriptsProofs -------------------------
(***************************************************************************)
(* Proofs about the claim pallet and about the campaign scripts that use   *)
(* it.                                                                     *)
(*                                                                         *)
(* The first part is about TokenClaim alone, for every set of              *)
(* beneficiaries, every amount and every number of claims: the storage     *)
(* invariant, the pot that always covers the list of an active claim,      *)
(* payments as they were signed, and that nothing but an entry of the list *)
(* is paid.                                                                *)
(*                                                                         *)
(* The second is about ClaimScripts, for any command lines, files,         *)
(* signatories, retries and forks.  Inv is about the proposals: whom the   *)
(* files name, that every chunk is executed at most once, that             *)
(* claim_init.js knows the open proposals, and how the approvals of        *)
(* several signatories stay nested, which puts the chunks in order.        *)
(* Grants is about the amounts on the list, and Covered about the funds    *)
(* for them; both need Inv, and the arithmetic of the file that            *)
(* read_airdrop_csv cuts into chunks.                                      *)
(***************************************************************************)
EXTENDS ClaimScripts, SumTheorems

(***************************************************************************)
(* The claim pallet.                                                       *)
(***************************************************************************)

(* The last claim that was begun, if any. *)
ClaimIdOK == claim_id = NoClaim \/ claim_id \in [id : Nat, message : Messages \ {EmptyMessage}]

(* A Substrate account signs for itself. *)
SignaturesOK ==
  /\ signatures \subseteq [signer : Beneficiary, message : Messages, dest : Holders]
  /\ \A s \in signatures : s.signer \in Accounts => s.dest = s.signer

IInv == TypeOK /\ ClaimIdOK /\ PotCoversClaims /\ SignaturesOK /\ PaidAsSigned
-----------------------------------------------------------------------------
(* A list is a function with finitely many entries. *)
LEMMA ListFacts ==
  ASSUME NEW list \in Lists
  PROVE  /\ list = [b \in DOMAIN list |-> list[b]]
         /\ DOMAIN list \subseteq Beneficiary
         /\ IsFiniteSet(DOMAIN list)
         /\ Cardinality(DOMAIN list) \in Nat
         /\ \A b \in DOMAIN list : list[b] \in Amounts /\ list[b] \in Nat
         /\ Sum(list) \in Nat
<1>1. PICK S \in SUBSET Beneficiary : list \in [S -> Amounts] BY DEF Lists
<1>2. /\ list = [b \in DOMAIN list |-> list[b]]
      /\ DOMAIN list \subseteq Beneficiary
      /\ \A b \in DOMAIN list : list[b] \in Amounts
  BY <1>1
<1>3. IsFiniteSet(DOMAIN list) BY <1>2, ClaimAssumption, FS_Subset
<1>4. \A b \in DOMAIN list : list[b] \in Nat BY <1>2, ClaimAssumption
<1>5. Sum(list) \in Nat BY <1>3, <1>4, SumNat DEF Sum, SumFunction
<1> QED BY <1>2, <1>3, <1>4, <1>5, FS_CardinalityType

(* The empty list. *)
LEMMA NobodyFacts ==
  /\ Nobody \in Lists /\ DOMAIN Nobody = {} /\ Sum(Nobody) = 0
  /\ \A list : list \in Lists /\ DOMAIN list = {} => list = Nobody
<1>1. DOMAIN Nobody = {} BY DEF Nobody
<1>2. Nobody \in [{} -> Amounts] BY DEF Nobody
<1>3. Nobody \in Lists BY <1>2 DEF Lists
<1>4. Sum(Nobody) = 0 BY <1>1, SumEmpty DEF Sum, SumFunction
<1>5. ASSUME NEW list \in Lists, DOMAIN list = {} PROVE list = Nobody
  <2>1. PICK S \in SUBSET Beneficiary : list \in [S -> Amounts] BY DEF Lists
  <2>2. S = {} BY <1>5, <2>1
  <2> QED BY <2>1, <2>2 DEF Nobody
<1> QED BY <1>1, <1>3, <1>4, <1>5

(* What do_add_beneficiaries writes: the two lists, and their sums. *)
LEMMA JoinFacts ==
  ASSUME NEW old \in Lists, NEW list \in Lists, DOMAIN list \cap DOMAIN old = {}, NEW new,
         new = [b \in DOMAIN old \cup DOMAIN list |->
                  IF b \in DOMAIN list THEN list[b] ELSE old[b]]
  PROVE  /\ new \in Lists
         /\ DOMAIN new = DOMAIN old \cup DOMAIN list
         /\ Cardinality(DOMAIN new) = Cardinality(DOMAIN old) + Cardinality(DOMAIN list)
         /\ Sum(new) = Sum(old) + Sum(list)
<1> DEFINE A == DOMAIN old
           B == DOMAIN list
<1>1. /\ A \subseteq Beneficiary /\ IsFiniteSet(A) /\ \A b \in A : old[b] \in Amounts /\ old[b] \in Nat
      /\ B \subseteq Beneficiary /\ IsFiniteSet(B) /\ \A b \in B : list[b] \in Amounts /\ list[b] \in Nat
      /\ Cardinality(A) \in Nat /\ Cardinality(B) \in Nat
  BY ListFacts
<1>2. DOMAIN new = A \cup B OBVIOUS
<1>3. \A b \in A \cup B : new[b] \in Amounts /\ new[b] \in Nat BY <1>1
<1>4. new \in Lists
  <2>1. new \in [A \cup B -> Amounts] BY <1>1
  <2>2. A \cup B \in SUBSET Beneficiary BY <1>1
  <2> QED BY <2>1, <2>2 DEF Lists
<1>5. Cardinality(A \cup B) = Cardinality(A) + Cardinality(B)
  <2>1. Cardinality(A \cup B) = Cardinality(A) + Cardinality(B) - Cardinality(A \cap B)
    BY <1>1, FS_Union
  <2>2. A \cap B = {} OBVIOUS
  <2>3. Cardinality(A \cap B) = 0 BY <2>2, FS_EmptySet
  <2> QED BY <1>1, <2>1, <2>3
<1>6. A \cap B = {} OBVIOUS
<1>7. \A b \in A : new[b] = old[b] OBVIOUS
<1>8. \A b \in B : new[b] = list[b] OBVIOUS
<1> HIDE DEF A, B
<1>9. SumFunctionOnSet(new, A \cup B) = SumFunctionOnSet(new, A) + SumFunctionOnSet(new, B)
  BY <1>1, <1>3, <1>6, SumUnion
<1>10. SumFunctionOnSet(new, A) = SumFunctionOnSet(old, A) BY <1>1, <1>7, SumSame
<1>11. SumFunctionOnSet(new, B) = SumFunctionOnSet(list, B) BY <1>1, <1>8, SumSame
<1>12. Sum(new) = Sum(old) + Sum(list)
  BY <1>2, <1>9, <1>10, <1>11 DEF Sum, SumFunction, A, B
<1> QED BY <1>2, <1>4, <1>5, <1>12 DEF A, B

(* A part of a list is a list; without one entry it sums up to as much less. *)
LEMMA PartFacts ==
  ASSUME NEW list \in Lists, NEW S \in SUBSET (DOMAIN list), NEW new,
         new = [b \in S |-> list[b]]
  PROVE  /\ new \in Lists
         /\ DOMAIN new = S
         /\ Cardinality(S) \in Nat
         /\ Cardinality(S) <= Cardinality(DOMAIN list)
         /\ \A b \in DOMAIN list : S = DOMAIN list \ {b} => Sum(list) = list[b] + Sum(new)
<1>1. /\ DOMAIN list \subseteq Beneficiary
      /\ IsFiniteSet(DOMAIN list)
      /\ \A b \in DOMAIN list : list[b] \in Amounts /\ list[b] \in Nat
  BY ListFacts
<1>2. DOMAIN new = S OBVIOUS
<1>3. new \in [S -> Amounts] BY <1>1
<1>4. new \in Lists
  <2>1. S \in SUBSET Beneficiary BY <1>1
  <2> QED BY <1>3, <2>1 DEF Lists
<1>5. IsFiniteSet(S) /\ Cardinality(S) \in Nat /\ Cardinality(S) <= Cardinality(DOMAIN list)
  BY <1>1, FS_Subset, FS_CardinalityType
<1>6. ASSUME NEW b \in DOMAIN list, S = DOMAIN list \ {b}
      PROVE  Sum(list) = list[b] + Sum(new)
  <2>1. SumFunctionOnSet(list, DOMAIN list) = list[b] + SumFunctionOnSet(list, DOMAIN list \ {b})
    BY <1>1, SumRemove
  <2>2. SumFunctionOnSet(list, S) = SumFunctionOnSet(new, S)
    <3>1. \A x \in S : list[x] = new[x] OBVIOUS
    <3> QED BY <1>5, <3>1, SumSame
  <2> QED BY <1>2, <1>6, <2>1, <2>2 DEF Sum, SumFunction
<1> QED BY <1>2, <1>4, <1>5, <1>6
-----------------------------------------------------------------------------
(* The genesis configuration is checked like every later list. *)
LEMMA InitIInv == Init => IInv
<1> SUFFICES ASSUME Init PROVE IInv OBVIOUS
<1> USE DEF Init
<1>1. beneficiaries \in Lists OBVIOUS
<1>2. Sum(beneficiaries) \in Nat BY <1>1, ListFacts
<1>3. balance \in [Holders -> Nat] BY ClaimAssumption
<1>4. ClaimIdOK BY DEF ClaimIdOK
<1>5. claim_active => claim_id.id \in Nat /\ claim_id.message # EmptyMessage OBVIOUS
<1>6. TypeOK BY <1>1, <1>2, <1>3, <1>5 DEF TypeOK
<1>7. PotCoversClaims
  <2>1. pot \in Nat BY <1>3, ClaimAssumption DEF pot, Holders
  <2>2. CASE beneficiaries = Nobody BY <2>1, <2>2, NobodyFacts DEF PotCoversClaims
  <2>3. CASE beneficiaries # Nobody BY <2>3 DEF PotCoversClaims
  <2> QED BY <2>2, <2>3
<1>8. SignaturesOK BY DEF SignaturesOK
<1>9. PaidAsSigned BY DEF PaidAsSigned
<1> QED BY <1>4, <1>6, <1>7, <1>8, <1>9 DEF IInv

(* pot is what can leave the account without killing it. *)
LEMMA PotFacts ==
  ASSUME balance \in [Holders -> Nat]
  PROVE  pot \in Nat /\ pot <= balance[Pot] /\ balance[Pot] \in Nat
BY ClaimAssumption DEF pot, Holders

(* A list that passes the checks of do_add_beneficiaries is covered by the *)
(* pot together with the list it extends.                                  *)
LEMMA AddFacts ==
  ASSUME IInv, NEW list \in Lists, do_add_beneficiaries(list), balance' = balance,
         claim_active \/ beneficiaries = Nobody
  PROVE  /\ beneficiaries' \in Lists
         /\ DOMAIN beneficiaries \subseteq DOMAIN beneficiaries'
         /\ \A b \in DOMAIN beneficiaries' : beneficiaries'[b] > 0
         /\ Cardinality(DOMAIN beneficiaries')
              = Cardinality(DOMAIN beneficiaries) + Cardinality(DOMAIN list)
         /\ total_claimable' = Sum(beneficiaries')
         /\ total_claimable' \in Nat
         /\ total_claimable' <= pot'
<1>1. TypeOK /\ PotCoversClaims BY DEF IInv
<1>2. beneficiaries \in Lists /\ balance \in [Holders -> Nat] BY <1>1 DEF TypeOK
<1>3. DOMAIN list \cap DOMAIN beneficiaries = {} BY DEF do_add_beneficiaries, can_add_beneficiaries
<1>4. beneficiaries' = [b \in DOMAIN beneficiaries \cup DOMAIN list |->
                          IF b \in DOMAIN list THEN list[b] ELSE beneficiaries[b]]
  BY DEF do_add_beneficiaries
<1>5. /\ beneficiaries' \in Lists
      /\ DOMAIN beneficiaries' = DOMAIN beneficiaries \cup DOMAIN list
      /\ Cardinality(DOMAIN beneficiaries')
              = Cardinality(DOMAIN beneficiaries) + Cardinality(DOMAIN list)
      /\ Sum(beneficiaries') = Sum(beneficiaries) + Sum(list)
  BY <1>2, <1>3, <1>4, JoinFacts
<1>6. \A b \in DOMAIN beneficiaries' : beneficiaries'[b] > 0
  <2>1. \A b \in DOMAIN beneficiaries : beneficiaries[b] > 0 BY <1>1 DEF TypeOK
  <2>2. \A b \in DOMAIN list : list[b] > 0 BY DEF do_add_beneficiaries, can_add_beneficiaries
  <2> QED BY <1>4, <2>1, <2>2
<1>7. total_claimable = Sum(beneficiaries)
  BY <1>1, NobodyFacts DEF PotCoversClaims, TypeOK
<1>8. total_claimable' = total_claimable + Sum(list) BY DEF do_add_beneficiaries
<1>9. Sum(list) \in Nat /\ Sum(beneficiaries) \in Nat BY <1>2, ListFacts
<1>10. pot' = pot BY DEF pot
<1>11. total_claimable' <= pot
  <2>1. CASE list = Nobody
    <3>1. Sum(list) = 0 BY <2>1, NobodyFacts
    <3>2. total_claimable <= pot BY <1>1 DEF PotCoversClaims
    <3> QED BY <1>7, <1>8, <1>9, <3>1, <3>2
  <2>2. CASE list # Nobody
    BY <1>8, <2>2 DEF do_add_beneficiaries, can_add_beneficiaries
  <2> QED BY <2>1, <2>2
<1> QED BY <1>5, <1>6, <1>7, <1>8, <1>9, <1>10, <1>11

(* A payment takes one entry, its amount from the pot and from the total. *)
LEMMA PayFacts ==
  ASSUME IInv, claim_active, NEW b \in DOMAIN beneficiaries, NEW dest \in Holders, NEW by,
         process_and_do_claim(b, dest, by)
  PROVE  TypeOK' /\ PotCoversClaims'
<1> DEFINE amount == beneficiaries[b]
<1>1. TypeOK /\ PotCoversClaims BY DEF IInv
<1>2. beneficiaries \in Lists /\ balance \in [Holders -> Nat] /\ total_claimable \in Nat
  BY <1>1 DEF TypeOK
<1>3. /\ amount <= pot
      /\ beneficiaries' = [c \in DOMAIN beneficiaries \ {b} |-> beneficiaries[c]]
      /\ balance' = transfer(Pot, dest, amount)
      /\ total_claimable' = total_claimable - amount
      /\ UNCHANGED <<claim_active, claim_id>>
  BY DEF process_and_do_claim, can_transfer
<1>4. amount \in Nat /\ Sum(beneficiaries) \in Nat BY <1>2, ListFacts
<1>5. /\ beneficiaries' \in Lists
      /\ DOMAIN beneficiaries' = DOMAIN beneficiaries \ {b}
      /\ Cardinality(DOMAIN beneficiaries') \in Nat
      /\ Cardinality(DOMAIN beneficiaries') <= Cardinality(DOMAIN beneficiaries)
      /\ Sum(beneficiaries) = amount + Sum(beneficiaries')
  <2>1. DOMAIN beneficiaries \ {b} \in SUBSET (DOMAIN beneficiaries) OBVIOUS
  <2> QED BY <1>2, <1>3, <2>1, PartFacts
<1>6. Sum(beneficiaries') \in Nat BY <1>5, ListFacts
<1>7. total_claimable = Sum(beneficiaries) /\ total_claimable <= pot
  BY <1>1 DEF PotCoversClaims
<1>8. total_claimable' = Sum(beneficiaries') /\ total_claimable' \in Nat
  <2> HIDE DEF amount
  <2> QED BY <1>3, <1>4, <1>5, <1>6, <1>7
<1>9. pot \in Nat /\ pot <= balance[Pot] /\ balance[Pot] \in Nat BY <1>2, PotFacts
<1>10. Pot \in Holders /\ ExistentialDeposit \in Nat BY ClaimAssumption DEF Holders
<1>11. balance' \in [Holders -> Nat] /\ balance'[Pot] >= balance[Pot] - amount
  <2> HIDE DEF amount
  <2>1. CASE dest = Pot
    BY <1>2, <1>3, <1>4, <1>9, <1>10, <2>1 DEF transfer
  <2>2. CASE dest # Pot
    BY <1>2, <1>3, <1>4, <1>9, <1>10, <2>2 DEF transfer
  <2> QED BY <2>1, <2>2
<1>12. pot' \in Nat /\ pot' >= pot - amount
  <2> HIDE DEF amount
  <2>1. balance'[Pot] \in Nat BY <1>10, <1>11
  <2> QED BY <1>3, <1>4, <1>9, <1>10, <1>11, <2>1 DEF pot
<1>13. total_claimable' <= pot'
  <2> HIDE DEF amount
  <2> QED BY <1>2, <1>3, <1>4, <1>7, <1>9, <1>12
<1>14. PotCoversClaims' BY <1>3, <1>8, <1>13 DEF PotCoversClaims
<1>15. TypeOK'
  <2>1. \A c \in DOMAIN beneficiaries' : beneficiaries'[c] > 0 BY <1>1, <1>3 DEF TypeOK
  <2>2. Cardinality(DOMAIN beneficiaries') <= MaxBeneficiaries
    <3>1. Cardinality(DOMAIN beneficiaries) <= MaxBeneficiaries BY <1>1 DEF TypeOK
    <3>2. Cardinality(DOMAIN beneficiaries) \in Nat BY <1>2, ListFacts
    <3> QED BY <1>5, <3>1, <3>2, ClaimAssumption
  <2>3. claim_active' \in BOOLEAN /\ claim_id' = claim_id /\ claim_active' = claim_active
    BY <1>1, <1>3 DEF TypeOK
  <2> QED BY <1>1, <1>5, <1>8, <1>11, <2>1, <2>2, <2>3 DEF TypeOK
<1> QED BY <1>14, <1>15
-----------------------------------------------------------------------------
(* Steps that leave signatures and payment alone. *)
LEMMA PaidAsSignedUnchanged ==
  ASSUME IInv, UNCHANGED <<signatures, payment>>
  PROVE  SignaturesOK' /\ PaidAsSigned'
BY DEF IInv, SignaturesOK, PaidAsSigned

(* begin_claim preserves the invariant. *)
LEMMA BeginStep ==
  ASSUME IInv, NEW list \in Lists, NEW message \in Messages, begin_claim(list, message)
  PROVE  IInv'
<1>1. /\ beneficiaries = Nobody
      /\ check_max_op_beneficiaries(list)
      /\ do_add_beneficiaries(list)
      /\ claim_active'
      /\ claim_active' \in BOOLEAN
      /\ claim_id' = [id |-> claim_id.id + 1, message |-> message]
      /\ message # EmptyMessage
      /\ UNCHANGED <<balance, signatures, payment>>
  BY DEF begin_claim, can_begin_claim
<1>2. /\ beneficiaries' \in Lists
      /\ \A b \in DOMAIN beneficiaries' : beneficiaries'[b] > 0
      /\ Cardinality(DOMAIN beneficiaries')
           = Cardinality(DOMAIN beneficiaries) + Cardinality(DOMAIN list)
      /\ total_claimable' = Sum(beneficiaries')
      /\ total_claimable' \in Nat
      /\ total_claimable' <= pot'
  BY <1>1, AddFacts
<1>3. claim_id' \in [id : Nat, message : Messages \ {EmptyMessage}]
  <2>1. claim_id.id \in Nat \/ claim_id.id = -1 BY DEF IInv, ClaimIdOK, NoClaim
  <2>2. claim_id.id + 1 \in Nat BY <2>1
  <2> QED BY <1>1, <2>2
<1>4. Cardinality(DOMAIN beneficiaries') <= MaxBeneficiaries
  <2>1. Cardinality(DOMAIN beneficiaries) = 0 BY <1>1, NobodyFacts, FS_EmptySet
  <2>2. Cardinality(DOMAIN list) \in Nat BY ListFacts
  <2>3. Cardinality(DOMAIN list) <= MaxOpBeneficiaries BY <1>1 DEF check_max_op_beneficiaries
  <2> QED BY <1>2, <2>1, <2>2, <2>3, ClaimAssumption
<1>5. balance' \in [Holders -> Nat] BY <1>1 DEF IInv, TypeOK
<1>6. TypeOK' BY <1>1, <1>2, <1>3, <1>4, <1>5 DEF TypeOK
<1>7. PotCoversClaims' BY <1>1, <1>2 DEF PotCoversClaims
<1> QED BY <1>1, <1>3, <1>6, <1>7, PaidAsSignedUnchanged DEF IInv, ClaimIdOK

(* add_beneficiaries preserves the invariant. *)
LEMMA ExtendStep ==
  ASSUME IInv, NEW list \in Lists, add_beneficiaries(list)
  PROVE  IInv'
<1>1. /\ claim_active
      /\ check_max_beneficiaries(list)
      /\ do_add_beneficiaries(list)
      /\ UNCHANGED <<claim_active, claim_id, balance, signatures, payment>>
  BY DEF add_beneficiaries, can_extend_claim
<1>2. /\ beneficiaries' \in Lists
      /\ \A b \in DOMAIN beneficiaries' : beneficiaries'[b] > 0
      /\ Cardinality(DOMAIN beneficiaries')
           = Cardinality(DOMAIN beneficiaries) + Cardinality(DOMAIN list)
      /\ total_claimable' = Sum(beneficiaries')
      /\ total_claimable' \in Nat
      /\ total_claimable' <= pot'
  BY <1>1, AddFacts
<1>3. Cardinality(DOMAIN beneficiaries') <= MaxBeneficiaries
  BY <1>1, <1>2 DEF check_max_beneficiaries
<1>4. TypeOK' BY <1>1, <1>2, <1>3 DEF IInv, TypeOK
<1>5. PotCoversClaims' BY <1>1, <1>2 DEF PotCoversClaims
<1> QED BY <1>1, <1>4, <1>5, PaidAsSignedUnchanged DEF IInv, ClaimIdOK

(* Every way to be paid preserves the invariant. *)
LEMMA PayStep ==
  ASSUME IInv, claim_active, NEW b \in DOMAIN beneficiaries, NEW dest \in Holders,
         NEW by, process_and_do_claim(b, dest, by),
         by = "Signature" =>
           [signer |-> b, message |-> claim_id.message, dest |-> dest] \in signatures
  PROVE  IInv'
<1>1. TypeOK' /\ PotCoversClaims' BY PayFacts
<1>2. UNCHANGED <<claim_active, claim_id, signatures>> BY DEF process_and_do_claim
<1>3. SignaturesOK' /\ ClaimIdOK' BY <1>2 DEF IInv, SignaturesOK, ClaimIdOK
<1>4. payment' = [beneficiary |-> b, dest |-> dest, by |-> by, message |-> claim_id.message]
  BY DEF process_and_do_claim
<1>5. PaidAsSigned' BY <1>2, <1>4 DEF PaidAsSigned
<1> QED BY <1>1, <1>3, <1>5 DEF IInv

(* A valid signature on a claim is one that its beneficiary has made. *)
LEMMA Signed ==
  ASSUME IInv, NEW b \in Beneficiary, NEW dest \in Holders, NEW s \in signatures,
         check_claimant(b, dest, s), b \in Accounts => dest = b
  PROVE  [signer |-> b, message |-> claim_id.message, dest |-> dest] \in signatures
<1>1. s \in [signer : Beneficiary, message : Messages, dest : Holders]
      /\ (s.signer \in Accounts => s.dest = s.signer)
  BY DEF IInv, SignaturesOK
<1>2. s.signer = b /\ s.message = claim_id.message /\ s.dest = dest
  BY <1>1 DEF check_claimant, verify, Beneficiary
<1>3. s = [signer |-> b, message |-> claim_id.message, dest |-> dest] BY <1>1, <1>2
<1> QED BY <1>3

(* end_claim gives up the total together with the pot. *)
LEMMA EndStep ==
  ASSUME IInv, end_claim
  PROVE  IInv'
<1>1. /\ claim_active' = FALSE /\ total_claimable' = 0
      /\ UNCHANGED <<beneficiaries, claim_id, signatures, payment>>
  BY DEF end_claim
<1>2. balance \in [Holders -> Nat] BY DEF IInv, TypeOK
<1>3. pot \in Nat /\ pot <= balance[Pot] /\ balance[Pot] \in Nat BY <1>2, PotFacts
<1>4. balance' \in [Holders -> Nat]
  <2>1. CASE UnclaimedDestination # Pot
    BY <1>2, <1>3, <2>1, ClaimAssumption DEF end_claim, transfer, Holders
  <2>2. CASE UnclaimedDestination = Pot BY <1>2, <2>2 DEF end_claim
  <2> QED BY <2>1, <2>2
<1>5. pot' \in Nat BY <1>4, ClaimAssumption DEF pot, Holders
<1>6. TypeOK' BY <1>1, <1>4 DEF IInv, TypeOK
<1>7. PotCoversClaims' BY <1>1, <1>5 DEF PotCoversClaims
<1> QED BY <1>1, <1>6, <1>7, PaidAsSignedUnchanged DEF IInv, ClaimIdOK

(* remove_beneficiaries shortens the list of a claim that has ended. *)
LEMMA RemoveStep ==
  ASSUME IInv, NEW limit, remove_beneficiaries(limit)
  PROVE  IInv'
<1>1. /\ ~ claim_active
      /\ UNCHANGED <<total_claimable, claim_active, claim_id, balance, signatures, payment>>
  BY DEF remove_beneficiaries
<1>2. PICK S \in SUBSET (DOMAIN beneficiaries) : beneficiaries' = [b \in S |-> beneficiaries[b]]
  BY DEF remove_beneficiaries, do_remove_beneficiaries, kSubset
<1>3. beneficiaries \in Lists BY DEF IInv, TypeOK
<1>4. /\ beneficiaries' \in Lists
      /\ DOMAIN beneficiaries' = S
      /\ Cardinality(S) \in Nat
      /\ Cardinality(S) <= Cardinality(DOMAIN beneficiaries)
  BY <1>2, <1>3, PartFacts
<1>5. \A b \in DOMAIN beneficiaries' : beneficiaries'[b] > 0 BY <1>2 DEF IInv, TypeOK
<1>6. Cardinality(DOMAIN beneficiaries') <= MaxBeneficiaries
  <2>1. Cardinality(DOMAIN beneficiaries) <= MaxBeneficiaries BY DEF IInv, TypeOK
  <2>2. Cardinality(DOMAIN beneficiaries) \in Nat BY <1>3, ListFacts
  <2> QED BY <1>4, <2>1, <2>2, ClaimAssumption
<1>7. TypeOK' BY <1>1, <1>4, <1>5, <1>6 DEF IInv, TypeOK
<1>8. PotCoversClaims' BY <1>1 DEF IInv, PotCoversClaims, pot
<1> QED BY <1>1, <1>7, <1>8, PaidAsSignedUnchanged DEF IInv, ClaimIdOK

(* Payments into the pot only help. *)
LEMMA FundStep ==
  ASSUME IInv, (\E a \in Accounts, n \in Amounts : fund(a, n)) \/ on_initialize
  PROVE  IInv'
<1>1. UNCHANGED <<beneficiaries, total_claimable, claim_active, claim_id, signatures, payment>>
  BY DEF fund, on_initialize
<1>2. balance \in [Holders -> Nat] BY DEF IInv, TypeOK
<1>3. balance' \in [Holders -> Nat] /\ balance'[Pot] >= balance[Pot]
  <2>1. CASE on_initialize BY <1>2, <2>1, ClaimAssumption DEF on_initialize, Holders
  <2>2. ASSUME NEW a \in Accounts, NEW n \in Amounts, fund(a, n)
        PROVE  balance' \in [Holders -> Nat] /\ balance'[Pot] >= balance[Pot]
    <3>1. a # Pot /\ a \in Holders /\ Pot \in Holders /\ n \in Nat /\ ExistentialDeposit \in Nat
      BY ClaimAssumption DEF Holders
    <3>2. n <= balance[a] BY <1>2, <2>2, <3>1 DEF fund
    <3> QED BY <1>2, <2>2, <3>1, <3>2 DEF fund, transfer
  <2> QED BY <2>1, <2>2
<1>4. pot' >= pot
  <2>1. balance[Pot] \in Nat /\ balance'[Pot] \in Nat BY <1>2, <1>3 DEF Holders
  <2> QED BY <1>3, <2>1, ClaimAssumption DEF pot
<1>5. pot \in Nat /\ pot' \in Nat BY <1>2, <1>3, ClaimAssumption DEF pot, Holders
<1>6. TypeOK' BY <1>1, <1>3 DEF IInv, TypeOK
<1>7. PotCoversClaims' BY <1>1, <1>4, <1>5 DEF IInv, TypeOK, PotCoversClaims
<1> QED BY <1>1, <1>6, <1>7, PaidAsSignedUnchanged DEF IInv, ClaimIdOK

(* Making a signature public. *)
LEMMA SignStep ==
  ASSUME IInv, NEW b \in Beneficiary, NEW message \in Messages, NEW dest \in Holders,
         sign(b, message, dest)
  PROVE  IInv'
<1>1. UNCHANGED <<beneficiaries, total_claimable, claim_active, claim_id, balance, payment>>
  BY DEF sign
<1>2. TypeOK' /\ PotCoversClaims' /\ ClaimIdOK'
  BY <1>1 DEF IInv, TypeOK, PotCoversClaims, ClaimIdOK, pot
<1>3. signatures' = signatures \cup {[signer |-> b, message |-> message, dest |-> dest]}
      /\ (b \in Accounts => dest = b)
  BY DEF sign
<1>4. SignaturesOK' BY <1>3 DEF IInv, SignaturesOK
<1>5. PaidAsSigned' BY <1>1, <1>3 DEF IInv, PaidAsSigned
<1> QED BY <1>2, <1>4, <1>5 DEF IInv
-----------------------------------------------------------------------------
(* The four ways in which an entry is paid. *)
ClaimStep ==
  \E b \in Beneficiary :
    \/ \E s \in signatures : claim(b, s)
    \/ \E s \in signatures, dest \in Holders : claim_ethereum(b, dest, s)
    \/ claim_for(b)
    \/ \E dest \in Holders : claim_ethereum_for(b, dest)

(* Each of them pays an entry of an active claim; without the manager, only *)
(* on a signature of the beneficiary.                                       *)
LEMMA ClaimStepPays ==
  ASSUME IInv, ClaimStep
  PROVE  /\ claim_active
         /\ \E b \in DOMAIN beneficiaries, dest \in Holders, by \in {"Signature", "Manager"} :
              /\ process_and_do_claim(b, dest, by)
              /\ by = "Signature" =>
                   [signer |-> b, message |-> claim_id.message, dest |-> dest] \in signatures
<1>1. PICK b \in Beneficiary :
        \/ \E s \in signatures : claim(b, s)
        \/ \E s \in signatures, dest \in Holders : claim_ethereum(b, dest, s)
        \/ claim_for(b)
        \/ \E dest \in Holders : claim_ethereum_for(b, dest)
  BY DEF ClaimStep
<1>0. Accounts \subseteq Holders BY DEF Holders
<1>2. ASSUME NEW s \in signatures, claim(b, s)
      PROVE  /\ claim_active /\ b \in DOMAIN beneficiaries /\ b \in Accounts
             /\ process_and_do_claim(b, b, "Signature")
             /\ [signer |-> b, message |-> claim_id.message, dest |-> b] \in signatures
  <2>1. b \in Accounts /\ check_claimant(b, b, s) /\ process_and_do_claim(b, b, "Signature")
    BY <1>2 DEF claim
  <2> QED BY <1>0, <2>1, Signed DEF check_claimant
<1>3. ASSUME NEW s \in signatures, NEW dest \in Holders, claim_ethereum(b, dest, s)
      PROVE  /\ claim_active /\ b \in DOMAIN beneficiaries
             /\ process_and_do_claim(b, dest, "Signature")
             /\ [signer |-> b, message |-> claim_id.message, dest |-> dest] \in signatures
  <2>1. /\ b \in EthereumAddresses
        /\ check_claimant(b, dest, s) /\ process_and_do_claim(b, dest, "Signature")
    BY <1>3 DEF claim_ethereum
  <2>2. b \notin Accounts BY <2>1, ClaimAssumption
  <2> QED BY <2>1, <2>2, Signed DEF check_claimant
<1>4. CASE \E s \in signatures : claim(b, s) BY <1>0, <1>2, <1>4
<1>5. CASE \E s \in signatures, dest \in Holders : claim_ethereum(b, dest, s) BY <1>3, <1>5
<1>6. CASE claim_for(b) BY <1>0, <1>6 DEF claim_for
<1>7. CASE \E dest \in Holders : claim_ethereum_for(b, dest) BY <1>7 DEF claim_ethereum_for
<1> QED BY <1>1, <1>4, <1>5, <1>6, <1>7

(* The invariant is inductive. *)
LEMMA NextIInv == IInv /\ [Next]_vars => IInv'
<1> SUFFICES ASSUME IInv, [Next]_vars PROVE IInv' OBVIOUS
<1>1. CASE ClaimStep BY <1>1, ClaimStepPays, PayStep
<1>2. CASE \E list \in Lists, message \in Messages : begin_claim(list, message)
  BY <1>2, BeginStep
<1>3. CASE \E list \in Lists : add_beneficiaries(list) BY <1>3, ExtendStep
<1>4. CASE \E b \in Beneficiary, message \in Messages \ {EmptyMessage}, dest \in Holders :
             sign(b, message, dest)
  BY <1>4, SignStep
<1>5. CASE end_claim BY <1>5, EndStep
<1>6. CASE \E limit \in 0 .. MaxOpBeneficiaries : remove_beneficiaries(limit) BY <1>6, RemoveStep
<1>7. CASE (\E a \in Accounts, n \in Amounts : fund(a, n)) \/ on_initialize BY <1>7, FundStep
<1>8. CASE UNCHANGED vars
  BY <1>8 DEF vars, IInv, TypeOK, ClaimIdOK, PotCoversClaims, SignaturesOK, PaidAsSigned, pot
<1> QED BY <1>1, <1>2, <1>3, <1>4, <1>5, <1>6, <1>7, <1>8 DEF Next, ClaimStep

(* The inductive invariant holds in every reachable state. *)
THEOREM ClaimInvariance == Spec => []IInv
BY InitIInv, NextIInv, PTL DEF Spec

(***************************************************************************)
(* Storage has its declared types and bounds; no amount is zero, and an    *)
(* active claim has a message.                                             *)
(***************************************************************************)
THEOREM ClaimTyped == Spec => []TypeOK
<1>1. IInv => TypeOK BY DEF IInv
<1> QED BY <1>1, ClaimInvariance, PTL

(***************************************************************************)
(* TotalClaimable is the sum of the list of an active claim and the pot    *)
(* covers it, through every order of claims, payments, ends and leftovers. *)
(***************************************************************************)
THEOREM PotAlwaysCovers == Spec => []PotCoversClaims
<1>1. IInv => PotCoversClaims BY DEF IInv
<1> QED BY <1>1, ClaimInvariance, PTL

(***************************************************************************)
(* Whoever submits a signature, and when: it pays only where its signer    *)
(* asked for it.                                                           *)
(***************************************************************************)
THEOREM SignedPayments == Spec => []PaidAsSigned
<1>1. IInv => PaidAsSigned BY DEF IInv
<1> QED BY <1>1, ClaimInvariance, PTL

(***************************************************************************)
(* While a claim is active the pot pays nothing but entries of the list,   *)
(* each in full, and an entry leaves the list in no other way.             *)
(***************************************************************************)
THEOREM EntriesPaidOnce == Spec => OnlyEntriesArePaid
<1> DEFINE Kept == /\ DOMAIN beneficiaries \subseteq DOMAIN beneficiaries'
                   /\ balance'[Pot] >= balance[Pot]
           Paid == \E b \in DOMAIN beneficiaries, dest \in Holders :
                     /\ DOMAIN beneficiaries' = DOMAIN beneficiaries \ {b}
                     /\ balance' = transfer(Pot, dest, beneficiaries[b])
<1>1. ASSUME IInv, Next, claim_active, claim_active' PROVE Kept \/ Paid
  <2>1. balance \in [Holders -> Nat] /\ Pot \in Holders BY <1>1 DEF IInv, TypeOK, Holders
  <2>2. balance[Pot] \in Nat BY <2>1
  <2>3. CASE ClaimStep
    <3>1. PICK b \in DOMAIN beneficiaries, dest \in Holders, by \in {"Signature", "Manager"} :
            process_and_do_claim(b, dest, by)
      BY <1>1, <2>3, ClaimStepPays
    <3> QED BY <3>1 DEF process_and_do_claim
  <2>4. CASE \E list \in Lists : add_beneficiaries(list)
    BY <1>1, <2>2, <2>4, AddFacts DEF add_beneficiaries
  <2>5. CASE \E b \in Beneficiary, message \in Messages \ {EmptyMessage}, dest \in Holders :
               sign(b, message, dest)
    BY <2>2, <2>5 DEF sign
  <2>6. CASE on_initialize BY <2>1, <2>6, ClaimAssumption DEF on_initialize
  <2>7. ASSUME NEW a \in Accounts, NEW n \in Amounts, fund(a, n) PROVE Kept
    <3>1. a # Pot /\ a \in Holders /\ n \in Nat BY ClaimAssumption DEF Holders
    <3> QED BY <2>1, <2>2, <2>7, <3>1 DEF fund, transfer
  <2> QED BY <1>1, <2>3, <2>4, <2>5, <2>6, <2>7
        DEF Next, ClaimStep, begin_claim, can_begin_claim, end_claim, remove_beneficiaries
<1>2. IInv /\ [Next]_vars => [claim_active /\ claim_active' => Kept \/ Paid]_vars BY <1>1
<1> QED BY <1>2, ClaimInvariance, PTL DEF Spec, OnlyEntriesArePaid
-----------------------------------------------------------------------------
(***************************************************************************)
(* The campaign scripts.                                                   *)
(***************************************************************************)

(* How far claim_init.js has come. *)
Stages == {"start", "send", "done", "refused", "crashed"}

Fates == {"unsent", "listed", "lost"}

(* A call to be approved: the number of its chunk, and its time point. *)
Calls == [call : Nat, when : Nat]

(* A proposal: its time point, and who has approved it. *)
Proposals == [when : Nat, approvals : SUBSET Signatories]

Typed ==
  /\ options \in CommandLines /\ parse_args(options)
  /\ csv_data \in CsvFiles
  /\ script \in Stages
  /\ chunk \in 1 .. Len(batches)
  /\ fate \in [DOMAIN batches -> Fates]
  /\ to_approve \in Seq(Calls)
  /\ clock \in Nat
  /\ approving \in [Signatories -> Nat]

(* The chunk has a proposal that is open, and those who have approved it. *)
Open(m) == proposal_key(m) \in DOMAIN ops

Approvals(m) == ops[proposal_key(m)].approvals

Sending == script \in {"start", "send"}

(***************************************************************************)
(* Files are written at the end only, and are the same for everybody; no   *)
(* final approval is sent before.                                          *)
(***************************************************************************)
FilesOK ==
  /\ \A a \in DOMAIN files : files[a] = <<>> \/ (script = "done" /\ a \in options.addresses)
  /\ script = "done" =>
       options.addresses \subseteq DOMAIN files /\ \A a \in options.addresses : files[a] = to_approve
  /\ script # "done" => \A a \in Signatories : approving[a] = 0

(***************************************************************************)
(* The calls to be approved are the chunks in their order.  Every chunk is *)
(* executed at most once: it is proposed once, and the proposal is open    *)
(* until then.                                                             *)
(***************************************************************************)
Queued ==
  /\ \A i \in DOMAIN to_approve :
       to_approve[i].call = i /\ i \in DOMAIN batches /\ (fate[i] = "unsent" => Open(i))
  /\ options.threshold > 0 /\ Sending => chunk = Len(to_approve) + 1
  /\ options.threshold = 0 => DOMAIN ops = {}
  /\ \A k \in DOMAIN ops :
       /\ \E m \in DOMAIN batches : k = proposal_key(m) /\ fate[m] = "unsent"
       /\ ops[k] \in Proposals
       /\ IsFiniteSet(ops[k].approvals) /\ Proposer \in ops[k].approvals
  /\ Sending => \A m \in DOMAIN batches : m >= chunk => fate[m] = "unsent"

(* claim_init.js knows every open proposal with its time point. *)
Known ==
  disturbed \cap {"reorg", "answer lost"} = {} =>
    \A k \in DOMAIN ops : \E i \in DOMAIN to_approve :
      k = proposal_key(i) /\ ops[k].when = to_approve[i].when

(***************************************************************************)
(* Who has approved a call has approved the ones before it.  Who runs      *)
(* claim_final_approve.js has approved all calls up to where it is, and    *)
(* those still open after that miss other approvals.                       *)
(***************************************************************************)
Nested ==
  \A j, k \in DOMAIN to_approve :
    j < k /\ Open(j) /\ Open(k) => Approvals(k) \subseteq Approvals(j)

Passed ==
  \A a \in Signatories : final_running(a) =>
    \A j \in 1 .. approving[a] - 1 :
      Open(j) => a \in Approvals(j) /\ Cardinality(Approvals(j)) < options.threshold

InTurn ==
  /\ \A m \in DOMAIN batches : Executed(m) => \A k \in 1 .. m - 1 : Executed(k)
  /\ options.threshold = 0 /\ Sending => \A k \in 1 .. chunk - 1 : Executed(k)

Undisturbed == disturbed \cap {"late approval", "gave up"} = {}

InOrder == Undisturbed => Nested /\ Passed /\ InTurn

Inv == Typed /\ FilesOK /\ Queued /\ Known /\ InOrder
-----------------------------------------------------------------------------
(* The rows that grant something are finitely many. *)
LEMMA RowFacts ==
  ASSUME csv_data \in CsvFiles
  PROVE  /\ Len(csv_data) \in Nat /\ DOMAIN csv_data = 1 .. Len(csv_data)
         /\ IsFiniteSet(DOMAIN csv_data) /\ IsFiniteSet(nonzero)
         /\ \A i \in DOMAIN csv_data : /\ csv_data[i].address \in Beneficiary
                                       /\ csv_data[i].tokens.digits \in Nat
                                       /\ csv_data[i].tokens.decimals \in Nat
<1> DEFINE Rows == [address : Beneficiary, tokens : [digits : Nat, decimals : Nat]]
<1>1. csv_data \in Seq(Rows) BY ScriptsAssumption
<1>2. \A r \in Rows : /\ r.address \in Beneficiary
                      /\ r.tokens.digits \in Nat /\ r.tokens.decimals \in Nat
  OBVIOUS
<1>3. nonzero \subseteq DOMAIN csv_data BY DEF nonzero
<1> HIDE DEF Rows
<1>4. /\ Len(csv_data) \in Nat /\ DOMAIN csv_data = 1 .. Len(csv_data)
      /\ \A i \in DOMAIN csv_data : csv_data[i] \in Rows
  BY <1>1
<1>5. IsFiniteSet(DOMAIN csv_data) BY <1>4, FS_Interval
<1>6. IsFiniteSet(nonzero) BY <1>3, <1>5, FS_Subset
<1> QED BY <1>2, <1>4, <1>5, <1>6

(* Counts are numbers. *)
LEMMA CountNat ==
  ASSUME csv_data \in CsvFiles, NEW i
  PROVE  count(i) \in Nat
<1>1. {j \in nonzero : j <= i} \subseteq nonzero OBVIOUS
<1>2. IsFiniteSet({j \in nonzero : j <= i}) BY <1>1, RowFacts, FS_Subset
<1> QED BY <1>2, FS_CardinalityType DEF count

(* A quotient, and the products around it. *)
LEMMA QuotientFacts ==
  ASSUME NEW n \in Nat, NEW b \in Nat \ {0}
  PROVE  /\ n \div b \in Nat
         /\ (n \div b) * b <= n /\ n < (n \div b + 1) * b
<1>1. n \div b \in Int /\ n = b * (n \div b) + (n % b) /\ n % b \in 0 .. b - 1 OBVIOUS
<1> QED BY <1>1

(* There is at least one chunk. *)
LEMMA BatchFacts ==
  ASSUME options \in CommandLines, parse_args(options), csv_data \in CsvFiles
  PROVE  /\ options.batch_size \in Nat \ {0}
         /\ Len(batches) \in Nat \ {0} /\ DOMAIN batches = 1 .. Len(batches)
         /\ Len(batches) = count(Len(csv_data)) \div options.batch_size + 1
<1>1. options.batch_size \in Nat \ {0} BY ScriptsAssumption DEF parse_args
<1> DEFINE n == count(Len(csv_data)) \div options.batch_size + 1
<1>2. n \in Nat \ {0}
  <2>1. count(Len(csv_data)) \in Nat BY CountNat
  <2>2. count(Len(csv_data)) \div options.batch_size \in Nat BY <1>1, <2>1, QuotientFacts
  <2> QED BY <2>2
<1>3. DOMAIN batches = 1 .. n BY DEF batches, read_airdrop_csv
<1>4. Len(batches) = n
  <2>1. \E z : batches = [m \in 1 .. n |-> z[m]]
    <3> DEFINE z == batches
    <3>1. batches = [m \in 1 .. n |-> z[m]] BY <1>3 DEF batches, read_airdrop_csv
    <3> QED BY <3>1
  <2> HIDE DEF n
  <2>2. PICK z : batches = [m \in 1 .. n |-> z[m]] BY <2>1
  <2> QED BY <1>2, <2>2
<1> QED BY <1>1, <1>2, <1>3, <1>4
-----------------------------------------------------------------------------
(* Command line, file and sudo key stay, and so does all that is computed  *)
(* from them.                                                              *)
LEMMA InputsStay ==
  ASSUME [CampaignNext]_all_vars
  PROVE  /\ options' = options /\ csv_data' = csv_data /\ sudo_key' = sudo_key
         /\ batches' = batches /\ amounts' = amounts /\ nonzero' = nonzero
<1>1. inputs' = inputs
  <2>1. CASE UNCHANGED all_vars BY <2>1 DEF all_vars, cvars
  <2>2. CASE main_start BY <2>2 DEF main_start
  <2>e. CASE encode_failure BY <2>e DEF encode_failure
  <2>3. CASE send_retry BY <2>3 DEF send_retry
  <2>4. CASE send_failure BY <2>4 DEF send_failure
  <2>5. CASE send_as_sudo BY <2>5 DEF send_as_sudo
  <2>6. CASE send_as_multi_sudo BY <2>6 DEF send_as_multi_sudo
  <2>7. ASSUME NEW a \in Signatories, approve_batch(a) PROVE inputs' = inputs
    BY <2>7 DEF approve_batch
  <2>8. ASSUME NEW a \in Signatories, final_start(a) PROVE inputs' = inputs
    BY <2>8 DEF final_start
  <2>9. ASSUME NEW a \in Signatories, final_retry(a) PROVE inputs' = inputs
    BY <2>9 DEF final_retry
  <2>10. ASSUME NEW a \in Signatories, final_failure(a) PROVE inputs' = inputs
    BY <2>10 DEF final_failure
  <2>11. ASSUME NEW a \in Signatories, final_send(a) PROVE inputs' = inputs
    BY <2>11 DEF final_send
  <2>12. ASSUME NEW key \in DOMAIN ops, reorg(key) PROVE inputs' = inputs BY <2>12 DEF reorg
  <2>13. ASSUME NEW b \in Beneficiary, payout(b) PROVE inputs' = inputs
    BY <2>13 DEF payout, cvars
  <2>14. CASE meddle BY <2>14 DEF meddle
  <2> QED
    BY <2>1, <2>e, <2>2, <2>3, <2>4, <2>5, <2>6, <2>7, <2>8, <2>9, <2>10, <2>11, <2>12, <2>13, <2>14
    DEF CampaignNext
<1>2. options' = options /\ csv_data' = csv_data /\ sudo_key' = sudo_key BY <1>1 DEF inputs
<1>3. amounts' = amounts BY <1>2 DEF amounts
<1>4. nonzero' = nonzero BY <1>2, <1>3 DEF nonzero
<1>5. batches' = batches BY <1>2, <1>4 DEF batches, read_airdrop_csv, count
<1> QED BY <1>2, <1>3, <1>4, <1>5

(* The keys of proposals are told apart by their chunks; approvals name    *)
(* the account of the proposal for all chunks or for none.                 *)
LEMMA KeyFacts ==
  ASSUME NEW m, NEW n
  PROVE  /\ proposal_key(m) = proposal_key(n) => m = n
         /\ approval_key(m) = proposal_key(n) =>
              m = n /\ \A j : approval_key(j) = proposal_key(j)
         /\ approval_key(m) = approval_key(n) => m = n
         /\ Proposer \in options.addresses => approval_key(m) = proposal_key(m)
<1>1. proposal_key(m) = proposal_key(n) => m = n BY DEF proposal_key
<1>2. approval_key(m) = approval_key(n) => m = n BY DEF approval_key
<1>3. ASSUME approval_key(m) = proposal_key(n)
      PROVE  m = n /\ \A j : approval_key(j) = proposal_key(j)
  <2>1. m = n /\ options.addresses = options.addresses \cup {Proposer}
    BY <1>3 DEF approval_key, proposal_key, multi
  <2> QED BY <2>1 DEF approval_key, proposal_key
<1>4. ASSUME Proposer \in options.addresses PROVE approval_key(m) = proposal_key(m)
  <2>1. options.addresses = options.addresses \cup {Proposer} BY <1>4
  <2> QED BY <2>1 DEF approval_key, proposal_key
<1> QED BY <1>1, <1>2, <1>3, <1>4

(* Keys depend on the command line only. *)
LEMMA KeysStay ==
  ASSUME options' = options, NEW m
  PROVE  proposal_key(m)' = proposal_key(m) /\ approval_key(m)' = approval_key(m)
BY DEF proposal_key, approval_key, multi

(* What sudo does to a chunk. *)
LEMMA SudoFate ==
  ASSUME NEW m, NEW origin, sudo(m, origin)
  PROVE  \E v \in {"listed", "lost"} : fate' = [fate EXCEPT ![m] = v]
BY DEF sudo
-----------------------------------------------------------------------------
(* The two ways in which claim_init.js goes on with a list of calls. *)
Advance(calls) ==
  /\ to_approve' = calls
  /\ chunk < Len(batches) /\ chunk' = chunk + 1
  /\ UNCHANGED <<script, files>>

Finish(calls) ==
  /\ to_approve' = calls
  /\ script' = "done" /\ write_new_file_name(calls)
  /\ UNCHANGED chunk

(* What an extrinsic of claim_init.js leads to. *)
LEMMA SendShapes ==
  ASSUME NEW calls
  PROVE  /\ next_chunk(calls) => Advance(calls) \/ Finish(calls)
         /\ stop_sending => Finish(to_approve)
         /\ answer(calls) => /\ disturbed \subseteq disturbed'
                             /\ \/ (Advance(calls) \/ Finish(calls)) /\ UNCHANGED disturbed
                                \/ Finish(to_approve) /\ "answer lost" \in disturbed'
BY DEF next_chunk, stop_sending, answer, Advance, Finish

(* What one of claim_final_approve.js leads to. *)
LEMMA FinalShapes ==
  ASSUME NEW a
  PROVE  final_answer(a) =>
           /\ disturbed \subseteq disturbed'
           /\ \/ approving' = [approving EXCEPT ![a] = @ + 1]
              \/ approving' = [approving EXCEPT ![a] = Len(files[a]) + 1]
BY DEF final_answer, final_next, final_stop

(* The types stay. *)
LEMMA NextTyped ==
  ASSUME Typed, FilesOK, [CampaignNext]_all_vars
  PROVE  Typed'
<1> USE DEF Typed
<1>1. /\ options' = options /\ csv_data' = csv_data /\ batches' = batches BY InputsStay
<1>2. (options \in CommandLines /\ parse_args(options) /\ csv_data \in CsvFiles)'
  BY <1>1 DEF parse_args
<1>3. Len(batches) \in Nat \ {0} /\ DOMAIN batches = 1 .. Len(batches) BY BatchFacts
<1> DEFINE Script == script' \in Stages /\ chunk' \in 1 .. Len(batches) /\ to_approve' \in Seq(Calls)
           Chain == fate' \in [DOMAIN batches -> Fates] /\ clock' \in Nat
           Finals == approving' \in [Signatories -> Nat]
<1> SUFFICES Script /\ Chain /\ Finals BY <1>1, <1>2
<1>4. ASSUME NEW calls, calls \in Seq(Calls), Advance(calls) \/ Finish(calls) PROVE Script
  BY <1>3, <1>4 DEF Advance, Finish, Stages
<1>5. ASSUME UNCHANGED <<script, chunk, to_approve>> PROVE Script BY <1>5
<1>6. ASSUME UNCHANGED <<fate, clock>> PROVE Chain BY <1>6
<1>7. ASSUME UNCHANGED approving PROVE Finals BY <1>7
<1>8. ASSUME NEW a \in Signatories, NEW n \in Nat, approving' = [approving EXCEPT ![a] = n]
      PROVE  Finals
  BY <1>8
<1>9. ASSUME NEW m, NEW origin, sudo(m, origin) PROVE fate' \in [DOMAIN batches -> Fates]
  <2>1. PICK v \in {"listed", "lost"} : fate' = [fate EXCEPT ![m] = v] BY <1>9, SudoFate
  <2> QED BY <2>1 DEF Fates
<1>10. ASSUME NEW a \in Signatories, a \in DOMAIN files PROVE Len(files[a]) \in Nat
  <2>1. files[a] = <<>> \/ files[a] = to_approve BY <1>10 DEF FilesOK
  <2> QED BY <2>1
<1>11. CASE UNCHANGED all_vars
  BY <1>5, <1>6, <1>7, <1>11 DEF all_vars, cvars
<1>12. CASE main_start
  <2>1. Script BY <1>12 DEF main_start, Stages
  <2> QED BY <1>6, <1>7, <1>12, <2>1 DEF main_start
<1>e. CASE encode_failure
  <2>1. Script BY <1>3, <1>e DEF encode_failure, Stages
  <2> QED BY <1>6, <1>7, <1>e, <2>1 DEF encode_failure
<1>13. CASE send_retry
  <2>1. Script
    <3>1. CASE max_retries[Proposer] > 1 BY <1>5, <1>13, <3>1 DEF send_retry
    <3>2. CASE ~ (max_retries[Proposer] > 1) /\ options.threshold = 0
      <4>1. next_chunk(to_approve) BY <1>13, <3>2 DEF send_retry
      <4> QED BY <1>4, <4>1, SendShapes
    <3>3. CASE ~ (max_retries[Proposer] > 1) /\ options.threshold # 0
      BY <1>13, <3>3 DEF send_retry, Stages
    <3> QED BY <3>1, <3>2, <3>3
  <2> QED BY <1>6, <1>7, <1>13, <2>1 DEF send_retry
<1>14. CASE send_failure
  <2>1. Script BY <1>4, <1>14, SendShapes DEF send_failure
  <2> QED BY <1>6, <1>7, <1>14, <2>1 DEF send_failure
<1>15. CASE send_as_sudo
  <2>1. Script BY <1>4, <1>15, SendShapes DEF send_as_sudo
  <2>2. fate' \in [DOMAIN batches -> Fates]
    <3>1. PICK m : m = chunk OBVIOUS
    <3>2. sudo(m, Proposer) BY <1>15, <3>1 DEF send_as_sudo
    <3> QED BY <1>9, <3>2
  <2> QED BY <1>7, <1>15, <2>1, <2>2 DEF send_as_sudo
<1>16. CASE send_as_multi_sudo
  <2>1. PICK calls : calls = Append(to_approve, [call |-> chunk, when |-> clock]) OBVIOUS
  <2>2. calls \in Seq(Calls)
    <3>1. [call |-> chunk, when |-> clock] \in Calls BY <1>3 DEF Calls
    <3> QED BY <2>1, <3>1
  <2>3. answer(calls) BY <1>16, <2>1 DEF send_as_multi_sudo
  <2>4. Script BY <1>4, <2>2, <2>3, SendShapes
  <2> QED BY <1>7, <1>16, <2>4 DEF send_as_multi_sudo
<1>17. ASSUME NEW a \in Signatories, approve_batch(a) PROVE Script /\ Chain /\ Finals
  BY <1>5, <1>6, <1>7, <1>17 DEF approve_batch
<1>18. ASSUME NEW a \in Signatories, final_start(a) PROVE Script /\ Chain /\ Finals
  BY <1>5, <1>6, <1>8, <1>18 DEF final_start
<1>19. ASSUME NEW a \in Signatories, final_retry(a) PROVE Script /\ Chain /\ Finals
  <2>1. approving' = approving \/ approving' = [approving EXCEPT ![a] = @ + 1]
    BY <1>19 DEF final_retry, final_next
  <2>2. Finals BY <2>1
  <2> QED BY <1>5, <1>6, <1>19, <2>2 DEF final_retry
<1>20. ASSUME NEW a \in Signatories, final_failure(a) PROVE Script /\ Chain /\ Finals
  <2>1. approving[a] \in Nat OBVIOUS
  <2>2. a \in DOMAIN files BY <1>20, <2>1 DEF final_failure, final_running
  <2> QED BY <1>5, <1>6, <1>8, <1>10, <1>20, <2>2 DEF final_failure, final_stop
<1>21. ASSUME NEW a \in Signatories, final_send(a) PROVE Script /\ Chain /\ Finals
  <2>1. approving[a] \in Nat OBVIOUS
  <2>2. a \in DOMAIN files BY <1>21, <2>1 DEF final_send, final_running
  <2>3. Len(files[a]) \in Nat BY <1>10, <2>2
  <2>a. \/ approving' = [approving EXCEPT ![a] = @ + 1]
        \/ approving' = [approving EXCEPT ![a] = Len(files[a]) + 1]
    BY <1>21, FinalShapes DEF final_send
  <2>b. Finals BY <2>3, <2>a
  <2>4. PICK m, origin : sudo(m, origin) \/ UNCHANGED fate
    BY <1>21 DEF final_send
  <2>5. Chain BY <1>6, <1>9, <1>21, <2>4 DEF final_send
  <2> QED BY <1>5, <1>21, <2>5, <2>b DEF final_send
<1>22. ASSUME NEW key \in DOMAIN ops, reorg(key) PROVE Script /\ Chain /\ Finals
  BY <1>5, <1>7, <1>22 DEF reorg
<1>23. ASSUME NEW b \in Beneficiary, payout(b) PROVE Script /\ Chain /\ Finals
  BY <1>5, <1>6, <1>7, <1>23 DEF payout, cvars
<1>24. CASE meddle BY <1>5, <1>6, <1>7, <1>24 DEF meddle
<1> QED
  BY <1>e, <1>11, <1>12, <1>13, <1>14, <1>15, <1>16, <1>17, <1>18, <1>19, <1>20, <1>21, <1>22,
     <1>23, <1>24 DEF CampaignNext

(* The files are written once. *)
LEMMA NextFiles ==
  ASSUME Typed, FilesOK, [CampaignNext]_all_vars
  PROVE  FilesOK'
<1>1. options' = options BY InputsStay
<1>2. ASSUME UNCHANGED <<script, to_approve, files, approving>> PROVE FilesOK' BY <1>1, <1>2 DEF FilesOK
<1>3. ASSUME UNCHANGED <<files, approving>>, script # "done", script' # "done" PROVE FilesOK'
  BY <1>1, <1>3 DEF FilesOK
<1>4. ASSUME NEW calls, Advance(calls) \/ Finish(calls), script = "send", UNCHANGED approving
      PROVE  FilesOK'
  <2>1. CASE Advance(calls) BY <1>3, <1>4, <2>1 DEF Advance
  <2>2. CASE Finish(calls)
    <3>1. files' = [a \in DOMAIN files \cup options.addresses |->
                      IF a \in options.addresses THEN calls ELSE files[a]]
      BY <2>2 DEF Finish, write_new_file_name
    <3>2. script' = "done" /\ to_approve' = calls BY <2>2 DEF Finish
    <3>3. \A a \in DOMAIN files : files[a] = <<>> BY <1>4 DEF FilesOK
    <3> QED BY <1>1, <3>1, <3>2, <3>3 DEF FilesOK
  <2> QED BY <1>4, <2>1, <2>2
<1>5. ASSUME NEW a \in Signatories, a \in DOMAIN files, files[a] # <<>>,
             UNCHANGED <<script, to_approve, files>>
      PROVE  FilesOK'
  <2>1. script = "done" BY <1>5 DEF FilesOK
  <2> QED BY <1>1, <1>5, <2>1 DEF FilesOK
<1>6. ASSUME NEW a \in Signatories, final_running(a) PROVE a \in DOMAIN files /\ files[a] # <<>>
  <2>1. approving[a] \in Nat BY DEF Typed
  <2>2. a \in DOMAIN files /\ approving[a] \in 1 .. Len(files[a])
    BY <1>6, <2>1 DEF final_running
  <2> QED BY <2>2
<1>11. CASE UNCHANGED all_vars BY <1>2, <1>11 DEF all_vars, cvars
<1>12. CASE main_start BY <1>3, <1>12 DEF main_start
<1>e. CASE encode_failure BY <1>3, <1>e DEF encode_failure
<1>13. CASE send_retry
  <2>1. CASE max_retries[Proposer] > 1 BY <1>2, <1>13, <2>1 DEF send_retry
  <2>2. CASE ~ (max_retries[Proposer] > 1) /\ options.threshold = 0
    BY <1>4, <1>13, <2>2, SendShapes DEF send_retry
  <2>3. CASE ~ (max_retries[Proposer] > 1) /\ options.threshold # 0
    BY <1>3, <1>13, <2>3 DEF send_retry
  <2> QED BY <2>1, <2>2, <2>3
<1>14. CASE send_failure BY <1>4, <1>14, SendShapes DEF send_failure
<1>15. CASE send_as_sudo BY <1>4, <1>15, SendShapes DEF send_as_sudo
<1>16. CASE send_as_multi_sudo
  <2>1. PICK calls : calls = Append(to_approve, [call |-> chunk, when |-> clock]) OBVIOUS
  <2>2. answer(calls) /\ script = "send" /\ UNCHANGED approving BY <1>16, <2>1 DEF send_as_multi_sudo
  <2> QED BY <1>4, <2>2, SendShapes
<1>17. ASSUME NEW a \in Signatories, approve_batch(a) PROVE FilesOK'
  BY <1>2, <1>17 DEF approve_batch
<1>18. ASSUME NEW a \in Signatories, final_start(a) PROVE FilesOK'
  BY <1>5, <1>18 DEF final_start
<1>19. ASSUME NEW a \in Signatories, final_retry(a) PROVE FilesOK'
  BY <1>5, <1>6, <1>19 DEF final_retry
<1>20. ASSUME NEW a \in Signatories, final_failure(a) PROVE FilesOK'
  BY <1>5, <1>6, <1>20 DEF final_failure
<1>21. ASSUME NEW a \in Signatories, final_send(a) PROVE FilesOK'
  BY <1>5, <1>6, <1>21 DEF final_send
<1>22. ASSUME NEW key \in DOMAIN ops, reorg(key) PROVE FilesOK' BY <1>2, <1>22 DEF reorg
<1>23. ASSUME NEW b \in Beneficiary, payout(b) PROVE FilesOK' BY <1>2, <1>23 DEF payout, cvars
<1>24. CASE meddle BY <1>2, <1>24 DEF meddle
<1> QED
  BY <1>e, <1>11, <1>12, <1>13, <1>14, <1>15, <1>16, <1>17, <1>18, <1>19, <1>20, <1>21, <1>22,
     <1>23, <1>24 DEF CampaignNext
-----------------------------------------------------------------------------
(* The calls that a signatory reads are those of claim_init.js. *)
LEMMA ReadFacts ==
  ASSUME Typed, FilesOK, NEW a \in DOMAIN files, files[a] # <<>>
  PROVE  script = "done" /\ a \in options.addresses /\ files[a] = to_approve
BY DEF FilesOK

(* A final approval either executes the call or adds to its approvals. *)
Executes(i, a) ==
  /\ Cardinality(Approvals(i) \cup {a}) >= options.threshold
  /\ ops' = without_op(proposal_key(i))
  /\ sudo(i, proposal_key(i).account)

Approves(i, a) ==
  /\ ~ (Cardinality(Approvals(i) \cup {a}) >= options.threshold)
  /\ ops' = with_op(proposal_key(i), [ops[proposal_key(i)] EXCEPT !.approvals = Approvals(i) \cup {a}])
  /\ UNCHANGED <<vars, fate, granted>>

(* What a final approval finds, and does. *)
LEMMA FinalFacts ==
  ASSUME Typed, FilesOK, Queued, NEW a \in Signatories, final_send(a)
  PROVE  /\ script = "done" /\ a \in DOMAIN files /\ files[a] = to_approve
         /\ Proposer \in options.addresses
         /\ \E i \in DOMAIN to_approve :
              approving[a] = i /\ Open(i) /\ (Executes(i, a) \/ Approves(i, a))
<1>1. PICK i : i = approving[a] OBVIOUS
<1>2. i \in Nat BY <1>1 DEF Typed
<1>3. final_running(a) BY DEF final_send
<1>4. a \in DOMAIN files /\ i \in 1 .. Len(files[a]) BY <1>1, <1>2, <1>3 DEF final_running
<1>5. files[a] # <<>> BY <1>4
<1>6. script = "done" /\ a \in options.addresses /\ files[a] = to_approve BY <1>4, <1>5, ReadFacts
<1>7. i \in DOMAIN to_approve BY <1>4, <1>6 DEF Typed
<1>8. files[a][approving[a]].call = i BY <1>1, <1>6, <1>7 DEF Queued
<1>9. PICK key : key = approval_key(i) OBVIOUS
<1>10. /\ key \in DOMAIN ops
       /\ IF Cardinality(ops[key].approvals \cup {a}) >= key.account.threshold
          THEN ops' = without_op(key) /\ sudo(i, key.account)
          ELSE /\ ops' = with_op(key, [ops[key] EXCEPT !.approvals = ops[key].approvals \cup {a}])
               /\ UNCHANGED <<vars, fate, granted>>
  BY <1>8, <1>9 DEF final_send, can_approve, is_final, approvals_with
<1>11. PICK m \in DOMAIN batches : key = proposal_key(m) BY <1>10 DEF Queued
<1>12. key = proposal_key(i) /\ options.addresses = options.addresses \cup {Proposer}
  BY <1>9, <1>11 DEF approval_key, proposal_key, multi
<1>13. Proposer \in options.addresses BY <1>12
<1>14. key.account.threshold = options.threshold BY <1>12 DEF proposal_key, multi
<1>15. Open(i) BY <1>10, <1>12 DEF Open
<1>16. Executes(i, a) \/ Approves(i, a) BY <1>10, <1>12, <1>14 DEF Executes, Approves, Approvals
<1> QED BY <1>1, <1>4, <1>6, <1>7, <1>13, <1>15, <1>16

(* The intermediate approvals concern all calls, which are all open. *)
LEMMA BatchApprovalFacts ==
  ASSUME Typed, FilesOK, Queued, NEW a \in Signatories, approve_batch(a)
  PROVE  /\ script = "done"
         /\ DOMAIN ops' = DOMAIN ops
         /\ \A k \in DOMAIN ops :
              /\ ops'[k] \in Proposals
              /\ ops'[k].when = ops[k].when
              /\ \/ ops'[k].approvals = ops[k].approvals
                 \/ ops'[k].approvals = ops[k].approvals \cup {a}
         /\ \A i \in DOMAIN to_approve :
              Open(i) /\ ops'[proposal_key(i)].approvals = Approvals(i) \cup {a}
<1>1. a \in DOMAIN files /\ files[a] # <<>> BY DEF approve_batch
<1>2. script = "done" /\ files[a] = to_approve BY <1>1, ReadFacts
<1>3. ops' = [k \in DOMAIN ops |->
                IF \E c \in calls_of(a) : k = approval_key(c.call)
                THEN [ops[k] EXCEPT !.approvals = @ \cup {a}] ELSE ops[k]]
  BY DEF approve_batch
<1>4. ASSUME NEW k \in DOMAIN ops
      PROVE  /\ ops'[k] \in Proposals
             /\ ops'[k].when = ops[k].when
             /\ \/ ops'[k].approvals = ops[k].approvals
                \/ ops'[k].approvals = ops[k].approvals \cup {a}
  <2>1. ops[k] \in Proposals BY DEF Queued
  <2>2. \A r \in Proposals :
          LET new == [r EXCEPT !.approvals = @ \cup {a}]
          IN  new \in Proposals /\ new.when = r.when /\ new.approvals = r.approvals \cup {a}
    BY DEF Proposals
  <2> QED BY <1>3, <2>1, <2>2
<1>5. ASSUME NEW i \in DOMAIN to_approve
      PROVE  Open(i) /\ ops'[proposal_key(i)].approvals = Approvals(i) \cup {a}
  <2>1. PICK c : c = to_approve[i] OBVIOUS
  <2>2. c \in calls_of(a) /\ c.call = i BY <1>2, <2>1 DEF calls_of, Queued
  <2>3. approval_key(i) \in DOMAIN ops BY <2>2 DEF approve_batch, can_approve
  <2>4. PICK m \in DOMAIN batches : approval_key(i) = proposal_key(m) BY <2>3 DEF Queued
  <2>5. approval_key(i) = proposal_key(i) BY <2>4, KeyFacts
  <2>6. PICK k \in DOMAIN ops : k = proposal_key(i) BY <2>3, <2>5
  <2>7. ops[k] \in Proposals BY DEF Queued
  <2>8. ops'[k] = [ops[k] EXCEPT !.approvals = @ \cup {a}] BY <1>3, <2>2, <2>5, <2>6
  <2>9. ops'[k].approvals = ops[k].approvals \cup {a} BY <2>7, <2>8 DEF Proposals
  <2> QED BY <2>6, <2>9 DEF Open, Approvals
<1> QED BY <1>2, <1>3, <1>4, <1>5

(* What without_op and with_op leave, by chunks. *)
LEMMA WithoutFacts ==
  ASSUME NEW i, ops' = without_op(proposal_key(i))
  PROVE  /\ DOMAIN ops' = DOMAIN ops \ {proposal_key(i)}
         /\ \A k \in DOMAIN ops' : ops'[k] = ops[k]
BY DEF without_op

(* One proposal is added or replaced. *)
LEMMA WithFacts ==
  ASSUME NEW i, NEW op, ops' = with_op(proposal_key(i), op)
  PROVE  /\ DOMAIN ops' = DOMAIN ops \cup {proposal_key(i)}
         /\ ops'[proposal_key(i)] = op
         /\ \A k \in DOMAIN ops : k # proposal_key(i) => ops'[k] = ops[k]
BY DEF with_op

(* Nothing that Queued is about changes, or claim_init.js has ended. *)
LEMMA QueuedStays ==
  ASSUME Queued, options' = options, batches' = batches, Sending' => Sending,
         UNCHANGED <<chunk, to_approve, ops, fate>>
  PROVE  Queued'
<1>1. \A m : Open(m)' = Open(m) /\ proposal_key(m)' = proposal_key(m)
  BY KeysStay DEF Open
<1> QED BY <1>1 DEF Queued

(* The same sudo call or none, and the next chunk. *)
LEMMA SudoQueued ==
  ASSUME Typed, Queued, options' = options, batches' = batches, script = "send",
         options.threshold = 0, UNCHANGED ops,
         fate' = fate \/ \E v \in {"listed", "lost"} : fate' = [fate EXCEPT ![chunk] = v],
         Advance(to_approve) \/ Finish(to_approve)
  PROVE  Queued'
<1>1. \A m : Open(m)' = Open(m) /\ proposal_key(m)' = proposal_key(m)
  BY KeysStay DEF Open
<1>2. DOMAIN ops = {} /\ DOMAIN ops' = {} BY DEF Queued
<1>3. to_approve' = to_approve BY DEF Advance, Finish
<1>4. \A m \in DOMAIN batches : fate[m] # "unsent" => fate'[m] # "unsent"
  BY DEF Typed
<1>5. ASSUME NEW i \in DOMAIN to_approve
      PROVE  to_approve[i].call = i /\ i \in DOMAIN batches /\ (fate'[i] = "unsent" => Open(i))
  BY <1>4 DEF Queued
<1>6. Sending' => \A m \in DOMAIN batches : m >= chunk' => fate'[m] = "unsent"
  <2> SUFFICES ASSUME Sending', NEW m \in DOMAIN batches, m >= chunk' PROVE fate'[m] = "unsent"
    OBVIOUS
  <2>1. chunk' = chunk + 1 BY DEF Advance, Finish, Sending
  <2>2. Len(batches) \in Nat /\ DOMAIN batches = 1 .. Len(batches) BY BatchFacts DEF Typed
  <2>3. m # chunk /\ m >= chunk BY <2>1, <2>2 DEF Typed
  <2>4. fate[m] = "unsent" BY <2>3 DEF Queued, Sending
  <2> QED BY <2>3, <2>4 DEF Typed
<1> QED BY <1>1, <1>2, <1>3, <1>5, <1>6 DEF Queued

(* A new proposal. *)
LEMMA ProposeQueued ==
  ASSUME Typed, Queued, options' = options, batches' = batches, send_as_multi_sudo
  PROVE  Queued'
<1>1. \A m : proposal_key(m)' = proposal_key(m) BY KeysStay
<1>2. PICK n : n = chunk OBVIOUS
<1>3. PICK new : new = [when |-> clock, approvals |-> {Proposer}] OBVIOUS
<1>4. ops' = with_op(proposal_key(n), new) /\ fate' = fate /\ options.threshold > 0
  BY <1>2, <1>3 DEF send_as_multi_sudo
<1>5. /\ DOMAIN ops' = DOMAIN ops \cup {proposal_key(n)}
      /\ ops'[proposal_key(n)] = new
      /\ \A k \in DOMAIN ops : k # proposal_key(n) => ops'[k] = ops[k]
  BY <1>4, WithFacts
<1>6. Len(batches) \in Nat /\ DOMAIN batches = 1 .. Len(batches) BY BatchFacts DEF Typed
<1>7. n \in DOMAIN batches /\ fate[n] = "unsent" /\ n = Len(to_approve) + 1
  <2>1. Sending BY DEF send_as_multi_sudo, Sending
  <2> QED BY <1>2, <1>4, <1>6, <2>1 DEF Typed, Queued
<1>8. PICK calls : calls = Append(to_approve, [call |-> n, when |-> clock]) OBVIOUS
<1>9. answer(calls) BY <1>2, <1>8 DEF send_as_multi_sudo
<1>10. \/ Advance(calls) \/ Finish(calls)
       \/ Finish(to_approve)
  BY <1>9, SendShapes
<1>11. new \in Proposals /\ IsFiniteSet(new.approvals) /\ Proposer \in new.approvals
  <2>1. new \in Proposals /\ new.approvals = {Proposer}
    BY <1>3, ScriptsAssumption DEF Proposals, Typed
  <2> QED BY <2>1, FS_Singleton
<1>12. \A k \in DOMAIN ops' :
        /\ \E m \in DOMAIN batches : k = proposal_key(m) /\ fate[m] = "unsent"
        /\ ops'[k] \in Proposals
        /\ IsFiniteSet(ops'[k].approvals) /\ Proposer \in ops'[k].approvals
  <2> SUFFICES ASSUME NEW k \in DOMAIN ops'
               PROVE  /\ \E m \in DOMAIN batches : k = proposal_key(m) /\ fate[m] = "unsent"
                      /\ ops'[k] \in Proposals
                      /\ IsFiniteSet(ops'[k].approvals) /\ Proposer \in ops'[k].approvals
    OBVIOUS
  <2>1. CASE k = proposal_key(n) BY <1>5, <1>7, <1>11, <2>1
  <2>2. CASE k # proposal_key(n) BY <1>5, <2>2 DEF Queued
  <2> QED BY <2>1, <2>2
<1>13. \A i \in DOMAIN to_approve :
         /\ to_approve[i].call = i /\ i \in DOMAIN batches
         /\ fate[i] = "unsent" => proposal_key(i) \in DOMAIN ops'
  BY <1>5 DEF Queued, Open
<1>14. to_approve \in Seq(Calls) BY DEF Typed
<1>15. DOMAIN calls = 1 .. n /\ Len(calls) = n /\ calls[n].call = n
       /\ \A i \in DOMAIN to_approve : calls[i] = to_approve[i]
       /\ DOMAIN to_approve = 1 .. n - 1
  <2>1. Len(to_approve) \in Nat /\ DOMAIN to_approve = 1 .. Len(to_approve) BY <1>14
  <2> QED BY <1>7, <1>8, <1>14, <2>1
<1>16. \A i \in DOMAIN calls :
         /\ calls[i].call = i /\ i \in DOMAIN batches
         /\ fate[i] = "unsent" => proposal_key(i) \in DOMAIN ops'
  <2> SUFFICES ASSUME NEW i \in DOMAIN calls
               PROVE  /\ calls[i].call = i /\ i \in DOMAIN batches
                      /\ fate[i] = "unsent" => proposal_key(i) \in DOMAIN ops'
    OBVIOUS
  <2>1. i = n \/ i \in DOMAIN to_approve BY <1>6, <1>7, <1>15
  <2> QED BY <1>5, <1>7, <1>13, <1>15, <2>1
<1>17. to_approve' = calls \/ to_approve' = to_approve BY <1>10 DEF Advance, Finish
<1>18. Sending' => chunk' = n + 1 /\ to_approve' = calls
  BY <1>2, <1>10 DEF Advance, Finish, Sending
<1>19. Sending' => \A m \in DOMAIN batches : m >= chunk' => fate'[m] = "unsent"
  <2>1. \A m \in DOMAIN batches : m >= n + 1 => fate[m] = "unsent"
    BY <1>2, <1>6, <1>7 DEF Queued, Sending, send_as_multi_sudo
  <2> QED BY <1>4, <1>18, <2>1
<1>20. Sending' => chunk' = Len(to_approve') + 1 BY <1>15, <1>18
<1>21. \A m : Open(m)' <=> proposal_key(m) \in DOMAIN ops' BY <1>1 DEF Open
<1>22. options.threshold # 0 BY <1>4, ScriptsAssumption DEF Typed
<1>23. \A i \in DOMAIN to_approve' :
         /\ to_approve'[i].call = i /\ i \in DOMAIN batches
         /\ fate[i] = "unsent" => proposal_key(i) \in DOMAIN ops'
  BY <1>13, <1>16, <1>17
<1> QED BY <1>1, <1>4, <1>12, <1>19, <1>20, <1>21, <1>22, <1>23 DEF Queued

(* Approvals are added, or a fork moves a proposal. *)
LEMMA ApprovedQueued ==
  ASSUME Queued, options' = options, batches' = batches, Sending' => Sending,
         UNCHANGED <<chunk, to_approve, fate>>, DOMAIN ops' = DOMAIN ops,
         \A k \in DOMAIN ops :
           /\ ops'[k] \in Proposals
           /\ IsFiniteSet(ops'[k].approvals) /\ Proposer \in ops'[k].approvals
  PROVE  Queued'
<1>1. \A m : Open(m)' = Open(m) /\ proposal_key(m)' = proposal_key(m)
  BY KeysStay DEF Open
<1> QED BY <1>1 DEF Queued

(* A call is executed: its proposal is closed. *)
LEMMA ExecutedQueued ==
  ASSUME Typed, Queued, options' = options, batches' = batches, script = "done",
         UNCHANGED <<script, chunk, to_approve>>,
         NEW i \in DOMAIN to_approve, Open(i),
         ops' = without_op(proposal_key(i)),
         \E v \in {"listed", "lost"} : fate' = [fate EXCEPT ![i] = v]
  PROVE  Queued'
<1>1. \A m : proposal_key(m)' = proposal_key(m) BY KeysStay
<1>2. /\ DOMAIN ops' = DOMAIN ops \ {proposal_key(i)}
      /\ \A k \in DOMAIN ops' : ops'[k] = ops[k]
  BY WithoutFacts
<1>3. i \in DOMAIN batches /\ fate'[i] # "unsent" BY DEF Queued, Typed
<1>4. \A m \in DOMAIN batches : m # i => fate'[m] = fate[m] BY DEF Typed
<1>5. \A n \in DOMAIN to_approve :
        /\ to_approve[n].call = n /\ n \in DOMAIN batches
        /\ fate'[n] = "unsent" => proposal_key(n) \in DOMAIN ops'
  <2> SUFFICES ASSUME NEW n \in DOMAIN to_approve
               PROVE  /\ to_approve[n].call = n /\ n \in DOMAIN batches
                      /\ fate'[n] = "unsent" => proposal_key(n) \in DOMAIN ops'
    OBVIOUS
  <2>1. to_approve[n].call = n /\ n \in DOMAIN batches BY DEF Queued
  <2>2. ASSUME fate'[n] = "unsent" PROVE proposal_key(n) \in DOMAIN ops'
    <3>1. n # i /\ fate[n] = "unsent" BY <1>3, <1>4, <2>1, <2>2
    <3>2. proposal_key(n) \in DOMAIN ops BY <3>1 DEF Queued, Open
    <3>3. proposal_key(n) # proposal_key(i) BY <3>1, KeyFacts
    <3> QED BY <1>2, <3>2, <3>3
  <2> QED BY <2>1, <2>2
<1>6. \A k \in DOMAIN ops' :
        /\ \E m \in DOMAIN batches : k = proposal_key(m) /\ fate'[m] = "unsent"
        /\ ops'[k] \in Proposals
        /\ IsFiniteSet(ops'[k].approvals) /\ Proposer \in ops'[k].approvals
  <2> SUFFICES ASSUME NEW k \in DOMAIN ops'
               PROVE  /\ \E m \in DOMAIN batches : k = proposal_key(m) /\ fate'[m] = "unsent"
                      /\ ops'[k] \in Proposals
                      /\ IsFiniteSet(ops'[k].approvals) /\ Proposer \in ops'[k].approvals
    OBVIOUS
  <2>1. k \in DOMAIN ops /\ k # proposal_key(i) /\ ops'[k] = ops[k] BY <1>2
  <2>2. PICK m \in DOMAIN batches : k = proposal_key(m) /\ fate[m] = "unsent" BY <2>1 DEF Queued
  <2>3. m # i BY <2>1, <2>2
  <2>4. fate'[m] = "unsent" BY <1>4, <2>2, <2>3
  <2> QED BY <2>1, <2>2, <2>4 DEF Queued
<1>7. \A m : Open(m)' <=> proposal_key(m) \in DOMAIN ops' BY <1>1 DEF Open
<1>8. ~ Sending' BY DEF Sending
<1>9. options.threshold = 0 => DOMAIN ops' = {} BY <1>2 DEF Queued
<1> QED BY <1>1, <1>5, <1>6, <1>7, <1>8, <1>9 DEF Queued

(* Every step keeps Queued. *)
LEMMA NextQueued ==
  ASSUME Typed, FilesOK, Queued, [CampaignNext]_all_vars
  PROVE  Queued'
<1>1. options' = options /\ batches' = batches BY InputsStay
<1>2. ASSUME UNCHANGED <<script, chunk, to_approve, ops, fate>> PROVE Queued'
  <2>1. Sending' => Sending BY <1>2 DEF Sending
  <2> QED BY <1>1, <1>2, <2>1, QueuedStays
<1>3. ASSUME Finish(to_approve), UNCHANGED <<ops, fate>> PROVE Queued'
  <2>1. ~ Sending' /\ UNCHANGED <<chunk, to_approve>> BY <1>3 DEF Sending, Finish
  <2> QED BY <1>1, <1>3, <2>1, QueuedStays
<1>11. CASE UNCHANGED all_vars BY <1>2, <1>11 DEF all_vars, cvars
<1>12. CASE main_start
  <2>1. Sending' => Sending BY <1>12 DEF Sending, main_start
  <2> QED BY <1>1, <1>12, <2>1, QueuedStays DEF main_start
<1>e. CASE encode_failure
  <2>1. ~ Sending' BY <1>e DEF encode_failure, Sending
  <2> QED BY <1>1, <1>e, <2>1, QueuedStays DEF encode_failure
<1>13. CASE send_retry
  <2>0. UNCHANGED <<ops, fate>> /\ script = "send" BY <1>13 DEF send_retry
  <2>1. CASE max_retries[Proposer] > 1 BY <1>2, <1>13, <2>0, <2>1 DEF send_retry
  <2>2. CASE ~ (max_retries[Proposer] > 1) /\ options.threshold = 0
    <3>1. Advance(to_approve) \/ Finish(to_approve)
      BY <1>13, <2>2, SendShapes DEF send_retry
    <3> QED BY <1>1, <2>0, <2>2, <3>1, SudoQueued
  <2>3. CASE ~ (max_retries[Proposer] > 1) /\ options.threshold # 0
    <3>1. ~ Sending' /\ UNCHANGED <<chunk, to_approve>>
      BY <1>13, <2>3 DEF send_retry, Sending
    <3> QED BY <1>1, <2>0, <3>1, QueuedStays
  <2> QED BY <2>1, <2>2, <2>3
<1>14. CASE send_failure
  <2>1. Finish(to_approve) BY <1>14, SendShapes DEF send_failure
  <2> QED BY <1>3, <1>14, <2>1 DEF send_failure
<1>15. CASE send_as_sudo
  <2>1. Advance(to_approve) \/ Finish(to_approve) BY <1>15, SendShapes DEF send_as_sudo
  <2>2. PICK m : m = chunk OBVIOUS
  <2>3. sudo(m, Proposer) BY <1>15, <2>2 DEF send_as_sudo
  <2>4. \E v \in {"listed", "lost"} : fate' = [fate EXCEPT ![chunk] = v]
    BY <2>2, <2>3, SudoFate
  <2>5. script = "send" /\ options.threshold = 0 /\ ops' = ops BY <1>15 DEF send_as_sudo
  <2> QED BY <1>1, <2>1, <2>4, <2>5, SudoQueued
<1>16. CASE send_as_multi_sudo BY <1>1, <1>16, ProposeQueued
<1>17. ASSUME NEW a \in Signatories, approve_batch(a) PROVE Queued'
  <2>1. UNCHANGED <<script, chunk, to_approve, fate>> BY <1>17 DEF approve_batch
  <2>2. Sending' => Sending BY <2>1 DEF Sending
  <2>3. DOMAIN ops' = DOMAIN ops BY <1>17, BatchApprovalFacts
  <2>4. \A k \in DOMAIN ops :
           /\ ops'[k] \in Proposals
           /\ IsFiniteSet(ops'[k].approvals) /\ Proposer \in ops'[k].approvals
    <3> SUFFICES ASSUME NEW k \in DOMAIN ops
                 PROVE  /\ ops'[k] \in Proposals
                        /\ IsFiniteSet(ops'[k].approvals) /\ Proposer \in ops'[k].approvals
      OBVIOUS
    <3>1. /\ ops'[k] \in Proposals
          /\ \/ ops'[k].approvals = ops[k].approvals
             \/ ops'[k].approvals = ops[k].approvals \cup {a}
      BY <1>17, BatchApprovalFacts
    <3>2. IsFiniteSet(ops[k].approvals) /\ Proposer \in ops[k].approvals BY DEF Queued
    <3>3. IsFiniteSet(ops[k].approvals \cup {a}) BY <3>2, FS_AddElement
    <3> QED BY <3>1, <3>2, <3>3
  <2> QED BY <1>1, <2>1, <2>2, <2>3, <2>4, ApprovedQueued
<1>18. ASSUME NEW a \in Signatories, final_start(a) PROVE Queued'
  BY <1>2, <1>18 DEF final_start
<1>19. ASSUME NEW a \in Signatories, final_retry(a) PROVE Queued'
  BY <1>2, <1>19 DEF final_retry
<1>20. ASSUME NEW a \in Signatories, final_failure(a) PROVE Queued'
  BY <1>2, <1>20 DEF final_failure
<1>21. ASSUME NEW a \in Signatories, final_send(a) PROVE Queued'
  <2>1. UNCHANGED <<script, chunk, to_approve>> BY <1>21 DEF final_send
  <2>2. PICK i \in DOMAIN to_approve : Open(i) /\ (Executes(i, a) \/ Approves(i, a))
    BY <1>21, FinalFacts
  <2>3. script = "done" BY <1>21, FinalFacts
  <2>4. CASE Executes(i, a)
    <3>1. \E v \in {"listed", "lost"} : fate' = [fate EXCEPT ![i] = v]
      <4>1. PICK o : o = proposal_key(i).account OBVIOUS
      <4>2. sudo(i, o) BY <2>4, <4>1 DEF Executes
      <4> QED BY <4>2, SudoFate
    <3>2. ops' = without_op(proposal_key(i)) BY <2>4 DEF Executes
    <3> QED BY <1>1, <2>1, <2>2, <2>3, <3>1, <3>2, ExecutedQueued
  <2>5. CASE Approves(i, a)
    <3>1. PICK key \in DOMAIN ops : key = proposal_key(i) BY <2>2 DEF Open
    <3>2. PICK new : new = [ops[key] EXCEPT !.approvals = ops[key].approvals \cup {a}] OBVIOUS
    <3>3. ops' = with_op(proposal_key(i), new) BY <2>5, <3>1, <3>2 DEF Approves, Approvals
    <3>4. /\ DOMAIN ops' = DOMAIN ops
          /\ ops'[key] = new
          /\ \A k \in DOMAIN ops : k # key => ops'[k] = ops[k]
      BY <3>1, <3>3, WithFacts
    <3>5. /\ ops[key] \in Proposals
          /\ IsFiniteSet(ops[key].approvals) /\ Proposer \in ops[key].approvals
      BY DEF Queued
    <3>6. new \in Proposals /\ new.approvals = ops[key].approvals \cup {a}
      BY <3>2, <3>5 DEF Proposals
    <3>7. IsFiniteSet(new.approvals) /\ Proposer \in new.approvals
      BY <3>5, <3>6, FS_AddElement
    <3>8. \A k \in DOMAIN ops :
            /\ ops'[k] \in Proposals
            /\ IsFiniteSet(ops'[k].approvals) /\ Proposer \in ops'[k].approvals
      BY <3>4, <3>6, <3>7 DEF Queued
    <3>9. fate' = fate /\ (Sending' => Sending) BY <2>1, <2>5 DEF Approves, Sending
    <3>10. DOMAIN ops' = DOMAIN ops /\ UNCHANGED <<chunk, to_approve, fate>> BY <2>1, <3>4, <3>9
    <3> QED BY <1>1, <3>8, <3>9, <3>10, ApprovedQueued
  <2> QED BY <2>2, <2>4, <2>5
<1>22. ASSUME NEW key \in DOMAIN ops, reorg(key) PROVE Queued'
  <2>1. UNCHANGED <<script, chunk, to_approve, fate>> BY <1>22 DEF reorg
  <2>2. Sending' => Sending BY <2>1 DEF Sending
  <2>3. ops' = [ops EXCEPT ![key] = [ops[key] EXCEPT !.when = clock]] BY <1>22 DEF reorg
  <2>4. DOMAIN ops' = DOMAIN ops BY <2>3
  <2>5. \A k \in DOMAIN ops :
          /\ ops'[k] \in Proposals
          /\ IsFiniteSet(ops'[k].approvals) /\ Proposer \in ops'[k].approvals
    <3> SUFFICES ASSUME NEW k \in DOMAIN ops
                 PROVE  /\ ops'[k] \in Proposals
                        /\ IsFiniteSet(ops'[k].approvals) /\ Proposer \in ops'[k].approvals
      OBVIOUS
    <3>1. /\ ops[k] \in Proposals
          /\ IsFiniteSet(ops[k].approvals) /\ Proposer \in ops[k].approvals
      BY DEF Queued
    <3>2. ops'[k] = ops[k] \/ ops'[k] = [ops[k] EXCEPT !.when = clock] BY <2>3
    <3>3. ops'[k] \in Proposals /\ ops'[k].approvals = ops[k].approvals
      BY <3>1, <3>2 DEF Proposals, Typed
    <3> QED BY <3>1, <3>3
  <2> QED BY <1>1, <2>1, <2>2, <2>4, <2>5, ApprovedQueued
<1>23. ASSUME NEW b \in Beneficiary, payout(b) PROVE Queued' BY <1>2, <1>23 DEF payout, cvars
<1>24. CASE meddle BY <1>2, <1>24 DEF meddle
<1> QED
  BY <1>e, <1>11, <1>12, <1>13, <1>14, <1>15, <1>16, <1>17, <1>18, <1>19, <1>20, <1>21, <1>22,
     <1>23, <1>24 DEF CampaignNext
-----------------------------------------------------------------------------
(* What happened is not forgotten. *)
LEMMA DisturbedGrows ==
  ASSUME [CampaignNext]_all_vars
  PROVE  disturbed \subseteq disturbed'
<1> USE DEF CampaignNext
<1>1. CASE UNCHANGED all_vars BY <1>1 DEF all_vars, cvars
<1>2. CASE main_start BY <1>2 DEF main_start
<1>e. CASE encode_failure BY <1>e DEF encode_failure
<1>3. CASE send_retry BY <1>3 DEF send_retry
<1>4. CASE send_failure BY <1>4 DEF send_failure
<1>5. CASE send_as_sudo BY <1>5, SendShapes DEF send_as_sudo
<1>6. CASE send_as_multi_sudo
  <2>1. PICK calls : calls = Append(to_approve, [call |-> chunk, when |-> clock]) OBVIOUS
  <2>2. answer(calls) BY <1>6, <2>1 DEF send_as_multi_sudo
  <2> QED BY <2>2, SendShapes
<1>7. ASSUME NEW a \in Signatories, approve_batch(a) PROVE disturbed \subseteq disturbed'
  BY <1>7 DEF approve_batch
<1>8. ASSUME NEW a \in Signatories, final_start(a) PROVE disturbed \subseteq disturbed'
  BY <1>8 DEF final_start
<1>9. ASSUME NEW a \in Signatories, final_retry(a) PROVE disturbed \subseteq disturbed'
  BY <1>9 DEF final_retry
<1>10. ASSUME NEW a \in Signatories, final_failure(a) PROVE disturbed \subseteq disturbed'
  BY <1>10 DEF final_failure
<1>11. ASSUME NEW a \in Signatories, final_send(a) PROVE disturbed \subseteq disturbed'
  BY <1>11, FinalShapes DEF final_send
<1>12. ASSUME NEW key \in DOMAIN ops, reorg(key) PROVE disturbed \subseteq disturbed'
  BY <1>12 DEF reorg
<1>13. ASSUME NEW b \in Beneficiary, payout(b) PROVE disturbed \subseteq disturbed'
  BY <1>13 DEF payout, cvars
<1>14. CASE meddle BY <1>14 DEF meddle
<1> QED
  BY <1>e, <1>1, <1>2, <1>3, <1>4, <1>5, <1>6, <1>7, <1>8, <1>9, <1>10, <1>11, <1>12, <1>13, <1>14

(* The time points of open proposals are those in the list of calls. *)
LEMMA NextKnown ==
  ASSUME Typed, FilesOK, Queued, Known, [CampaignNext]_all_vars
  PROVE  Known'
<1>1. options' = options /\ disturbed \subseteq disturbed' BY InputsStay, DisturbedGrows
<1>2. \A m : proposal_key(m)' = proposal_key(m) BY <1>1, KeysStay
<1>3. ASSUME UNCHANGED to_approve,
             \A k \in DOMAIN ops' : k \in DOMAIN ops /\ ops'[k].when = ops[k].when
      PROVE  Known'
  BY <1>1, <1>2, <1>3 DEF Known
<1>4. ASSUME UNCHANGED <<to_approve, ops>> PROVE Known' BY <1>3, <1>4
<1>11. CASE UNCHANGED all_vars BY <1>4, <1>11 DEF all_vars, cvars
<1>12. CASE main_start BY <1>4, <1>12 DEF main_start
<1>e. CASE encode_failure BY <1>4, <1>e DEF encode_failure
<1>13. CASE send_retry
  <2>1. to_approve' = to_approve BY <1>13 DEF send_retry, next_chunk
  <2> QED BY <1>4, <1>13, <2>1 DEF send_retry
<1>14. CASE send_failure BY <1>4, <1>14 DEF send_failure, stop_sending
<1>15. CASE send_as_sudo
  <2>1. to_approve' = to_approve BY <1>15, SendShapes DEF send_as_sudo, Advance, Finish
  <2> QED BY <1>4, <1>15, <2>1 DEF send_as_sudo
<1>16. CASE send_as_multi_sudo
  <2>1. PICK n : n = chunk OBVIOUS
  <2>2. PICK c : c = [call |-> n, when |-> clock] OBVIOUS
  <2>3. PICK calls : calls = Append(to_approve, c) OBVIOUS
  <2>4. PICK new : new = [when |-> clock, approvals |-> {Proposer}] OBVIOUS
  <2>5. answer(calls) /\ ops' = with_op(proposal_key(n), new)
    BY <1>16, <2>1, <2>2, <2>3, <2>4 DEF send_as_multi_sudo
  <2>6. SUFFICES ASSUME disturbed' \cap {"reorg", "answer lost"} = {}
                 PROVE  \A k \in DOMAIN ops' : \E i \in DOMAIN calls :
                          k = proposal_key(i) /\ ops'[k].when = calls[i].when
    <3>1. "answer lost" \notin disturbed' => to_approve' = calls
      BY <2>5, SendShapes DEF Advance, Finish
    <3> QED BY <1>2, <2>6, <3>1, ZenonT(40) DEF Known
  <2>7. /\ DOMAIN ops' = DOMAIN ops \cup {proposal_key(n)}
        /\ ops'[proposal_key(n)] = new
        /\ \A k \in DOMAIN ops : k # proposal_key(n) => ops'[k] = ops[k]
    <3>1. ops' = with_op(proposal_key(n), new) BY <2>5
    <3> QED BY <3>1 DEF with_op
  <2>8. n = Len(to_approve) + 1
    <3>1. Sending /\ options.threshold > 0 BY <1>16 DEF send_as_multi_sudo, Sending
    <3> QED BY <2>1, <3>1 DEF Queued
  <2>9. /\ n \in DOMAIN calls /\ calls[n] = c
        /\ \A i \in DOMAIN to_approve : i \in DOMAIN calls /\ calls[i] = to_approve[i]
    <3>1. to_approve \in Seq(Calls) BY DEF Typed
    <3>2. Len(to_approve) \in Nat /\ DOMAIN to_approve = 1 .. Len(to_approve) BY <3>1
    <3> QED BY <2>3, <2>8, <3>1, <3>2
  <2>10. new.when = c.when BY <2>2, <2>4
  <2>11. disturbed \cap {"reorg", "answer lost"} = {} BY <1>1, <2>6
  <2> SUFFICES ASSUME NEW k \in DOMAIN ops'
               PROVE  \E i \in DOMAIN calls : k = proposal_key(i) /\ ops'[k].when = calls[i].when
    OBVIOUS
  <2>12. CASE k = proposal_key(n) BY <2>7, <2>9, <2>10, <2>12
  <2>13. CASE k # proposal_key(n)
    <3>1. k \in DOMAIN ops /\ ops'[k] = ops[k] BY <2>7, <2>13
    <3>2. PICK i \in DOMAIN to_approve : k = proposal_key(i) /\ ops[k].when = to_approve[i].when
      BY <2>11, <3>1 DEF Known
    <3> QED BY <2>9, <3>1, <3>2
  <2> QED BY <2>12, <2>13
<1>17. ASSUME NEW a \in Signatories, approve_batch(a) PROVE Known'
  <2>1. \A k \in DOMAIN ops' : k \in DOMAIN ops /\ ops'[k].when = ops[k].when
    BY <1>17, BatchApprovalFacts
  <2> QED BY <1>3, <1>17, <2>1 DEF approve_batch
<1>18. ASSUME NEW a \in Signatories, final_start(a) PROVE Known'
  BY <1>4, <1>18 DEF final_start
<1>19. ASSUME NEW a \in Signatories, final_retry(a) PROVE Known'
  BY <1>4, <1>19 DEF final_retry
<1>20. ASSUME NEW a \in Signatories, final_failure(a) PROVE Known'
  BY <1>4, <1>20 DEF final_failure
<1>21. ASSUME NEW a \in Signatories, final_send(a) PROVE Known'
  <2>1. PICK i \in DOMAIN to_approve : Open(i) /\ (Executes(i, a) \/ Approves(i, a))
    BY <1>21, FinalFacts
  <2>2. \A k \in DOMAIN ops' : k \in DOMAIN ops /\ ops'[k].when = ops[k].when
    <3>1. CASE Executes(i, a) BY <3>1, WithoutFacts DEF Executes
    <3>2. CASE Approves(i, a)
      <4>1. PICK key \in DOMAIN ops : key = proposal_key(i) BY <2>1 DEF Open
      <4>2. PICK new : new = [ops[key] EXCEPT !.approvals = ops[key].approvals \cup {a}] OBVIOUS
      <4>3. ops' = with_op(proposal_key(i), new) BY <3>2, <4>1, <4>2 DEF Approves, Approvals
      <4>4. ops[key] \in Proposals BY DEF Queued
      <4>5. new.when = ops[key].when BY <4>2, <4>4 DEF Proposals
      <4> QED BY <4>1, <4>3, <4>5, WithFacts
    <3> QED BY <2>1, <3>1, <3>2
  <2> QED BY <1>3, <1>21, <2>2 DEF final_send
<1>22. ASSUME NEW key \in DOMAIN ops, reorg(key) PROVE Known'
  <2>1. "reorg" \in disturbed' BY <1>22 DEF reorg
  <2> QED BY <2>1 DEF Known
<1>23. ASSUME NEW b \in Beneficiary, payout(b) PROVE Known' BY <1>4, <1>23 DEF payout, cvars
<1>24. CASE meddle BY <1>4, <1>24 DEF meddle
<1> QED
  BY <1>e, <1>11, <1>12, <1>13, <1>14, <1>15, <1>16, <1>17, <1>18, <1>19, <1>20, <1>21, <1>22,
     <1>23, <1>24 DEF CampaignNext
-----------------------------------------------------------------------------
(* A script that runs reads the calls of claim_init.js. *)
LEMMA RunningFacts ==
  ASSUME Typed, FilesOK, NEW a \in Signatories, final_running(a)
  PROVE  script = "done" /\ a \in DOMAIN files /\ files[a] = to_approve
         /\ approving[a] \in DOMAIN to_approve
<1>1. approving[a] \in Nat BY DEF Typed
<1>2. a \in DOMAIN files /\ approving[a] \in 1 .. Len(files[a]) BY <1>1 DEF final_running
<1>3. files[a] # <<>> BY <1>2
<1>4. script = "done" /\ files[a] = to_approve BY <1>2, <1>3, ReadFacts
<1> QED BY <1>2, <1>4 DEF Typed

(* No approvals and no executions: only the final scripts may move. *)
LEMMA InOrderStays ==
  ASSUME Typed, FilesOK, Nested, Passed, InTurn, options' = options, batches' = batches,
         UNCHANGED <<to_approve, files, fate>>, Sending' => Sending /\ chunk' = chunk,
         DOMAIN ops' = DOMAIN ops, \A k \in DOMAIN ops : ops'[k].approvals = ops[k].approvals,
         \A a \in Signatories : final_running(a)' =>
           approving'[a] = 1 \/ (final_running(a) /\ approving'[a] = approving[a])
  PROVE  Nested' /\ Passed' /\ InTurn'
<1>1. \A m : Open(m)' = Open(m) BY KeysStay DEF Open
<1>2. \A m : Open(m) => Approvals(m)' = Approvals(m) BY KeysStay DEF Open, Approvals
<1>3. Nested' BY <1>1, <1>2 DEF Nested
<1>4. Passed'
  <2> SUFFICES ASSUME NEW a \in Signatories, final_running(a)',
                      NEW j \in 1 .. approving'[a] - 1, Open(j)
               PROVE  a \in Approvals(j) /\ Cardinality(Approvals(j)) < options.threshold
    BY <1>1, <1>2 DEF Passed
  <2>1. final_running(a) /\ approving'[a] = approving[a] OBVIOUS
  <2> QED BY <2>1 DEF Passed
<1>5. InTurn' BY DEF InTurn, Executed
<1> QED BY <1>3, <1>4, <1>5

(* No proposals: a call of sudo, and the next chunk. *)
LEMMA SudoInOrder ==
  ASSUME Typed, Queued, InTurn, options' = options, batches' = batches, script = "send",
         options.threshold = 0, UNCHANGED ops,
         \E v \in {"listed", "lost"} : fate' = [fate EXCEPT ![chunk] = v],
         Advance(to_approve) \/ Finish(to_approve)
  PROVE  Nested' /\ Passed' /\ InTurn'
<1>1. DOMAIN ops' = {} BY DEF Queued
<1>2. \A m : ~ Open(m)' BY <1>1 DEF Open
<1>3. Nested' /\ Passed' BY <1>2 DEF Nested, Passed
<1>4. Len(batches) \in Nat /\ DOMAIN batches = 1 .. Len(batches) BY BatchFacts DEF Typed
<1>5. chunk \in 1 .. Len(batches) /\ fate'[chunk] # "unsent"
      /\ \A m \in DOMAIN batches : m # chunk => fate'[m] = fate[m]
  BY <1>4 DEF Typed
<1>6. \A k \in 1 .. chunk - 1 : fate[k] # "unsent" BY DEF InTurn, Sending, Executed
<1>7. \A k \in 1 .. chunk : fate'[k] # "unsent"
  <2> SUFFICES ASSUME NEW k \in 1 .. chunk PROVE fate'[k] # "unsent" OBVIOUS
  <2>1. k = chunk \/ (k \in 1 .. chunk - 1 /\ k \in DOMAIN batches /\ k # chunk) BY <1>4, <1>5
  <2> QED BY <1>5, <1>6, <2>1
<1>8. ASSUME NEW m \in DOMAIN batches, fate'[m] # "unsent", NEW k \in 1 .. m - 1
      PROVE  fate'[k] # "unsent"
  <2>1. CASE m = chunk BY <1>4, <1>7, <2>1
  <2>2. CASE m # chunk
    <3>1. fate[m] # "unsent" BY <1>5, <1>8, <2>2
    <3>2. fate[k] # "unsent" BY <1>8, <3>1 DEF InTurn, Executed
    <3>3. k \in DOMAIN batches BY <1>4
    <3> QED BY <1>5, <3>2, <3>3
  <2> QED BY <2>1, <2>2
<1>9. Sending' => \A k \in 1 .. chunk' - 1 : fate'[k] # "unsent"
  <2>1. Sending' => chunk' = chunk + 1 BY DEF Sending, Advance, Finish
  <2> QED BY <1>4, <1>5, <1>7, <2>1
<1>10. InTurn' BY <1>8, <1>9 DEF InTurn, Executed
<1> QED BY <1>3, <1>10

(* A new proposal has the approval of the proposer only, as the others. *)
LEMMA ProposeInOrder ==
  ASSUME Typed, FilesOK, Queued, Nested, Passed, InTurn,
         options' = options, batches' = batches, send_as_multi_sudo
  PROVE  Nested' /\ Passed' /\ InTurn'
<1>1. \A m : proposal_key(m)' = proposal_key(m) BY KeysStay
<1>2. PICK n : n = chunk OBVIOUS
<1>3. PICK new : new = [when |-> clock, approvals |-> {Proposer}] OBVIOUS
<1>4. /\ ops' = with_op(proposal_key(n), new) /\ fate' = fate /\ options.threshold > 0
      /\ script = "send" /\ approving' = approving
  BY <1>2, <1>3 DEF send_as_multi_sudo
<1>5. /\ DOMAIN ops' = DOMAIN ops \cup {proposal_key(n)}
      /\ ops'[proposal_key(n)] = new
      /\ \A k \in DOMAIN ops : k # proposal_key(n) => ops'[k] = ops[k]
  BY <1>4, WithFacts
<1>6. n = Len(to_approve) + 1 /\ Len(to_approve) \in Nat /\ DOMAIN to_approve = 1 .. Len(to_approve)
  <2>1. Sending BY <1>4 DEF Sending
  <2>2. to_approve \in Seq(Calls) BY DEF Typed
  <2>3. Len(to_approve) \in Nat /\ DOMAIN to_approve = 1 .. Len(to_approve) BY <2>2
  <2> QED BY <1>2, <1>4, <2>1, <2>3 DEF Queued
<1>7. DOMAIN to_approve' \subseteq 1 .. n
  <2>1. PICK calls : calls = Append(to_approve, [call |-> n, when |-> clock]) OBVIOUS
  <2>2. answer(calls) BY <1>2, <2>1 DEF send_as_multi_sudo
  <2>3. to_approve' = calls \/ to_approve' = to_approve
    BY <2>2, SendShapes DEF Advance, Finish
  <2>4. to_approve \in Seq(Calls) BY DEF Typed
  <2>5. DOMAIN calls = 1 .. n BY <1>6, <2>1, <2>4
  <2> QED BY <1>6, <2>3, <2>5
<1>8. ASSUME NEW j \in DOMAIN to_approve', NEW k \in DOMAIN to_approve', j < k,
             proposal_key(j) \in DOMAIN ops', proposal_key(k) \in DOMAIN ops'
      PROVE  ops'[proposal_key(k)].approvals \subseteq ops'[proposal_key(j)].approvals
  <2>1. j # n /\ j \in DOMAIN to_approve /\ (k = n \/ k \in DOMAIN to_approve)
    BY <1>6, <1>7, <1>8
  <2>2. proposal_key(j) # proposal_key(n) BY <2>1, KeyFacts
  <2>3. proposal_key(j) \in DOMAIN ops /\ ops'[proposal_key(j)] = ops[proposal_key(j)]
    BY <1>5, <1>8, <2>2
  <2>4. CASE k = n
    <3>1. Proposer \in ops[proposal_key(j)].approvals BY <2>3 DEF Queued
    <3>2. new.approvals = {Proposer} BY <1>3
    <3> QED BY <1>5, <2>3, <2>4, <3>1, <3>2
  <2>5. CASE k # n
    <3>1. proposal_key(k) # proposal_key(n) BY <2>5, KeyFacts
    <3>2. proposal_key(k) \in DOMAIN ops /\ ops'[proposal_key(k)] = ops[proposal_key(k)]
      BY <1>5, <1>8, <3>1
    <3>3. k \in DOMAIN to_approve BY <2>1, <2>5
    <3> QED BY <1>8, <2>1, <2>3, <3>2, <3>3 DEF Nested, Open, Approvals
  <2> QED BY <2>4, <2>5
<1>9. Nested' BY <1>1, <1>8 DEF Nested, Open, Approvals
<1>10. \A a \in Signatories : approving'[a] = 0 BY <1>4 DEF FilesOK
<1>11. \A a \in Signatories : \A x : 0 \notin 1 .. x OBVIOUS
<1>12. \A a \in Signatories : ~ final_running(a)' BY <1>10, <1>11 DEF final_running
<1>13. Passed' BY <1>12 DEF Passed
<1>14. InTurn'
  <2>1. options.threshold # 0 BY <1>4, ScriptsAssumption DEF Typed
  <2> QED BY <1>4, <2>1 DEF InTurn, Executed
<1> QED BY <1>9, <1>13, <1>14

(* Intermediate approvals, of all calls, when no final ones were sent. *)
LEMMA BatchInOrder ==
  ASSUME Typed, FilesOK, Queued, Nested, InTurn, options' = options, batches' = batches,
         NEW a \in Signatories, approve_batch(a), ~ FinalsBegun
  PROVE  Nested' /\ Passed' /\ InTurn'
<1>1. \A m : proposal_key(m)' = proposal_key(m) BY KeysStay
<1>2. UNCHANGED <<script, chunk, to_approve, files, approving, fate>> BY DEF approve_batch
<1>3. /\ DOMAIN ops' = DOMAIN ops
      /\ \A i \in DOMAIN to_approve : ops'[proposal_key(i)].approvals = Approvals(i) \cup {a}
  BY BatchApprovalFacts
<1>4. \A j, k \in DOMAIN to_approve :
        j < k /\ proposal_key(j) \in DOMAIN ops' /\ proposal_key(k) \in DOMAIN ops' =>
          ops'[proposal_key(k)].approvals \subseteq ops'[proposal_key(j)].approvals
  <2> SUFFICES ASSUME NEW j \in DOMAIN to_approve, NEW k \in DOMAIN to_approve, j < k,
                      proposal_key(j) \in DOMAIN ops', proposal_key(k) \in DOMAIN ops'
               PROVE  ops'[proposal_key(k)].approvals \subseteq ops'[proposal_key(j)].approvals
    OBVIOUS
  <2>1. Approvals(k) \subseteq Approvals(j) BY <1>3 DEF Nested, Open
  <2> QED BY <1>3, <2>1
<1>5. Nested' BY <1>1, <1>2, <1>4 DEF Nested, Open, Approvals
<1>6. \A s \in Signatories : approving'[s] \in Nat /\ ~ (approving'[s] > 1)
  BY <1>2 DEF FinalsBegun, Typed
<1>7. \A s \in Signatories : \A j : j \notin 1 .. approving'[s] - 1 BY <1>6
<1>8. Passed' BY <1>7 DEF Passed
<1>9. InTurn' BY <1>2 DEF InTurn, Executed, Sending
<1> QED BY <1>5, <1>8, <1>9

(* After a final approval: who runs has passed what it had passed before,  *)
(* and the signatory also the call it has just approved.                   *)
LEMMA StillPassed ==
  ASSUME Typed, FilesOK, options' = options, UNCHANGED <<to_approve, files>>,
         NEW a \in Signatories, a \in DOMAIN files, files[a] = to_approve,
         NEW i \in DOMAIN to_approve, approving[a] = i, final_running(a), final_answer(a),
         NEW s \in Signatories, final_running(s)', NEW j \in 1 .. approving'[s] - 1
  PROVE  (s = a /\ j = i) \/ (final_running(s) /\ j \in 1 .. approving[s] - 1)
<1>1. approving \in [Signatories -> Nat] /\ to_approve \in Seq(Calls) BY DEF Typed
<1>2. \/ approving' = [approving EXCEPT ![a] = @ + 1]
      \/ approving' = [approving EXCEPT ![a] = Len(files[a]) + 1]
  BY FinalShapes
<1>3. CASE s # a
  <2>1. approving'[s] = approving[s] BY <1>1, <1>2, <1>3
  <2> QED BY <2>1 DEF final_running
<1>4. CASE s = a
  <2>1. i \in 1 .. Len(to_approve) /\ Len(to_approve) \in Nat BY <1>1
  <2>2. approving'[a] \in Nat /\ approving'[a] <= Len(to_approve)
    <3>1. approving'[a] \in 1 .. Len(to_approve) BY <1>4 DEF final_running
    <3> QED BY <2>1, <3>1
  <2>3. approving'[a] = i + 1 \/ approving'[a] = Len(to_approve) + 1 BY <1>1, <1>2
  <2>4. approving'[a] = i + 1 BY <2>1, <2>2, <2>3
  <2> QED BY <1>4, <2>1, <2>4
<1> QED BY <1>3, <1>4

(***************************************************************************)
(* A call that gets executed has no open call before it: those who approve *)
(* it have approved the open call, with too few approvals to execute it.   *)
(***************************************************************************)
LEMMA NoneOpenBefore ==
  ASSUME Typed, Queued, Nested, Passed, NEW a \in Signatories, final_running(a),
         NEW i \in DOMAIN to_approve, approving[a] = i, Open(i),
         Cardinality(Approvals(i) \cup {a}) >= options.threshold, NEW j \in 1 .. i - 1
  PROVE  ~ Open(j)
<1> SUFFICES ASSUME Open(j) PROVE FALSE OBVIOUS
<1>1. i \in Nat /\ DOMAIN to_approve = 1 .. Len(to_approve) /\ Len(to_approve) \in Nat
  <2>1. to_approve \in Seq(Calls) BY DEF Typed
  <2> QED BY <2>1
<1>2. j \in DOMAIN to_approve /\ j < i BY <1>1
<1>3. a \in Approvals(j) /\ Cardinality(Approvals(j)) < options.threshold BY DEF Passed
<1>4. Approvals(i) \subseteq Approvals(j) BY <1>2 DEF Nested
<1>5. IsFiniteSet(Approvals(j)) BY DEF Queued, Open, Approvals
<1>6. Approvals(i) \cup {a} \subseteq Approvals(j) BY <1>3, <1>4
<1>7. PICK S : S = Approvals(i) \cup {a} OBVIOUS
<1>8. PICK U : U = Approvals(j) OBVIOUS
<1>9. IsFiniteSet(U) /\ S \subseteq U BY <1>5, <1>6, <1>7, <1>8
<1>10. IsFiniteSet(S) /\ Cardinality(S) <= Cardinality(U) BY <1>9, FS_Subset
<1>11. Cardinality(S) \in Nat /\ Cardinality(U) \in Nat BY <1>9, <1>10, FS_CardinalityType
<1>12. options.threshold \in Nat BY ScriptsAssumption DEF Typed
<1> QED BY <1>3, <1>7, <1>8, <1>10, <1>11, <1>12

(* A final approval keeps the order. *)
LEMMA FinalInOrder ==
  ASSUME Typed, FilesOK, Queued, Nested, Passed, InTurn, options' = options,
         batches' = batches, NEW a \in Signatories, final_send(a)
  PROVE  Nested' /\ Passed' /\ InTurn'
<1>1. \A m : proposal_key(m)' = proposal_key(m) BY KeysStay
<1>2. UNCHANGED <<script, chunk, to_approve, files>> /\ final_running(a) /\ final_answer(a)
  BY DEF final_send
<1>3. script = "done" /\ a \in DOMAIN files /\ files[a] = to_approve BY FinalFacts
<1>4. PICK i \in DOMAIN to_approve :
        approving[a] = i /\ Open(i) /\ (Executes(i, a) \/ Approves(i, a))
  BY FinalFacts
<1>5. PICK key \in DOMAIN ops : key = proposal_key(i) BY <1>4 DEF Open
<1>6. ~ Sending' BY <1>2, <1>3 DEF Sending
<1>7. CASE Executes(i, a)
  <2>1. /\ DOMAIN ops' = DOMAIN ops \ {key}
        /\ \A k \in DOMAIN ops' : ops'[k] = ops[k]
    BY <1>5, <1>7, WithoutFacts DEF Executes
  <2>2. Nested'
    <3> SUFFICES ASSUME NEW j \in DOMAIN to_approve, NEW k \in DOMAIN to_approve, j < k,
                        proposal_key(j) \in DOMAIN ops', proposal_key(k) \in DOMAIN ops'
                 PROVE  ops'[proposal_key(k)].approvals \subseteq ops'[proposal_key(j)].approvals
      BY <1>1, <1>2 DEF Nested, Open, Approvals
    <3> QED BY <2>1 DEF Nested, Open, Approvals
  <2>3. Passed'
    <3> SUFFICES ASSUME NEW s \in Signatories, final_running(s)', NEW j \in 1 .. approving'[s] - 1,
                        proposal_key(j) \in DOMAIN ops'
                 PROVE  /\ s \in ops'[proposal_key(j)].approvals
                        /\ Cardinality(ops'[proposal_key(j)].approvals) < options.threshold
      BY <1>1 DEF Passed, Open, Approvals
    <3>1. ~ (s = a /\ j = i) BY <1>5, <2>1
    <3>2. final_running(s) /\ j \in 1 .. approving[s] - 1 BY <1>2, <1>3, <1>4, <3>1, StillPassed
    <3>3. Open(j) /\ ops'[proposal_key(j)] = ops[proposal_key(j)] BY <2>1 DEF Open
    <3> QED BY <3>2, <3>3 DEF Passed, Approvals
  <2>4. InTurn'
    <3>1. \E v \in {"listed", "lost"} : fate' = [fate EXCEPT ![i] = v]
      <4>1. PICK o : o = proposal_key(i).account OBVIOUS
      <4>2. sudo(i, o) BY <1>7, <4>1 DEF Executes
      <4> QED BY <4>2, SudoFate
    <3>2. i \in DOMAIN batches BY DEF Queued
    <3>3. fate'[i] # "unsent" /\ \A m \in DOMAIN batches : m # i => fate'[m] = fate[m]
      BY <3>1, <3>2 DEF Typed
    <3>4. Len(batches) \in Nat /\ DOMAIN batches = 1 .. Len(batches) BY BatchFacts DEF Typed
    <3>5. ASSUME NEW k \in 1 .. i - 1 PROVE fate[k] # "unsent"
      <4>1. ~ Open(k) BY <1>2, <1>4, <1>7, NoneOpenBefore DEF Executes
      <4>2. DOMAIN to_approve = 1 .. Len(to_approve) /\ Len(to_approve) \in Nat
        <5>1. to_approve \in Seq(Calls) BY DEF Typed
        <5> QED BY <5>1
      <4>3. k \in DOMAIN to_approve BY <4>2
      <4> QED BY <4>1, <4>3 DEF Queued
    <3>6. ASSUME NEW m \in DOMAIN batches, fate'[m] # "unsent", NEW k \in 1 .. m - 1
          PROVE  fate'[k] # "unsent"
      <4>1. k \in DOMAIN batches BY <3>4
      <4>2. CASE m = i BY <3>3, <3>5, <4>1, <4>2
      <4>3. CASE m # i
        <5>1. fate[m] # "unsent" BY <3>3, <3>6, <4>3
        <5>2. fate[k] # "unsent" BY <5>1 DEF InTurn, Executed
        <5> QED BY <3>3, <4>1, <5>2
      <4> QED BY <4>2, <4>3
    <3> QED BY <1>6, <3>6 DEF InTurn, Executed
  <2> QED BY <2>2, <2>3, <2>4
<1>8. CASE Approves(i, a)
  <2>1. PICK new : new = [ops[key] EXCEPT !.approvals = ops[key].approvals \cup {a}] OBVIOUS
  <2>2. ops' = with_op(proposal_key(i), new) /\ fate' = fate
    BY <1>5, <1>8, <2>1 DEF Approves, Approvals
  <2>3. /\ DOMAIN ops' = DOMAIN ops /\ ops'[key] = new
        /\ \A k \in DOMAIN ops : k # key => ops'[k] = ops[k]
    BY <1>5, <2>2, WithFacts
  <2>4. ops[key] \in Proposals /\ IsFiniteSet(ops[key].approvals) BY DEF Queued
  <2>5. new.approvals = Approvals(i) \cup {a}
    BY <1>5, <2>1, <2>4 DEF Proposals, Approvals
  <2>6. Cardinality(new.approvals) < options.threshold
    <3>1. IsFiniteSet(new.approvals) BY <1>5, <2>4, <2>5, FS_AddElement DEF Approvals
    <3>2. Cardinality(new.approvals) \in Nat BY <3>1, FS_CardinalityType
    <3>3. options.threshold \in Nat BY ScriptsAssumption DEF Typed
    <3>4. ~ (Cardinality(new.approvals) >= options.threshold) BY <1>8, <2>5 DEF Approves
    <3> QED BY <3>2, <3>3, <3>4
  <2>7. \A m : m # i => proposal_key(m) # key BY <1>5, KeyFacts
  <2>8. i \in Nat /\ DOMAIN to_approve = 1 .. Len(to_approve) /\ Len(to_approve) \in Nat
    <3>1. to_approve \in Seq(Calls) BY DEF Typed
    <3> QED BY <3>1
  <2>9. Nested'
    <3> SUFFICES ASSUME NEW j \in DOMAIN to_approve, NEW k \in DOMAIN to_approve, j < k,
                        proposal_key(j) \in DOMAIN ops', proposal_key(k) \in DOMAIN ops'
                 PROVE  ops'[proposal_key(k)].approvals \subseteq ops'[proposal_key(j)].approvals
      BY <1>1, <1>2 DEF Nested, Open, Approvals
    <3>1. Open(j) /\ Open(k) /\ Approvals(k) \subseteq Approvals(j) BY <2>3 DEF Nested, Open
    <3>2. Approvals(j) \subseteq ops'[proposal_key(j)].approvals
      <4>1. CASE j = i BY <1>5, <2>3, <2>5, <4>1
      <4>2. CASE j # i BY <2>3, <2>7, <3>1, <4>2 DEF Open, Approvals
      <4> QED BY <4>1, <4>2
    <3>3. CASE k = i
      <4>1. j \in 1 .. approving[a] - 1 BY <1>4, <2>8, <3>3
      <4>2. a \in Approvals(j) BY <1>2, <3>1, <4>1 DEF Passed
      <4> QED BY <1>5, <2>3, <2>5, <3>1, <3>2, <3>3, <4>2
    <3>4. CASE k # i
      <4>1. ops'[proposal_key(k)].approvals = Approvals(k)
        BY <2>3, <2>7, <3>1, <3>4 DEF Open, Approvals
      <4> QED BY <3>1, <3>2, <4>1
    <3> QED BY <3>3, <3>4
  <2>10. Passed'
    <3> SUFFICES ASSUME NEW s \in Signatories, final_running(s)', NEW j \in 1 .. approving'[s] - 1,
                        proposal_key(j) \in DOMAIN ops'
                 PROVE  /\ s \in ops'[proposal_key(j)].approvals
                        /\ Cardinality(ops'[proposal_key(j)].approvals) < options.threshold
      BY <1>1 DEF Passed, Open, Approvals
    <3>1. (s = a /\ j = i) \/ (final_running(s) /\ j \in 1 .. approving[s] - 1)
      BY <1>2, <1>3, <1>4, StillPassed
    <3>2. CASE s = a /\ j = i BY <1>5, <2>3, <2>5, <2>6, <3>2
    <3>3. CASE final_running(s) /\ j \in 1 .. approving[s] - 1
      <4>1. Open(j) BY <2>3 DEF Open
      <4>2. s \in Approvals(j) /\ Cardinality(Approvals(j)) < options.threshold
        BY <3>3, <4>1 DEF Passed
      <4>3. CASE j = i BY <1>5, <2>3, <2>5, <2>6, <4>2, <4>3
      <4>4. CASE j # i
        <5>1. ops'[proposal_key(j)] = ops[proposal_key(j)] BY <2>3, <2>7, <4>4
        <5> QED BY <4>2, <5>1 DEF Approvals
      <4> QED BY <4>3, <4>4
    <3> QED BY <3>1, <3>2, <3>3
  <2>11. InTurn' BY <1>6, <2>2 DEF InTurn, Executed
  <2> QED BY <2>9, <2>10, <2>11
<1> QED BY <1>4, <1>7, <1>8

(* Every step keeps the order. *)
LEMMA NextInOrder ==
  ASSUME Typed, FilesOK, Queued, InOrder, [CampaignNext]_all_vars
  PROVE  InOrder'
<1>1. options' = options /\ batches' = batches /\ disturbed \subseteq disturbed'
  BY InputsStay, DisturbedGrows
<1>2. SUFFICES ASSUME Undisturbed' PROVE Nested' /\ Passed' /\ InTurn' BY DEF InOrder
<1>3. Nested /\ Passed /\ InTurn BY <1>1, <1>2 DEF InOrder, Undisturbed
<1> DEFINE Goal == Nested' /\ Passed' /\ InTurn'
<1>4. ASSUME UNCHANGED <<to_approve, files, fate, ops, approving>>,
             Sending' => Sending /\ chunk' = chunk
      PROVE  Goal
  <2>1. \A a \in Signatories : final_running(a)' => final_running(a) /\ approving'[a] = approving[a]
    BY <1>4 DEF final_running
  <2>2. DOMAIN ops' = DOMAIN ops /\ \A k \in DOMAIN ops : ops'[k].approvals = ops[k].approvals
    BY <1>4
  <2> QED BY <1>1, <1>3, <1>4, <2>1, <2>2, InOrderStays
<1>5. ASSUME UNCHANGED <<script, chunk, to_approve, files, fate, ops, approving>> PROVE Goal
  BY <1>4, <1>5 DEF Sending
<1>6. ASSUME script # "done", Finish(to_approve), UNCHANGED <<fate, ops, approving>> PROVE Goal
  <2>1. \A m : proposal_key(m)' = proposal_key(m) BY <1>1, KeysStay
  <2>2. to_approve' = to_approve /\ ~ Sending' BY <1>6 DEF Finish, Sending
  <2>3. Nested' BY <1>3, <1>6, <2>1, <2>2 DEF Nested, Open, Approvals
  <2>4. \A a \in Signatories : approving'[a] = 0 BY <1>6 DEF FilesOK
  <2>5. \A x : 0 \notin 1 .. x OBVIOUS
  <2>6. Passed' BY <2>4, <2>5 DEF Passed, final_running
  <2>7. InTurn' BY <1>1, <1>3, <1>6, <2>2 DEF InTurn, Executed
  <2> QED BY <2>3, <2>6, <2>7
<1>7. ASSUME NEW a \in Signatories, NEW n \in Nat, approving' = [approving EXCEPT ![a] = n],
             n = 1 \/ ~ final_running(a)', UNCHANGED <<script, chunk, to_approve, files, fate, ops>>
      PROVE  Goal
  <2>1. ASSUME NEW s \in Signatories, final_running(s)'
        PROVE  approving'[s] = 1 \/ (final_running(s) /\ approving'[s] = approving[s])
    <3>1. approving \in [Signatories -> Nat] BY DEF Typed
    <3>2. CASE s = a BY <1>7, <2>1, <3>1, <3>2
    <3>3. CASE s # a
      <4>1. approving'[s] = approving[s] BY <1>7, <3>1, <3>3
      <4> QED BY <1>7, <2>1, <4>1 DEF final_running
    <3> QED BY <3>2, <3>3
  <2>2. Sending' => Sending /\ chunk' = chunk BY <1>7 DEF Sending
  <2>3. DOMAIN ops' = DOMAIN ops /\ \A k \in DOMAIN ops : ops'[k].approvals = ops[k].approvals
    BY <1>7
  <2>4. UNCHANGED <<to_approve, files, fate>> BY <1>7
  <2> QED BY <1>1, <1>3, <2>1, <2>2, <2>3, <2>4, InOrderStays
<1> SUFFICES Goal OBVIOUS
<1> HIDE DEF Goal
<1>8. ASSUME "gave up" \in disturbed' PROVE Goal BY <1>2, <1>8 DEF Undisturbed
<1>11. CASE UNCHANGED all_vars BY <1>5, <1>11 DEF all_vars, cvars
<1>12. CASE main_start
  <2>1. Sending' => Sending /\ chunk' = chunk BY <1>12 DEF main_start, Sending
  <2> QED BY <1>4, <1>12, <2>1 DEF main_start
<1>e. CASE encode_failure
  <2>1. ~ Sending' BY <1>e DEF encode_failure, Sending
  <2> QED BY <1>4, <1>e, <2>1 DEF encode_failure
<1>13. CASE send_retry BY <1>5, <1>8, <1>13 DEF send_retry
<1>14. CASE send_failure
  <2>1. Finish(to_approve) BY <1>14, SendShapes DEF send_failure
  <2> QED BY <1>6, <1>14, <2>1 DEF send_failure
<1>15. CASE send_as_sudo
  <2>1. Advance(to_approve) \/ Finish(to_approve) BY <1>15, SendShapes DEF send_as_sudo
  <2>2. PICK m : m = chunk OBVIOUS
  <2>3. sudo(m, Proposer) BY <1>15, <2>2 DEF send_as_sudo
  <2>4. \E v \in {"listed", "lost"} : fate' = [fate EXCEPT ![chunk] = v]
    BY <2>2, <2>3, SudoFate
  <2>5. script = "send" /\ options.threshold = 0 /\ ops' = ops BY <1>15 DEF send_as_sudo
  <2> QED BY <1>1, <1>3, <2>1, <2>4, <2>5, SudoInOrder DEF Goal
<1>16. CASE send_as_multi_sudo BY <1>1, <1>3, <1>16, ProposeInOrder DEF Goal
<1>17. ASSUME NEW a \in Signatories, approve_batch(a) PROVE Goal
  <2>1. ~ FinalsBegun BY <1>2, <1>17 DEF approve_batch, Undisturbed
  <2> QED BY <1>1, <1>3, <1>17, <2>1, BatchInOrder DEF Goal
<1>18. ASSUME NEW a \in Signatories, final_start(a) PROVE Goal
  BY <1>7, <1>18 DEF final_start
<1>19. ASSUME NEW a \in Signatories, final_retry(a) PROVE Goal
  BY <1>5, <1>8, <1>19 DEF final_retry
<1>20. ASSUME NEW a \in Signatories, final_failure(a) PROVE Goal
  <2>1. PICK n : n = Len(files[a]) + 1 OBVIOUS
  <2>2. approving' = [approving EXCEPT ![a] = n] BY <1>20, <2>1 DEF final_failure, final_stop
  <2>3. UNCHANGED <<script, chunk, to_approve, files, fate, ops>> /\ final_running(a)
    BY <1>20 DEF final_failure
  <2>4. files[a] = to_approve /\ a \in DOMAIN files BY <2>3, RunningFacts
  <2>5. Len(files[a]) \in Nat BY <2>4 DEF Typed
  <2>6. n \in Nat BY <2>1, <2>5
  <2>7. ~ final_running(a)'
    <3>1. approving'[a] = n BY <2>2 DEF Typed
    <3>2. n \notin 1 .. Len(files[a]) BY <2>1, <2>5
    <3> QED BY <2>3, <2>4, <3>1, <3>2 DEF final_running
  <2> QED BY <1>7, <2>2, <2>3, <2>6, <2>7
<1>21. ASSUME NEW a \in Signatories, final_send(a) PROVE Goal
  BY <1>1, <1>3, <1>21, FinalInOrder DEF Goal
<1>22. ASSUME NEW key \in DOMAIN ops, reorg(key) PROVE Goal
  <2>1. ops' = [ops EXCEPT ![key] = [ops[key] EXCEPT !.when = clock]] BY <1>22 DEF reorg
  <2>2. DOMAIN ops' = DOMAIN ops /\ \A k \in DOMAIN ops : ops'[k].approvals = ops[k].approvals
    <3>1. ops[key] \in Proposals BY DEF Queued
    <3>2. [ops[key] EXCEPT !.when = clock].approvals = ops[key].approvals BY <3>1 DEF Proposals
    <3> QED BY <2>1, <3>2
  <2>3. UNCHANGED <<script, chunk, to_approve, files, fate, approving>> BY <1>22 DEF reorg
  <2>4. \A a \in Signatories : final_running(a)' => final_running(a) /\ approving'[a] = approving[a]
    BY <2>3 DEF final_running
  <2>5. Sending' => Sending /\ chunk' = chunk BY <2>3 DEF Sending
  <2> QED BY <1>1, <1>3, <2>2, <2>3, <2>4, <2>5, InOrderStays DEF Goal
<1>23. ASSUME NEW b \in Beneficiary, payout(b) PROVE Goal BY <1>5, <1>23 DEF payout, cvars
<1>24. CASE meddle BY <1>5, <1>24 DEF meddle
<1> QED
  BY <1>e, <1>11, <1>12, <1>13, <1>14, <1>15, <1>16, <1>17, <1>18, <1>19, <1>20, <1>21, <1>22,
     <1>23, <1>24 DEF CampaignNext
-----------------------------------------------------------------------------
(* The initial states satisfy the invariant. *)
LEMMA InitInv == CampaignInit => Inv
<1> SUFFICES ASSUME CampaignInit PROVE Inv OBVIOUS
<1>1. /\ options \in CommandLines /\ parse_args(options) /\ csv_data \in CsvFiles
      /\ script = "start" /\ chunk = 1 /\ to_approve = <<>> /\ clock = 1
      /\ approving = [s \in Signatories |-> 0]
      /\ fate = [m \in DOMAIN batches |-> "unsent"]
  BY DEF CampaignInit
<1>2. Len(batches) \in Nat \ {0} /\ DOMAIN batches = 1 .. Len(batches) BY <1>1, BatchFacts
<1>3. \A a \in DOMAIN files : files[a] = <<>> BY DEF CampaignInit
<1>4. DOMAIN ops = {} BY DEF CampaignInit
<1>5. Typed BY <1>1, <1>2 DEF Typed, Stages, Fates
<1>6. FilesOK BY <1>1, <1>3 DEF FilesOK
<1>7. DOMAIN to_approve = {} /\ Len(to_approve) = 0 BY <1>1
<1>8. Queued BY <1>1, <1>4, <1>7 DEF Queued
<1>9. Known BY <1>4 DEF Known
<1>10. Nested BY <1>7 DEF Nested
<1>11. Passed BY <1>4 DEF Passed, Open
<1>12. InTurn
  <2>1. \A k : k \notin 1 .. chunk - 1 BY <1>1
  <2> QED BY <1>1, <2>1 DEF InTurn, Executed
<1> QED BY <1>5, <1>6, <1>8, <1>9, <1>10, <1>11, <1>12 DEF Inv, InOrder

(* The invariant about the proposals holds in all states. *)
LEMMA InvInvariance == CampaignSpec => []Inv
<1>1. CampaignInit => Inv BY InitInv
<1>2. Inv /\ [CampaignNext]_all_vars => Inv'
  BY NextTyped, NextFiles, NextQueued, NextKnown, NextInOrder DEF Inv
<1> QED BY <1>1, <1>2, PTL DEF CampaignSpec

(***************************************************************************)
(* Whatever the signatories' scripts do in which order, the chunks are     *)
(* executed in the order of the file, for any number of signatories, any   *)
(* threshold and any number of chunks, unless a late intermediate approval *)
(* or a script that gave up on an extrinsic disturbs them.                 *)
(***************************************************************************)
THEOREM ChunksAlwaysInOrder == CampaignSpec => []ChunksInOrder
<1>1. Inv => ChunksInOrder
  BY DEF Inv, InOrder, Undisturbed, InTurn, ChunksInOrder
<1> QED BY <1>1, InvInvariance, PTL

(***************************************************************************)
(* After claim_init.js, whether it sent all chunks or stopped in between:  *)
(* if the proposer is among the addresses given with -m, everybody there   *)
(* has a file for every open proposal, with the account and the time point *)
(* that pallet_multisig asks for; if -m gives the other signatories only,  *)
(* nobody has one for any, since the files name another account.  Excepted *)
(* are proposals that a fork moved or whose answer was lost.               *)
(***************************************************************************)
THEOREM ProposalsAlwaysShared == CampaignSpec => []ProposalsShared
<1>1. Inv => ProposalsShared
  <2> SUFFICES ASSUME Inv, script = "done", disturbed \cap {"reorg", "answer lost"} = {},
                      NEW k \in DOMAIN ops, NEW a \in options.addresses
               PROVE  Shared(k, a) <=> Proposer \in options.addresses
    BY DEF ProposalsShared
  <2>1. PICK i \in DOMAIN to_approve : k = proposal_key(i) /\ ops[k].when = to_approve[i].when
    BY DEF Inv, Known
  <2>2. ASSUME Proposer \in options.addresses PROVE Shared(k, a)
    <3>1. files[a] = to_approve BY DEF Inv, FilesOK
    <3>2. PICK c : c = to_approve[i] OBVIOUS
    <3>3. c \in calls_of(a) /\ c.call = i BY <3>1, <3>2 DEF calls_of, Inv, Queued
    <3>4. approval_key(i) = k BY <2>1, <2>2, KeyFacts
    <3> QED BY <2>1, <3>2, <3>3, <3>4 DEF Shared
  <2>3. ASSUME Proposer \notin options.addresses PROVE ~ Shared(k, a)
    <3>1. \A m : approval_key(m).account.members = options.addresses
      BY DEF approval_key, multi
    <3>2. k.account.members = options.addresses \cup {Proposer}
      BY <2>1 DEF proposal_key, multi
    <3>3. k.account.members # options.addresses BY <2>3, <3>2
    <3> QED BY <3>1, <3>3 DEF Shared
  <2> QED BY <2>2, <2>3
<1> QED BY <1>1, InvInvariance, PTL
-----------------------------------------------------------------------------
(***************************************************************************)
(* What zeros computes, from the values up to a number n.                  *)
(***************************************************************************)
IsZeros(g, n) == g = [k \in 0 .. n |-> IF k = 0 THEN 1 ELSE 10 * g[k - 1]]

(* One step of the recursion. *)
LEMMA ZerosUnfold ==
  ASSUME NEW g, NEW n \in Nat, IsZeros(g, n), NEW k \in 0 .. n
  PROVE  g[k] = IF k = 0 THEN 1 ELSE 10 * g[k - 1]
BY Zenon DEF IsZeros

(* Two solutions agree where both are defined. *)
LEMMA ZerosAgree ==
  ASSUME NEW g, NEW h, NEW n \in Nat, NEW m \in Nat, IsZeros(g, n), IsZeros(h, m),
         NEW k \in 0 .. n, k \in 0 .. m
  PROVE  g[k] = h[k]
<1> DEFINE I == {x \in 0 .. k : g[x] # h[x]}
<1>1. SUFFICES ASSUME I # {} PROVE FALSE OBVIOUS
<1>2. I \subseteq Nat OBVIOUS
<1> HIDE DEF I
<1>3. PICK x \in I : \A y \in I : x <= y BY <1>1, <1>2, LeastExists
<1>4. x \in 0 .. n /\ x \in 0 .. m /\ g[x] # h[x] /\ x \in Nat BY <1>2, <1>3 DEF I
<1>5. g[x] = IF x = 0 THEN 1 ELSE 10 * g[x - 1] BY <1>4, ZerosUnfold
<1>6. h[x] = IF x = 0 THEN 1 ELSE 10 * h[x - 1] BY <1>4, ZerosUnfold
<1>7. x # 0 BY <1>4, <1>5, <1>6
<1>8. x - 1 \in 0 .. k /\ ~ (x <= x - 1) BY <1>3, <1>4, <1>7 DEF I
<1>9. g[x - 1] = h[x - 1] BY <1>3, <1>8 DEF I
<1> QED BY <1>4, <1>5, <1>6, <1>7, <1>9

(* There is a solution up to every number. *)
LEMMA ZerosExist ==
  ASSUME NEW n \in Nat
  PROVE  \E g : IsZeros(g, n)
<1> DEFINE I == {x \in Nat : ~ \E g : IsZeros(g, x)}
<1>1. SUFFICES ASSUME I # {} PROVE FALSE OBVIOUS
<1>2. I \subseteq Nat OBVIOUS
<1> HIDE DEF I
<1>3. PICK x \in I : \A y \in I : x <= y BY <1>1, <1>2, LeastExists
<1>4. x \in Nat /\ ~ \E g : IsZeros(g, x) BY <1>3 DEF I
<1>5. x # 0
  <2> SUFFICES ASSUME x = 0 PROVE FALSE OBVIOUS
  <2> DEFINE g == [k \in 0 .. 0 |-> 1]
  <2>1. g = [k \in 0 .. 0 |-> IF k = 0 THEN 1 ELSE 10 * g[k - 1]] OBVIOUS
  <2>2. IsZeros(g, 0)
    <3> HIDE DEF g
    <3> QED BY <2>1 DEF IsZeros
  <2> QED BY <1>4, <2>2
<1>6. x - 1 \in Nat /\ x - 1 \notin I BY <1>3, <1>4, <1>5
<1>7. PICK h : IsZeros(h, x - 1) BY <1>6 DEF I
<1> DEFINE g == [k \in 0 .. x |-> IF k = x THEN 10 * h[x - 1] ELSE h[k]]
<1>8. ASSUME NEW k \in 0 .. x PROVE g[k] = IF k = 0 THEN 1 ELSE 10 * g[k - 1]
  <2>1. CASE k = x
    <3>1. x - 1 \in 0 .. x /\ x - 1 # x BY <1>4, <1>5
    <3>2. g[x - 1] = h[x - 1] BY <3>1
    <3> QED BY <1>5, <2>1, <3>2
  <2>2. CASE k # x
    <3>1. k \in 0 .. x - 1 BY <1>4, <2>2
    <3>2. h[k] = IF k = 0 THEN 1 ELSE 10 * h[k - 1] BY <1>6, <1>7, <3>1, ZerosUnfold
    <3>3. k # 0 => k - 1 \in 0 .. x /\ k - 1 # x BY <1>4, <3>1
    <3>4. k # 0 => g[k - 1] = h[k - 1] BY <3>3
    <3> QED BY <2>2, <3>2, <3>4
  <2> QED BY <2>1, <2>2
<1>9. g = [k \in 0 .. x |-> g[k]] OBVIOUS
<1>10. IsZeros(g, x)
  <2> HIDE DEF g
  <2>1. g = [k \in 0 .. x |-> IF k = 0 THEN 1 ELSE 10 * g[k - 1]] BY <1>8, <1>9
  <2> QED BY <2>1 DEF IsZeros
<1> QED BY <1>4, <1>10

(* The recursion of zeros has a solution, so zeros is one. *)
LEMMA ZerosStep ==
  ASSUME NEW n \in Nat
  PROVE  zeros[n] = IF n = 0 THEN 1 ELSE 10 * zeros[n - 1]
<1> DEFINE part(x) == CHOOSE h : IsZeros(h, x)
           g == [x \in Nat |-> part(x)[x]]
<1>1. ASSUME NEW x \in Nat PROVE IsZeros(part(x), x) BY ZerosExist
<1> HIDE DEF part
<1>2. ASSUME NEW x \in Nat PROVE g[x] = IF x = 0 THEN 1 ELSE 10 * g[x - 1]
  <2>1. x \in 0 .. x OBVIOUS
  <2>2. PICK p : p = part(x) OBVIOUS
  <2>3. p[x] = IF x = 0 THEN 1 ELSE 10 * p[x - 1] BY <1>1, <2>1, <2>2, ZerosUnfold
  <2>4. ASSUME x # 0 PROVE p[x - 1] = g[x - 1]
    <3>1. x - 1 \in Nat /\ x - 1 \in 0 .. x /\ x - 1 \in 0 .. x - 1 BY <2>4
    <3>2. PICK q : q = part(x - 1) OBVIOUS
    <3>3. PICK y : y = x - 1 OBVIOUS
    <3>4. IsZeros(q, y) /\ IsZeros(p, x) /\ y \in Nat /\ y \in 0 .. x /\ y \in 0 .. y
      BY <1>1, <2>2, <3>1, <3>2, <3>3
    <3>5. p[y] = q[y] BY <3>4, ZerosAgree
    <3> QED BY <3>1, <3>2, <3>3, <3>5
  <2> QED BY <2>2, <2>3, <2>4
<1>3. g = [x \in Nat |-> IF x = 0 THEN 1 ELSE 10 * g[x - 1]]
  <2>1. g = [x \in Nat |-> g[x]] OBVIOUS
  <2> HIDE DEF g
  <2> QED BY <1>2, <2>1
<1> HIDE DEF g
<1>4. zeros = [x \in Nat |-> IF x = 0 THEN 1 ELSE 10 * zeros[x - 1]] BY <1>3, Zenon DEF zeros
<1> QED BY <1>4, Zenon

(* A power of ten is a number, and not zero. *)
LEMMA ZerosNat ==
  ASSUME NEW n \in Nat
  PROVE  zeros[n] \in Nat \ {0}
<1> DEFINE I == {x \in Nat : zeros[x] \notin Nat \ {0}}
<1>1. SUFFICES ASSUME I # {} PROVE FALSE OBVIOUS
<1>2. I \subseteq Nat OBVIOUS
<1> HIDE DEF I
<1>3. PICK x \in I : \A y \in I : x <= y BY <1>1, <1>2, LeastExists
<1>4. x \in Nat /\ zeros[x] \notin Nat \ {0} BY <1>3 DEF I
<1>5. zeros[x] = IF x = 0 THEN 1 ELSE 10 * zeros[x - 1] BY <1>4, ZerosStep
<1>6. x # 0 BY <1>4, <1>5
<1>7. x - 1 \in Nat /\ x - 1 \notin I BY <1>3, <1>4, <1>6
<1>8. zeros[x - 1] \in Nat \ {0} BY <1>7 DEF I
<1> QED BY <1>4, <1>5, <1>6, <1>8

(* Zeros are appended one after the other. *)
LEMMA ZerosSum ==
  ASSUME NEW n \in Nat, NEW m \in Nat
  PROVE  zeros[n + m] = zeros[n] * zeros[m]
<1> DEFINE I == {x \in Nat : zeros[n + x] # zeros[n] * zeros[x]}
<1>1. SUFFICES ASSUME I # {} PROVE FALSE OBVIOUS
<1>2. I \subseteq Nat OBVIOUS
<1> HIDE DEF I
<1>3. PICK x \in I : \A y \in I : x <= y BY <1>1, <1>2, LeastExists
<1>4. x \in Nat /\ zeros[n + x] # zeros[n] * zeros[x] BY <1>3 DEF I
<1>5. zeros[x] = IF x = 0 THEN 1 ELSE 10 * zeros[x - 1] BY <1>4, ZerosStep
<1>6. zeros[n] \in Nat BY ZerosNat
<1>7. x # 0
  <2> SUFFICES ASSUME x = 0 PROVE FALSE OBVIOUS
  <2>1. zeros[x] = 1 /\ n + x = n BY <1>5
  <2> QED BY <1>4, <1>6, <2>1
<1>8. x - 1 \in Nat /\ x - 1 \notin I BY <1>3, <1>4, <1>7
<1>9. zeros[n + (x - 1)] = zeros[n] * zeros[x - 1] BY <1>8 DEF I
<1>10. zeros[n + x] = 10 * zeros[n + (x - 1)]
  <2>1. PICK y : y = n + x OBVIOUS
  <2>2. y \in Nat /\ y # 0 /\ y - 1 = n + (x - 1) BY <1>4, <1>7, <2>1
  <2>3. zeros[y] = 10 * zeros[y - 1] BY <2>2, ZerosStep
  <2> QED BY <2>1, <2>2, <2>3
<1>11. zeros[x - 1] \in Nat BY <1>8, ZerosNat
<1>12. PICK u \in Nat : u = zeros[n] BY <1>6
<1>13. PICK v \in Nat : v = zeros[x - 1] BY <1>11
<1>14. 10 * (u * v) = u * (10 * v) OBVIOUS
<1> QED BY <1>4, <1>5, <1>7, <1>9, <1>10, <1>12, <1>13, <1>14
-----------------------------------------------------------------------------
(***************************************************************************)
(* What read_airdrop_csv and encodings make of a file.                     *)
(***************************************************************************)
InputsOK == options \in CommandLines /\ parse_args(options) /\ csv_data \in CsvFiles

(* parse_amount returns a number. *)
LEMMA AmountNat ==
  ASSUME InputsOK, NEW i \in DOMAIN csv_data
  PROVE  amounts[i] \in Nat
<1>1. /\ csv_data[i].tokens.digits \in Nat
      /\ csv_data[i].tokens.decimals \in Nat
  BY RowFacts DEF InputsOK
<1>2. PICK t : t = csv_data[i].tokens OBVIOUS
<1>3. amounts[i] = parse_amount(t) BY <1>2 DEF amounts
<1>4. CASE t.decimals <= Decimals
  <2>1. Decimals - t.decimals \in Nat BY <1>1, <1>2, <1>4, ScriptsAssumption
  <2>2. zeros[Decimals - t.decimals] \in Nat BY <2>1, ZerosNat
  <2> QED BY <1>1, <1>2, <1>3, <1>4, <2>2 DEF parse_amount
<1>5. CASE ~ (t.decimals <= Decimals) BY <1>1, <1>2, <1>3, <1>5 DEF parse_amount
<1> QED BY <1>4, <1>5

(* The rows that grant something. *)
LEMMA NonzeroFacts ==
  ASSUME InputsOK
  PROVE  /\ IsFiniteSet(nonzero) /\ nonzero \subseteq DOMAIN csv_data
         /\ \A i \in nonzero : i \in Nat /\ i <= Len(csv_data) /\ amounts[i] \in Nat \ {0}
<1>1. Len(csv_data) \in Nat /\ DOMAIN csv_data = 1 .. Len(csv_data) /\ IsFiniteSet(nonzero)
  BY RowFacts DEF InputsOK
<1>2. \A i \in nonzero : i \in DOMAIN csv_data /\ amounts[i] # 0 BY DEF nonzero
<1>3. \A i \in nonzero : amounts[i] \in Nat BY <1>2, AmountNat
<1> QED BY <1>1, <1>2, <1>3

(* The rows are counted one by one. *)
LEMMA CountGrows ==
  ASSUME InputsOK, NEW i \in nonzero, NEW j \in nonzero, i < j
  PROVE  count(i) < count(j)
<1> DEFINE S == {x \in nonzero : x <= i}
           U == {x \in nonzero : x <= j}
<1>0. \A x \in nonzero : x \in Nat BY NonzeroFacts
<1>1. IsFiniteSet(U) BY NonzeroFacts, FS_Subset
<1>2. S \subseteq U BY <1>0
<1>3. j \in U /\ j \notin S BY <1>0
<1>4. count(i) = Cardinality(S) /\ count(j) = Cardinality(U) BY DEF count
<1> HIDE DEF S, U
<1>5. S \in SUBSET U /\ S # U BY <1>2, <1>3
<1>6. Cardinality(S) <= Cardinality(U) /\ Cardinality(S) # Cardinality(U) BY <1>1, <1>5, FS_Subset
<1>7. Cardinality(S) \in Nat /\ Cardinality(U) \in Nat BY <1>1, <1>5, FS_Subset, FS_CardinalityType
<1> QED BY <1>4, <1>6, <1>7

(* The counts of the rows are within 1 and their number. *)
LEMMA CountBounds ==
  ASSUME InputsOK, NEW i \in nonzero
  PROVE  count(i) \in 1 .. count(Len(csv_data)) /\ count(Len(csv_data)) \in Nat
<1> DEFINE n == Len(csv_data)
           S == {x \in nonzero : x <= i}
           U == {x \in nonzero : x <= n}
<1>0. \A x \in nonzero : x \in Nat /\ x <= n BY NonzeroFacts
<1>a. n \in Nat BY RowFacts DEF InputsOK
<1>1. IsFiniteSet(U) BY NonzeroFacts, FS_Subset
<1>2. S \subseteq U BY <1>0
<1>3. i \in S BY <1>0
<1>4. count(i) = Cardinality(S) /\ count(n) = Cardinality(U) BY DEF count
<1> HIDE DEF S, U
<1>5. S \in SUBSET U BY <1>2
<1>6. IsFiniteSet(S) /\ Cardinality(S) <= Cardinality(U) BY <1>1, <1>5, FS_Subset
<1>7. Cardinality(S) \in Nat /\ Cardinality(U) \in Nat BY <1>1, <1>6, FS_CardinalityType
<1>8. Cardinality(S) # 0 BY <1>3, <1>6, FS_EmptySet
<1> QED BY <1>4, <1>6, <1>7, <1>8

(* Facts about products. *)
LEMMA ProductOrder ==
  ASSUME NEW m \in Nat, NEW n \in Nat, NEW b \in Nat, m < n
  PROVE  m * b <= (n - 1) * b
<1>1. PICK d \in Nat : n = m + 1 + d
  <2>1. n - m - 1 \in Nat /\ n = m + 1 + (n - m - 1) OBVIOUS
  <2> QED BY <2>1
<1>2. (n - 1) * b = m * b + d * b BY <1>1
<1>3. d * b \in Nat /\ m * b \in Nat OBVIOUS
<1> QED BY <1>2, <1>3

(* The places of a chunk are batch_size many. *)
LEMMA ChunkWidth ==
  ASSUME NEW m \in Nat \ {0}, NEW b \in Nat
  PROVE  m * b = (m - 1) * b + b /\ (m - 1) * b \in Nat
OBVIOUS

(* A chunk has batch_size rows at most. *)
LEMMA ChunkFacts ==
  ASSUME InputsOK, NEW m \in DOMAIN batches
  PROVE  /\ batches[m] \subseteq nonzero /\ IsFiniteSet(batches[m])
         /\ Cardinality(batches[m]) <= options.batch_size
         /\ \A i \in batches[m] : count(i) \in (m - 1) * options.batch_size + 1 .. m * options.batch_size
<1> DEFINE b == options.batch_size
           I == (m - 1) * b + 1 .. m * b
           C == batches[m]
<1>1. b \in Nat \ {0} /\ DOMAIN batches = 1 .. Len(batches) /\ Len(batches) \in Nat
  BY BatchFacts DEF InputsOK
<1>2. C = {i \in nonzero : count(i) \in I} BY DEF batches, read_airdrop_csv
<1>3. m * b = (m - 1) * b + b /\ (m - 1) * b \in Nat BY <1>1, ChunkWidth
<1>4. IsFiniteSet(I) /\ Cardinality(I) = b
  <2>1. PICK x \in Nat : x = (m - 1) * b BY <1>3
  <2>2. I = x + 1 .. x + b BY <1>3, <2>1
  <2>3. Cardinality(x + 1 .. x + b) = b /\ IsFiniteSet(x + 1 .. x + b)
    <3>1. PICK lo, hi : lo = x + 1 /\ hi = x + b OBVIOUS
    <3>2. lo \in Int /\ hi \in Int /\ ~ (lo > hi) /\ hi - lo + 1 = b BY <1>1, <3>1
    <3>3. IsFiniteSet(lo .. hi) /\ Cardinality(lo .. hi) = IF lo > hi THEN 0 ELSE hi - lo + 1
      BY <3>2, FS_Interval
    <3> HIDE DEF b
    <3> QED BY <3>1, <3>2, <3>3
  <2> HIDE DEF I
  <2> QED BY <2>2, <2>3
<1>5. C \subseteq nonzero /\ IsFiniteSet(C) BY <1>2, NonzeroFacts, FS_Subset
<1> DEFINE f == [i \in C |-> count(i)]
<1>6. f \in Injection(C, I)
  <2>1. f \in [C -> I] BY <1>2
  <2>2. ASSUME NEW i \in C, NEW j \in C, f[i] = f[j] PROVE i = j
    <3>1. i \in nonzero /\ j \in nonzero /\ i \in Nat /\ j \in Nat BY <1>5, NonzeroFacts
    <3>2. count(i) = count(j) BY <2>2
    <3>3. count(i) \in Nat /\ count(j) \in Nat BY <3>1, CountBounds
    <3>4. CASE i < j
      <4>1. count(i) < count(j) BY <3>1, <3>4, CountGrows
      <4> QED BY <3>2, <3>3, <4>1
    <3>5. CASE j < i
      <4>1. count(j) < count(i) BY <3>1, <3>5, CountGrows
      <4> QED BY <3>2, <3>3, <4>1
    <3> QED BY <3>1, <3>4, <3>5
  <2> HIDE DEF C, I
  <2> QED BY <2>1, <2>2 DEF Injection, IsInjective
<1>7. Cardinality(C) <= Cardinality(I)
  <2> HIDE DEF f, C, I
  <2> QED BY <1>4, <1>6, FS_Injection
<1> QED BY <1>2, <1>4, <1>5, <1>7

(* Every row that grants something is in one chunk. *)
LEMMA ChunksApart ==
  ASSUME InputsOK, NEW m \in DOMAIN batches, NEW n \in DOMAIN batches,
         NEW i \in batches[m], i \in batches[n]
  PROVE  m = n
<1> DEFINE b == options.batch_size
<1>1. b \in Nat \ {0} /\ DOMAIN batches = 1 .. Len(batches) /\ Len(batches) \in Nat
  BY BatchFacts DEF InputsOK
<1>2. m \in Nat \ {0} /\ n \in Nat \ {0} BY <1>1
<1>3. /\ count(i) \in (m - 1) * b + 1 .. m * b
      /\ count(i) \in (n - 1) * b + 1 .. n * b
  BY ChunkFacts
<1>4. count(i) \in Nat BY CountNat DEF InputsOK
<1>5. /\ m * b \in Nat /\ n * b \in Nat
      /\ (m - 1) * b \in Nat /\ (n - 1) * b \in Nat
  BY <1>1, <1>2, SMTT(30)
<1>6. ~ (m < n)
  <2> SUFFICES ASSUME m < n PROVE FALSE OBVIOUS
  <2>1. m * b <= (n - 1) * b BY <1>1, <1>2, ProductOrder
  <2> QED BY <1>3, <1>4, <1>5, <2>1
<1>7. ~ (n < m)
  <2> SUFFICES ASSUME n < m PROVE FALSE OBVIOUS
  <2>1. n * b <= (m - 1) * b BY <1>1, <1>2, ProductOrder
  <2> QED BY <1>3, <1>4, <1>5, <2>1
<1> QED BY <1>2, <1>6, <1>7

(* No row that grants something is left out. *)
LEMMA ChunkOfRow ==
  ASSUME InputsOK, NEW i \in nonzero
  PROVE  \E m \in DOMAIN batches : i \in batches[m]
<1> DEFINE b == options.batch_size
           n == count(Len(csv_data))
<1>1. /\ b \in Nat \ {0} /\ DOMAIN batches = 1 .. Len(batches)
      /\ Len(batches) = n \div b + 1
  BY BatchFacts DEF InputsOK
<1>2. PICK c : c = count(i) OBVIOUS
<1>3. c \in 1 .. n /\ n \in Nat BY <1>2, CountBounds
<1>4. PICK x : x = c - 1 OBVIOUS
<1>5. x \in Nat /\ x < n BY <1>3, <1>4
<1>6. PICK q : q = x \div b OBVIOUS
<1>7. q \in Nat /\ q * b <= x /\ x < (q + 1) * b BY <1>1, <1>5, <1>6, QuotientFacts
<1>8. PICK p : p = n \div b OBVIOUS
<1>9. p \in Nat /\ n < (p + 1) * b BY <1>1, <1>3, <1>8, QuotientFacts
<1>10. q <= p
  <2> SUFFICES ASSUME p < q PROVE FALSE BY <1>7, <1>9
  <2>1. p + 1 < q + 1 /\ p + 1 \in Nat /\ q + 1 \in Nat BY <1>7, <1>9
  <2>2. PICK u, v : u = p + 1 /\ v = q + 1 OBVIOUS
  <2>3. u * b <= (v - 1) * b
    <3>1. u \in Nat /\ v \in Nat /\ b \in Nat /\ u < v BY <1>1, <2>1, <2>2
    <3> HIDE DEF b
    <3> QED BY <3>1, ProductOrder
  <2>4. (p + 1) * b <= q * b
    <3>1. v - 1 = q BY <1>7, <2>2
    <3> QED BY <2>2, <2>3, <3>1
  <2>5. (p + 1) * b \in Nat /\ q * b \in Nat BY <1>1, <1>7, <1>9, SMTT(30)
  <2> HIDE DEF n, b
  <2> QED BY <1>3, <1>5, <1>7, <1>9, <2>4, <2>5
<1>11. PICK m : m = q + 1 OBVIOUS
<1>12. m \in 1 .. n \div b + 1 BY <1>7, <1>8, <1>9, <1>10, <1>11
<1>13. m \in DOMAIN batches BY <1>1, <1>12
<1>14. (m - 1) * b = q * b /\ m * b = (q + 1) * b
  <2>1. m - 1 = q BY <1>7, <1>11
  <2> QED BY <1>11, <2>1
<1>15. c \in (m - 1) * b + 1 .. m * b
  <2>1. PICK u : u = q * b OBVIOUS
  <2>2. PICK v : v = (q + 1) * b OBVIOUS
  <2>3. u \in Nat /\ v \in Nat BY <1>1, <1>7, <2>1, <2>2, SMTT(30)
  <2>4. u <= x /\ x < v BY <1>7, <2>1, <2>2
  <2>5. c \in u + 1 .. v BY <1>3, <1>4, <1>5, <2>3, <2>4
  <2> QED BY <1>14, <2>1, <2>2, <2>5
<1>16. batches[m] = {j \in nonzero : count(j) \in (m - 1) * b + 1 .. m * b}
  BY <1>12 DEF batches, read_airdrop_csv
<1>17. i \in batches[m] BY <1>2, <1>15, <1>16
<1> QED BY <1>13, <1>17
-----------------------------------------------------------------------------
(* No two rows grant something to the same address. *)
Distinct == \A i, j \in nonzero : csv_data[i].address = csv_data[j].address => i = j

(* The rows of a chunk for a beneficiary. *)
RowsFor(batch, b) == {i \in batch : csv_data[i].address = b}

(* The map of a chunk has an entry for each address, from one of its rows. *)
LEMMA EncodingFacts ==
  ASSUME InputsOK, NEW m \in DOMAIN batches, NEW list \in encodings(batches[m])
  PROVE  /\ DOMAIN list = Addresses(batches[m])
         /\ \A b \in DOMAIN list :
              \E i \in batches[m] : csv_data[i].address = b /\ list[b] = amounts[i]
         /\ \A b \in DOMAIN list : b \in Beneficiary /\ list[b] \in Nat \ {0}
<1> DEFINE C == batches[m]
<1>1. /\ list \in [Addresses(C) -> {amounts[i] : i \in C}]
      /\ \A a \in Addresses(C) : \E i \in C : csv_data[i].address = a /\ list[a] = amounts[i]
  BY DEF encodings, Addresses
<1>2. C \subseteq nonzero BY ChunkFacts
<1>3. nonzero \subseteq DOMAIN csv_data /\ \A i \in nonzero : amounts[i] \in Nat \ {0}
  BY NonzeroFacts
<1>4. \A i \in DOMAIN csv_data : csv_data[i].address \in Beneficiary BY RowFacts DEF InputsOK
<1> HIDE DEF C
<1>5. DOMAIN list = Addresses(C) BY <1>1
<1>6. \A b \in DOMAIN list : \E i \in C : csv_data[i].address = b /\ list[b] = amounts[i]
  BY <1>1, <1>5
<1>7. \A b \in DOMAIN list : b \in Beneficiary /\ list[b] \in Nat \ {0}
  BY <1>2, <1>3, <1>4, <1>6
<1> QED BY <1>5, <1>6, <1>7 DEF C

(* A set of rows has no more addresses than rows. *)
LEMMA AddressesFinite ==
  ASSUME NEW S, IsFiniteSet(S)
  PROVE  /\ IsFiniteSet(Addresses(S)) /\ Cardinality(Addresses(S)) <= Cardinality(S)
         /\ Cardinality(Addresses(S)) \in Nat /\ Cardinality(S) \in Nat
<1>1. PICK f : f = [i \in S |-> csv_data[i].address] OBVIOUS
<1>2. f \in Surjection(S, Addresses(S)) BY <1>1 DEF Surjection, Addresses
<1>3. PICK A : A = Addresses(S) OBVIOUS
<1>4. f \in Surjection(S, A) BY <1>2, <1>3
<1>5. IsFiniteSet(A) /\ Cardinality(A) <= Cardinality(S) BY <1>4, FS_Surjection
<1>6. Cardinality(A) \in Nat /\ Cardinality(S) \in Nat BY <1>5, FS_CardinalityType
<1> QED BY <1>3, <1>5, <1>6

(* Without duplicates the map of a chunk has the sum of its rows. *)
LEMMA EncodingSum ==
  ASSUME InputsOK, Distinct, NEW m \in DOMAIN batches, NEW list \in encodings(batches[m])
  PROVE  Sum(list) = SumFunctionOnSet(amounts, batches[m])
<1>1. PICK C : C = batches[m] OBVIOUS
<1>2. PICK h : h = [i \in C |-> csv_data[i].address] OBVIOUS
<1>3. PICK g : g = amounts OBVIOUS
<1>4. C \subseteq nonzero /\ IsFiniteSet(C) BY <1>1, ChunkFacts
<1>5. \A x, y \in C : h[x] = h[y] => x = y BY <1>2, <1>4 DEF Distinct
<1>6. \A b \in DOMAIN list : \E i \in C : h[i] = b /\ list[b] = g[i]
  BY <1>1, <1>2, <1>3, EncodingFacts
<1>7. DOMAIN list = {h[x] : x \in C}
  <2>1. DOMAIN list = Addresses(C) BY <1>1, EncodingFacts
  <2>2. Addresses(C) = {h[x] : x \in C} BY <1>2 DEF Addresses
  <2> QED BY <2>1, <2>2
<1>8. ASSUME NEW x \in C PROVE list[h[x]] = g[x] /\ g[x] \in Nat
  <2>1. PICK i \in C : h[i] = h[x] /\ list[h[x]] = g[i] BY <1>6, <1>7
  <2>2. i = x BY <1>5, <2>1
  <2> QED BY <1>3, <1>4, <2>1, <2>2, NonzeroFacts
<1>9. SumFunctionOnSet(list, {h[x] : x \in C}) = SumFunctionOnSet(g, C)
  BY <1>4, <1>5, <1>8, SumImage
<1> QED BY <1>1, <1>3, <1>7, <1>9 DEF Sum, SumFunction
-----------------------------------------------------------------------------
(* No extrinsic has been sent. *)
Early == script \in {"start", "refused"}

(***************************************************************************)
(* A chunk is executed: for the first time, from the account that sends    *)
(* all of them, and, unless something disturbed the order, after the       *)
(* others before it.                                                       *)
(***************************************************************************)
Runs(m, origin) ==
  /\ sudo(m, origin)
  /\ fate[m] = "unsent"
  /\ origin = Sender
  /\ ~ Early /\ ~ Early'
  /\ Undisturbed => \A k \in 1 .. m - 1 : Executed(k)

(* Nothing that concerns the list happens. *)
Rests == UNCHANGED <<vars, fate, granted>> /\ (Early' <=> Early)

(* What a step may do to the list. *)
LEMMA StepKinds ==
  ASSUME Inv, [CampaignNext]_all_vars
  PROVE  \/ Rests
         \/ main_start
         \/ \E m \in DOMAIN batches, origin \in {Sender} : Runs(m, origin)
         \/ \E b \in Beneficiary : payout(b)
         \/ "manager" \in disturbed' /\ UNCHANGED <<fate, granted>>
<1> USE DEF Inv
<1> DEFINE Ran == \E m \in DOMAIN batches, origin \in {Sender} : Runs(m, origin)
<1>1. ASSUME UNCHANGED <<vars, fate, granted, script>> PROVE Rests BY <1>1 DEF Rests, Early
<1>2. ASSUME NEW calls, Advance(calls) \/ Finish(calls), script = "send" PROVE ~ Early /\ ~ Early'
  BY <1>2 DEF Advance, Finish, Early
<1>3. ASSUME NEW m \in DOMAIN batches, NEW origin, Runs(m, origin) PROVE Ran
  BY <1>3 DEF Runs
<1> HIDE DEF Ran
<1>11. CASE UNCHANGED all_vars BY <1>1, <1>11 DEF all_vars, cvars
<1>12. CASE main_start BY <1>12
<1>e. CASE encode_failure
  <2>1. ~ Early /\ ~ Early' BY <1>e DEF encode_failure, Early
  <2> QED BY <1>e, <2>1 DEF encode_failure, Rests
<1>13. CASE send_retry
  <2>1. ~ Early /\ ~ Early'
    <3>1. CASE max_retries[Proposer] > 1 BY <1>13, <3>1 DEF send_retry, Early
    <3>2. CASE ~ (max_retries[Proposer] > 1) /\ options.threshold = 0
      <4>1. next_chunk(to_approve) /\ script = "send" BY <1>13, <3>2 DEF send_retry
      <4> QED BY <1>2, <4>1, SendShapes
    <3>3. CASE ~ (max_retries[Proposer] > 1) /\ options.threshold # 0
      BY <1>13, <3>3 DEF send_retry, Early
    <3> QED BY <3>1, <3>2, <3>3
  <2> QED BY <1>13, <2>1 DEF send_retry, Rests
<1>14. CASE send_failure
  <2>1. Finish(to_approve) /\ script = "send" BY <1>14, SendShapes DEF send_failure
  <2>2. ~ Early /\ ~ Early' BY <1>2, <2>1
  <2> QED BY <1>14, <2>2 DEF send_failure, Rests
<1>15. CASE send_as_sudo
  <2>1. PICK m : m = chunk OBVIOUS
  <2>2. script = "send" /\ options.threshold = 0 /\ sudo(m, Proposer)
    BY <1>15, <2>1 DEF send_as_sudo
  <2>3. Advance(to_approve) \/ Finish(to_approve) BY <1>15, SendShapes DEF send_as_sudo
  <2>4. ~ Early /\ ~ Early' BY <1>2, <2>2, <2>3
  <2>5. Len(batches) \in Nat /\ DOMAIN batches = 1 .. Len(batches) BY BatchFacts DEF Typed
  <2>6. m \in DOMAIN batches /\ m >= chunk BY <2>1, <2>5 DEF Typed
  <2>7. fate[m] = "unsent" BY <2>2, <2>6 DEF Queued, Sending
  <2>8. Undisturbed => \A k \in 1 .. m - 1 : Executed(k)
    BY <2>1, <2>2 DEF InOrder, InTurn, Sending
  <2>9. Proposer = Sender BY <2>2 DEF Sender
  <2>10. Runs(m, Proposer) BY <2>2, <2>4, <2>7, <2>8, <2>9 DEF Runs
  <2> QED BY <1>3, <2>6, <2>10 DEF Ran
<1>16. CASE send_as_multi_sudo
  <2>1. PICK calls : calls = Append(to_approve, [call |-> chunk, when |-> clock]) OBVIOUS
  <2>2. answer(calls) /\ script = "send" BY <1>16, <2>1 DEF send_as_multi_sudo
  <2>3. ~ Early /\ ~ Early' BY <1>2, <2>2, SendShapes
  <2> QED BY <1>16, <2>3 DEF send_as_multi_sudo, Rests
<1>17. ASSUME NEW a \in Signatories, approve_batch(a) PROVE Rests BY <1>1, <1>17 DEF approve_batch
<1>18. ASSUME NEW a \in Signatories, final_start(a) PROVE Rests BY <1>1, <1>18 DEF final_start
<1>19. ASSUME NEW a \in Signatories, final_retry(a) PROVE Rests BY <1>1, <1>19 DEF final_retry
<1>20. ASSUME NEW a \in Signatories, final_failure(a) PROVE Rests
  BY <1>1, <1>20 DEF final_failure
<1>21. ASSUME NEW a \in Signatories, final_send(a) PROVE Rests \/ Ran
  <2>1. UNCHANGED script /\ final_running(a) BY <1>21 DEF final_send
  <2>2. script = "done" BY <1>21, FinalFacts
  <2>3. PICK i \in DOMAIN to_approve :
          approving[a] = i /\ Open(i) /\ (Executes(i, a) \/ Approves(i, a))
    BY <1>21, FinalFacts
  <2>4. CASE Approves(i, a) BY <1>1, <2>1, <2>4 DEF Approves
  <2>5. CASE Executes(i, a)
    <3>1. PICK o : o = proposal_key(i).account OBVIOUS
    <3>2. sudo(i, o) BY <2>5, <3>1 DEF Executes
    <3>3. i \in DOMAIN batches BY DEF Queued
    <3>4. PICK k \in DOMAIN ops : k = proposal_key(i) BY <2>3 DEF Open
    <3>5. options.threshold # 0 BY <3>4 DEF Queued
    <3>6. o = Sender BY <3>1, <3>5 DEF proposal_key, Sender
    <3>7. fate[i] = "unsent"
      <4>1. PICK m \in DOMAIN batches : k = proposal_key(m) /\ fate[m] = "unsent" BY DEF Queued
      <4>2. m = i BY <3>4, <4>1, KeyFacts
      <4> QED BY <4>1, <4>2
    <3>8. ASSUME Undisturbed, NEW j \in 1 .. i - 1 PROVE Executed(j)
      <4>1. Nested /\ Passed BY <3>8 DEF InOrder
      <4>2. Cardinality(Approvals(i) \cup {a}) >= options.threshold BY <2>5 DEF Executes
      <4>3. ~ Open(j) BY <2>1, <2>3, <4>1, <4>2, NoneOpenBefore
      <4>4. DOMAIN to_approve = 1 .. Len(to_approve) /\ Len(to_approve) \in Nat
        <5>1. to_approve \in Seq(Calls) BY DEF Typed
        <5> QED BY <5>1
      <4>5. j \in DOMAIN to_approve BY <4>4
      <4> QED BY <4>3, <4>5 DEF Queued, Executed
    <3>9. ~ Early /\ ~ Early' BY <2>1, <2>2 DEF Early
    <3>10. Runs(i, o) BY <3>2, <3>6, <3>7, <3>8, <3>9 DEF Runs
    <3> QED BY <1>3, <3>3, <3>10 DEF Ran
  <2> QED BY <2>3, <2>4, <2>5
<1>22. ASSUME NEW key \in DOMAIN ops, reorg(key) PROVE Rests BY <1>1, <1>22 DEF reorg
<1>23. CASE meddle BY <1>23 DEF meddle
<1> QED
  BY <1>e, <1>11, <1>12, <1>13, <1>14, <1>15, <1>16, <1>17, <1>18, <1>19, <1>20, <1>21, <1>22, <1>23
  DEF CampaignNext, Ran
-----------------------------------------------------------------------------
(* The rows for a beneficiary whose chunk is on the list. *)
Listed(b) ==
  {i \in nonzero : /\ csv_data[i].address = b
                   /\ \E m \in DOMAIN batches : i \in batches[m] /\ fate[m] = "listed"}

(***************************************************************************)
(* Every chunk is executed once, so what is granted to somebody is at most *)
(* the sum of the rows on the list; less where an address is twice in a    *)
(* chunk, of which one entry remains.                                      *)
(***************************************************************************)
Grants ==
  \A b \in Beneficiary :
    /\ granted[b] \in Nat
    /\ granted[b] <= SumFunctionOnSet(amounts, Listed(b))
    /\ Distinct => granted[b] = SumFunctionOnSet(amounts, Listed(b))

(* The rows on the list are finitely many. *)
LEMMA ListedFacts ==
  ASSUME InputsOK, NEW b
  PROVE  /\ Listed(b) \subseteq nonzero /\ IsFiniteSet(Listed(b))
         /\ \A i \in Listed(b) : amounts[i] \in Nat
<1>1. Listed(b) \subseteq nonzero BY DEF Listed
<1> QED BY <1>1, NonzeroFacts, FS_Subset

(* A chunk that was accepted adds its rows. *)
LEMMA ListedMore ==
  ASSUME InputsOK, csv_data' = csv_data, batches' = batches, nonzero' = nonzero,
         NEW m \in DOMAIN batches, fate[m] = "unsent", fate' = [fate EXCEPT ![m] = "listed"],
         fate \in [DOMAIN batches -> Fates], NEW b
  PROVE  /\ Listed(b)' = Listed(b) \cup RowsFor(batches[m], b)
         /\ Listed(b) \cap RowsFor(batches[m], b) = {}
<1>1. \A n \in DOMAIN batches : fate'[n] = IF n = m THEN "listed" ELSE fate[n] OBVIOUS
<1>2. batches[m] \subseteq nonzero BY ChunkFacts
<1>3. \A n \in DOMAIN batches : \A i \in batches[m] : i \in batches[n] => n = m BY ChunksApart
<1>4. ASSUME NEW i \in Listed(b)' PROVE i \in Listed(b) \cup RowsFor(batches[m], b)
  <2>1. PICK n \in DOMAIN batches : i \in batches[n] /\ fate'[n] = "listed"
    BY <1>4 DEF Listed
  <2>2. i \in nonzero /\ csv_data[i].address = b BY <1>4 DEF Listed
  <2> QED BY <1>1, <2>1, <2>2 DEF Listed, RowsFor
<1>5. ASSUME NEW i \in Listed(b) PROVE i \in Listed(b)'
  <2>1. PICK n \in DOMAIN batches : i \in batches[n] /\ fate[n] = "listed"
    BY <1>5 DEF Listed
  <2> QED BY <1>1, <1>5, <2>1 DEF Listed
<1>6. ASSUME NEW i \in RowsFor(batches[m], b) PROVE i \in Listed(b)' /\ i \notin Listed(b)
  <2>1. i \in batches[m] /\ csv_data[i].address = b /\ i \in nonzero BY <1>2 DEF RowsFor
  <2> QED BY <1>1, <1>3, <2>1 DEF Listed
<1> QED BY <1>4, <1>5, <1>6

(* The rows stay when no chunk is accepted. *)
LEMMA ListedSame ==
  ASSUME csv_data' = csv_data, batches' = batches, nonzero' = nonzero,
         \A n \in DOMAIN batches : fate'[n] = "listed" <=> fate[n] = "listed", NEW b
  PROVE  Listed(b)' = Listed(b)
BY DEF Listed

(* What a chunk grants is in its rows. *)
LEMMA RunGrants ==
  ASSUME Inv, Grants, [CampaignNext]_all_vars, NEW m \in DOMAIN batches, NEW origin,
         Runs(m, origin)
  PROVE  Grants'
<1>1. /\ options' = options /\ csv_data' = csv_data /\ batches' = batches
      /\ amounts' = amounts /\ nonzero' = nonzero
  BY InputsStay
<1>2. InputsOK /\ fate \in [DOMAIN batches -> Fates] BY DEF Inv, Typed, InputsOK
<1>3. Distinct' = Distinct BY <1>1 DEF Distinct
<1>4. fate[m] = "unsent" /\ sudo(m, origin) BY DEF Runs
<1>5. PICK list \in encodings(batches[m]) :
        \/ /\ fate' = [fate EXCEPT ![m] = "listed"]
           /\ granted' = [b \in Beneficiary |->
                            granted[b] + IF b \in DOMAIN list THEN list[b] ELSE 0]
        \/ fate' = [fate EXCEPT ![m] = "lost"] /\ granted' = granted
  BY <1>4 DEF sudo
<1>6. CASE fate' = [fate EXCEPT ![m] = "lost"] /\ granted' = granted
  <2>1. \A n \in DOMAIN batches : fate'[n] = "listed" <=> fate[n] = "listed"
    BY <1>2, <1>4, <1>6
  <2>2. \A b : Listed(b)' = Listed(b) BY <1>1, <2>1, ListedSame
  <2> QED BY <1>1, <1>3, <1>6, <2>2 DEF Grants
<1>7. CASE /\ fate' = [fate EXCEPT ![m] = "listed"]
           /\ granted' = [b \in Beneficiary |->
                            granted[b] + IF b \in DOMAIN list THEN list[b] ELSE 0]
  <2> SUFFICES ASSUME NEW b \in Beneficiary
               PROVE  /\ granted'[b] \in Nat
                      /\ granted'[b] <= SumFunctionOnSet(amounts, Listed(b)')
                      /\ Distinct => granted'[b] = SumFunctionOnSet(amounts, Listed(b)')
    BY <1>1, <1>3 DEF Grants
  <2>1. PICK f : f = amounts OBVIOUS
  <2>2. PICK S : S = Listed(b) OBVIOUS
  <2>3. PICK T : T = RowsFor(batches[m], b) OBVIOUS
  <2>4. Listed(b)' = S \cup T /\ S \cap T = {}
    BY <1>1, <1>2, <1>4, <1>7, <2>2, <2>3, ListedMore
  <2>5. IsFiniteSet(S) /\ \A i \in S : f[i] \in Nat BY <1>2, <2>1, <2>2, ListedFacts
  <2>6. T \subseteq batches[m] /\ batches[m] \subseteq nonzero /\ IsFiniteSet(T)
    <3>1. T \subseteq batches[m] BY <2>3 DEF RowsFor
    <3> QED BY <1>2, <3>1, ChunkFacts, FS_Subset
  <2>7. \A i \in T : f[i] \in Nat BY <1>2, <2>1, <2>6, NonzeroFacts
  <2>8. SumFunctionOnSet(f, S \cup T) = SumFunctionOnSet(f, S) + SumFunctionOnSet(f, T)
    <3>1. \A i \in S \cup T : f[i] \in Nat BY <2>5, <2>7
    <3> QED BY <2>4, <2>5, <2>6, <3>1, SumUnion
  <2>9. SumFunctionOnSet(f, S) \in Nat /\ SumFunctionOnSet(f, T) \in Nat
    BY <2>5, <2>6, <2>7, SumNat
  <2>10. PICK n : n = IF b \in DOMAIN list THEN list[b] ELSE 0 OBVIOUS
  <2>11. n \in Nat /\ n <= SumFunctionOnSet(f, T) /\ (Distinct => n = SumFunctionOnSet(f, T))
    <3>1. DOMAIN list = Addresses(batches[m]) BY <1>2, EncodingFacts
    <3>2. CASE b \in DOMAIN list
      <4>1. PICK i \in batches[m] : csv_data[i].address = b /\ list[b] = amounts[i]
        BY <1>2, <3>2, EncodingFacts
      <4>2. i \in T /\ n = f[i] BY <2>1, <2>3, <2>10, <3>2, <4>1 DEF RowsFor
      <4>3. f[i] <= SumFunctionOnSet(f, T) BY <2>6, <2>7, <4>2, SumBound
      <4>4. ASSUME Distinct PROVE f[i] = SumFunctionOnSet(f, T)
        <5>1. \A j \in T : j = i BY <2>3, <2>6, <4>1, <4>4 DEF Distinct, RowsFor
        <5>2. T \ {i} = {} BY <5>1
        <5>3. SumFunctionOnSet(f, T) = f[i] + SumFunctionOnSet(f, T \ {i})
          BY <2>6, <2>7, <4>2, SumRemove
        <5>4. SumFunctionOnSet(f, T \ {i}) = 0 BY <5>2, SumEmpty
        <5> QED BY <2>7, <4>2, <5>3, <5>4
      <4> QED BY <2>7, <4>2, <4>3, <4>4
    <3>3. CASE b \notin DOMAIN list
      <4>1. T = {} BY <2>3, <3>1, <3>3 DEF RowsFor, Addresses
      <4>2. SumFunctionOnSet(f, T) = 0 BY <4>1, SumEmpty
      <4> QED BY <2>10, <3>3, <4>2
    <3> QED BY <3>2, <3>3
  <2>12. granted'[b] = granted[b] + n BY <1>7, <2>10
  <2>13. /\ granted[b] \in Nat /\ granted[b] <= SumFunctionOnSet(f, S)
         /\ Distinct => granted[b] = SumFunctionOnSet(f, S)
    BY <2>1, <2>2 DEF Grants
  <2> QED BY <2>1, <2>4, <2>8, <2>9, <2>11, <2>12, <2>13
<1> QED BY <1>5, <1>6, <1>7

(* Grants holds in all states. *)
LEMMA GrantsInvariance == CampaignSpec => []Grants
<1>1. CampaignInit => Grants
  <2> SUFFICES ASSUME CampaignInit, NEW b \in Beneficiary
               PROVE  granted[b] = 0 /\ SumFunctionOnSet(amounts, Listed(b)) = 0
    BY DEF Grants
  <2>1. granted[b] = 0 /\ fate = [m \in DOMAIN batches |-> "unsent"] BY DEF CampaignInit
  <2>2. Listed(b) = {} BY <2>1 DEF Listed
  <2>3. SumFunctionOnSet(amounts, {}) = 0 BY SumEmpty
  <2> QED BY <2>1, <2>2, <2>3
<1>2. Inv /\ Grants /\ [CampaignNext]_all_vars => Grants'
  <2> SUFFICES ASSUME Inv, Grants, [CampaignNext]_all_vars PROVE Grants' OBVIOUS
  <2>1. CASE UNCHANGED <<fate, granted>>
    <3>1. /\ csv_data' = csv_data /\ batches' = batches
          /\ amounts' = amounts /\ nonzero' = nonzero
      BY InputsStay
    <3>2. Distinct' = Distinct BY <3>1 DEF Distinct
    <3>3. \A b : Listed(b)' = Listed(b) BY <2>1, <3>1, ListedSame
    <3> QED BY <2>1, <3>1, <3>2, <3>3 DEF Grants
  <2>2. ASSUME NEW m \in DOMAIN batches, NEW origin, Runs(m, origin) PROVE Grants'
    BY <2>2, RunGrants
  <2>3. main_start => UNCHANGED <<fate, granted>> BY DEF main_start
  <2>4. \A b \in Beneficiary : payout(b) => UNCHANGED <<fate, granted>> BY DEF payout, cvars
  <2> QED BY <2>1, <2>2, <2>3, <2>4, StepKinds DEF Rests
<1> QED BY <1>1, <1>2, InvInvariance, PTL DEF CampaignSpec
-----------------------------------------------------------------------------
(* A product divided by a factor. *)
LEMMA ExactQuotient ==
  ASSUME NEW x \in Nat, NEW z \in Nat \ {0}
  PROVE  (x * z) \div z = x
<1>1. PICK n : n = x * z OBVIOUS
<1>2. n \in Nat BY <1>1
<1>3. PICK q : q = n \div z OBVIOUS
<1>4. q \in Nat /\ q * z <= n /\ n < (q + 1) * z BY <1>2, <1>3, QuotientFacts
<1>5. ~ (x < q)
  <2> SUFFICES ASSUME x < q PROVE FALSE OBVIOUS
  <2>1. x * z <= (q - 1) * z BY <1>4, ProductOrder
  <2>2. q * z = (q - 1) * z + z /\ (q - 1) * z \in Nat
    <3>1. q \in Nat \ {0} BY <1>4
    <3> QED BY <3>1, ChunkWidth
  <2>3. PICK u, v : u = (q - 1) * z /\ v = q * z OBVIOUS
  <2>4. u \in Nat /\ v = u + z /\ n <= u /\ v <= n BY <1>1, <1>4, <2>1, <2>2, <2>3
  <2> QED BY <1>2, <2>4
<1>6. ~ (q < x)
  <2> SUFFICES ASSUME q < x PROVE FALSE OBVIOUS
  <2>1. PICK p : p = q + 1 OBVIOUS
  <2>2. p \in Nat /\ p <= x BY <1>4, <2>1
  <2>3. p * z <= x * z
    <3>1. CASE p = x BY <3>1
    <3>2. CASE p < x
      <4>1. p * z <= (x - 1) * z BY <2>2, <3>2, ProductOrder
      <4>2. x * z = (x - 1) * z + z /\ (x - 1) * z \in Nat
        <5>1. x \in Nat \ {0} BY <2>2, <3>2
        <5> QED BY <5>1, ChunkWidth
      <4>3. PICK u, v, w : u = (x - 1) * z /\ v = x * z /\ w = p * z OBVIOUS
      <4>4. u \in Nat /\ v = u + z /\ w <= u /\ w \in Nat BY <2>2, <4>1, <4>2, <4>3
      <4>5. w <= v BY <4>4
      <4> QED BY <4>3, <4>5
    <3> QED BY <2>2, <3>1, <3>2
  <2>4. PICK w : w = p * z OBVIOUS
  <2>5. w \in Nat /\ n < w /\ w <= n BY <1>1, <1>4, <2>1, <2>2, <2>3, <2>4
  <2> QED BY <1>2, <2>5
<1> QED BY <1>1, <1>3, <1>4, <1>5, <1>6

(* What a row is worth, as it is written in the file. *)
worth(i) == (csv_data[i].tokens.digits * zeros[Decimals]) \div zeros[csv_data[i].tokens.decimals]

(* parse_amount computes it, unless there are too many decimals. *)
LEMMA AmountIsWorth ==
  ASSUME InputsOK, ~ TooPrecise, NEW i \in DOMAIN csv_data
  PROVE  worth(i) = amounts[i]
<1>1. PICK t : t = csv_data[i].tokens OBVIOUS
<1>2. PICK n, d : n = t.digits /\ d = t.decimals OBVIOUS
<1>3. n \in Nat /\ d \in Nat BY <1>1, <1>2, RowFacts DEF InputsOK
<1>4. d <= Decimals /\ Decimals \in Nat BY <1>1, <1>2, <1>3, ScriptsAssumption DEF TooPrecise
<1>5. PICK e : e = Decimals - d OBVIOUS
<1>6. e \in Nat /\ e + d = Decimals BY <1>3, <1>4, <1>5
<1>7. amounts[i] = n * zeros[e]
  <2>1. amounts[i] = parse_amount(t) BY <1>1 DEF amounts
  <2> QED BY <1>2, <1>4, <1>5, <2>1 DEF parse_amount
<1>8. zeros[Decimals] = zeros[e] * zeros[d] BY <1>3, <1>6, ZerosSum
<1>9. PICK y \in Nat : y = zeros[e] BY <1>6, ZerosNat
<1>10. PICK z \in Nat \ {0} : z = zeros[d] BY <1>3, ZerosNat
<1>11. PICK x : x = n * y OBVIOUS
<1>12. x \in Nat BY <1>3, <1>9, <1>11
<1>13. n * zeros[Decimals] = x * z
  <2>1. n * (y * z) = (n * y) * z BY <1>3, <1>9, <1>10
  <2> QED BY <1>8, <1>9, <1>10, <1>11, <2>1
<1>14. (x * z) \div z = x BY <1>10, <1>12, ExactQuotient
<1> QED BY <1>1, <1>2, <1>7, <1>9, <1>10, <1>11, <1>13, <1>14 DEF worth

(* The rows on the list are among those written, and all of them when all  *)
(* chunks are on the list.                                                 *)
LEMMA ListedIsWritten ==
  ASSUME InputsOK, ~ TooPrecise, NEW b
  PROVE  /\ SumFunctionOnSet(amounts, Listed(b)) <= Written(b)
         /\ (\A m \in DOMAIN batches : fate[m] = "listed") =>
              SumFunctionOnSet(amounts, Listed(b)) = Written(b)
         /\ Written(b) \in Nat
<1>1. PICK D : D = DOMAIN csv_data OBVIOUS
<1>2. PICK f : f = amounts OBVIOUS
<1>3. PICK w : w = [i \in D |-> IF csv_data[i].address = b THEN f[i] ELSE 0] OBVIOUS
<1>4. PICK S : S = Listed(b) OBVIOUS
<1>5. \A i \in D : f[i] \in Nat BY <1>1, <1>2, AmountNat
<1>6. IsFiniteSet(D) BY <1>1, RowFacts DEF InputsOK
<1>7. \A i \in D : w[i] \in Nat BY <1>3, <1>5
<1>8. S \subseteq D /\ IsFiniteSet(S)
  <2>1. S \subseteq D BY <1>1, <1>4, ListedFacts, NonzeroFacts
  <2> QED BY <1>6, <2>1, FS_Subset
<1>9. Written(b) = SumFunctionOnSet(w, D)
  <2>1. w = [i \in DOMAIN csv_data |-> IF csv_data[i].address = b THEN worth(i) ELSE 0]
    <3>1. \A i \in D : worth(i) = f[i] BY <1>1, <1>2, AmountIsWorth
    <3> QED BY <1>1, <1>3, <3>1
  <2>2. DOMAIN w = D BY <1>3
  <2>3. Written(b) = SumFunction(w) BY <2>1 DEF Written, worth
  <2> QED BY <2>2, <2>3 DEF SumFunction
<1>10. \A i \in S : f[i] = w[i] BY <1>3, <1>4, <1>8 DEF Listed
<1>11. SumFunctionOnSet(f, S) = SumFunctionOnSet(w, S) BY <1>8, <1>10, SumSame
<1>12. SumFunctionOnSet(w, S) <= SumFunctionOnSet(w, D) BY <1>6, <1>7, <1>8, SumSubset
<1>13. ASSUME \A m \in DOMAIN batches : fate[m] = "listed"
       PROVE  SumFunctionOnSet(w, S) = SumFunctionOnSet(w, D)
  <2>1. PICK R : R = D \ S OBVIOUS
  <2>2. IsFiniteSet(R) /\ S \cap R = {} /\ S \cup R = D
    <3>1. R \subseteq D BY <2>1
    <3> QED BY <1>6, <1>8, <2>1, <3>1, FS_Subset
  <2>3. ASSUME NEW i \in R PROVE w[i] = 0
    <3>1. i \in D /\ i \notin S BY <2>1
    <3>2. CASE csv_data[i].address # b BY <1>3, <3>1, <3>2
    <3>3. CASE csv_data[i].address = b
      <4>1. i \notin nonzero
        <5> SUFFICES ASSUME i \in nonzero PROVE FALSE OBVIOUS
        <5>1. PICK m \in DOMAIN batches : i \in batches[m] BY ChunkOfRow
        <5>2. fate[m] = "listed" BY <1>13
        <5> QED BY <1>4, <3>1, <3>3, <5>1, <5>2 DEF Listed
      <4>2. f[i] = 0 BY <1>1, <1>2, <3>1, <4>1 DEF nonzero
      <4> QED BY <1>3, <3>1, <4>2
    <3> QED BY <3>2, <3>3
  <2>4. SumFunctionOnSet(w, R) = 0 BY <2>2, <2>3, SumZero
  <2>5. SumFunctionOnSet(w, S \cup R) = SumFunctionOnSet(w, S) + SumFunctionOnSet(w, R)
    <3>1. \A i \in S \cup R : w[i] \in Nat BY <1>7, <2>2
    <3> QED BY <1>8, <2>2, <3>1, SumUnion
  <2>6. SumFunctionOnSet(w, S) \in Nat
    <3>1. \A i \in S : w[i] \in Nat BY <1>7, <1>8
    <3> QED BY <1>8, <3>1, SumNat
  <2>7. SumFunctionOnSet(w, S \cup R) = SumFunctionOnSet(w, D) BY <2>2
  <2>8. PICK u, v, t : /\ u = SumFunctionOnSet(w, S) /\ v = SumFunctionOnSet(w, R)
                       /\ t = SumFunctionOnSet(w, S \cup R)
    OBVIOUS
  <2>9. t = u + v /\ v = 0 /\ u \in Nat BY <2>4, <2>5, <2>6, <2>8
  <2>10. t = u BY <2>9
  <2> QED BY <2>7, <2>8, <2>10
<1>14. SumFunctionOnSet(w, D) \in Nat BY <1>6, <1>7, SumNat
<1> QED BY <1>2, <1>4, <1>9, <1>11, <1>12, <1>13, <1>14
-----------------------------------------------------------------------------
(* Nothing happened that the scripts do not guard against, and nothing is  *)
(* in the file that check_preconditions does not look at.                  *)
Fine == disturbed \subseteq {"started again", "answer lost"} /\ ~ Unchecked

(* The rows of the chunks that are still to be executed. *)
Waiting == UNION {batches[m] : m \in {n \in DOMAIN batches : fate[n] = "unsent"}}

(* An entry of the pallet's list comes from a chunk that was executed. *)
Entry(b) ==
  /\ beneficiaries[b] \in Nat
  /\ \E m \in DOMAIN batches : fate[m] # "unsent" /\ b \in Addresses(batches[m])

(***************************************************************************)
(* What check_preconditions establishes, and every step keeps: the pot has *)
(* what is on the list and what the chunks to come will put there.  The    *)
(* claim is under way from the first chunk on.                             *)
(***************************************************************************)
Covered ==
  /\ \A m \in DOMAIN batches : fate[m] # "lost" /\ (Early => fate[m] = "unsent")
  /\ fate[1] = "unsent" => beneficiaries = Nobody /\ ~ claim_active
  /\ fate[1] # "unsent" => claim_active
  /\ \A b \in DOMAIN beneficiaries : Entry(b)
  /\ balance \in [Holders -> Nat] /\ total_claimable \in Int
  /\ Early => total_claimable = 0
  /\ ~ Early => /\ options.batch_size <= MaxOpBeneficiaries
                /\ total_claimable + SumFunctionOnSet(amounts, Waiting) <= pot

(* What Fine says of file, command line and order. *)
LEMMA FineFacts ==
  ASSUME InputsOK, Fine
  PROVE  /\ Distinct /\ Cardinality(nonzero) <= MaxBeneficiaries
         /\ options.claim_msg # EmptyMessage /\ Sender = sudo_key /\ Undisturbed
<1>1. /\ ~ \E i, j \in nonzero : i # j /\ csv_data[i].address = csv_data[j].address
      /\ ~ (Cardinality(nonzero) > MaxBeneficiaries)
      /\ options.claim_msg # EmptyMessage /\ Sender = sudo_key
  BY DEF Fine, Unchecked
<1>2. Distinct BY <1>1 DEF Distinct
<1>3. Cardinality(nonzero) \in Nat BY NonzeroFacts, FS_CardinalityType
<1>4. MaxBeneficiaries \in Nat BY ClaimAssumption
<1>5. Undisturbed BY DEF Fine, Undisturbed
<1> QED BY <1>1, <1>2, <1>3, <1>4, <1>5

(* The rows that wait are finitely many. *)
LEMMA WaitingFacts ==
  ASSUME InputsOK
  PROVE  Waiting \subseteq nonzero /\ IsFiniteSet(Waiting) /\ SumFunctionOnSet(amounts, Waiting) \in Nat
<1>1. Waiting \subseteq nonzero
  <2> SUFFICES ASSUME NEW i \in Waiting PROVE i \in nonzero OBVIOUS
  <2>1. PICK m \in DOMAIN batches : i \in batches[m] BY DEF Waiting
  <2> QED BY <2>1, ChunkFacts
<1>2. IsFiniteSet(Waiting) BY <1>1, NonzeroFacts, FS_Subset
<1>3. PICK f, S : f = amounts /\ S = Waiting OBVIOUS
<1>4. IsFiniteSet(S) /\ \A i \in S : f[i] \in Nat BY <1>1, <1>2, <1>3, NonzeroFacts
<1>5. SumFunctionOnSet(f, S) \in Nat BY <1>4, SumNat
<1> QED BY <1>1, <1>2, <1>3, <1>5

(* One chunk less, and its sum. *)
LEMMA WaitingLess ==
  ASSUME InputsOK, batches' = batches, amounts' = amounts, nonzero' = nonzero,
         NEW m \in DOMAIN batches, fate[m] = "unsent", fate'[m] # "unsent",
         \A n \in DOMAIN batches : n # m => fate'[n] = fate[n]
  PROVE  /\ SumFunctionOnSet(amounts, Waiting) =
              SumFunctionOnSet(amounts, batches[m]) + SumFunctionOnSet(amounts, Waiting')
         /\ SumFunctionOnSet(amounts, batches[m]) \in Nat
         /\ SumFunctionOnSet(amounts, Waiting') \in Nat
<1>1. PICK f, S, C : f = amounts /\ S = Waiting' /\ C = batches[m] OBVIOUS
<1>2. C \subseteq nonzero /\ IsFiniteSet(C) BY <1>1, ChunkFacts
<1>3. \A n \in DOMAIN batches : \A i \in C : i \in batches[n] => n = m BY <1>1, ChunksApart
<1>4. Waiting = C \cup S
  <2>1. ASSUME NEW i \in Waiting PROVE i \in C \cup S
    <3>1. PICK n \in DOMAIN batches : fate[n] = "unsent" /\ i \in batches[n] BY <2>1 DEF Waiting
    <3>2. CASE n = m BY <1>1, <3>1, <3>2
    <3>3. CASE n # m
      <4>1. fate'[n] = "unsent" BY <3>1, <3>3
      <4> QED BY <1>1, <3>1, <4>1 DEF Waiting
    <3> QED BY <3>2, <3>3
  <2>2. ASSUME NEW i \in S PROVE i \in Waiting
    <3>1. PICK n \in DOMAIN batches : fate'[n] = "unsent" /\ i \in batches[n]
      BY <1>1, <2>2 DEF Waiting
    <3>2. n # m BY <3>1
    <3> QED BY <3>1, <3>2 DEF Waiting
  <2>3. ASSUME NEW i \in C PROVE i \in Waiting BY <1>1, <2>3 DEF Waiting
  <2> QED BY <2>1, <2>2, <2>3
<1>5. C \cap S = {}
  <2> SUFFICES ASSUME NEW i \in C, i \in S PROVE FALSE OBVIOUS
  <2>1. PICK n \in DOMAIN batches : fate'[n] = "unsent" /\ i \in batches[n] BY <1>1 DEF Waiting
  <2> QED BY <1>3, <2>1
<1>6. S \subseteq nonzero /\ IsFiniteSet(S)
  <2>1. S \subseteq nonzero BY <1>4, WaitingFacts
  <2> QED BY <2>1, NonzeroFacts, FS_Subset
<1>7. \A i \in C \cup S : f[i] \in Nat BY <1>1, <1>2, <1>6, NonzeroFacts
<1>8. SumFunctionOnSet(f, C \cup S) = SumFunctionOnSet(f, C) + SumFunctionOnSet(f, S)
  BY <1>2, <1>5, <1>6, <1>7, SumUnion
<1>9. SumFunctionOnSet(f, C) \in Nat /\ SumFunctionOnSet(f, S) \in Nat
  <2>1. (\A i \in C : f[i] \in Nat) /\ (\A i \in S : f[i] \in Nat) BY <1>7
  <2> QED BY <1>2, <1>6, <2>1, SumNat
<1> QED BY <1>1, <1>4, <1>8, <1>9

(* What the pot can pay is a number. *)
LEMMA PotNat ==
  ASSUME balance \in [Holders -> Nat]
  PROVE  pot \in Nat /\ pot = IF balance[Pot] >= ExistentialDeposit
                              THEN balance[Pot] - ExistentialDeposit ELSE 0
<1>1. Pot \in Holders BY DEF Holders
<1>2. balance[Pot] \in Nat /\ ExistentialDeposit \in Nat BY <1>1, ClaimAssumption
<1> QED BY <1>2 DEF pot

(* The pallet accepts every chunk. *)
LEMMA ChunkAccepted ==
  ASSUME Inv, Fine, Covered, NEW m \in DOMAIN batches, NEW origin, Runs(m, origin),
         NEW list \in encodings(batches[m])
  PROVE  can_dispatch(m, list, origin)
<1>1. InputsOK BY DEF Inv, Typed, InputsOK
<1>2. /\ Distinct /\ Cardinality(nonzero) <= MaxBeneficiaries
      /\ options.claim_msg # EmptyMessage /\ Sender = sudo_key /\ Undisturbed
  BY <1>1, FineFacts
<1>3. /\ fate[m] = "unsent" /\ origin = Sender /\ ~ Early
      /\ \A k \in 1 .. m - 1 : fate[k] # "unsent"
  BY <1>2 DEF Runs, Executed
<1>4. /\ DOMAIN list = Addresses(batches[m])
      /\ \A b \in DOMAIN list :
           \E i \in batches[m] : csv_data[i].address = b /\ list[b] = amounts[i]
      /\ \A b \in DOMAIN list : b \in Beneficiary /\ list[b] \in Nat \ {0}
  BY <1>1, EncodingFacts
<1>5. batches[m] \subseteq nonzero /\ IsFiniteSet(batches[m])
      /\ Cardinality(batches[m]) <= options.batch_size
  BY <1>1, ChunkFacts
<1>6. options.batch_size <= MaxOpBeneficiaries
      /\ total_claimable + SumFunctionOnSet(amounts, Waiting) <= pot
      /\ total_claimable \in Int
  BY <1>3 DEF Covered
<1>7. PICK C : C = batches[m] OBVIOUS
<1>8. IsFiniteSet(DOMAIN list) /\ Cardinality(DOMAIN list) <= Cardinality(C)
      /\ Cardinality(DOMAIN list) \in Nat /\ Cardinality(C) \in Nat
  <2>1. IsFiniteSet(C) BY <1>5, <1>7
  <2> QED BY <1>4, <1>7, <2>1, AddressesFinite
<1>9. options.batch_size \in Int /\ MaxOpBeneficiaries \in Int /\ MaxBeneficiaries \in Nat
  BY <1>1, ScriptsAssumption, ClaimAssumption DEF InputsOK
<1>10. check_max_op_beneficiaries(list)
  BY <1>5, <1>6, <1>7, <1>8, <1>9 DEF check_max_op_beneficiaries
<1>11. DOMAIN list \cap DOMAIN beneficiaries = {}
  <2> SUFFICES ASSUME NEW b \in DOMAIN list, b \in DOMAIN beneficiaries PROVE FALSE OBVIOUS
  <2>1. PICK n \in DOMAIN batches : fate[n] # "unsent" /\ b \in Addresses(batches[n])
    BY DEF Covered, Entry
  <2>2. PICK j \in batches[n] : csv_data[j].address = b BY <2>1 DEF Addresses
  <2>3. PICK i \in batches[m] : csv_data[i].address = b BY <1>4
  <2>4. j \in nonzero /\ i \in nonzero BY <1>1, <1>5, <2>2, <2>3, ChunkFacts
  <2>5. i = j BY <1>2, <2>2, <2>3, <2>4 DEF Distinct
  <2>6. m = n BY <1>1, <2>2, <2>3, <2>5, ChunksApart
  <2> QED BY <1>3, <2>1, <2>6
<1>12. total_claimable + Sum(list) <= pot
  <2>1. Sum(list) = SumFunctionOnSet(amounts, batches[m]) BY <1>1, <1>2, EncodingSum
  <2>2. PICK f, W : f = amounts /\ W = Waiting OBVIOUS
  <2>3. C \subseteq W BY <1>3, <1>7, <2>2 DEF Waiting
  <2>4. IsFiniteSet(W) /\ W \subseteq nonzero /\ SumFunctionOnSet(f, W) \in Nat
    BY <1>1, <2>2, WaitingFacts
  <2>5. \A i \in W : f[i] \in Nat BY <1>1, <2>2, <2>4, NonzeroFacts
  <2>6. SumFunctionOnSet(f, C) <= SumFunctionOnSet(f, W) BY <2>3, <2>4, <2>5, SumSubset
  <2>7. SumFunctionOnSet(f, C) \in Nat
    <3>1. \A i \in C : f[i] \in Nat BY <2>3, <2>5
    <3> QED BY <1>5, <1>7, <3>1, SumNat
  <2>8. pot \in Nat BY PotNat DEF Covered
  <2>9. PICK u, v : u = SumFunctionOnSet(f, C) /\ v = SumFunctionOnSet(f, W) OBVIOUS
  <2>10. u <= v /\ u \in Nat /\ v \in Nat /\ total_claimable + v <= pot
    BY <1>6, <2>2, <2>4, <2>6, <2>7, <2>9
  <2>11. total_claimable + u <= pot BY <1>6, <2>8, <2>10
  <2> QED BY <1>7, <2>1, <2>2, <2>9, <2>11
<1>13. can_add_beneficiaries(list)
  <2>1. \A b \in DOMAIN list : list[b] > 0 BY <1>4
  <2> QED BY <1>11, <1>12, <2>1 DEF can_add_beneficiaries
<1>14. CASE m = 1
  <2>1. beneficiaries = Nobody /\ ~ claim_active BY <1>3, <1>14 DEF Covered
  <2>2. can_begin_claim(list, options.claim_msg) BY <1>2, <1>10, <1>13, <2>1 DEF can_begin_claim
  <2> QED BY <1>2, <1>3, <1>14, <2>2 DEF can_dispatch
<1>15. CASE m # 1
  <2>1. DOMAIN batches = 1 .. Len(batches) /\ Len(batches) \in Nat BY <1>1, BatchFacts DEF InputsOK
  <2>2. 1 \in 1 .. m - 1 BY <1>15, <2>1
  <2>3. claim_active BY <1>3, <2>2 DEF Covered
  <2>4. check_max_beneficiaries(list)
    <3>1. PICK A : A = Addresses(nonzero) OBVIOUS
    <3>2. PICK B, L : B = DOMAIN beneficiaries /\ L = DOMAIN list OBVIOUS
    <3>3. PICK N : N = nonzero OBVIOUS
    <3>4. IsFiniteSet(N) BY <1>1, <3>3, NonzeroFacts
    <3>5. IsFiniteSet(A) /\ Cardinality(A) <= Cardinality(N) /\ Cardinality(A) \in Nat
          /\ Cardinality(N) \in Nat
      BY <3>1, <3>3, <3>4, AddressesFinite
    <3>6. L \subseteq A BY <1>4, <1>5, <3>1, <3>2 DEF Addresses
    <3>7. B \subseteq A
      <4> SUFFICES ASSUME NEW b \in B PROVE b \in A OBVIOUS
      <4>1. PICK n \in DOMAIN batches : b \in Addresses(batches[n])
        BY <3>2 DEF Covered, Entry
      <4>2. batches[n] \subseteq nonzero BY <1>1, ChunkFacts
      <4> QED BY <3>1, <4>1, <4>2 DEF Addresses
    <3>8. IsFiniteSet(B) /\ IsFiniteSet(L) /\ B \cap L = {} /\ B \cup L \subseteq A
      BY <1>11, <3>2, <3>5, <3>6, <3>7, FS_Subset
    <3>9. IsFiniteSet(B \cup L) /\ Cardinality(B \cup L) <= Cardinality(A)
      BY <3>5, <3>8, FS_Subset
    <3>10. Cardinality(B \cup L) = Cardinality(B) + Cardinality(L) - Cardinality(B \cap L)
      BY <3>8, FS_Union
    <3>11. Cardinality(B \cap L) = 0 BY <3>8, FS_EmptySet
    <3>12. Cardinality(B) \in Nat /\ Cardinality(L) \in Nat BY <3>8, FS_CardinalityType
    <3>13. Cardinality(B) + Cardinality(L) <= MaxBeneficiaries
      <4>1. PICK u, v, w, x, y : /\ u = Cardinality(B) /\ v = Cardinality(L)
                                 /\ w = Cardinality(B \cup L) /\ x = Cardinality(A)
                                 /\ y = Cardinality(N)
        OBVIOUS
      <4>2. /\ u \in Nat /\ v \in Nat /\ x \in Nat /\ y \in Nat /\ w = u + v
            /\ w <= x /\ x <= y /\ y <= MaxBeneficiaries
        BY <1>2, <3>3, <3>5, <3>9, <3>10, <3>11, <3>12, <4>1
      <4>3. u + v <= MaxBeneficiaries BY <1>9, <4>2
      <4> QED BY <4>1, <4>3
    <3> QED BY <3>2, <3>13 DEF check_max_beneficiaries
  <2>5. can_extend_claim(list) BY <1>10, <1>13, <2>3, <2>4 DEF can_extend_claim
  <2> QED BY <1>2, <1>3, <1>15, <2>5 DEF can_dispatch
<1> QED BY <1>14, <1>15
-----------------------------------------------------------------------------
(* The step that puts a chunk on the list. *)
LEMMA RunCovered ==
  ASSUME Inv, Fine, Covered, [CampaignNext]_all_vars, NEW m \in DOMAIN batches, NEW origin,
         Runs(m, origin)
  PROVE  Covered'
<1>1. /\ options' = options /\ csv_data' = csv_data /\ batches' = batches
      /\ amounts' = amounts /\ nonzero' = nonzero
  BY InputsStay
<1>2. InputsOK /\ fate \in [DOMAIN batches -> Fates] BY DEF Inv, Typed, InputsOK
<1>3. Distinct /\ Undisturbed BY <1>2, FineFacts
<1>4. fate[m] = "unsent" /\ ~ Early /\ ~ Early' BY DEF Runs
<1>5. PICK list \in encodings(batches[m]) :
        IF can_dispatch(m, list, origin)
        THEN /\ IF m = 1 THEN begin_claim(list, options.claim_msg) ELSE add_beneficiaries(list)
             /\ fate' = [fate EXCEPT ![m] = "listed"]
        ELSE fate' = [fate EXCEPT ![m] = "lost"]
  BY DEF Runs, sudo
<1>6. can_dispatch(m, list, origin) BY ChunkAccepted
<1>7. /\ IF m = 1 THEN begin_claim(list, options.claim_msg) ELSE add_beneficiaries(list)
      /\ fate' = [fate EXCEPT ![m] = "listed"]
  BY <1>5, <1>6
<1>8. /\ do_add_beneficiaries(list) /\ balance' = balance
      /\ m = 1 => claim_active' = TRUE
      /\ m # 1 => claim_active' = claim_active
  BY <1>7 DEF begin_claim, add_beneficiaries
<1>9. fate'[m] = "listed" /\ \A n \in DOMAIN batches : n # m => fate'[n] = fate[n]
  BY <1>2, <1>7
<1>10. DOMAIN batches = 1 .. Len(batches) /\ Len(batches) \in Nat /\ 1 \in DOMAIN batches
  BY <1>2, BatchFacts DEF InputsOK
<1>11. (\A n \in DOMAIN batches : fate[n] # "lost" /\ (Early => fate[n] = "unsent"))'
  BY <1>1, <1>4, <1>9 DEF Covered
<1>12. fate'[1] # "unsent" /\ claim_active'
  <2>1. CASE m = 1 BY <1>8, <1>9, <2>1
  <2>2. CASE m # 1
    <3>1. 1 \in 1 .. m - 1 BY <1>10, <2>2
    <3>2. fate[1] # "unsent" BY <1>3, <3>1 DEF Runs, Executed
    <3>3. claim_active BY <3>2 DEF Covered
    <3> QED BY <1>8, <1>9, <1>10, <2>2, <3>2, <3>3
  <2> QED BY <2>1, <2>2
<1>13. beneficiaries' = [b \in DOMAIN beneficiaries \cup DOMAIN list |->
                           IF b \in DOMAIN list THEN list[b] ELSE beneficiaries[b]]
       /\ total_claimable' = total_claimable + Sum(list)
  BY <1>8 DEF do_add_beneficiaries
<1>14. (\A b \in DOMAIN beneficiaries : Entry(b))'
  <2> SUFFICES ASSUME NEW b \in DOMAIN beneficiaries' PROVE Entry(b)' OBVIOUS
  <2>1. \A n : Addresses(batches[n])' = Addresses(batches[n]) BY <1>1 DEF Addresses
  <2>2. /\ DOMAIN list = Addresses(batches[m])
        /\ \A c \in DOMAIN list : list[c] \in Nat
    BY <1>2, EncodingFacts
  <2>3. CASE b \in DOMAIN list
    <3>1. beneficiaries'[b] \in Nat BY <1>13, <2>2, <2>3
    <3>2. fate'[m] # "unsent" /\ b \in Addresses(batches[m])' BY <1>9, <2>1, <2>2, <2>3
    <3> QED BY <1>1, <3>1, <3>2 DEF Entry
  <2>4. CASE b \notin DOMAIN list
    <3>1. b \in DOMAIN beneficiaries /\ beneficiaries'[b] = beneficiaries[b] BY <1>13, <2>4
    <3>2. Entry(b) BY <3>1 DEF Covered
    <3>3. PICK n \in DOMAIN batches : fate[n] # "unsent" /\ b \in Addresses(batches[n])
      BY <3>2 DEF Entry
    <3>4. fate'[n] # "unsent" BY <1>9, <3>3
    <3>5. beneficiaries'[b] \in Nat BY <3>1, <3>2 DEF Entry
    <3> QED BY <1>1, <2>1, <3>3, <3>4, <3>5 DEF Entry
  <2> QED BY <2>3, <2>4
<1>15. pot' = pot BY <1>8 DEF pot
<1>16. /\ total_claimable' \in Int
       /\ total_claimable' + SumFunctionOnSet(amounts', Waiting') <= pot'
  <2>1. Sum(list) = SumFunctionOnSet(amounts, batches[m]) BY <1>2, <1>3, EncodingSum
  <2>2. /\ SumFunctionOnSet(amounts, Waiting) =
             SumFunctionOnSet(amounts, batches[m]) + SumFunctionOnSet(amounts, Waiting')
        /\ SumFunctionOnSet(amounts, batches[m]) \in Nat
        /\ SumFunctionOnSet(amounts, Waiting') \in Nat
    <3>1. fate'[m] # "unsent" BY <1>9
    <3> QED BY <1>1, <1>2, <1>4, <1>9, <3>1, WaitingLess
  <2>3. PICK u, v, w : /\ u = SumFunctionOnSet(amounts, batches[m])
                       /\ v = SumFunctionOnSet(amounts, Waiting')
                       /\ w = SumFunctionOnSet(amounts, Waiting)
    OBVIOUS
  <2>4. PICK t, p : t = total_claimable /\ p = pot OBVIOUS
  <2>5. t \in Int /\ t + w <= p BY <1>4, <2>3, <2>4 DEF Covered
  <2>6. p \in Nat BY <2>4, PotNat DEF Covered
  <2>7. u \in Nat /\ v \in Nat /\ w = u + v BY <2>2, <2>3
  <2>8. total_claimable' = t + u BY <1>13, <2>1, <2>3, <2>4
  <2>9. t + u \in Int /\ (t + u) + v <= p BY <2>5, <2>6, <2>7
  <2> QED BY <1>1, <1>15, <2>3, <2>4, <2>8, <2>9
<1>17. balance' \in [Holders -> Nat] BY <1>8 DEF Covered
<1>18. options'.batch_size <= MaxOpBeneficiaries BY <1>1, <1>4 DEF Covered
<1> QED BY <1>4, <1>11, <1>12, <1>14, <1>16, <1>17, <1>18 DEF Covered

(* The check before the first extrinsic. *)
LEMMA StartCovered ==
  ASSUME Inv, Covered, [CampaignNext]_all_vars, main_start
  PROVE  Covered'
<1>1. /\ options' = options /\ csv_data' = csv_data /\ batches' = batches
      /\ amounts' = amounts /\ nonzero' = nonzero
  BY InputsStay
<1>2. /\ UNCHANGED <<vars, fate>> /\ script = "start"
      /\ (check_preconditions /\ script' = "send") \/ script' = "refused"
  BY DEF main_start
<1>3. /\ beneficiaries' = beneficiaries /\ claim_active' = claim_active /\ balance' = balance
      /\ total_claimable' = total_claimable /\ fate' = fate
  BY <1>2 DEF vars
<1>4. \A b : Entry(b)' = Entry(b) BY <1>1, <1>3 DEF Entry, Addresses
<1>5. Early /\ total_claimable = 0 /\ \A m \in DOMAIN batches : fate[m] = "unsent"
  BY <1>2 DEF Early, Covered
<1>6. ASSUME ~ Early'
      PROVE  /\ options'.batch_size <= MaxOpBeneficiaries
             /\ total_claimable' + SumFunctionOnSet(amounts', Waiting') <= pot'
  <2>1. check_preconditions BY <1>2, <1>6 DEF Early
  <2>2. options.batch_size <= MaxOpBeneficiaries /\ balance[Pot] >= ExistentialDeposit + total
    BY <2>1 DEF check_preconditions
  <2>3. Waiting' = Waiting /\ pot' = pot BY <1>1, <1>3 DEF Waiting, pot
  <2>4. Waiting = UNION {batches[m] : m \in DOMAIN batches} BY <1>5 DEF Waiting
  <2>5. PICK t : t = SumFunctionOnSet(amounts, Waiting) OBVIOUS
  <2>6. t = total BY <2>4, <2>5 DEF total
  <2>7. t \in Nat BY <2>5, WaitingFacts DEF Inv, Typed, InputsOK
  <2>8. PICK x : x = balance[Pot] OBVIOUS
  <2>9. x \in Nat /\ ExistentialDeposit \in Nat
    <3>1. Pot \in Holders BY DEF Holders
    <3> QED BY <2>8, <3>1, ClaimAssumption DEF Covered
  <2>10. pot = x - ExistentialDeposit /\ t <= x - ExistentialDeposit
    BY <2>2, <2>6, <2>7, <2>8, <2>9 DEF pot
  <2>11. 0 + t <= pot BY <2>7, <2>10
  <2> QED BY <1>1, <1>3, <1>5, <2>2, <2>3, <2>5, <2>11
<1> QED BY <1>1, <1>3, <1>4, <1>5, <1>6 DEF Covered

(* A beneficiary is paid what is on the list for it. *)
LEMMA PayCovered ==
  ASSUME Inv, Covered, [CampaignNext]_all_vars, NEW b \in Beneficiary, payout(b)
  PROVE  Covered'
<1>1. /\ options' = options /\ csv_data' = csv_data /\ batches' = batches
      /\ amounts' = amounts /\ nonzero' = nonzero
  BY InputsStay
<1>2. InputsOK BY DEF Inv, Typed, InputsOK
<1>3. script' = script /\ fate' = fate /\ claim_for(b) BY DEF payout, cvars
<1>4. PICK n : n = beneficiaries[b] OBVIOUS
<1>5. /\ claim_active /\ b \in Accounts /\ b \in DOMAIN beneficiaries
      /\ can_transfer(b, n)
      /\ beneficiaries' = [c \in DOMAIN beneficiaries \ {b} |-> beneficiaries[c]]
      /\ balance' = [balance EXCEPT ![Pot] = @ - n, ![b] = @ + n]
      /\ total_claimable' = total_claimable - n
      /\ claim_active' = claim_active
  BY <1>3, <1>4 DEF claim_for, process_and_do_claim, transfer
<1>6. n \in Nat BY <1>4, <1>5 DEF Covered, Entry
<1>7. balance \in [Holders -> Nat] /\ total_claimable \in Int BY DEF Covered
<1>8. Pot \in Holders /\ b \in Holders /\ b # Pot BY <1>5, ClaimAssumption DEF Holders
<1>9. n <= pot BY <1>5 DEF can_transfer
<1>10. PICK x, y, e : x = balance[Pot] /\ y = balance[b] /\ e = ExistentialDeposit OBVIOUS
<1>11. x \in Nat /\ y \in Nat /\ e \in Nat BY <1>7, <1>8, <1>10, ClaimAssumption
<1>12. balance'[Pot] = x - n /\ balance'[b] = y + n
       /\ balance' = [[balance EXCEPT ![Pot] = x - n] EXCEPT ![b] = y + n]
  BY <1>5, <1>7, <1>8, <1>10
<1>13. pot = IF x >= e THEN x - e ELSE 0 BY <1>10 DEF pot
<1>14. x - n \in Nat /\ y + n \in Nat BY <1>6, <1>9, <1>11, <1>13
<1>15. balance' \in [Holders -> Nat] BY <1>7, <1>12, <1>14
<1>16. pot' = IF x - n >= e THEN x - n - e ELSE 0 BY <1>10, <1>12 DEF pot
<1>17. fate[1] # "unsent" BY <1>5 DEF Covered
<1>18. ~ Early
  <2>1. 1 \in DOMAIN batches BY <1>2, BatchFacts DEF InputsOK
  <2> QED BY <1>17, <2>1 DEF Covered
<1>19. ~ Early' /\ Waiting' = Waiting BY <1>1, <1>3, <1>18 DEF Early, Waiting
<1>20. /\ total_claimable' \in Int
       /\ total_claimable' + SumFunctionOnSet(amounts', Waiting') <= pot'
  <2>1. PICK t, w : t = total_claimable /\ w = SumFunctionOnSet(amounts, Waiting) OBVIOUS
  <2>2. t \in Int /\ w \in Nat BY <1>2, <1>7, <2>1, WaitingFacts
  <2>3. t + w <= pot BY <1>18, <2>1 DEF Covered
  <2>4. t - n \in Int /\ (t - n) + w <= pot'
    BY <1>6, <1>9, <1>11, <1>13, <1>16, <2>2, <2>3
  <2> QED BY <1>1, <1>5, <1>19, <2>1, <2>4
<1>21. (\A c \in DOMAIN beneficiaries : Entry(c))'
  <2> SUFFICES ASSUME NEW c \in DOMAIN beneficiaries' PROVE Entry(c)' OBVIOUS
  <2>1. c \in DOMAIN beneficiaries /\ beneficiaries'[c] = beneficiaries[c] BY <1>5
  <2>2. Entry(c) BY <2>1 DEF Covered
  <2> QED BY <1>1, <1>3, <2>1, <2>2 DEF Entry, Addresses
<1>22. \A m \in DOMAIN batches : fate'[m] # "lost" BY <1>3 DEF Covered
<1>23. options'.batch_size <= MaxOpBeneficiaries BY <1>1, <1>18 DEF Covered
<1> QED BY <1>1, <1>3, <1>5, <1>15, <1>17, <1>19, <1>20, <1>21, <1>22, <1>23 DEF Covered

(* Covered holds in all states in which nothing was disturbed. *)
LEMMA CoveredInvariance == CampaignSpec => [](Fine => Covered)
<1>1. CampaignInit => (Fine => Covered)
  <2> SUFFICES ASSUME CampaignInit, Fine PROVE Covered OBVIOUS
  <2>1. /\ script = "start" /\ fate = [m \in DOMAIN batches |-> "unsent"]
        /\ claim_active = FALSE /\ balance = Funds /\ total_claimable = 0
    BY DEF CampaignInit
  <2>2. disturbed = IF beneficiaries = Nobody THEN {} ELSE {"leftovers"} BY DEF CampaignInit
  <2>3. beneficiaries = Nobody BY <2>2 DEF Fine
  <2>4. DOMAIN beneficiaries = {} BY <2>3 DEF Nobody
  <2>5. 1 \in DOMAIN batches
    <3>1. options \in CommandLines /\ parse_args(options) /\ csv_data \in CsvFiles
      BY DEF CampaignInit
    <3> QED BY <3>1, BatchFacts
  <2> QED BY <2>1, <2>3, <2>4, <2>5, ClaimAssumption DEF Covered, Early
<1>2. Inv /\ (Fine => Covered) /\ [CampaignNext]_all_vars => (Fine => Covered)'
  <2> SUFFICES ASSUME Inv, Fine => Covered, [CampaignNext]_all_vars, Fine' PROVE Covered'
    OBVIOUS
  <2>1. /\ options' = options /\ csv_data' = csv_data /\ batches' = batches
        /\ amounts' = amounts /\ nonzero' = nonzero /\ sudo_key' = sudo_key
    BY InputsStay
  <2>2. Fine
    <3>1. disturbed \subseteq disturbed' BY DisturbedGrows
    <3>2. Unchecked => Unchecked' BY <2>1 DEF Unchecked, Sender, multi
    <3> QED BY <3>1, <3>2 DEF Fine
  <2>3. Covered BY <2>2
  <2>4. CASE Rests
    <3>1. /\ beneficiaries' = beneficiaries /\ claim_active' = claim_active
          /\ balance' = balance /\ total_claimable' = total_claimable /\ fate' = fate
          /\ Early' <=> Early
      BY <2>4 DEF Rests, vars
    <3>2. \A b : Entry(b)' <=> Entry(b) BY <2>1, <3>1 DEF Entry, Addresses
    <3>3. Waiting' = Waiting /\ pot' = pot BY <2>1, <3>1 DEF Waiting, pot
    <3> QED BY <2>1, <2>3, <3>1, <3>2, <3>3 DEF Covered
  <2>5. CASE main_start BY <2>3, <2>5, StartCovered
  <2>6. ASSUME NEW m \in DOMAIN batches, NEW origin, Runs(m, origin) PROVE Covered'
    BY <2>2, <2>3, <2>6, RunCovered
  <2>7. ASSUME NEW b \in Beneficiary, payout(b) PROVE Covered' BY <2>3, <2>7, PayCovered
  <2>8. "manager" \notin disturbed' BY DEF Fine
  <2> QED BY <2>4, <2>5, <2>6, <2>7, <2>8, StepKinds
<1> QED BY <1>1, <1>2, InvInvariance, PTL DEF CampaignSpec

(***************************************************************************)
(* Once check_preconditions has passed, every chunk that is executed is    *)
(* put on the list, for any file, funds, payouts and signatories.          *)
(***************************************************************************)
THEOREM ChunksNeverLost == CampaignSpec => []NoChunkLost
<1>1. (Fine => Covered) => NoChunkLost BY DEF Fine, Covered, NoChunkLost
<1> QED BY <1>1, CoveredInvariance, PTL

(***************************************************************************)
(* The pallet is never told to grant more than the file says, whatever is  *)
(* sent again and by whom, and all of it when all chunks were executed.    *)
(***************************************************************************)
THEOREM AlwaysGrantedAsWritten == CampaignSpec => []GrantedAsWritten
<1>1. Inv /\ Grants /\ (Fine => Covered) => GrantedAsWritten
  <2> SUFFICES ASSUME Inv, Grants, Fine => Covered PROVE GrantedAsWritten OBVIOUS
  <2>1. InputsOK /\ fate \in [DOMAIN batches -> Fates] BY DEF Inv, Typed, InputsOK
  <2>2. ASSUME ~ TooPrecise, NEW b \in Beneficiary PROVE granted[b] <= Written(b)
    <3>1. PICK f, S, w : f = amounts /\ S = Listed(b) /\ w = Written(b) OBVIOUS
    <3>2. granted[b] \in Nat /\ granted[b] <= SumFunctionOnSet(f, S) BY <3>1 DEF Grants
    <3>3. SumFunctionOnSet(f, S) <= w BY <2>1, <2>2, <3>1, ListedIsWritten
    <3>4. SumFunctionOnSet(f, S) \in Nat
      <4>1. IsFiniteSet(S) /\ \A i \in S : f[i] \in Nat BY <2>1, <3>1, ListedFacts
      <4> QED BY <4>1, SumNat
    <3>5. w \in Int BY <2>1, <2>2, <3>1, ListedIsWritten
    <3> QED BY <3>1, <3>2, <3>3, <3>4, <3>5
  <2>3. ASSUME Fine, ~ TooPrecise, \A m \in DOMAIN batches : Executed(m), NEW b \in Beneficiary
        PROVE  granted[b] = Written(b)
    <3>1. Covered /\ Distinct BY <2>1, <2>3, FineFacts
    <3>2. \A m \in DOMAIN batches : fate[m] = "listed"
      BY <2>1, <2>3, <3>1 DEF Covered, Executed, Fates
    <3>3. SumFunctionOnSet(amounts, Listed(b)) = Written(b) BY <2>1, <2>3, <3>2, ListedIsWritten
    <3> QED BY <3>1, <3>3 DEF Grants
  <2> QED BY <2>2, <2>3 DEF GrantedAsWritten, Fine
<1> QED BY <1>1, InvInvariance, GrantsInvariance, CoveredInvariance, PTL
=============================================================================
