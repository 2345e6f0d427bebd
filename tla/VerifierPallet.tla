--------------------------- MODULE VerifierPallet ---------------------------
(***************************************************************************)
(* pallet_verifiers (src/pallets/verifiers), with the storage migrations   *)
(* of two of its instances.  Each verifier (groth16, risc0, tee, ...) is   *)
(* an instance with storage of its own; the deposits of all of them are    *)
(* held on the same accounts for the same reason.                          *)
(*                                                                         *)
(* A key is a record of its format and its bytes, which parse.  The hash   *)
(* of a key is modelled by what it covers, with no collisions.  What a     *)
(* verifier makes of a proof is external: the proof is sound or not.       *)
(***************************************************************************)
EXTENDS Balances, FiniteSets, FiniteSetsExt

CONSTANTS
  Verifiers,               \* instances of the pallet
  Ultrahonk, Tee,          \* the two instances with a migration
  KeyBytes,                \* contents of verification keys
  NoBytes,                 \* the contents of a key that has none
  Pubs,                    \* public inputs
  RefCountMax,             \* u64::MAX
  VkBaseDeposit, VkByteDeposit,
  Funds                    \* initial free balance of each account

ASSUME VerifierAssumption ==
  /\ Ultrahonk # Tee
  /\ IsFiniteSet(Verifiers) /\ IsFiniteSet(Accounts)
  /\ RefCountMax \in Nat \ {0}
  /\ VkBaseDeposit \in Nat /\ VkByteDeposit \in Nat
  /\ Funds \in [Accounts -> Nat]

VARIABLES
  storage_version, \* verifier -> version of its storage
  disabled,        \* Disabled: verifier -> is it disabled
  vks,             \* Vks: verifier -> (hash -> [vk, ref_count])
  tickets,         \* Tickets: verifier -> (<<account, hash>> -> amount on hold)
  trusted,         \* external: key contents that the tee verifier trusts now,
                   \* given the time and the revocation lists
  submission,      \* the latest submit_proof and how it ended
  ledger           \* balances, see module Balances

vars == <<storage_version, disabled, vks, tickets, trusted, submission, ledger>>

Formats == {"Plain", "Legacy", "V0_84", "V3_0", "Intel", "Nitro"}

Key == [format : Formats, bytes : KeyBytes \cup {NoBytes}]

(* The Vk type of a verifier under each version of its storage. *)
KeysAt(v, version) ==
  IF version = 1 THEN [format : {"Plain"}, bytes : KeyBytes]
  ELSE IF v = Ultrahonk THEN [format : {"Legacy", "V0_84", "V3_0"}, bytes : KeyBytes]
  ELSE [format : {"Intel"}, bytes : KeyBytes] \cup {[format |-> "Nitro", bytes |-> NoBytes]}

KeysOf(v) == KeysAt(v, storage_version[v])

(* Legacy keys are hashed like the keys of the storage before versions:    *)
(* their bytes only.  The hash of the others covers the format too.        *)
vk_hash(k) == IF k.format = "Legacy" THEN [k EXCEPT !.format = "Plain"] ELSE k

(* The tee verifier checks the certificates of a key each time. *)
validate_vk(v, k) ==
  /\ k.format # "Nitro"
  /\ v = Tee => k.bytes \in trusted

(* A proof carries a format, which has to match that of the key. *)
verify_proof(k, proof) == proof.sound /\ proof.format = k.format

(* The version hash in the statement, from the proof. *)
verifier_version_hash(format) ==
  IF format \in {"V0_84", "V3_0"} THEN format ELSE "NO_VERSION_HASH"

compute_statement_hash(v, h, proof, pubs) ==
  [ctx |-> v, vk |-> h, version |-> verifier_version_hash(proof.format), pubs |-> pubs]

(* The price of the encoded key: a key in an enum has one more byte. *)
vk_deposit(k) ==
  VkBaseDeposit + VkByteDeposit * (IF k.format = "Plain" THEN 1 ELSE 2)
-----------------------------------------------------------------------------
NoEntries == [x \in {} |-> x]

Init ==
  /\ storage_version = [v \in Verifiers |-> 1]
  /\ disabled = [v \in Verifiers |-> FALSE]
  /\ vks = [v \in Verifiers |-> NoEntries]
  /\ tickets = [v \in Verifiers |-> NoEntries]
  /\ trusted = KeyBytes
  /\ submission = [accepted |-> FALSE]
  /\ ledger = [free   |-> Funds,
               held   |-> [a \in Accounts |-> [r \in HoldReason |-> 0]],
               frozen |-> [a \in Accounts |-> 0]]

Put(f, x, y) == [i \in DOMAIN f \cup {x} |-> IF i = x THEN y ELSE f[i]]

Drop(f, x) == [i \in DOMAIN f \ {x} |-> f[i]]

(* Faulty variant: a new registration starts the count again. *)
add_fresh_reference(v, k) == [vk |-> k, ref_count |-> 1]

(* The entry of a key after one more account registered it. *)
add_reference(v, k) ==
  LET h == vk_hash(k)
  IN  IF h \in DOMAIN vks[v]
      THEN [vks[v][h] EXCEPT !.ref_count = @ + 1]
      ELSE [vk |-> k, ref_count |-> 1]

register_vk(v, a, k) ==
  LET h == vk_hash(k)
  IN  /\ ~ disabled[v]
      /\ <<a, h>> \notin DOMAIN tickets[v]
      /\ validate_vk(v, k)
      /\ CanHold(ledger, a, vk_deposit(k))
      /\ h \in DOMAIN vks[v] => vks[v][h].ref_count < RefCountMax
      /\ ledger' = Hold(ledger, "VkRegistration", a, vk_deposit(k))
      /\ tickets' = [tickets EXCEPT ![v] = Put(@, <<a, h>>, vk_deposit(k))]
      /\ vks' = [vks EXCEPT ![v] = Put(@, h, add_reference(v, k))]
      /\ UNCHANGED <<storage_version, disabled, trusted, submission>>

(* The stored keys after one account unregistered key h. *)
drop_reference(s, h) ==
  IF s[h].ref_count <= 1 THEN Drop(s, h) ELSE [s EXCEPT ![h].ref_count = @ - 1]

(* Faulty variant: the deposit is computed again from the stored key. *)
unregister_at_new_price(v, a, h) ==
  /\ <<a, h>> \in DOMAIN tickets[v]
  /\ ledger' = Release(ledger, "VkRegistration", a, vk_deposit(vks[v][h].vk))
  /\ tickets' = [tickets EXCEPT ![v] = Drop(@, <<a, h>>)]
  /\ vks' = [vks EXCEPT ![v] = drop_reference(@, h)]
  /\ UNCHANGED <<storage_version, disabled, trusted, submission>>

(* The key goes with its last ticket.  A ticket without its key would      *)
(* reach unreachable!(), and here an evaluation error.                     *)
unregister_vk(v, a, h) ==
  /\ <<a, h>> \in DOMAIN tickets[v]
  /\ ledger' = Release(ledger, "VkRegistration", a, tickets[v][<<a, h>>])
  /\ tickets' = [tickets EXCEPT ![v] = Drop(@, <<a, h>>)]
  /\ vks' = [vks EXCEPT ![v] = drop_reference(@, h)]
  /\ UNCHANGED <<storage_version, disabled, trusted, submission>>

disable(v, value) ==
  /\ disabled' = [disabled EXCEPT ![v] = value]
  /\ UNCHANGED <<storage_version, vks, tickets, trusted, submission, ledger>>

(***************************************************************************)
(* submit_proof with the key in full or by its hash.  A key named by its   *)
(* hash is not validated again.  What OnProofVerified does with the        *)
(* statement is in module Aggregate.                                       *)
(***************************************************************************)
submit_proof(v, given, k, proof, pubs) ==
  LET h      == vk_hash(k)
      stored == given = "Hash" /\ h \in DOMAIN vks[v]
      usable == stored \/ (given = "Vk" /\ validate_vk(v, k))
      used   == IF stored THEN vks[v][h].vk ELSE k
  IN  /\ submission' =
           [accepted  |-> ~ disabled[v] /\ usable /\ verify_proof(used, proof),
            given     |-> given, vk |-> used, proof |-> proof, enabled |-> ~ disabled[v],
            statement |-> compute_statement_hash(v, h, proof, pubs)]
      /\ UNCHANGED <<storage_version, disabled, vks, tickets, trusted, ledger>>

(***************************************************************************)
(* The migrations, each run once by the runtime upgrade that changes the   *)
(* key type.  Ultrahonk keeps keys, hashes and tickets; tee drops all of   *)
(* its keys and gives the deposits back.                                   *)
(***************************************************************************)
InFormat(entry, format) == [entry EXCEPT !.vk.format = format]

(* Faulty variant: the old keys become keys of the first version. *)
migrate_to_first_version(v) ==
  /\ v = Ultrahonk
  /\ storage_version[v] = 1
  /\ storage_version' = [storage_version EXCEPT ![v] = 2]
  /\ vks' = [vks EXCEPT ![v] = [h \in DOMAIN @ |-> InFormat(@[h], "V0_84")]]
  /\ UNCHANGED <<disabled, tickets, trusted, submission, ledger>>

migrate_ultrahonk(v) ==
  /\ v = Ultrahonk
  /\ storage_version[v] = 1
  /\ storage_version' = [storage_version EXCEPT ![v] = 2]
  /\ vks' = [vks EXCEPT ![v] = [h \in DOMAIN @ |-> InFormat(@[h], "Legacy")]]
  /\ UNCHANGED <<disabled, tickets, trusted, submission, ledger>>

TicketsOf(v, a) == {t \in DOMAIN tickets[v] : t[1] = a}

Deposited(v, a) == SumFunctionOnSet(tickets[v], TicketsOf(v, a))

(* Faulty variant: the keys stay, in the encoding of the old type. *)
migrate_version_only(v) ==
  /\ v = Tee
  /\ storage_version[v] = 1
  /\ storage_version' = [storage_version EXCEPT ![v] = 2]
  /\ UNCHANGED <<disabled, vks, tickets, trusted, submission, ledger>>

migrate_tee(v) ==
  /\ v = Tee
  /\ storage_version[v] = 1
  /\ storage_version' = [storage_version EXCEPT ![v] = 2]
  /\ vks' = [vks EXCEPT ![v] = NoEntries]
  /\ tickets' = [tickets EXCEPT ![v] = NoEntries]
  /\ ledger' = ReleaseEach(ledger, "VkRegistration", [a \in Accounts |-> Deposited(v, a)])
  /\ UNCHANGED <<disabled, trusted, submission>>

(* Time passes, revocation lists change: see pallet_crl. *)
trust_changes(bytes) ==
  /\ trusted' = bytes
  /\ UNCHANGED <<storage_version, disabled, vks, tickets, submission, ledger>>

Next ==
  \/ \E v \in Verifiers :
       \/ \E a \in Accounts, k \in KeysOf(v) : register_vk(v, a, k)
       \/ \E t \in DOMAIN tickets[v] : unregister_vk(v, t[1], t[2])
       \/ \E b \in BOOLEAN : disable(v, b)
       \/ \E given \in {"Hash", "Vk"}, k \in KeysOf(v), pubs \in Pubs,
             proof \in [format : {l.format : l \in KeysOf(v)}, sound : BOOLEAN] :
            submit_proof(v, given, k, proof, pubs)
       \/ migrate_ultrahonk(v)
       \/ migrate_tee(v)
  \/ \E bytes \in SUBSET KeyBytes : trust_changes(bytes)

Spec == Init /\ [][Next]_vars
-----------------------------------------------------------------------------
(***************************************************************************)
(* Properties.                                                             *)
(***************************************************************************)
VkEntry == [vk : Key, ref_count : Nat]

(* The storage items of every instance have their declared types, and a    *)
(* stored key has the format of the storage version it is stored under.    *)
TypeOK ==
  /\ storage_version \in [Verifiers -> {1, 2}]
  /\ disabled \in [Verifiers -> BOOLEAN]
  /\ DOMAIN vks = Verifiers /\ DOMAIN tickets = Verifiers
  /\ trusted \subseteq KeyBytes
  /\ \A v \in Verifiers :
       /\ vks[v] = [h \in DOMAIN vks[v] |-> vks[v][h]]
       /\ DOMAIN vks[v] \subseteq Key
       /\ \A h \in DOMAIN vks[v] :
            vks[v][h] \in VkEntry /\ vks[v][h].vk \in KeysOf(v)
       /\ tickets[v] = [t \in DOMAIN tickets[v] |-> tickets[v][t]]
       /\ DOMAIN tickets[v] \subseteq Accounts \X Key
       /\ \A t \in DOMAIN tickets[v] : tickets[v][t] \in Nat

(***************************************************************************)
(* A key is stored exactly while some account has a ticket for it, and its *)
(* reference count is the number of these accounts: nobody loses a key it  *)
(* pays for because another account unregisters it, unregister_vk never    *)
(* reaches unreachable!(), and saturating_sub never hides an underflow.    *)
(***************************************************************************)
Holders(v, h) == {a \in Accounts : <<a, h>> \in DOMAIN tickets[v]}

RefCountsExact ==
  \A v \in Verifiers :
    /\ \A t \in DOMAIN tickets[v] : t[2] \in DOMAIN vks[v]
    /\ \A h \in DOMAIN vks[v] :
         /\ vks[v][h].ref_count = Cardinality(Holders(v, h))
         /\ vks[v][h].ref_count \in 1 .. RefCountMax

(***************************************************************************)
(* What an account has on hold for keys is what its tickets say, over all  *)
(* verifiers, also for tickets bought before a migration changed the size  *)
(* of the key.                                                             *)
(***************************************************************************)
VkDepositsExact ==
  \A a \in Accounts :
    ledger.held[a]["VkRegistration"] =
      SumFunctionOnSet([v \in Verifiers |-> Deposited(v, a)], Verifiers)

(***************************************************************************)
(* A statement names the key its proof was verified with: naming the key   *)
(* by its hash or giving it in full makes no difference, before and after  *)
(* the keys are migrated.                                                  *)
(***************************************************************************)
KeysUnderTheirHash ==
  \A v \in Verifiers : \A h \in DOMAIN vks[v] : vk_hash(vks[v][h].vk) = h

StatementNamesKey ==
  submission.accepted =>
    /\ submission.statement.vk = vk_hash(submission.vk)
    /\ submission.statement.version = verifier_version_hash(submission.vk.format)
=============================================================================
