--------------------------- MODULE VerifierProofs ---------------------------
(***************************************************************************)
(* Theorems about the verifiers pallet, for any number of verifiers,       *)
(* accounts and keys.  The argument is about the storage of one verifier   *)
(* at a time: its keys s and its tickets tk.                               *)
(***************************************************************************)
EXTENDS VerifierPallet, SumTheorems

HoldersIn(tk, h) == {a \in Accounts : <<a, h>> \in DOMAIN tk}

StoreTyped(v, version, s, tk) ==
  /\ s = [h \in DOMAIN s |-> s[h]]
  /\ DOMAIN s \subseteq Key
  /\ \A h \in DOMAIN s : s[h] \in VkEntry /\ s[h].vk \in KeysAt(v, version)
  /\ tk = [t \in DOMAIN tk |-> tk[t]]
  /\ DOMAIN tk \subseteq Accounts \X Key
  /\ \A t \in DOMAIN tk : tk[t] \in Nat

StoreCounted(s, tk) ==
  /\ \A t \in DOMAIN tk : t[2] \in DOMAIN s
  /\ \A h \in DOMAIN s :
       /\ s[h].ref_count = Cardinality(HoldersIn(tk, h))
       /\ s[h].ref_count \in 1 .. RefCountMax

StoreHashed(s) == \A h \in DOMAIN s : vk_hash(s[h].vk) = h

StoreOK(v, version, s, tk) ==
  StoreTyped(v, version, s, tk) /\ StoreCounted(s, tk) /\ StoreHashed(s)

(***************************************************************************)
(* The inductive invariant: every store is in order, and the latest        *)
(* accepted statement names its key.                                       *)
(***************************************************************************)
Typed ==
  /\ storage_version \in [Verifiers -> {1, 2}]
  /\ disabled \in [Verifiers -> BOOLEAN]
  /\ DOMAIN vks = Verifiers /\ DOMAIN tickets = Verifiers
  /\ trusted \subseteq KeyBytes

IInv ==
  /\ Typed
  /\ \A v \in Verifiers : StoreOK(v, storage_version[v], vks[v], tickets[v])
  /\ StatementNamesKey

LEMMA KeysAreTyped ==
  ASSUME NEW v, NEW version, NEW k \in KeysAt(v, version)
  PROVE  k \in Key /\ vk_hash(k) \in Key
  BY DEF KeysAt, Key, Formats, vk_hash

LEMMA HoldersFinite ==
  ASSUME NEW tk, NEW h
  PROVE  IsFiniteSet(HoldersIn(tk, h)) /\ Cardinality(HoldersIn(tk, h)) \in Nat
  BY FS_Subset, FS_CardinalityType, VerifierAssumption DEF HoldersIn

(***************************************************************************)
(* register_vk: the count of the key grows with the set of its holders.    *)
(***************************************************************************)
LEMMA RegisterKeepsStore ==
  ASSUME NEW v, NEW version, NEW s, NEW tk, StoreOK(v, version, s, tk),
         NEW a \in Accounts, NEW k \in KeysAt(v, version), NEW n \in Nat,
         <<a, vk_hash(k)>> \notin DOMAIN tk,
         vk_hash(k) \in DOMAIN s => s[vk_hash(k)].ref_count < RefCountMax,
         NEW e,
         e = IF vk_hash(k) \in DOMAIN s
             THEN [s[vk_hash(k)] EXCEPT !.ref_count = @ + 1]
             ELSE [vk |-> k, ref_count |-> 1]
  PROVE  StoreOK(v, version, Put(s, vk_hash(k), e), Put(tk, <<a, vk_hash(k)>>, n))
  <1> DEFINE h == vk_hash(k)
             s2 == Put(s, h, e)
             tk2 == Put(tk, <<a, h>>, n)
  <1>1. k \in Key /\ h \in Key
    BY KeysAreTyped
  <1>2. /\ DOMAIN s2 = DOMAIN s \cup {h}
        /\ s2[h] = e
        /\ \A g \in DOMAIN s : g # h => s2[g] = s[g]
        /\ DOMAIN tk2 = DOMAIN tk \cup {<<a, h>>}
    BY DEF Put
  <1>3. \A g : g # h => HoldersIn(tk2, g) = HoldersIn(tk, g)
    BY <1>2 DEF HoldersIn
  <1>4. HoldersIn(tk2, h) = HoldersIn(tk, h) \cup {a} /\ a \notin HoldersIn(tk, h)
    BY <1>2 DEF HoldersIn
  <1>5. Cardinality(HoldersIn(tk2, h)) = Cardinality(HoldersIn(tk, h)) + 1
    <2>1. IsFiniteSet(HoldersIn(tk, h))
      BY HoldersFinite
    <2> QED
      BY <1>4, <2>1, FS_AddElement
  <1>6. /\ e \in VkEntry
        /\ e.vk \in KeysAt(v, version)
        /\ vk_hash(e.vk) = h
        /\ e.ref_count = Cardinality(HoldersIn(tk2, h))
        /\ e.ref_count \in 1 .. RefCountMax
    <2>1. CASE h \in DOMAIN s
      <3>1. /\ s[h] \in VkEntry /\ s[h].vk \in KeysAt(v, version)
            /\ vk_hash(s[h].vk) = h
            /\ s[h].ref_count = Cardinality(HoldersIn(tk, h))
            /\ s[h].ref_count \in 1 .. RefCountMax
        BY <2>1 DEF StoreOK, StoreTyped, StoreCounted, StoreHashed
      <3>2. /\ e = [s[h] EXCEPT !.ref_count = @ + 1]
            /\ s[h].ref_count < RefCountMax
        BY <2>1
      <3>3. e.vk = s[h].vk /\ e.ref_count = s[h].ref_count + 1 /\ e \in VkEntry
        BY <3>1, <3>2 DEF VkEntry
      <3> QED
        BY <3>1, <3>2, <3>3, <1>5, VerifierAssumption
    <2>2. CASE h \notin DOMAIN s
      <3>1. HoldersIn(tk, h) = {}
        BY <2>2 DEF HoldersIn, StoreOK, StoreCounted
      <3>2. Cardinality(HoldersIn(tk, h)) = 0
        BY <3>1, FS_EmptySet
      <3>3. e = [vk |-> k, ref_count |-> 1]
        BY <2>2
      <3> QED
        BY <3>2, <3>3, <1>1, <1>5, VerifierAssumption DEF VkEntry
    <2> QED
      BY <2>1, <2>2
  <1> HIDE DEF h
  <1>7. StoreTyped(v, version, s2, tk2)
    <2>1. s2 = [g \in DOMAIN s2 |-> s2[g]] /\ tk2 = [t \in DOMAIN tk2 |-> tk2[t]]
      BY DEF Put
    <2>2. \A t \in DOMAIN tk2 : tk2[t] \in Nat
      BY DEF Put, StoreOK, StoreTyped
    <2> HIDE DEF s2, tk2
    <2>3. DOMAIN s2 \subseteq Key /\ DOMAIN tk2 \subseteq Accounts \X Key
      BY <1>1, <1>2 DEF StoreOK, StoreTyped
    <2>4. \A g \in DOMAIN s2 : s2[g] \in VkEntry /\ s2[g].vk \in KeysAt(v, version)
      BY <1>2, <1>6 DEF StoreOK, StoreTyped
    <2> QED
      BY <2>1, <2>2, <2>3, <2>4 DEF StoreTyped
  <1>8. StoreCounted(s2, tk2)
    <2>1. \A t \in DOMAIN tk2 : t[2] \in DOMAIN s2
      BY <1>2 DEF StoreOK, StoreCounted
    <2> HIDE DEF s2, tk2
    <2> QED
      BY <1>2, <1>3, <1>6, <2>1 DEF StoreOK, StoreCounted
  <1>9. StoreHashed(s2)
    BY <1>2, <1>6 DEF StoreOK, StoreHashed
  <1> QED
    BY <1>7, <1>8, <1>9 DEF StoreOK, h

(***************************************************************************)
(* unregister_vk: the key goes when, and only when, its last holder goes.  *)
(***************************************************************************)
LEMMA UnregisterKeepsStore ==
  ASSUME NEW v, NEW version, NEW s, NEW tk, StoreOK(v, version, s, tk),
         NEW a, NEW h, <<a, h>> \in DOMAIN tk
  PROVE  StoreOK(v, version, drop_reference(s, h), Drop(tk, <<a, h>>))
  <1> DEFINE s2 == drop_reference(s, h)
             tk2 == Drop(tk, <<a, h>>)
  <1>1. /\ h \in DOMAIN s /\ a \in Accounts
        /\ s[h] \in VkEntry /\ s[h].vk \in KeysAt(v, version)
        /\ s[h].ref_count = Cardinality(HoldersIn(tk, h))
        /\ s[h].ref_count \in 1 .. RefCountMax
        /\ vk_hash(s[h].vk) = h
    <2>1. h \in DOMAIN s /\ a \in Accounts
      BY DEF StoreOK, StoreTyped, StoreCounted
    <2> QED
      BY <2>1 DEF StoreOK, StoreTyped, StoreCounted, StoreHashed
  <1>2. /\ DOMAIN tk2 = DOMAIN tk \ {<<a, h>>}
        /\ tk2 = [t \in DOMAIN tk2 |-> tk2[t]]
        /\ \A t \in DOMAIN tk2 : tk2[t] = tk[t]
    BY DEF Drop
  <1>3. \A g : g # h => HoldersIn(tk2, g) = HoldersIn(tk, g)
    BY <1>2 DEF HoldersIn
  <1>4. HoldersIn(tk2, h) = HoldersIn(tk, h) \ {a} /\ a \in HoldersIn(tk, h)
    BY <1>1, <1>2 DEF HoldersIn
  <1>5. /\ Cardinality(HoldersIn(tk2, h)) = Cardinality(HoldersIn(tk, h)) - 1
        /\ Cardinality(HoldersIn(tk2, h)) \in Nat
    <2>1. IsFiniteSet(HoldersIn(tk, h))
      BY HoldersFinite
    <2>2. Cardinality(HoldersIn(tk2, h)) \in Nat
      BY HoldersFinite
    <2> QED
      BY <1>4, <2>1, <2>2, FS_RemoveElement
  <1>6. CASE s[h].ref_count <= 1
    <2>1. s2 = Drop(s, h)
      BY <1>6 DEF drop_reference
    <2>2. /\ DOMAIN s2 = DOMAIN s \ {h}
          /\ s2 = [g \in DOMAIN s2 |-> s2[g]]
          /\ \A g \in DOMAIN s2 : s2[g] = s[g]
      BY <2>1 DEF Drop
    <2>3. HoldersIn(tk2, h) = {}
      <3>1. Cardinality(HoldersIn(tk2, h)) = 0
        BY <1>1, <1>5, <1>6, VerifierAssumption
      <3>2. IsFiniteSet(HoldersIn(tk2, h))
        BY HoldersFinite
      <3> QED
        BY <3>1, <3>2, FS_EmptySet
    <2>4. \A t \in DOMAIN tk2 : t[2] # h
      BY <1>2, <2>3 DEF HoldersIn, StoreOK, StoreTyped
    <2> HIDE DEF s2, tk2
    <2>5. StoreTyped(v, version, s2, tk2)
      BY <1>2, <2>2 DEF StoreOK, StoreTyped
    <2>6. StoreCounted(s2, tk2)
      BY <1>2, <1>3, <2>2, <2>4 DEF StoreOK, StoreCounted
    <2>7. StoreHashed(s2)
      BY <2>2 DEF StoreOK, StoreHashed
    <2> QED
      BY <2>5, <2>6, <2>7 DEF StoreOK, s2, tk2
  <1>7. CASE ~ (s[h].ref_count <= 1)
    <2>1. s2 = [s EXCEPT ![h].ref_count = @ - 1]
      BY <1>7 DEF drop_reference
    <2>2. /\ DOMAIN s2 = DOMAIN s
          /\ s2 = [g \in DOMAIN s2 |-> s2[g]]
          /\ s2[h] = [s[h] EXCEPT !.ref_count = @ - 1]
          /\ \A g \in DOMAIN s : g # h => s2[g] = s[g]
      BY <1>1, <2>1
    <2>3. s2[h].vk = s[h].vk /\ s2[h].ref_count = s[h].ref_count - 1 /\ s2[h] \in VkEntry
      BY <1>1, <1>7, <2>2, VerifierAssumption DEF VkEntry
    <2>4. s2[h].ref_count = Cardinality(HoldersIn(tk2, h)) /\ s2[h].ref_count \in 1 .. RefCountMax
      BY <1>1, <1>5, <1>7, <2>3, VerifierAssumption
    <2> HIDE DEF s2, tk2
    <2>5. StoreTyped(v, version, s2, tk2)
      BY <1>1, <1>2, <2>2, <2>3 DEF StoreOK, StoreTyped
    <2>6. StoreCounted(s2, tk2)
      BY <1>2, <1>3, <2>2, <2>4 DEF StoreOK, StoreCounted
    <2>7. StoreHashed(s2)
      BY <1>1, <2>2, <2>3 DEF StoreOK, StoreHashed
    <2> QED
      BY <2>5, <2>6, <2>7 DEF StoreOK, s2, tk2
  <1> QED
    BY <1>6, <1>7

(***************************************************************************)
(* The ultrahonk migration: the hash of a Legacy key is the one its bytes  *)
(* had before, so keys stay where they are and tickets stay valid.         *)
(***************************************************************************)
LEMMA MigrationKeepsStore ==
  ASSUME NEW s, NEW tk, StoreOK(Ultrahonk, 1, s, tk)
  PROVE  StoreOK(Ultrahonk, 2, [h \in DOMAIN s |-> InFormat(s[h], "Legacy")], tk)
  <1> DEFINE s2 == [h \in DOMAIN s |-> InFormat(s[h], "Legacy")]
  <1>1. ASSUME NEW h \in DOMAIN s
        PROVE  /\ s2[h] \in VkEntry
               /\ s2[h].vk \in KeysAt(Ultrahonk, 2)
               /\ vk_hash(s2[h].vk) = h
               /\ s2[h].ref_count = s[h].ref_count
    <2>1. /\ s[h] \in VkEntry
          /\ s[h].vk \in [format : {"Plain"}, bytes : KeyBytes]
          /\ vk_hash(s[h].vk) = h
      BY DEF StoreOK, StoreTyped, StoreHashed, KeysAt
    <2>2. s[h].vk = h /\ h.format = "Plain" /\ h.bytes \in KeyBytes
      BY <2>1 DEF vk_hash
    <2>3. PICK b \in KeyBytes, n \in Nat : s[h] = [vk |-> [format |-> "Plain", bytes |-> b],
                                                   ref_count |-> n]
      BY <2>1 DEF VkEntry
    <2>4. s2[h] = [vk |-> [format |-> "Legacy", bytes |-> b], ref_count |-> n]
      BY <2>3 DEF InFormat
    <2>5. vk_hash([format |-> "Legacy", bytes |-> b]) = [format |-> "Plain", bytes |-> b]
      BY DEF vk_hash
    <2> QED
      BY <2>2, <2>3, <2>4, <2>5 DEF VkEntry, Key, Formats, KeysAt
  <1>2. DOMAIN s2 = DOMAIN s /\ s2 = [h \in DOMAIN s2 |-> s2[h]]
    OBVIOUS
  <1> HIDE DEF s2
  <1>3. StoreTyped(Ultrahonk, 2, s2, tk)
    BY <1>1, <1>2 DEF StoreOK, StoreTyped
  <1>4. StoreCounted(s2, tk)
    BY <1>1, <1>2 DEF StoreOK, StoreCounted
  <1>5. StoreHashed(s2)
    BY <1>1, <1>2 DEF StoreHashed
  <1> QED
    BY <1>3, <1>4, <1>5 DEF StoreOK, s2

LEMMA EmptyStore ==
  ASSUME NEW v, NEW version
  PROVE  StoreOK(v, version, NoEntries, NoEntries)
  BY DEF StoreOK, StoreTyped, StoreCounted, StoreHashed, NoEntries

(* A step that changes the store of one verifier keeps the others. *)
LEMMA OneStoreChanges ==
  ASSUME IInv, Typed', StatementNamesKey',
         NEW v \in Verifiers,
         \A w \in Verifiers \ {v} :
           /\ storage_version'[w] = storage_version[w]
           /\ vks'[w] = vks[w] /\ tickets'[w] = tickets[w],
         StoreOK(v, storage_version'[v], vks'[v], tickets'[v])
  PROVE  IInv'
  BY DEF IInv

(* A step that leaves the storage alone. *)
LEMMA StoresUnchanged ==
  ASSUME IInv, Typed', StatementNamesKey',
         UNCHANGED <<storage_version, vks, tickets>>
  PROVE  IInv'
  BY DEF IInv

LEMMA RegisterStep ==
  ASSUME IInv, NEW v \in Verifiers, NEW a \in Accounts, NEW k \in KeysOf(v),
         register_vk(v, a, k)
  PROVE  IInv'
  <1>1. Typed' /\ StatementNamesKey'
    BY DEF IInv, Typed, register_vk, StatementNamesKey
  <1>2. /\ storage_version'[v] = storage_version[v]
        /\ vks'[v] = Put(vks[v], vk_hash(k), add_reference(v, k))
        /\ tickets'[v] = Put(tickets[v], <<a, vk_hash(k)>>, vk_deposit(k))
        /\ \A w \in Verifiers \ {v} :
             /\ storage_version'[w] = storage_version[w]
             /\ vks'[w] = vks[w] /\ tickets'[w] = tickets[w]
    BY DEF IInv, Typed, register_vk
  <1>3. vk_deposit(k) \in Nat
    BY VerifierAssumption DEF vk_deposit
  <1>4. /\ <<a, vk_hash(k)>> \notin DOMAIN tickets[v]
        /\ vk_hash(k) \in DOMAIN vks[v] => vks[v][vk_hash(k)].ref_count < RefCountMax
    BY DEF register_vk
  <1>5. StoreOK(v, storage_version[v], vks[v], tickets[v])
    BY DEF IInv
  <1>6. StoreOK(v, storage_version[v],
                Put(vks[v], vk_hash(k), add_reference(v, k)),
                Put(tickets[v], <<a, vk_hash(k)>>, vk_deposit(k)))
    BY <1>3, <1>4, <1>5, RegisterKeepsStore DEF add_reference, KeysOf
  <1> QED
    BY <1>1, <1>2, <1>6, OneStoreChanges

LEMMA UnregisterStep ==
  ASSUME IInv, NEW v \in Verifiers, NEW t \in DOMAIN tickets[v],
         unregister_vk(v, t[1], t[2])
  PROVE  IInv'
  <1> DEFINE a == t[1]
             h == t[2]
  <1>1. Typed' /\ StatementNamesKey'
    BY DEF IInv, Typed, unregister_vk, StatementNamesKey
  <1>2. /\ storage_version'[v] = storage_version[v]
        /\ vks'[v] = drop_reference(vks[v], h)
        /\ tickets'[v] = Drop(tickets[v], <<a, h>>)
        /\ \A w \in Verifiers \ {v} :
             /\ storage_version'[w] = storage_version[w]
             /\ vks'[w] = vks[w] /\ tickets'[w] = tickets[w]
    BY DEF IInv, Typed, unregister_vk
  <1>3. <<a, h>> \in DOMAIN tickets[v]
    BY DEF unregister_vk
  <1>4. StoreOK(v, storage_version[v], vks[v], tickets[v])
    BY DEF IInv
  <1> HIDE DEF a, h
  <1>5. StoreOK(v, storage_version'[v], vks'[v], tickets'[v])
    BY <1>2, <1>3, <1>4, UnregisterKeepsStore
  <1> QED
    BY <1>1, <1>2, <1>5, OneStoreChanges

(* A submission changes no storage; the key it used is under its hash. *)
LEMMA SubmitStep ==
  ASSUME IInv, NEW v \in Verifiers, NEW given, NEW k, NEW proof, NEW pubs,
         submit_proof(v, given, k, proof, pubs)
  PROVE  IInv'
  <1>1. Typed'
    BY DEF IInv, Typed, submit_proof
  <1>2. UNCHANGED <<storage_version, vks, tickets>>
    BY DEF submit_proof
  <1>3. \A h \in DOMAIN vks[v] : vk_hash(vks[v][h].vk) = h
    BY DEF IInv, StoreOK, StoreHashed
  <1>4. PICK used :
          /\ vk_hash(used) = vk_hash(k)
          /\ submission' =
               [accepted  |-> submission'.accepted,
                given     |-> given, vk |-> used, proof |-> proof, enabled |-> ~ disabled[v],
                statement |-> compute_statement_hash(v, vk_hash(k), proof, pubs)]
          /\ submission'.accepted => verify_proof(used, proof)
    <2>1. CASE given = "Hash" /\ vk_hash(k) \in DOMAIN vks[v]
      <3> WITNESS vks[v][vk_hash(k)].vk
      <3> QED
        BY <1>3, <2>1 DEF submit_proof
    <2>2. CASE ~ (given = "Hash" /\ vk_hash(k) \in DOMAIN vks[v])
      <3> WITNESS k
      <3> QED
        BY <2>2 DEF submit_proof
    <2> QED
      BY <2>1, <2>2
  <1>5. StatementNamesKey'
    <2>1. /\ submission'.vk = used
          /\ submission'.statement.vk = vk_hash(k)
          /\ submission'.statement.version = verifier_version_hash(proof.format)
      BY <1>4 DEF compute_statement_hash
    <2>2. submission'.accepted => proof.format = used.format
      BY <1>4 DEF verify_proof
    <2> QED
      BY <1>4, <2>1, <2>2 DEF StatementNamesKey
  <1> QED
    BY <1>1, <1>2, <1>5, StoresUnchanged

LEMMA MigrateUltrahonkStep ==
  ASSUME IInv, NEW v \in Verifiers, migrate_ultrahonk(v)
  PROVE  IInv'
  <1>1. Typed' /\ StatementNamesKey'
    BY DEF IInv, Typed, migrate_ultrahonk, StatementNamesKey
  <1>2. /\ v = Ultrahonk /\ storage_version[v] = 1 /\ storage_version'[v] = 2
        /\ vks'[v] = [h \in DOMAIN vks[v] |-> InFormat(vks[v][h], "Legacy")]
        /\ tickets'[v] = tickets[v]
        /\ \A w \in Verifiers \ {v} :
             /\ storage_version'[w] = storage_version[w]
             /\ vks'[w] = vks[w] /\ tickets'[w] = tickets[w]
    BY DEF IInv, Typed, migrate_ultrahonk
  <1>3. StoreOK(Ultrahonk, 1, vks[v], tickets[v])
    BY <1>2 DEF IInv
  <1>4. StoreOK(Ultrahonk, 2, vks'[v], tickets'[v])
    BY <1>2, <1>3, MigrationKeepsStore
  <1> QED
    BY <1>1, <1>2, <1>4, OneStoreChanges

LEMMA MigrateTeeStep ==
  ASSUME IInv, NEW v \in Verifiers, migrate_tee(v)
  PROVE  IInv'
  <1>1. Typed' /\ StatementNamesKey'
    BY DEF IInv, Typed, migrate_tee, StatementNamesKey
  <1>2. /\ vks'[v] = NoEntries /\ tickets'[v] = NoEntries
        /\ \A w \in Verifiers \ {v} :
             /\ storage_version'[w] = storage_version[w]
             /\ vks'[w] = vks[w] /\ tickets'[w] = tickets[w]
    BY DEF IInv, Typed, migrate_tee
  <1>3. StoreOK(v, storage_version'[v], vks'[v], tickets'[v])
    BY <1>2, EmptyStore
  <1> QED
    BY <1>1, <1>2, <1>3, OneStoreChanges

LEMMA InitEstablishes == Init => IInv
  <1> SUFFICES ASSUME Init PROVE IInv
    OBVIOUS
  <1>1. Typed
    BY DEF Init, Typed
  <1>2. \A v \in Verifiers : vks[v] = NoEntries /\ tickets[v] = NoEntries
    BY DEF Init
  <1>3. StatementNamesKey
    BY DEF Init, StatementNamesKey
  <1> QED
    BY <1>1, <1>2, <1>3, EmptyStore DEF IInv

LEMMA NextPreserves == IInv /\ [Next]_vars => IInv'
  <1> SUFFICES ASSUME IInv, [Next]_vars PROVE IInv'
    OBVIOUS
  <1>1. ASSUME NEW v \in Verifiers, NEW a \in Accounts, NEW k \in KeysOf(v), register_vk(v, a, k)
        PROVE  IInv'
    BY <1>1, RegisterStep
  <1>2. ASSUME NEW v \in Verifiers, NEW t \in DOMAIN tickets[v], unregister_vk(v, t[1], t[2])
        PROVE  IInv'
    BY <1>2, UnregisterStep
  <1>3. ASSUME NEW v \in Verifiers, NEW b \in BOOLEAN, disable(v, b)
        PROVE  IInv'
    <2>1. Typed' /\ StatementNamesKey'
      BY <1>3 DEF IInv, Typed, disable, StatementNamesKey
    <2>2. UNCHANGED <<storage_version, vks, tickets>>
      BY <1>3 DEF disable
    <2> QED
      BY <2>1, <2>2, StoresUnchanged
  <1>4. ASSUME NEW v \in Verifiers, NEW given, NEW k, NEW proof, NEW pubs,
               submit_proof(v, given, k, proof, pubs)
        PROVE  IInv'
    BY <1>4, SubmitStep
  <1>5. ASSUME NEW v \in Verifiers, migrate_ultrahonk(v)
        PROVE  IInv'
    BY <1>5, MigrateUltrahonkStep
  <1>6. ASSUME NEW v \in Verifiers, migrate_tee(v)
        PROVE  IInv'
    BY <1>6, MigrateTeeStep
  <1>7. ASSUME NEW bytes \in SUBSET KeyBytes, trust_changes(bytes)
        PROVE  IInv'
    <2>1. Typed' /\ StatementNamesKey'
      BY <1>7 DEF IInv, Typed, trust_changes, StatementNamesKey
    <2>2. UNCHANGED <<storage_version, vks, tickets>>
      BY <1>7 DEF trust_changes
    <2> QED
      BY <2>1, <2>2, StoresUnchanged
  <1>8. CASE UNCHANGED vars
    <2>1. Typed' /\ StatementNamesKey'
      BY <1>8 DEF IInv, Typed, vars, StatementNamesKey
    <2>2. UNCHANGED <<storage_version, vks, tickets>>
      BY <1>8 DEF vars
    <2> QED
      BY <2>1, <2>2, StoresUnchanged
  <1> QED
    BY <1>1, <1>2, <1>3, <1>4, <1>5, <1>6, <1>7, <1>8 DEF Next

(* The stores of all verifiers stay in order. *)
THEOREM VerifierInvariance == Spec => []IInv
  BY InitEstablishes, NextPreserves, PTL DEF Spec

(***************************************************************************)
(* The storage of every verifier keeps its types, and its keys are in the  *)
(* format of the storage version, through register_vk, unregister_vk and   *)
(* both migrations.                                                        *)
(***************************************************************************)
THEOREM StorageTyped == Spec => []TypeOK
  <1>1. IInv => TypeOK
    BY DEF IInv, Typed, TypeOK, StoreOK, StoreTyped, KeysOf
  <1> QED
    BY <1>1, VerifierInvariance, PTL

(***************************************************************************)
(* A key is stored exactly while an account holds a ticket for it, and its *)
(* count is the number of these accounts: unregister_vk never reaches      *)
(* unreachable!() and never takes a key from an account that pays for it.  *)
(***************************************************************************)
THEOREM ReferencesCounted == Spec => []RefCountsExact
  <1>1. IInv => RefCountsExact
    BY DEF IInv, RefCountsExact, StoreOK, StoreCounted, Holders, HoldersIn
  <1> QED
    BY <1>1, VerifierInvariance, PTL

(***************************************************************************)
(* The statement of an accepted proof names the key and the version it was *)
(* verified with, whether submit_proof got the key or its hash, before and *)
(* after the migration of stored keys.                                     *)
(***************************************************************************)
THEOREM StatementsNameKeys == Spec => []StatementNamesKey
  <1>1. IInv => StatementNamesKey
    BY DEF IInv
  <1> QED
    BY <1>1, VerifierInvariance, PTL
-----------------------------------------------------------------------------
(***************************************************************************)
(* Deposits.  What is on hold for keys is compared with the sum of all     *)
(* tickets: the tickets of one account in one store, then over the stores. *)
(***************************************************************************)
(* The fields of a ledger. *)
LEMMA LedgerParts ==
  ASSUME NEW b \in Ledger, NEW a \in Accounts, NEW r \in HoldReason
  PROVE  /\ b.free \in [Accounts -> Nat] /\ b.frozen \in [Accounts -> Nat]
         /\ b.held \in [Accounts -> [HoldReason -> Nat]]
         /\ b.free[a] \in Nat /\ b.frozen[a] \in Nat /\ b.held[a] \in [HoldReason -> Nat]
         /\ b.held[a][r] \in Nat
BY DEF Ledger

(* One free balance and one hold change. *)
Updated(b, r, a, f, h) == [b EXCEPT !.free[a] = f, !.held[a][r] = h]

(* What such a change leaves. *)
LEMMA UpdateFacts ==
  ASSUME NEW b \in Ledger, NEW a \in Accounts, NEW r \in HoldReason, NEW f \in Nat, NEW h \in Nat,
         NEW x \in Accounts, NEW q \in HoldReason
  PROVE  LET c == Updated(b, r, a, f, h) IN
         /\ c \in Ledger
         /\ c.frozen[x] = b.frozen[x]
         /\ c.free[x] = IF x = a THEN f ELSE b.free[x]
         /\ c.held[x][q] = IF x = a /\ q = r THEN h ELSE b.held[x][q]
<1> DEFINE c == Updated(b, r, a, f, h)
<1>1. /\ b.free \in [Accounts -> Nat] /\ b.frozen \in [Accounts -> Nat]
      /\ b.held \in [Accounts -> [HoldReason -> Nat]]
      /\ b.held[a] \in [HoldReason -> Nat]
  BY LedgerParts
<1>2. /\ c.free = [b.free EXCEPT ![a] = f]
      /\ c.held = [b.held EXCEPT ![a] = [b.held[a] EXCEPT ![r] = h]]
      /\ c.frozen = b.frozen
  BY DEF Ledger, Updated
<1> HIDE DEF c
<1>3. c.held[a] = [b.held[a] EXCEPT ![r] = h] BY <1>1, <1>2
<1>4. c.held \in [Accounts -> [HoldReason -> Nat]]
  <2>1. [b.held[a] EXCEPT ![r] = h] \in [HoldReason -> Nat] BY <1>1
  <2> QED BY <1>1, <1>2, <2>1
<1>5. c.free \in [Accounts -> Nat] BY <1>1, <1>2
<1>6. c \in Ledger
  <2>1. c = [b EXCEPT !.free = c.free, !.held = c.held] BY <1>2 DEF Ledger, Updated, c
  <2> QED BY <1>1, <1>4, <1>5, <2>1 DEF Ledger
<1>7. c.held[x][q] = IF x = a /\ q = r THEN h ELSE b.held[x][q]
  <2>1. CASE x # a BY <1>1, <1>2, <2>1
  <2>2. CASE x = a BY <1>1, <1>3, <2>2
  <2> QED BY <2>1, <2>2
<1>8. c.free[x] = IF x = a THEN f ELSE b.free[x] BY <1>1, <1>2
<1> QED BY <1>2, <1>6, <1>7, <1>8 DEF c

(* hold moves n from the free balance of a to its holds. *)
LEMMA HoldFacts ==
  ASSUME NEW b \in Ledger, NEW a \in Accounts, NEW r \in HoldReason, NEW n \in Nat,
         CanHold(b, a, n), NEW x \in Accounts, NEW q \in HoldReason
  PROVE  LET c == Hold(b, r, a, n) IN
         /\ c \in Ledger
         /\ c.frozen[x] = b.frozen[x]
         /\ c.free[x] = IF x = a THEN b.free[a] - n ELSE b.free[x]
         /\ c.held[x][q] = IF x = a /\ q = r THEN b.held[a][r] + n ELSE b.held[x][q]
<1> DEFINE f == b.free[a] - n
           h == b.held[a][r] + n
<1>1. b.free[a] \in Nat /\ b.held[a][r] \in Nat BY LedgerParts
<1>2. f \in Nat /\ h \in Nat BY <1>1, LedgerAssumption DEF CanHold, Excess
<1>3. Hold(b, r, a, n) = Updated(b, r, a, f, h) BY DEF Hold, Updated
<1> DEFINE c == Updated(b, r, a, f, h)
<1> HIDE DEF f, h
<1>5. c \in Ledger BY <1>2, UpdateFacts
<1>6. c.frozen[x] = b.frozen[x] BY <1>2, UpdateFacts
<1>7. c.free[x] = IF x = a THEN f ELSE b.free[x] BY <1>2, UpdateFacts
<1>8. c.held[x][q] = IF x = a /\ q = r THEN h ELSE b.held[x][q] BY <1>2, UpdateFacts
<1> HIDE DEF c
<1> QED BY <1>3, <1>5, <1>6, <1>7, <1>8 DEF c, f, h

(* release gives back what is there, up to n. *)
LEMMA ReleaseFacts ==
  ASSUME NEW b \in Ledger, NEW a \in Accounts, NEW r \in HoldReason, NEW n \in Nat,
         NEW x \in Accounts, NEW q \in HoldReason
  PROVE  LET c == Release(b, r, a, n) IN
         /\ c \in Ledger
         /\ c.frozen[x] = b.frozen[x]
         /\ c.free[x] = IF x = a THEN b.free[a] + Least(n, b.held[a][r]) ELSE b.free[x]
         /\ c.held[x][q] = IF x = a /\ q = r THEN Excess(b.held[a][r], n) ELSE b.held[x][q]
<1> DEFINE m == Least(n, b.held[a][r])
           f == b.free[a] + m
           h == b.held[a][r] - m
<1>1. b.free[a] \in Nat /\ b.held[a][r] \in Nat BY LedgerParts
<1>2. m \in Nat /\ h \in Nat /\ h = Excess(b.held[a][r], n) BY <1>1 DEF Least, Excess
<1>3. f \in Nat /\ h \in Nat BY <1>1, <1>2
<1>4. Release(b, r, a, n) = Updated(b, r, a, f, h) BY DEF Release, Updated
<1> DEFINE c == Updated(b, r, a, f, h)
<1> HIDE DEF f, h, m
<1>5. c \in Ledger BY <1>3, UpdateFacts
<1>6. c.frozen[x] = b.frozen[x] BY <1>3, UpdateFacts
<1>7. c.free[x] = IF x = a THEN f ELSE b.free[x] BY <1>3, UpdateFacts
<1>8. c.held[x][q] = IF x = a /\ q = r THEN h ELSE b.held[x][q] BY <1>3, UpdateFacts
<1> HIDE DEF c
<1> QED BY <1>2, <1>4, <1>5, <1>6, <1>7, <1>8 DEF c, f, m

(* The tickets of account x in a store, and what they say. *)
TicketsIn(tk, x) == {t \in DOMAIN tk : t[1] = x}

DepositIn(tk, x) == SumFunctionOnSet(tk, TicketsIn(tk, x))

TotalIn(tks, x) == SumFunctionOnSet([v \in Verifiers |-> DepositIn(tks[v], x)], Verifiers)

TicketsOK(tk) == IsFiniteSet(DOMAIN tk) /\ \A t \in DOMAIN tk : tk[t] \in Nat

(* Deposits are natural numbers. *)
LEMMA DepositNat ==
  ASSUME NEW tk, TicketsOK(tk), NEW x
  PROVE  IsFiniteSet(TicketsIn(tk, x)) /\ DepositIn(tk, x) \in Nat
<1>1. TicketsIn(tk, x) \in SUBSET (DOMAIN tk) BY DEF TicketsIn
<1>2. IsFiniteSet(TicketsIn(tk, x)) BY <1>1, FS_Subset DEF TicketsOK
<1>3. \A t \in TicketsIn(tk, x) : tk[t] \in Nat BY <1>1 DEF TicketsOK
<1> QED BY <1>2, <1>3, SumNat DEF DepositIn

(* A new ticket adds its amount to the deposits of its account. *)
LEMMA PutDeposit ==
  ASSUME NEW tk, TicketsOK(tk), NEW a, NEW h, <<a, h>> \notin DOMAIN tk, NEW n \in Nat, NEW x
  PROVE  /\ TicketsOK(Put(tk, <<a, h>>, n))
         /\ DepositIn(Put(tk, <<a, h>>, n), x) = DepositIn(tk, x) + (IF x = a THEN n ELSE 0)
<1> DEFINE t0 == <<a, h>>
           tk2 == Put(tk, t0, n)
<1>1. /\ DOMAIN tk2 = DOMAIN tk \cup {t0} /\ tk2[t0] = n
      /\ \A t \in DOMAIN tk : tk2[t] = tk[t]
  BY DEF Put
<1>2. t0[1] = a OBVIOUS
<1> HIDE DEF t0, tk2
<1>3. IsFiniteSet(DOMAIN tk2) BY <1>1, FS_AddElement DEF TicketsOK
<1>4. \A t \in DOMAIN tk2 : tk2[t] \in Nat BY <1>1 DEF TicketsOK
<1>5. TicketsOK(tk2) BY <1>3, <1>4 DEF TicketsOK
<1> DEFINE S == TicketsIn(tk, x)
<1>6. IsFiniteSet(S) /\ DepositIn(tk, x) \in Nat BY DepositNat
<1>7. SumFunctionOnSet(tk2, S) = SumFunctionOnSet(tk, S)
  <2>1. \A t \in S : tk2[t] = tk[t] BY <1>1 DEF TicketsIn
  <2> HIDE DEF S
  <2> QED BY <1>6, <2>1, SumSame
<1>8. CASE x = a
  <2>1. TicketsIn(tk2, x) = S \cup {t0} BY <1>1, <1>2, <1>8 DEF TicketsIn
  <2>2. t0 \notin S BY DEF TicketsIn, t0
  <2>3. \A t \in S \cup {t0} : tk2[t] \in Nat BY <1>1, <1>4 DEF TicketsIn
  <2> HIDE DEF S
  <2>4. SumFunctionOnSet(tk2, S \cup {t0}) = tk2[t0] + SumFunctionOnSet(tk2, S)
    BY <1>6, <2>2, <2>3, SumAdd
  <2>5. DepositIn(tk2, x) = n + DepositIn(tk, x)
    BY <1>1, <1>7, <2>1, <2>4 DEF DepositIn, S
  <2>6. DepositIn(tk2, x) = DepositIn(tk, x) + n BY <1>6, <2>5
  <2> QED BY <1>5, <1>8, <2>6 DEF t0, tk2
<1>9. CASE x # a
  <2>1. TicketsIn(tk2, x) = S BY <1>1, <1>2, <1>9 DEF TicketsIn
  <2>2. DepositIn(tk2, x) = DepositIn(tk, x) BY <1>7, <2>1 DEF DepositIn
  <2>3. DepositIn(tk2, x) = DepositIn(tk, x) + 0 BY <1>6, <2>2
  <2> QED BY <1>5, <1>9, <2>3 DEF t0, tk2
<1> QED BY <1>8, <1>9

(* A ticket that is dropped takes its amount along. *)
LEMMA DropDeposit ==
  ASSUME NEW tk, TicketsOK(tk), NEW a, NEW h, <<a, h>> \in DOMAIN tk, NEW x
  PROVE  /\ TicketsOK(Drop(tk, <<a, h>>))
         /\ DepositIn(tk, x) = DepositIn(Drop(tk, <<a, h>>), x)
                                 + (IF x = a THEN tk[<<a, h>>] ELSE 0)
<1> DEFINE t0 == <<a, h>>
           tk2 == Drop(tk, t0)
<1>1. /\ DOMAIN tk2 = DOMAIN tk \ {t0}
      /\ \A t \in DOMAIN tk2 : tk2[t] = tk[t]
  BY DEF Drop
<1>2. t0[1] = a /\ t0 \in DOMAIN tk OBVIOUS
<1> HIDE DEF t0, tk2
<1>3. IsFiniteSet(DOMAIN tk2) BY <1>1, FS_RemoveElement DEF TicketsOK
<1>4. \A t \in DOMAIN tk2 : tk2[t] \in Nat BY <1>1 DEF TicketsOK
<1>5. TicketsOK(tk2) BY <1>3, <1>4 DEF TicketsOK
<1> DEFINE S == TicketsIn(tk, x)
           R == TicketsIn(tk2, x)
<1>6. IsFiniteSet(S) /\ IsFiniteSet(R) /\ DepositIn(tk2, x) \in Nat BY <1>5, DepositNat
<1>7. SumFunctionOnSet(tk2, R) = SumFunctionOnSet(tk, R)
  <2>1. \A t \in R : tk2[t] = tk[t] BY <1>1 DEF TicketsIn
  <2> HIDE DEF R
  <2> QED BY <1>6, <2>1, SumSame
<1>8. CASE x = a
  <2>1. R = S \ {t0} /\ t0 \in S BY <1>1, <1>2, <1>8 DEF TicketsIn
  <2>2. \A t \in S : tk[t] \in Nat BY DEF TicketsIn, TicketsOK
  <2> HIDE DEF S, R
  <2>3. SumFunctionOnSet(tk, S) = tk[t0] + SumFunctionOnSet(tk, S \ {t0})
    BY <1>6, <2>1, <2>2, SumRemove
  <2>4. DepositIn(tk, x) = tk[t0] + DepositIn(tk2, x)
    BY <1>7, <2>1, <2>3 DEF DepositIn, S, R
  <2>5. DepositIn(tk, x) = DepositIn(tk2, x) + tk[t0] BY <1>2, <1>6, <2>4 DEF TicketsOK
  <2> QED BY <1>5, <1>8, <2>5 DEF t0, tk2
<1>9. CASE x # a
  <2>1. R = S BY <1>1, <1>2, <1>9 DEF TicketsIn
  <2>2. DepositIn(tk2, x) = DepositIn(tk, x) BY <1>7, <2>1 DEF DepositIn
  <2>3. DepositIn(tk, x) = DepositIn(tk2, x) + 0 BY <1>6, <2>2
  <2> QED BY <1>5, <1>9, <2>3 DEF t0, tk2
<1> QED BY <1>8, <1>9

(* All stores; and two that differ for one verifier only. *)
StoresOK(tks) == \A w \in Verifiers : TicketsOK(tks[w])

SameBut(v, tks, tks2) == \A w \in Verifiers \ {v} : tks2[w] = tks[w]

(* The total of an account when one store changes. *)
LEMMA TotalShift ==
  ASSUME NEW tks, NEW tks2, NEW v \in Verifiers, NEW x,
         StoresOK(tks), StoresOK(tks2), SameBut(v, tks, tks2)
  PROVE  /\ TotalIn(tks, x) \in Nat /\ TotalIn(tks2, x) \in Nat
         /\ DepositIn(tks[v], x) \in Nat /\ DepositIn(tks2[v], x) \in Nat
         /\ DepositIn(tks[v], x) <= TotalIn(tks, x)
         /\ TotalIn(tks2, x) + DepositIn(tks[v], x) = TotalIn(tks, x) + DepositIn(tks2[v], x)
<1> DEFINE f == [w \in Verifiers |-> DepositIn(tks[w], x)]
           g == [w \in Verifiers |-> DepositIn(tks2[w], x)]
<1>1. \A w \in Verifiers : f[w] \in Nat /\ g[w] \in Nat
  <2>1. ASSUME NEW w \in Verifiers PROVE f[w] \in Nat /\ g[w] \in Nat
    BY DepositNat DEF StoresOK
  <2> QED BY <2>1
<1>2. \A w \in Verifiers \ {v} : f[w] = g[w] BY DEF SameBut
<1>3. f[v] = DepositIn(tks[v], x) /\ g[v] = DepositIn(tks2[v], x) OBVIOUS
<1> HIDE DEF f, g
<1>4. IsFiniteSet(Verifiers) BY VerifierAssumption
<1>5. SumFunctionOnSet(g, Verifiers) + f[v] = SumFunctionOnSet(f, Verifiers) + g[v]
  BY <1>1, <1>2, <1>4, SumUpdate
<1>6. f[v] <= SumFunctionOnSet(f, Verifiers) BY <1>1, <1>4, SumBound
<1>7. SumFunctionOnSet(f, Verifiers) \in Nat /\ SumFunctionOnSet(g, Verifiers) \in Nat
  BY <1>1, <1>4, SumNat
<1>8. TotalIn(tks, x) = SumFunctionOnSet(f, Verifiers)
      /\ TotalIn(tks2, x) = SumFunctionOnSet(g, Verifiers)
  BY DEF TotalIn, f, g
<1> QED BY <1>1, <1>3, <1>5, <1>6, <1>7, <1>8

(* The hold of every account is the total of its tickets. *)
HeldExact(b, tks) == \A x \in Accounts : b.held[x]["VkRegistration"] = TotalIn(tks, x)

DepositInv ==
  /\ ledger \in Ledger
  /\ StoresOK(tickets)
  /\ HeldExact(ledger, tickets)

(* HeldExact is VkDepositsExact. *)
LEMMA HeldIsDeposited == DepositInv => VkDepositsExact
BY DEF DepositInv, HeldExact, VkDepositsExact, TotalIn, DepositIn, TicketsIn, Deposited, TicketsOf

(* A step that changes the tickets of one verifier and the holds alike. *)
LEMMA HeldFollows ==
  ASSUME IInv, DepositInv, NEW v \in Verifiers, NEW tk,
         tickets' = [tickets EXCEPT ![v] = tk], TicketsOK(tk), ledger' \in Ledger,
         \A x \in Accounts :
           ledger'.held[x]["VkRegistration"] + DepositIn(tickets[v], x)
             = ledger.held[x]["VkRegistration"] + DepositIn(tk, x)
  PROVE  DepositInv'
<1>1. tickets'[v] = tk /\ \A w \in Verifiers \ {v} : tickets'[w] = tickets[w]
  BY DEF IInv, Typed
<1>2. StoresOK(tickets) BY DEF DepositInv
<1>3. StoresOK(tickets') /\ SameBut(v, tickets, tickets') BY <1>1, <1>2 DEF StoresOK, SameBut
<1>4. ASSUME NEW x \in Accounts
      PROVE  ledger'.held[x]["VkRegistration"] = TotalIn(tickets', x)
  <2> DEFINE old == TotalIn(tickets, x)
             new == TotalIn(tickets', x)
             p == DepositIn(tickets[v], x)
             q == DepositIn(tk, x)
             h == ledger'.held[x]["VkRegistration"]
  <2>1. /\ old \in Nat /\ new \in Nat /\ p \in Nat /\ q \in Nat
        /\ new + p = old + q
    <3>1. ASSUME NEW t, StoresOK(t), SameBut(v, tickets, t)
          PROVE  /\ old \in Nat /\ TotalIn(t, x) \in Nat /\ p \in Nat
                 /\ DepositIn(t[v], x) \in Nat
                 /\ TotalIn(t, x) + p = old + DepositIn(t[v], x)
      <4> HIDE DEF h, q, new
      <4> QED BY <1>2, <3>1, TotalShift
    <3> QED BY <1>1, <1>3, <3>1
  <2>2. h \in Nat BY LedgerParts DEF HoldReason
  <2>3. h + p = old + q BY DEF DepositInv, HeldExact
  <2> HIDE DEF old, new, p, q, h
  <2>4. h = new BY <2>1, <2>2, <2>3
  <2> QED BY <2>4 DEF h, new
<1>5. HeldExact(ledger', tickets') BY <1>4 DEF HeldExact
<1> QED BY <1>3, <1>5 DEF DepositInv

(* register_vk holds what the new ticket says. *)
LEMMA RegisterHolds ==
  ASSUME IInv, DepositInv, NEW v \in Verifiers, NEW a \in Accounts, NEW k \in KeysOf(v),
         register_vk(v, a, k)
  PROVE  DepositInv'
<1> DEFINE h == vk_hash(k)
           n == vk_deposit(k)
           tk == Put(tickets[v], <<a, h>>, n)
<1>1. n \in Nat BY VerifierAssumption DEF vk_deposit
<1>2. /\ <<a, h>> \notin DOMAIN tickets[v]
      /\ CanHold(ledger, a, n)
      /\ ledger' = Hold(ledger, "VkRegistration", a, n)
      /\ tickets' = [tickets EXCEPT ![v] = tk]
  BY DEF register_vk
<1>3. TicketsOK(tickets[v]) /\ ledger \in Ledger BY DEF DepositInv, StoresOK
<1> HIDE DEF h, n
<1>4. TicketsOK(tk) BY <1>1, <1>2, <1>3, PutDeposit
<1>5. "VkRegistration" \in HoldReason BY DEF HoldReason
<1>6. ledger' \in Ledger BY <1>1, <1>2, <1>3, <1>5, HoldFacts
<1>7. ASSUME NEW x \in Accounts
      PROVE  ledger'.held[x]["VkRegistration"] + DepositIn(tickets[v], x)
               = ledger.held[x]["VkRegistration"] + DepositIn(tk, x)
  <2>1. ledger'.held[x]["VkRegistration"] =
          IF x = a THEN ledger.held[a]["VkRegistration"] + n ELSE ledger.held[x]["VkRegistration"]
    BY <1>1, <1>2, <1>3, <1>5, HoldFacts
  <2>2. DepositIn(tk, x) = DepositIn(tickets[v], x) + (IF x = a THEN n ELSE 0)
    BY <1>1, <1>2, <1>3, PutDeposit
  <2>3. DepositIn(tickets[v], x) \in Nat BY <1>3, DepositNat
  <2>4. ledger.held[x]["VkRegistration"] \in Nat BY <1>3, <1>5, LedgerParts
  <2> HIDE DEF tk
  <2> QED BY <1>1, <2>1, <2>2, <2>3, <2>4
<1> HIDE DEF tk
<1> QED BY <1>2, <1>4, <1>6, <1>7, HeldFollows

(* unregister_vk releases what the ticket says, all of which is on hold. *)
LEMMA UnregisterReleases ==
  ASSUME IInv, DepositInv, NEW v \in Verifiers, NEW a \in Accounts, NEW h,
         unregister_vk(v, a, h)
  PROVE  DepositInv'
<1> DEFINE n == tickets[v][<<a, h>>]
           tk == Drop(tickets[v], <<a, h>>)
<1>1. /\ <<a, h>> \in DOMAIN tickets[v]
      /\ ledger' = Release(ledger, "VkRegistration", a, n)
      /\ tickets' = [tickets EXCEPT ![v] = tk]
  BY DEF unregister_vk
<1>2. TicketsOK(tickets[v]) /\ ledger \in Ledger BY DEF DepositInv, StoresOK
<1>3. n \in Nat BY <1>1, <1>2 DEF TicketsOK
<1>4. TicketsOK(tk) BY <1>1, <1>2, DropDeposit
<1>5. "VkRegistration" \in HoldReason BY DEF HoldReason
<1>6. ASSUME NEW x \in Accounts
      PROVE  DepositIn(tickets[v], x) = DepositIn(tk, x) + (IF x = a THEN n ELSE 0)
  BY <1>1, <1>2, DropDeposit
<1>7. DepositIn(tickets[v], a) <= ledger.held[a]["VkRegistration"]
  <2>1. StoresOK(tickets) /\ SameBut(v, tickets, tickets) BY DEF DepositInv, SameBut
  <2>2. DepositIn(tickets[v], a) <= TotalIn(tickets, a) BY <2>1, TotalShift
  <2> QED BY <2>2 DEF DepositInv, HeldExact
<1> HIDE DEF n, tk
<1>8. ledger' \in Ledger BY <1>1, <1>2, <1>3, <1>5, ReleaseFacts
<1>9. ASSUME NEW x \in Accounts
      PROVE  ledger'.held[x]["VkRegistration"] + DepositIn(tickets[v], x)
               = ledger.held[x]["VkRegistration"] + DepositIn(tk, x)
  <2>1. ledger'.held[x]["VkRegistration"] =
          IF x = a THEN Excess(ledger.held[a]["VkRegistration"], n)
                   ELSE ledger.held[x]["VkRegistration"]
    BY <1>1, <1>2, <1>3, <1>5, ReleaseFacts
  <2>2. DepositIn(tk, x) \in Nat BY <1>4, DepositNat
  <2>3. ledger.held[x]["VkRegistration"] \in Nat BY <1>2, <1>5, LedgerParts
  <2>4. CASE x = a
    <3>1. n <= ledger.held[a]["VkRegistration"] BY <1>3, <1>6, <1>7, <2>2, <2>3, <2>4
    <3> QED BY <1>3, <1>6, <2>1, <2>2, <2>3, <2>4, <3>1 DEF Excess
  <2>5. CASE x # a BY <1>6, <2>1, <2>2, <2>3, <2>5
  <2> QED BY <2>4, <2>5
<1> QED BY <1>1, <1>4, <1>8, <1>9, HeldFollows

(* The tee migration gives back all deposits of the instance. *)
LEMMA MigrationReleases ==
  ASSUME IInv, DepositInv, NEW v \in Verifiers, migrate_tee(v)
  PROVE  DepositInv'
<1> DEFINE n == [a \in Accounts |-> Deposited(v, a)]
           r == "VkRegistration"
           m == [a \in Accounts |-> Least(n[a], ledger.held[a][r])]
           free == [a \in Accounts |-> ledger.free[a] + m[a]]
           held == [a \in Accounts |-> [ledger.held[a] EXCEPT ![r] = ledger.held[a][r] - m[a]]]
<1>1. /\ tickets' = [tickets EXCEPT ![v] = NoEntries]
      /\ ledger' = [ledger EXCEPT !.free = free, !.held = held]
  BY DEF migrate_tee, ReleaseEach
<1>2. ledger \in Ledger /\ r \in HoldReason BY DEF DepositInv, HoldReason
<1>3. ASSUME NEW x \in Accounts
      PROVE  /\ n[x] = DepositIn(tickets[v], x) /\ n[x] \in Nat
             /\ n[x] <= ledger.held[x][r]
             /\ ledger.held[x][r] \in Nat /\ ledger.free[x] \in Nat
             /\ ledger.held[x] \in [HoldReason -> Nat]
             /\ m[x] = n[x]
  <2>1. StoresOK(tickets) /\ SameBut(v, tickets, tickets) BY DEF DepositInv, SameBut
  <2>2. n[x] = DepositIn(tickets[v], x) BY DEF Deposited, TicketsOf, DepositIn, TicketsIn
  <2>3. DepositIn(tickets[v], x) <= TotalIn(tickets, x) /\ DepositIn(tickets[v], x) \in Nat
    BY <2>1, TotalShift
  <2>4. TotalIn(tickets, x) = ledger.held[x][r] BY DEF DepositInv, HeldExact
  <2>5. ledger.held[x][r] \in Nat /\ ledger.free[x] \in Nat /\ ledger.held[x] \in [HoldReason -> Nat]
    BY <1>2, LedgerParts
  <2>6. m[x] = Least(n[x], ledger.held[x][r]) OBVIOUS
  <2> HIDE DEF n, m
  <2>7. n[x] <= ledger.held[x][r] BY <2>2, <2>3, <2>4
  <2>8. m[x] = n[x] BY <2>6, <2>7 DEF Least
  <2> QED BY <2>2, <2>3, <2>5, <2>7, <2>8
<1> HIDE DEF n, m
<1>4. free \in [Accounts -> Nat] BY <1>3
<1>5. held \in [Accounts -> [HoldReason -> Nat]]
  <2>1. ASSUME NEW x \in Accounts
        PROVE  [ledger.held[x] EXCEPT ![r] = ledger.held[x][r] - m[x]] \in [HoldReason -> Nat]
    <3>1. ledger.held[x][r] - m[x] \in Nat BY <1>3
    <3> QED BY <1>3, <3>1
  <2> QED BY <2>1
<1>6. ASSUME NEW x \in Accounts PROVE held[x][r] = ledger.held[x][r] - n[x] BY <1>2, <1>3
<1> HIDE DEF free, held
<1>7. ledger' \in Ledger /\ ledger'.held = held BY <1>1, <1>2, <1>4, <1>5 DEF Ledger
<1>8. TicketsOK(NoEntries) /\ \A x : TicketsIn(NoEntries, x) = {}
  BY FS_EmptySet DEF TicketsOK, NoEntries, TicketsIn
<1>9. ASSUME NEW x \in Accounts
      PROVE  ledger'.held[x]["VkRegistration"] + DepositIn(tickets[v], x)
               = ledger.held[x]["VkRegistration"] + DepositIn(NoEntries, x)
  <2>1. DepositIn(NoEntries, x) = 0 BY <1>8, SumEmpty DEF DepositIn
  <2> QED BY <1>3, <1>6, <1>7, <2>1
<1> QED BY <1>1, <1>7, <1>8, <1>9, HeldFollows

(* No ticket, nothing on hold. *)
LEMMA InitDeposits == Init => DepositInv
<1> SUFFICES ASSUME Init PROVE DepositInv OBVIOUS
<1>1. ledger \in Ledger BY VerifierAssumption DEF Init, Ledger
<1>2. TicketsOK(NoEntries) /\ \A x : TicketsIn(NoEntries, x) = {}
  BY FS_EmptySet DEF TicketsOK, NoEntries, TicketsIn
<1>3. \A v \in Verifiers : tickets[v] = NoEntries BY DEF Init
<1>4. ASSUME NEW x \in Accounts PROVE ledger.held[x]["VkRegistration"] = TotalIn(tickets, x)
  <2> DEFINE f == [v \in Verifiers |-> DepositIn(tickets[v], x)]
  <2>1. DepositIn(NoEntries, x) = 0 BY <1>2, SumEmpty DEF DepositIn
  <2>2. \A v \in Verifiers : f[v] = 0 BY <1>3, <2>1
  <2> HIDE DEF f
  <2>3. SumFunctionOnSet(f, Verifiers) = 0 BY <2>2, VerifierAssumption, SumZero
  <2>4. ledger.held[x]["VkRegistration"] = 0 BY DEF Init, HoldReason
  <2> QED BY <2>3, <2>4 DEF TotalIn, f
<1> QED BY <1>1, <1>2, <1>3, <1>4 DEF DepositInv, HeldExact, StoresOK

(* The steps that leave tickets and balances alone. *)
LEMMA DepositsUnchanged ==
  ASSUME DepositInv, UNCHANGED <<tickets, ledger>>
  PROVE  DepositInv'
BY DEF DepositInv, HeldExact, StoresOK

(* Every step moves holds and tickets together. *)
LEMMA NextDeposits == IInv /\ DepositInv /\ [Next]_vars => DepositInv'
<1> SUFFICES ASSUME IInv, DepositInv, [Next]_vars PROVE DepositInv' OBVIOUS
<1>1. ASSUME NEW v \in Verifiers, NEW a \in Accounts, NEW k \in KeysOf(v), register_vk(v, a, k)
      PROVE  DepositInv'
  BY <1>1, RegisterHolds
<1>2. ASSUME NEW v \in Verifiers, NEW t \in DOMAIN tickets[v], unregister_vk(v, t[1], t[2])
      PROVE  DepositInv'
  <2>1. t[1] \in Accounts BY DEF IInv, StoreOK, StoreTyped
  <2> QED BY <1>2, <2>1, UnregisterReleases
<1>3. ASSUME NEW v \in Verifiers, migrate_tee(v) PROVE DepositInv' BY <1>3, MigrationReleases
<1>4. CASE UNCHANGED <<tickets, ledger>> BY <1>4, DepositsUnchanged
<1> QED BY <1>1, <1>2, <1>3, <1>4
      DEF Next, vars, disable, submit_proof, migrate_ultrahonk, trust_changes

(***************************************************************************)
(* What an account has on hold for keys is the sum of its tickets, over    *)
(* all verifiers: register_vk, unregister_vk and the tee migration move    *)
(* both alike, and a hold is never short of what a ticket promises.        *)
(***************************************************************************)
THEOREM DepositsStayExact == Spec => []VkDepositsExact
<1>1. Init => IInv /\ DepositInv BY InitEstablishes, InitDeposits
<1>2. (IInv /\ DepositInv) /\ [Next]_vars => (IInv /\ DepositInv)'
  BY NextPreserves, NextDeposits
<1>3. IInv /\ DepositInv => VkDepositsExact BY HeldIsDeposited
<1> QED BY <1>1, <1>2, <1>3, PTL DEF Spec
=============================================================================
