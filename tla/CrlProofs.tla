----------------------------- MODULE CrlProofs ------------------------------
(***************************************************************************)
(* Theorems about the revocation pallet, for any number of authorities,    *)
(* issuers, certificates and lists.  The argument is about one authority:  *)
(* its info, its merged list (store) and what was published (pub).         *)
(***************************************************************************)
EXTENDS Crl, FiniteSetTheorems, TLAPS

AuthorityTyped(info, store) ==
  /\ info \in CaInfo(DOMAIN info.crl_versions)
  /\ DOMAIN info.crl_versions \subseteq Issuers
  /\ store \subseteq RevokedInfo
  /\ Cardinality(store) <= MaxRevokedCerts
  /\ Cardinality(DOMAIN info.crl_versions) <= MaxIssuers

AuthorityInForce(info, store, pub) ==
  /\ \A issuer \in DOMAIN info.crl_versions :
       info.crl_versions[issuer] \in DOMAIN pub[issuer]
  /\ \A issuer \in Issuers, serial \in Serials :
       [issuer |-> issuer, serial |-> serial] \in store
         <=> /\ issuer \in DOMAIN info.crl_versions
             /\ serial \in pub[issuer][info.crl_versions[issuer]]
  /\ info.revoked_count = Cardinality(store)

AuthorityOK(info, store, pub) ==
  AuthorityTyped(info, store) /\ AuthorityInForce(info, store, pub)

(* The latest attestation names a list that exists and does not revoke it. *)
AttestationOK(pub) ==
  attestation.version > 0 =>
    /\ attestation.issuer \in Issuers
    /\ attestation.version \in DOMAIN pub[attestation.issuer]
    /\ attestation.serial \notin pub[attestation.issuer][attestation.version]

(* The inductive invariant. *)
IInv ==
  /\ DOMAIN authorities \subseteq CaNames
  /\ DOMAIN revoked = DOMAIN authorities
  /\ published \in [Issuers -> Seq(SUBSET Serials)]
  /\ \A name \in DOMAIN authorities :
       AuthorityOK(authorities[name], revoked[name], published)
  /\ AttestationOK(published)

(* A new authority has revoked nothing. *)
LEMMA FreshAuthority ==
  ASSUME NEW root \in Roots, NEW pub
  PROVE  AuthorityOK([root_cert |-> root, revoked_count |-> 0, crl_versions |-> NoEntries],
                     {}, pub)
  <1>1. Cardinality({}) = 0
    BY FS_EmptySet
  <1>2. DOMAIN NoEntries = {} /\ NoEntries \in [{} -> Nat]
    BY DEF NoEntries
  <1> QED
    BY <1>1, <1>2, CrlAssumption
    DEF AuthorityOK, AuthorityTyped, AuthorityInForce, CaInfo

(***************************************************************************)
(* update_crl: the entries of the issuer become those of the new list, all *)
(* others stay.                                                            *)
(***************************************************************************)
LEMMA UpdateKeepsAuthority ==
  ASSUME NEW info, NEW store, AuthorityOK(info, store, published),
         published \in [Issuers -> Seq(SUBSET Serials)],
         NEW issuer \in Issuers, NEW n \in DOMAIN published[issuer],
         NEW merged, merged = merge_revoked_certs(store, issuer, parse_crl(issuer, n)),
         NEW versions, versions = Put(info.crl_versions, issuer, n),
         Cardinality(merged) <= MaxRevokedCerts,
         Cardinality(DOMAIN versions) <= MaxIssuers
  PROVE  AuthorityOK([root_cert |-> info.root_cert, revoked_count |-> Cardinality(merged),
                      crl_versions |-> versions], merged, published)
  <1>1. n \in Nat /\ published[issuer][n] \in SUBSET Serials
    OBVIOUS
  <1>2. /\ info.root_cert \in Roots
        /\ DOMAIN info.crl_versions \subseteq Issuers
        /\ \A i \in DOMAIN info.crl_versions : info.crl_versions[i] \in Nat
        /\ store \subseteq RevokedInfo
    BY DEF AuthorityOK, AuthorityTyped, CaInfo
  <1>3. /\ DOMAIN versions = DOMAIN info.crl_versions \cup {issuer}
        /\ versions[issuer] = n
        /\ \A i \in DOMAIN info.crl_versions : i # issuer => versions[i] = info.crl_versions[i]
        /\ versions \in [DOMAIN versions -> Nat]
    BY <1>1, <1>2 DEF Put
  <1>4. merged \subseteq RevokedInfo
    BY <1>1, <1>2 DEF merge_revoked_certs, parse_crl, RevokedInfo
  <1>5. Cardinality(merged) \in Nat
    <2>1. IsFiniteSet(Issuers \X Serials)
      BY FS_Product, CrlAssumption
    <2> DEFINE f == [p \in Issuers \X Serials |-> [issuer |-> p[1], serial |-> p[2]]]
    <2>2. RevokedInfo \subseteq {f[p] : p \in Issuers \X Serials}
      <3> SUFFICES ASSUME NEW r \in RevokedInfo
                   PROVE  \E p \in Issuers \X Serials : r = f[p]
        OBVIOUS
      <3>1. <<r.issuer, r.serial>> \in Issuers \X Serials
        BY DEF RevokedInfo
      <3>2. r = f[<<r.issuer, r.serial>>]
        BY <3>1 DEF RevokedInfo
      <3> QED
        BY <3>1, <3>2
    <2>3. IsFiniteSet({f[p] : p \in Issuers \X Serials})
      <3> HIDE DEF f
      <3>1. f \in Surjection(Issuers \X Serials, {f[p] : p \in Issuers \X Serials})
        <4>1. f \in [Issuers \X Serials -> {f[p] : p \in Issuers \X Serials}]
          BY DEF f
        <4> QED
          BY <4>1 DEF Surjection
      <3> QED
        BY <2>1, <3>1, FS_Surjection
    <2>4. IsFiniteSet(merged)
      BY <2>2, <2>3, <1>4, FS_Subset
    <2> QED
      BY <2>4, FS_CardinalityType
  <1>6. ASSUME NEW i \in Issuers, NEW s \in Serials
        PROVE  [issuer |-> i, serial |-> s] \in merged
                 <=> /\ i \in DOMAIN versions
                     /\ s \in published[i][versions[i]]
    <2>1. [issuer |-> i, serial |-> s] \in parse_crl(issuer, n)
            <=> i = issuer /\ s \in published[issuer][n]
      BY DEF parse_crl
    <2>2. CASE i = issuer
      <3>1. [issuer |-> i, serial |-> s] \in merged
              <=> [issuer |-> i, serial |-> s] \in parse_crl(issuer, n)
        BY <2>2 DEF merge_revoked_certs
      <3> QED
        BY <2>1, <2>2, <3>1, <1>3
    <2>3. CASE i # issuer
      <3>1. [issuer |-> i, serial |-> s] \in merged <=> [issuer |-> i, serial |-> s] \in store
        BY <2>1, <2>3 DEF merge_revoked_certs
      <3>2. [issuer |-> i, serial |-> s] \in store
              <=> i \in DOMAIN info.crl_versions /\ s \in published[i][info.crl_versions[i]]
        BY DEF AuthorityOK, AuthorityInForce
      <3>3. i \in DOMAIN versions <=> i \in DOMAIN info.crl_versions
        BY <1>3, <2>3
      <3>4. i \in DOMAIN versions => versions[i] = info.crl_versions[i]
        BY <1>3, <2>3, <3>3
      <3> QED
        BY <3>1, <3>2, <3>3, <3>4
    <2> QED
      BY <2>2, <2>3
  <1>7. \A i \in DOMAIN versions : versions[i] \in DOMAIN published[i]
    BY <1>3 DEF AuthorityOK, AuthorityInForce
  <1> DEFINE new == [root_cert |-> info.root_cert, revoked_count |-> Cardinality(merged),
                     crl_versions |-> versions]
  <1>8. new.crl_versions = versions /\ new.revoked_count = Cardinality(merged)
    OBVIOUS
  <1>9. new \in CaInfo(DOMAIN versions)
    BY <1>2, <1>3, <1>5 DEF CaInfo
  <1> HIDE DEF new
  <1>10. AuthorityTyped(new, merged)
    BY <1>2, <1>3, <1>4, <1>8, <1>9 DEF AuthorityTyped
  <1>11. AuthorityInForce(new, merged, published)
    BY <1>6, <1>7, <1>8 DEF AuthorityInForce
  <1> QED
    BY <1>10, <1>11 DEF AuthorityOK, new

(* A list that exists keeps its place and its contents. *)
LEMMA PublishedListsStay ==
  ASSUME published \in [Issuers -> Seq(SUBSET Serials)],
         NEW j \in Issuers, NEW serials \in SUBSET Serials, publish(j, serials)
  PROVE  /\ published' \in [Issuers -> Seq(SUBSET Serials)]
         /\ \A i \in Issuers : \A k \in DOMAIN published[i] :
              k \in DOMAIN published'[i] /\ published'[i][k] = published[i][k]
  BY DEF publish

LEMMA PublishKeepsAuthority ==
  ASSUME NEW info, NEW store, AuthorityOK(info, store, published),
         \A i \in Issuers : \A k \in DOMAIN published[i] :
           k \in DOMAIN published'[i] /\ published'[i][k] = published[i][k]
  PROVE  AuthorityOK(info, store, published')
  <1>1. \A i \in DOMAIN info.crl_versions :
          /\ i \in Issuers
          /\ info.crl_versions[i] \in DOMAIN published[i]
    BY DEF AuthorityOK, AuthorityTyped, AuthorityInForce
  <1>2. \A i \in DOMAIN info.crl_versions :
          /\ info.crl_versions[i] \in DOMAIN published'[i]
          /\ published'[i][info.crl_versions[i]] = published[i][info.crl_versions[i]]
    BY <1>1
  <1>3. AuthorityInForce(info, store, published')
    BY <1>2 DEF AuthorityOK, AuthorityInForce
  <1> QED
    BY <1>3 DEF AuthorityOK

LEMMA InitEstablishes == Init => IInv
  BY DEF Init, IInv, NoEntries, AttestationOK

LEMMA RegisterStep ==
  ASSUME IInv, NEW name \in CaNames, NEW root \in Roots, register_ca(name, root)
  PROVE  IInv'
  <1>1. /\ published' = published /\ attestation' = attestation
        /\ DOMAIN authorities' = DOMAIN authorities \cup {name}
        /\ DOMAIN revoked' = DOMAIN revoked \cup {name}
        /\ authorities'[name] =
             [root_cert |-> root, revoked_count |-> 0, crl_versions |-> NoEntries]
        /\ revoked'[name] = {}
        /\ \A x \in DOMAIN authorities : x # name => authorities'[x] = authorities[x]
        /\ \A x \in DOMAIN revoked : x # name => revoked'[x] = revoked[x]
    BY DEF register_ca, Put
  <1>2. AuthorityOK(authorities'[name], revoked'[name], published')
    BY <1>1, FreshAuthority
  <1>3. AttestationOK(published)'
    BY <1>1 DEF IInv, AttestationOK
  <1> QED
    BY <1>1, <1>2, <1>3 DEF IInv

LEMMA UnregisterStep ==
  ASSUME IInv, NEW name \in CaNames, unregister_ca(name)
  PROVE  IInv'
  <1>1. /\ published' = published /\ attestation' = attestation
        /\ DOMAIN authorities' = DOMAIN authorities \ {name}
        /\ DOMAIN revoked' = DOMAIN revoked \ {name}
        /\ \A x \in DOMAIN authorities' : authorities'[x] = authorities[x]
        /\ \A x \in DOMAIN revoked' : revoked'[x] = revoked[x]
    BY DEF unregister_ca, Drop
  <1>2. AttestationOK(published)'
    BY <1>1 DEF IInv, AttestationOK
  <1> QED
    BY <1>1, <1>2 DEF IInv

LEMMA UpdateStep ==
  ASSUME IInv, NEW name \in CaNames, NEW issuer \in Issuers,
         NEW n \in DOMAIN published[issuer], update_crl(name, issuer, n)
  PROVE  IInv'
  <1> DEFINE info == authorities[name]
             merged == merge_revoked_certs(revoked[name], issuer, parse_crl(issuer, n))
             versions == Put(info.crl_versions, issuer, n)
             new == [root_cert |-> info.root_cert, revoked_count |-> Cardinality(merged),
                     crl_versions |-> versions]
  <1>1. /\ name \in DOMAIN authorities
        /\ Cardinality(merged) <= MaxRevokedCerts
        /\ Cardinality(DOMAIN versions) <= MaxIssuers
        /\ revoked' = [revoked EXCEPT ![name] = merged]
        /\ authorities' = [authorities EXCEPT ![name] = new]
        /\ published' = published /\ attestation' = attestation
    BY DEF update_crl
  <1>2. /\ AuthorityOK(info, revoked[name], published)
        /\ published \in [Issuers -> Seq(SUBSET Serials)]
        /\ DOMAIN revoked = DOMAIN authorities
    BY <1>1 DEF IInv
  <1>3. AuthorityOK(new, merged, published)
    BY <1>1, <1>2, UpdateKeepsAuthority
  <1> HIDE DEF info, merged, versions, new
  <1>4. /\ DOMAIN authorities' = DOMAIN authorities /\ DOMAIN revoked' = DOMAIN revoked
        /\ authorities'[name] = new /\ revoked'[name] = merged
        /\ \A x \in DOMAIN authorities : x # name =>
             authorities'[x] = authorities[x] /\ revoked'[x] = revoked[x]
    BY <1>1, <1>2
  <1>5. AttestationOK(published)'
    BY <1>1 DEF IInv, AttestationOK
  <1> QED
    BY <1>1, <1>3, <1>4, <1>5 DEF IInv

LEMMA VerifyStep ==
  ASSUME IInv, NEW name \in CaNames, NEW issuer \in Issuers, NEW serial \in Serials,
         verify_proof(name, issuer, serial)
  PROVE  IInv'
  <1>1. /\ UNCHANGED <<authorities, revoked, published>>
        /\ name \in DOMAIN revoked
        /\ [issuer |-> issuer, serial |-> serial] \notin revoked[name]
        /\ attestation'.issuer = issuer /\ attestation'.serial = serial
        /\ attestation'.version = IF issuer \in DOMAIN authorities[name].crl_versions
                                  THEN authorities[name].crl_versions[issuer] ELSE 0
    BY DEF verify_proof
  <1>2. AuthorityInForce(authorities[name], revoked[name], published)
    BY <1>1 DEF IInv, AuthorityOK
  <1>3. AttestationOK(published)'
    BY <1>1, <1>2 DEF AttestationOK, AuthorityInForce
  <1> QED
    BY <1>1, <1>3 DEF IInv

LEMMA PublishStep ==
  ASSUME IInv, NEW j \in Issuers, NEW serials \in SUBSET Serials, publish(j, serials)
  PROVE  IInv'
  <1>1. UNCHANGED <<authorities, revoked, attestation>>
    BY DEF publish
  <1>2. /\ published' \in [Issuers -> Seq(SUBSET Serials)]
        /\ \A i \in Issuers : \A k \in DOMAIN published[i] :
             k \in DOMAIN published'[i] /\ published'[i][k] = published[i][k]
    BY PublishedListsStay DEF IInv
  <1>3. \A name \in DOMAIN authorities :
          AuthorityOK(authorities[name], revoked[name], published')
    BY <1>2, PublishKeepsAuthority DEF IInv
  <1>4. AttestationOK(published)'
    BY <1>1, <1>2 DEF IInv, AttestationOK
  <1> QED
    BY <1>1, <1>2, <1>3, <1>4 DEF IInv

LEMMA NextPreserves == IInv /\ [Next]_vars => IInv'
  <1> SUFFICES ASSUME IInv, [Next]_vars PROVE IInv'
    OBVIOUS
  <1>1. CASE UNCHANGED vars
    BY <1>1 DEF vars, IInv, AttestationOK
  <1> QED
    BY <1>1, RegisterStep, UnregisterStep, UpdateStep, VerifyStep, PublishStep DEF Next

THEOREM CrlInvariance == Spec => []IInv
  BY InitEstablishes, NextPreserves, PTL DEF Spec

(***************************************************************************)
(* CertificateAuthorities and Revoked keep the same keys and their bounds: *)
(* get_crl fails exactly for an authority that is not registered.          *)
(***************************************************************************)
THEOREM CrlTyped == Spec => []TypeOK
  <1>1. IInv => TypeOK
    BY DEF IInv, TypeOK, AuthorityOK, AuthorityTyped
  <1> QED
    BY <1>1, CrlInvariance, PTL

(***************************************************************************)
(* For each issuer an authority has revoked exactly what the list whose    *)
(* version it reports revokes, for any order of updates.                   *)
(***************************************************************************)
THEOREM ListsInForce == Spec => []StoredListsInForce
  <1>1. IInv => StoredListsInForce
    BY DEF IInv, StoredListsInForce, ListInForce, AuthorityOK, AuthorityInForce
  <1> QED
    BY <1>1, CrlInvariance, PTL

(***************************************************************************)
(* No accepted attestation rests on a certificate that the list in force   *)
(* revokes.                                                                *)
(***************************************************************************)
THEOREM RevokedNotAttested == Spec => []NoRevokedAttestation
  <1>1. IInv => NoRevokedAttestation
    BY DEF IInv, AttestationOK, NoRevokedAttestation
  <1> QED
    BY <1>1, CrlInvariance, PTL

LEMMA SameAuthorityAdvances ==
  ASSUME NEW name, authorities'[name] = authorities[name], revoked'[name] = revoked[name]
  PROVE  ListAdvances(name)
  BY DEF ListAdvances

LEMMA UpdateAdvances ==
  ASSUME IInv, NEW name \in CaNames, NEW issuer \in Issuers,
         NEW n \in DOMAIN published[issuer], update_crl(name, issuer, n),
         NEW other \in DOMAIN authorities
  PROVE  ListAdvances(other)
  <1> DEFINE info == authorities[name]
             merged == merge_revoked_certs(revoked[name], issuer, parse_crl(issuer, n))
             versions == Put(info.crl_versions, issuer, n)
  <1>1. /\ name \in DOMAIN authorities
        /\ newer_version(info.crl_versions, issuer, n)
        /\ revoked' = [revoked EXCEPT ![name] = merged]
        /\ authorities' = [authorities EXCEPT ![name] =
                             [root_cert |-> info.root_cert,
                              revoked_count |-> Cardinality(merged),
                              crl_versions |-> versions]]
    BY DEF update_crl
  <1>2. CASE other # name
    BY <1>1, <1>2, SameAuthorityAdvances DEF IInv
  <1>3. CASE other = name
    <2>1. /\ authorities'[name].root_cert = info.root_cert
          /\ authorities'[name].crl_versions = versions
          /\ revoked'[name] = merged
      BY <1>1 DEF IInv
    <2>2. ASSUME NEW i \in DOMAIN info.crl_versions
          PROVE  /\ i \in DOMAIN versions
                 /\ \/ versions[i] > info.crl_versions[i]
                    \/ /\ versions[i] = info.crl_versions[i]
                       /\ \A r \in RevokedInfo : r.issuer = i =>
                            (r \in merged <=> r \in revoked[name])
      <3>1. CASE i = issuer
        BY <1>1, <3>1 DEF newer_version, Put
      <3>2. CASE i # issuer
        <4>1. i \in DOMAIN versions /\ versions[i] = info.crl_versions[i]
          BY <3>2 DEF Put
        <4>2. \A r \in RevokedInfo : r.issuer = i => (r \in merged <=> r \in revoked[name])
          BY <3>2 DEF merge_revoked_certs, parse_crl
        <4> QED
          BY <4>1, <4>2
      <3> QED
        BY <3>1, <3>2
    <2> HIDE DEF versions, merged
    <2> QED
      BY <1>3, <2>1, <2>2 DEF ListAdvances
  <1> QED
    BY <1>2, <1>3

(***************************************************************************)
(* While an authority stays registered no step brings back an older list   *)
(* of an issuer, changes a list without a newer version or swaps the root  *)
(* certificate, in whatever order lists arrive.                            *)
(***************************************************************************)
THEOREM OnlyNewerLists == Spec => ListsOnlyAdvance
  <1>1. ASSUME IInv, Next, NEW name \in DOMAIN authorities \cap DOMAIN authorities'
        PROVE  ListAdvances(name)
    <2>1. ASSUME NEW x \in CaNames, NEW root \in Roots, register_ca(x, root)
          PROVE  ListAdvances(name)
      <3>1. authorities'[name] = authorities[name] /\ revoked'[name] = revoked[name]
        BY <1>1, <2>1 DEF register_ca, Put, IInv
      <3> QED
        BY <3>1, SameAuthorityAdvances
    <2>2. ASSUME NEW x \in CaNames, unregister_ca(x)
          PROVE  ListAdvances(name)
      <3>1. authorities'[name] = authorities[name] /\ revoked'[name] = revoked[name]
        BY <1>1, <2>2 DEF unregister_ca, Drop, IInv
      <3> QED
        BY <3>1, SameAuthorityAdvances
    <2>3. ASSUME NEW x \in CaNames, NEW issuer \in Issuers,
                 NEW n \in DOMAIN published[issuer], update_crl(x, issuer, n)
          PROVE  ListAdvances(name)
      BY <1>1, <2>3, UpdateAdvances
    <2>4. ASSUME UNCHANGED <<authorities, revoked>>
          PROVE  ListAdvances(name)
      BY <2>4, SameAuthorityAdvances
    <2> QED
      BY <1>1, <2>1, <2>2, <2>3, <2>4 DEF Next, verify_proof, publish
  <1>2. IInv /\ [Next]_vars =>
          [\A name \in DOMAIN authorities \cap DOMAIN authorities' : ListAdvances(name)]_vars
    BY <1>1
  <1> QED
    BY <1>2, CrlInvariance, PTL DEF Spec, ListsOnlyAdvance
=============================================================================
