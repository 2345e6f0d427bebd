-------------------------------- MODULE Crl ---------------------------------
(***************************************************************************)
(* pallet_crl (src/pallets/crl): the certificate authorities that the      *)
(* manager registers, and the revocation lists of their issuers, which     *)
(* anybody may bring to the chain in any order.  The tee verifier reads    *)
(* the merged list of an authority when it verifies a proof.               *)
(*                                                                         *)
(* Parsing and signatures are external (crate tee-verifier): a list is     *)
(* authentic when its issuer's chain ends in the root certificate of the   *)
(* authority.  Names and certificates have legal, non-empty lengths, and a *)
(* list names a serial once: the code keeps a Vec, in which a repeated one *)
(* would count twice towards MAX_REVOKED_CERTS_PER_CA.                     *)
(***************************************************************************)
EXTENDS Integers, Sequences, FiniteSets

CONSTANTS
  CaNames,
  Roots,             \* root certificates
  Issuers,           \* issuers of certificates and of revocation lists
  RootOf,            \* issuer -> the root its certificate chain ends in
  Serials,
  MaxRevokedCerts,   \* MAX_REVOKED_CERTS_PER_CA
  MaxIssuers,        \* MAX_ISSUERS_PER_CA
  MaxLists           \* bound: lists that each issuer publishes

ASSUME CrlAssumption ==
  /\ RootOf \in [Issuers -> Roots]
  /\ IsFiniteSet(Issuers) /\ IsFiniteSet(Serials)
  /\ MaxRevokedCerts \in Nat /\ MaxIssuers \in Nat /\ MaxLists \in Nat

VARIABLES
  authorities,  \* CertificateAuthorities: name -> CaInfo
  revoked,      \* Revoked: name -> set of [issuer, serial]
  published,    \* external: issuer -> the lists it published, oldest first;
                \* the place of a list stands for its thisUpdate
  attestation   \* the latest proof that the tee verifier accepted

vars == <<authorities, revoked, published, attestation>>

RevokedInfo == [issuer : Issuers, serial : Serials]

CaInfo(issuers) ==
  [root_cert : Roots, revoked_count : Nat, crl_versions : [issuers -> Nat]]

NoEntries == [x \in {} |-> x]

Put(f, x, y) == [i \in DOMAIN f \cup {x} |-> IF i = x THEN y ELSE f[i]]

Drop(f, x) == [i \in DOMAIN f \ {x} |-> f[i]]

Init ==
  /\ authorities = NoEntries
  /\ revoked = NoEntries
  /\ published = [i \in Issuers |-> <<>>]
  /\ attestation = [version |-> 0]

register_ca(name, root) ==
  /\ name \notin DOMAIN authorities
  /\ authorities' = Put(authorities, name,
                        [root_cert |-> root, revoked_count |-> 0, crl_versions |-> NoEntries])
  /\ revoked' = Put(revoked, name, {})
  /\ UNCHANGED <<published, attestation>>

(* Faulty variant: the merged list stays. *)
unregister_info_only(name) ==
  /\ name \in DOMAIN authorities
  /\ authorities' = Drop(authorities, name)
  /\ UNCHANGED <<revoked, published, attestation>>

unregister_ca(name) ==
  /\ name \in DOMAIN authorities
  /\ revoked' = Drop(revoked, name)
  /\ authorities' = Drop(authorities, name)
  /\ UNCHANGED <<published, attestation>>

(* The entries of list number n of an issuer. *)
parse_crl(issuer, n) == [issuer : {issuer}, serial : published[issuer][n]]

(* Faulty variant: old entries of the issuer stay. *)
merge_append_only(store, issuer, entries) == store \cup entries

(* Faulty variant: the new list replaces all there is. *)
merge_replace_all(store, issuer, entries) == entries

merge_revoked_certs(store, issuer, entries) ==
  {r \in store : r.issuer # issuer} \cup entries

(* Faulty variant: only the very same list is refused. *)
other_version(versions, issuer, n) ==
  issuer \in DOMAIN versions => n # versions[issuer]

newer_version(versions, issuer, n) ==
  issuer \in DOMAIN versions => n > versions[issuer]

(* A failure after the merged list is stored rolls the whole call back. *)
update_crl(name, issuer, n) ==
  /\ name \in DOMAIN authorities
  /\ LET info     == authorities[name]
         entries  == parse_crl(issuer, n)
         merged   == merge_revoked_certs(revoked[name], issuer, entries)
         versions == Put(info.crl_versions, issuer, n)
     IN  /\ RootOf[issuer] = info.root_cert
         /\ entries # {}
         /\ newer_version(info.crl_versions, issuer, n)
         /\ Cardinality(merged) <= MaxRevokedCerts
         /\ Cardinality(DOMAIN versions) <= MaxIssuers
         /\ revoked' = [revoked EXCEPT ![name] = merged]
         /\ authorities' = [authorities EXCEPT ![name] =
                              [root_cert |-> info.root_cert,
                               revoked_count |-> Cardinality(merged),
                               crl_versions |-> versions]]
  /\ UNCHANGED <<published, attestation>>

(***************************************************************************)
(* The tee verifier: a proof signed with a certificate of an issuer is     *)
(* verified against get_crl of the authority, which must be registered.    *)
(* Version 0 stands for no list so far.                                    *)
(***************************************************************************)
verify_proof(name, issuer, serial) ==
  /\ name \in DOMAIN revoked
  /\ [issuer |-> issuer, serial |-> serial] \notin revoked[name]
  /\ attestation' =
       [issuer |-> issuer, serial |-> serial,
        version |-> IF issuer \in DOMAIN authorities[name].crl_versions
                    THEN authorities[name].crl_versions[issuer] ELSE 0]
  /\ UNCHANGED <<authorities, revoked, published>>

(* External: an issuer publishes its next list, possibly empty. *)
publish(issuer, serials) ==
  /\ Len(published[issuer]) < MaxLists
  /\ published' = [published EXCEPT ![issuer] = Append(@, serials)]
  /\ UNCHANGED <<authorities, revoked, attestation>>

Next ==
  \/ \E name \in CaNames :
       \/ \E root \in Roots : register_ca(name, root)
       \/ unregister_ca(name)
       \/ \E issuer \in Issuers : \E n \in DOMAIN published[issuer] : update_crl(name, issuer, n)
       \/ \E issuer \in Issuers, serial \in Serials : verify_proof(name, issuer, serial)
  \/ \E issuer \in Issuers, serials \in SUBSET Serials : publish(issuer, serials)

Spec == Init /\ [][Next]_vars
-----------------------------------------------------------------------------
(***************************************************************************)
(* Properties.                                                             *)
(***************************************************************************)
(* Both storage maps have their declared types and the same keys, so       *)
(* get_crl fails exactly for an authority that is not registered; the      *)
(* bounded collections stay in their bounds.                               *)
TypeOK ==
  /\ DOMAIN authorities \subseteq CaNames
  /\ DOMAIN revoked = DOMAIN authorities
  /\ published \in [Issuers -> Seq(SUBSET Serials)]
  /\ \A name \in DOMAIN authorities :
       /\ authorities[name] \in CaInfo(DOMAIN authorities[name].crl_versions)
       /\ DOMAIN authorities[name].crl_versions \subseteq Issuers
       /\ revoked[name] \subseteq RevokedInfo
       /\ Cardinality(revoked[name]) <= MaxRevokedCerts
       /\ Cardinality(DOMAIN authorities[name].crl_versions) <= MaxIssuers

(***************************************************************************)
(* What an authority has revoked is, for each issuer, exactly the list     *)
(* whose version it reports: lists of other issuers and older lists of the *)
(* same issuer leave nothing behind, and revoked_count counts it.          *)
(***************************************************************************)
ListInForce(name, issuer) ==
  LET versions == authorities[name].crl_versions
  IN  IF issuer \in DOMAIN versions THEN published[issuer][versions[issuer]] ELSE {}

StoredListsInForce ==
  \A name \in DOMAIN authorities :
    /\ \A issuer \in DOMAIN authorities[name].crl_versions :
         authorities[name].crl_versions[issuer] \in DOMAIN published[issuer]
    /\ \A issuer \in Issuers, serial \in Serials :
         [issuer |-> issuer, serial |-> serial] \in revoked[name]
           <=> serial \in ListInForce(name, issuer)
    /\ authorities[name].revoked_count = Cardinality(revoked[name])

(***************************************************************************)
(* While an authority stays registered, the list in force of an issuer is  *)
(* only ever replaced by a newer one of that issuer, whatever the order in *)
(* which lists arrive, and its root certificate stays.                     *)
(***************************************************************************)
ListAdvances(name) ==
  LET old == authorities[name]
      new == authorities'[name]
  IN  /\ new.root_cert = old.root_cert
      /\ \A issuer \in DOMAIN old.crl_versions :
           /\ issuer \in DOMAIN new.crl_versions
           /\ \/ new.crl_versions[issuer] > old.crl_versions[issuer]
              \/ /\ new.crl_versions[issuer] = old.crl_versions[issuer]
                 /\ \A r \in RevokedInfo : r.issuer = issuer =>
                      (r \in revoked'[name] <=> r \in revoked[name])

ListsOnlyAdvance ==
  [][\A name \in DOMAIN authorities \cap DOMAIN authorities' : ListAdvances(name)]_vars

(***************************************************************************)
(* The tee verifier accepts no proof whose certificate is revoked by the   *)
(* list that was in force when it was verified.                            *)
(***************************************************************************)
NoRevokedAttestation ==
  attestation.version > 0 =>
    attestation.serial \notin published[attestation.issuer][attestation.version]
=============================================================================
