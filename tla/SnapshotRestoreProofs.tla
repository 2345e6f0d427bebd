----------------------- MODULE SnapshotRestoreProofs ------------------------
(***************************************************************************)
(* Proofs about the snapshot and restore scripts, for all pallets, keys,   *)
(* owners, balances and options, and any number of changes on the old      *)
(* chain and of faults on the new one.  The inductive invariant has four   *)
(* parts: Seen, what the two queries of takeSnapshot have found so far;    *)
(* Queued and Gapless, which calls and nonces the pool and the chain hold; *)
(* Lists, what the calls are made of and what the custody account has      *)
(* left.                                                                   *)
(***************************************************************************)
EXTENDS SnapshotRestore, SumTheorems

(***************************************************************************)
(* newBalances goes through the file in its order.  g keeps what is to be  *)
(* restored of the entries of l with an index in s, for every s \subseteq S. *)
(***************************************************************************)
IsKeeping(g, l, S) ==
  g = [s \in SUBSET S |-> IF s = {} THEN <<>> ELSE keep(g[s \ {Max(s)}], l[Max(s)])]

(* One step of it. *)
LEMMA KeepingUnfold ==
  ASSUME NEW g, NEW l, NEW S, IsKeeping(g, l, S), NEW s \in SUBSET S
  PROVE  g[s] = IF s = {} THEN <<>> ELSE keep(g[s \ {Max(s)}], l[Max(s)])
BY Zenon DEF IsKeeping

(* Two of them agree where both are defined. *)
LEMMA KeepingsAgree ==
  ASSUME NEW l, NEW S, NEW U, IsFiniteSet(U), U \subseteq S, Numbers(S),
         NEW g1, NEW g2, IsKeeping(g1, l, S), IsKeeping(g2, l, U)
  PROVE  g1[U] = g2[U]
<1> DEFINE T == {t \in SUBSET U : g1[t] # g2[t]}
<1> SUFFICES T = {} OBVIOUS
<1>1. SUFFICES ASSUME T # {} PROVE FALSE OBVIOUS
<1>2. T \subseteq SUBSET U OBVIOUS
<1> HIDE DEF T
<1>3. PICK m \in T : \A y \in T : ~ (y \subseteq m /\ y # m) BY <1>1, <1>2, MinimalSubset
<1>4. m \in SUBSET S /\ m \in SUBSET U /\ g1[m] # g2[m] BY <1>3 DEF T
<1>5. g1[m] = IF m = {} THEN <<>> ELSE keep(g1[m \ {Max(m)}], l[Max(m)])
  BY <1>4, Zenon DEF IsKeeping
<1>6. g2[m] = IF m = {} THEN <<>> ELSE keep(g2[m \ {Max(m)}], l[Max(m)])
  BY <1>4, Zenon DEF IsKeeping
<1>7. m # {} BY <1>4, <1>5, <1>6
<1>8. Max(m) \in m
  <2>1. IsFiniteSet(m) /\ Numbers(m) BY <1>4, FS_Subset DEF Numbers
  <2> QED BY <1>7, <2>1, GreatestIn
<1>9. m \ {Max(m)} \notin T BY <1>3, <1>8
<1>10. g1[m \ {Max(m)}] = g2[m \ {Max(m)}] BY <1>4, <1>9 DEF T
<1> QED BY <1>4, <1>5, <1>6, <1>7, <1>10

(* The entries of a finite set of indices can be gone through. *)
LEMMA KeepingExists ==
  ASSUME NEW l, NEW S, IsFiniteSet(S), Numbers(S)
  PROVE  \E g : IsKeeping(g, l, S)
<1> DEFINE ok(g, t) == IsKeeping(g, l, t)
           step(r, s) == keep(r, l[Max(s)])
           T == {t \in SUBSET S : ~ \E g : ok(g, t)}
<1> SUFFICES T = {} OBVIOUS
<1>1. SUFFICES ASSUME T # {} PROVE FALSE OBVIOUS
<1>2. T \subseteq SUBSET S OBVIOUS
<1> HIDE DEF T
<1>3. PICK m \in T : \A y \in T : ~ (y \subseteq m /\ y # m) BY <1>1, <1>2, MinimalSubset
<1>4. m \in SUBSET S /\ ~ \E g : ok(g, m) BY <1>3 DEF T
<1>a. ASSUME NEW s \in SUBSET m, s # {} PROVE Max(s) \in s
  <2>1. IsFiniteSet(s) /\ Numbers(s) BY <1>4, FS_Subset DEF Numbers
  <2> QED BY <1>a, <2>1, GreatestIn
<1>b. ASSUME NEW s, NEW g, ok(g, s), NEW r \in SUBSET s
      PROVE  g[r] = IF r = {} THEN <<>> ELSE step(g[r \ {Max(r)}], r)
  BY <1>b, KeepingUnfold
<1>c. ASSUME NEW p, NEW q, NEW s, NEW r, Numbers(s), IsFiniteSet(r), r \subseteq s,
             ok(p, s), ok(q, r)
      PROVE  p[r] = q[r]
  BY <1>c, KeepingsAgree
<1> DEFINE part(s) == CHOOSE g : ok(g, s)
           below(s) == part(s)[s]
           g == [s \in SUBSET m |-> IF s = {} THEN <<>> ELSE step(below(s \ {Max(s)}), s)]
<1>5. ASSUME NEW s \in SUBSET m, s # m PROVE ok(part(s), s)
  <2>1. s \notin T BY <1>3, <1>5
  <2>2. \E h : ok(h, s) BY <1>4, <2>1 DEF T
  <2> HIDE DEF ok
  <2> QED BY <2>2
<1> HIDE DEF part, ok, step
<1>6. ASSUME NEW s \in SUBSET m, s # m PROVE g[s] = below(s)
  <2>1. ok(part(s), s) BY <1>5, <1>6
  <2>2. CASE s = {} BY <1>b, <2>1, <2>2
  <2>3. CASE s # {}
    <3> DEFINE r == s \ {Max(s)}
    <3>1. Max(s) \in s BY <1>a, <2>3
    <3>2. r \in SUBSET m /\ r # m /\ r \in SUBSET s /\ r \subseteq s /\ Numbers(s)
      BY <1>4, <1>6 DEF Numbers
    <3>3. ok(part(r), r) BY <1>5, <3>2
    <3>4. IsFiniteSet(r) BY <1>4, <3>2, FS_Subset
    <3>5. part(r)[r] = part(s)[r]
      <4> HIDE DEF r, g, below
      <4> QED BY <1>c, <2>1, <3>2, <3>3, <3>4
    <3>6. part(s)[s] = step(part(s)[r], s) BY <1>b, <2>1, <2>3
    <3> QED BY <2>3, <3>5, <3>6
  <2> QED BY <2>2, <2>3
<1>7. ASSUME NEW s \in SUBSET m, s # {} PROVE below(s \ {Max(s)}) = g[s \ {Max(s)}]
  <2>1. Max(s) \in s BY <1>7, <1>a
  <2>2. s \ {Max(s)} \in SUBSET m /\ s \ {Max(s)} # m BY <2>1
  <2> HIDE DEF g, below
  <2> QED BY <1>6, <2>2
<1>8. g = [s \in SUBSET m |-> IF s = {} THEN <<>> ELSE step(g[s \ {Max(s)}], s)]
  <2> HIDE DEF below
  <2>1. \A s \in SUBSET m : (IF s = {} THEN <<>> ELSE step(below(s \ {Max(s)}), s))
                           = (IF s = {} THEN <<>> ELSE step(g[s \ {Max(s)}], s))
    <3> HIDE DEF g
    <3> QED BY <1>7
  <2> DEFINE k == g
  <2>2. k = [s \in SUBSET m |-> IF s = {} THEN <<>> ELSE step(below(s \ {Max(s)}), s)] OBVIOUS
  <2> QED BY <2>1, Zenon
<1>9. ok(g, m)
  <2> HIDE DEF g
  <2> QED BY <1>8 DEF ok, step, IsKeeping
<1> QED BY <1>4, <1>9

(* What is transferred to an account of the file. *)
Transfer(b) == [account |-> b.account, total |-> capped(b.total)]

(* Every transfer comes from an entry that is not filtered, of its own     *)
(* account.                                                                *)
FromFile(out, l, t) ==
  /\ \A n \in DOMAIN out : \E i \in t : ~ filterBalance(l[i]) /\ out[n] = Transfer(l[i])
  /\ \A n, p \in DOMAIN out : out[n].account = out[p].account => n = p

Transfers == [account : DOMAIN OldBalances, total : Nat]

Distinct(l) == \A i, j \in DOMAIN l : l[i].account = l[j].account => i = j

(* The transfers come from the file, each account at most once. *)
LEMMA KeepFacts ==
  ASSUME NEW l \in Seq(Transfers), Distinct(l), options \in CommandLines
  PROVE  LET out == FoldLeft(keep, <<>>, l)
         IN  out \in Seq(Transfers) /\ FromFile(out, l, DOMAIN l)
<1> DEFINE D == DOMAIN l
<1>1. D = 1 .. Len(l) /\ Len(l) \in Nat BY DEF Transfers
<1>2. IsFiniteSet(D) /\ Numbers(D) BY <1>1, FS_Interval DEF Numbers
<1>3. PICK h : IsKeeping(h, l, D) /\ FoldLeft(keep, <<>>, l) = h[D]
  <2> DEFINE c == CHOOSE g : IsKeeping(g, l, D)
  <2>1. IsKeeping(c, l, D) BY <1>2, KeepingExists
  <2>2. FoldLeft(keep, <<>>, l) = c[D] BY DEF FoldLeft, MapThenFoldSet, IsKeeping
  <2> HIDE DEF c
  <2> QED BY <2>1, <2>2
<1>4. FoldLeft(keep, <<>>, l) = h[D] BY <1>3
<1> DEFINE fine(t) == h[t] \in Seq(Transfers) /\ FromFile(h[t], l, t)
           T == {t \in SUBSET D : ~ fine(t)}
<1>5. T = {}
  <2>1. SUFFICES ASSUME T # {} PROVE FALSE OBVIOUS
  <2>2. T \subseteq SUBSET D OBVIOUS
  <2> HIDE DEF T, D
  <2>3. PICK m \in T : \A y \in T : ~ (y \subseteq m /\ y # m)
    BY <1>2, <2>1, <2>2, MinimalSubset
  <2>4. m \in SUBSET D /\ ~ fine(m) BY <2>3 DEF T
  <2>5. IsFiniteSet(m) /\ Numbers(m) BY <1>2, <2>4, FS_Subset DEF Numbers
  <2>6. h[m] = IF m = {} THEN <<>> ELSE keep(h[m \ {Max(m)}], l[Max(m)])
    <3>1. m \in SUBSET D BY <2>4
    <3>2. IsKeeping(h, l, D) BY <1>3
    <3> HIDE DEF fine
    <3> QED BY <3>1, <3>2, Zenon DEF IsKeeping
  <2>7. m # {} BY <2>4, <2>6 DEF FromFile
  <2> DEFINE k == Max(m)
             r == m \ {k}
  <2>8. k \in m /\ k \in D BY <2>4, <2>5, <2>7, GreatestIn
  <2>9. r \in SUBSET D /\ r \notin T BY <2>3, <2>4, <2>8
  <2>10. fine(r) BY <2>9 DEF T
  <2>11. h[m] = keep(h[r], l[k]) BY <2>6, <2>7
  <2>12. l[k] \in Transfers BY <2>8 DEF D
  <2>13. capped(l[k].total) \in Nat BY <2>12, RestoreAssumption DEF capped, Transfers
  <2>14. Transfer(l[k]) \in Transfers BY <2>12, <2>13 DEF Transfer, Transfers
  <2> HIDE DEF k
  <2>15. CASE filterBalance(l[k])
    <3>1. h[m] = h[r] BY <2>11, <2>15 DEF keep
    <3>2. r \subseteq m OBVIOUS
    <3> HIDE DEF r
    <3>3. FromFile(h[m], l, m) BY <2>10, <3>1, <3>2 DEF FromFile
    <3> QED BY <2>4, <2>10, <3>1, <3>3
  <2>16. CASE ~ filterBalance(l[k])
    <3> DEFINE o == h[r]
               b == Transfer(l[k])
    <3>1. h[m] = Append(o, b) BY <2>11, <2>16 DEF keep, Transfer
    <3>2. o \in Seq(Transfers) /\ FromFile(o, l, r) BY <2>10
    <3>3. \A i \in r : l[i].account # b.account
      <4> SUFFICES ASSUME NEW i \in r, l[i].account = b.account PROVE FALSE OBVIOUS
      <4>1. i \in D /\ k \in D /\ i # k BY <2>4, <2>8
      <4>2. l[i].account = l[k].account BY DEF Transfer
      <4> QED BY <4>1, <4>2 DEF Distinct, D
    <3>4. \A n \in DOMAIN o : o[n].account # b.account
      <4> SUFFICES ASSUME NEW n \in DOMAIN o PROVE o[n].account # b.account OBVIOUS
      <4>1. PICK i \in r : o[n] = Transfer(l[i]) BY <3>2 DEF FromFile
      <4>2. o[n].account = l[i].account BY <4>1 DEF Transfer
      <4> HIDE DEF o, b, r
      <4> QED BY <3>3, <4>1, <4>2
    <3>a. b = Transfer(l[k]) OBVIOUS
    <3>b. r \subseteq m OBVIOUS
    <3>c. b \in Transfers BY <2>14
    <3> HIDE DEF o, b, r
    <3>5. h[m] \in Seq(Transfers) BY <3>1, <3>2, <3>c
    <3>6. /\ DOMAIN h[m] = 1 .. (Len(o) + 1) /\ DOMAIN o = 1 .. Len(o) /\ Len(o) \in Nat
          /\ h[m][Len(o) + 1] = b /\ \A n \in DOMAIN o : h[m][n] = o[n]
      BY <3>1, <3>2
    <3>7. \A n \in DOMAIN h[m] : \E i \in m : ~ filterBalance(l[i]) /\ h[m][n] = Transfer(l[i])
      <4> SUFFICES ASSUME NEW n \in DOMAIN h[m]
                   PROVE  \E i \in m : ~ filterBalance(l[i]) /\ h[m][n] = Transfer(l[i])
        OBVIOUS
      <4>1. CASE n \in DOMAIN o
        <5>1. PICK i \in r : ~ filterBalance(l[i]) /\ o[n] = Transfer(l[i])
          BY <3>2, <4>1 DEF FromFile
        <5> QED BY <3>b, <3>6, <4>1, <5>1
      <4>2. CASE n = Len(o) + 1 BY <2>8, <2>16, <3>6, <3>a, <4>2
      <4> QED BY <3>6, <4>1, <4>2
    <3>8. \A n, p \in DOMAIN h[m] : h[m][n].account = h[m][p].account => n = p
      <4> SUFFICES ASSUME NEW n \in DOMAIN h[m], NEW p \in DOMAIN h[m],
                          h[m][n].account = h[m][p].account
                   PROVE  n = p
        OBVIOUS
      <4>1. CASE n \in DOMAIN o /\ p \in DOMAIN o BY <3>2, <3>6, <4>1 DEF FromFile
      <4>2. CASE n \in DOMAIN o /\ p = Len(o) + 1 BY <3>4, <3>6, <4>2
      <4>3. CASE n = Len(o) + 1 /\ p \in DOMAIN o BY <3>4, <3>6, <4>3
      <4> QED BY <3>6, <4>1, <4>2, <4>3
    <3>9. FromFile(h[m], l, m) BY <3>7, <3>8 DEF FromFile
    <3> QED BY <2>4, <3>5, <3>9
  <2> QED BY <2>15, <2>16
<1>6. D \in SUBSET D OBVIOUS
<1>7. fine(D) BY <1>5, <1>6
<1> QED BY <1>4, <1>7

(* What is written into the file. *)
Entries == {[account |-> a, total |-> total(a)] : a \in DOMAIN OldBalances}

(* Balances are natural numbers. *)
LEMMA TotalNat ==
  ASSUME NEW a \in DOMAIN OldBalances
  PROVE  total(a) \in Nat
BY RestoreAssumption DEF total

(* The file has every account once, with what it owned. *)
LEMMA FileFacts ==
  ASSUME NEW b \in sortedBalances
  PROVE  /\ b \in Seq(Transfers) /\ Distinct(b)
         /\ \A i \in DOMAIN b : b[i].total = total(b[i].account)
<1> DEFINE n == Cardinality(Entries)
<1>1. IsFiniteSet(Entries)
  <2>1. IsFiniteSet(DOMAIN OldBalances) BY RestoreAssumption
  <2> DEFINE D == DOMAIN OldBalances
             e == [a \in D |-> [account |-> a, total |-> total(a)]]
  <2>2. e \in Surjection(D, Entries) BY DEF Surjection, Entries
  <2> HIDE DEF e, D
  <2>3. IsFiniteSet(D) BY <2>1 DEF D
  <2> QED BY <2>2, <2>3, FS_Surjection
<1>2. n \in Nat BY <1>1, FS_CardinalityType
<1>3. b \in SetToSeqs(Entries) BY DEF sortedBalances, Entries
<1>4. b \in [1 .. n -> Entries] /\ \A i, j \in 1 .. n : i # j => b[i] # b[j]
  BY <1>3 DEF SetToSeqs
<1> HIDE DEF n
<1>5. \A x \in Entries : x \in Transfers /\ x.total = total(x.account)
  BY TotalNat DEF Entries, Transfers
<1>6. \A i \in 1 .. n : b[i] \in Transfers /\ b[i].total = total(b[i].account)
  BY <1>4, <1>5
<1>7. b \in Seq(Transfers) BY <1>2, <1>4, <1>6
<1>8. \A x, y \in Entries : x.account = y.account => x = y BY DEF Entries
<1>9. Distinct(b) BY <1>4, <1>8 DEF Distinct
<1> QED BY <1>4, <1>6, <1>7, <1>9

(* What may be transferred to whom. *)
Allowed(b) ==
  /\ b.account \notin BlockList \cup ModuleAccounts
  /\ b.total <= total(b.account)
  /\ options.cap > 0 => b.total <= options.cap

(* newBalances has an account at most once, and only what may be transferred. *)
LEMMA RestoreFacts ==
  ASSUME options \in CommandLines, balances \in sortedBalances
  PROVE  /\ newBalances \in Seq(Transfers) /\ Distinct(newBalances)
         /\ \A i \in DOMAIN newBalances : Allowed(newBalances[i])
<1>1. PICK l : l = balances OBVIOUS
<1>2. /\ l \in Seq(Transfers) /\ Distinct(l)
      /\ \A i \in DOMAIN l : l[i].total = total(l[i].account)
  BY <1>1, FileFacts
<1>3. newBalances \in Seq(Transfers) /\ FromFile(newBalances, l, DOMAIN l)
  BY <1>1, <1>2, KeepFacts DEF newBalances
<1>4. Distinct(newBalances) BY <1>3 DEF FromFile, Distinct
<1>5. ASSUME NEW n \in DOMAIN newBalances PROVE Allowed(newBalances[n])
  <2>1. PICK i \in DOMAIN l : ~ filterBalance(l[i]) /\ newBalances[n] = Transfer(l[i])
    BY <1>3 DEF FromFile
  <2>2. l[i] \in Transfers /\ l[i].total = total(l[i].account) BY <1>2
  <2>3. l[i].total \in Nat BY <2>2 DEF Transfers
  <2>4. options.cap \in Nat BY RestoreAssumption
  <2>5. capped(l[i].total) <= l[i].total /\ (options.cap > 0 => capped(l[i].total) <= options.cap)
    BY <2>3, <2>4 DEF capped
  <2>6. newBalances[n].account = l[i].account /\ newBalances[n].total = capped(l[i].total)
    BY <2>1 DEF Transfer
  <2>7. l[i].account \notin BlockList \cup ModuleAccounts BY <2>1 DEF filterBalance
  <2> QED BY <2>2, <2>5, <2>6, <2>7 DEF Allowed
<1> QED BY <1>3, <1>4, <1>5

(* An enumeration of a finite set. *)
LEMMA SetToSeqFacts ==
  ASSUME NEW S, IsFiniteSet(S)
  PROVE  /\ Len(SetToSeq(S)) \in Nat
         /\ DOMAIN SetToSeq(S) = 1 .. Len(SetToSeq(S))
         /\ \A i \in DOMAIN SetToSeq(S) : SetToSeq(S)[i] \in S
<1> DEFINE n == Cardinality(S)
           f == SetToSeq(S)
<1>1. n \in Nat /\ ExistsBijection(1 .. n, S) BY FS_CardinalityType
<1>2. \E g \in [1 .. n -> S] : IsInjective(g)
  BY <1>1 DEF ExistsBijection, Bijection, Injection, IsInjective
<1>3. f \in [1 .. n -> S] BY <1>2 DEF SetToSeq
<1> HIDE DEF n, f
<1>4. f \in Seq(S) BY <1>1, <1>3
<1>5. f \in Seq(S) => Len(f) \in Nat /\ DOMAIN f = 1 .. Len(f) /\ \A i \in DOMAIN f : f[i] \in S
  OBVIOUS
<1> QED BY <1>4, <1>5 DEF f
-----------------------------------------------------------------------------
(***************************************************************************)
(* The types.                                                              *)
(***************************************************************************)
Steps == {"start", "vks", "tickets", "file", "send", "done", "crashed"}

Signers == {Sudo, Custody}

Kinds == {"refused", "answer lost", "dropped"}

Extrinsics ==
  [from : Signers, nonce : Nat, script : Scripts, call : Nat \ {0}, lost : BOOLEAN]

Typed ==
  /\ options \in CommandLines
  /\ pc \in [Scripts -> Steps]
  /\ pc["balances"] # "start" => balances \in sortedBalances
  /\ DOMAIN list = Scripts
  /\ \A s \in Scripts : Len(list[s]) \in Nat /\ DOMAIN list[s] = 1 .. Len(list[s])
  /\ log \in [Scripts -> Seq({"sent", "failed"})]
  /\ \A s \in Scripts : Len(log[s]) <= Len(list[s])
  /\ \A s \in Scripts : pc[s] \notin {"send", "done"} => log[s] = <<>> /\ list[s] = <<>>
  /\ nonce \in [Scripts -> Nat]
  /\ new_nonce \in [Signers -> Nat]
  /\ pool \subseteq Extrinsics
  /\ faults \in Seq(Kinds)

-----------------------------------------------------------------------------
(***************************************************************************)
(* What takeSnapshot has seen: of the pallets read so far every ticket     *)
(* that has been there since the snapshot began, and no ticket that never  *)
(* was.                                                                    *)
(***************************************************************************)
Tickets == Owners \X Keys

Found(t) == t[2] \in DOMAIN vks /\ t[1] \in vks[t[2]].owners

Seen ==
  /\ old.tickets \subseteq Tickets /\ old.vks \subseteq Keys
  /\ witnessed \in [since : SUBSET Tickets, ever : SUBSET Tickets]
  /\ witnessed.since \subseteq old.tickets /\ old.tickets \subseteq witnessed.ever
  /\ reading \in Nat \ {0}
  /\ vkeys \subseteq Keys /\ DOMAIN vks \subseteq Keys
  /\ pc["vks"] = "start" => reading = 1
  /\ pc["vks"] = "tickets" => \A k \in vkeys : pallet(k) = Pallets[reading]
  /\ pc["vks"] \in {"start", "vks", "tickets"} =>
       \A t \in witnessed.since, i \in DOMAIN Pallets :
         i < reading /\ pallet(t[2]) = Pallets[i] => Found(t)
  /\ pc["vks"] \in {"file", "send", "done"} => \A t \in witnessed.since : Found(t)
  /\ \A k \in DOMAIN vks : \A o \in vks[k].owners : o \in Owners /\ <<o, k>> \in witnessed.ever

(* Both hold at the start. *)
LEMMA InitSeen ==
  Init => Typed /\ Seen
<1> SUFFICES ASSUME Init PROVE Typed /\ Seen OBVIOUS
<1>1. PICK tickets \in OldTickets : old = [vks |-> {t[2] : t \in tickets}, tickets |-> tickets]
  BY DEF Init
<1>2. tickets \subseteq Tickets BY <1>1, RestoreAssumption DEF Tickets
<1>3. old.tickets = tickets /\ old.vks = {t[2] : t \in tickets} BY <1>1
<1>4. old.vks \subseteq Keys BY <1>2, <1>3 DEF Tickets
<1>5. witnessed = [since |-> tickets, ever |-> tickets] BY <1>3 DEF Init
<1>6. vks = Empty /\ DOMAIN vks = {} BY DEF Init, Empty
<1>7. pc["vks"] = "start" /\ reading = 1 /\ vkeys = {} BY DEF Init, Scripts
<1>8. Pallets \in Seq(Range(Pallets)) /\ DOMAIN Pallets = 1 .. Len(Pallets) BY RestoreAssumption
<1>9. Seen BY <1>2, <1>3, <1>4, <1>5, <1>6, <1>7, <1>8 DEF Seen
<1>10. Typed BY RestoreAssumption DEF Init, Typed, Steps, Signers, Scripts
<1> QED BY <1>9, <1>10

(* The keys of the file have finitely many owners. *)
LEMMA RegistrationsFinite ==
  ASSUME Seen
  PROVE  IsFiniteSet(registrations)
<1>1. PICK D : D = DOMAIN vks OBVIOUS
<1>2. PICK p : p = options.replace OBVIOUS
<1>3. IsFiniteSet(D) BY <1>1, RestoreAssumption, FS_Subset DEF Seen
<1>4. IsFiniteSet(Owners \cup {p}) BY RestoreAssumption, FS_AddElement
<1>5. IsFiniteSet((Owners \cup {p}) \X D) BY <1>3, <1>4, FS_Product
<1>6. PICK r : r = registrations OBVIOUS
<1>7. r \subseteq (Owners \cup {p}) \X D BY <1>1, <1>2, <1>6 DEF registrations
<1>8. IsFiniteSet(r) BY <1>5, <1>7, FS_Subset
<1> QED BY <1>6, <1>8

(* The types, one action after the other. *)
LEMMA NextTyped ==
  Typed /\ Seen /\ [Next]_vars => Typed'
<1> SUFFICES ASSUME Typed, Seen, [Next]_vars PROVE Typed' OBVIOUS
<1> USE DEF Typed
<1>1. ASSUME NEW tickets, old_chain(tickets) PROVE Typed'
  BY <1>1 DEF old_chain, snapshots, sender, new
<1>2. CASE snapshot_start
  BY <1>2 DEF snapshot_start, snapshots, sender, new, Steps, Scripts
<1>3. CASE query_vks
  BY <1>3 DEF query_vks, ovars, sender, new, Steps, Scripts
<1>4. CASE query_tickets
  <2>1. UNCHANGED <<options, balances, sender, new>> BY <1>4 DEF query_tickets
  <2>2. /\ pc["vks"] = "tickets"
        /\ \E step \in {"crashed", "vks", "file"} : pc' = [pc EXCEPT !["vks"] = step]
    BY <1>4 DEF query_tickets
  <2> QED BY <2>1, <2>2 DEF sender, new, Steps, Scripts
<1>5. CASE takeSnapshot
  BY <1>5 DEF takeSnapshot, ovars, sender, new, Steps, Scripts
<1>6. ASSUME NEW s \in Scripts, NEW calls, begin(s, calls), UNCHANGED <<options, balances, new>>,
             Len(calls) \in Nat, DOMAIN calls = 1 .. Len(calls), pc[s] = "file"
      PROVE  Typed'
  <2>1. executor(s) \in Signers BY RestoreAssumption DEF executor, Signers
  <2>2. log[s] = <<>> BY <1>6
  <2> QED BY <1>6, <2>1, <2>2 DEF begin, new, Steps
<1>7. CASE restore
  <2>1. UNCHANGED <<options, balances, new>> /\ pc["vks"] = "file"
    BY <1>7 DEF restore, snapshots
  <2>2. CASE UNCHANGED sender /\ pc' = [pc EXCEPT !["vks"] = "crashed"]
    BY <2>1, <2>2 DEF sender, new, Steps, Scripts
  <2>3. CASE begin("vks", SetToSeq(registrations))
    <3>1. PICK r : r = registrations OBVIOUS
    <3>2. IsFiniteSet(r) BY <3>1, RegistrationsFinite
    <3>3. Len(SetToSeq(r)) \in Nat /\ DOMAIN SetToSeq(r) = 1 .. Len(SetToSeq(r))
      BY <3>2, SetToSeqFacts
    <3>4. "vks" \in Scripts BY DEF Scripts
    <3>5. begin("vks", SetToSeq(r)) BY <2>3, <3>1
    <3> HIDE DEF Typed
    <3> QED BY <1>6, <2>1, <3>3, <3>4, <3>5
  <2> QED BY <1>7, <2>2, <2>3 DEF restore
<1>8. CASE restoreBalances
  <2>1. UNCHANGED <<options, balances, new>> /\ pc["balances"] = "file"
    BY <1>8 DEF restoreBalances, snapshots
  <2>2. CASE UNCHANGED sender /\ pc' = [pc EXCEPT !["balances"] = "done"]
    BY <2>1, <2>2 DEF sender, new, Steps, Scripts
  <2>3. CASE begin("balances", newBalances)
    <3>1. PICK l : l = newBalances OBVIOUS
    <3>2. l \in Seq(Transfers) BY <2>1, <3>1, RestoreFacts
    <3>3. Len(l) \in Nat /\ DOMAIN l = 1 .. Len(l) BY <3>2
    <3>4. "balances" \in Scripts BY DEF Scripts
    <3>5. begin("balances", l) BY <2>3, <3>1
    <3> HIDE DEF Typed
    <3> QED BY <1>6, <2>1, <3>3, <3>4, <3>5
  <2> QED BY <1>8, <2>2, <2>3 DEF restoreBalances
<1>9. ASSUME NEW s \in Scripts, signAndSend(s) PROVE Typed'
  <2>1. executor(s) \in Signers BY RestoreAssumption DEF executor, Signers
  <2>2. call(s) \in Nat \ {0} BY DEF call
  <2>3. \A b \in BOOLEAN : extrinsic(s, b) \in Extrinsics
    BY <2>1, <2>2 DEF extrinsic, Extrinsics
  <2>4. pool' \subseteq Extrinsics BY <1>9, <2>3 DEF signAndSend
  <2>5. faults' \in Seq(Kinds)
    <3>1. faults' = faults \/ \E k \in {"refused", "answer lost"} : faults' = Append(faults, k)
      BY <1>9 DEF signAndSend, fault
    <3>2. ASSUME NEW k \in Kinds PROVE Append(faults, k) \in Seq(Kinds) OBVIOUS
    <3>3. Append(faults, "refused") \in Seq(Kinds) /\ Append(faults, "answer lost") \in Seq(Kinds)
      BY <3>2 DEF Kinds
    <3>4. faults \in Seq(Kinds) OBVIOUS
    <3> HIDE DEF Typed
    <3> QED BY <3>1, <3>3, <3>4
  <2>6. sent(s) \/ failed(s) BY <1>9 DEF signAndSend
  <2>7. /\ log' \in [Scripts -> Seq({"sent", "failed"})]
        /\ Len(log'[s]) = Len(log[s]) + 1 /\ \A r \in Scripts \ {s} : log'[r] = log[r]
    <3>1. PICK e \in {"sent", "failed"} : log' = [log EXCEPT ![s] = Append(log[s], e)]
      BY <2>6, Zenon DEF sent, failed
    <3>2. log[s] \in Seq({"sent", "failed"}) OBVIOUS
    <3>3. Append(log[s], e) \in Seq({"sent", "failed"}) /\ Len(Append(log[s], e)) = Len(log[s]) + 1
      BY <3>2
    <3> QED BY <3>1, <3>3
  <2>8. list' = list /\ nonce' \in [Scripts -> Nat]
    <3>1. CASE sent(s) BY <3>1 DEF sent
    <3>2. CASE failed(s) BY <3>2 DEF failed
    <3> QED BY <2>6, <3>1, <3>2
  <2>9. pc[s] = "send" /\ Len(log[s]) < Len(list[s]) BY <1>9 DEF signAndSend, sending
  <2>10. UNCHANGED <<options, pc, balances, new_nonce>> BY <1>9 DEF signAndSend, snapshots
  <2>11. \A r \in Scripts : Len(log'[r]) <= Len(list[r])
    <3> SUFFICES ASSUME NEW r \in Scripts PROVE Len(log'[r]) <= Len(list[r]) OBVIOUS
    <3>1. log[s] \in Seq({"sent", "failed"}) OBVIOUS
    <3>2. Len(log[s]) \in Nat /\ Len(list[s]) \in Nat /\ Len(log[r]) <= Len(list[r]) BY <3>1
    <3>3. CASE r = s
      <4> HIDE DEF Typed
      <4> QED BY <2>7, <2>9, <3>2, <3>3
    <3>4. CASE r # s BY <2>7, <3>2, <3>4
    <3> QED BY <3>3, <3>4
  <2>12. \A r \in Scripts : pc[r] \notin {"send", "done"} => log'[r] = log[r] BY <2>7, <2>9
  <2> QED BY <2>4, <2>5, <2>7, <2>8, <2>10, <2>11, <2>12
<1>10. ASSUME NEW s \in Scripts, exit(s) PROVE Typed'
  BY <1>10 DEF exit, snapshots, sender, new, Steps
<1>11. ASSUME NEW x \in pool, include(x) PROVE Typed'
  <2>1. x.from \in Signers BY DEF Extrinsics
  <2>2. UNCHANGED <<options, pc, balances, list, log, nonce, faults>> /\ pool' \subseteq pool
    BY <1>11 DEF include, snapshots, sender
  <2>3. new_nonce' \in [Signers -> Nat] BY <1>11, <2>1 DEF include
  <2> QED BY <2>2, <2>3
<1>12. ASSUME NEW x \in pool, drop(x) PROVE Typed'
  <2>1. UNCHANGED <<options, pc, balances, list, log, nonce, new_nonce>> /\ pool' \subseteq pool
    BY <1>12 DEF drop, snapshots, sender
  <2>2. faults' = Append(faults, "dropped") BY <1>12 DEF drop, fault
  <2>3. faults' \in Seq(Kinds)
    <3>1. ASSUME NEW k \in Kinds PROVE Append(faults, k) \in Seq(Kinds) OBVIOUS
    <3>2. Append(faults, "dropped") \in Seq(Kinds) BY <3>1 DEF Kinds
    <3> HIDE DEF Typed
    <3> QED BY <2>2, <3>2
  <2> QED BY <2>1, <2>3
<1>13. CASE UNCHANGED vars
  BY <1>13 DEF vars, snapshots, sender, new
<1> HIDE DEF Typed
<1> QED
  BY <1>1, <1>2, <1>3, <1>4, <1>5, <1>7, <1>8, <1>9, <1>10, <1>11, <1>12, <1>13
     DEF Next, register_vk, unregister_vk

(* The snapshot, one action after the other. *)
LEMMA NextSeen ==
  Typed /\ Seen /\ [Next]_vars => Seen'
<1> SUFFICES ASSUME Typed, Seen, [Next]_vars PROVE Seen' OBVIOUS
<1>t. DOMAIN pc = Scripts /\ "vks" \in Scripts /\ "balances" \in Scripts BY DEF Typed, Scripts
<1>p. Pallets \in Seq(Range(Pallets)) /\ DOMAIN Pallets = 1 .. Len(Pallets) /\ Len(Pallets) \in Nat
  BY RestoreAssumption
<1>s. ASSUME UNCHANGED <<ovars, reading, vkeys, vks>>,
             \/ pc' = pc
             \/ \E r \in Scripts, step \in {"file", "send", "done", "crashed"} :
                  /\ pc' = [pc EXCEPT ![r] = step]
                  /\ r = "balances" \/ pc["vks"] \in {"file", "send", "done"}
      PROVE  Seen'
  <2>1. \/ pc'["vks"] = pc["vks"]
        \/ pc["vks"] \in {"file", "send", "done"} /\ pc'["vks"] \in {"file", "send", "done", "crashed"}
    BY <1>t, <1>s
  <2> QED BY <1>s, <2>1 DEF Seen, ovars, Found
<1>1. ASSUME NEW tickets, old_chain(tickets), tickets \subseteq Tickets PROVE Seen'
  <2>1. /\ pc["vks"] \in {"vks", "tickets"} /\ UNCHANGED <<pc, reading, vkeys, vks>>
        /\ old' = [vks |-> {t[2] : t \in tickets}, tickets |-> tickets]
        /\ witnessed' = [since |-> witnessed.since \cap tickets, ever |-> witnessed.ever \cup tickets]
    BY <1>1 DEF old_chain, snapshots
  <2>2. old'.tickets = tickets /\ old'.vks \subseteq Keys BY <1>1, <2>1 DEF Tickets
  <2>3. /\ witnessed'.since = witnessed.since \cap tickets
        /\ witnessed'.ever = witnessed.ever \cup tickets
    BY <2>1
  <2>4. witnessed' \in [since : SUBSET Tickets, ever : SUBSET Tickets] BY <1>1, <2>1 DEF Seen
  <2> QED BY <1>1, <2>1, <2>2, <2>3, <2>4 DEF Seen, Found
<1>2. CASE snapshot_start
  <2>1. /\ pc["vks"] = "start" /\ pc'["vks"] = "vks"
        /\ UNCHANGED <<old, reading, vkeys, vks>>
        /\ witnessed' = [witnessed EXCEPT !.since = old.tickets]
    BY <1>2, <1>t DEF snapshot_start, snapshots
  <2>2. /\ witnessed' \in [since : SUBSET Tickets, ever : SUBSET Tickets]
        /\ witnessed'.since = old.tickets /\ witnessed'.ever = witnessed.ever
    BY <2>1 DEF Seen
  <2>3. ~ \E i \in DOMAIN Pallets : i < reading BY <1>p, <2>1 DEF Seen
  <2> QED BY <2>1, <2>2, <2>3 DEF Seen, Found
<1>3. CASE query_vks
  BY <1>3, <1>t DEF query_vks, ovars, Seen, Found
<1>4. CASE query_tickets
  <2> DEFINE tickets == {t \in old.tickets : pallet(t[2]) = Pallets[reading]}
             read == vks_of_pallet(tickets)
  <2>1. UNCHANGED <<old, witnessed, vkeys>> /\ pc["vks"] = "tickets" BY <1>4 DEF query_tickets, ovars
  <2>2. CASE pc' = [pc EXCEPT !["vks"] = "crashed"] /\ UNCHANGED <<reading, vks>>
    BY <1>t, <2>1, <2>2 DEF Seen, Found
  <2>3. CASE /\ ~ \E t \in tickets : t[2] \notin vkeys
             /\ vks' = [k \in DOMAIN vks \cup vkeys |-> IF k \in vkeys THEN read[k] ELSE vks[k]]
             /\ IF reading < Len(Pallets)
                THEN reading' = reading + 1 /\ pc' = [pc EXCEPT !["vks"] = "vks"]
                ELSE reading' = reading /\ pc' = [pc EXCEPT !["vks"] = "file"]
    <3>1. \A k \in vkeys : read[k].owners = {o \in Owners : <<o, k>> \in tickets}
      BY DEF vks_of_pallet
    <3>2. DOMAIN vks' = DOMAIN vks \cup vkeys BY <2>3
    <3>3. \A k \in vkeys : vks'[k].owners = {o \in Owners : <<o, k>> \in tickets}
      BY <2>3, <3>1
    <3>4. \A k \in DOMAIN vks \ vkeys : vks'[k] = vks[k] BY <2>3
    <3>5. ASSUME NEW t \in tickets PROVE Found(t)'
      <4>1. t[2] \in vkeys BY <2>3
      <4>2. t[1] \in Owners /\ t = <<t[1], t[2]>> BY DEF Seen, Tickets
      <4> HIDE DEF tickets
      <4> QED BY <3>2, <3>3, <4>1, <4>2 DEF Found
    <3>6. ASSUME NEW t \in witnessed.since, NEW i \in DOMAIN Pallets, i <= reading,
                 pallet(t[2]) = Pallets[i]
          PROVE  Found(t)'
      <4>1. t \in old.tickets BY DEF Seen
      <4>2. CASE pallet(t[2]) = Pallets[reading]
        <5>1. t \in tickets BY <4>1, <4>2
        <5> QED BY <3>5, <5>1
      <4>3. CASE pallet(t[2]) # Pallets[reading]
        <5>1. i < reading BY <1>p, <3>6, <4>3 DEF Seen
        <5>2. Found(t) BY <2>1, <3>6, <5>1 DEF Seen
        <5>3. t[2] \notin vkeys BY <2>1, <4>3 DEF Seen
        <5> HIDE DEF tickets
        <5> QED BY <3>2, <3>4, <5>2, <5>3 DEF Found
      <4> QED BY <4>2, <4>3
    <3>7. \A k \in DOMAIN vks' : \A o \in vks'[k].owners : o \in Owners /\ <<o, k>> \in witnessed.ever
      <4> SUFFICES ASSUME NEW k \in DOMAIN vks', NEW o \in vks'[k].owners
                   PROVE  o \in Owners /\ <<o, k>> \in witnessed.ever
        OBVIOUS
      <4>1. CASE k \in vkeys
        <5>1. o \in Owners /\ <<o, k>> \in tickets BY <3>3, <4>1
        <5>2. <<o, k>> \in old.tickets BY <5>1
        <5> QED BY <5>1, <5>2 DEF Seen
      <4>2. CASE k \notin vkeys BY <3>2, <3>4, <4>2 DEF Seen
      <4> QED BY <4>1, <4>2
    <3> HIDE DEF tickets, read
    <3>8. DOMAIN vks' \subseteq Keys BY <3>2 DEF Seen
    <3>9. CASE reading < Len(Pallets)
      <4>1. reading' = reading + 1 /\ pc'["vks"] = "vks" BY <1>t, <2>3, <3>9
      <4>2. \A t \in witnessed.since, i \in DOMAIN Pallets :
              i < reading' /\ pallet(t[2]) = Pallets[i] => Found(t)'
        BY <1>p, <3>6, <4>1 DEF Seen
      <4> QED BY <2>1, <3>7, <3>8, <4>1, <4>2 DEF Seen
    <3>10. CASE ~ (reading < Len(Pallets))
      <4>1. reading' = reading /\ pc'["vks"] = "file" BY <1>t, <2>3, <3>10
      <4>2. \A t \in witnessed.since : Found(t)'
        <5> SUFFICES ASSUME NEW t \in witnessed.since PROVE Found(t)' OBVIOUS
        <5>1. t[2] \in Keys BY DEF Seen, Tickets
        <5>2. PICK i \in DOMAIN Pallets : t[2][1] = Pallets[i] BY <5>1, RestoreAssumption
        <5>3. i <= reading BY <1>p, <3>10 DEF Seen
        <5> QED BY <3>6, <5>2, <5>3 DEF pallet
      <4> QED BY <2>1, <3>7, <3>8, <4>1, <4>2 DEF Seen
    <3> QED BY <3>9, <3>10
  <2> QED BY <1>4, <2>2, <2>3 DEF query_tickets
<1>5. CASE takeSnapshot BY <1>5, <1>s, <1>t DEF takeSnapshot
<1>6. CASE restore BY <1>6, <1>s, <1>t DEF restore, begin, snapshots
<1>7. CASE restoreBalances BY <1>7, <1>s, <1>t DEF restoreBalances, begin, snapshots
<1>8. ASSUME NEW s \in Scripts, signAndSend(s) \/ exit(s) PROVE Seen'
  BY <1>8, <1>s, <1>t DEF signAndSend, exit, snapshots, Scripts
<1>9. ASSUME NEW x \in pool, include(x) \/ drop(x) PROVE Seen'
  BY <1>9, <1>s DEF include, drop, snapshots
<1>10. CASE UNCHANGED vars BY <1>10, <1>s DEF vars, snapshots
<1>11. ASSUME NEW o \in Owners, NEW k \in Keys, register_vk(o, k) \/ unregister_vk(o, k)
       PROVE  Seen'
  <2>1. <<o, k>> \in Tickets /\ old.tickets \subseteq Tickets BY DEF Tickets, Seen
  <2>2. old.tickets \cup {<<o, k>>} \subseteq Tickets /\ old.tickets \ {<<o, k>>} \subseteq Tickets
    BY <2>1
  <2>3. PICK a, b : a = old.tickets \cup {<<o, k>>} /\ b = old.tickets \ {<<o, k>>} OBVIOUS
  <2>4. old_chain(a) \/ old_chain(b) BY <1>11, <2>3 DEF register_vk, unregister_vk
  <2> QED BY <1>1, <2>2, <2>3, <2>4
<1> QED
  BY <1>2, <1>3, <1>4, <1>5, <1>6, <1>7, <1>8, <1>9, <1>10, <1>11 DEF Next

Inv == Typed /\ Seen

(* Types and the snapshot, for every behaviour. *)
LEMMA SeenInvariance ==
  Spec => []Inv
<1>1. Init => Inv BY InitSeen DEF Inv
<1>2. Inv /\ [Next]_vars => Inv' BY NextTyped, NextSeen DEF Inv
<1> QED BY <1>1, <1>2, PTL DEF Spec

(***************************************************************************)
(* The file is complete although its two queries see different states of   *)
(* the chain: SnapshotComplete, for any order of registrations and         *)
(* removals between them.                                                  *)
(***************************************************************************)
THEOREM SnapshotsComplete ==
  Spec => []SnapshotComplete
<1>1. Inv => SnapshotComplete BY DEF Inv, Seen, Found, SnapshotComplete
<1> QED BY <1>1, SeenInvariance, PTL
-----------------------------------------------------------------------------
(***************************************************************************)
(* What becomes of the calls: an extrinsic in the pool carries a call that *)
(* was tried, with a nonce the chain has not reached; the nonces of a      *)
(* script's extrinsics are in the order of its calls, and its calls on the *)
(* chain come before those in the pool.                                    *)
(***************************************************************************)
Executions == [script : Scripts, call : Nat \ {0}, lost : BOOLEAN, ok : BOOLEAN]

(* x is in the pool with the call and the answer that the log tells. *)
Tried(x) ==
  /\ x.from = executor(x.script)
  /\ new_nonce[x.from] <= x.nonce /\ x.nonce <= nonce[x.script]
  /\ x.call \in DOMAIN log[x.script]
  /\ log[x.script][x.call] = "failed" <=> x.lost

InOrder(x, y) ==
  \/ x.call < y.call /\ x.nonce < y.nonce
  \/ y.call < x.call /\ y.nonce < x.nonce

Reported(x) == x.call \in DOMAIN log[x.script] /\ (log[x.script][x.call] = "failed" <=> x.lost)

Queued ==
  /\ \A x \in pool : Tried(x)
  /\ \A x, y \in pool : x.from = y.from /\ x # y => x.nonce # y.nonce
  /\ \A x, y \in pool : x.script = y.script /\ x # y => InOrder(x, y)
  /\ chain \in Seq(Executions)
  /\ \A i \in DOMAIN chain, x \in pool : chain[i].script = x.script => chain[i].call < x.call
  /\ \A i, j \in DOMAIN chain :
       i < j /\ chain[i].script = chain[j].script => chain[i].call < chain[j].call
  /\ \A i \in DOMAIN chain : Reported(chain[i])

(* Nothing is queued at the start. *)
LEMMA InitQueued ==
  Init => Queued
BY DEF Init, Queued

(* An attempt adds to the log and leaves what it told before. *)
LEMMA LogGrows ==
  ASSUME Typed, NEW s \in Scripts, signAndSend(s)
  PROVE  /\ \A r \in Scripts : \A i \in DOMAIN log[r] : i \in DOMAIN log'[r] /\ log'[r][i] = log[r][i]
         /\ call(s) \in DOMAIN log'[s]
         /\ sent(s) => log'[s][call(s)] = "sent"
         /\ failed(s) => log'[s][call(s)] = "failed"
         /\ \A i \in DOMAIN log[s] : i < call(s)
<1>1. sent(s) \/ failed(s) BY DEF signAndSend
<1>2. log[s] \in Seq({"sent", "failed"}) /\ DOMAIN log = Scripts BY DEF Typed
<1>3. PICK l : l = log[s] OBVIOUS
<1>4. l \in Seq({"sent", "failed"}) BY <1>2, <1>3
<1>5. ASSUME NEW e \in {"sent", "failed"}
      PROVE  /\ Append(l, e)[Len(l) + 1] = e /\ Len(l) + 1 \in DOMAIN Append(l, e)
             /\ \A i \in DOMAIN l : i \in DOMAIN Append(l, e) /\ Append(l, e)[i] = l[i] /\ i < Len(l) + 1
  BY <1>4
<1>6. call(s) = Len(l) + 1 BY <1>3 DEF call
<1>7. ASSUME NEW e \in {"sent", "failed"}, log' = [log EXCEPT ![s] = Append(l, e)]
      PROVE  /\ \A r \in Scripts : \A i \in DOMAIN log[r] :
                  i \in DOMAIN log'[r] /\ log'[r][i] = log[r][i]
             /\ call(s) \in DOMAIN log'[s] /\ log'[s][call(s)] = e
             /\ \A i \in DOMAIN log[s] : i < call(s)
  BY <1>2, <1>3, <1>5, <1>6, <1>7
<1>8. sent(s) => log' = [log EXCEPT ![s] = Append(l, "sent")] BY <1>3 DEF sent
<1>9. failed(s) => log' = [log EXCEPT ![s] = Append(l, "failed")] BY <1>3 DEF failed
<1> QED BY <1>1, <1>7, <1>8, <1>9

(* What an attempt does to the pool. *)
LEMMA AttemptFacts ==
  ASSUME Typed, NEW s \in Scripts, signAndSend(s)
  PROVE  /\ UNCHANGED <<options, new_nonce, chain>> /\ nonce' \in [Scripts -> Nat]
         /\ nonce'[s] >= nonce[s] /\ \A r \in Scripts \ {s} : nonce'[r] = nonce[r]
         /\ \/ pool' = pool /\ nonce' = nonce
            \/ /\ acceptable(s)
               /\ \E lost \in BOOLEAN :
                    /\ pool' = pool \cup {extrinsic(s, lost)}
                    /\ log'[s][call(s)] = "failed" <=> lost
                    /\ nonce'[s] = IF lost THEN nonce[s] ELSE nonce[s] + 1
<1>1. sent(s) \/ failed(s) BY DEF signAndSend
<1>2. nonce \in [Scripts -> Nat] BY DEF Typed
<1>3. sent(s) => nonce' = [nonce EXCEPT ![s] = nonce[s] + 1] BY DEF sent
<1>4. failed(s) => nonce' = nonce BY DEF failed
<1>a. nonce' \in [Scripts -> Nat] BY <1>1, <1>2, <1>3, <1>4
<1>5. nonce'[s] >= nonce[s] /\ \A r \in Scripts \ {s} : nonce'[r] = nonce[r]
  BY <1>1, <1>2, <1>3, <1>4
<1>6. UNCHANGED <<options, new_nonce, chain>> BY DEF signAndSend
<1>7. CASE acceptable(s) /\ pool' = pool \cup {extrinsic(s, FALSE)} /\ sent(s)
  <2>1. log'[s][call(s)] = "sent" BY <1>7, LogGrows
  <2>2. nonce'[s] = nonce[s] + 1 BY <1>2, <1>3, <1>7
  <2> QED BY <1>a, <1>5, <1>6, <1>7, <2>1, <2>2
<1>8. CASE acceptable(s) /\ pool' = pool \cup {extrinsic(s, TRUE)} /\ failed(s)
  <2>1. log'[s][call(s)] = "failed" BY <1>8, LogGrows
  <2>2. nonce'[s] = nonce[s] BY <1>4, <1>8
  <2> QED BY <1>a, <1>5, <1>6, <1>8, <2>1, <2>2
<1>9. CASE pool' = pool /\ failed(s) BY <1>a, <1>4, <1>5, <1>6, <1>9
<1> QED BY <1>7, <1>8, <1>9 DEF signAndSend

(* An attempt keeps what is known of the pool. *)
LEMMA AttemptQueued ==
  ASSUME Typed, Queued, NEW s \in Scripts, signAndSend(s)
  PROVE  Queued'
<1>1. UNCHANGED <<options, new_nonce, chain>> BY AttemptFacts
<1>2. \A r \in Scripts : nonce'[r] >= nonce[r]
  <2> SUFFICES ASSUME NEW r \in Scripts PROVE nonce'[r] >= nonce[r] OBVIOUS
  <2>1. nonce[r] \in Nat BY DEF Typed
  <2>2. nonce'[s] >= nonce[s] /\ (r # s => nonce'[r] = nonce[r]) BY AttemptFacts
  <2> QED BY <2>1, <2>2
<1>3. \A r \in Scripts : \A i \in DOMAIN log[r] : i \in DOMAIN log'[r] /\ log'[r][i] = log[r][i]
  BY LogGrows
<1>4. \A x \in pool : x \in Extrinsics BY DEF Typed
<1>5. executor(s)' = executor(s) /\ \A r \in Scripts : executor(r)' = executor(r)
  BY <1>1 DEF executor
<1>6. ASSUME NEW x \in pool PROVE Tried(x)'
  <2>1. x.script \in Scripts /\ x.from \in Signers /\ x.nonce \in Nat BY <1>4 DEF Extrinsics
  <2>2. Tried(x) BY DEF Queued
  <2>3. nonce'[x.script] >= x.nonce
    <3>1. nonce[x.script] \in Nat /\ nonce'[x.script] \in Nat BY <2>1, AttemptFacts DEF Typed
    <3> QED BY <1>2, <2>1, <2>2, <3>1 DEF Tried
  <2> QED BY <1>1, <1>3, <1>5, <2>1, <2>2, <2>3 DEF Tried
<1>7. \A i \in DOMAIN chain : Reported(chain[i])'
  <2> SUFFICES ASSUME NEW i \in DOMAIN chain PROVE Reported(chain[i])' OBVIOUS
  <2>1. PICK c : c = chain[i] OBVIOUS
  <2>2. c \in Executions /\ Reported(c) BY <2>1 DEF Queued
  <2>3. Reported(c)' BY <1>3, <2>2 DEF Reported, Executions
  <2> QED BY <1>1, <2>1, <2>3
<1>8. CASE pool' = pool BY <1>1, <1>6, <1>7, <1>8 DEF Queued
<1>9. CASE /\ acceptable(s)
           /\ \E lost \in BOOLEAN :
                /\ pool' = pool \cup {extrinsic(s, lost)}
                /\ log'[s][call(s)] = "failed" <=> lost
                /\ nonce'[s] = IF lost THEN nonce[s] ELSE nonce[s] + 1
  <2>1. PICK lost \in BOOLEAN : /\ pool' = pool \cup {extrinsic(s, lost)}
                                /\ log'[s][call(s)] = "failed" <=> lost
    BY <1>9
  <2>2. PICK z : z = extrinsic(s, lost) OBVIOUS
  <2>3. /\ z.from = executor(s) /\ z.nonce = nonce[s] /\ z.script = s /\ z.call = call(s)
        /\ z.lost = lost
    BY <2>2 DEF extrinsic
  <2>4. /\ executor(s) \in Signers /\ nonce[s] \in Nat /\ new_nonce[executor(s)] \in Nat
        /\ nonce'[s] \in Nat
    BY AttemptFacts, RestoreAssumption DEF Typed, executor, Signers
  <2>5. Tried(z)'
    <3>1. call(s) \in DOMAIN log'[s] BY LogGrows
    <3>2. new_nonce[executor(s)] <= nonce[s] BY <1>9, <2>4 DEF acceptable
    <3> QED BY <1>1, <1>2, <1>5, <2>1, <2>3, <2>4, <3>1, <3>2 DEF Tried
  <2>6. ASSUME NEW x \in pool, x.script = s PROVE InOrder(x, z)
    <3>1. x \in Extrinsics /\ Tried(x) BY <1>4 DEF Queued
    <3>2. x.nonce \in Nat /\ x.call \in Nat BY <3>1 DEF Extrinsics
    <3>3. x.from = executor(s) /\ x.nonce <= nonce[s] /\ x.call \in DOMAIN log[s]
      BY <2>6, <3>1 DEF Tried
    <3>4. x.nonce # nonce[s] BY <1>9, <3>3 DEF acceptable
    <3>5. x.call < call(s) BY <3>3, LogGrows
    <3> QED BY <2>3, <2>4, <3>2, <3>3, <3>4, <3>5 DEF InOrder
  <2>7. ASSUME NEW i \in DOMAIN chain, chain[i].script = s PROVE chain[i].call < z.call
    <3>1. chain[i].call \in DOMAIN log[s] BY <2>7 DEF Queued, Reported
    <3> QED BY <2>3, <3>1, LogGrows
  <2>8. \A x \in pool' : x \in pool \/ x = z BY <2>1, <2>2
  <2>9. \A x \in pool' : Tried(x)' BY <1>6, <2>5, <2>8
  <2>10. \A x, y \in pool' : x.script = y.script /\ x # y => InOrder(x, y)
    <3>1. \A x \in pool : x.script = s => InOrder(z, x) BY <2>6 DEF InOrder
    <3> QED BY <2>3, <2>6, <2>8, <3>1 DEF Queued
  <2>a. \A x, y \in pool' : x.from = y.from /\ x # y => x.nonce # y.nonce
    <3>1. \A x \in pool : x.from = z.from => x.nonce # z.nonce BY <1>9, <2>3 DEF acceptable
    <3> QED BY <2>8, <3>1 DEF Queued
  <2>11. \A i \in DOMAIN chain, x \in pool' : chain[i].script = x.script => chain[i].call < x.call
    BY <2>3, <2>7, <2>8 DEF Queued
  <2>12. chain \in Seq(Executions) /\ \A i, j \in DOMAIN chain :
           i < j /\ chain[i].script = chain[j].script => chain[i].call < chain[j].call
    BY DEF Queued
  <2> QED BY <1>1, <1>7, <2>9, <2>a, <2>10, <2>11, <2>12 DEF Queued
<1> QED BY <1>8, <1>9, AttemptFacts

(* A block takes the first of an account. *)
LEMMA IncludeQueued ==
  ASSUME Typed, Queued, NEW x \in pool, include(x)
  PROVE  Queued'
<1>1. UNCHANGED <<options, log, nonce>> BY DEF include, sender
<1>2. x \in Extrinsics /\ Tried(x) BY DEF Typed, Queued
<1>3. /\ x.from \in Signers /\ x.script \in Scripts /\ x.call \in Nat \ {0} /\ x.nonce \in Nat
      /\ x.lost \in BOOLEAN
  BY <1>2 DEF Extrinsics
<1>4. x.nonce = new_nonce[x.from] /\ pool' = pool \ {x} BY DEF include
<1>5. ASSUME NEW a \in Signers
      PROVE  new_nonce'[a] = IF a = x.from THEN new_nonce[a] + 1 ELSE new_nonce[a]
  BY DEF include, Typed
<1>6. \A r \in Scripts : executor(r)' = executor(r) BY <1>1 DEF executor
<1>7. ASSUME NEW y \in pool, y # x PROVE Tried(y)'
  <2>1. y \in Extrinsics /\ Tried(y) BY DEF Typed, Queued
  <2>2. y.from \in Signers /\ y.script \in Scripts /\ y.nonce \in Nat BY <2>1 DEF Extrinsics
  <2>3. new_nonce'[y.from] <= y.nonce
    <3>1. new_nonce[y.from] \in Nat /\ new_nonce[y.from] <= y.nonce BY <2>1, <2>2 DEF Tried, Typed
    <3>2. y.from = x.from => y.nonce # x.nonce BY <1>7 DEF Queued
    <3> QED BY <1>4, <1>5, <2>2, <3>1, <3>2
  <2> QED BY <1>1, <1>6, <2>1, <2>2, <2>3 DEF Tried
<1>8. \A y \in pool' : y \in pool /\ y # x BY <1>4
<1>9. \A y \in pool' : Tried(y)' BY <1>7, <1>8
<1> DEFINE e == [script |-> x.script, call |-> x.call, lost |-> x.lost, ok |-> succeeds(x)]
<1>10. PICK c : c = e OBVIOUS
<1>11. c \in Executions
  <2>1. succeeds(x) \in BOOLEAN BY DEF succeeds
  <2> QED BY <1>3, <1>10, <2>1 DEF Executions
<1>12. c.script = x.script /\ c.call = x.call /\ c.lost = x.lost BY <1>10
<1>13. chain' = Append(chain, c) BY <1>10 DEF include
<1> HIDE DEF e
<1>14. chain \in Seq(Executions) BY DEF Queued
<1>15. /\ chain' \in Seq(Executions)
       /\ DOMAIN chain = 1 .. Len(chain) /\ DOMAIN chain' = 1 .. (Len(chain) + 1)
       /\ Len(chain) \in Nat
       /\ \A i \in DOMAIN chain : chain'[i] = chain[i]
       /\ chain'[Len(chain) + 1] = c
  BY <1>11, <1>13, <1>14
<1>16. \A i \in DOMAIN chain' : i \in DOMAIN chain \/ i = Len(chain) + 1 BY <1>15
<1>17. ASSUME NEW i \in DOMAIN chain', NEW y \in pool', chain'[i].script = y.script
       PROVE  chain'[i].call < y.call
  <2>1. CASE i \in DOMAIN chain BY <1>8, <1>15, <1>17, <2>1 DEF Queued
  <2>2. CASE i = Len(chain) + 1
    <3>1. y \in pool /\ y # x /\ y.script = x.script BY <1>8, <1>12, <1>15, <1>17, <2>2
    <3>2. InOrder(x, y) /\ Tried(y) BY <3>1 DEF Queued
    <3>3. y.from = x.from BY <1>2, <3>1, <3>2 DEF Tried
    <3>4. y.nonce >= x.nonce BY <1>4, <3>2, <3>3 DEF Tried
    <3>5. y \in Extrinsics /\ y.nonce \in Nat /\ y.call \in Nat BY <3>1 DEF Typed, Extrinsics
    <3>6. x.call < y.call BY <1>3, <3>2, <3>4, <3>5 DEF InOrder
    <3> QED BY <1>12, <1>15, <2>2, <3>6
  <2> QED BY <1>16, <2>1, <2>2
<1>18. ASSUME NEW i \in DOMAIN chain', NEW j \in DOMAIN chain', i < j,
              chain'[i].script = chain'[j].script
       PROVE  chain'[i].call < chain'[j].call
  <2>1. i \in DOMAIN chain BY <1>15, <1>18
  <2>2. CASE j \in DOMAIN chain BY <1>15, <1>18, <2>1, <2>2 DEF Queued
  <2>3. CASE j = Len(chain) + 1
    <3>1. chain[i].script = x.script BY <1>12, <1>15, <1>18, <2>1, <2>3
    <3>2. chain[i].call < x.call BY <2>1, <3>1 DEF Queued
    <3> QED BY <1>12, <1>15, <2>1, <2>3, <3>2
  <2> QED BY <1>16, <2>2, <2>3
<1>19. ASSUME NEW i \in DOMAIN chain' PROVE Reported(chain[i])'
  <2>1. CASE i \in DOMAIN chain
    <3>1. PICK d : d = chain[i] OBVIOUS
    <3>2. Reported(d) BY <2>1, <3>1 DEF Queued
    <3>3. Reported(d)' BY <1>1, <3>2 DEF Reported
    <3> QED BY <1>15, <2>1, <3>1, <3>3
  <2>2. CASE i = Len(chain) + 1
    <3>1. Reported(c)' BY <1>1, <1>2, <1>12 DEF Reported, Tried
    <3> QED BY <1>15, <2>2, <3>1
  <2> QED BY <1>16, <2>1, <2>2
<1>20. \A y, z \in pool' : /\ y.from = z.from /\ y # z => y.nonce # z.nonce
                           /\ y.script = z.script /\ y # z => InOrder(y, z)
  BY <1>8 DEF Queued
<1> QED BY <1>9, <1>15, <1>17, <1>18, <1>19, <1>20 DEF Queued

(* Whatever happens, the calls are accounted for. *)
LEMMA NextQueued ==
  ASSUME Typed, Queued, [Next]_vars
  PROVE  Queued'
<1>1. ASSUME UNCHANGED <<options, log, new_nonce, chain>>, pool' \subseteq pool,
             \A x \in pool : nonce'[x.script] = nonce[x.script]
      PROVE  Queued'
  <2>1. \A r \in Scripts : executor(r)' = executor(r) BY <1>1 DEF executor
  <2>2. ASSUME NEW x \in pool PROVE Tried(x)'
    <3>1. x.script \in Scripts /\ Tried(x) BY DEF Typed, Extrinsics, Queued
    <3> QED BY <1>1, <2>1, <3>1 DEF Tried
  <2>3. ASSUME NEW i \in DOMAIN chain PROVE Reported(chain[i])'
    BY <1>1 DEF Queued, Reported
  <2> QED BY <1>1, <2>2, <2>3 DEF Queued
<1>2. ASSUME NEW s \in Scripts, NEW calls, begin(s, calls), pc[s] = "file", UNCHANGED <<options, new>>
      PROVE  Queued'
  <2>1. log[s] = <<>> BY <1>2 DEF Typed
  <2>2. \A x \in pool : x.script \in Scripts /\ x.script # s
    BY <2>1 DEF Queued, Tried, Typed, Extrinsics
  <2>3. nonce' = [nonce EXCEPT ![s] = new_nonce[executor(s)]] /\ log' = log BY <1>2 DEF begin
  <2>4. \A x \in pool : nonce'[x.script] = nonce[x.script] BY <2>2, <2>3 DEF Typed
  <2> QED BY <1>1, <1>2, <2>3, <2>4 DEF new
<1>3. ASSUME NEW t, old_chain(t) PROVE Queued' BY <1>1, <1>3 DEF old_chain, sender, new
<1>4. CASE snapshot_start \/ query_vks \/ query_tickets \/ takeSnapshot
  BY <1>1, <1>4 DEF snapshot_start, query_vks, query_tickets, takeSnapshot, sender, new
<1>5. CASE restore
  <2>1. CASE UNCHANGED sender BY <1>1, <1>5, <2>1 DEF restore, sender, new
  <2>2. CASE begin("vks", SetToSeq(registrations))
    <3>1. PICK l : l = SetToSeq(registrations) OBVIOUS
    <3> QED BY <1>2, <1>5, <2>2, <3>1 DEF restore, Scripts
  <2> QED BY <1>5, <2>1, <2>2 DEF restore
<1>6. CASE restoreBalances
  <2>1. CASE UNCHANGED sender BY <1>1, <1>6, <2>1 DEF restoreBalances, sender, new
  <2>2. CASE begin("balances", newBalances)
    <3>1. PICK l : l = newBalances OBVIOUS
    <3> QED BY <1>2, <1>6, <2>2, <3>1 DEF restoreBalances, Scripts
  <2> QED BY <1>6, <2>1, <2>2 DEF restoreBalances
<1>7. ASSUME NEW s \in Scripts, signAndSend(s) PROVE Queued' BY <1>7, AttemptQueued
<1>8. ASSUME NEW s \in Scripts, exit(s) PROVE Queued' BY <1>1, <1>8 DEF exit, sender, new
<1>9. ASSUME NEW x \in pool, include(x) PROVE Queued' BY <1>9, IncludeQueued
<1>10. ASSUME NEW x \in pool, drop(x) PROVE Queued' BY <1>1, <1>10 DEF drop, sender
<1>11. CASE UNCHANGED vars BY <1>1, <1>11 DEF vars, sender, new
<1> QED
  BY <1>3, <1>4, <1>5, <1>6, <1>7, <1>8, <1>9, <1>10, <1>11 DEF Next, register_vk, unregister_vk
-----------------------------------------------------------------------------
(***************************************************************************)
(* Nonces without a gap: up to every extrinsic in the pool, and up to the  *)
(* count of every script, each nonce the chain has not reached is taken.   *)
(***************************************************************************)
Filled(a, n, p) == \E y \in p : y.from = a /\ y.nonce = n

Gapless ==
  ~ Happened("dropped") =>
    /\ \A x \in pool : \A n \in new_nonce[x.from] .. x.nonce : Filled(x.from, n, pool)
    /\ \A s \in Scripts : \A n \in new_nonce[executor(s)] .. (nonce[s] - 1) :
         Filled(executor(s), n, pool)

(* No nonce is missing at the start. *)
LEMMA InitGapless ==
  Init => Gapless
<1> SUFFICES ASSUME Init PROVE Gapless OBVIOUS
<1>1. pool = {} /\ \A s \in Scripts : nonce[s] = 0 BY DEF Init
<1>2. \A s \in Scripts : executor(s) \in Signers BY RestoreAssumption DEF Init, executor, Signers
<1>3. \A s \in Scripts : new_nonce[executor(s)] = 0 BY <1>2 DEF Init, Signers
<1> QED BY <1>1, <1>3 DEF Gapless

(* What has happened stays so. *)
LEMMA FaultsStay ==
  ASSUME Typed, NEW kind \in Kinds, faults' = faults \/ faults' = Append(faults, kind), Happened("dropped")
  PROVE  Happened("dropped")'
<1>1. PICK f : f = faults OBVIOUS
<1>2. f \in Seq(Kinds) BY <1>1 DEF Typed
<1>3. PICK i \in DOMAIN f : f[i] = "dropped" BY <1>1 DEF Happened
<1>4. i \in DOMAIN Append(f, kind) /\ Append(f, kind)[i] = "dropped" BY <1>2, <1>3
<1>5. faults' = f \/ faults' = Append(f, kind) BY <1>1
<1> QED BY <1>3, <1>4, <1>5 DEF Happened

(* Every step keeps the nonces without a gap. *)
LEMMA NextGapless ==
  ASSUME Typed, Typed', Queued, Gapless, [Next]_vars
  PROVE  Gapless'
<1>e. \A s \in Scripts : executor(s) \in Signers BY RestoreAssumption DEF executor, Signers, Typed
<1>1. ASSUME UNCHANGED <<options, new_nonce, pool, faults, nonce>> PROVE Gapless'
  <2>1. \A s \in Scripts : executor(s)' = executor(s) BY <1>1 DEF executor
  <2> QED BY <1>1, <2>1 DEF Gapless, Happened
<1>2. ASSUME NEW s \in Scripts, NEW calls, begin(s, calls), UNCHANGED <<options, new>>
      PROVE  Gapless'
  <2>1. \A r \in Scripts : executor(r)' = executor(r) BY <1>2 DEF executor
  <2>2. UNCHANGED <<new_nonce, pool, faults>> /\ nonce' = [nonce EXCEPT ![s] = new_nonce[executor(s)]]
    BY <1>2 DEF begin, new
  <2>3. new_nonce[executor(s)] \in Nat BY <1>e DEF Typed
  <2>4. nonce'[s] = new_nonce[executor(s)] /\ \A r \in Scripts \ {s} : nonce'[r] = nonce[r]
    BY <2>2 DEF Typed
  <2>5. \A n \in new_nonce[executor(s)] .. (nonce'[s] - 1) : FALSE BY <2>3, <2>4
  <2>6. Happened("dropped")' <=> Happened("dropped") BY <2>2 DEF Happened
  <2> QED BY <2>1, <2>2, <2>4, <2>5, <2>6 DEF Gapless
<1>3. ASSUME NEW t, old_chain(t) PROVE Gapless' BY <1>1, <1>3 DEF old_chain, sender, new
<1>4. CASE snapshot_start \/ query_vks \/ query_tickets \/ takeSnapshot
  BY <1>1, <1>4 DEF snapshot_start, query_vks, query_tickets, takeSnapshot, sender, new
<1>5. CASE restore
  <2>1. CASE UNCHANGED sender BY <1>1, <1>5, <2>1 DEF restore, sender, new
  <2>2. CASE begin("vks", SetToSeq(registrations))
    <3>1. PICK l : l = SetToSeq(registrations) OBVIOUS
    <3> QED BY <1>2, <1>5, <2>2, <3>1 DEF restore, Scripts
  <2> QED BY <1>5, <2>1, <2>2 DEF restore
<1>6. CASE restoreBalances
  <2>1. CASE UNCHANGED sender BY <1>1, <1>6, <2>1 DEF restoreBalances, sender, new
  <2>2. CASE begin("balances", newBalances)
    <3>1. PICK l : l = newBalances OBVIOUS
    <3> QED BY <1>2, <1>6, <2>2, <3>1 DEF restoreBalances, Scripts
  <2> QED BY <1>6, <2>1, <2>2 DEF restoreBalances
<1>7. ASSUME NEW s \in Scripts, signAndSend(s) PROVE Gapless'
  <2>1. UNCHANGED <<options, new_nonce>> BY AttemptFacts, <1>7
  <2>2. \A r \in Scripts : executor(r)' = executor(r) BY <2>1 DEF executor
  <2>3. ASSUME ~ Happened("dropped")' PROVE ~ Happened("dropped")
    <3>1. faults' = faults \/ faults' = Append(faults, "refused") \/ faults' = Append(faults, "answer lost")
      BY <1>7 DEF signAndSend, fault
    <3>2. "refused" \in Kinds /\ "answer lost" \in Kinds BY DEF Kinds
    <3> QED BY <2>3, <3>1, <3>2, FaultsStay
  <2>4. CASE pool' = pool /\ nonce' = nonce BY <2>1, <2>2, <2>3, <2>4 DEF Gapless
  <2>5. CASE /\ acceptable(s)
             /\ \E lost \in BOOLEAN :
                  /\ pool' = pool \cup {extrinsic(s, lost)}
                  /\ nonce'[s] = IF lost THEN nonce[s] ELSE nonce[s] + 1
    <3>1. PICK lost \in BOOLEAN : /\ pool' = pool \cup {extrinsic(s, lost)}
                                  /\ nonce'[s] = IF lost THEN nonce[s] ELSE nonce[s] + 1
      BY <2>5
    <3>2. PICK z : z = extrinsic(s, lost) OBVIOUS
    <3>3. z.from = executor(s) /\ z.nonce = nonce[s] BY <3>2 DEF extrinsic
    <3>4. z \in pool' /\ pool \subseteq pool' /\ \A x \in pool' : x \in pool \/ x = z BY <3>1, <3>2
    <3>5. \A a, n : Filled(a, n, pool) => Filled(a, n, pool') BY <3>4 DEF Filled
    <3>6. Filled(executor(s), nonce[s], pool') BY <3>3, <3>4 DEF Filled
    <3>7. nonce[s] \in Nat /\ new_nonce[executor(s)] \in Nat BY <1>e DEF Typed
    <3>8. nonce'[s] <= nonce[s] + 1 /\ nonce'[s] \in Nat BY <3>1, <3>7
    <3>a. \A r \in Scripts \ {s} : nonce'[r] = nonce[r] BY <1>7, AttemptFacts
    <3> SUFFICES ASSUME ~ Happened("dropped")'
                 PROVE  /\ \A x \in pool' : \A n \in new_nonce[x.from] .. x.nonce : Filled(x.from, n, pool')
                        /\ \A r \in Scripts : \A n \in new_nonce[executor(r)] .. (nonce'[r] - 1) :
                             Filled(executor(r), n, pool')
      BY <2>1, <2>2 DEF Gapless
    <3>9. ~ Happened("dropped") BY <2>3
    <3>10. ASSUME NEW n \in new_nonce[executor(s)] .. nonce[s] PROVE Filled(executor(s), n, pool')
      <4>1. CASE n = nonce[s] BY <3>6, <4>1
      <4>2. CASE n # nonce[s]
        <5>1. n \in new_nonce[executor(s)] .. (nonce[s] - 1) BY <3>7, <3>10, <4>2
        <5>2. Filled(executor(s), n, pool) BY <3>9, <5>1 DEF Gapless
        <5> QED BY <3>5, <5>2
      <4> QED BY <4>1, <4>2
    <3>11. ASSUME NEW x \in pool', NEW n \in new_nonce[x.from] .. x.nonce
           PROVE  Filled(x.from, n, pool')
      <4>1. CASE x \in pool
        <5>1. Filled(x.from, n, pool) BY <3>9, <3>11, <4>1 DEF Gapless
        <5> QED BY <3>5, <5>1
      <4>2. CASE x = z BY <3>3, <3>10, <3>11, <4>2
      <4> QED BY <3>4, <4>1, <4>2
    <3>12. ASSUME NEW r \in Scripts, NEW n \in new_nonce[executor(r)] .. (nonce'[r] - 1)
           PROVE  Filled(executor(r), n, pool')
      <4>1. CASE r = s
        <5>1. n \in new_nonce[executor(s)] .. nonce[s] BY <3>7, <3>8, <3>12, <4>1
        <5> QED BY <3>10, <4>1, <5>1
      <4>2. CASE r # s
        <5>1. n \in new_nonce[executor(r)] .. (nonce[r] - 1) BY <3>a, <3>12, <4>2
        <5>2. Filled(executor(r), n, pool) BY <3>9, <5>1 DEF Gapless
        <5> QED BY <3>5, <5>2
      <4> QED BY <4>1, <4>2
    <3> QED BY <3>11, <3>12
  <2> QED BY <1>7, <2>4, <2>5, AttemptFacts
<1>8. ASSUME NEW s \in Scripts, exit(s) PROVE Gapless' BY <1>1, <1>8 DEF exit, sender, new
<1>9. ASSUME NEW x \in pool, include(x) PROVE Gapless'
  <2>1. UNCHANGED <<options, nonce, faults>> /\ pool' = pool \ {x} /\ x.nonce = new_nonce[x.from]
    BY <1>9 DEF include, sender
  <2>2. \A r \in Scripts : executor(r)' = executor(r) BY <2>1 DEF executor
  <2>3. Happened("dropped")' <=> Happened("dropped") BY <2>1 DEF Happened
  <2>4. x.from \in Signers BY DEF Typed, Extrinsics
  <2>5. ASSUME NEW a \in Signers, NEW top \in Int, NEW n \in new_nonce'[a] .. top
        PROVE  /\ n \in new_nonce[a] .. top
               /\ Filled(a, n, pool) => Filled(a, n, pool')
    <3>1. new_nonce[a] \in Nat /\ new_nonce[x.from] \in Nat BY <2>4 DEF Typed
    <3>2. new_nonce'[a] = IF a = x.from THEN new_nonce[a] + 1 ELSE new_nonce[a]
      BY <1>9 DEF include, Typed
    <3>3. n \in new_nonce[a] .. top BY <2>5, <3>1, <3>2
    <3>4. a = x.from => n # x.nonce BY <2>1, <2>5, <3>1, <3>2
    <3>5. Filled(a, n, pool) => Filled(a, n, pool') BY <2>1, <3>4 DEF Filled
    <3> QED BY <3>3, <3>5
  <2> SUFFICES ASSUME ~ Happened("dropped")
               PROVE  /\ \A y \in pool' : \A n \in new_nonce'[y.from] .. y.nonce : Filled(y.from, n, pool')
                      /\ \A r \in Scripts : \A n \in new_nonce'[executor(r)] .. (nonce[r] - 1) :
                           Filled(executor(r), n, pool')
    BY <2>1, <2>2, <2>3 DEF Gapless
  <2>6. ASSUME NEW y \in pool', NEW n \in new_nonce'[y.from] .. y.nonce
        PROVE  Filled(y.from, n, pool')
    <3>1. y \in pool /\ y.from \in Signers /\ y.nonce \in Int BY <2>1 DEF Typed, Extrinsics
    <3>2. n \in new_nonce[y.from] .. y.nonce BY <2>5, <2>6, <3>1
    <3>3. Filled(y.from, n, pool) BY <3>1, <3>2 DEF Gapless
    <3> QED BY <2>5, <2>6, <3>1, <3>3
  <2>7. ASSUME NEW r \in Scripts, NEW n \in new_nonce'[executor(r)] .. (nonce[r] - 1)
        PROVE  Filled(executor(r), n, pool')
    <3>1. PICK a, top : a = executor(r) /\ top = nonce[r] - 1 OBVIOUS
    <3>2. a \in Signers /\ top \in Int BY <1>e, <3>1 DEF Typed
    <3>3. n \in new_nonce'[a] .. top BY <2>7, <3>1
    <3>4. n \in new_nonce[a] .. top BY <2>5, <3>2, <3>3
    <3>5. Filled(a, n, pool) BY <3>1, <3>4 DEF Gapless
    <3>6. Filled(a, n, pool') BY <2>5, <3>2, <3>3, <3>5
    <3> QED BY <3>1, <3>6
  <2> QED BY <2>6, <2>7
<1>10. ASSUME NEW x \in pool, drop(x) PROVE Gapless'
  <2>1. faults' = Append(faults, "dropped") BY <1>10 DEF drop, fault
  <2>2. PICK f : f = faults OBVIOUS
  <2>3. f \in Seq(Kinds) BY <2>2 DEF Typed
  <2>4. Len(f) + 1 \in DOMAIN Append(f, "dropped") /\ Append(f, "dropped")[Len(f) + 1] = "dropped"
    BY <2>3
  <2>5. Happened("dropped")' BY <2>1, <2>2, <2>4 DEF Happened
  <2> QED BY <2>5 DEF Gapless
<1>11. CASE UNCHANGED vars BY <1>1, <1>11 DEF vars, sender, new
<1> QED
  BY <1>3, <1>4, <1>5, <1>6, <1>7, <1>8, <1>9, <1>10, <1>11 DEF Next, register_vk, unregister_vk

Sound == Inv /\ Queued /\ Gapless

(* All of it, for every behaviour. *)
LEMMA QueueInvariance ==
  Spec => []Sound
<1>1. Init => Sound BY InitSeen, InitQueued, InitGapless DEF Sound, Inv
<1>2. Sound /\ [Next]_vars => Sound'
  BY NextTyped, NextSeen, NextQueued, NextGapless DEF Sound, Inv
<1> QED BY <1>1, <1>2, PTL DEF Spec

(***************************************************************************)
(* The nonces of the scripts leave no gap, whatever is refused or lost and *)
(* with both scripts signing for the same account.                         *)
(***************************************************************************)
THEOREM NoncesWithoutGap ==
  Spec => []NoNonceGap
<1>1. Sound => NoNonceGap BY DEF Sound, Gapless, Filled, NoNonceGap
<1> QED BY <1>1, QueueInvariance, PTL

(***************************************************************************)
(* A call reaches the chain at most once and in the order of the file, and *)
(* one reported as failed only when the answer of the node was lost.       *)
(***************************************************************************)
THEOREM CallsReachOnce ==
  Spec => []EachCallOnce
<1>1. Sound => EachCallOnce BY DEF Sound, Queued, Reported, EachCallOnce
<1> QED BY <1>1, QueueInvariance, PTL
-----------------------------------------------------------------------------
(***************************************************************************)
(* Transfers that are on the chain, and what they cost.                    *)
(***************************************************************************)
Amounts(l) == [i \in DOMAIN l |-> l[i].total]

Cost(l, E) == SumFunctionOnSet(Amounts(l), E)

(* What the sum of the transfers stands for. *)
LEMMA AmountFacts ==
  ASSUME NEW l \in Seq(Transfers)
  PROVE  /\ DOMAIN Amounts(l) = DOMAIN l /\ IsFiniteSet(DOMAIN l)
         /\ \A i \in DOMAIN l : Amounts(l)[i] = l[i].total /\ Amounts(l)[i] \in Nat
         /\ sum_of(l) = Cost(l, DOMAIN l)
<1>1. Len(l) \in Nat /\ DOMAIN l = 1 .. Len(l) /\ \A i \in DOMAIN l : l[i] \in Transfers OBVIOUS
<1>2. IsFiniteSet(DOMAIN l) BY <1>1, FS_Interval
<1>3. \A i \in DOMAIN l : l[i].total \in Nat BY <1>1 DEF Transfers
<1>4. sum_of(l) = Cost(l, DOMAIN l) BY DEF sum_of, Cost, SumFunction, Amounts
<1> QED BY <1>2, <1>3, <1>4 DEF Amounts

(* One more transfer is executed. *)
LEMMA CostFacts ==
  ASSUME NEW l \in Seq(Transfers), NEW E, E \subseteq DOMAIN l, NEW c \in DOMAIN l, c \notin E
  PROVE  /\ Cost(l, E) \in Nat /\ Cardinality(E) \in Nat
         /\ Cost(l, E \cup {c}) = Cost(l, E) + l[c].total
         /\ Cardinality(E \cup {c}) = Cardinality(E) + 1
         /\ Cost(l, E \cup {c}) <= sum_of(l)
         /\ Cardinality(E \cup {c}) <= Len(l)
<1>1. PICK D : D = DOMAIN l OBVIOUS
<1>2. PICK f : f = Amounts(l) OBVIOUS
<1>3. IsFiniteSet(D) /\ \A i \in D : f[i] = l[i].total /\ f[i] \in Nat BY <1>1, <1>2, AmountFacts
<1>4. PICK F : F = E \cup {c} OBVIOUS
<1>5. F \subseteq D /\ E \subseteq D /\ c \in D BY <1>1, <1>4
<1>6. IsFiniteSet(F) /\ IsFiniteSet(E) BY <1>3, <1>5, FS_Subset
<1>7. SumFunctionOnSet(f, E \cup {c}) = f[c] + SumFunctionOnSet(f, E)
  <2>1. \A y \in E \cup {c} : f[y] \in Nat BY <1>3, <1>5
  <2> QED BY <1>6, <2>1, SumAdd
<1>8. SumFunctionOnSet(f, E) \in Nat BY <1>3, <1>5, <1>6, SumNat
<1>9. SumFunctionOnSet(f, F) <= SumFunctionOnSet(f, D) BY <1>3, <1>5, SumSubset
<1>10. Cardinality(E \cup {c}) = Cardinality(E) + 1 /\ Cardinality(E) \in Nat
  BY <1>6, FS_AddElement, FS_CardinalityType
<1>11. Cardinality(F) <= Cardinality(D) BY <1>3, <1>5, FS_Subset
<1>12. Cardinality(D) = Len(l)
  <2>1. Len(l) \in Nat /\ D = 1 .. Len(l) BY <1>1
  <2>2. Cardinality(1 .. Len(l)) = Len(l)
    <3>1. PICK n : n = Len(l) OBVIOUS
    <3>2. Cardinality(1 .. n) = IF 1 > n THEN 0 ELSE n - 1 + 1 BY <2>1, <3>1, FS_Interval, SMTT(30)
    <3> QED BY <2>1, <3>1, <3>2
  <2> QED BY <2>1, <2>2
<1>13. /\ Cost(l, E) = SumFunctionOnSet(f, E) /\ Cost(l, E \cup {c}) = SumFunctionOnSet(f, E \cup {c})
       /\ SumFunctionOnSet(f, F) = SumFunctionOnSet(f, E \cup {c})
       /\ sum_of(l) = SumFunctionOnSet(f, D)
  BY <1>1, <1>2, <1>4, AmountFacts DEF Cost
<1>14. f[c] = l[c].total /\ l[c].total \in Nat BY <1>3, <1>5
<1>15. Cardinality(F) = Cardinality(E \cup {c}) BY <1>4
<1> QED BY <1>7, <1>8, <1>9, <1>10, <1>11, <1>12, <1>13, <1>14, <1>15

(* No account is paid by two calls. *)
PaidBy(ch, l, a) ==
  [i \in DOMAIN ch |->
     IF /\ ch[i].script = "balances" /\ ch[i].ok
        /\ l[ch[i].call].account = a
     THEN l[ch[i].call].total ELSE 0]

(* An account is paid by one call or by none. *)
LEMMA PaidOnce ==
  ASSUME NEW ch \in Seq(Executions), NEW l \in Seq(Transfers), Distinct(l), NEW a,
         \A i \in DOMAIN ch : ch[i].script = "balances" => ch[i].call \in DOMAIN l,
         \A i, j \in DOMAIN ch :
           i < j /\ ch[i].script = ch[j].script => ch[i].call < ch[j].call
  PROVE  \/ SumFunction(PaidBy(ch, l, a)) = 0
         \/ \E i \in DOMAIN l : l[i].account = a /\ SumFunction(PaidBy(ch, l, a)) = l[i].total
<1> DEFINE f == PaidBy(ch, l, a)
           D == DOMAIN ch
           mine(i) == ch[i].script = "balances" /\ ch[i].ok /\ l[ch[i].call].account = a
<1>1. D = 1 .. Len(ch) /\ Len(ch) \in Nat /\ IsFiniteSet(D)
  <2>1. D = 1 .. Len(ch) /\ Len(ch) \in Nat OBVIOUS
  <2>2. PICK n : n = Len(ch) OBVIOUS
  <2>3. n \in Int /\ 1 \in Int BY <2>1, <2>2
  <2>4. IsFiniteSet(1 .. n) BY <2>3, FS_Interval
  <2> HIDE DEF D
  <2> QED BY <2>1, <2>2, <2>4
<1>2. \A i \in D : ch[i] \in Executions BY <1>1
<1>3. DOMAIN f = D /\ \A i \in D : f[i] = IF mine(i) THEN l[ch[i].call].total ELSE 0
  BY DEF PaidBy
<1>4. SumFunction(f) = SumFunctionOnSet(f, D) BY <1>3 DEF SumFunction
<1>5. \A i \in DOMAIN l : l[i].total \in Nat BY AmountFacts
<1>6. CASE \A i \in D : ~ mine(i)
  <2>1. \A i \in D : f[i] = 0 BY <1>3, <1>6
  <2> HIDE DEF f, D
  <2>2. SumFunctionOnSet(f, D) = 0 BY <1>1, <2>1, SumZero
  <2> QED BY <1>4, <2>2 DEF f
<1>7. CASE \E i \in D : mine(i)
  <2>1. PICK k \in D : mine(k) BY <1>7
  <2>2. ch[k].call \in DOMAIN l /\ f[k] = l[ch[k].call].total BY <1>3, <2>1
  <2>3. ASSUME NEW i \in D, i # k PROVE f[i] = 0
    <3>1. SUFFICES ASSUME mine(i) PROVE FALSE BY <1>3
    <3>2. ch[i].call \in DOMAIN l BY <3>1
    <3>3. ch[i].call = ch[k].call BY <2>1, <2>2, <3>1, <3>2 DEF Distinct
    <3>4. ch[i].call \in Nat BY <1>2 DEF Executions
    <3>5. i < k \/ k < i BY <1>1, <2>3
    <3>6. ch[i].call < ch[k].call \/ ch[k].call < ch[i].call BY <2>1, <3>1, <3>5
    <3> QED BY <3>3, <3>4, <3>6
  <2>4. \A i \in D : f[i] \in Nat BY <1>5, <2>2, <2>3
  <2> HIDE DEF f, D
  <2>a. k \in D OBVIOUS
  <2>5. SumFunctionOnSet(f, D) = f[k] + SumFunctionOnSet(f, D \ {k}) BY <1>1, <2>a, <2>4, SumRemove, SMTT(30)
  <2>6. IsFiniteSet(D \ {k}) BY <1>1, FS_Subset
  <2>7. SumFunctionOnSet(f, D \ {k}) = 0 BY <2>3, <2>6, SumZero
  <2>8. SumFunction(f) = l[ch[k].call].total BY <1>4, <1>5, <2>2, <2>5, <2>7
  <2> QED BY <2>1, <2>2, <2>8 DEF f
<1> QED BY <1>6, <1>7
-----------------------------------------------------------------------------
(***************************************************************************)
(* What the calls are made of: registrations of those who had them, or of  *)
(* the account given with -r, and transfers that the file allows and the   *)
(* custody account could pay when the script looked.                       *)
(***************************************************************************)
Rightful(t) == IF options.replace = None THEN t \in witnessed.ever ELSE t[1] = options.replace

Charge == IF options.executor = Custody THEN Fee ELSE 0

Payable(l) ==
  /\ l \in Seq(Transfers) /\ Distinct(l)
  /\ sum_of(l) <= CustodyFunds

Enough(l, E) == custody + (Cost(l, E) + Charge * Cardinality(E)) >= CustodyFunds

Short(l, c) ==
  \/ l[c].total < ExistentialDeposit
  \/ options.executor = Custody /\ CustodyFunds < sum_of(l) + Fee * Len(l)

Lists ==
  /\ \A i \in DOMAIN list["vks"] : Rightful(list["vks"][i])
  /\ \A t \in registered : Rightful(t)
  /\ Payable(list["balances"])
  /\ \A i \in DOMAIN list["balances"] : Allowed(list["balances"][i])
  /\ custody \in 0 .. CustodyFunds
  /\ Enough(list["balances"], Executed("balances"))
  /\ \A i \in DOMAIN chain :
       chain[i].script = "balances" /\ ~ chain[i].ok => Short(list["balances"], chain[i].call)

(* A list without transfers. *)
LEMMA NoTransfers ==
  Payable(<<>>)
<1>1. <<>> \in Seq(Transfers) /\ Distinct(<<>>) BY DEF Distinct
<1>2. PICK f : f = Amounts(<<>>) OBVIOUS
<1>3. SumFunctionOnSet(f, {}) = 0 BY SumEmpty
<1>4. DOMAIN Amounts(<<>>) = {} BY DEF Amounts
<1>5. sum_of(<<>>) = 0 BY <1>2, <1>3, <1>4 DEF sum_of, SumFunction, Amounts
<1>6. CustodyFunds \in Nat BY RestoreAssumption
<1> QED BY <1>1, <1>5, <1>6 DEF Payable

(* The fee is a natural number. *)
LEMMA ChargeNat ==
  Charge \in Nat
BY RestoreAssumption DEF Charge

(* Before anything was executed. *)
LEMMA NothingSpent ==
  ASSUME NEW l, custody = CustodyFunds
  PROVE  Enough(l, {})
<1>1. PICK f : f = Amounts(l) OBVIOUS
<1>2. SumFunctionOnSet(f, {}) = 0 BY SumEmpty
<1>3. Cost(l, {}) = 0 BY <1>1, <1>2 DEF Cost
<1>4. Cardinality({}) = 0 BY FS_EmptySet
<1>5. Charge \in Nat BY ChargeNat
<1>6. Charge * 0 = 0 BY <1>5
<1>7. CustodyFunds \in Nat BY RestoreAssumption
<1> QED BY <1>3, <1>4, <1>6, <1>7 DEF Enough

(* Nothing is listed at the start. *)
LEMMA InitLists ==
  Init => Lists
<1> SUFFICES ASSUME Init PROVE Lists OBVIOUS
<1>1. /\ list["vks"] = <<>> /\ list["balances"] = <<>> /\ registered = {} /\ chain = <<>>
      /\ custody = CustodyFunds
  BY DEF Init, Scripts
<1>2. Executed("balances") = {} BY <1>1 DEF Executed
<1>3. custody \in 0 .. CustodyFunds BY <1>1, RestoreAssumption
<1>4. Payable(<<>>) BY NoTransfers
<1>5. Enough(<<>>, {})
  <2>1. PICK l : l = <<>> OBVIOUS
  <2>2. Enough(l, {}) BY <1>1, NothingSpent
  <2> QED BY <2>1, <2>2
<1> QED BY <1>1, <1>2, <1>3, <1>4, <1>5 DEF Lists

(* Nothing of a script that has not begun is on the chain or in the pool. *)
LEMMA NotBegun ==
  ASSUME Typed, Queued, NEW s \in Scripts, pc[s] \notin {"send", "done"}
  PROVE  /\ \A i \in DOMAIN chain : chain[i].script # s
         /\ Executed(s) = {}
<1>1. log[s] = <<>> BY DEF Typed
<1>2. \A i \in DOMAIN chain : chain[i].script # s BY <1>1 DEF Queued, Reported
<1> QED BY <1>2 DEF Executed

(* Steps that leave the calls, the chain and the funds alone. *)
LEMMA ListsStay ==
  ASSUME Lists, UNCHANGED <<options, list, registered, chain, custody>>,
         witnessed.ever \subseteq witnessed'.ever
  PROVE  Lists'
<1>1. \A t : Rightful(t) => Rightful(t)' BY DEF Rightful
<1>2. \A b : Allowed(b) => Allowed(b)' BY DEF Allowed
<1>3. \A l, E : Enough(l, E) => Enough(l, E)' BY DEF Enough, Charge
<1>4. \A l, c : Short(l, c) => Short(l, c)' BY DEF Short
<1>5. Executed("balances")' = Executed("balances") BY DEF Executed
<1> QED BY <1>1, <1>2, <1>3, <1>4, <1>5 DEF Lists

(* The registrations are those of the file. *)
LEMMA RestoreLists ==
  ASSUME Typed, Seen, Queued, Lists, restore
  PROVE  Lists'
<1>1. UNCHANGED <<options, witnessed, vks, registered, chain, custody>> /\ pc["vks"] = "file"
  BY DEF restore, ovars, snapshots, new
<1>2. CASE UNCHANGED sender BY <1>1, <1>2, ListsStay DEF sender
<1>3. CASE begin("vks", SetToSeq(registrations))
  <2>1. PICK r : r = registrations OBVIOUS
  <2>2. PICK l : l = SetToSeq(r) OBVIOUS
  <2>3. IsFiniteSet(r) BY <2>1, RegistrationsFinite
  <2>4. \A i \in DOMAIN l : l[i] \in r BY <2>2, <2>3, SetToSeqFacts
  <2>5. ASSUME NEW t \in r PROVE Rightful(t)'
    <3>1. /\ t[2] \in DOMAIN vks /\ t[1] \in owners(t[2]) /\ t = <<t[1], t[2]>>
      BY <2>1 DEF registrations
    <3>2. CASE options.replace = None
      <4>1. t[1] \in vks[t[2]].owners BY <3>1, <3>2 DEF owners
      <4>2. t \in witnessed.ever BY <3>1, <4>1 DEF Seen
      <4> QED BY <1>1, <3>2, <4>2 DEF Rightful
    <3>3. CASE options.replace # None BY <1>1, <3>1, <3>3 DEF Rightful, owners
    <3> QED BY <3>2, <3>3
  <2>6. list' = [list EXCEPT !["vks"] = l] BY <1>3, <2>1, <2>2 DEF begin
  <2>7. list'["vks"] = l /\ list'["balances"] = list["balances"] BY <2>6 DEF Typed, Scripts
  <2>8. \A i \in DOMAIN list'["vks"] : Rightful(list["vks"][i])' BY <2>4, <2>5, <2>7
  <2>9. \A t \in registered : Rightful(t)' BY <1>1 DEF Lists, Rightful
  <2>10. \A b : Allowed(b) => Allowed(b)' BY <1>1 DEF Allowed
  <2>11. \A k, E : Enough(k, E) => Enough(k, E)' BY <1>1 DEF Enough, Charge
  <2>12. \A k, c : Short(k, c) => Short(k, c)' BY <1>1 DEF Short
  <2>13. Executed("balances")' = Executed("balances") BY <1>1 DEF Executed
  <2> QED BY <1>1, <2>7, <2>8, <2>9, <2>10, <2>11, <2>12, <2>13 DEF Lists
<1> QED BY <1>2, <1>3 DEF restore

(* The transfers are those of the file, and there are funds for them. *)
LEMMA RestoreBalancesLists ==
  ASSUME Typed, Queued, Lists, restoreBalances
  PROVE  Lists'
<1>1. /\ UNCHANGED <<options, witnessed, registered, chain, custody>>
      /\ pc["balances"] = "file"
  BY DEF restoreBalances, ovars, new
<1>2. CASE UNCHANGED sender BY <1>1, <1>2, ListsStay DEF sender
<1>3. CASE sufficient /\ begin("balances", newBalances)
  <2>1. PICK l : l = newBalances OBVIOUS
  <2>2. l \in Seq(Transfers) /\ Distinct(l) /\ \A i \in DOMAIN l : Allowed(l[i])
    BY <1>1, <2>1, RestoreFacts DEF Typed
  <2>3. custody >= sum_of(l) BY <1>3, <2>1 DEF sufficient, totalAmount
  <2>4. sum_of(l) \in Nat
    <3>1. IsFiniteSet(DOMAIN Amounts(l)) /\ \A i \in DOMAIN Amounts(l) : Amounts(l)[i] \in Nat
      BY <2>2, AmountFacts
    <3>2. PICK f : f = Amounts(l) OBVIOUS
    <3>3. SumFunction(f) \in Nat BY <3>1, <3>2, FunNat
    <3> QED BY <3>2, <3>3 DEF sum_of, Amounts
  <2>5. CustodyFunds \in Nat /\ custody \in Nat /\ custody <= CustodyFunds
    BY RestoreAssumption DEF Lists
  <2>6. Payable(l) BY <2>2, <2>3, <2>4, <2>5 DEF Payable
  <2>7. Executed("balances") = {} /\ \A i \in DOMAIN chain : chain[i].script # "balances"
    BY <1>1, NotBegun DEF Scripts
  <2>8. Executed("balances")' = {} BY <1>1, <2>7 DEF Executed
  <2>9. custody = CustodyFunds
    <3>1. PICK k : k = list["balances"] OBVIOUS
    <3>2. Enough(k, {}) BY <2>7, <3>1 DEF Lists
    <3>3. PICK f : f = Amounts(k) OBVIOUS
    <3>4. SumFunctionOnSet(f, {}) = 0 BY SumEmpty
    <3>5. Cost(k, {}) = 0 /\ Cardinality({}) = 0 BY <3>3, <3>4, FS_EmptySet DEF Cost
    <3>6. Charge \in Nat /\ Charge * 0 = 0 BY ChargeNat
    <3> QED BY <2>5, <3>2, <3>5, <3>6 DEF Enough
  <2>10. Enough(l, {}) BY <2>9, NothingSpent
  <2>11. list' = [list EXCEPT !["balances"] = l] BY <1>3, <2>1 DEF begin
  <2>12. list'["balances"] = l /\ list'["vks"] = list["vks"] BY <2>11 DEF Typed, Scripts
  <2>13. \A t : Rightful(t) => Rightful(t)' BY <1>1 DEF Rightful
  <2>14. \A b : Allowed(b) => Allowed(b)' BY <1>1 DEF Allowed
  <2>15. Enough(l, {})' BY <1>1, <2>10 DEF Enough, Charge
  <2> QED BY <1>1, <2>2, <2>6, <2>7, <2>8, <2>12, <2>13, <2>14, <2>15 DEF Lists
<1> QED BY <1>2, <1>3 DEF restoreBalances

(* One call more costs one fee more. *)
LEMMA FeeStep ==
  ASSUME NEW f \in Nat, NEW n \in Nat
  PROVE  f * (n + 1) = f * n + f
OBVIOUS

(* More calls cost no less. *)
LEMMA FeeBound ==
  ASSUME NEW f \in Nat, NEW n \in Nat, NEW m \in Nat, n <= m
  PROVE  f * n <= f * m
<1>1. PICK d \in Nat : m = n + d
  <2>1. m - n \in Nat /\ m = n + (m - n) OBVIOUS
  <2> QED BY <2>1
<1>2. f * m = f * n + f * d BY <1>1
<1>3. f * d \in Nat /\ f * n \in Nat OBVIOUS
<1> QED BY <1>2, <1>3

(* A call that is executed now was not executed before. *)
LEMMA ExecutedNow ==
  ASSUME Typed, Queued, NEW x \in pool, include(x)
  PROVE  /\ x.script \in Scripts /\ x.call \in DOMAIN list[x.script]
         /\ x.call \notin Executed(x.script)
         /\ x.from = executor(x.script)
         /\ \A s \in Scripts : Executed(s) \subseteq DOMAIN list[s]
         /\ \A s \in Scripts :
              Executed(s)' = IF s = x.script THEN Executed(s) \cup {x.call} ELSE Executed(s)
<1>1. x.script \in Scripts /\ Tried(x) BY DEF Typed, Extrinsics, Queued
<1>2. \A s \in Scripts : DOMAIN log[s] \subseteq DOMAIN list[s]
  <2> SUFFICES ASSUME NEW s \in Scripts PROVE DOMAIN log[s] \subseteq DOMAIN list[s] OBVIOUS
  <2>1. log[s] \in Seq({"sent", "failed"}) /\ Len(log[s]) <= Len(list[s]) /\ Len(list[s]) \in Nat
        /\ DOMAIN list[s] = 1 .. Len(list[s])
    BY DEF Typed
  <2>2. DOMAIN log[s] = 1 .. Len(log[s]) /\ Len(log[s]) \in Nat BY <2>1
  <2> QED BY <2>1, <2>2
<1>3. x.call \in DOMAIN list[x.script] BY <1>1, <1>2 DEF Tried
<1>4. \A i \in DOMAIN chain : chain[i].script = x.script => chain[i].call < x.call BY DEF Queued
<1>5. x.call \in Nat BY DEF Typed, Extrinsics
<1>6. x.call \notin Executed(x.script) BY <1>4, <1>5 DEF Executed
<1>7. \A s \in Scripts : Executed(s) \subseteq DOMAIN list[s] BY <1>2 DEF Executed, Queued, Reported
<1>8. PICK c : c = [script |-> x.script, call |-> x.call, lost |-> x.lost, ok |-> succeeds(x)]
  OBVIOUS
<1>9. chain' = Append(chain, c) /\ c.script = x.script /\ c.call = x.call BY <1>8 DEF include
<1>10. chain \in Seq(Executions) BY DEF Queued
<1>11. /\ DOMAIN chain' = DOMAIN chain \cup {Len(chain) + 1}
       /\ \A i \in DOMAIN chain : chain'[i] = chain[i]
       /\ chain'[Len(chain) + 1] = c
  <2>1. PICK h : h = chain OBVIOUS
  <2>2. h \in Seq(Executions) BY <1>10, <2>1
  <2>3. DOMAIN h = 1 .. Len(h) /\ Len(h) \in Nat /\ DOMAIN Append(h, c) = 1 .. (Len(h) + 1)
        /\ (\A i \in 1 .. Len(h) : Append(h, c)[i] = h[i]) /\ Append(h, c)[Len(h) + 1] = c
    <3>1. h \in Seq(Executions \cup {c}) BY <2>2
    <3> QED BY <3>1
  <2> QED BY <1>9, <2>1, <2>3
<1>12. \A s \in Scripts :
         Executed(s)' = IF s = x.script THEN Executed(s) \cup {x.call} ELSE Executed(s)
  BY <1>9, <1>11 DEF Executed
<1> QED BY <1>1, <1>3, <1>6, <1>7, <1>12 DEF Tried

(* A block that takes an extrinsic of either script. *)
LEMMA IncludeLists ==
  ASSUME Typed, Queued, Lists, NEW x \in pool, include(x)
  PROVE  Lists'
<1>1. UNCHANGED <<options, list, witnessed>> BY DEF include, ovars, sender
<1>2. /\ x.script \in Scripts /\ x.call \in DOMAIN list[x.script]
      /\ x.call \notin Executed(x.script) /\ x.from = executor(x.script)
      /\ \A s \in Scripts : Executed(s) \subseteq DOMAIN list[s]
      /\ \A s \in Scripts :
           Executed(s)' = IF s = x.script THEN Executed(s) \cup {x.call} ELSE Executed(s)
  BY ExecutedNow
<1>3. PICK c : c = [script |-> x.script, call |-> x.call, lost |-> x.lost, ok |-> succeeds(x)]
  OBVIOUS
<1>4. /\ chain' = Append(chain, c) /\ c.script = x.script /\ c.call = x.call
      /\ c.ok = succeeds(x)
  BY <1>3 DEF include
<1>5. \A i \in DOMAIN chain' : (i \in DOMAIN chain /\ chain'[i] = chain[i]) \/ chain'[i] = c
  <2>1. PICK h : h = chain OBVIOUS
  <2>2. h \in Seq(Executions \cup {c}) BY <2>1 DEF Queued
  <2>3. \A i \in DOMAIN Append(h, c) : (i \in DOMAIN h /\ Append(h, c)[i] = h[i]) \/ Append(h, c)[i] = c
    BY <2>2
  <2> QED BY <1>4, <2>1, <2>3
<1>6. \A t : Rightful(t) => Rightful(t)' BY <1>1 DEF Rightful
<1>7. \A b : Allowed(b) => Allowed(b)' BY <1>1 DEF Allowed
<1>8. \A l, d : Short(l, d) => Short(l, d)' BY <1>1 DEF Short
<1>9. PICK l : l = list["balances"] OBVIOUS
<1>10. PICK E : E = Executed("balances") OBVIOUS
<1>11. /\ Payable(l) /\ custody \in 0 .. CustodyFunds /\ Enough(l, E)
       /\ CustodyFunds \in Nat /\ l \in Seq(Transfers)
  BY <1>9, <1>10, RestoreAssumption DEF Lists, Payable
<1>12. "balances" \in Scripts /\ "vks" \in Scripts BY DEF Scripts
<1>13. CASE x.script = "vks"
  <2>1. custody' = custody /\ registered' \subseteq registered \cup {list["vks"][x.call]}
    BY <1>13 DEF include
  <2>2. \A t \in registered' : Rightful(t)' BY <1>2, <1>6, <1>13, <2>1 DEF Lists
  <2>3. Executed("balances")' = E BY <1>2, <1>10, <1>12, <1>13
  <2>4. Enough(l, E)' BY <1>1, <1>11, <2>1 DEF Enough, Charge
  <2>5. c.script # "balances" BY <1>4, <1>13
  <2>6. \A i \in DOMAIN chain' : chain'[i].script = "balances" /\ ~ chain'[i].ok =>
          Short(l, chain[i].call)'
    <3> SUFFICES ASSUME NEW i \in DOMAIN chain', chain'[i].script = "balances", ~ chain'[i].ok
                 PROVE  Short(l, chain[i].call)'
      OBVIOUS
    <3>1. PICK e : e = chain'[i] OBVIOUS
    <3>2. i \in DOMAIN chain /\ e = chain[i] BY <1>5, <2>5, <3>1
    <3>3. Short(l, e.call) BY <1>9, <3>1, <3>2 DEF Lists
    <3>4. Short(l, e.call)' BY <1>8, <3>3
    <3> QED BY <3>1, <3>4
  <2> QED BY <1>1, <1>6, <1>7, <1>9, <1>11, <2>1, <2>2, <2>3, <2>4, <2>6 DEF Lists
<1>14. CASE x.script = "balances"
  <2>1. PICK d : d = x.call OBVIOUS
  <2>2. d \in DOMAIN l /\ d \notin E /\ E \subseteq DOMAIN l BY <1>2, <1>9, <1>10, <1>12, <1>14, <2>1
  <2>3. /\ Cost(l, E) \in Nat /\ Cardinality(E) \in Nat
        /\ Cost(l, E \cup {d}) = Cost(l, E) + l[d].total
        /\ Cardinality(E \cup {d}) = Cardinality(E) + 1
        /\ Cost(l, E \cup {d}) <= sum_of(l)
        /\ Cardinality(E \cup {d}) <= Len(l)
    BY <1>11, <2>2, CostFacts
  <2>4. l[d].total \in Nat /\ sum_of(l) \in Int /\ Len(l) \in Nat
    <3>1. l[d].total \in Nat BY <1>11, <2>2, AmountFacts
    <3>2. IsFiniteSet(DOMAIN Amounts(l)) /\ \A i \in DOMAIN Amounts(l) : Amounts(l)[i] \in Nat
      BY <1>11, AmountFacts
    <3>3. PICK f : f = Amounts(l) OBVIOUS
    <3>4. SumFunction(f) \in Nat BY <3>2, <3>3, FunNat
    <3>5. sum_of(l) \in Nat BY <3>3, <3>4 DEF sum_of, Amounts
    <3> QED BY <1>11, <3>1, <3>5
  <2>5. fee(x) = Charge BY <1>2, <1>14 DEF fee, Charge, executor
  <2>6. Charge \in Nat BY ChargeNat
  <2>7. PICK q, n, total_, k, p, m, g, s :
          /\ q = Cost(l, E) /\ n = Cardinality(E) /\ total_ = sum_of(l) /\ k = Len(l)
          /\ p = l[d].total /\ m = custody /\ g = Charge /\ s = CustodyFunds
    OBVIOUS
  <2>8. /\ q \in Nat /\ n \in Nat /\ total_ \in Int /\ k \in Nat /\ p \in Nat /\ m \in Nat
        /\ g \in Nat /\ s \in Nat /\ m <= s
        /\ q + p <= total_ /\ n + 1 <= k /\ total_ <= s
    BY <1>11, <2>3, <2>4, <2>6, <2>7 DEF Payable
  <2>9. m + (q + g * n) >= s BY <1>11, <2>7 DEF Enough
  <2>10. g <= m /\ g * (n + 1) = g * n + g /\ g * (n + 1) <= g * k /\ g * n \in Nat /\ g * k \in Nat
    <3>1. g <= m BY <2>5, <2>7 DEF include
    <3>2. g * (n + 1) = g * n + g BY <2>8, FeeStep
    <3>3. n + 1 \in Nat BY <2>8
    <3>4. g * (n + 1) <= g * k BY <2>8, <3>3, FeeBound
    <3>5. g * n \in Nat /\ g * k \in Nat BY <2>8
    <3> QED BY <3>1, <3>2, <3>4, <3>5
  <2>11. custody' = m - g - (IF succeeds(x) THEN p ELSE 0)
    BY <1>9, <1>14, <2>1, <2>5, <2>7 DEF include
  <2>12. succeeds(x) <=> p <= m - g /\ p >= ExistentialDeposit
    BY <1>9, <1>14, <2>1, <2>5, <2>7 DEF succeeds
  <2>13. PICK y : y = g * n OBVIOUS
  <2>14. PICK z : z = g * k OBVIOUS
  <2>15. y \in Nat /\ z \in Nat /\ y + g <= z /\ m + (q + y) >= s BY <2>9, <2>10, <2>13, <2>14
  <2>16. custody' \in 0 .. s /\ custody' + ((q + p) + (y + g)) >= s
    <3>1. CASE succeeds(x) BY <2>8, <2>10, <2>11, <2>12, <2>15, <3>1
    <3>2. CASE ~ succeeds(x) BY <2>8, <2>10, <2>11, <2>15, <3>2
    <3> QED BY <3>1, <3>2
  <2>17. ASSUME ~ succeeds(x) PROVE Short(l, d)
    <3>1. ExistentialDeposit \in Nat BY RestoreAssumption
    <3>2. p < ExistentialDeposit \/ m - g < p BY <2>8, <2>12, <2>17, <3>1
    <3>3. ASSUME m - g < p PROVE options.executor = Custody /\ s < total_ + Fee * k
      <4>1. s < total_ + z BY <2>8, <2>15, <3>3
      <4>2. options.executor = Custody
        <5> SUFFICES ASSUME options.executor # Custody PROVE FALSE OBVIOUS
        <5>1. g = 0 BY <2>7 DEF Charge
        <5>2. z = 0 BY <2>8, <2>14, <5>1
        <5> QED BY <2>8, <4>1, <5>2
      <4>3. g = Fee BY <2>7, <4>2 DEF Charge
      <4> QED BY <2>14, <4>1, <4>2, <4>3
    <3> QED BY <2>7, <3>2, <3>3 DEF Short
  <2>18. Executed("balances")' = E \cup {d} BY <1>2, <1>10, <1>12, <1>14, <2>1
  <2>19. Charge' = Charge BY <1>1 DEF Charge
  <2>20. Enough(l, E \cup {d})'
    <3>1. Cost(l, E \cup {d}) = q + p BY <2>3, <2>7
    <3>2. Charge * Cardinality(E \cup {d}) = y + g BY <2>3, <2>7, <2>10, <2>13
    <3> QED BY <2>7, <2>16, <2>19, <3>1, <3>2 DEF Enough
  <2>21. registered' = registered BY <1>14 DEF include
  <2>22. \A i \in DOMAIN chain' : chain'[i].script = "balances" /\ ~ chain'[i].ok =>
           Short(l, chain[i].call)'
    <3> SUFFICES ASSUME NEW i \in DOMAIN chain', chain'[i].script = "balances", ~ chain'[i].ok
                 PROVE  Short(l, chain[i].call)'
      OBVIOUS
    <3>1. PICK e : e = chain'[i] OBVIOUS
    <3>4. Short(l, e.call)
      <4>1. CASE i \in DOMAIN chain /\ e = chain[i] BY <1>9, <3>1, <4>1 DEF Lists
      <4>2. CASE e = c BY <1>4, <2>1, <2>17, <3>1, <4>2
      <4> QED BY <1>5, <3>1, <4>1, <4>2
    <3>5. Short(l, e.call)' BY <1>8, <3>4
    <3> QED BY <3>1, <3>5
  <2>23. custody' \in 0 .. CustodyFunds BY <2>7, <2>16
  <2>24. /\ \A i \in DOMAIN list["vks"] : Rightful(list["vks"][i])'
         /\ \A t \in registered : Rightful(t)'
         /\ \A i \in DOMAIN l : Allowed(l[i])'
    BY <1>1, <1>6, <1>7, <1>9 DEF Lists
  <2> QED BY <1>1, <1>9, <1>11, <2>18, <2>20, <2>21, <2>22, <2>23, <2>24 DEF Lists
<1> QED BY <1>2, <1>13, <1>14 DEF Scripts

(* Every step keeps what is known of the calls and the funds. *)
LEMMA NextLists ==
  ASSUME Typed, Seen, Queued, Lists, [Next]_vars
  PROVE  Lists'
<1>1. ASSUME NEW t, old_chain(t) PROVE Lists'
  <2>1. witnessed.ever \subseteq witnessed'.ever BY <1>1 DEF old_chain
  <2> QED BY <1>1, <2>1, ListsStay DEF old_chain, sender, new
<1>2. CASE snapshot_start
  <2>1. witnessed'.ever = witnessed.ever BY <1>2 DEF snapshot_start, Seen
  <2> QED BY <1>2, <2>1, ListsStay DEF snapshot_start, sender, new
<1>3. CASE query_vks \/ query_tickets \/ takeSnapshot
  BY <1>3, ListsStay DEF query_vks, query_tickets, takeSnapshot, ovars, sender, new
<1>4. CASE restore BY <1>4, RestoreLists
<1>5. CASE restoreBalances BY <1>5, RestoreBalancesLists
<1>6. ASSUME NEW s \in Scripts, signAndSend(s) PROVE Lists'
  <2>1. UNCHANGED <<options, witnessed, list, registered, chain, custody>>
    BY <1>6 DEF signAndSend, ovars, sent, failed
  <2> QED BY <2>1, ListsStay
<1>7. ASSUME NEW s \in Scripts, exit(s) PROVE Lists'
  BY <1>7, ListsStay DEF exit, ovars, sender, new
<1>8. ASSUME NEW x \in pool, include(x) PROVE Lists' BY <1>8, IncludeLists
<1>9. ASSUME NEW x \in pool, drop(x) PROVE Lists' BY <1>9, ListsStay DEF drop, ovars, sender
<1>10. CASE UNCHANGED vars BY <1>10, ListsStay DEF vars, ovars, sender, new
<1> QED
  BY <1>1, <1>2, <1>3, <1>4, <1>5, <1>6, <1>7, <1>8, <1>9, <1>10
     DEF Next, register_vk, unregister_vk

(* The whole invariant, for every behaviour. *)
LEMMA RestoreInvariance ==
  Spec => [](Sound /\ Lists)
<1>1. Init => Lists BY InitLists
<1>2. Sound /\ Lists /\ [Next]_vars => Lists' BY NextLists DEF Sound, Inv
<1> QED BY <1>1, <1>2, QueueInvariance, PTL DEF Spec

(***************************************************************************)
(* Nobody is given more than its capped balance, module accounts and those *)
(* on the block list nothing, and keys are registered only for those who   *)
(* had registered them or for the account given with -r.                   *)
(***************************************************************************)
THEOREM RestoresAsTaken ==
  Spec => []RestoredAsTaken
<1>1. ASSUME Sound, Lists, NEW a \in DOMAIN OldBalances
      PROVE  /\ Paid(a) <= total(a)
             /\ options.cap > 0 => Paid(a) <= options.cap
             /\ a \in BlockList \cup ModuleAccounts => Paid(a) = 0
  <2>1. PICK l : l = list["balances"] OBVIOUS
  <2>2. PICK ch : ch = chain OBVIOUS
  <2>3. l \in Seq(Transfers) /\ Distinct(l) /\ \A i \in DOMAIN l : Allowed(l[i])
    BY <1>1, <2>1 DEF Lists, Payable
  <2>4. /\ ch \in Seq(Executions)
        /\ \A i, j \in DOMAIN ch :
             i < j /\ ch[i].script = ch[j].script => ch[i].call < ch[j].call
    BY <1>1, <2>2 DEF Sound, Queued
  <2>5. \A i \in DOMAIN ch : ch[i].script = "balances" => ch[i].call \in DOMAIN l
    <3>1. /\ log["balances"] \in Seq({"sent", "failed"})
          /\ Len(log["balances"]) <= Len(l) /\ DOMAIN l = 1 .. Len(l) /\ Len(l) \in Nat
      BY <1>1, <2>1 DEF Sound, Inv, Typed, Scripts
    <3>2. DOMAIN log["balances"] = 1 .. Len(log["balances"]) /\ Len(log["balances"]) \in Nat BY <3>1
    <3>3. DOMAIN log["balances"] \subseteq DOMAIN l BY <3>1, <3>2
    <3>4. \A i \in DOMAIN ch : ch[i].script = "balances" => ch[i].call \in DOMAIN log["balances"]
      BY <1>1, <2>2 DEF Sound, Queued, Reported
    <3> QED BY <3>3, <3>4
  <2>6. Paid(a) = SumFunction(PaidBy(ch, l, a)) BY <2>1, <2>2 DEF Paid, PaidBy
  <2>7. \/ Paid(a) = 0
        \/ \E i \in DOMAIN l : l[i].account = a /\ Paid(a) = l[i].total
    <3>1. \/ SumFunction(PaidBy(ch, l, a)) = 0
          \/ \E i \in DOMAIN l : l[i].account = a /\ SumFunction(PaidBy(ch, l, a)) = l[i].total
      BY <2>3, <2>4, <2>5, PaidOnce
    <3> QED BY <2>6, <3>1
  <2>8. total(a) \in Nat /\ options.cap \in Nat
    BY <1>1, TotalNat, RestoreAssumption DEF Sound, Inv, Typed
  <2>9. CASE Paid(a) = 0 BY <2>8, <2>9
  <2>10. CASE \E i \in DOMAIN l : l[i].account = a /\ Paid(a) = l[i].total
    <3>1. PICK i \in DOMAIN l : l[i].account = a /\ Paid(a) = l[i].total BY <2>10
    <3>2. Allowed(l[i]) BY <2>3
    <3> QED BY <3>1, <3>2 DEF Allowed
  <2> QED BY <2>7, <2>9, <2>10
<1>2. Sound /\ Lists => RestoredAsTaken
  BY <1>1 DEF RestoredAsTaken, Lists, Rightful
<1> QED BY <1>2, RestoreInvariance, PTL

(***************************************************************************)
(* After the check of the custody account no transfer fails for lack of    *)
(* funds, unless the account also pays the fees and has too little for     *)
(* them, or the cap is below the minimum.                                  *)
(***************************************************************************)
THEOREM CustodySuffices ==
  Spec => []CustodyCovers
<1>1. Lists => CustodyCovers BY DEF Lists, Short, CustodyCovers
<1> QED BY <1>1, RestoreInvariance, PTL
=============================================================================
