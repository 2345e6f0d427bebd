---------------------------- MODULE SumTheorems -----------------------------
(***************************************************************************)
(* What SumFunctionOnSet, the sum of the values of a function on a finite  *)
(* set of indices, computes: the facts that the proofs about balances,     *)
(* deposits and reserves rest on.  The community modules define the sum by *)
(* recursion over the subsets of the indices.                              *)
(*                                                                         *)
(* Induction over finite sets is used in the form: a set of subsets of a   *)
(* finite set that is not empty has a minimal element.                     *)
(***************************************************************************)
EXTENDS FiniteSetsExt, FiniteSetTheorems, TLAPS

(* The element that the recursion of the library takes next. *)
pick(s) == CHOOSE x \in s : TRUE

(* g sums f up on all subsets of S, taking the elements one after another. *)
IsSum(g, f, S) ==
  g = [s \in SUBSET S |-> IF s = {} THEN 0 ELSE f[pick(s)] + g[s \ {pick(s)}]]

(* A family of subsets of a finite set has a minimal member. *)
LEMMA MinimalSubset ==
  ASSUME NEW S, IsFiniteSet(S), NEW T, T \subseteq SUBSET S, T # {}
  PROVE  \E m \in T : \A y \in T : ~ (y \subseteq m /\ y # m)
<1>1. T \subseteq FiniteSubsetsOf(S) BY FS_Subset DEF FiniteSubsetsOf
<1>2. IsWellFoundedOn(StrictSubsetOrdering(S), FiniteSubsetsOf(S))
  BY FS_StrictSubsetOrderingWellFounded
<1>3. \E x \in T : \A y \in T : ~ (<<y, x>> \in StrictSubsetOrdering(S)) BY <1>1, <1>2, WFMin
<1> QED BY <1>3 DEF StrictSubsetOrdering

(* A set of natural numbers that is not empty has a least one. *)
LEMMA LeastExists ==
  ASSUME NEW I, I \subseteq Nat, I # {}
  PROVE  Min(I) \in I /\ \A y \in I : Min(I) <= y
<1>1. PICK top \in I : TRUE OBVIOUS
<1> DEFINE S == 0 .. top
           low == {x \in I : x <= top}
           T == {0 .. x : x \in low}
<1>2. top \in Nat BY <1>1
<1>3. IsFiniteSet(S) BY <1>2, FS_Interval
<1>4. T \subseteq SUBSET S BY <1>2
<1>5. T # {} BY <1>1, <1>2
<1>6. PICK m \in T : \A y \in T : ~ (y \subseteq m /\ y # m)
  <2> HIDE DEF S, T
  <2> QED BY <1>3, <1>4, <1>5, MinimalSubset
<1>7. PICK x \in low : m = 0 .. x BY <1>6
<1>8. ASSUME NEW y \in I PROVE x <= y
  <2> SUFFICES ASSUME y < x PROVE FALSE BY <1>7
  <2>1. y \in Nat /\ x \in Nat /\ y <= top BY <1>2, <1>7
  <2>2. 0 .. y \in T BY <2>1
  <2>3. 0 .. y \subseteq m /\ 0 .. y # m BY <1>7, <2>1
  <2> QED BY <1>6, <2>2, <2>3
<1>9. x \in I /\ \A y \in I : x =< y BY <1>7, <1>8
<1> HIDE DEF low
<1> QED BY <1>9 DEF Min

(* One step of the recursion. *)
LEMMA IsSumUnfold ==
  ASSUME NEW f, NEW S, NEW g, IsSum(g, f, S), NEW s \in SUBSET S
  PROVE  g[s] = IF s = {} THEN 0 ELSE f[pick(s)] + g[s \ {pick(s)}]
BY Zenon DEF IsSum

(* pick takes an element of the set. *)
LEMMA PickIn ==
  ASSUME NEW s, s # {}
  PROVE  pick(s) \in s
BY DEF pick

(* Two sums of the same function agree where both are defined. *)
LEMMA SumsAgree ==
  ASSUME NEW f, NEW S, NEW U, IsFiniteSet(U), U \subseteq S, NEW g1, NEW g2,
         IsSum(g1, f, S), IsSum(g2, f, U)
  PROVE  g1[U] = g2[U]
<1> DEFINE T == {t \in SUBSET U : g1[t] # g2[t]}
<1> SUFFICES T = {} OBVIOUS
<1>1. SUFFICES ASSUME T # {} PROVE FALSE OBVIOUS
<1>2. T \subseteq SUBSET U OBVIOUS
<1> HIDE DEF T
<1>3. PICK m \in T : \A y \in T : ~ (y \subseteq m /\ y # m) BY <1>1, <1>2, MinimalSubset
<1>4. m \in SUBSET S /\ m \in SUBSET U /\ g1[m] # g2[m] BY <1>3 DEF T
<1>5. g1[m] = IF m = {} THEN 0 ELSE f[pick(m)] + g1[m \ {pick(m)}]
  BY <1>4, Zenon DEF IsSum
<1>6. g2[m] = IF m = {} THEN 0 ELSE f[pick(m)] + g2[m \ {pick(m)}]
  BY <1>4, Zenon DEF IsSum
<1>7. m # {} BY <1>4, <1>5, <1>6
<1>8. pick(m) \in m BY <1>7, PickIn
<1>9. m \ {pick(m)} \notin T BY <1>3, <1>8
<1>10. g1[m \ {pick(m)}] = g2[m \ {pick(m)}] BY <1>4, <1>9 DEF T
<1> QED BY <1>4, <1>5, <1>6, <1>7, <1>10

(* Every function can be summed up over a finite set. *)
LEMMA SumExists ==
  ASSUME NEW f, NEW S, IsFiniteSet(S)
  PROVE  \E g : IsSum(g, f, S)
<1> DEFINE T == {t \in SUBSET S : ~ \E g : IsSum(g, f, t)}
<1> SUFFICES T = {} OBVIOUS
<1>1. SUFFICES ASSUME T # {} PROVE FALSE OBVIOUS
<1>2. T \subseteq SUBSET S OBVIOUS
<1> HIDE DEF T
<1>3. PICK m \in T : \A y \in T : ~ (y \subseteq m /\ y # m) BY <1>1, <1>2, MinimalSubset
<1>4. m \in SUBSET S /\ ~ \E g : IsSum(g, f, m) BY <1>3 DEF T
<1> DEFINE part(s) == CHOOSE g : IsSum(g, f, s)
           below(s) == part(s)[s]
           g == [s \in SUBSET m |-> IF s = {} THEN 0 ELSE f[pick(s)] + below(s \ {pick(s)})]
<1>5. ASSUME NEW s \in SUBSET m, s # m PROVE IsSum(part(s), f, s)
  <2>1. s \notin T BY <1>3, <1>5
  <2>2. \E h : IsSum(h, f, s) BY <1>4, <2>1 DEF T
  <2> QED BY <2>2
<1> HIDE DEF part
<1>6. ASSUME NEW s \in SUBSET m, s # m PROVE g[s] = below(s)
  <2>1. IsSum(part(s), f, s) BY <1>5, <1>6
  <2>2. CASE s = {} BY <2>1, <2>2, IsSumUnfold
  <2>3. CASE s # {}
    <3> DEFINE r == s \ {pick(s)}
    <3>1. pick(s) \in s BY <2>3, PickIn
    <3>2. r \in SUBSET m /\ r # m /\ r \in SUBSET s BY <1>6
    <3>3. IsSum(part(r), f, r) BY <1>5, <3>2
    <3>4. IsFiniteSet(r) BY <1>4, <3>2, FS_Subset
    <3>5. part(r)[r] = part(s)[r]
      <4>1. ASSUME NEW p, NEW q, IsSum(p, f, s), IsSum(q, f, r) PROVE p[r] = q[r]
        <5> HIDE DEF r, g, below
        <5>1. r \subseteq s BY <3>2
        <5>2. IsFiniteSet(r) BY <3>4
        <5>3. IsSum(p, f, s) /\ IsSum(q, f, r) BY <4>1
        <5> QED BY <5>1, <5>2, <5>3, SumsAgree
      <4> QED BY <2>1, <3>3, <4>1
    <3>6. part(s)[s] = f[pick(s)] + part(s)[r] BY <2>1, <2>3, IsSumUnfold
    <3> QED BY <2>3, <3>5, <3>6
  <2> QED BY <2>2, <2>3
<1>7. ASSUME NEW s \in SUBSET m, s # {} PROVE below(s \ {pick(s)}) = g[s \ {pick(s)}]
  <2>1. pick(s) \in s BY <1>7, PickIn
  <2>2. s \ {pick(s)} \in SUBSET m /\ s \ {pick(s)} # m BY <2>1
  <2> HIDE DEF g, below
  <2> QED BY <1>6, <2>2
<1>8. g = [s \in SUBSET m |-> IF s = {} THEN 0 ELSE f[pick(s)] + g[s \ {pick(s)}]]
  <2> HIDE DEF below
  <2>1. \A s \in SUBSET m : (IF s = {} THEN 0 ELSE f[pick(s)] + below(s \ {pick(s)}))
                           = (IF s = {} THEN 0 ELSE f[pick(s)] + g[s \ {pick(s)}])
    <3> HIDE DEF g
    <3> QED BY <1>7
  <2> DEFINE k == g
  <2>2. k = [s \in SUBSET m |-> IF s = {} THEN 0 ELSE f[pick(s)] + below(s \ {pick(s)})] OBVIOUS
  <2> QED BY <2>1, Zenon
<1>9. IsSum(g, f, m)
  <2> HIDE DEF g
  <2> QED BY <1>8 DEF IsSum
<1> QED BY <1>4, <1>9
-----------------------------------------------------------------------------
(* SumFunctionOnSet is the last value of such a g. *)
LEMMA SumIsSum ==
  ASSUME NEW f, NEW S, IsFiniteSet(S), NEW g, IsSum(g, f, S), NEW s \in SUBSET S
  PROVE  SumFunctionOnSet(f, s) = g[s]
<1> DEFINE k == CHOOSE h : IsSum(h, f, s)
<1>1. IsFiniteSet(s) BY FS_Subset
<1>2. IsSum(k, f, s) BY <1>1, SumExists
<1>3. SumFunctionOnSet(f, s) = k[s]
  BY DEF SumFunctionOnSet, FoldFunctionOnSet, MapThenFoldSet, IsSum, pick
<1> HIDE DEF k
<1>4. g[s] = k[s]
  <2>1. s \subseteq S OBVIOUS
  <2> QED BY <1>1, <1>2, <2>1, SumsAgree
<1> QED BY <1>3, <1>4

(* The sum takes one element after another. *)
LEMMA SumStep ==
  ASSUME NEW f, NEW S, IsFiniteSet(S)
  PROVE  SumFunctionOnSet(f, S) =
           IF S = {} THEN 0 ELSE f[pick(S)] + SumFunctionOnSet(f, S \ {pick(S)})
<1>1. PICK g : IsSum(g, f, S) BY SumExists
<1>2. S \in SUBSET S /\ S \ {pick(S)} \in SUBSET S OBVIOUS
<1>3. SumFunctionOnSet(f, S) = g[S] BY <1>1, <1>2, SumIsSum
<1>4. SumFunctionOnSet(f, S \ {pick(S)}) = g[S \ {pick(S)}] BY <1>1, <1>2, SumIsSum
<1>5. g[S] = IF S = {} THEN 0 ELSE f[pick(S)] + g[S \ {pick(S)}] BY <1>1, <1>2, IsSumUnfold, SMTT(30)
<1> QED BY <1>3, <1>4, <1>5

(* Nothing sums up to zero. *)
LEMMA SumEmpty ==
  ASSUME NEW f
  PROVE  SumFunctionOnSet(f, {}) = 0
BY SumStep, FS_EmptySet

(* The sum depends on the values at the indices only. *)
LEMMA SumSame ==
  ASSUME NEW f, NEW h, NEW S, IsFiniteSet(S), \A x \in S : f[x] = h[x]
  PROVE  SumFunctionOnSet(f, S) = SumFunctionOnSet(h, S)
<1>1. PICK g : IsSum(g, f, S) BY SumExists
<1>2. \A s \in SUBSET S : s # {} => f[pick(s)] = h[pick(s)] BY PickIn
<1>3. IsSum(g, h, S) BY <1>1, <1>2 DEF IsSum
<1>4. S \in SUBSET S OBVIOUS
<1> QED BY <1>1, <1>3, <1>4, SumIsSum

(* Sums of natural numbers are natural numbers. *)
LEMMA SumNat ==
  ASSUME NEW f, NEW S, IsFiniteSet(S), \A x \in S : f[x] \in Nat
  PROVE  SumFunctionOnSet(f, S) \in Nat
<1> DEFINE T == {t \in SUBSET S : SumFunctionOnSet(f, t) \notin Nat}
<1> SUFFICES T = {} OBVIOUS
<1>1. SUFFICES ASSUME T # {} PROVE FALSE OBVIOUS
<1>2. T \subseteq SUBSET S OBVIOUS
<1> HIDE DEF T
<1>3. PICK m \in T : \A y \in T : ~ (y \subseteq m /\ y # m) BY <1>1, <1>2, MinimalSubset
<1>4. m \in SUBSET S /\ SumFunctionOnSet(f, m) \notin Nat BY <1>3 DEF T
<1>5. IsFiniteSet(m) BY <1>4, FS_Subset
<1>6. m # {} BY <1>4, SumEmpty
<1>7. pick(m) \in m BY <1>6, PickIn
<1>8. m \ {pick(m)} \notin T BY <1>3, <1>7
<1>9. SumFunctionOnSet(f, m \ {pick(m)}) \in Nat BY <1>4, <1>8 DEF T
<1>10. SumFunctionOnSet(f, m) = f[pick(m)] + SumFunctionOnSet(f, m \ {pick(m)})
  BY <1>5, <1>6, SumStep
<1>11. f[pick(m)] \in Nat BY <1>4, <1>7
<1> QED BY <1>4, <1>9, <1>10, <1>11

(* It does not matter which element is taken first. *)
LEMMA SumRemove ==
  ASSUME NEW f, NEW S, IsFiniteSet(S), \A x \in S : f[x] \in Nat, NEW x \in S
  PROVE  SumFunctionOnSet(f, S) = f[x] + SumFunctionOnSet(f, S \ {x})
<1> DEFINE sum(t) == SumFunctionOnSet(f, t)
           T == {t \in SUBSET S : \E y \in t : sum(t) # f[y] + sum(t \ {y})}
<1> SUFFICES T = {} OBVIOUS
<1>1. SUFFICES ASSUME T # {} PROVE FALSE OBVIOUS
<1>2. T \subseteq SUBSET S OBVIOUS
<1>a. \A t \in SUBSET S : IsFiniteSet(t) /\ sum(t) \in Nat BY FS_Subset, SumNat
<1> HIDE DEF T
<1>3. PICK m \in T : \A y \in T : ~ (y \subseteq m /\ y # m) BY <1>1, <1>2, MinimalSubset
<1>4. m \in SUBSET S BY <1>3 DEF T
<1>5. PICK y \in m : sum(m) # f[y] + sum(m \ {y}) BY <1>3 DEF T
<1> DEFINE p == pick(m)
<1>6. p \in m BY <1>5, PickIn
<1>7. sum(m) = f[p] + sum(m \ {p}) BY <1>a, <1>4, <1>5, SumStep
<1> HIDE DEF sum, p
<1>8. y # p BY <1>5, <1>7
<1>9. m \ {p} \notin T /\ m \ {y} \notin T BY <1>3, <1>5, <1>6
<1>10. sum(m \ {p}) = f[y] + sum((m \ {p}) \ {y})
  <2>1. m \ {p} \in SUBSET S /\ y \in m \ {p} BY <1>4, <1>8
  <2> QED BY <1>9, <2>1 DEF T
<1>11. sum(m \ {y}) = f[p] + sum((m \ {y}) \ {p})
  <2>1. m \ {y} \in SUBSET S /\ p \in m \ {y} BY <1>4, <1>6, <1>8
  <2> QED BY <1>9, <2>1 DEF T
<1>12. sum((m \ {p}) \ {y}) = sum((m \ {y}) \ {p})
  <2>1. (m \ {p}) \ {y} = (m \ {y}) \ {p} OBVIOUS
  <2> QED BY <2>1, Zenon
<1>13. /\ f[y] \in Nat /\ f[p] \in Nat
       /\ sum((m \ {y}) \ {p}) \in Nat
  BY <1>a, <1>4, <1>6
<1> DEFINE r == sum((m \ {y}) \ {p})
<1>14. sum(m) = f[p] + (f[y] + r) BY <1>7, <1>10, <1>12
<1>15. f[y] + sum(m \ {y}) = f[y] + (f[p] + r) BY <1>11
<1>16. r \in Nat BY <1>13
<1> HIDE DEF r
<1>17. sum(m) = f[y] + sum(m \ {y}) BY <1>13, <1>14, <1>15, <1>16
<1> QED BY <1>5, <1>17

(* One index more. *)
LEMMA SumAdd ==
  ASSUME NEW f, NEW S, IsFiniteSet(S), NEW x, x \notin S,
         \A y \in S \cup {x} : f[y] \in Nat
  PROVE  SumFunctionOnSet(f, S \cup {x}) = f[x] + SumFunctionOnSet(f, S)
<1>1. IsFiniteSet(S \cup {x}) BY FS_AddElement
<1>2. (S \cup {x}) \ {x} = S OBVIOUS
<1> QED BY <1>1, <1>2, SumRemove

(* The value at one index changes. *)
LEMMA SumUpdate ==
  ASSUME NEW f, NEW h, NEW S, IsFiniteSet(S), NEW x \in S,
         \A y \in S : f[y] \in Nat /\ h[y] \in Nat,
         \A y \in S \ {x} : f[y] = h[y]
  PROVE  SumFunctionOnSet(h, S) + f[x] = SumFunctionOnSet(f, S) + h[x]
<1> DEFINE R == S \ {x}
<1>1. IsFiniteSet(R) BY FS_Subset
<1>2. SumFunctionOnSet(f, R) = SumFunctionOnSet(h, R) BY <1>1, SumSame
<1>3. SumFunctionOnSet(f, R) \in Nat BY <1>1, SumNat
<1>4. SumFunctionOnSet(f, S) = f[x] + SumFunctionOnSet(f, R) BY SumRemove
<1>5. SumFunctionOnSet(h, S) = h[x] + SumFunctionOnSet(h, R) BY SumRemove
<1> HIDE DEF R
<1> QED BY <1>2, <1>3, <1>4, <1>5

(* No value is larger than the sum. *)
LEMMA SumBound ==
  ASSUME NEW f, NEW S, IsFiniteSet(S), \A y \in S : f[y] \in Nat, NEW x \in S
  PROVE  f[x] <= SumFunctionOnSet(f, S)
<1>1. IsFiniteSet(S \ {x}) BY FS_Subset
<1>2. SumFunctionOnSet(f, S \ {x}) \in Nat BY <1>1, SumNat
<1>3. SumFunctionOnSet(f, S) = f[x] + SumFunctionOnSet(f, S \ {x}) BY SumRemove
<1> QED BY <1>2, <1>3

(* Two sets of indices without a common element. *)
LEMMA SumUnion ==
  ASSUME NEW f, NEW S, NEW U, IsFiniteSet(S), IsFiniteSet(U), S \cap U = {},
         \A y \in S \cup U : f[y] \in Nat
  PROVE  SumFunctionOnSet(f, S \cup U) = SumFunctionOnSet(f, S) + SumFunctionOnSet(f, U)
<1> DEFINE sum(t) == SumFunctionOnSet(f, t)
           T == {t \in SUBSET U : sum(S \cup t) # sum(S) + sum(t)}
<1> SUFFICES T = {} OBVIOUS
<1>1. SUFFICES ASSUME T # {} PROVE FALSE OBVIOUS
<1>2. T \subseteq SUBSET U OBVIOUS
<1>a. IsFiniteSet(S \cup U) BY FS_Union
<1>b. \A t \in SUBSET (S \cup U) : IsFiniteSet(t) /\ sum(t) \in Nat BY <1>a, FS_Subset, SumNat
<1> HIDE DEF T
<1>3. PICK m \in T : \A y \in T : ~ (y \subseteq m /\ y # m) BY <1>1, <1>2, MinimalSubset
<1>4. m \in SUBSET U /\ sum(S \cup m) # sum(S) + sum(m) BY <1>3 DEF T
<1>5. m # {}
  <2>1. sum({}) = 0 BY SumEmpty
  <2>2. sum(S \cup {}) = sum(S) /\ sum(S) \in Nat
    <3>1. S \cup {} = S OBVIOUS
    <3> QED BY <1>b, <3>1
  <2>3. sum(S \cup {}) = sum(S) + sum({}) BY <2>1, <2>2
  <2> QED BY <1>4, <2>3, Zenon
<1>6. PICK x : x \in m BY <1>5
<1>7. sum(m) = f[x] + sum(m \ {x}) BY <1>b, <1>4, <1>6, SumRemove
<1>8. sum(S \cup m) = f[x] + sum((S \cup m) \ {x}) BY <1>b, <1>4, <1>6, SumRemove
<1> HIDE DEF sum
<1>9. sum((S \cup m) \ {x}) = sum(S \cup (m \ {x}))
  <2>1. (S \cup m) \ {x} = S \cup (m \ {x}) BY <1>4, <1>6
  <2> QED BY <2>1, Zenon
<1>10. m \ {x} \notin T BY <1>3, <1>6
<1>11. sum(S \cup (m \ {x})) = sum(S) + sum(m \ {x}) BY <1>4, <1>10 DEF T
<1>12. f[x] \in Nat /\ sum(S) \in Nat /\ sum(m \ {x}) \in Nat BY <1>b, <1>4, <1>6
<1> DEFINE r == sum(m \ {x})
           q == sum(S)
<1>13. sum(S \cup m) = f[x] + (q + r) BY <1>8, <1>9, <1>11
<1>14. sum(S) + sum(m) = q + (f[x] + r) BY <1>7
<1>15. r \in Nat /\ q \in Nat BY <1>12
<1> HIDE DEF r, q
<1>16. sum(S \cup m) = sum(S) + sum(m) BY <1>12, <1>13, <1>14, <1>15
<1> QED BY <1>4, <1>16

(* A part is no larger than the whole. *)
LEMMA SumSubset ==
  ASSUME NEW f, NEW S, NEW U, IsFiniteSet(S), U \subseteq S, \A y \in S : f[y] \in Nat
  PROVE  SumFunctionOnSet(f, U) <= SumFunctionOnSet(f, S)
<1> DEFINE R == S \ U
<1>1. IsFiniteSet(U) /\ IsFiniteSet(R) BY FS_Subset
<1>2. U \cap R = {} /\ U \cup R = S OBVIOUS
<1>3. \A y \in U \cup R : f[y] \in Nat BY <1>2
<1>4. SumFunctionOnSet(f, U \cup R) = SumFunctionOnSet(f, U) + SumFunctionOnSet(f, R)
  <2> HIDE DEF R
  <2> QED BY <1>1, <1>2, <1>3, SumUnion
<1>5. SumFunctionOnSet(f, U) \in Nat /\ SumFunctionOnSet(f, R) \in Nat BY <1>1, SumNat
<1>6. SumFunctionOnSet(f, U \cup R) = SumFunctionOnSet(f, S) BY <1>2
<1> HIDE DEF R
<1> QED BY <1>4, <1>5, <1>6

(* A sum of zeros. *)
LEMMA SumZero ==
  ASSUME NEW f, NEW S, IsFiniteSet(S), \A y \in S : f[y] = 0
  PROVE  SumFunctionOnSet(f, S) = 0
<1> DEFINE T == {t \in SUBSET S : SumFunctionOnSet(f, t) # 0}
<1> SUFFICES T = {} OBVIOUS
<1>1. SUFFICES ASSUME T # {} PROVE FALSE OBVIOUS
<1>2. T \subseteq SUBSET S OBVIOUS
<1> HIDE DEF T
<1>3. PICK m \in T : \A y \in T : ~ (y \subseteq m /\ y # m) BY <1>1, <1>2, MinimalSubset
<1>4. m \in SUBSET S /\ SumFunctionOnSet(f, m) # 0 BY <1>3 DEF T
<1>5. IsFiniteSet(m) BY <1>4, FS_Subset
<1>6. m # {} BY <1>4, SumEmpty
<1>7. pick(m) \in m BY <1>6, PickIn
<1>8. m \ {pick(m)} \notin T BY <1>3, <1>7
<1>9. SumFunctionOnSet(f, m \ {pick(m)}) = 0 BY <1>4, <1>8 DEF T
<1>10. SumFunctionOnSet(f, m) = f[pick(m)] + SumFunctionOnSet(f, m \ {pick(m)})
  BY <1>5, <1>6, SumStep
<1>11. f[pick(m)] = 0 BY <1>4, <1>7
<1> QED BY <1>4, <1>9, <1>10, <1>11

(* The indices are renamed by h. *)
LEMMA SumImage ==
  ASSUME NEW f, NEW g, NEW h, NEW S, IsFiniteSet(S),
         \A x, y \in S : h[x] = h[y] => x = y,
         \A x \in S : f[h[x]] = g[x] /\ g[x] \in Nat
  PROVE  SumFunctionOnSet(f, {h[x] : x \in S}) = SumFunctionOnSet(g, S)
<1> DEFINE image(t) == {h[x] : x \in t}
           T == {t \in SUBSET S : SumFunctionOnSet(f, image(t)) # SumFunctionOnSet(g, t)}
<1> SUFFICES T = {} OBVIOUS
<1>1. SUFFICES ASSUME T # {} PROVE FALSE OBVIOUS
<1>2. T \subseteq SUBSET S OBVIOUS
<1> HIDE DEF T
<1>3. PICK m \in T : \A y \in T : ~ (y \subseteq m /\ y # m) BY <1>1, <1>2, MinimalSubset
<1>4. m \in SUBSET S /\ SumFunctionOnSet(f, image(m)) # SumFunctionOnSet(g, m) BY <1>3 DEF T
<1>5. m # {}
  <2> SUFFICES ASSUME m = {} PROVE FALSE OBVIOUS
  <2>1. image(m) = {} OBVIOUS
  <2>2. SumFunctionOnSet(f, {}) = 0 /\ SumFunctionOnSet(g, {}) = 0 BY SumEmpty
  <2> QED BY <1>4, <2>1, <2>2
<1>6. PICK x : x \in m BY <1>5
<1> DEFINE r == m \ {x}
<1>7. r \notin T /\ r \in SUBSET S BY <1>3, <1>4, <1>6
<1>8. SumFunctionOnSet(f, image(r)) = SumFunctionOnSet(g, r) BY <1>7 DEF T
<1>9. IsFiniteSet(m) BY <1>4, FS_Subset
<1>10. SumFunctionOnSet(g, m) = g[x] + SumFunctionOnSet(g, r)
  <2>1. \A y \in m : g[y] \in Nat BY <1>4
  <2> QED BY <1>6, <1>9, <2>1, SumRemove
<1>11. IsFiniteSet(image(m))
  <2> DEFINE e == [y \in m |-> h[y]]
  <2>1. e \in Surjection(m, image(m)) BY DEF Surjection
  <2> HIDE DEF e, image
  <2> QED BY <1>9, <2>1, FS_Surjection
<1>12. h[x] \in image(m) /\ \A y \in image(m) : f[y] \in Nat BY <1>4, <1>6
<1>13. image(m) \ {h[x]} = image(r)
  <2>1. \A y \in m : h[y] = h[x] => y = x BY <1>4, <1>6
  <2> QED BY <2>1
<1>14. f[h[x]] = g[x] BY <1>4, <1>6
<1> HIDE DEF image, r
<1>15. PICK z : z = h[x] OBVIOUS
<1>16. z \in image(m) BY <1>12, <1>15
<1>17. SumFunctionOnSet(f, image(m)) = f[z] + SumFunctionOnSet(f, image(m) \ {z})
  BY <1>11, <1>12, <1>16, SumRemove
<1> QED BY <1>4, <1>8, <1>10, <1>13, <1>14, <1>15, <1>17

-----------------------------------------------------------------------------
(* The sum of all values of a function, when its domain grows by one. *)
LEMMA FunExtend ==
  ASSUME NEW f, NEW h, NEW x, IsFiniteSet(DOMAIN f), x \notin DOMAIN f,
         DOMAIN h = DOMAIN f \cup {x},
         \A y \in DOMAIN f : f[y] \in Nat /\ h[y] = f[y], h[x] \in Nat
  PROVE  SumFunction(h) = SumFunction(f) + h[x]
<1> DEFINE D == DOMAIN f
<1>1. SumFunction(h) = SumFunctionOnSet(h, D \cup {x}) BY DEF SumFunction
<1>2. SumFunctionOnSet(h, D \cup {x}) = h[x] + SumFunctionOnSet(h, D)
  <2>1. \A y \in D \cup {x} : h[y] \in Nat OBVIOUS
  <2> QED BY <2>1, SumAdd
<1>3. SumFunctionOnSet(h, D) = SumFunctionOnSet(f, D) BY SumSame
<1>4. SumFunctionOnSet(f, D) \in Nat BY SumNat
<1>5. SumFunction(f) = SumFunctionOnSet(f, D) BY DEF SumFunction
<1> HIDE DEF D
<1> QED BY <1>1, <1>2, <1>3, <1>4, <1>5

(* One value changes. *)
LEMMA FunChange ==
  ASSUME NEW f, NEW h, NEW x \in DOMAIN f, IsFiniteSet(DOMAIN f), DOMAIN h = DOMAIN f,
         \A y \in DOMAIN f : f[y] \in Nat /\ h[y] \in Nat,
         \A y \in DOMAIN f \ {x} : f[y] = h[y]
  PROVE  SumFunction(h) + f[x] = SumFunction(f) + h[x]
<1> DEFINE D == DOMAIN f
<1>1. SumFunction(h) = SumFunctionOnSet(h, D) /\ SumFunction(f) = SumFunctionOnSet(f, D)
  BY DEF SumFunction
<1>2. SumFunctionOnSet(h, D) + f[x] = SumFunctionOnSet(f, D) + h[x] BY SumUpdate
<1> HIDE DEF D
<1> QED BY <1>1, <1>2

(* The sum of natural numbers, and a bound for each of them. *)
LEMMA FunNat ==
  ASSUME NEW f, IsFiniteSet(DOMAIN f), \A y \in DOMAIN f : f[y] \in Nat
  PROVE  SumFunction(f) \in Nat
BY SumNat DEF SumFunction

LEMMA FunBound ==
  ASSUME NEW f, IsFiniteSet(DOMAIN f), \A y \in DOMAIN f : f[y] \in Nat, NEW x \in DOMAIN f
  PROVE  f[x] <= SumFunction(f)
BY SumBound DEF SumFunction
-----------------------------------------------------------------------------
(* A set of numbers. *)
Numbers(s) == s \subseteq Nat

(* A finite set of numbers that is not empty has a greatest one. *)
LEMMA GreatestIn ==
  ASSUME NEW s, IsFiniteSet(s), Numbers(s), s # {}
  PROVE  Max(s) \in s
  <1> DEFINE above(x) == {y \in s : y > x}
             T == {above(x) : x \in s}
  <1>1. T \subseteq SUBSET s OBVIOUS
  <1>2. T # {} OBVIOUS
  <1>3. PICK m \in T : \A y \in T : ~ (y \subseteq m /\ y # m)
    <2> HIDE DEF T
    <2> QED BY <1>1, <1>2, MinimalSubset
  <1>4. PICK x \in s : m = above(x) BY <1>3
  <1>5. ASSUME NEW y \in s PROVE x >= y
    <2>0. x \in Nat /\ y \in Nat BY DEF Numbers
    <2> SUFFICES ASSUME y > x PROVE FALSE BY <2>0
    <2>1. above(y) \in T OBVIOUS
    <2>2. above(y) \subseteq m
      <3>1. \A z \in s : z > y => z > x BY DEF Numbers
      <3> QED BY <1>4, <3>1
    <2>3. y \in m /\ y \notin above(y) BY <1>4 DEF Numbers
    <2> QED BY <1>3, <2>1, <2>2, <2>3
  <1>6. x \in s /\ \A y \in s : x >= y BY <1>4, <1>5
  <1> QED BY <1>6 DEF Max
=============================================================================
