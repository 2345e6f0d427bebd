------------------------- MODULE AggregateTestProofs ------------------------
EXTENDS AggregateTest, AggregateProofs

(***************************************************************************)
(* What the end-to-end test of aggregation, 0012-aggregate_proofs.js, can  *)
(* be relied on for, with any number of proofs, any fees and whatever is   *)
(* lost of its calls:                                                      *)
(*   - PathsVerify: verifyProof accepts the path of every leaf, so the     *)
(*     test never fails on a path (PathsNeverFail);                        *)
(*   - TestImplementsPallet: all the test does are steps of the pallet;    *)
(*   - LossesAreNoticed and OkMeansDoneOrEarly: a test that passes has     *)
(*     done on the chain what it asked for.                                *)
(* The last two rest on TestInv, which adds to the pallet's invariant what *)
(* each of the four domains of the test is at each place of run.           *)
(***************************************************************************)

(***************************************************************************)
(* The way up from a node, level by level, for the first n levels.         *)
(***************************************************************************)
Foot(nodes, i) == [nodes |-> nodes, index |-> i, siblings |-> <<>>]

IsClimb(g, b, n) == g = [k \in 0 .. n |-> IF k = 0 THEN b ELSE Up(g[k - 1])]

LEMMA ClimbUnfold ==
  ASSUME NEW g, NEW b, NEW n \in Nat, IsClimb(g, b, n), NEW k \in 0 .. n
  PROVE  g[k] = IF k = 0 THEN b ELSE Up(g[k - 1])
BY Zenon DEF IsClimb

(* Two of them agree where both are defined. *)
LEMMA ClimbsAgree ==
  ASSUME NEW b, NEW g, NEW h, NEW n \in Nat, NEW m \in Nat, IsClimb(g, b, n), IsClimb(h, b, m),
         NEW k \in 0 .. n, k \in 0 .. m
  PROVE  g[k] = h[k]
<1> DEFINE I == {x \in 0 .. k : g[x] # h[x]}
<1>1. SUFFICES ASSUME I # {} PROVE FALSE OBVIOUS
<1>2. I \subseteq Nat OBVIOUS
<1> HIDE DEF I
<1>3. PICK x \in I : \A y \in I : x <= y BY <1>1, <1>2, LeastExists
<1>4. x \in 0 .. n /\ x \in 0 .. m /\ g[x] # h[x] /\ x \in Nat BY <1>2, <1>3 DEF I
<1>5. g[x] = IF x = 0 THEN b ELSE Up(g[x - 1]) BY <1>4, ClimbUnfold
<1>6. h[x] = IF x = 0 THEN b ELSE Up(h[x - 1]) BY <1>4, ClimbUnfold
<1>7. x # 0 BY <1>4, <1>5, <1>6
<1>8. x - 1 \in 0 .. k /\ ~ (x <= x - 1) BY <1>3, <1>4, <1>7 DEF I
<1>9. g[x - 1] = h[x - 1] BY <1>3, <1>8 DEF I
<1> QED BY <1>4, <1>5, <1>6, <1>7, <1>9

(* There is one for every number of levels. *)
LEMMA ClimbExists ==
  ASSUME NEW b, NEW n \in Nat
  PROVE  \E g : IsClimb(g, b, n)
<1> DEFINE I == {x \in Nat : ~ \E g : IsClimb(g, b, x)}
<1>1. SUFFICES ASSUME I # {} PROVE FALSE OBVIOUS
<1>2. I \subseteq Nat OBVIOUS
<1> HIDE DEF I
<1>3. PICK x \in I : \A y \in I : x <= y BY <1>1, <1>2, LeastExists
<1>4. x \in Nat /\ ~ \E g : IsClimb(g, b, x) BY <1>3 DEF I
<1>5. x # 0
  <2> SUFFICES ASSUME x = 0 PROVE FALSE OBVIOUS
  <2> DEFINE g == [k \in 0 .. 0 |-> b]
  <2>1. g = [k \in 0 .. 0 |-> IF k = 0 THEN b ELSE Up(g[k - 1])] OBVIOUS
  <2>2. IsClimb(g, b, 0)
    <3> HIDE DEF g
    <3> QED BY <2>1 DEF IsClimb
  <2> QED BY <1>4, <2>2
<1>6. x - 1 \in Nat /\ x - 1 \notin I BY <1>3, <1>4, <1>5
<1>7. PICK h : IsClimb(h, b, x - 1) BY <1>6 DEF I
<1> DEFINE g == [k \in 0 .. x |-> IF k = x THEN Up(h[x - 1]) ELSE h[k]]
<1>8. ASSUME NEW k \in 0 .. x PROVE g[k] = IF k = 0 THEN b ELSE Up(g[k - 1])
  <2>1. CASE k = x
    <3>1. x - 1 \in 0 .. x /\ x - 1 # x BY <1>4, <1>5
    <3>2. g[x - 1] = h[x - 1] BY <3>1
    <3> QED BY <1>5, <2>1, <3>2
  <2>2. CASE k # x
    <3>1. k \in 0 .. x - 1 BY <1>4, <2>2
    <3>2. h[k] = IF k = 0 THEN b ELSE Up(h[k - 1]) BY <1>6, <1>7, <3>1, ClimbUnfold
    <3>3. k # 0 => k - 1 \in 0 .. x /\ k - 1 # x BY <1>4, <3>1
    <3>4. k # 0 => g[k - 1] = h[k - 1] BY <3>3
    <3> QED BY <2>2, <3>2, <3>4
  <2> QED BY <2>1, <2>2
<1>9. g = [k \in 0 .. x |-> g[k]] OBVIOUS
<1>10. IsClimb(g, b, x)
  <2> HIDE DEF g
  <2>1. g = [k \in 0 .. x |-> IF k = 0 THEN b ELSE Up(g[k - 1])] BY <1>8, <1>9
  <2> QED BY <2>1 DEF IsClimb
<1> QED BY <1>4, <1>10

(* So the recursion of Climb has a solution, and Climb is one. *)
LEMMA ClimbStep ==
  ASSUME NEW nodes, NEW i
  PROVE  \A k \in Nat : Climb(nodes, i)[k] =
           IF k = 0 THEN Foot(nodes, i) ELSE Up(Climb(nodes, i)[k - 1])
<1> DEFINE b == Foot(nodes, i)
           part(x) == CHOOSE h : IsClimb(h, b, x)
           g == [x \in Nat |-> part(x)[x]]
<1>1. ASSUME NEW x \in Nat PROVE IsClimb(part(x), b, x) BY ClimbExists
<1> HIDE DEF part, b
<1>2. ASSUME NEW x \in Nat PROVE g[x] = IF x = 0 THEN b ELSE Up(g[x - 1])
  <2>1. x \in 0 .. x OBVIOUS
  <2>2. PICK p : p = part(x) OBVIOUS
  <2>3. p[x] = IF x = 0 THEN b ELSE Up(p[x - 1]) BY <1>1, <2>1, <2>2, ClimbUnfold
  <2>4. ASSUME x # 0 PROVE p[x - 1] = g[x - 1]
    <3>1. x - 1 \in Nat /\ x - 1 \in 0 .. x /\ x - 1 \in 0 .. x - 1 BY <2>4
    <3>2. PICK q : q = part(x - 1) OBVIOUS
    <3>3. PICK y : y = x - 1 OBVIOUS
    <3>4. IsClimb(q, b, y) /\ IsClimb(p, b, x) /\ y \in Nat /\ y \in 0 .. x /\ y \in 0 .. y
      BY <1>1, <2>2, <3>1, <3>2, <3>3
    <3>5. p[y] = q[y] BY <3>4, ClimbsAgree
    <3> QED BY <3>1, <3>2, <3>3, <3>5
  <2> QED BY <2>2, <2>3, <2>4
<1>3. g = [x \in Nat |-> IF x = 0 THEN b ELSE Up(g[x - 1])]
  <2>1. g = [x \in Nat |-> g[x]] OBVIOUS
  <2> HIDE DEF g
  <2> QED BY <1>2, <2>1
<1> HIDE DEF g
<1>4. Climb(nodes, i) = [x \in Nat |-> IF x = 0 THEN b ELSE Up(Climb(nodes, i)[x - 1])]
  BY <1>3, Zenon DEF Climb, b, Foot
<1>5. PICK c : c = Climb(nodes, i) OBVIOUS
<1>6. c = [x \in Nat |-> IF x = 0 THEN b ELSE Up(c[x - 1])] BY <1>4, <1>5, Zenon
<1>7. \A k \in Nat : c[k] = IF k = 0 THEN b ELSE Up(c[k - 1]) BY <1>6, Zenon
<1> QED BY <1>5, <1>7 DEF b

(***************************************************************************)
(* The loop of verifyProof goes through the path in its order.  g is what  *)
(* it has from the elements of p with an index in s, for every s \subseteq S. *)
(***************************************************************************)
IsFold(g, b, p, S) ==
  g = [s \in SUBSET S |-> IF s = {} THEN b ELSE step_up(g[s \ {Max(s)}], p[Max(s)])]

(* One step of it. *)
LEMMA FoldUnfold ==
  ASSUME NEW g, NEW b, NEW p, NEW S, IsFold(g, b, p, S), NEW s \in SUBSET S
  PROVE  g[s] = IF s = {} THEN b ELSE step_up(g[s \ {Max(s)}], p[Max(s)])
BY Zenon DEF IsFold

(* Two of them agree where both are defined. *)
LEMMA FoldsAgree ==
  ASSUME NEW b, NEW p, NEW S, NEW U, IsFiniteSet(U), U \subseteq S, Numbers(S),
         NEW g1, NEW g2, IsFold(g1, b, p, S), IsFold(g2, b, p, U)
  PROVE  g1[U] = g2[U]
<1> DEFINE T == {t \in SUBSET U : g1[t] # g2[t]}
<1> SUFFICES T = {} OBVIOUS
<1>1. SUFFICES ASSUME T # {} PROVE FALSE OBVIOUS
<1>2. T \subseteq SUBSET U OBVIOUS
<1> HIDE DEF T
<1>3. PICK m \in T : \A y \in T : ~ (y \subseteq m /\ y # m) BY <1>1, <1>2, MinimalSubset
<1>4. m \in SUBSET S /\ m \in SUBSET U /\ g1[m] # g2[m] BY <1>3 DEF T
<1>5. g1[m] = IF m = {} THEN b ELSE step_up(g1[m \ {Max(m)}], p[Max(m)])
  BY <1>4, Zenon DEF IsFold
<1>6. g2[m] = IF m = {} THEN b ELSE step_up(g2[m \ {Max(m)}], p[Max(m)])
  BY <1>4, Zenon DEF IsFold
<1>7. m # {} BY <1>4, <1>5, <1>6
<1>8. Max(m) \in m
  <2>1. IsFiniteSet(m) /\ Numbers(m) BY <1>4, FS_Subset DEF Numbers
  <2> QED BY <1>7, <2>1, GreatestIn
<1>9. m \ {Max(m)} \notin T BY <1>3, <1>8
<1>10. g1[m \ {Max(m)}] = g2[m \ {Max(m)}] BY <1>4, <1>9 DEF T
<1> QED BY <1>4, <1>5, <1>6, <1>7, <1>10

(* The entries of a finite set of indices can be gone through. *)
LEMMA FoldExists ==
  ASSUME NEW b, NEW p, NEW S, IsFiniteSet(S), Numbers(S)
  PROVE  \E g : IsFold(g, b, p, S)
<1> DEFINE ok(g, t) == IsFold(g, b, p, t)
           up(r, s) == step_up(r, p[Max(s)])
           T == {t \in SUBSET S : ~ \E g : ok(g, t)}
<1> SUFFICES T = {} OBVIOUS
<1>1. SUFFICES ASSUME T # {} PROVE FALSE OBVIOUS
<1>2. T \subseteq SUBSET S OBVIOUS
<1> HIDE DEF T
<1>3. PICK m \in T : \A y \in T : ~ (y \subseteq m /\ y # m) BY <1>1, <1>2, MinimalSubset
<1>4. m \in SUBSET S /\ ~ \E g : ok(g, m) BY <1>3 DEF T
<1>a. ASSUME NEW s \in SUBSET m, s # {} PROVE Max(s) \in s
  <2>1. IsFiniteSet(s) /\ Numbers(s) BY <1>4, FS_Subset DEF Numbers
  <2> QED BY <1>a, <2>1, GreatestIn
<1>b. ASSUME NEW s, NEW g, ok(g, s), NEW r \in SUBSET s
      PROVE  g[r] = IF r = {} THEN b ELSE up(g[r \ {Max(r)}], r)
  BY <1>b, FoldUnfold
<1>c. ASSUME NEW f1, NEW f2, NEW s, NEW r, Numbers(s), IsFiniteSet(r), r \subseteq s,
             ok(f1, s), ok(f2, r)
      PROVE  f1[r] = f2[r]
  BY <1>c, FoldsAgree
<1> DEFINE part(s) == CHOOSE g : ok(g, s)
           below(s) == part(s)[s]
           g == [s \in SUBSET m |-> IF s = {} THEN b ELSE up(below(s \ {Max(s)}), s)]
<1>5. ASSUME NEW s \in SUBSET m, s # m PROVE ok(part(s), s)
  <2>1. s \notin T BY <1>3, <1>5
  <2>2. \E h : ok(h, s) BY <1>4, <2>1 DEF T
  <2> HIDE DEF ok
  <2> QED BY <2>2
<1> HIDE DEF part, ok, up
<1>6. ASSUME NEW s \in SUBSET m, s # m PROVE g[s] = below(s)
  <2>1. ok(part(s), s) BY <1>5, <1>6
  <2>2. CASE s = {} BY <1>b, <2>1, <2>2
  <2>3. CASE s # {}
    <3> DEFINE r == s \ {Max(s)}
    <3>1. Max(s) \in s BY <1>a, <2>3
    <3>2. r \in SUBSET m /\ r # m /\ r \in SUBSET s /\ r \subseteq s /\ Numbers(s)
      BY <1>4, <1>6 DEF Numbers
    <3>3. ok(part(r), r) BY <1>5, <3>2
    <3>4. IsFiniteSet(r) BY <1>4, <3>2, FS_Subset
    <3>5. part(r)[r] = part(s)[r]
      <4> HIDE DEF r, g, below
      <4> QED BY <1>c, <2>1, <3>2, <3>3, <3>4
    <3>6. part(s)[s] = up(part(s)[r], s) BY <1>b, <2>1, <2>3
    <3> QED BY <2>3, <3>5, <3>6
  <2> QED BY <2>2, <2>3
<1>7. ASSUME NEW s \in SUBSET m, s # {} PROVE below(s \ {Max(s)}) = g[s \ {Max(s)}]
  <2>1. Max(s) \in s BY <1>7, <1>a
  <2>2. s \ {Max(s)} \in SUBSET m /\ s \ {Max(s)} # m BY <2>1
  <2> HIDE DEF g, below
  <2> QED BY <1>6, <2>2
<1>8. g = [s \in SUBSET m |-> IF s = {} THEN b ELSE up(g[s \ {Max(s)}], s)]
  <2> HIDE DEF below
  <2>1. \A s \in SUBSET m : (IF s = {} THEN b ELSE up(below(s \ {Max(s)}), s))
                           = (IF s = {} THEN b ELSE up(g[s \ {Max(s)}], s))
    <3> HIDE DEF g
    <3> QED BY <1>7
  <2> DEFINE k == g
  <2>2. k = [s \in SUBSET m |-> IF s = {} THEN b ELSE up(below(s \ {Max(s)}), s)] OBVIOUS
  <2> QED BY <2>1, Zenon
<1>9. ok(g, m)
  <2> HIDE DEF g
  <2> QED BY <1>8 DEF ok, up, IsFold
<1> QED BY <1>4, <1>9

(* The greatest number of an interval from 1. *)
LEMMA MaxOfInterval ==
  ASSUME NEW k \in Nat \ {0}
  PROVE  Max(1 .. k) = k
<1>1. k \in 1 .. k /\ \A y \in 1 .. k : k >= y OBVIOUS
<1>2. ASSUME NEW x \in 1 .. k, \A y \in 1 .. k : x >= y PROVE x = k BY <1>1, <1>2
<1> QED BY <1>1, <1>2 DEF Max

Walked(b, p) == FoldLeft(step_up, b, p)

(* What the loop has after each element of the path. *)
IsWalk(g, b, p, n) ==
  /\ g[0] = b
  /\ \A k \in 1 .. n : g[k] = step_up(g[k - 1], p[k])
  /\ Walked(b, p) = g[n]

LEMMA LoopStates ==
  ASSUME NEW b, NEW p, NEW n \in Nat, DOMAIN p = 1 .. n
  PROVE  \E g : IsWalk(g, b, p, n)
<1> DEFINE D == 1 .. n
<1>1. IsFiniteSet(D) /\ Numbers(D) BY FS_Interval DEF Numbers
<1>2. PICK h : IsFold(h, b, p, D) /\ Walked(b, p) = h[D]
  <2> DEFINE c == CHOOSE h : IsFold(h, b, p, DOMAIN p)
  <2>1. \E h : IsFold(h, b, p, DOMAIN p) BY <1>1, FoldExists
  <2>2. Walked(b, p) = c[DOMAIN p] BY DEF Walked, FoldLeft, MapThenFoldSet, IsFold
  <2>3. IsFold(c, b, p, DOMAIN p) BY <2>1
  <2> HIDE DEF c
  <2> QED BY <2>2, <2>3
<1> DEFINE g == [k \in 0 .. n |-> h[1 .. k]]
<1>3. g[0] = b
  <2>1. 1 .. 0 = {} /\ {} \in SUBSET D OBVIOUS
  <2>2. h[{}] = b BY <1>2, <2>1, FoldUnfold
  <2>3. g[0] = h[1 .. 0] OBVIOUS
  <2> QED BY <2>1, <2>2, <2>3
<1>4. ASSUME NEW k \in 1 .. n PROVE g[k] = step_up(g[k - 1], p[k])
  <2>1. k \in Nat \ {0} /\ 1 .. k \in SUBSET D /\ 1 .. k # {} OBVIOUS
  <2>2. Max(1 .. k) = k BY <2>1, MaxOfInterval
  <2>3. (1 .. k) \ {k} = 1 .. k - 1 BY <2>1
  <2>4. PICK s : s = 1 .. k OBVIOUS
  <2>5. s \in SUBSET D /\ s # {} /\ Max(s) = k /\ s \ {k} = 1 .. k - 1 BY <2>1, <2>2, <2>3, <2>4
  <2>6. h[s] = step_up(h[s \ {Max(s)}], p[Max(s)])
    <3> HIDE DEF D
    <3>1. IsFold(h, b, p, D) /\ s \in SUBSET D BY <1>2, <2>5
    <3>2. h[s] = IF s = {} THEN b ELSE step_up(h[s \ {Max(s)}], p[Max(s)]) BY <3>1, Zenon DEF IsFold
    <3> QED BY <2>5, <3>2
  <2>7. g[k] = h[s] /\ g[k - 1] = h[1 .. k - 1] BY <2>4
  <2> HIDE DEF g
  <2> QED BY <2>5, <2>6, <2>7
<1>5. Walked(b, p) = g[n]
  <2>1. g[n] = h[D] OBVIOUS
  <2> HIDE DEF g
  <2> QED BY <1>2, <2>1
<1> HIDE DEF g
<1> QED BY <1>3, <1>4, <1>5 DEF IsWalk

(* Induction on numbers, with the set of those that have been reached. *)
LEMMA ReachesAll ==
  ASSUME NEW I, 0 \in I, \A k \in Nat : k \in I => k + 1 \in I
  PROVE  Nat \subseteq I
<1> DEFINE J == {k \in Nat : k \notin I}
<1>1. SUFFICES ASSUME J # {} PROVE FALSE OBVIOUS
<1>2. J \subseteq Nat OBVIOUS
<1> HIDE DEF J
<1>3. PICK x \in J : \A y \in J : x <= y BY <1>1, <1>2, LeastExists
<1>4. x \in Nat /\ x # 0 /\ x \notin I BY <1>3 DEF J
<1>5. x - 1 \in Nat /\ x - 1 \notin J /\ (x - 1) + 1 = x BY <1>3, <1>4
<1>6. x - 1 \in I BY <1>5 DEF J
<1> QED BY <1>4, <1>5, <1>6

IsSeq(s) == \E S : s \in Seq(S)

(* A sequence with one more element. *)
LEMMA OneMore ==
  ASSUME NEW s, IsSeq(s), NEW x
  PROVE  /\ IsSeq(s \o <<x>>) /\ Len(s) \in Nat /\ DOMAIN s = 1 .. Len(s)
         /\ DOMAIN (s \o <<x>>) = 1 .. Len(s) + 1
         /\ \A k \in 1 .. Len(s) : (s \o <<x>>)[k] = s[k]
         /\ (s \o <<x>>)[Len(s) + 1] = x
<1>1. PICK S : s \in Seq(S) BY DEF IsSeq
<1> DEFINE T == S \cup {x}
<1>2. s \in Seq(T) /\ <<x>> \in Seq(T) /\ x \in T BY <1>1
<1> HIDE DEF T
<1>3. s \o <<x>> \in Seq(T) /\ Len(s \o <<x>>) = Len(s) + 1 /\ Len(s) \in Nat BY <1>2
<1>4. \A k \in 1 .. Len(s) : (s \o <<x>>)[k] = s[k] BY <1>2
<1>5. (s \o <<x>>)[Len(s) + 1] = x BY <1>2
<1>6. DOMAIN s = 1 .. Len(s) /\ DOMAIN (s \o <<x>>) = 1 .. Len(s) + 1 BY <1>2, <1>3
<1> QED BY <1>3, <1>4, <1>5, <1>6 DEF IsSeq

(* The loop takes one more element after the others. *)
LEMMA FoldAppend ==
  ASSUME NEW b, NEW s, IsSeq(s), NEW x
  PROVE  Walked(b, s \o <<x>>) = step_up(Walked(b, s), x)
<1>1. PICK t : t = s \o <<x>> OBVIOUS
<1>2. PICK n : n = Len(s) OBVIOUS
<1>3. /\ n \in Nat /\ DOMAIN s = 1 .. n /\ DOMAIN t = 1 .. n + 1
      /\ \A k \in 1 .. n : t[k] = s[k]
      /\ t[n + 1] = x
  BY <1>1, <1>2, OneMore
<1>4. PICK g : IsWalk(g, b, s, n) BY <1>3, LoopStates
<1>5. n + 1 \in Nat BY <1>3
<1>6. PICK h : IsWalk(h, b, t, n + 1) BY <1>3, <1>5, LoopStates
<1> USE DEF IsWalk
<1> DEFINE I == {k \in Nat : k <= n => g[k] = h[k]}
<1>7. 0 \in I BY <1>4, <1>6
<1>8. ASSUME NEW k \in Nat, k \in I, k + 1 <= n PROVE g[k + 1] = h[k + 1]
  <2>1. k + 1 \in 1 .. n /\ k + 1 \in 1 .. n + 1 /\ k <= n /\ (k + 1) - 1 = k BY <1>3, <1>8
  <2>2. g[k] = h[k] BY <1>8, <2>1
  <2> QED BY <1>3, <1>4, <1>6, <2>1, <2>2
<1>9. \A k \in Nat : k \in I => k + 1 \in I BY <1>8
<1>10. Nat \subseteq I
  <2> HIDE DEF I
  <2> QED BY <1>7, <1>9, ReachesAll
<1>11. g[n] = h[n] BY <1>3, <1>10
<1>12. n + 1 \in 1 .. n + 1 /\ (n + 1) - 1 = n BY <1>3
<1>13. h[n + 1] = step_up(h[n], x) BY <1>3, <1>6, <1>12
<1> QED BY <1>1, <1>4, <1>6, <1>11, <1>13

(***************************************************************************)
(* A level of the tree: what a node of it has below, and the state of the  *)
(* loop there.                                                             *)
(***************************************************************************)
Level(nodes) == Len(nodes) \in Nat \ {0} /\ DOMAIN nodes = 1 .. Len(nodes)

(* The level above. *)
LEMMA LevelAbove ==
  ASSUME NEW nodes, Level(nodes)
  PROVE  Level(NextLevel(nodes)) /\ Len(NextLevel(nodes)) = (Len(nodes) + 1) \div 2
<1>1. PICK w : w = (Len(nodes) + 1) \div 2 OBVIOUS
<1>2. w \in Nat \ {0} BY <1>1 DEF Level
<1> DEFINE f == NextLevel(nodes)
           S == {f[i] : i \in 1 .. w}
<1>3. f \in [1 .. w -> S] BY <1>1 DEF NextLevel
<1> HIDE DEF f, S
<1>4. f \in Seq(S) /\ Len(f) = w /\ DOMAIN f = 1 .. w BY <1>2, <1>3
<1> QED BY <1>1, <1>2, <1>4 DEF f, Level

Placed(c) == Level(c.nodes) /\ c.index \in 1 .. Len(c.nodes) /\ IsSeq(c.siblings)

(* The state of the loop belongs to the node: its position and width are   *)
(* those of the node, or both stand for the last node.                     *)
Carried(c, s) ==
  /\ s.hash = c.nodes[c.index] /\ s.position \in Nat /\ s.width \in Nat
  /\ \/ s.position = c.index - 1 /\ s.width = Len(c.nodes)
     \/ s.position + 1 = s.width /\ c.index = Len(c.nodes)

(* One level up: without a neighbour the loop waits, with one it takes it. *)
LEMMA UpCarried ==
  ASSUME NEW c, Placed(c), NEW b, Carried(c, Walked(b, c.siblings))
  PROVE  Placed(Up(c)) /\ Carried(Up(c), Walked(b, Up(c).siblings))
<1>1. PICK q : q = c.nodes OBVIOUS
<1>2. PICK w : w = Len(q) OBVIOUS
<1>3. PICK x : x = c.index OBVIOUS
<1>4. PICK r : r = c.siblings OBVIOUS
<1>5. PICK s : s = Walked(b, r) OBVIOUS
<1>6. w \in Nat \ {0} /\ DOMAIN q = 1 .. w /\ x \in 1 .. w /\ IsSeq(r) /\ Level(q)
  BY <1>1, <1>2, <1>3, <1>4 DEF Placed, Level
<1>7. /\ s.hash = q[x] /\ s.position \in Nat /\ s.width \in Nat
      /\ \/ s.position = x - 1 /\ s.width = w
         \/ s.position + 1 = s.width /\ x = w
  BY <1>1, <1>2, <1>3, <1>4, <1>5 DEF Carried
<1>8. PICK u : u = NextLevel(q) OBVIOUS
<1>9. PICK v : v = (w + 1) \div 2 OBVIOUS
<1>10. PICK y : y = (x + 1) \div 2 OBVIOUS
<1>11. Level(u) /\ Len(u) = v BY <1>2, <1>6, <1>8, <1>9, LevelAbove
<1>12. y \in 1 .. v BY <1>6, <1>9, <1>10
<1>13. u[y] = IF 2 * y <= w THEN HashNodes(q[2 * y - 1], q[2 * y]) ELSE q[2 * y - 1]
  BY <1>2, <1>8, <1>9, <1>12 DEF NextLevel
<1>14. /\ Up(c).nodes = u /\ Up(c).index = y /\ Up(c).siblings = r \o Sibling(q, x)
  BY <1>1, <1>3, <1>4, <1>8, <1>10 DEF Up
<1>15. CASE x = w /\ x % 2 = 1
  <2>1. ~ (x + 1 <= w) BY <1>6, <1>15
  <2>2. Sibling(q, x) = <<>> BY <1>2, <1>15, <2>1 DEF Sibling
  <2>3. r \o <<>> = r BY <1>6 DEF IsSeq
  <2>4. 2 * y - 1 = x /\ ~ (2 * y <= w) /\ y = v BY <1>6, <1>9, <1>10, <1>15
  <2>5. u[y] = q[x] BY <1>13, <2>4
  <2>6. s.position + 1 = s.width BY <1>6, <1>7, <1>15
  <2>7. IsSeq(Up(c).siblings) /\ Walked(b, Up(c).siblings) = s
    BY <1>5, <1>6, <1>14, <2>2, <2>3
  <2>8. Placed(Up(c)) BY <1>11, <1>12, <1>14, <2>7 DEF Placed
  <2>9. Carried(Up(c), s) BY <1>7, <1>11, <1>14, <2>4, <2>5, <2>6 DEF Carried
  <2> QED BY <2>7, <2>8, <2>9
<1>16. CASE ~ (x = w /\ x % 2 = 1)
  <2>1. PICK z : z = IF x % 2 = 1 THEN x + 1 ELSE x - 1 OBVIOUS
  <2>2. z <= w BY <1>6, <1>16, <2>1
  <2>3. Sibling(q, x) = <<q[z]>> BY <1>2, <2>1, <2>2 DEF Sibling
  <2>4. PICK t : t = step_up(s, q[z]) OBVIOUS
  <2>5. Walked(b, Up(c).siblings) = t /\ IsSeq(Up(c).siblings)
    <3>1. Walked(b, r \o <<q[z]>>) = step_up(Walked(b, r), q[z]) /\ IsSeq(r \o <<q[z]>>)
      BY <1>6, FoldAppend, OneMore
    <3> QED BY <1>5, <1>14, <2>3, <2>4, <3>1
  <2>6. t.position = s.position \div 2 /\ t.width = (s.width - 1) \div 2 + 1
    BY <2>4 DEF step_up
  <2>7. t.hash = IF s.position % 2 = 1 \/ s.position + 1 = s.width
                 THEN HashNodes(q[z], q[x]) ELSE HashNodes(q[x], q[z])
    BY <1>7, <2>4 DEF step_up
  <2>8. t.hash = u[y]
    <3>1. CASE x % 2 = 1
      <4>1. 2 * y - 1 = x /\ 2 * y = z /\ 2 * y <= w BY <1>6, <1>10, <2>1, <2>2, <3>1
      <4>2. x # w BY <1>16, <3>1
      <4>3. s.position % 2 # 1 /\ s.position + 1 # s.width BY <1>6, <1>7, <3>1, <4>2
      <4> QED BY <1>13, <2>7, <4>1, <4>3
    <3>2. CASE x % 2 # 1
      <4>1. 2 * y = x /\ 2 * y - 1 = z /\ 2 * y <= w BY <1>6, <1>10, <2>1, <3>2
      <4>2. s.position % 2 = 1 \/ s.position + 1 = s.width BY <1>6, <1>7, <3>2
      <4> QED BY <1>13, <2>7, <4>1, <4>2
    <3> QED BY <3>1, <3>2
  <2>9. /\ t.position \in Nat /\ t.width \in Nat
        /\ \/ t.position = y - 1 /\ t.width = v
           \/ t.position + 1 = t.width /\ y = v
    <3>1. CASE s.position = x - 1 /\ s.width = w BY <1>6, <1>9, <1>10, <2>6, <3>1
    <3>2. CASE s.position + 1 = s.width /\ x = w BY <1>6, <1>7, <1>9, <1>10, <2>6, <3>2
    <3> QED BY <1>7, <3>1, <3>2
  <2>10. Placed(Up(c)) BY <1>11, <1>12, <1>14, <2>5 DEF Placed
  <2>11. Carried(Up(c), t) BY <1>11, <1>14, <2>8, <2>9 DEF Carried
  <2> QED BY <2>5, <2>10, <2>11
<1> QED BY <1>15, <1>16

(* Nothing to walk. *)
LEMMA WalkedNothing ==
  ASSUME NEW b
  PROVE  Walked(b, <<>>) = b
<1>1. DOMAIN <<>> = 1 .. 0 OBVIOUS
<1>2. PICK g : IsWalk(g, b, <<>>, 0) BY <1>1, LoopStates
<1> QED BY <1>2 DEF IsWalk

(* The hash of the loop is that of the node met on every level, and every  *)
(* level is shorter than the one below until one node is left.             *)
LEMMA ClimbFacts ==
  ASSUME NEW nodes, Level(nodes), NEW i \in 1 .. Len(nodes), NEW b, Carried(Foot(nodes, i), b)
  PROVE  \A k \in Nat :
           LET c == Climb(nodes, i)[k]
           IN  /\ Placed(c) /\ Carried(c, Walked(b, c.siblings))
               /\ Len(c.nodes) + k <= Len(nodes) \/ Len(c.nodes) = 1
<1>1. PICK c : c = Climb(nodes, i) OBVIOUS
<1>2. \A k \in Nat : c[k] = IF k = 0 THEN Foot(nodes, i) ELSE Up(c[k - 1]) BY <1>1, ClimbStep
<1>3. PICK n : n = Len(nodes) OBVIOUS
<1>4. n \in Nat \ {0} BY <1>3 DEF Level
<1> DEFINE short(k) == Len(c[k].nodes) + k <= n \/ Len(c[k].nodes) = 1
           good(k) == Placed(c[k]) /\ Carried(c[k], Walked(b, c[k].siblings)) /\ short(k)
           I == {k \in Nat : good(k)}
<1>5. good(0)
  <2>1. c[0] = Foot(nodes, i) BY <1>2
  <2>2. c[0].nodes = nodes /\ c[0].index = i /\ c[0].siblings = <<>> BY <2>1 DEF Foot
  <2>3. <<>> \in Seq({}) OBVIOUS
  <2>4. Placed(c[0]) BY <2>2, <2>3 DEF Placed, IsSeq
  <2>5. Carried(c[0], Walked(b, c[0].siblings)) BY <2>1, <2>2, WalkedNothing
  <2>6. short(0) BY <1>3, <1>4, <2>2
  <2> QED BY <2>4, <2>5, <2>6
<1>6. ASSUME NEW k \in Nat, good(k) PROVE good(k + 1)
  <2>1. k + 1 \in Nat /\ k + 1 # 0 /\ (k + 1) - 1 = k OBVIOUS
  <2>2. c[k + 1] = Up(c[k]) BY <1>2, <2>1
  <2>3. PICK d : d = c[k] OBVIOUS
  <2>4. Placed(d) /\ Carried(d, Walked(b, d.siblings)) BY <1>6, <2>3
  <2>5. Placed(Up(d)) /\ Carried(Up(d), Walked(b, Up(d).siblings)) BY <2>4, UpCarried
  <2>6. Level(d.nodes) BY <2>4 DEF Placed
  <2>7. Len(Up(d).nodes) = (Len(d.nodes) + 1) \div 2 BY <2>6, LevelAbove DEF Up
  <2>8. Len(d.nodes) \in Nat \ {0} BY <2>6 DEF Level
  <2>9. PICK w : w = Len(d.nodes) OBVIOUS
  <2>10. w + k <= n \/ w = 1 BY <1>6, <2>3, <2>9
  <2>a. w \in Nat \ {0} BY <2>8, <2>9
  <2>b. w # 1 => (w + 1) \div 2 + 1 <= w BY <2>a
  <2>c. w = 1 => (w + 1) \div 2 = 1 OBVIOUS
  <2>d. (w + 1) \div 2 \in Nat BY <2>a
  <2>11. (w + 1) \div 2 + (k + 1) <= n \/ (w + 1) \div 2 = 1
    BY <1>4, <2>10, <2>a, <2>b, <2>c, <2>d
  <2>12. short(k + 1) BY <2>2, <2>3, <2>7, <2>9, <2>11
  <2> QED BY <2>2, <2>3, <2>5, <2>12
<1>7. 0 \in I BY <1>5
<1>8. \A k \in Nat : k \in I => k + 1 \in I
  <2> HIDE DEF good
  <2> QED BY <1>6
<1>9. Nat \subseteq I
  <2> HIDE DEF I
  <2> QED BY <1>7, <1>8, ReachesAll
<1>10. \A k \in Nat : good(k)
  <2> HIDE DEF good
  <2> QED BY <1>9
<1> QED BY <1>1, <1>3, <1>10

(* The levels do not depend on the node. *)
LEMMA SameLevels ==
  ASSUME NEW nodes, NEW i, NEW j
  PROVE  \A k \in Nat : Climb(nodes, i)[k].nodes = Climb(nodes, j)[k].nodes
<1>1. PICK c : c = Climb(nodes, i) OBVIOUS
<1>2. PICK d : d = Climb(nodes, j) OBVIOUS
<1>3. \A k \in Nat : c[k] = IF k = 0 THEN Foot(nodes, i) ELSE Up(c[k - 1]) BY <1>1, ClimbStep
<1>4. \A k \in Nat : d[k] = IF k = 0 THEN Foot(nodes, j) ELSE Up(d[k - 1]) BY <1>2, ClimbStep
<1> DEFINE I == {k \in Nat : c[k].nodes = d[k].nodes}
<1>5. 0 \in I BY <1>3, <1>4 DEF Foot
<1>6. ASSUME NEW k \in Nat, c[k].nodes = d[k].nodes PROVE c[k + 1].nodes = d[k + 1].nodes
  <2>1. k + 1 \in Nat /\ k + 1 # 0 /\ (k + 1) - 1 = k OBVIOUS
  <2>2. c[k + 1] = Up(c[k]) /\ d[k + 1] = Up(d[k]) BY <1>3, <1>4, <2>1
  <2> QED BY <1>6, <2>2 DEF Up
<1>7. \A k \in Nat : k \in I => k + 1 \in I BY <1>6
<1>8. Nat \subseteq I
  <2> HIDE DEF I
  <2> QED BY <1>5, <1>7, ReachesAll
<1> QED BY <1>1, <1>2, <1>8

(***************************************************************************)
(* verifyProof accepts the path of every leaf against the root of its      *)
(* tree, for any number of leaves: the position and the width that it      *)
(* counts down tell on which side every hash of the path belongs, also     *)
(* where the last node of a level has no neighbour.                        *)
(***************************************************************************)
THEOREM PathsVerify ==
  ASSUME NEW S, NEW leaves \in Seq(S), NEW i \in DOMAIN leaves
  PROVE  verifyProof(merkle_proof(leaves, i), merkle_root(leaves))
<1>1. PICK n : n = Len(leaves) OBVIOUS
<1>2. n \in Nat /\ DOMAIN leaves = 1 .. n /\ i \in 1 .. n /\ n # 0 BY <1>1
<1>3. PICK nodes : nodes = hashes(leaves) OBVIOUS
<1>4. Level(nodes) /\ Len(nodes) = n
  <2> DEFINE H == {nodes[k] : k \in 1 .. n}
  <2>1. nodes \in [1 .. n -> H] BY <1>2, <1>3 DEF hashes
  <2> HIDE DEF H
  <2>2. nodes \in Seq(H) /\ Len(nodes) = n /\ DOMAIN nodes = 1 .. n BY <1>2, <2>1
  <2> QED BY <1>2, <2>2 DEF Level
<1>5. nodes[i] = HashLeaf(leaves[i]) BY <1>3 DEF hashes
<1>6. PICK b : b = [position |-> i - 1, width |-> n, hash |-> HashLeaf(leaves[i])] OBVIOUS
<1>7. b.position = i - 1 /\ b.width = n /\ b.hash = nodes[i] BY <1>5, <1>6
<1>8. Carried(Foot(nodes, i), b) BY <1>2, <1>4, <1>7 DEF Carried, Foot
<1>9. PICK c : c = Climb(nodes, i)[n] OBVIOUS
<1>10. /\ Placed(c) /\ Carried(c, Walked(b, c.siblings))
       /\ Len(c.nodes) + n <= n \/ Len(c.nodes) = 1
  BY <1>2, <1>4, <1>8, <1>9, ClimbFacts
<1>11. Len(c.nodes) = 1 /\ c.index = 1
  <2>1. Len(c.nodes) \in Nat \ {0} /\ c.index \in 1 .. Len(c.nodes) BY <1>10 DEF Placed, Level
  <2>2. Len(c.nodes) = 1 BY <1>2, <1>10, <2>1
  <2> QED BY <2>1, <2>2
<1>12. Walked(b, c.siblings).hash = c.nodes[1] BY <1>10, <1>11 DEF Carried
<1>13. merkle_root(leaves) = c.nodes[1]
  <2>1. Climb(nodes, 1)[n].nodes = c.nodes BY <1>2, <1>9, SameLevels
  <2> QED BY <1>3, <1>4, <2>1 DEF merkle_root, Top
<1>14. PICK path : path = merkle_proof(leaves, i) OBVIOUS
<1>15. /\ path.leaf = leaves[i] /\ path.leaf_index = i - 1 /\ path.number_of_leaves = n
       /\ path.proof = c.siblings
  BY <1>1, <1>3, <1>4, <1>9, <1>14 DEF merkle_proof, Top
<1>16. verifyProof(path, merkle_root(leaves)) <=> merkle_root(leaves) = Walked(b, c.siblings).hash
  BY <1>6, <1>15 DEF verifyProof, Walked
<1> QED BY <1>12, <1>13, <1>14, <1>16

-----------------------------------------------------------------------------
(***************************************************************************)
(* The calls of run, one by one.                                           *)
(***************************************************************************)
LEMMA JoinedSeqs ==
  ASSUME NEW s, NEW t, IsSeq(s), IsSeq(t)
  PROVE  /\ IsSeq(s \o t) /\ Len(s) \in Nat /\ Len(t) \in Nat /\ Len(s \o t) = Len(s) + Len(t)
         /\ \A k \in 1 .. Len(s) : (s \o t)[k] = s[k]
         /\ \A k \in 1 .. Len(t) : (s \o t)[Len(s) + k] = t[k]
<1>1. PICK S : s \in Seq(S) BY DEF IsSeq
<1>2. PICK T : t \in Seq(T) BY DEF IsSeq
<1> DEFINE U == S \cup T
<1>3. s \in Seq(U) /\ t \in Seq(U) BY <1>1, <1>2
<1> HIDE DEF U
<1>4. s \o t \in Seq(U) /\ Len(s) \in Nat /\ Len(t) \in Nat /\ Len(s \o t) = Len(s) + Len(t)
  BY <1>3
<1>5. \A k \in 1 .. Len(s) : (s \o t)[k] = s[k] BY <1>3
<1>6. \A k \in 1 .. Len(t) : (s \o t)[Len(s) + k] = t[k] BY <1>3
<1> QED BY <1>4, <1>5, <1>6 DEF IsSeq

Joins(r, q, m, p, l) ==
  /\ IsSeq(r) /\ Len(r) = m + l
  /\ \A k \in 1 .. m : r[k] = q[k]
  /\ \A k \in 1 .. l : r[m + k] = p[k]

LEMMA JoinsOf ==
  ASSUME NEW q, NEW m, IsSeq(q), Len(q) = m, NEW p, NEW l, IsSeq(p), Len(p) = l
  PROVE  Joins(q \o p, q, m, p, l)
BY JoinedSeqs DEF Joins

(* Written out sequences. *)
LEMMA ShortSeqs ==
  ASSUME NEW a, NEW b, NEW c, NEW d, NEW e, NEW f, NEW g
  PROVE  /\ IsSeq(<<a>>) /\ Len(<<a>>) = 1 /\ IsSeq(<<a, b>>) /\ Len(<<a, b>>) = 2
         /\ IsSeq(<<a, b, c>>) /\ Len(<<a, b, c>>) = 3
         /\ IsSeq(<<a, b, c, d>>) /\ Len(<<a, b, c, d>>) = 4
         /\ IsSeq(<<a, b, c, d, e, f>>) /\ Len(<<a, b, c, d, e, f>>) = 6
         /\ IsSeq(<<a, b, c, d, e, f, g>>) /\ Len(<<a, b, c, d, e, f, g>>) = 7
<1>1. /\ <<a>> \in Seq({a}) /\ <<a, b>> \in Seq({a, b}) /\ <<a, b, c>> \in Seq({a, b, c})
      /\ <<a, b, c, d>> \in Seq({a, b, c, d})
  OBVIOUS
<1>2. <<a, b, c, d, e, f>> \in Seq({a, b, c, d, e, f}) OBVIOUS
<1>3. <<a, b, c, d, e, f, g>> \in Seq({a, b, c, d, e, f, g}) OBVIOUS
<1> QED BY <1>1, <1>2, <1>3 DEF IsSeq

N == Len(verifiers)

LEMMA RunParts ==
  ASSUME DOMAIN verifiers = 1 .. N, N \in Nat
  PROVE  /\ Len(run) = N + 25
         /\ \A k \in 1 .. 2 : run[k] = RevocationList[k]
         /\ \A k \in 1 .. N + 1 : run[2 + k] = Submissions[k]
         /\ \A k \in 1 .. 2 : run[N + 3 + k] = Publication[k]
         /\ \A k \in 1 .. 6 : run[N + 5 + k] = Removal[k]
         /\ \A k \in 1 .. 4 : run[N + 11 + k] = HoldMachine[k]
         /\ \A k \in 1 .. 3 : run[N + 15 + k] = OwnerOnly[k]
         /\ \A k \in 1 .. 7 : run[N + 18 + k] = AllowlistOnly[k]
         /\ Submissions[1] = registerDomain(Register(N, None, "Untrusted"))
         /\ \A k \in 1 .. N : Submissions[k + 1] = submitProof(k, Alice, 1, "verified", "")
<1>1. IsSeq(RevocationList) /\ Len(RevocationList) = 2 BY ShortSeqs DEF RevocationList
<1>2. IsSeq(Publication) /\ Len(Publication) = 2 BY ShortSeqs DEF Publication
<1>3. IsSeq(Removal) /\ Len(Removal) = 6 BY ShortSeqs DEF Removal
<1>4. IsSeq(HoldMachine) /\ Len(HoldMachine) = 4 BY ShortSeqs DEF HoldMachine
<1>5. IsSeq(OwnerOnly) /\ Len(OwnerOnly) = 3 BY ShortSeqs DEF OwnerOnly
<1>6. IsSeq(AllowlistOnly) /\ Len(AllowlistOnly) = 7 BY ShortSeqs DEF AllowlistOnly
<1>7. PICK first : first = registerDomain(Register(N, None, "Untrusted")) OBVIOUS
<1>8. PICK rest : rest = [i \in DOMAIN verifiers |-> submitProof(i, Alice, 1, "verified", "")]
  OBVIOUS
<1>9. IsSeq(rest) /\ Len(rest) = N
  <2> DEFINE S == {rest[i] : i \in 1 .. N}
  <2>1. rest \in [1 .. N -> S] BY <1>8
  <2> HIDE DEF S
  <2>2. rest \in Seq(S) /\ Len(rest) = N BY <2>1
  <2> QED BY <2>2 DEF IsSeq
<1>10. IsSeq(<<first>>) /\ Len(<<first>>) = 1 BY ShortSeqs
<1>11. PICK sub : sub = <<first>> \o rest OBVIOUS
<1>12. sub = Submissions BY <1>7, <1>8, <1>11 DEF Submissions, N
<1>13. /\ IsSeq(sub) /\ Len(sub) = N + 1 /\ sub[1] = first
       /\ \A k \in 1 .. N : sub[k + 1] = rest[k]
  <2>1. /\ IsSeq(sub) /\ Len(sub) = 1 + N /\ \A k \in 1 .. 1 : sub[k] = <<first>>[k]
        /\ \A k \in 1 .. N : sub[1 + k] = rest[k]
    BY <1>9, <1>10, <1>11, JoinedSeqs
  <2> QED BY <2>1
<1>14. \A k \in 1 .. N : sub[k + 1] = submitProof(k, Alice, 1, "verified", "") BY <1>8, <1>13
<1>15. PICK r1 : r1 = RevocationList OBVIOUS
<1>16. IsSeq(r1) /\ Len(r1) = 2 /\ \A k \in 1 .. 2 : r1[k] = RevocationList[k] BY <1>1, <1>15
<1>17. PICK r2 : r2 = r1 \o sub OBVIOUS
<1>18. /\ IsSeq(r2) /\ Len(r2) = N + 3
       /\ \A k \in 1 .. 2 : r2[k] = RevocationList[k]
       /\ \A k \in 1 .. N + 1 : r2[2 + k] = sub[k]
  <2>1. IsSeq(r1) /\ Len(r1) = 2 /\ IsSeq(sub) /\ Len(sub) = N + 1 BY <1>16, <1>13
  <2>2. Joins(r1 \o sub, r1, 2, sub, N + 1) BY <2>1, JoinsOf
  <2>3. Joins(r2, r1, 2, sub, N + 1) BY <2>2, <1>17
  <2>4. IsSeq(r2) /\ Len(r2) = N + 3 BY <2>3 DEF Joins
  <2>5. ASSUME NEW k \in 1 .. 2 PROVE r2[k] = RevocationList[k]
    <3>1. k \in 1 .. 2 OBVIOUS
    <3> QED BY <1>16, <2>3, <3>1 DEF Joins
  <2>6. ASSUME NEW k \in 1 .. N + 1 PROVE r2[2 + k] = sub[k]
    BY <2>3 DEF Joins
  <2> QED BY <2>4, <2>5, <2>6
<1>19. PICK r3 : r3 = r2 \o Publication OBVIOUS
<1>20. /\ IsSeq(r3) /\ Len(r3) = N + 5
       /\ \A k \in 1 .. 2 : r3[k] = RevocationList[k]
       /\ \A k \in 1 .. N + 1 : r3[2 + k] = sub[k]
       /\ \A k \in 1 .. 2 : r3[N + 3 + k] = Publication[k]
  <2>1. IsSeq(r2) /\ Len(r2) = N + 3 /\ IsSeq(Publication) /\ Len(Publication) = 2 BY <1>18, <1>2
  <2>2. Joins(r2 \o Publication, r2, N + 3, Publication, 2) BY <2>1, JoinsOf
  <2>3. Joins(r3, r2, N + 3, Publication, 2) BY <2>2, <1>19
  <2>4. IsSeq(r3) /\ Len(r3) = N + 5 BY <2>3 DEF Joins
  <2>5. ASSUME NEW k \in 1 .. 2 PROVE r3[k] = RevocationList[k]
    <3>1. k \in 1 .. N + 3 OBVIOUS
    <3> QED BY <1>18, <2>3, <3>1 DEF Joins
  <2>6. ASSUME NEW k \in 1 .. N + 1 PROVE r3[2 + k] = sub[k]
    <3>1. 2 + k \in 1 .. N + 3 OBVIOUS
    <3> QED BY <1>18, <2>3, <3>1 DEF Joins
  <2>7. ASSUME NEW k \in 1 .. 2 PROVE r3[N + 3 + k] = Publication[k]
    BY <2>3 DEF Joins
  <2> QED BY <2>4, <2>5, <2>6, <2>7
<1>21. PICK r4 : r4 = r3 \o Removal OBVIOUS
<1>22. /\ IsSeq(r4) /\ Len(r4) = N + 11
       /\ \A k \in 1 .. 2 : r4[k] = RevocationList[k]
       /\ \A k \in 1 .. N + 1 : r4[2 + k] = sub[k]
       /\ \A k \in 1 .. 2 : r4[N + 3 + k] = Publication[k]
       /\ \A k \in 1 .. 6 : r4[N + 5 + k] = Removal[k]
  <2>1. IsSeq(r3) /\ Len(r3) = N + 5 /\ IsSeq(Removal) /\ Len(Removal) = 6 BY <1>20, <1>3
  <2>2. Joins(r3 \o Removal, r3, N + 5, Removal, 6) BY <2>1, JoinsOf
  <2>3. Joins(r4, r3, N + 5, Removal, 6) BY <2>2, <1>21
  <2>4. IsSeq(r4) /\ Len(r4) = N + 11 BY <2>3 DEF Joins
  <2>5. ASSUME NEW k \in 1 .. 2 PROVE r4[k] = RevocationList[k]
    <3>1. k \in 1 .. N + 5 OBVIOUS
    <3> QED BY <1>20, <2>3, <3>1 DEF Joins
  <2>6. ASSUME NEW k \in 1 .. N + 1 PROVE r4[2 + k] = sub[k]
    <3>1. 2 + k \in 1 .. N + 5 OBVIOUS
    <3> QED BY <1>20, <2>3, <3>1 DEF Joins
  <2>7. ASSUME NEW k \in 1 .. 2 PROVE r4[N + 3 + k] = Publication[k]
    <3>1. N + 3 + k \in 1 .. N + 5 OBVIOUS
    <3> QED BY <1>20, <2>3, <3>1 DEF Joins
  <2>8. ASSUME NEW k \in 1 .. 6 PROVE r4[N + 5 + k] = Removal[k]
    BY <2>3 DEF Joins
  <2> QED BY <2>4, <2>5, <2>6, <2>7, <2>8
<1>23. PICK r5 : r5 = r4 \o HoldMachine OBVIOUS
<1>24. /\ IsSeq(r5) /\ Len(r5) = N + 15
       /\ \A k \in 1 .. 2 : r5[k] = RevocationList[k]
       /\ \A k \in 1 .. N + 1 : r5[2 + k] = sub[k]
       /\ \A k \in 1 .. 2 : r5[N + 3 + k] = Publication[k]
       /\ \A k \in 1 .. 6 : r5[N + 5 + k] = Removal[k]
       /\ \A k \in 1 .. 4 : r5[N + 11 + k] = HoldMachine[k]
  <2>1. IsSeq(r4) /\ Len(r4) = N + 11 /\ IsSeq(HoldMachine) /\ Len(HoldMachine) = 4 BY <1>22, <1>4
  <2>2. Joins(r4 \o HoldMachine, r4, N + 11, HoldMachine, 4) BY <2>1, JoinsOf
  <2>3. Joins(r5, r4, N + 11, HoldMachine, 4) BY <2>2, <1>23
  <2>4. IsSeq(r5) /\ Len(r5) = N + 15 BY <2>3 DEF Joins
  <2>5. ASSUME NEW k \in 1 .. 2 PROVE r5[k] = RevocationList[k]
    <3>1. k \in 1 .. N + 11 OBVIOUS
    <3> QED BY <1>22, <2>3, <3>1 DEF Joins
  <2>6. ASSUME NEW k \in 1 .. N + 1 PROVE r5[2 + k] = sub[k]
    <3>1. 2 + k \in 1 .. N + 11 OBVIOUS
    <3> QED BY <1>22, <2>3, <3>1 DEF Joins
  <2>7. ASSUME NEW k \in 1 .. 2 PROVE r5[N + 3 + k] = Publication[k]
    <3>1. N + 3 + k \in 1 .. N + 11 OBVIOUS
    <3> QED BY <1>22, <2>3, <3>1 DEF Joins
  <2>8. ASSUME NEW k \in 1 .. 6 PROVE r5[N + 5 + k] = Removal[k]
    <3>1. N + 5 + k \in 1 .. N + 11 OBVIOUS
    <3> QED BY <1>22, <2>3, <3>1 DEF Joins
  <2>9. ASSUME NEW k \in 1 .. 4 PROVE r5[N + 11 + k] = HoldMachine[k]
    BY <2>3 DEF Joins
  <2> QED BY <2>4, <2>5, <2>6, <2>7, <2>8, <2>9
<1>25. PICK r6 : r6 = r5 \o OwnerOnly OBVIOUS
<1>26. /\ IsSeq(r6) /\ Len(r6) = N + 18
       /\ \A k \in 1 .. 2 : r6[k] = RevocationList[k]
       /\ \A k \in 1 .. N + 1 : r6[2 + k] = sub[k]
       /\ \A k \in 1 .. 2 : r6[N + 3 + k] = Publication[k]
       /\ \A k \in 1 .. 6 : r6[N + 5 + k] = Removal[k]
       /\ \A k \in 1 .. 4 : r6[N + 11 + k] = HoldMachine[k]
       /\ \A k \in 1 .. 3 : r6[N + 15 + k] = OwnerOnly[k]
  <2>1. IsSeq(r5) /\ Len(r5) = N + 15 /\ IsSeq(OwnerOnly) /\ Len(OwnerOnly) = 3 BY <1>24, <1>5
  <2>2. Joins(r5 \o OwnerOnly, r5, N + 15, OwnerOnly, 3) BY <2>1, JoinsOf
  <2>3. Joins(r6, r5, N + 15, OwnerOnly, 3) BY <2>2, <1>25
  <2>4. IsSeq(r6) /\ Len(r6) = N + 18 BY <2>3 DEF Joins
  <2>5. ASSUME NEW k \in 1 .. 2 PROVE r6[k] = RevocationList[k]
    <3>1. k \in 1 .. N + 15 OBVIOUS
    <3> QED BY <1>24, <2>3, <3>1 DEF Joins
  <2>6. ASSUME NEW k \in 1 .. N + 1 PROVE r6[2 + k] = sub[k]
    <3>1. 2 + k \in 1 .. N + 15 OBVIOUS
    <3> QED BY <1>24, <2>3, <3>1 DEF Joins
  <2>7. ASSUME NEW k \in 1 .. 2 PROVE r6[N + 3 + k] = Publication[k]
    <3>1. N + 3 + k \in 1 .. N + 15 OBVIOUS
    <3> QED BY <1>24, <2>3, <3>1 DEF Joins
  <2>8. ASSUME NEW k \in 1 .. 6 PROVE r6[N + 5 + k] = Removal[k]
    <3>1. N + 5 + k \in 1 .. N + 15 OBVIOUS
    <3> QED BY <1>24, <2>3, <3>1 DEF Joins
  <2>9. ASSUME NEW k \in 1 .. 4 PROVE r6[N + 11 + k] = HoldMachine[k]
    <3>1. N + 11 + k \in 1 .. N + 15 OBVIOUS
    <3> QED BY <1>24, <2>3, <3>1 DEF Joins
  <2>10. ASSUME NEW k \in 1 .. 3 PROVE r6[N + 15 + k] = OwnerOnly[k]
    BY <2>3 DEF Joins
  <2> QED BY <2>4, <2>5, <2>6, <2>7, <2>8, <2>9, <2>10
<1>27. PICK r7 : r7 = r6 \o AllowlistOnly OBVIOUS
<1>28. /\ IsSeq(r7) /\ Len(r7) = N + 25
       /\ \A k \in 1 .. 2 : r7[k] = RevocationList[k]
       /\ \A k \in 1 .. N + 1 : r7[2 + k] = sub[k]
       /\ \A k \in 1 .. 2 : r7[N + 3 + k] = Publication[k]
       /\ \A k \in 1 .. 6 : r7[N + 5 + k] = Removal[k]
       /\ \A k \in 1 .. 4 : r7[N + 11 + k] = HoldMachine[k]
       /\ \A k \in 1 .. 3 : r7[N + 15 + k] = OwnerOnly[k]
       /\ \A k \in 1 .. 7 : r7[N + 18 + k] = AllowlistOnly[k]
  <2>1. IsSeq(r6) /\ Len(r6) = N + 18 /\ IsSeq(AllowlistOnly) /\ Len(AllowlistOnly) = 7 BY <1>26, <1>6
  <2>2. Joins(r6 \o AllowlistOnly, r6, N + 18, AllowlistOnly, 7) BY <2>1, JoinsOf
  <2>3. Joins(r7, r6, N + 18, AllowlistOnly, 7) BY <2>2, <1>27
  <2>4. IsSeq(r7) /\ Len(r7) = N + 25 BY <2>3 DEF Joins
  <2>5. ASSUME NEW k \in 1 .. 2 PROVE r7[k] = RevocationList[k]
    <3>1. k \in 1 .. N + 18 OBVIOUS
    <3> QED BY <1>26, <2>3, <3>1 DEF Joins
  <2>6. ASSUME NEW k \in 1 .. N + 1 PROVE r7[2 + k] = sub[k]
    <3>1. 2 + k \in 1 .. N + 18 OBVIOUS
    <3> QED BY <1>26, <2>3, <3>1 DEF Joins
  <2>7. ASSUME NEW k \in 1 .. 2 PROVE r7[N + 3 + k] = Publication[k]
    <3>1. N + 3 + k \in 1 .. N + 18 OBVIOUS
    <3> QED BY <1>26, <2>3, <3>1 DEF Joins
  <2>8. ASSUME NEW k \in 1 .. 6 PROVE r7[N + 5 + k] = Removal[k]
    <3>1. N + 5 + k \in 1 .. N + 18 OBVIOUS
    <3> QED BY <1>26, <2>3, <3>1 DEF Joins
  <2>9. ASSUME NEW k \in 1 .. 4 PROVE r7[N + 11 + k] = HoldMachine[k]
    <3>1. N + 11 + k \in 1 .. N + 18 OBVIOUS
    <3> QED BY <1>26, <2>3, <3>1 DEF Joins
  <2>10. ASSUME NEW k \in 1 .. 3 PROVE r7[N + 15 + k] = OwnerOnly[k]
    <3>1. N + 15 + k \in 1 .. N + 18 OBVIOUS
    <3> QED BY <1>26, <2>3, <3>1 DEF Joins
  <2>11. ASSUME NEW k \in 1 .. 7 PROVE r7[N + 18 + k] = AllowlistOnly[k]
    BY <2>3 DEF Joins
  <2> QED BY <2>4, <2>5, <2>6, <2>7, <2>8, <2>9, <2>10, <2>11
<1>29. r7 = run BY <1>12, <1>15, <1>17, <1>19, <1>21, <1>23, <1>25, <1>27 DEF run
<1> QED BY <1>7, <1>12, <1>13, <1>14, <1>28, <1>29

IsCall(c, op, who, d, expect, code) ==
  c.op = op /\ c.who = who /\ c.domain = d /\ c.expect = expect /\ c.code = code

IsRegister(c, reg) ==
  /\ c.op = "register" /\ c.who = Bob /\ c.reg = reg /\ c.expect = "events"
  /\ c.code = "ErrDomainRegistrationFailed"

IsSubmit(c, i, who, d, expect, code) ==
  IsCall(c, "submit", who, d, expect, code) /\ c.statement = verifiers[i]

LEMMA SubmitIs ==
  ASSUME NEW i, NEW who, NEW d, NEW expect, NEW code
  PROVE  IsSubmit(submitProof(i, who, d, expect, code), i, who, d, expect, code)
<1>1. PICK v : v = verifiers[i] OBVIOUS
<1> QED BY <1>1 DEF IsSubmit, IsCall, submitProof

LEMMA RunCalls ==
  ASSUME DOMAIN verifiers = 1 .. N, N \in Nat
  PROVE  /\ Len(run) = N + 25
         /\ \A k \in 1 .. N : IsSubmit(run[k + 3], k, Alice, 1, "verified", "")
         /\ IsCall(run[1], "external", Alice, 0, "events", "ErrRegisterCA")
         /\ IsCall(run[2], "external", Bob, 0, "events", "ErrUpdateCrl")
         /\ IsRegister(run[3], Register(N, None, "Untrusted"))
         /\ IsCall(run[N + 4], "aggregate", Bob, 1, "profit", "ErrNoAggregation")
         /\ IsCall(run[N + 5], "paths", Bob, 1, "paths", "ErrAggregationProofFailedVerification")
         /\ IsCall(run[N + 6], "unregister", Alice, 1, "refused", "ErrDomainUnregistrationFailed")
         /\ IsCall(run[N + 7], "hold", Alice, 1, "refused", "ErrDomainHoldFailed")
         /\ IsCall(run[N + 8], "unregister", Bob, 1, "refused", "ErrDomainUnregistrationFailed")
         /\ IsCall(run[N + 9], "hold", Bob, 1, "Removable", "ErrDomainHoldFailed")
         /\ IsCall(run[N + 10], "unregister", Bob, 1, "Removed", "ErrDomainUnregistrationFailed")
         /\ IsSubmit(run[N + 11], 1, Alice, 1, "no_proof", "ErrProofOnUnregisteredDomain")
         /\ IsRegister(run[N + 12], Register(4, 8, "Untrusted"))
         /\ IsSubmit(run[N + 13], 1, Alice, 2, "queued", "ErrProofVerificationFailed")
         /\ IsCall(run[N + 14], "hold", Bob, 2, "Hold", "ErrDomainHoldFailed")
         /\ IsCall(run[N + 15], "aggregate", Bob, 2, "Removable", "ErrNoAggregation")
         /\ IsRegister(run[N + 16], Register(4, 8, "OnlyOwner"))
         /\ IsSubmit(run[N + 17], 1, Alice, 3, "no_proof", "ErrProofFromInvalidSubmitter")
         /\ IsSubmit(run[N + 18], 1, Bob, 3, "proof", "ErrProofFromValidSubmitter")
         /\ IsRegister(run[N + 19], Register(4, 8, "OnlyAllowlisted"))
         /\ IsSubmit(run[N + 20], 1, Alice, 4, "first_no_proof", "ErrProofFromInvalidSubmitter")
         /\ IsSubmit(run[N + 21], 1, Bob, 4, "then_no_proof", "ErrProofFromInvalidSubmitter")
         /\ IsCall(run[N + 22], "allow", Bob, 4, "events", "ErrAllowlist")
         /\ IsSubmit(run[N + 23], 1, Bob, 4, "first_no_proof", "ErrProofFromInvalidSubmitter")
         /\ IsSubmit(run[N + 24], 1, Alice, 4, "then_proof", "ErrProofFromInvalidSubmitter")
         /\ IsCall(run[N + 25], "remove", Bob, 4, "events", "ErrAllowlist")
<1>1. Len(run) = N + 25 BY RunParts
<1>28. \A k \in 1 .. N + 1 : run[2 + k] = Submissions[k] BY RunParts
<1>29. \A k \in 1 .. N : Submissions[k + 1] = submitProof(k, Alice, 1, "verified", "") BY RunParts
<1>30. Submissions[1] = registerDomain(Register(N, None, "Untrusted")) BY RunParts
<1>31. \A k \in 1 .. 2 : run[N + 3 + k] = Publication[k] BY RunParts
<1>32. \A k \in 1 .. 6 : run[N + 5 + k] = Removal[k] BY RunParts
<1>33. \A k \in 1 .. 4 : run[N + 11 + k] = HoldMachine[k] BY RunParts
<1>34. \A k \in 1 .. 3 : run[N + 15 + k] = OwnerOnly[k] BY RunParts
<1>35. \A k \in 1 .. 7 : run[N + 18 + k] = AllowlistOnly[k] BY RunParts
<1>2. ASSUME NEW k \in 1 .. N PROVE IsSubmit(run[k + 3], k, Alice, 1, "verified", "")
  <2>1. k + 1 \in 1 .. N + 1 /\ 2 + (k + 1) = k + 3 OBVIOUS
  <2>2. run[k + 3] = Submissions[k + 1] BY <1>28, <2>1
  <2>3. Submissions[k + 1] = submitProof(k, Alice, 1, "verified", "") BY <1>29
  <2> QED BY <2>2, <2>3, SubmitIs
<1>3. IsCall(run[1], "external", Alice, 0, "events", "ErrRegisterCA")
  <2>1. 1 \in 1 .. 2 /\ 1 = 1 OBVIOUS
  <2>2. RevocationList[1] = Call("external", Alice, 0, "events", "ErrRegisterCA") BY DEF RevocationList
  <2>3. run[1] = RevocationList[1] BY <2>1, RunParts
  <2> QED BY <2>2, <2>3 DEF Call, IsCall
<1>4. IsCall(run[2], "external", Bob, 0, "events", "ErrUpdateCrl")
  <2>1. 2 \in 1 .. 2 /\ 2 = 2 OBVIOUS
  <2>2. RevocationList[2] = Call("external", Bob, 0, "events", "ErrUpdateCrl") BY DEF RevocationList
  <2>3. run[2] = RevocationList[2] BY <2>1, RunParts
  <2> QED BY <2>2, <2>3 DEF Call, IsCall
<1>5. IsRegister(run[3], Register(N, None, "Untrusted"))
  <2>1. 1 \in 1 .. N + 1 /\ 2 + 1 = 3 OBVIOUS
  <2>2. run[3] = registerDomain(Register(N, None, "Untrusted")) BY <1>28, <1>30, <2>1
  <2> QED BY <2>2 DEF registerDomain, IsRegister
<1>6. IsCall(run[N + 4], "aggregate", Bob, 1, "profit", "ErrNoAggregation")
  <2>1. 1 \in 1 .. 2 /\ N + 3 + 1 = N + 4 OBVIOUS
  <2>2. Publication[1] = Call("aggregate", Bob, 1, "profit", "ErrNoAggregation") BY DEF Publication
  <2>3. run[N + 4] = Publication[1] BY <1>31, <2>1
  <2> QED BY <2>2, <2>3 DEF Call, IsCall
<1>7. IsCall(run[N + 5], "paths", Bob, 1, "paths", "ErrAggregationProofFailedVerification")
  <2>1. 2 \in 1 .. 2 /\ N + 3 + 2 = N + 5 OBVIOUS
  <2>2. Publication[2] = Call("paths", Bob, 1, "paths", "ErrAggregationProofFailedVerification") BY DEF Publication
  <2>3. run[N + 5] = Publication[2] BY <1>31, <2>1
  <2> QED BY <2>2, <2>3 DEF Call, IsCall
<1>8. IsCall(run[N + 6], "unregister", Alice, 1, "refused", "ErrDomainUnregistrationFailed")
  <2>1. 1 \in 1 .. 6 /\ N + 5 + 1 = N + 6 OBVIOUS
  <2>2. Removal[1] = Call("unregister", Alice, 1, "refused", "ErrDomainUnregistrationFailed") BY DEF Removal
  <2>3. run[N + 6] = Removal[1] BY <1>32, <2>1
  <2> QED BY <2>2, <2>3 DEF Call, IsCall
<1>9. IsCall(run[N + 7], "hold", Alice, 1, "refused", "ErrDomainHoldFailed")
  <2>1. 2 \in 1 .. 6 /\ N + 5 + 2 = N + 7 OBVIOUS
  <2>2. Removal[2] = Call("hold", Alice, 1, "refused", "ErrDomainHoldFailed") BY DEF Removal
  <2>3. run[N + 7] = Removal[2] BY <1>32, <2>1
  <2> QED BY <2>2, <2>3 DEF Call, IsCall
<1>10. IsCall(run[N + 8], "unregister", Bob, 1, "refused", "ErrDomainUnregistrationFailed")
  <2>1. 3 \in 1 .. 6 /\ N + 5 + 3 = N + 8 OBVIOUS
  <2>2. Removal[3] = Call("unregister", Bob, 1, "refused", "ErrDomainUnregistrationFailed") BY DEF Removal
  <2>3. run[N + 8] = Removal[3] BY <1>32, <2>1
  <2> QED BY <2>2, <2>3 DEF Call, IsCall
<1>11. IsCall(run[N + 9], "hold", Bob, 1, "Removable", "ErrDomainHoldFailed")
  <2>1. 4 \in 1 .. 6 /\ N + 5 + 4 = N + 9 OBVIOUS
  <2>2. Removal[4] = Call("hold", Bob, 1, "Removable", "ErrDomainHoldFailed") BY DEF Removal
  <2>3. run[N + 9] = Removal[4] BY <1>32, <2>1
  <2> QED BY <2>2, <2>3 DEF Call, IsCall
<1>12. IsCall(run[N + 10], "unregister", Bob, 1, "Removed", "ErrDomainUnregistrationFailed")
  <2>1. 5 \in 1 .. 6 /\ N + 5 + 5 = N + 10 OBVIOUS
  <2>2. Removal[5] = Call("unregister", Bob, 1, "Removed", "ErrDomainUnregistrationFailed") BY DEF Removal
  <2>3. run[N + 10] = Removal[5] BY <1>32, <2>1
  <2> QED BY <2>2, <2>3 DEF Call, IsCall
<1>13. IsSubmit(run[N + 11], 1, Alice, 1, "no_proof", "ErrProofOnUnregisteredDomain")
  <2>1. 6 \in 1 .. 6 /\ N + 5 + 6 = N + 11 OBVIOUS
  <2>2. Removal[6] = submitProof(1, Alice, 1, "no_proof", "ErrProofOnUnregisteredDomain") BY DEF Removal
  <2>3. run[N + 11] = Removal[6] BY <1>32, <2>1
  <2> QED BY <2>2, <2>3, SubmitIs
<1>14. IsRegister(run[N + 12], Register(4, 8, "Untrusted"))
  <2>1. 1 \in 1 .. 4 /\ N + 11 + 1 = N + 12 OBVIOUS
  <2>2. HoldMachine[1] = registerDomain(Register(4, 8, "Untrusted")) BY DEF HoldMachine
  <2>3. run[N + 12] = HoldMachine[1] BY <1>33, <2>1
  <2> QED BY <2>2, <2>3 DEF registerDomain, IsRegister
<1>15. IsSubmit(run[N + 13], 1, Alice, 2, "queued", "ErrProofVerificationFailed")
  <2>1. 2 \in 1 .. 4 /\ N + 11 + 2 = N + 13 OBVIOUS
  <2>2. HoldMachine[2] = submitProof(1, Alice, 2, "queued", "ErrProofVerificationFailed") BY DEF HoldMachine
  <2>3. run[N + 13] = HoldMachine[2] BY <1>33, <2>1
  <2> QED BY <2>2, <2>3, SubmitIs
<1>16. IsCall(run[N + 14], "hold", Bob, 2, "Hold", "ErrDomainHoldFailed")
  <2>1. 3 \in 1 .. 4 /\ N + 11 + 3 = N + 14 OBVIOUS
  <2>2. HoldMachine[3] = Call("hold", Bob, 2, "Hold", "ErrDomainHoldFailed") BY DEF HoldMachine
  <2>3. run[N + 14] = HoldMachine[3] BY <1>33, <2>1
  <2> QED BY <2>2, <2>3 DEF Call, IsCall
<1>17. IsCall(run[N + 15], "aggregate", Bob, 2, "Removable", "ErrNoAggregation")
  <2>1. 4 \in 1 .. 4 /\ N + 11 + 4 = N + 15 OBVIOUS
  <2>2. HoldMachine[4] = Call("aggregate", Bob, 2, "Removable", "ErrNoAggregation") BY DEF HoldMachine
  <2>3. run[N + 15] = HoldMachine[4] BY <1>33, <2>1
  <2> QED BY <2>2, <2>3 DEF Call, IsCall
<1>18. IsRegister(run[N + 16], Register(4, 8, "OnlyOwner"))
  <2>1. 1 \in 1 .. 3 /\ N + 15 + 1 = N + 16 OBVIOUS
  <2>2. OwnerOnly[1] = registerDomain(Register(4, 8, "OnlyOwner")) BY DEF OwnerOnly
  <2>3. run[N + 16] = OwnerOnly[1] BY <1>34, <2>1
  <2> QED BY <2>2, <2>3 DEF registerDomain, IsRegister
<1>19. IsSubmit(run[N + 17], 1, Alice, 3, "no_proof", "ErrProofFromInvalidSubmitter")
  <2>1. 2 \in 1 .. 3 /\ N + 15 + 2 = N + 17 OBVIOUS
  <2>2. OwnerOnly[2] = submitProof(1, Alice, 3, "no_proof", "ErrProofFromInvalidSubmitter") BY DEF OwnerOnly
  <2>3. run[N + 17] = OwnerOnly[2] BY <1>34, <2>1
  <2> QED BY <2>2, <2>3, SubmitIs
<1>20. IsSubmit(run[N + 18], 1, Bob, 3, "proof", "ErrProofFromValidSubmitter")
  <2>1. 3 \in 1 .. 3 /\ N + 15 + 3 = N + 18 OBVIOUS
  <2>2. OwnerOnly[3] = submitProof(1, Bob, 3, "proof", "ErrProofFromValidSubmitter") BY DEF OwnerOnly
  <2>3. run[N + 18] = OwnerOnly[3] BY <1>34, <2>1
  <2> QED BY <2>2, <2>3, SubmitIs
<1>21. IsRegister(run[N + 19], Register(4, 8, "OnlyAllowlisted"))
  <2>1. 1 \in 1 .. 7 /\ N + 18 + 1 = N + 19 OBVIOUS
  <2>2. AllowlistOnly[1] = registerDomain(Register(4, 8, "OnlyAllowlisted")) BY DEF AllowlistOnly
  <2>3. run[N + 19] = AllowlistOnly[1] BY <1>35, <2>1
  <2> QED BY <2>2, <2>3 DEF registerDomain, IsRegister
<1>22. IsSubmit(run[N + 20], 1, Alice, 4, "first_no_proof", "ErrProofFromInvalidSubmitter")
  <2>1. 2 \in 1 .. 7 /\ N + 18 + 2 = N + 20 OBVIOUS
  <2>2. AllowlistOnly[2] = submitProof(1, Alice, 4, "first_no_proof", "ErrProofFromInvalidSubmitter") BY DEF AllowlistOnly
  <2>3. run[N + 20] = AllowlistOnly[2] BY <1>35, <2>1
  <2> QED BY <2>2, <2>3, SubmitIs
<1>23. IsSubmit(run[N + 21], 1, Bob, 4, "then_no_proof", "ErrProofFromInvalidSubmitter")
  <2>1. 3 \in 1 .. 7 /\ N + 18 + 3 = N + 21 OBVIOUS
  <2>2. AllowlistOnly[3] = submitProof(1, Bob, 4, "then_no_proof", "ErrProofFromInvalidSubmitter") BY DEF AllowlistOnly
  <2>3. run[N + 21] = AllowlistOnly[3] BY <1>35, <2>1
  <2> QED BY <2>2, <2>3, SubmitIs
<1>24. IsCall(run[N + 22], "allow", Bob, 4, "events", "ErrAllowlist")
  <2>1. 4 \in 1 .. 7 /\ N + 18 + 4 = N + 22 OBVIOUS
  <2>2. AllowlistOnly[4] = Call("allow", Bob, 4, "events", "ErrAllowlist") BY DEF AllowlistOnly
  <2>3. run[N + 22] = AllowlistOnly[4] BY <1>35, <2>1
  <2> QED BY <2>2, <2>3 DEF Call, IsCall
<1>25. IsSubmit(run[N + 23], 1, Bob, 4, "first_no_proof", "ErrProofFromInvalidSubmitter")
  <2>1. 5 \in 1 .. 7 /\ N + 18 + 5 = N + 23 OBVIOUS
  <2>2. AllowlistOnly[5] = submitProof(1, Bob, 4, "first_no_proof", "ErrProofFromInvalidSubmitter") BY DEF AllowlistOnly
  <2>3. run[N + 23] = AllowlistOnly[5] BY <1>35, <2>1
  <2> QED BY <2>2, <2>3, SubmitIs
<1>26. IsSubmit(run[N + 24], 1, Alice, 4, "then_proof", "ErrProofFromInvalidSubmitter")
  <2>1. 6 \in 1 .. 7 /\ N + 18 + 6 = N + 24 OBVIOUS
  <2>2. AllowlistOnly[6] = submitProof(1, Alice, 4, "then_proof", "ErrProofFromInvalidSubmitter") BY DEF AllowlistOnly
  <2>3. run[N + 24] = AllowlistOnly[6] BY <1>35, <2>1
  <2> QED BY <2>2, <2>3, SubmitIs
<1>27. IsCall(run[N + 25], "remove", Bob, 4, "events", "ErrAllowlist")
  <2>1. 7 \in 1 .. 7 /\ N + 18 + 7 = N + 25 OBVIOUS
  <2>2. AllowlistOnly[7] = Call("remove", Bob, 4, "events", "ErrAllowlist") BY DEF AllowlistOnly
  <2>3. run[N + 25] = AllowlistOnly[7] BY <1>35, <2>1
  <2> QED BY <2>2, <2>3 DEF Call, IsCall
<1> QED BY <1>1, <1>2, <1>3, <1>4, <1>5, <1>6, <1>7, <1>8, <1>9, <1>10, <1>11, <1>12, <1>13, <1>14, <1>15, <1>16, <1>17, <1>18, <1>19, <1>20, <1>21, <1>22, <1>23, <1>24, <1>25, <1>26, <1>27

-----------------------------------------------------------------------------
(***************************************************************************)
(* What a call leads to: the test is over, it ends with the first verdict  *)
(* of a pair, or it goes on to the next call.                              *)
(***************************************************************************)
BadPath == "ErrAggregationProofFailedVerification"

Codes == ReturnCode \ {"Ok", BadPath}

Submission == {"verified", "no_proof", "proof", "queued", "first_no_proof", "then_no_proof",
               "then_proof"}

NewState == {"Removable", "Removed", "Hold"}

Shape(c) ==
  /\ c.expect # "verified" => c.code \in Codes
  /\ IF c.op = "submit" THEN c.expect \in Submission
                        ELSE c.expect \in {"events", "profit", "refused"} \cup NewState
  /\ c.expect \in {"first_no_proof", "then_no_proof", "then_proof"} =>
       c.code = "ErrProofFromInvalidSubmitter"
  /\ c.op # "paths"

Over == verdict' \notin {None, "Ok", BadPath}

Onward == at' = at + 1 /\ verdict' = IF at = Len(run) THEN "Ok" ELSE None

(* The first verdict of a pair was good, and is returned for the second. *)
Early(c, hit) ==
  /\ at' = at /\ verdict' = "Ok"
  /\ \/ c.expect = "then_no_proof" /\ hit
     \/ c.expect = "then_proof" /\ ~ hit

Unready == run[at + 1].op # "submit" /\ complete' = <<>>

(* The answer was as expected. *)
Expected(c, hit) ==
  /\ c.expect = "verified" => ~ Unready
  /\ c.expect # "verified" => hit \/ c.expect \in {"no_proof", "first_no_proof", "then_no_proof"}
  /\ hit => c.expect \notin {"no_proof", "then_no_proof", "refused"}
  /\ c.expect \in NewState => DomainStateChanged(c) = c.expect
  /\ c.expect \in {"then_no_proof", "then_proof"} => err1 = "Ok"

Err1(c, hit) ==
  err1' = IF c.expect = "first_no_proof" THEN (IF hit THEN "ErrProofFromInvalidSubmitter" ELSE "Ok")
                                         ELSE err1

LEMMA Answered ==
  ASSUME NEW c, Shape(c), NEW hit \in BOOLEAN, ~ hit => c.op = "submit", with_events(c, hit),
         err1 \in {"Ok", "ErrProofFromInvalidSubmitter"}
  PROVE  /\ note(c, hit) /\ Err1(c, hit)
         /\ Over \/ Early(c, hit) \/ (Onward /\ Expected(c, hit))
<1> USE DEF with_events, Err1
<1>0. /\ None \notin {"Ok", "ErrProofFromInvalidSubmitter", "exception"} /\ None \notin Codes
      /\ None # "ErrAggregationNotReady" /\ None # "ErrWrongDomainId" /\ None # "ErrPublishShouldNotPay"
  BY TestAssumption DEF Codes, ReturnCode
<1> USE DEF check, returns, throws, goes_on
<1>1. CASE c.expect = "verified"
  BY <1>0, <1>1 DEF Over, Early, Onward, Expected, Unready, BadPath, NewState
<1>2. CASE c.expect = "events"
  BY <1>0, <1>2 DEF Over, Early, Onward, Expected, BadPath, NewState, Shape, Submission
<1>3. CASE c.expect = "profit"
  BY <1>0, <1>3 DEF Over, Early, Onward, Expected, BadPath, NewState, Shape, Submission
<1>4. CASE c.expect = "refused"
  BY <1>0, <1>4 DEF Over, Early, Onward, Expected, BadPath, NewState, Shape, Codes
<1>5. CASE c.expect = "no_proof"
  BY <1>0, <1>5 DEF Over, Early, Onward, Expected, BadPath, NewState, Shape, Codes
<1>6. CASE c.expect = "proof"
  BY <1>0, <1>6 DEF Over, Early, Onward, Expected, BadPath, NewState, Shape, Codes
<1>7. CASE c.expect = "queued"
  BY <1>0, <1>7 DEF Over, Early, Onward, Expected, BadPath, NewState, Shape
<1>8. ASSUME NEW e \in NewState, c.expect = e
      PROVE  /\ note(c, hit) /\ Err1(c, hit)
             /\ Over \/ Early(c, hit) \/ (Onward /\ Expected(c, hit))
  <2>1. hit /\ None # "ErrDomainHoldFailed" BY <1>8, TestAssumption DEF Shape, Submission, NewState, ReturnCode
  <2>2. CASE e = "Removable"
    BY <1>0, <1>8, <2>1, <2>2 DEF Over, Early, Onward, Expected, BadPath, NewState
  <2>3. CASE e = "Removed"
    BY <1>0, <1>8, <2>1, <2>3 DEF Over, Early, Onward, Expected, BadPath, NewState
  <2>4. CASE e = "Hold"
    BY <1>0, <1>8, <2>1, <2>4 DEF Over, Early, Onward, Expected, BadPath, NewState
  <2> QED BY <2>2, <2>3, <2>4 DEF NewState
<1>9. CASE c.expect = "first_no_proof"
  BY <1>0, <1>9 DEF pair, Over, Early, Onward, Expected, BadPath, NewState, Shape
<1>10. CASE c.expect = "then_no_proof"
  BY <1>0, <1>10 DEF pair, Over, Early, Onward, Expected, BadPath, NewState, Shape
<1>11. CASE c.expect = "then_proof"
  BY <1>0, <1>11 DEF pair, Over, Early, Onward, Expected, BadPath, NewState, Shape
<1> QED BY <1>1, <1>2, <1>3, <1>4, <1>5, <1>6, <1>7, <1>8, <1>9, <1>10, <1>11
        DEF Shape, Submission, NewState

Unheard == UNCHANGED <<ids, complete, aggId, err1>>

LEMMA Unanswered ==
  ASSUME NEW c, Shape(c), without_events(c)
  PROVE  Unheard /\ (Over \/ (c.expect = "refused" /\ Onward))
<1>0. None \notin {"exception"} /\ None \notin Codes BY TestAssumption DEF Codes
<1> USE DEF without_events, returns, throws, goes_on
<1>1. CASE c.expect = "refused"
  <2>1. c.op # "submit" BY <1>1 DEF Shape, Submission
  <2> QED BY <1>1, <2>1 DEF Unheard, Onward
<1>2. CASE c.expect # "refused" /\ c.op = "submit" /\ c.expect # "queued"
  BY <1>0, <1>2 DEF Unheard, Over, BadPath
<1>3. CASE c.expect # "refused" /\ ~ (c.op = "submit" /\ c.expect # "queued")
  <2>1. c.code \in Codes BY <1>3 DEF Shape, NewState
  <2>2. verdict' = c.code /\ Unheard BY <1>3 DEF Unheard
  <2> QED BY <1>0, <2>1, <2>2 DEF Over, Codes
<1> QED BY <1>1, <1>2, <1>3

(* The test goes on after a call it sent: the pallet did it, or declined   *)
(* the proof, or refused the call, or the call was lost where a refusal is *)
(* expected, or its answer was.                                            *)
Did(c) == effect(c) /\ note(c, TRUE) /\ Err1(c, TRUE) /\ Expected(c, TRUE) /\ faults' = faults

Declined(c) ==
  /\ UNCHANGED vars /\ note(c, FALSE) /\ Err1(c, FALSE) /\ Expected(c, FALSE) /\ faults' = faults
  /\ c.op = "submit"

Refusal == [kind |-> "call", expect |-> "refused"]

Refused(c) ==
  /\ UNCHANGED vars /\ Unheard /\ c.expect = "refused"
  /\ faults' = faults \/ faults' = Append(faults, Refusal)

AnswerLost(c) == effect(c) /\ Unheard /\ c.expect = "refused"

LEMMA Outcome ==
  ASSUME verdict = None, NEW c, c = step, Shape(c), err1 \in {"Ok", "ErrProofFromInvalidSubmitter"},
         TestNext
  PROVE  /\ UNCHANGED vars \/ effect(c)
         /\ verifiers' = verifiers
         /\ \/ Over
            \/ faults' = faults /\ effect(c) /\ Early(c, TRUE)
            \/ faults' = faults /\ Early(c, FALSE)
            \/ Onward /\ (Did(c) \/ Declined(c) \/ Refused(c) \/ AnswerLost(c))
<1>1. CASE submitExtrinsic
  <2>1. CASE accepted(c)
    <3>1. effect(c) /\ with_events(c, TRUE) /\ UNCHANGED <<verifiers, faults>>
      BY <1>1, <2>1 DEF submitExtrinsic
    <3>2. /\ note(c, TRUE) /\ Err1(c, TRUE)
          /\ Over \/ Early(c, TRUE) \/ (Onward /\ Expected(c, TRUE))
      BY <3>1, Answered
    <3> QED BY <3>1, <3>2 DEF Did
  <2>2. CASE ~ accepted(c) /\ c.op = "submit"
    <3>1. UNCHANGED vars /\ with_events(c, FALSE) /\ UNCHANGED <<verifiers, faults>>
      BY <1>1, <2>2 DEF submitExtrinsic
    <3>2. /\ note(c, FALSE) /\ Err1(c, FALSE)
          /\ Over \/ Early(c, FALSE) \/ (Onward /\ Expected(c, FALSE))
      BY <2>2, <3>1, Answered
    <3> QED BY <2>2, <3>1, <3>2 DEF Declined
  <2>3. CASE ~ accepted(c) /\ c.op # "submit"
    <3>1. UNCHANGED vars /\ without_events(c) /\ UNCHANGED <<verifiers, faults>>
      BY <1>1, <2>3 DEF submitExtrinsic
    <3>2. Unheard /\ (Over \/ (c.expect = "refused" /\ Onward)) BY <3>1, Unanswered
    <3> QED BY <3>1, <3>2 DEF Refused
  <2> QED BY <2>1, <2>2, <2>3
<1>2. ASSUME NEW kind \in {"call", "answer", "undefined"}, lost(kind)
      PROVE  /\ UNCHANGED vars \/ effect(c)
             /\ verifiers' = verifiers
             /\ Over \/ (Onward /\ (Refused(c) \/ AnswerLost(c)))
  <2>1. /\ faults' = Append(faults, [kind |-> kind, expect |-> c.expect])
        /\ \/ kind = "call" /\ UNCHANGED vars /\ without_events(c)
           \/ kind = "answer" /\ effect(c) /\ without_events(c)
           \/ kind = "undefined" /\ UNCHANGED vars /\ throws
        /\ verifiers' = verifiers
    BY <1>2 DEF lost
  <2>2. without_events(c) => Unheard /\ (Over \/ (c.expect = "refused" /\ Onward)) BY Unanswered
  <2>3. throws => Over BY TestAssumption DEF throws, Over, BadPath
  <2>4. CASE kind = "call" /\ UNCHANGED vars /\ without_events(c)
    BY <2>1, <2>2, <2>4 DEF Refused, Refusal
  <2>5. CASE kind = "answer" /\ effect(c) /\ without_events(c)
    BY <2>1, <2>2, <2>5 DEF AnswerLost
  <2> QED BY <2>1, <2>3, <2>4, <2>5
<1>3. ~ checkPaths BY DEF checkPaths, Shape
<1> QED BY <1>1, <1>2, <1>3 DEF TestNext

-----------------------------------------------------------------------------
(***************************************************************************)
(* How far the test has got, and what it has reached by then.              *)
(***************************************************************************)
Verifiers == N \in Sizes /\ verifiers \in [1 .. N -> 1 .. N]

IdsAt ==
  /\ next_domain_id = IF at <= 3 THEN 0 ELSE IF at <= N + 12 THEN 1
                      ELSE IF at <= N + 16 THEN 2 ELSE IF at <= N + 19 THEN 3 ELSE 4
  /\ ids \in Seq(Nat) /\ Len(ids) = next_domain_id
  /\ \A k \in 1 .. next_domain_id : ids[k] = k - 1

(* Which domain the call at each place is about. *)
TargetAt(c) ==
  /\ at \in 4 .. N + 11 /\ at # N + 5 => domain(c) = 0
  /\ at \in N + 13 .. N + 15 => domain(c) = 1
  /\ at \in N + 17 .. N + 18 => domain(c) = 2
  /\ at \in N + 20 .. N + 25 => domain(c) = 3

OpAt(c) ==
  /\ c.op = "external" <=> at \in {1, 2}
  /\ c.op = "register" <=> at \in {3, N + 12, N + 16, N + 19}
  /\ c.op = "aggregate" <=> at \in {N + 4, N + 15}
  /\ c.op = "allow" <=> at = N + 22
  /\ c.op = "remove" <=> at = N + 25
  /\ c.op = "paths" <=> at = N + 5
  /\ c.expect = "verified" <=> at \in 4 .. N + 3
  /\ c.expect = "refused" <=> at \in {N + 6, N + 7, N + 8}
  /\ c.expect = "then_no_proof" <=> at = N + 21
  /\ c.expect = "then_proof" <=> at = N + 24

ArgsAt(c) ==
  /\ c.op \in {"external", "register", "submit", "aggregate", "paths", "hold", "unregister",
               "allow", "remove"}
  /\ c.who \in {Alice, Bob}
  /\ c.op = "register" => c.reg \in Registrations
  /\ c.op = "submit" => c.statement \in Statements

LEMMA VerifiersFacts ==
  ASSUME Verifiers
  PROVE  N \in Nat \ {0} /\ DOMAIN verifiers = 1 .. N /\ verifiers \in Seq(Statements)
<1>1. N \in Nat \ {0} /\ 1 .. N \subseteq Statements /\ N \in Nat BY TestAssumption DEF Verifiers
<1>2. DOMAIN verifiers = 1 .. N BY DEF Verifiers
<1>3. verifiers \in [1 .. N -> Statements] BY <1>1 DEF Verifiers
<1>4. verifiers \in Seq(Statements) BY <1>1, <1>3
<1> QED BY <1>1, <1>2, <1>4

LEMMA CodesAre ==
  {"ErrAllowlist", "ErrDomainHoldFailed", "ErrDomainRegistrationFailed",
   "ErrDomainUnregistrationFailed", "ErrNoAggregation", "ErrProofFromInvalidSubmitter",
   "ErrProofFromValidSubmitter", "ErrProofOnUnregisteredDomain",
   "ErrProofVerificationFailed", "ErrRegisterCA", "ErrUpdateCrl"} \subseteq Codes
BY DEF Codes, ReturnCode, BadPath

(* The calls at the places of run, all but the check of the paths. *)
Proper(c, op, d, expect) ==
  Shape(c) /\ ArgsAt(c) /\ c.op = op /\ c.domain = d /\ c.expect = expect

LEMMA CallPlace ==
  ASSUME NEW c, NEW op \in {"external", "aggregate", "hold", "unregister", "allow", "remove"},
         NEW who \in {Alice, Bob}, NEW d, NEW expect \in {"events", "profit", "refused"} \cup NewState,
         NEW code \in Codes, IsCall(c, op, who, d, expect, code)
  PROVE  Proper(c, op, d, expect)
<1>1. c.op = op /\ c.who = who /\ c.domain = d /\ c.expect = expect /\ c.code = code BY DEF IsCall
<1>2. Shape(c) BY <1>1 DEF Shape, NewState
<1>3. ArgsAt(c) BY <1>1 DEF ArgsAt
<1> QED BY <1>1, <1>2, <1>3 DEF Proper

LEMMA SubmitPlace ==
  ASSUME Verifiers, NEW c, NEW who \in {Alice, Bob}, NEW d, NEW expect \in Submission,
         NEW code \in Codes, NEW i \in 1 .. N, IsSubmit(c, i, who, d, expect, code),
         expect \in {"first_no_proof", "then_no_proof", "then_proof"} =>
           code = "ErrProofFromInvalidSubmitter"
  PROVE  Proper(c, "submit", d, expect)
<1>1. /\ c.op = "submit" /\ c.who = who /\ c.domain = d /\ c.expect = expect /\ c.code = code
      /\ c.statement = verifiers[i]
  BY DEF IsSubmit, IsCall
<1>2. Shape(c) BY <1>1 DEF Shape, Submission
<1>3. verifiers[i] \in Statements BY VerifiersFacts
<1>4. ArgsAt(c) BY <1>1, <1>3 DEF ArgsAt
<1> QED BY <1>1, <1>2, <1>4 DEF Proper

LEMMA RegisterPlace ==
  ASSUME NEW c, NEW reg \in Registrations, IsRegister(c, reg)
  PROVE  Shape(c) /\ ArgsAt(c) /\ c.op = "register" /\ c.expect = "events"
<1>1. /\ c.op = "register" /\ c.who = Bob /\ c.reg = reg /\ c.expect = "events"
      /\ c.code = "ErrDomainRegistrationFailed"
  BY DEF IsRegister
<1> QED BY <1>1, CodesAre DEF Shape, ArgsAt, NewState

LEMMA Places ==
  ASSUME Verifiers, IdsAt, at \in 1 .. N + 25, NEW c, c = step
  PROVE  /\ TargetAt(c) /\ OpAt(c) /\ ArgsAt(c) /\ (at # N + 5 => Shape(c))
<1> USE DEF TargetAt, OpAt
<1>a. N \in Nat \ {0} /\ DOMAIN verifiers = 1 .. N /\ N \in Nat /\ 1 \in 1 .. N BY VerifiersFacts
<1>b. c = run[at] BY DEF step
<1>c. /\ at >= 4 => ids[1] = 0
      /\ at >= N + 13 => ids[2] = 1
      /\ at >= N + 17 => ids[3] = 2
      /\ at >= N + 20 => ids[4] = 3
  BY <1>a DEF IdsAt
<1>d. CASE at \in 4 .. N + 3
  <2>1. PICK k \in 1 .. N : at = k + 3
    <3>1. at - 3 \in 1 .. N /\ at = (at - 3) + 3 BY <1>a, <1>d
    <3> QED BY <3>1
  <2>2. IsSubmit(c, k, Alice, 1, "verified", "") BY <1>a, <1>b, <2>1, RunCalls
  <2>3. /\ c.op = "submit" /\ c.domain = 1 /\ c.expect = "verified" /\ c.who = Alice
        /\ c.statement = verifiers[k]
    BY <2>2 DEF IsSubmit, IsCall
  <2>4. Shape(c) BY <2>3 DEF Shape, Submission
  <2>5. TargetAt(c) /\ OpAt(c) BY <1>a, <1>c, <1>d, <2>3 DEF domain
  <2>6. verifiers[k] \in Statements BY VerifiersFacts
  <2>7. ArgsAt(c) BY <2>3, <2>6 DEF ArgsAt
  <2> QED BY <2>4, <2>5, <2>7
<1>1. CASE at = 1
  <2>1. IsCall(c, "external", Alice, 0, "events", "ErrRegisterCA")
    BY <1>a, <1>b, <1>1, RunCalls
  <2>2. Proper(c, "external", 0, "events") BY <2>1, CodesAre, CallPlace DEF NewState
  <2>3. TargetAt(c) /\ OpAt(c) BY <1>a, <1>c, <1>1, <2>2 DEF domain, Proper
  <2> QED BY <2>2, <2>3 DEF Proper
<1>2. CASE at = 2
  <2>1. IsCall(c, "external", Bob, 0, "events", "ErrUpdateCrl")
    BY <1>a, <1>b, <1>2, RunCalls
  <2>2. Proper(c, "external", 0, "events") BY <2>1, CodesAre, CallPlace DEF NewState
  <2>3. TargetAt(c) /\ OpAt(c) BY <1>a, <1>c, <1>2, <2>2 DEF domain, Proper
  <2> QED BY <2>2, <2>3 DEF Proper
<1>3. CASE at = 3
  <2>1. IsRegister(c, Register(N, None, "Untrusted")) BY <1>a, <1>b, <1>3, RunCalls
  <2>2. Register(N, None, "Untrusted") \in Registrations
    BY RegistrationAssumption DEF Verifiers, ProofSecurityRules
  <2>3. Shape(c) /\ ArgsAt(c) /\ c.op = "register" /\ c.expect = "events" BY <2>1, <2>2, RegisterPlace
  <2>4. TargetAt(c) /\ OpAt(c) BY <1>a, <1>3, <2>3
  <2> QED BY <2>3, <2>4
<1>4. CASE at = N + 4
  <2>1. IsCall(c, "aggregate", Bob, 1, "profit", "ErrNoAggregation")
    BY <1>a, <1>b, <1>4, RunCalls
  <2>2. Proper(c, "aggregate", 1, "profit") BY <2>1, CodesAre, CallPlace DEF NewState
  <2>3. TargetAt(c) /\ OpAt(c) BY <1>a, <1>c, <1>4, <2>2 DEF domain, Proper
  <2> QED BY <2>2, <2>3 DEF Proper
<1>5. CASE at = N + 5
  <2>1. IsCall(c, "paths", Bob, 1, "paths", "ErrAggregationProofFailedVerification")
    BY <1>a, <1>b, <1>5, RunCalls
  <2>2. c.op = "paths" /\ c.expect = "paths" /\ c.who = Bob BY <2>1 DEF IsCall
  <2>3. TargetAt(c) /\ OpAt(c) BY <1>a, <1>5, <2>2
  <2>4. ArgsAt(c) BY <2>2 DEF ArgsAt
  <2> QED BY <1>5, <2>3, <2>4
<1>6. CASE at = N + 6
  <2>1. IsCall(c, "unregister", Alice, 1, "refused", "ErrDomainUnregistrationFailed")
    BY <1>a, <1>b, <1>6, RunCalls
  <2>2. Proper(c, "unregister", 1, "refused") BY <2>1, CodesAre, CallPlace DEF NewState
  <2>3. TargetAt(c) /\ OpAt(c) BY <1>a, <1>c, <1>6, <2>2 DEF domain, Proper
  <2> QED BY <2>2, <2>3 DEF Proper
<1>7. CASE at = N + 7
  <2>1. IsCall(c, "hold", Alice, 1, "refused", "ErrDomainHoldFailed")
    BY <1>a, <1>b, <1>7, RunCalls
  <2>2. Proper(c, "hold", 1, "refused") BY <2>1, CodesAre, CallPlace DEF NewState
  <2>3. TargetAt(c) /\ OpAt(c) BY <1>a, <1>c, <1>7, <2>2 DEF domain, Proper
  <2> QED BY <2>2, <2>3 DEF Proper
<1>8. CASE at = N + 8
  <2>1. IsCall(c, "unregister", Bob, 1, "refused", "ErrDomainUnregistrationFailed")
    BY <1>a, <1>b, <1>8, RunCalls
  <2>2. Proper(c, "unregister", 1, "refused") BY <2>1, CodesAre, CallPlace DEF NewState
  <2>3. TargetAt(c) /\ OpAt(c) BY <1>a, <1>c, <1>8, <2>2 DEF domain, Proper
  <2> QED BY <2>2, <2>3 DEF Proper
<1>9. CASE at = N + 9
  <2>1. IsCall(c, "hold", Bob, 1, "Removable", "ErrDomainHoldFailed")
    BY <1>a, <1>b, <1>9, RunCalls
  <2>2. Proper(c, "hold", 1, "Removable") BY <2>1, CodesAre, CallPlace DEF NewState
  <2>3. TargetAt(c) /\ OpAt(c) BY <1>a, <1>c, <1>9, <2>2 DEF domain, Proper
  <2> QED BY <2>2, <2>3 DEF Proper
<1>10. CASE at = N + 10
  <2>1. IsCall(c, "unregister", Bob, 1, "Removed", "ErrDomainUnregistrationFailed")
    BY <1>a, <1>b, <1>10, RunCalls
  <2>2. Proper(c, "unregister", 1, "Removed") BY <2>1, CodesAre, CallPlace DEF NewState
  <2>3. TargetAt(c) /\ OpAt(c) BY <1>a, <1>c, <1>10, <2>2 DEF domain, Proper
  <2> QED BY <2>2, <2>3 DEF Proper
<1>11. CASE at = N + 11
  <2>1. IsSubmit(c, 1, Alice, 1, "no_proof", "ErrProofOnUnregisteredDomain")
    BY <1>a, <1>b, <1>11, RunCalls
  <2>2. Proper(c, "submit", 1, "no_proof") BY <1>a, <2>1, CodesAre, SubmitPlace DEF Submission
  <2>3. TargetAt(c) /\ OpAt(c) BY <1>a, <1>c, <1>11, <2>2 DEF domain, Proper
  <2> QED BY <2>2, <2>3 DEF Proper
<1>12. CASE at = N + 12
  <2>1. IsRegister(c, Register(4, 8, "Untrusted")) BY <1>a, <1>b, <1>12, RunCalls
  <2>2. Register(4, 8, "Untrusted") \in Registrations
    BY RegistrationAssumption DEF Verifiers, ProofSecurityRules
  <2>3. Shape(c) /\ ArgsAt(c) /\ c.op = "register" /\ c.expect = "events" BY <2>1, <2>2, RegisterPlace
  <2>4. TargetAt(c) /\ OpAt(c) BY <1>a, <1>12, <2>3
  <2> QED BY <2>3, <2>4
<1>13. CASE at = N + 13
  <2>1. IsSubmit(c, 1, Alice, 2, "queued", "ErrProofVerificationFailed")
    BY <1>a, <1>b, <1>13, RunCalls
  <2>2. Proper(c, "submit", 2, "queued") BY <1>a, <2>1, CodesAre, SubmitPlace DEF Submission
  <2>3. TargetAt(c) /\ OpAt(c) BY <1>a, <1>c, <1>13, <2>2 DEF domain, Proper
  <2> QED BY <2>2, <2>3 DEF Proper
<1>14. CASE at = N + 14
  <2>1. IsCall(c, "hold", Bob, 2, "Hold", "ErrDomainHoldFailed")
    BY <1>a, <1>b, <1>14, RunCalls
  <2>2. Proper(c, "hold", 2, "Hold") BY <2>1, CodesAre, CallPlace DEF NewState
  <2>3. TargetAt(c) /\ OpAt(c) BY <1>a, <1>c, <1>14, <2>2 DEF domain, Proper
  <2> QED BY <2>2, <2>3 DEF Proper
<1>15. CASE at = N + 15
  <2>1. IsCall(c, "aggregate", Bob, 2, "Removable", "ErrNoAggregation")
    BY <1>a, <1>b, <1>15, RunCalls
  <2>2. Proper(c, "aggregate", 2, "Removable") BY <2>1, CodesAre, CallPlace DEF NewState
  <2>3. TargetAt(c) /\ OpAt(c) BY <1>a, <1>c, <1>15, <2>2 DEF domain, Proper
  <2> QED BY <2>2, <2>3 DEF Proper
<1>16. CASE at = N + 16
  <2>1. IsRegister(c, Register(4, 8, "OnlyOwner")) BY <1>a, <1>b, <1>16, RunCalls
  <2>2. Register(4, 8, "OnlyOwner") \in Registrations
    BY RegistrationAssumption DEF Verifiers, ProofSecurityRules
  <2>3. Shape(c) /\ ArgsAt(c) /\ c.op = "register" /\ c.expect = "events" BY <2>1, <2>2, RegisterPlace
  <2>4. TargetAt(c) /\ OpAt(c) BY <1>a, <1>16, <2>3
  <2> QED BY <2>3, <2>4
<1>17. CASE at = N + 17
  <2>1. IsSubmit(c, 1, Alice, 3, "no_proof", "ErrProofFromInvalidSubmitter")
    BY <1>a, <1>b, <1>17, RunCalls
  <2>2. Proper(c, "submit", 3, "no_proof") BY <1>a, <2>1, CodesAre, SubmitPlace DEF Submission
  <2>3. TargetAt(c) /\ OpAt(c) BY <1>a, <1>c, <1>17, <2>2 DEF domain, Proper
  <2> QED BY <2>2, <2>3 DEF Proper
<1>18. CASE at = N + 18
  <2>1. IsSubmit(c, 1, Bob, 3, "proof", "ErrProofFromValidSubmitter")
    BY <1>a, <1>b, <1>18, RunCalls
  <2>2. Proper(c, "submit", 3, "proof") BY <1>a, <2>1, CodesAre, SubmitPlace DEF Submission
  <2>3. TargetAt(c) /\ OpAt(c) BY <1>a, <1>c, <1>18, <2>2 DEF domain, Proper
  <2> QED BY <2>2, <2>3 DEF Proper
<1>19. CASE at = N + 19
  <2>1. IsRegister(c, Register(4, 8, "OnlyAllowlisted")) BY <1>a, <1>b, <1>19, RunCalls
  <2>2. Register(4, 8, "OnlyAllowlisted") \in Registrations
    BY RegistrationAssumption DEF Verifiers, ProofSecurityRules
  <2>3. Shape(c) /\ ArgsAt(c) /\ c.op = "register" /\ c.expect = "events" BY <2>1, <2>2, RegisterPlace
  <2>4. TargetAt(c) /\ OpAt(c) BY <1>a, <1>19, <2>3
  <2> QED BY <2>3, <2>4
<1>20. CASE at = N + 20
  <2>1. IsSubmit(c, 1, Alice, 4, "first_no_proof", "ErrProofFromInvalidSubmitter")
    BY <1>a, <1>b, <1>20, RunCalls
  <2>2. Proper(c, "submit", 4, "first_no_proof") BY <1>a, <2>1, CodesAre, SubmitPlace DEF Submission
  <2>3. TargetAt(c) /\ OpAt(c) BY <1>a, <1>c, <1>20, <2>2 DEF domain, Proper
  <2> QED BY <2>2, <2>3 DEF Proper
<1>21. CASE at = N + 21
  <2>1. IsSubmit(c, 1, Bob, 4, "then_no_proof", "ErrProofFromInvalidSubmitter")
    BY <1>a, <1>b, <1>21, RunCalls
  <2>2. Proper(c, "submit", 4, "then_no_proof") BY <1>a, <2>1, CodesAre, SubmitPlace DEF Submission
  <2>3. TargetAt(c) /\ OpAt(c) BY <1>a, <1>c, <1>21, <2>2 DEF domain, Proper
  <2> QED BY <2>2, <2>3 DEF Proper
<1>22. CASE at = N + 22
  <2>1. IsCall(c, "allow", Bob, 4, "events", "ErrAllowlist")
    BY <1>a, <1>b, <1>22, RunCalls
  <2>2. Proper(c, "allow", 4, "events") BY <2>1, CodesAre, CallPlace DEF NewState
  <2>3. TargetAt(c) /\ OpAt(c) BY <1>a, <1>c, <1>22, <2>2 DEF domain, Proper
  <2> QED BY <2>2, <2>3 DEF Proper
<1>23. CASE at = N + 23
  <2>1. IsSubmit(c, 1, Bob, 4, "first_no_proof", "ErrProofFromInvalidSubmitter")
    BY <1>a, <1>b, <1>23, RunCalls
  <2>2. Proper(c, "submit", 4, "first_no_proof") BY <1>a, <2>1, CodesAre, SubmitPlace DEF Submission
  <2>3. TargetAt(c) /\ OpAt(c) BY <1>a, <1>c, <1>23, <2>2 DEF domain, Proper
  <2> QED BY <2>2, <2>3 DEF Proper
<1>24. CASE at = N + 24
  <2>1. IsSubmit(c, 1, Alice, 4, "then_proof", "ErrProofFromInvalidSubmitter")
    BY <1>a, <1>b, <1>24, RunCalls
  <2>2. Proper(c, "submit", 4, "then_proof") BY <1>a, <2>1, CodesAre, SubmitPlace DEF Submission
  <2>3. TargetAt(c) /\ OpAt(c) BY <1>a, <1>c, <1>24, <2>2 DEF domain, Proper
  <2> QED BY <2>2, <2>3 DEF Proper
<1>25. CASE at = N + 25
  <2>1. IsCall(c, "remove", Bob, 4, "events", "ErrAllowlist")
    BY <1>a, <1>b, <1>25, RunCalls
  <2>2. Proper(c, "remove", 4, "events") BY <2>1, CodesAre, CallPlace DEF NewState
  <2>3. TargetAt(c) /\ OpAt(c) BY <1>a, <1>c, <1>25, <2>2 DEF domain, Proper
  <2> QED BY <2>2, <2>3 DEF Proper
<1> QED BY <1>a, <1>d, <1>1, <1>2, <1>3, <1>4, <1>5, <1>6, <1>7, <1>8, <1>9, <1>10, <1>11, <1>12, <1>13,
          <1>14, <1>15, <1>16, <1>17, <1>18, <1>19, <1>20, <1>21, <1>22, <1>23, <1>24, <1>25

(***************************************************************************)
(* Every step of the test is a step of the pallet or leaves it alone.      *)
(***************************************************************************)
LEMMA EffectIsStep ==
  ASSUME NEW c, ArgsAt(c), effect(c)
  PROVE  [Next]_vars
<1>1. c.who \in Accounts /\ c.who \in Users BY TestAssumption DEF ArgsAt, Users
<1>2. CASE c.op = "external" BY <1>2 DEF effect
<1>3. CASE c.op = "register"
  <2>1. register_domain(c.who, c.reg) /\ c.reg \in Registrations BY <1>3 DEF effect, ArgsAt
  <2> QED BY <1>1, <2>1 DEF Next
<1>4. CASE c.op \notin {"external", "register"}
  <2>1. PICK d : d = domain(c) OBVIOUS
  <2>2. d \in DOMAIN domains BY <1>4, <2>1 DEF effect
  <2>3. CASE c.op = "submit"
    <3>1. on_proof_verified(c.who, d, c.statement, CallFee) BY <1>4, <2>1, <2>3 DEF effect
    <3>2. c.statement \in Statements BY <2>3 DEF ArgsAt
    <3>3. CallFee \in CallFees BY TestAssumption
    <3> QED BY <1>1, <2>2, <3>1, <3>2, <3>3 DEF Next
  <2>4. CASE c.op = "aggregate"
    <3>1. PICK id : id = aggregation(c) OBVIOUS
    <3>2. aggregate(c.who, d, id) BY <1>4, <2>1, <2>4, <3>1 DEF effect
    <3>3. can_take_aggregation(domains[d], id) BY <3>2 DEF aggregate
    <3>4. id \in PendingIds(domains[d]) BY <3>3 DEF can_take_aggregation, PendingIds
    <3> QED BY <1>1, <2>2, <3>2, <3>4 DEF Next
  <2>5. CASE c.op = "hold"
    <3>1. hold_domain(c.who, d) BY <1>4, <2>1, <2>5 DEF effect
    <3> QED BY <1>1, <2>2, <3>1 DEF Next
  <2>6. CASE c.op = "unregister"
    <3>1. unregister_domain(c.who, d) BY <1>4, <2>1, <2>6 DEF effect
    <3> QED BY <1>1, <2>2, <3>1 DEF Next
  <2>7. CASE c.op = "allow"
    <3>1. allowlist_proof_submitters(c.who, d, {Alice}) BY <1>4, <2>1, <2>7 DEF effect
    <3>2. {Alice} \in SUBSET Accounts BY TestAssumption
    <3> QED BY <1>1, <2>2, <3>1, <3>2 DEF Next
  <2>8. CASE c.op = "remove"
    <3>1. remove_proof_submitters(c.who, d, {Alice}) BY <1>4, <2>1, <2>8 DEF effect
    <3>2. {Alice} \in SUBSET Accounts BY TestAssumption
    <3> QED BY <1>1, <2>2, <3>1, <3>2 DEF Next
  <2>9. c.op # "paths" BY <1>4 DEF effect
  <2> QED BY <1>4, <2>3, <2>4, <2>5, <2>6, <2>7, <2>8, <2>9 DEF ArgsAt
<1> QED BY <1>2, <1>3, <1>4

(* What a call leaves alone. *)
Keeps(i) ==
  IF i \in DOMAIN domains THEN i \in DOMAIN domains' /\ domains'[i] = domains[i]
                          ELSE i \notin DOMAIN domains'

LEMMA SetKeeps ==
  ASSUME NEW d, NEW new, set_domain(d, new), NEW i, i # d
  PROVE  Keeps(i)
BY DEF set_domain, Keeps

LEMMA EffectKeeps ==
  ASSUME NEW c, effect(c), NEW i, c.op = "register" => i # next_domain_id,
         c.op \notin {"external", "register"} => i # domain(c)
  PROVE  Keeps(i)
<1>1. CASE c.op = "external" BY <1>1 DEF effect, vars, Keeps
<1>2. CASE c.op = "register"
  <2>1. register_domain(c.who, c.reg) BY <1>2 DEF effect
  <2>2. \E new : set_domain(next_domain_id, new) BY <2>1 DEF register_domain
  <2> QED BY <1>2, <2>2, SetKeeps
<1>3. CASE c.op \notin {"external", "register"}
  <2>1. PICK d : d = domain(c) OBVIOUS
  <2>2. i # d BY <1>3, <2>1
  <2>3. \/ \E s : on_proof_verified(c.who, d, s, CallFee)
        \/ \E id : aggregate(c.who, d, id)
        \/ hold_domain(c.who, d)
        \/ unregister_domain(c.who, d)
        \/ \E s : allowlist_proof_submitters(c.who, d, s)
        \/ \E s : remove_proof_submitters(c.who, d, s)
    BY <1>3, <2>1 DEF effect
  <2>4. ASSUME \E s : on_proof_verified(c.who, d, s, CallFee) PROVE \E new : set_domain(d, new)
    BY <2>4 DEF on_proof_verified
  <2>5. ASSUME \E id : aggregate(c.who, d, id) PROVE \E new : set_domain(d, new)
    BY <2>5 DEF aggregate
  <2>6. ASSUME hold_domain(c.who, d) PROVE \E new : set_domain(d, new) BY <2>6 DEF hold_domain
  <2>7. ASSUME \E s : allowlist_proof_submitters(c.who, d, s) PROVE \E new : set_domain(d, new)
    BY <2>7 DEF allowlist_proof_submitters
  <2>8. ASSUME \E s : remove_proof_submitters(c.who, d, s) PROVE \E new : set_domain(d, new)
    BY <2>8 DEF remove_proof_submitters
  <2>9. ASSUME unregister_domain(c.who, d) PROVE Keeps(i)
    <3>1. domains' = [j \in DOMAIN domains \ {d} |-> domains[j]] BY <2>9 DEF unregister_domain
    <3> QED BY <2>2, <3>1 DEF Keeps
  <2>10. ASSUME NEW new, set_domain(d, new) PROVE Keeps(i) BY <2>2, <2>10, SetKeeps
  <2> QED BY <2>3, <2>4, <2>5, <2>6, <2>7, <2>8, <2>9, <2>10
<1> QED BY <1>1, <1>2, <1>3

LEMMA EffectFrame ==
  ASSUME NEW c, effect(c)
  PROVE  /\ next_domain_id' = IF c.op = "register" THEN next_domain_id + 1 ELSE next_domain_id
         /\ c.op \notin {"allow", "remove"} => allowlist' = allowlist
         /\ IF c.op = "aggregate"
            THEN \A k \in DOMAIN receipts :
                   k # <<domain(c), aggregation(c)>> =>
                     k \in DOMAIN receipts' /\ receipts'[k] = receipts[k]
            ELSE receipts' = receipts
<1>1. CASE c.op = "external" BY <1>1 DEF effect, vars
<1>2. CASE c.op = "register"
  <2>1. register_domain(c.who, c.reg) BY <1>2 DEF effect
  <2> QED BY <1>2, <2>1 DEF register_domain
<1>3. CASE c.op = "submit"
  <2>1. on_proof_verified(c.who, domain(c), c.statement, CallFee) BY <1>3 DEF effect
  <2> QED BY <1>3, <2>1 DEF on_proof_verified
<1>4. CASE c.op = "aggregate"
  <2>1. PICK d, id : d = domain(c) /\ id = aggregation(c) OBVIOUS
  <2>2. aggregate(c.who, d, id) BY <1>4, <2>1 DEF effect
  <2>3. UNCHANGED <<next_domain_id, allowlist>> BY <2>2 DEF aggregate
  <2>4. PICK st : receipts' = [k \in DOMAIN receipts \cup {<<d, id>>} |->
                                 IF k = <<d, id>> THEN st ELSE receipts[k]]
    BY <2>2 DEF aggregate
  <2>5. \A k \in DOMAIN receipts :
          k # <<d, id>> => k \in DOMAIN receipts' /\ receipts'[k] = receipts[k]
    BY <2>4
  <2> QED BY <1>4, <2>1, <2>3, <2>5
<1>5. CASE c.op = "hold"
  <2>1. hold_domain(c.who, domain(c)) BY <1>5 DEF effect
  <2> QED BY <1>5, <2>1 DEF hold_domain
<1>6. CASE c.op = "unregister"
  <2>1. unregister_domain(c.who, domain(c)) BY <1>6 DEF effect
  <2> QED BY <1>6, <2>1 DEF unregister_domain
<1>7. CASE c.op = "allow"
  <2>1. allowlist_proof_submitters(c.who, domain(c), {Alice}) BY <1>7 DEF effect
  <2> QED BY <1>7, <2>1 DEF allowlist_proof_submitters
<1>8. CASE c.op = "remove"
  <2>1. remove_proof_submitters(c.who, domain(c), {Alice}) BY <1>8 DEF effect
  <2> QED BY <1>8, <2>1 DEF remove_proof_submitters
<1> QED BY <1>1, <1>2, <1>3, <1>4, <1>5, <1>6, <1>7, <1>8 DEF effect

(***************************************************************************)
(* What each call does to the domain it is about.                          *)
(***************************************************************************)
(* A proof joins the aggregation, or completes it. *)
Queued(dom, new, e) ==
  /\ new.state = "Ready" /\ SameTerms(dom, new)
  /\ IF Len(dom.next.statements) + 1 < dom.next.size
     THEN Joined(dom, new, e)
     ELSE Filled(dom, new, e) /\ new.next.id = dom.next.id + 1

LEMMA PopReady ==
  ASSUME NEW dom, EntryTyped(dom), dom.next.id < U64Max, dom.state = "Ready"
  PROVE  pop_next_aggregation(dom).state = "Ready"
<1>1. dom \in DomainEntry(DOMAIN dom.should_publish) BY EntryFields
<1> DEFINE agg == AggregationCreate(dom.next.id + 1, dom.next.size)
<1>2. pop_next_aggregation(dom) = [dom EXCEPT !.next = agg] BY DEF pop_next_aggregation
<1> HIDE DEF agg
<1>3. [dom EXCEPT !.next = agg].state = dom.state BY <1>1 DEF DomainEntry
<1> QED BY <1>2, <1>3

LEMMA AppendDetail ==
  ASSUME NEW dom, EntryOK(dom), dom.state = "Ready", dom.next.id < U64Max, NEW e \in StatementEntry
  PROVE  Queued(dom, append_statement(dom, e), e)
<1> DEFINE filled == [dom.next EXCEPT !.statements = Append(@, e)]
           added == [dom EXCEPT !.next.statements = Append(@, e)]
           popped == pop_next_aggregation(added)
           queue == [i \in DOMAIN popped.should_publish \cup {filled.id} |->
                       IF i = filled.id THEN filled ELSE popped.should_publish[i]]
           new == append_statement(dom, e)
<1>1. EntryTyped(dom) /\ EntryBounded(dom) BY DEF EntryOK
<1>2. /\ dom \in DomainEntry(DOMAIN dom.should_publish)
      /\ DOMAIN dom.should_publish \in SUBSET (0 .. U64Max)
      /\ dom.next \in AggregationEntry /\ dom.next.id \in 0 .. U64Max
      /\ dom.next.size \in Nat /\ dom.next.size # 0
      /\ dom.next.statements \in Seq(StatementEntry)
  BY <1>1, EntryFields DEF EntryBounded
<1>3. Joined(dom, new, e) \/ Filled(dom, new, e) BY AppendQueue
<1>4. SameTerms(dom, new) BY <1>1, <1>2, AppendTerms
<1>5. filled \in AggregationEntry /\ filled.size = dom.next.size /\ filled.id = dom.next.id
      /\ Len(filled.statements) = Len(dom.next.statements) + 1
  <2> DEFINE longer == Append(dom.next.statements, e)
  <2>1. longer \in Seq(StatementEntry) /\ Len(longer) = Len(dom.next.statements) + 1 BY <1>2
  <2>2. filled = [dom.next EXCEPT !.statements = longer] BY <1>2 DEF AggregationEntry
  <2> HIDE DEF longer, filled
  <2> QED BY <1>2, <2>1, <2>2 DEF AggregationEntry
<1>6. added \in DomainEntry(DOMAIN dom.should_publish) /\ added.next = filled /\ added.state = "Ready"
  <2>1. added = [dom EXCEPT !.next = filled] BY <1>2 DEF DomainEntry
  <2> HIDE DEF added, filled
  <2> QED BY <1>2, <1>5, <2>1 DEF DomainEntry
<1> HIDE DEF filled
<1>7. EntryTyped(added) BY <1>2, <1>6 DEF EntryTyped
<1>8. is_next_aggregation_complete(added) <=> ~ (Len(dom.next.statements) + 1 < dom.next.size)
  <2> HIDE DEF added
  <2>1. Len(dom.next.statements) \in Nat BY <1>2
  <2> QED BY <1>2, <1>5, <1>6, <2>1 DEF is_next_aggregation_complete
<1>9. CASE Len(dom.next.statements) + 1 < dom.next.size
  <2>1. new = added BY <1>8, <1>9 DEF append_statement
  <2> HIDE DEF new, added
  <2>2. new.state = "Ready" /\ new.next.statements # <<>>
    <3>1. Len(new.next.statements) # 0 BY <1>2, <1>5, <1>6, <2>1
    <3> QED BY <1>6, <2>1, <3>1
  <2>3. Joined(dom, new, e) BY <1>3, <2>2 DEF Filled
  <2> QED BY <1>4, <1>9, <2>2, <2>3 DEF Queued, new
<1>10. CASE ~ (Len(dom.next.statements) + 1 < dom.next.size)
  <2>1. new = available_aggregation(popped, filled) BY <1>6, <1>8, <1>10 DEF append_statement
  <2> HIDE DEF added
  <2>2. popped.state = "Ready" /\ EntryTyped(popped) /\ popped.next.statements = <<>>
        /\ popped.next.id # 0
    <3>1. EntryTyped(popped) /\ popped.next.statements = <<>>
          /\ (popped.next.id = 0 => popped.state # "Ready")
      BY <1>2, <1>5, <1>6, <1>7, PopFields
    <3> QED BY <1>5, <1>6, <1>7, <3>1, PopReady
  <2> HIDE DEF popped, new
  <2>3. popped \in DomainEntry(DOMAIN popped.should_publish) BY <2>2, EntryFields
  <2>4. new = [popped EXCEPT !.should_publish = queue] BY <2>1 DEF available_aggregation
  <2> HIDE DEF queue
  <2>5. new.state = "Ready" /\ new.next = popped.next BY <2>2, <2>3, <2>4 DEF DomainEntry
  <2>6. Filled(dom, new, e)
    <3>1. ~ Joined(dom, new, e)
      <4>1. Append(dom.next.statements, e) # <<>> BY <1>2
      <4> QED BY <2>2, <2>5, <4>1 DEF Joined
    <3> QED BY <1>3, <3>1 DEF new
  <2> QED BY <1>4, <1>10, <2>2, <2>5, <2>6 DEF Queued, Filled, new
<1> QED BY <1>9, <1>10

LEMMA SubmitDetail ==
  ASSUME IInv, NEW d \in DOMAIN domains, NEW a \in Accounts, NEW s \in Statements,
         on_proof_verified(a, d, s, CallFee), domains[d].next.id < U64Max
  PROVE  /\ d \in DOMAIN domains'
         /\ \E e \in StatementEntry :
              e.account = a /\ e.statement = s /\ Queued(domains[d], domains'[d], e)
<1> DEFINE dom == domains[d]
           entry == [account |-> a, reserve |-> Reserve(dom, CallFee), statement |-> s]
           added == append_statement(dom, entry)
           new == handle_hold_state(d, added, allowlist)
<1>1. EntryOK(dom) /\ EntryTyped(dom) /\ dom.next.size # 0 BY StoredEntry
<1>2. dom.state = "Ready" /\ set_domain(d, new) BY DEF on_proof_verified
<1>3. entry \in StatementEntry /\ entry.account = a /\ entry.statement = s
  <2>1. CallFee \in CallFees BY TestAssumption
  <2>2. Reserve(dom, CallFee) \in [aggregate : Nat, delivery : Nat] BY <1>1, <2>1, ReserveTyped
  <2> QED BY <2>2 DEF StatementEntry
<1> HIDE DEF entry
<1>4. Queued(dom, added, entry) BY <1>1, <1>2, <1>3, AppendDetail
<1>5. EntryOK(added) BY <1>1, <1>2, <1>3, AppendOK DEF on_proof_verified
<1> HIDE DEF added
<1>6. added.state = "Ready" BY <1>4 DEF Queued
<1>7. new = added BY <1>6 DEF handle_hold_state
<1>8. d \in DOMAIN domains' /\ domains'[d] = added BY <1>2, <1>7 DEF set_domain
<1> QED BY <1>3, <1>4, <1>8

(* A fresh domain, and one in which nothing waits. *)
Fresh(d, reg) ==
  /\ d \in DOMAIN domains' /\ domains'[d].owner = Bob /\ domains'[d].state = "Ready"
  /\ domains'[d].proof_rules = reg.proof_rules
  /\ domains'[d].next = AggregationCreate(1, reg.aggregation_size)
  /\ domains'[d].should_publish = <<>>

LEMMA RegisterDetail ==
  ASSUME NEW reg, register_domain(Bob, reg)
  PROVE  Fresh(next_domain_id, reg)
<1>1. PICK new : /\ set_domain(next_domain_id, new)
                 /\ new.owner = Bob /\ new.state = "Ready" /\ new.proof_rules = reg.proof_rules
                 /\ new.next = AggregationCreate(1, reg.aggregation_size)
                 /\ new.should_publish = <<>>
  BY DEF register_domain
<1> QED BY <1>1 DEF set_domain, Fresh

LEMMA TakeDetail ==
  ASSUME IInv, NEW d \in DOMAIN domains, NEW id, aggregate(Bob, d, id), domains[d].next.id # id,
         domains[d].state = "Ready"
  PROVE  /\ d \in DOMAIN domains' /\ domains'[d].state = "Ready"
         /\ domains'[d].owner = domains[d].owner
         /\ <<d, id>> \in DOMAIN receipts'
         /\ receipts'[<<d, id>>] = StatementsOf(domains[d].should_publish[id])
<1> DEFINE dom == domains[d]
           rest == [i \in DOMAIN dom.should_publish \ {id} |-> dom.should_publish[i]]
           taken == take_aggregation(dom, id)
<1>1. EntryTyped(dom) BY StoredEntry
<1>2. /\ set_domain(d, handle_hold_state(d, taken, allowlist))
      /\ receipts' = [k \in DOMAIN receipts \cup {<<d, id>>} |->
                        IF k = <<d, id>> THEN StatementsOf(dom.should_publish[id]) ELSE receipts[k]]
  BY DEF aggregate, taken_aggregation
<1>3. SameTerms(dom, taken) BY <1>1, TakeTerms
<1>4. taken = [dom EXCEPT !.should_publish = rest] BY DEF take_aggregation
<1> HIDE DEF rest
<1>5. taken.state = "Ready" BY <1>1, <1>4, QueueTerms
<1> HIDE DEF taken
<1>6. handle_hold_state(d, taken, allowlist) = taken BY <1>5 DEF handle_hold_state
<1>7. d \in DOMAIN domains' /\ domains'[d] = taken BY <1>2, <1>6 DEF set_domain
<1> QED BY <1>2, <1>3, <1>5, <1>7 DEF SameTerms

LEMMA AllowDetail ==
  ASSUME IInv, NEW d \in DOMAIN domains, allowlist_proof_submitters(Bob, d, {Alice})
  PROVE  /\ d \in DOMAIN domains' /\ SameTerms(domains[d], domains'[d])
         /\ domains'[d].next = domains[d].next
         /\ domains'[d].should_publish = domains[d].should_publish
         /\ allowlist = {} => allowlist' = {<<d, Alice>>}
<1> DEFINE dom == domains[d]
           added == {a \in {Alice} : <<d, a>> \notin allowlist}
           count == ticket_count(dom) + Cardinality(added)
           new == update_ticket(dom, count)
<1>1. EntryOK(dom) /\ EntryTyped(dom) BY StoredEntry
<1>2. /\ allowlist' = allowlist \cup {<<d, a>> : a \in added}
      /\ set_domain(d, new)
  BY DEF allowlist_proof_submitters
<1>3. added \in SUBSET Accounts BY TestAssumption
<1>4. allowlist = {} => added = {Alice} OBVIOUS
<1> HIDE DEF added
<1>5. count \in Nat BY <1>1, <1>3, CountTyped
<1> HIDE DEF count
<1>6. SameTerms(dom, new) /\ SameQueue(dom, new) BY <1>1, <1>5, TicketOK
<1> HIDE DEF new
<1>7. d \in DOMAIN domains' /\ domains'[d] = new BY <1>2 DEF set_domain
<1> QED BY <1>2, <1>4, <1>6, <1>7 DEF SameQueue

LEMMA RemoveDetail ==
  ASSUME IInv, NEW d \in DOMAIN domains, remove_proof_submitters(Bob, d, {Alice})
  PROVE  /\ d \in DOMAIN domains' /\ SameTerms(domains[d], domains'[d])
         /\ domains'[d].next = domains[d].next
         /\ domains'[d].should_publish = domains[d].should_publish
         /\ allowlist = {<<d, Alice>>} => allowlist' = {}
<1> DEFINE dom == domains[d]
           removed == {a \in {Alice} : <<d, a>> \in allowlist}
           count == ticket_count(dom) - Cardinality(removed)
           ticketed == update_ticket(dom, count)
           new == handle_hold_state(d, ticketed, allowlist')
<1>1. EntryOK(dom) /\ EntryTyped(dom) BY StoredEntry
<1>2. /\ allowlist' = allowlist \ {<<d, a>> : a \in removed}
      /\ dom.ticket_allowlist # None => count >= 0
      /\ set_domain(d, new)
  BY DEF remove_proof_submitters
<1>3. removed \in SUBSET Accounts BY TestAssumption
<1>4. allowlist = {<<d, Alice>>} => removed = {Alice} OBVIOUS
<1> HIDE DEF removed
<1>5. dom.ticket_allowlist # None => count \in Nat
  <2>1. ticket_count(dom) \in Nat /\ Cardinality(removed) \in Nat BY <1>1, <1>3, CountTyped
  <2> QED BY <1>2, <2>1
<1> HIDE DEF count
<1>6. EntryOK(ticketed) /\ SameTerms(dom, ticketed) /\ SameQueue(dom, ticketed)
  BY <1>1, <1>5, TicketOK
<1> HIDE DEF ticketed
<1>7. EntryTyped(ticketed) BY <1>6 DEF EntryOK
<1>8. /\ SameTerms(ticketed, new) /\ new.next = ticketed.next
      /\ new.should_publish = ticketed.should_publish
  BY <1>7, HoldTerms, HoldQueue
<1> HIDE DEF new
<1>9. d \in DOMAIN domains' /\ domains'[d] = new BY <1>2 DEF set_domain
<1>10. allowlist = {<<d, Alice>>} => allowlist' = {} BY <1>2, <1>4
<1> QED BY <1>6, <1>8, <1>9, <1>10 DEF SameQueue, SameTerms

(* The ids that completed with a proof: none, or the one. *)
LEMMA NoneCompleted == SetToSeq({}) = <<>>
<1>1. Cardinality({}) = 0 BY FS_EmptySet
<1> DEFINE f == SetToSeq({})
<1>2. \E g \in [1 .. 0 -> {}] : IsInjective(g)
  <2>1. <<>> \in [1 .. 0 -> {}] /\ IsInjective(<<>>) BY DEF IsInjective
  <2> QED BY <2>1
<1>3. f \in [1 .. 0 -> {}] BY <1>1, <1>2 DEF SetToSeq
<1> HIDE DEF f
<1>4. f = <<>> BY <1>3
<1> QED BY <1>4 DEF f

LEMMA OneCompleted ==
  ASSUME NEW i
  PROVE  SetToSeq({i}) = <<i>>
<1>1. Cardinality({i}) = 1 BY FS_Singleton
<1> DEFINE f == SetToSeq({i})
<1>2. \E g \in [1 .. 1 -> {i}] : IsInjective(g)
  <2>1. [k \in 1 .. 1 |-> i] \in [1 .. 1 -> {i}] /\ IsInjective([k \in 1 .. 1 |-> i]) BY DEF IsInjective
  <2> QED BY <2>1
<1>3. f \in [1 .. 1 -> {i}] BY <1>1, <1>2 DEF SetToSeq
<1> HIDE DEF f
<1>4. f = <<i>> BY <1>3
<1> QED BY <1>4 DEF f

(* The allowlist holds Alice between the two calls that change it. *)
ListAt == allowlist = IF at \in N + 23 .. N + 25 THEN {<<3, Alice>>} ELSE {}

(* The first domain belongs to Bob and is open. *)
BobsFirst == 0 \in DOMAIN domains /\ domains[0].owner = Bob /\ domains[0].state = "Ready"

(* While the proofs are sent: as many at most as were sent have joined the *)
(* aggregation, and if all of them have, it lists them in order.           *)
Filling ==
  LET dom == domains[0]
  IN  /\ dom.next.id = 1 /\ dom.next.size = N /\ DOMAIN dom.should_publish = {}
      /\ Len(dom.next.statements) <= at - 4
      /\ Len(dom.next.statements) = at - 4 =>
           \A j \in 1 .. at - 4 : dom.next.statements[j].statement = verifiers[j]

FillAt ==
  /\ at <= N + 3 => complete = <<>>
  /\ at \in 4 .. N + 3 => Filling

(* All of them are in the aggregation that waits, then in its receipt. *)
FullAt ==
  /\ at >= N + 4 => complete[1] = 1
  /\ at = N + 4 => /\ domains[0].next.id = 2 /\ 1 \in DOMAIN domains[0].should_publish
                   /\ StatementsOf(domains[0].should_publish[1]) = verifiers
  /\ at >= N + 5 => <<0, 1>> \in DOMAIN receipts /\ receipts[<<0, 1>>] = verifiers

ZeroAt ==
  /\ at \in 4 .. N + 8 => BobsFirst
  /\ at >= N + 11 => 0 \notin DOMAIN domains

OneAt == at >= N + 16 => 1 \in DOMAIN domains /\ domains[1].state = "Removable"

Blank(d) ==
  /\ d \in DOMAIN domains /\ domains[d].should_publish = <<>> /\ domains[d].next.id = 1
  /\ domains[d].next.statements = <<>> /\ domains[d].next.size = 4

TwoAt ==
  /\ at \in N + 17 .. N + 18 => Blank(2)
  /\ at >= N + 19 => OnlyStatementOf(2, Bob)

Restricted(d) == d \in DOMAIN domains /\ domains[d].proof_rules = "OnlyAllowlisted"

ThreeAt ==
  /\ at \in N + 20 .. N + 24 => Restricted(3)
  /\ at \in {N + 20, N + 22, N + 23} => Blank(3)
  /\ at \in {N + 21, N + 24} /\ err1 = "Ok" => Blank(3)
  /\ at >= N + 25 => OnlyStatementOf(3, Alice)

Stage == IdsAt /\ ListAt /\ FillAt /\ FullAt /\ ZeroAt /\ OneAt /\ TwoAt /\ ThreeAt


(***************************************************************************)
(* A step after which the test goes on, and what it leaves alone.          *)
(***************************************************************************)
Checked == at = N + 5 /\ UNCHANGED vars /\ Unheard

Moving(c) ==
  /\ IInv /\ Verifiers /\ at \in 1 .. N + 25 /\ Stage
  /\ c = run[at] /\ TargetAt(c) /\ OpAt(c) /\ ArgsAt(c)
  /\ verifiers' = verifiers /\ at' = at + 1
  /\ Checked \/ Did(c) \/ Declined(c) \/ Refused(c) \/ AnswerLost(c)

LEMMA Facts ==
  ASSUME NEW c, Moving(c)
  PROVE  /\ N \in Nat \ {0} /\ N \in Nat /\ N' = N /\ DOMAIN verifiers = 1 .. N /\ at \in Nat
         /\ at' = at + 1 /\ at \in 1 .. N + 25
         /\ UNCHANGED vars \/ effect(c)
         /\ at \notin {N + 5, N + 6, N + 7, N + 8} => Did(c) \/ Declined(c)
         /\ at \in {N + 5, N + 6, N + 7, N + 8} => Unheard
         /\ at \notin {N + 5, N + 6, N + 7, N + 8} /\ c.op # "submit" => Did(c)
         /\ at >= N + 4 => complete' = complete
         /\ IInv' /\ DomainAdvances
<1>1. N \in Nat \ {0} /\ DOMAIN verifiers = 1 .. N BY VerifiersFacts DEF Moving
<1>2. N' = N BY DEF Moving, N
<1>3. UNCHANGED vars \/ effect(c) BY DEF Moving, Checked, Did, Declined, Refused, AnswerLost
<1>4. /\ at \notin {N + 5, N + 6, N + 7, N + 8} => Did(c) \/ Declined(c)
      /\ at \notin {N + 5, N + 6, N + 7, N + 8} /\ c.op # "submit" => Did(c)
      /\ at \in {N + 5, N + 6, N + 7, N + 8} => Unheard
  <2>1. c.expect = "refused" <=> at \in {N + 6, N + 7, N + 8} BY DEF Moving, OpAt
  <2>2. Checked => at = N + 5 /\ Unheard BY DEF Checked
  <2>3. Refused(c) \/ AnswerLost(c) => c.expect = "refused" /\ Unheard BY DEF Refused, AnswerLost
  <2>4. Declined(c) => c.op = "submit" BY DEF Declined
  <2>5. Did(c) => c.expect # "refused" BY DEF Did, Expected
  <2>6. at = N + 5 => ~ Did(c) /\ ~ Declined(c)
    <3>1. at = N + 5 => c.op = "paths" BY DEF Moving, OpAt
    <3>2. c.op = "paths" => ~ effect(c) /\ c.op # "submit" BY DEF effect
    <3> QED BY <3>1, <3>2 DEF Did, Declined
  <2>7. c.op = "submit" => c.expect # "refused" \/ ~ Declined(c)
    BY DEF Declined, Expected
  <2> QED BY <1>1, <2>1, <2>2, <2>3, <2>4, <2>5, <2>6, <2>7 DEF Moving
<1>5. at >= N + 4 => complete' = complete
  <2>1. at >= N + 4 => c.expect # "verified" BY <1>1 DEF Moving, OpAt
  <2>2. c.expect # "verified" => (Did(c) \/ Declined(c) => complete' = complete)
    BY DEF Did, Declined, note
  <2>3. Unheard => complete' = complete BY DEF Unheard
  <2> QED BY <1>4, <2>1, <2>2, <2>3
<1>6. IInv' /\ DomainAdvances
  <2>1. IInv /\ ArgsAt(c) BY DEF Moving
  <2>2. effect(c) => [Next]_vars BY <2>1, EffectIsStep
  <2> QED BY <1>3, <2>1, <2>2, StepInv
<1> QED BY <1>1, <1>2, <1>3, <1>4, <1>5, <1>6 DEF Moving

LEMMA KeptAt ==
  ASSUME NEW c, Moving(c), NEW i \in 0 .. 3,
         i = 0 => at \notin 3 .. N + 11, i = 1 => at \notin N + 12 .. N + 15,
         i = 2 => at \notin N + 16 .. N + 18, i = 3 => at \notin N + 19 .. N + 25
  PROVE  Keeps(i)
<1>1. N \in Nat \ {0} /\ N \in Nat /\ at \in 1 .. N + 25 /\ (UNCHANGED vars \/ effect(c)) BY Facts
<1>2. CASE UNCHANGED vars BY <1>2 DEF Keeps, vars
<1>3. CASE effect(c)
  <2>0. TargetAt(c) /\ OpAt(c) /\ IdsAt BY DEF Moving, Stage
  <2>1. ASSUME c.op = "register" PROVE i # next_domain_id
    <3>1. at \in {3, N + 12, N + 16, N + 19} BY <2>0, <2>1 DEF OpAt
    <3> QED BY <1>1, <2>0, <3>1 DEF IdsAt
  <2>2. ASSUME c.op \notin {"external", "register"} PROVE i # domain(c)
    <3>1. at \notin {1, 2, 3, N + 12, N + 16, N + 19} BY <2>0, <2>2 DEF OpAt
    <3>2. at # N + 5 BY <1>3, <2>0 DEF OpAt, effect
    <3> QED BY <1>1, <2>0, <3>1, <3>2 DEF TargetAt
  <2> QED BY <1>3, <2>1, <2>2, EffectKeeps
<1> QED BY <1>1, <1>2, <1>3

LEMMA IdsOn ==
  ASSUME NEW c, Moving(c)
  PROVE  IdsAt'
<1>1. N \in Nat \ {0} /\ N \in Nat /\ N' = N /\ at \in 1 .. N + 25 /\ at' = at + 1 BY Facts
<1>0. OpAt(c) /\ IdsAt BY DEF Moving, Stage
<1>2. CASE at \in {3, N + 12, N + 16, N + 19}
  <2>1. c.op = "register" BY <1>0, <1>2 DEF OpAt
  <2>2. Did(c)
    <3>1. at \notin {N + 5, N + 6, N + 7, N + 8} BY <1>1, <1>2
    <3> QED BY <2>1, <3>1, Facts
  <2>3. ids' = Append(ids, next_domain_id) /\ next_domain_id' = next_domain_id + 1
    BY <2>1, <2>2, EffectFrame DEF Did, note
  <2>4. next_domain_id \in Nat /\ ids \in Seq(Nat) /\ Len(ids) = next_domain_id
        /\ \A k \in 1 .. next_domain_id : ids[k] = k - 1
    BY <1>0, <1>1 DEF IdsAt
  <2>5. /\ ids' \in Seq(Nat) /\ Len(ids') = next_domain_id'
        /\ \A k \in 1 .. next_domain_id' : ids'[k] = k - 1
    <3>1. PICK n, s : n = next_domain_id /\ s = ids OBVIOUS
    <3>2. s \in Seq(Nat) /\ Len(s) = n /\ n \in Nat /\ \A k \in 1 .. n : s[k] = k - 1 BY <2>4, <3>1
    <3>3. Append(s, n) \in Seq(Nat) /\ Len(Append(s, n)) = n + 1
          /\ \A k \in 1 .. n + 1 : Append(s, n)[k] = IF k = n + 1 THEN n ELSE s[k]
      BY <3>2
    <3>4. \A k \in 1 .. n + 1 : Append(s, n)[k] = k - 1 BY <3>2, <3>3
    <3> QED BY <2>3, <3>1, <3>3, <3>4
  <2>6. next_domain_id' = IF at' <= 3 THEN 0 ELSE IF at' <= N + 12 THEN 1
                      ELSE IF at' <= N + 16 THEN 2 ELSE IF at' <= N + 19 THEN 3 ELSE 4
    BY <1>0, <1>1, <1>2, <2>3 DEF IdsAt
  <2> QED BY <1>1, <2>5, <2>6 DEF IdsAt
<1>3. CASE at \notin {3, N + 12, N + 16, N + 19}
  <2>1. c.op # "register" BY <1>0, <1>3 DEF OpAt
  <2>2. ids' = ids
    <3>1. Did(c) \/ Declined(c) => ids' = ids BY <2>1 DEF Did, Declined, note
    <3> QED BY <3>1, Facts DEF Unheard
  <2>3. next_domain_id' = next_domain_id
    <3>1. effect(c) => next_domain_id' = next_domain_id BY <2>1, EffectFrame
    <3> QED BY <3>1, Facts DEF vars
  <2>4. next_domain_id' = IF at' <= 3 THEN 0 ELSE IF at' <= N + 12 THEN 1
                      ELSE IF at' <= N + 16 THEN 2 ELSE IF at' <= N + 19 THEN 3 ELSE 4
    BY <1>0, <1>1, <1>3, <2>3 DEF IdsAt
  <2> QED BY <1>0, <1>1, <2>2, <2>3, <2>4 DEF IdsAt
<1> QED BY <1>2, <1>3

LEMMA ListOn ==
  ASSUME NEW c, Moving(c)
  PROVE  ListAt'
<1>1. N \in Nat \ {0} /\ N \in Nat /\ N' = N /\ at \in 1 .. N + 25 /\ at' = at + 1 BY Facts
<1>0. OpAt(c) /\ ListAt /\ TargetAt(c) /\ IInv /\ ArgsAt(c) /\ c = run[at] BY DEF Moving, Stage
<1>a. DOMAIN verifiers = 1 .. N BY Facts
<1>2. CASE at = N + 22
  <2>1. c.op = "allow" /\ c.who = Bob BY <1>0, <1>1, <1>2, <1>a, RunCalls DEF IsCall
  <2>2. Did(c) BY <1>1, <1>2, <2>1, Facts
  <2>3. domain(c) = 3 BY <1>0, <1>1, <1>2 DEF TargetAt
  <2>4. 3 \in DOMAIN domains /\ allowlist_proof_submitters(Bob, 3, {Alice})
    BY <2>1, <2>2, <2>3 DEF Did, effect
  <2>5. allowlist = {} BY <1>0, <1>1, <1>2 DEF ListAt
  <2>6. allowlist' = {<<3, Alice>>} BY <1>0, <2>4, <2>5, AllowDetail
  <2> QED BY <1>1, <1>2, <2>6 DEF ListAt
<1>3. CASE at = N + 25
  <2>1. c.op = "remove" /\ c.who = Bob BY <1>0, <1>1, <1>3, <1>a, RunCalls DEF IsCall
  <2>2. Did(c) BY <1>1, <1>3, <2>1, Facts
  <2>3. domain(c) = 3 BY <1>0, <1>1, <1>3 DEF TargetAt
  <2>4. 3 \in DOMAIN domains /\ remove_proof_submitters(Bob, 3, {Alice})
    BY <2>1, <2>2, <2>3 DEF Did, effect
  <2>5. allowlist = {<<3, Alice>>} BY <1>0, <1>1, <1>3 DEF ListAt
  <2>6. allowlist' = {} BY <1>0, <2>4, <2>5, RemoveDetail
  <2> QED BY <1>1, <1>3, <2>6 DEF ListAt
<1>4. CASE at # N + 22 /\ at # N + 25
  <2>1. c.op \notin {"allow", "remove"} BY <1>0, <1>4 DEF OpAt
  <2>2. allowlist' = allowlist
    <3>1. effect(c) => allowlist' = allowlist BY <2>1, EffectFrame
    <3> QED BY <3>1, Facts DEF vars
  <2> QED BY <1>0, <1>1, <1>4, <2>2 DEF ListAt
<1> QED BY <1>2, <1>3, <1>4

LEMMA KeptFacts ==
  ASSUME NEW i, Keeps(i)
  PROVE  /\ Blank(i) => Blank(i)'
         /\ \A a : OnlyStatementOf(i, a) => OnlyStatementOf(i, a)'
         /\ i \in DOMAIN domains => i \in DOMAIN domains' /\ domains'[i] = domains[i]
         /\ i \notin DOMAIN domains => i \notin DOMAIN domains'
BY DEF Keeps, Blank, OnlyStatementOf

(* The first proof of a blank domain is its only one. *)
LEMMA OneStatement ==
  ASSUME IInv, NEW d, Blank(d), NEW a \in Accounts, NEW s \in Statements,
         on_proof_verified(a, d, s, CallFee)
  PROVE  OnlyStatementOf(d, a)'
<1>1. d \in DOMAIN domains /\ domains[d].next.id < U64Max
  BY TestAssumption, ConfigAssumption DEF Blank
<1>2. d \in DOMAIN domains' BY <1>1, SubmitDetail
<1>3. PICK e \in StatementEntry : e.account = a /\ Queued(domains[d], domains'[d], e)
  BY <1>1, SubmitDetail
<1>4. Joined(domains[d], domains'[d], e)
  <2>1. Len(domains[d].next.statements) + 1 < domains[d].next.size BY DEF Blank
  <2> QED BY <1>3, <2>1 DEF Queued
<1>5. domains'[d].should_publish = <<>> /\ domains'[d].next.statements = <<e>>
  BY <1>4 DEF Joined, Blank
<1>6. PICK q : q = domains'[d].next.statements OBVIOUS
<1>7. [i \in DOMAIN q |-> q[i].account] = <<a>>
  <2>1. q = <<e>> BY <1>5, <1>6
  <2>2. DOMAIN q = 1 .. 1 /\ q[1] = e BY <2>1
  <2> QED BY <1>3, <2>2
<1> QED BY <1>2, <1>5, <1>6, <1>7 DEF OnlyStatementOf

LEMMA FreshIsBlank ==
  ASSUME NEW d, NEW reg, Fresh(d, reg), reg.aggregation_size = 4
  PROVE  Blank(d)'
BY DEF Fresh, Blank, AggregationCreate

LEMMA ProofOf ==
  ASSUME NEW c, Moving(c), c.op = "submit", effect(c)
  PROVE  /\ domain(c) \in DOMAIN domains /\ c.who \in Accounts /\ c.statement \in Statements
         /\ on_proof_verified(c.who, domain(c), c.statement, CallFee)
BY TestAssumption DEF Moving, ArgsAt, effect

LEMMA OneOn ==
  ASSUME NEW c, Moving(c)
  PROVE  OneAt'
<1>1. N \in Nat \ {0} /\ N \in Nat /\ N' = N /\ at \in 1 .. N + 25 /\ at' = at + 1 BY Facts
<1>2. OneAt /\ TargetAt(c) /\ c = run[at] BY DEF Moving, Stage
<1>a. DOMAIN verifiers = 1 .. N BY Facts
<1>3. CASE at = N + 15
  <2>1. c.op = "aggregate" /\ c.expect = "Removable" BY <1>1, <1>2, <1>3, <1>a, RunCalls DEF IsCall
  <2>2. Did(c) BY <1>1, <1>3, <2>1, Facts
  <2>3. domain(c) = 1 BY <1>1, <1>2, <1>3 DEF TargetAt
  <2>4. DomainStateChanged(c) = "Removable" BY <2>1, <2>2 DEF Did, Expected, NewState
  <2>5. 1 \in DOMAIN domains' /\ domains'[1].state = "Removable" BY <2>3, <2>4 DEF DomainStateChanged
  <2> QED BY <2>5 DEF OneAt
<1>4. CASE at >= N + 16
  <2>1. Keeps(1) BY <1>1, <1>4, KeptAt
  <2> QED BY <1>1, <1>2, <1>4, <2>1, KeptFacts DEF OneAt
<1>5. CASE at < N + 15 BY <1>1, <1>5 DEF OneAt
<1> QED BY <1>1, <1>3, <1>4, <1>5

LEMMA TwoOn ==
  ASSUME NEW c, Moving(c)
  PROVE  TwoAt'
<1>1. N \in Nat \ {0} /\ N \in Nat /\ N' = N /\ at \in 1 .. N + 25 /\ at' = at + 1 BY Facts
<1>2. TwoAt /\ TargetAt(c) /\ c = run[at] /\ IInv /\ IdsAt BY DEF Moving, Stage
<1>a. DOMAIN verifiers = 1 .. N BY Facts
<1>3. CASE at = N + 16
  <2>1. IsRegister(c, Register(4, 8, "OnlyOwner")) BY <1>1, <1>2, <1>3, <1>a, RunCalls
  <2>2. c.op = "register" /\ c.who = Bob /\ c.reg = Register(4, 8, "OnlyOwner") BY <2>1 DEF IsRegister
  <2>3. Did(c) BY <1>1, <1>3, <2>2, Facts
  <2>4. register_domain(Bob, c.reg) BY <2>2, <2>3 DEF Did, effect
  <2>5. next_domain_id = 2 BY <1>1, <1>2, <1>3 DEF IdsAt
  <2>6. Fresh(2, c.reg) BY <2>4, <2>5, RegisterDetail
  <2>7. c.reg.aggregation_size = 4 BY <2>2 DEF Register
  <2>8. Blank(2)' BY <2>6, <2>7, FreshIsBlank
  <2> QED BY <1>1, <1>3, <2>8 DEF TwoAt
<1>4. CASE at = N + 17
  <2>1. IsSubmit(c, 1, Alice, 3, "no_proof", "ErrProofFromInvalidSubmitter")
    BY <1>1, <1>2, <1>4, <1>a, RunCalls
  <2>2. c.expect = "no_proof" BY <2>1 DEF IsSubmit, IsCall
  <2>3. Declined(c)
    <3>1. ~ Did(c) BY <2>2 DEF Did, Expected
    <3> QED BY <1>1, <1>4, <3>1, Facts
  <2>4. domains' = domains BY <2>3 DEF Declined, vars
  <2>5. Blank(2) BY <1>1, <1>2, <1>4 DEF TwoAt
  <2>6. Blank(2)' BY <2>4, <2>5 DEF Blank
  <2> QED BY <1>1, <1>4, <2>6 DEF TwoAt
<1>5. CASE at = N + 18
  <2>1. IsSubmit(c, 1, Bob, 3, "proof", "ErrProofFromValidSubmitter")
    BY <1>1, <1>2, <1>5, <1>a, RunCalls
  <2>2. c.expect = "proof" /\ c.op = "submit" /\ c.who = Bob BY <2>1 DEF IsSubmit, IsCall
  <2>3. Did(c)
    <3>1. ~ Declined(c) BY <2>2 DEF Declined, Expected
    <3> QED BY <1>1, <1>5, <3>1, Facts
  <2>4. domain(c) = 2 BY <1>1, <1>2, <1>5 DEF TargetAt
  <2>5. effect(c) BY <2>3 DEF Did
  <2>6. Bob \in Accounts /\ c.statement \in Statements
        /\ on_proof_verified(Bob, 2, c.statement, CallFee)
    BY <2>2, <2>4, <2>5, ProofOf
  <2>7. Blank(2) BY <1>1, <1>2, <1>5 DEF TwoAt
  <2>8. OnlyStatementOf(2, Bob)' BY <1>2, <2>6, <2>7, OneStatement
  <2> QED BY <1>1, <1>5, <2>8 DEF TwoAt
<1>6. CASE at >= N + 19
  <2>1. Keeps(2) BY <1>1, <1>6, KeptAt
  <2>2. OnlyStatementOf(2, Bob) BY <1>1, <1>2, <1>6 DEF TwoAt
  <2>3. OnlyStatementOf(2, Bob)' BY <2>1, <2>2, KeptFacts
  <2> QED BY <1>1, <1>6, <2>3 DEF TwoAt
<1>7. CASE at < N + 16 BY <1>1, <1>7 DEF TwoAt
<1> QED BY <1>1, <1>3, <1>4, <1>5, <1>6, <1>7

(* A call that does not remove a domain leaves its rules alone. *)
LEMMA ListedOn ==
  ASSUME NEW c, Moving(c), Restricted(3), at \in N + 20 .. N + 24
  PROVE  Restricted(3)'
<1>1. N \in Nat \ {0} /\ N \in Nat /\ at \in Nat /\ DomainAdvances /\ (UNCHANGED vars \/ effect(c)) BY Facts
<1>2. CASE UNCHANGED vars BY <1>2 DEF Restricted, vars
<1>3. CASE effect(c)
  <2>0. OpAt(c) /\ TargetAt(c) /\ ArgsAt(c) /\ IInv /\ c = run[at] /\ DOMAIN verifiers = 1 .. N
    BY Facts DEF Moving
  <2>1. domain(c) = 3 BY <1>1, <2>0 DEF TargetAt
  <2>2. c.op \in {"submit", "allow"}
    <3>1. CASE at = N + 22 BY <2>0, <3>1 DEF OpAt
    <3>2. CASE at = N + 20
      <4>1. IsSubmit(run[N + 20], 1, Alice, 4, "first_no_proof", "ErrProofFromInvalidSubmitter") BY <1>1, <2>0, RunCalls
      <4> QED BY <2>0, <3>2, <4>1 DEF IsSubmit, IsCall
    <3>3. CASE at = N + 21
      <4>1. IsSubmit(run[N + 21], 1, Bob, 4, "then_no_proof", "ErrProofFromInvalidSubmitter") BY <1>1, <2>0, RunCalls
      <4> QED BY <2>0, <3>3, <4>1 DEF IsSubmit, IsCall
    <3>4. CASE at = N + 23
      <4>1. IsSubmit(run[N + 23], 1, Bob, 4, "first_no_proof", "ErrProofFromInvalidSubmitter") BY <1>1, <2>0, RunCalls
      <4> QED BY <2>0, <3>4, <4>1 DEF IsSubmit, IsCall
    <3>5. CASE at = N + 24
      <4>1. IsSubmit(run[N + 24], 1, Alice, 4, "then_proof", "ErrProofFromInvalidSubmitter") BY <1>1, <2>0, RunCalls
      <4> QED BY <2>0, <3>5, <4>1 DEF IsSubmit, IsCall
    <3> QED BY <1>1, <3>1, <3>2, <3>3, <3>4, <3>5
  <2>3. \/ \E s : on_proof_verified(c.who, 3, s, CallFee)
        \/ \E s : allowlist_proof_submitters(c.who, 3, s)
    BY <1>3, <2>1, <2>2 DEF effect
  <2>4. \E new : set_domain(3, new)
    <3>1. ASSUME \E s : on_proof_verified(c.who, 3, s, CallFee) PROVE \E new : set_domain(3, new)
      BY <3>1 DEF on_proof_verified
    <3>2. ASSUME \E s : allowlist_proof_submitters(c.who, 3, s) PROVE \E new : set_domain(3, new)
      BY <3>2 DEF allowlist_proof_submitters
    <3> QED BY <2>3, <3>1, <3>2
  <2>5. 3 \in DOMAIN domains' BY <2>4 DEF set_domain
  <2> QED BY <1>1, <2>5 DEF DomainAdvances, Restricted
<1> QED BY <1>1, <1>2, <1>3

LEMMA ThreeOn ==
  ASSUME NEW c, Moving(c)
  PROVE  ThreeAt'
<1>1. N \in Nat \ {0} /\ N \in Nat /\ N' = N /\ at \in 1 .. N + 25 /\ at' = at + 1 BY Facts
<1>2. ThreeAt /\ TargetAt(c) /\ c = run[at] /\ IInv /\ IdsAt BY DEF Moving, Stage
<1>a. DOMAIN verifiers = 1 .. N BY Facts
<1>b. at \in N + 20 .. N + 23 => Restricted(3)' BY <1>1, <1>2, ListedOn DEF ThreeAt
<1>3. CASE at = N + 19
  <2>1. IsRegister(c, Register(4, 8, "OnlyAllowlisted")) BY <1>1, <1>2, <1>3, <1>a, RunCalls
  <2>2. c.op = "register" /\ c.who = Bob /\ c.reg = Register(4, 8, "OnlyAllowlisted")
    BY <2>1 DEF IsRegister
  <2>3. Did(c) BY <1>1, <1>3, <2>2, Facts
  <2>4. register_domain(Bob, c.reg) BY <2>2, <2>3 DEF Did, effect
  <2>5. next_domain_id = 3 BY <1>1, <1>2, <1>3 DEF IdsAt
  <2>6. Fresh(3, c.reg) BY <2>4, <2>5, RegisterDetail
  <2>7. c.reg.aggregation_size = 4 /\ c.reg.proof_rules = "OnlyAllowlisted" BY <2>2 DEF Register
  <2>8. Blank(3)' /\ Restricted(3)' BY <2>6, <2>7, FreshIsBlank DEF Fresh, Restricted
  <2> QED BY <1>1, <1>3, <2>8 DEF ThreeAt
<1>4. CASE at = N + 20 \/ at = N + 23
  <2>1. c.expect = "first_no_proof"
    <3>1. \/ IsSubmit(c, 1, Alice, 4, "first_no_proof", "ErrProofFromInvalidSubmitter")
          \/ IsSubmit(c, 1, Bob, 4, "first_no_proof", "ErrProofFromInvalidSubmitter")
      <4>1. CASE at = N + 20 BY <1>1, <1>2, <1>a, <4>1, RunCalls
      <4>2. CASE at = N + 23 BY <1>1, <1>2, <1>a, <4>2, RunCalls
      <4> QED BY <1>4, <4>1, <4>2
    <3> QED BY <3>1 DEF IsSubmit, IsCall
  <2>2. Did(c) \/ Declined(c) BY <1>1, <1>4, Facts
  <2>3. Declined(c) => domains' = domains BY DEF Declined, vars
  <2>4. Did(c) => err1' # "Ok" BY <2>1 DEF Did, Err1
  <2>5. Blank(3) BY <1>1, <1>2, <1>4 DEF ThreeAt
  <2>6. err1' = "Ok" => Blank(3)' BY <2>2, <2>3, <2>4, <2>5 DEF Blank
  <2> QED BY <1>1, <1>4, <1>b, <2>6 DEF ThreeAt
<1>5. CASE at = N + 21
  <2>1. IsSubmit(c, 1, Bob, 4, "then_no_proof", "ErrProofFromInvalidSubmitter")
    BY <1>1, <1>2, <1>5, <1>a, RunCalls
  <2>2. c.expect = "then_no_proof" BY <2>1 DEF IsSubmit, IsCall
  <2>3. Declined(c)
    <3>1. ~ Did(c) BY <2>2 DEF Did, Expected
    <3> QED BY <1>1, <1>5, <3>1, Facts
  <2>4. domains' = domains /\ err1 = "Ok" BY <2>2, <2>3 DEF Declined, Expected, vars
  <2>5. Blank(3) BY <1>1, <1>2, <1>5, <2>4 DEF ThreeAt
  <2>6. Blank(3)' BY <2>4, <2>5 DEF Blank
  <2> QED BY <1>1, <1>5, <1>b, <2>6 DEF ThreeAt
<1>6. CASE at = N + 22
  <2>1. c.op = "allow" /\ c.who = Bob BY <1>1, <1>2, <1>6, <1>a, RunCalls DEF IsCall
  <2>2. Did(c) BY <1>1, <1>6, <2>1, Facts
  <2>3. domain(c) = 3 BY <1>1, <1>2, <1>6 DEF TargetAt
  <2>4. 3 \in DOMAIN domains /\ allowlist_proof_submitters(Bob, 3, {Alice})
    BY <2>1, <2>2, <2>3 DEF Did, effect
  <2>5. Blank(3) BY <1>1, <1>2, <1>6 DEF ThreeAt
  <2>6. Blank(3)' BY <1>2, <2>4, <2>5, AllowDetail DEF Blank
  <2> QED BY <1>1, <1>6, <1>b, <2>6 DEF ThreeAt
<1>7. CASE at = N + 24
  <2>1. IsSubmit(c, 1, Alice, 4, "then_proof", "ErrProofFromInvalidSubmitter")
    BY <1>1, <1>2, <1>7, <1>a, RunCalls
  <2>2. c.expect = "then_proof" /\ c.op = "submit" /\ c.who = Alice BY <2>1 DEF IsSubmit, IsCall
  <2>3. Did(c)
    <3>1. ~ Declined(c) BY <2>2 DEF Declined, Expected
    <3> QED BY <1>1, <1>7, <3>1, Facts
  <2>4. domain(c) = 3 BY <1>1, <1>2, <1>7 DEF TargetAt
  <2>5. effect(c) /\ err1 = "Ok" BY <2>2, <2>3 DEF Did, Expected
  <2>6. Alice \in Accounts /\ c.statement \in Statements
        /\ on_proof_verified(Alice, 3, c.statement, CallFee)
    BY <2>2, <2>4, <2>5, ProofOf
  <2>7. Blank(3) BY <1>1, <1>2, <1>7, <2>5 DEF ThreeAt
  <2>8. OnlyStatementOf(3, Alice)' BY <1>2, <2>6, <2>7, OneStatement
  <2> QED BY <1>1, <1>7, <2>8 DEF ThreeAt
<1>8. CASE at = N + 25
  <2>1. c.op = "remove" /\ c.who = Bob BY <1>1, <1>2, <1>8, <1>a, RunCalls DEF IsCall
  <2>2. Did(c) BY <1>1, <1>8, <2>1, Facts
  <2>3. domain(c) = 3 BY <1>1, <1>2, <1>8 DEF TargetAt
  <2>4. 3 \in DOMAIN domains /\ remove_proof_submitters(Bob, 3, {Alice})
    BY <2>1, <2>2, <2>3 DEF Did, effect
  <2>5. OnlyStatementOf(3, Alice) BY <1>1, <1>2, <1>8 DEF ThreeAt
  <2>6. OnlyStatementOf(3, Alice)' BY <1>2, <2>4, <2>5, RemoveDetail DEF OnlyStatementOf
  <2> QED BY <1>1, <1>8, <2>6 DEF ThreeAt
<1>9. CASE at < N + 19 BY <1>1, <1>9 DEF ThreeAt
<1> QED BY <1>1, <1>3, <1>4, <1>5, <1>6, <1>7, <1>8, <1>9

(***************************************************************************)
(* The first domain: it fills, is published, put on hold and removed.      *)
(***************************************************************************)
(* The calls that must be refused are: Alice is not the owner, and an open *)
(* domain cannot be unregistered.                                          *)
LEMMA RefusedHere ==
  ASSUME NEW c, Moving(c), at \in {N + 6, N + 7, N + 8}
  PROVE  ~ effect(c)
<1>0. c = run[at] BY DEF Moving
<1>1. N \in Nat \ {0} /\ N \in Nat /\ at \in Nat /\ DOMAIN verifiers = 1 .. N BY Facts
<1>2. BobsFirst /\ domain(c) = 0 BY <1>1 DEF Moving, Stage, ZeroAt, TargetAt
<1>3. domains[0].owner = Bob /\ domains[0].state = "Ready" BY <1>2 DEF BobsFirst
<1>4. Alice # Bob /\ Alice # Manager BY TestAssumption, ConfigAssumption
<1>5. CASE at = N + 6
  <2>1. c.op = "unregister" BY <1>0, <1>1, <1>5, RunCalls DEF IsCall
  <2>2. effect(c) => unregister_domain(c.who, 0) BY <1>2, <2>1 DEF effect
  <2> QED BY <1>3, <2>2 DEF unregister_domain
<1>6. CASE at = N + 7
  <2>1. c.op = "hold" /\ c.who = Alice BY <1>0, <1>1, <1>6, RunCalls DEF IsCall
  <2>2. effect(c) => hold_domain(Alice, 0) BY <1>2, <2>1 DEF effect
  <2> QED BY <1>3, <1>4, <2>2 DEF hold_domain, can_handle_domain
<1>7. CASE at = N + 8
  <2>1. c.op = "unregister" BY <1>0, <1>1, <1>7, RunCalls DEF IsCall
  <2>2. effect(c) => unregister_domain(c.who, 0) BY <1>2, <2>1 DEF effect
  <2> QED BY <1>3, <2>2 DEF unregister_domain
<1> QED BY <1>5, <1>6, <1>7

LEMMA RegisterFirst ==
  ASSUME NEW c, Moving(c), at = 3
  PROVE  Fresh(0, Register(N, None, "Untrusted")) /\ complete' = <<>>
<1>1. N \in Nat \ {0} /\ N \in Nat /\ DOMAIN verifiers = 1 .. N BY Facts
<1>2. c = run[at] /\ IdsAt /\ FillAt BY DEF Moving, Stage
<1>3. IsRegister(c, Register(N, None, "Untrusted")) BY <1>1, <1>2, RunCalls
<1>4. c.op = "register" /\ c.who = Bob /\ c.reg = Register(N, None, "Untrusted") /\ c.expect = "events"
  BY <1>3 DEF IsRegister
<1>5. Did(c) BY <1>1, <1>4, Facts
<1>6. register_domain(Bob, c.reg) /\ complete' = complete BY <1>4, <1>5 DEF Did, effect, note
<1>7. next_domain_id = 0 BY <1>1, <1>2 DEF IdsAt
<1>8. complete = <<>> BY <1>1, <1>2 DEF FillAt
<1> QED BY <1>4, <1>6, <1>7, <1>8, RegisterDetail

(* A proof for the first domain while it fills. *)
Sent(c, e) ==
  /\ e.statement = verifiers[at - 3] /\ 0 \in DOMAIN domains'
  /\ Queued(domains[0], domains'[0], e)

LEMMA SendFirst ==
  ASSUME NEW c, Moving(c), at \in 4 .. N + 3, Did(c)
  PROVE  \E e \in StatementEntry : Sent(c, e)
<1>1. N \in Nat \ {0} /\ N \in Nat /\ at \in Nat /\ DOMAIN verifiers = 1 .. N BY Facts
<1>0. c = run[at] BY DEF Moving
<1>2. BobsFirst /\ Filling /\ domain(c) = 0 /\ IInv
  BY <1>1 DEF Moving, Stage, ZeroAt, TargetAt, FillAt
<1>3. PICK k \in 1 .. N : at = k + 3 /\ k = at - 3
  <2>1. at - 3 \in 1 .. N /\ at = (at - 3) + 3 BY <1>1
  <2> QED BY <2>1
<1>4. IsSubmit(c, k, Alice, 1, "verified", "")
  <2>1. c = run[k + 3] BY <1>0, <1>3
  <2> QED BY <1>1, <2>1, RunCalls
<1>5. c.op = "submit" /\ c.statement = verifiers[k] BY <1>4 DEF IsSubmit, IsCall
<1>6. /\ 0 \in DOMAIN domains /\ c.who \in Accounts /\ c.statement \in Statements
      /\ on_proof_verified(c.who, 0, c.statement, CallFee)
  BY <1>2, <1>5, ProofOf DEF Did
<1>7. domains[0].next.id < U64Max BY <1>2, TestAssumption, ConfigAssumption DEF Filling
<1>8. 0 \in DOMAIN domains' BY <1>2, <1>6, <1>7, SubmitDetail
<1>9. PICK e \in StatementEntry : e.statement = c.statement /\ Queued(domains[0], domains'[0], e)
  BY <1>2, <1>6, <1>7, SubmitDetail
<1> QED BY <1>3, <1>5, <1>8, <1>9 DEF Sent

LEMMA TakeFirst ==
  ASSUME NEW c, Moving(c), at = N + 4
  PROVE  /\ BobsFirst'
         /\ <<0, 1>> \in DOMAIN receipts' /\ receipts'[<<0, 1>>] = verifiers
<1>1. N \in Nat \ {0} /\ N \in Nat /\ DOMAIN verifiers = 1 .. N BY Facts
<1>0. c = run[at] BY DEF Moving
<1>2. BobsFirst /\ domain(c) = 0 /\ IInv /\ FullAt
  BY <1>1 DEF Moving, Stage, ZeroAt, TargetAt
<1>3. c.op = "aggregate" /\ c.who = Bob /\ c.expect = "profit" BY <1>0, <1>1, RunCalls DEF IsCall
<1>4. Did(c) BY <1>1, <1>3, Facts
<1>5. complete[1] = 1 /\ domains[0].next.id = 2 /\ StatementsOf(domains[0].should_publish[1]) = verifiers
  BY <1>1, <1>2 DEF FullAt
<1>6. aggregation(c) = 1 BY <1>3, <1>5 DEF aggregation
<1>7. 0 \in DOMAIN domains /\ aggregate(Bob, 0, 1) BY <1>2, <1>3, <1>4, <1>6 DEF Did, effect
<1> QED BY <1>2, <1>5, <1>7, TakeDetail DEF BobsFirst

LEMMA ZeroOn ==
  ASSUME NEW c, Moving(c)
  PROVE  ZeroAt'
<1>1. N \in Nat \ {0} /\ N \in Nat /\ N' = N /\ at \in 1 .. N + 25 /\ at' = at + 1 /\ IInv'
      /\ DOMAIN verifiers = 1 .. N
  BY Facts
<1>2. ZeroAt /\ TargetAt(c) /\ c = run[at] /\ IInv BY DEF Moving, Stage
<1>3. CASE at = 3
  <2>1. BobsFirst' BY <1>3, RegisterFirst DEF Fresh, BobsFirst
  <2> QED BY <1>1, <1>3, <2>1 DEF ZeroAt
<1>4. CASE at \in 4 .. N + 3
  <2>0. BobsFirst BY <1>1, <1>2, <1>4 DEF ZeroAt
  <2>1. BobsFirst'
    <3>1. CASE Did(c)
      <4>1. PICK e \in StatementEntry : Sent(c, e) BY <1>4, <3>1, SendFirst
      <4> QED BY <2>0, <4>1 DEF Sent, Queued, SameTerms, BobsFirst
    <3>2. CASE Declined(c) BY <2>0, <3>2 DEF Declined, vars, BobsFirst
    <3> QED BY <1>1, <1>4, <3>1, <3>2, Facts
  <2> QED BY <1>1, <1>4, <2>1 DEF ZeroAt
<1>5. CASE at = N + 4
  <2>1. BobsFirst' BY <1>5, TakeFirst
  <2> QED BY <1>1, <1>5, <2>1 DEF ZeroAt
<1>6. CASE at \in N + 5 .. N + 7
  <2>0. BobsFirst BY <1>1, <1>2, <1>6 DEF ZeroAt
  <2>1. ~ effect(c)
    <3>1. at = N + 5 => ~ effect(c) BY DEF Moving, OpAt, effect
    <3> QED BY <1>1, <1>6, <3>1, RefusedHere
  <2>2. BobsFirst' BY <2>0, <2>1, Facts DEF vars, BobsFirst
  <2> QED BY <1>1, <1>6, <2>2 DEF ZeroAt
<1>7. CASE at = N + 10
  <2>1. c.op = "unregister" /\ c.expect = "Removed" BY <1>1, <1>2, <1>7, RunCalls DEF IsCall
  <2>2. Did(c) BY <1>1, <1>7, <2>1, Facts
  <2>3. domain(c) = 0 BY <1>1, <1>2, <1>7 DEF TargetAt
  <2>4. DomainStateChanged(c) = "Removed" BY <2>1, <2>2 DEF Did, Expected, NewState
  <2>5. 0 \notin DOMAIN domains'
    <3>1. unregister_domain(c.who, 0) BY <2>1, <2>2, <2>3 DEF Did, effect
    <3> QED BY <3>1 DEF unregister_domain
  <2> QED BY <1>1, <1>7, <2>5 DEF ZeroAt
<1>8. CASE at = N + 11
  <2>1. 0 \notin DOMAIN domains /\ domain(c) = 0 BY <1>1, <1>2, <1>8 DEF ZeroAt, TargetAt
  <2>2. c.op = "submit"
    <3>1. IsSubmit(run[N + 11], 1, Alice, 1, "no_proof", "ErrProofOnUnregisteredDomain")
      BY <1>1, <1>2, RunCalls
    <3> QED BY <1>2, <1>8, <3>1 DEF IsSubmit, IsCall
  <2>3. ~ effect(c) BY <2>1, <2>2 DEF effect
  <2>4. domains' = domains BY <2>3, Facts DEF vars
  <2> QED BY <1>1, <1>8, <2>1, <2>4 DEF ZeroAt
<1>9. CASE at >= N + 12
  <2>1. Keeps(0) BY <1>1, <1>9, KeptAt
  <2>2. 0 \notin DOMAIN domains BY <1>1, <1>2, <1>9 DEF ZeroAt
  <2>3. 0 \notin DOMAIN domains' BY <2>1, <2>2, KeptFacts
  <2> QED BY <1>1, <1>9, <2>3 DEF ZeroAt
<1>10. CASE at < 3 \/ at \in N + 8 .. N + 9 BY <1>1, <1>10 DEF ZeroAt
<1> QED BY <1>1, <1>3, <1>4, <1>5, <1>6, <1>7, <1>8, <1>9, <1>10

(* What the events of a proof for the first domain report. *)
LEMMA Reported ==
  ASSUME NEW c, Moving(c), at \in 4 .. N + 3
  PROVE  /\ Declined(c) => domains' = domains /\ complete' = <<>>
         /\ Did(c) => complete' = SetToSeq(DOMAIN domains'[0].should_publish)
<1>1. N \in Nat \ {0} /\ N \in Nat /\ at \in Nat BY Facts
<1>2. complete = <<>> /\ DOMAIN domains[0].should_publish = {}
  BY <1>1 DEF Moving, Stage, FillAt, Filling
<1>3. domain(c) = 0 BY <1>1 DEF Moving, TargetAt
<1>4. c.expect = "verified" BY <1>1 DEF Moving, OpAt
<1>5. Declined(c) => domains' = domains /\ complete' = <<>> BY <1>2 DEF Declined, note, vars
<1>6. ASSUME Did(c) PROVE complete' = SetToSeq(DOMAIN domains'[0].should_publish)
  <2>1. PICK S : S = DOMAIN domains'[0].should_publish OBVIOUS
  <2>2. complete' = <<>> \o SetToSeq(S \ {}) BY <1>2, <1>3, <1>4, <1>6, <2>1 DEF Did, note
  <2>3. S \ {} = S OBVIOUS
  <2>4. IsFiniteSet(S)
    <3>1. PICK e \in StatementEntry : Sent(c, e) BY <1>6, SendFirst
    <3>2. 0 \in DOMAIN domains' /\ IInv' BY <3>1, Facts DEF Sent
    <3>3. EntryTyped(domains'[0]) BY <3>2 DEF IInv, EntriesOK, EntryOK
    <3> QED BY <2>1, <3>3, EntryFields
  <2>5. \E T : SetToSeq(S) \in Seq(T)
    <3> DEFINE n == Cardinality(S)
               f == SetToSeq(S)
    <3>1. n \in Nat /\ ExistsBijection(1 .. n, S) BY <2>4, FS_CardinalityType
    <3>2. \E g \in [1 .. n -> S] : IsInjective(g)
      BY <3>1 DEF ExistsBijection, Bijection, Injection, IsInjective
    <3>3. f \in [1 .. n -> S] BY <3>2 DEF SetToSeq
    <3> HIDE DEF n, f
    <3>4. f \in Seq(S) BY <3>1, <3>3
    <3> QED BY <3>4 DEF f
  <2>6. \A f : (\E T : f \in Seq(T)) => <<>> \o f = f OBVIOUS
  <2> QED BY <2>1, <2>2, <2>3, <2>5, <2>6
<1> QED BY <1>5, <1>6

LEMMA FillOn ==
  ASSUME NEW c, Moving(c)
  PROVE  FillAt'
<1>1. N \in Nat \ {0} /\ N \in Nat /\ N' = N /\ at \in 1 .. N + 25 /\ at' = at + 1
      /\ verifiers' = verifiers
  BY Facts DEF Moving
<1>2. FillAt /\ OpAt(c) BY DEF Moving, Stage
<1>3. CASE at < 3
  <2>1. c.op = "external" /\ c.expect # "verified" BY <1>1, <1>2, <1>3 DEF OpAt
  <2>2. Did(c) BY <1>1, <1>3, <2>1, Facts
  <2>3. complete' = complete BY <2>1, <2>2 DEF Did, note
  <2> QED BY <1>1, <1>2, <1>3, <2>3 DEF FillAt
<1>4. CASE at = 3
  <2>1. Fresh(0, Register(N, None, "Untrusted")) /\ complete' = <<>> BY <1>4, RegisterFirst
  <2>2. domains'[0].next = AggregationCreate(1, N) /\ domains'[0].should_publish = <<>>
    BY <2>1 DEF Fresh, Register
  <2>3. /\ domains'[0].next.id = 1 /\ domains'[0].next.size = N /\ domains'[0].next.statements = <<>>
        /\ DOMAIN domains'[0].should_publish = {}
    BY <2>2 DEF AggregationCreate
  <2>4. Filling' BY <1>1, <1>4, <2>3 DEF Filling
  <2> QED BY <1>1, <1>4, <2>1, <2>4 DEF FillAt
<1>5. CASE at \in 4 .. N + 2
  <2>0. Filling /\ BobsFirst /\ IInv BY <1>1, <1>5 DEF Moving, Stage, FillAt, ZeroAt
  <2>1. at \in 4 .. N + 3 /\ (Did(c) \/ Declined(c)) BY <1>1, <1>5, Facts
  <2>2. Len(domains[0].next.statements) \in Nat /\ domains[0].next.statements \in Seq(StatementEntry)
    BY <2>0, StoredEntry, EntryFields DEF BobsFirst
  <2>3. CASE Declined(c)
    <3>1. domains' = domains /\ complete' = <<>> BY <2>1, <2>3, Reported
    <3>2. Filling' BY <1>1, <1>5, <2>0, <2>2, <3>1 DEF Filling
    <3> QED BY <1>1, <1>5, <3>1, <3>2 DEF FillAt
  <2>4. CASE Did(c)
    <3>1. PICK e \in StatementEntry : Sent(c, e) BY <2>1, <2>4, SendFirst
    <3>2. Len(domains[0].next.statements) + 1 < domains[0].next.size
      BY <1>1, <1>5, <2>0, <2>2 DEF Filling
    <3>3. /\ Joined(domains[0], domains'[0], e) /\ domains'[0].next.size = domains[0].next.size
          /\ e.statement = verifiers[at - 3]
      BY <3>1, <3>2 DEF Sent, Queued, SameTerms
    <3>4. complete' = <<>>
      <4>1. complete' = SetToSeq(DOMAIN domains'[0].should_publish) BY <2>1, <2>4, Reported
      <4>2. DOMAIN domains'[0].should_publish = {} BY <2>0, <3>3 DEF Joined, Filling
      <4> QED BY <4>1, <4>2, NoneCompleted
    <3>5. Filling'
      <4>1. PICK q, r : q = domains[0].next.statements /\ r = domains'[0].next.statements OBVIOUS
      <4>2. q \in Seq(StatementEntry) /\ r = Append(q, e) BY <2>2, <3>3, <4>1 DEF Joined
      <4>3. /\ Len(q) \in Nat /\ Len(r) = Len(q) + 1
            /\ \A j \in 1 .. Len(q) : r[j] = q[j]
            /\ r[Len(q) + 1] = e
        BY <4>2
      <4>4. Len(q) <= at - 4 /\ (Len(q) = at - 4 => \A j \in 1 .. at - 4 : q[j].statement = verifiers[j])
        BY <2>0, <4>1 DEF Filling
      <4>5. Len(r) <= at' - 4 BY <1>1, <4>3, <4>4
      <4>6. Len(r) = at' - 4 => \A j \in 1 .. at' - 4 : r[j].statement = verifiers[j]
        <5>1. SUFFICES ASSUME Len(r) = at' - 4, NEW j \in 1 .. at' - 4
                       PROVE  r[j].statement = verifiers[j]
          OBVIOUS
        <5>2. Len(q) = at - 4 /\ at' - 4 = at - 3 BY <1>1, <4>3, <5>1
        <5>3. CASE j = at - 3
          <6>1. r[j] = e BY <1>1, <4>3, <5>2, <5>3
          <6> QED BY <3>3, <5>3, <6>1
        <5>4. CASE j # at - 3
          <6>1. j \in 1 .. Len(q) /\ j \in 1 .. at - 4 BY <1>1, <5>1, <5>2, <5>4
          <6>2. r[j] = q[j] BY <4>3, <6>1
          <6>3. q[j].statement = verifiers[j] BY <4>4, <5>2, <6>1
          <6> QED BY <6>2, <6>3
        <5> QED BY <5>3, <5>4
      <4>7. /\ domains'[0].next.id = 1 /\ domains'[0].next.size = N
            /\ DOMAIN domains'[0].should_publish = {}
        BY <2>0, <3>3 DEF Joined, Filling
      <4> QED BY <1>1, <4>1, <4>5, <4>6, <4>7 DEF Filling
    <3> QED BY <1>1, <1>5, <3>4, <3>5 DEF FillAt
  <2> QED BY <2>1, <2>3, <2>4
<1>6. CASE at >= N + 3 BY <1>1, <1>6 DEF FillAt
<1> QED BY <1>1, <1>3, <1>4, <1>5, <1>6

(* The last proof completes the aggregation, or the test ends. *)
LEMMA LastProof ==
  ASSUME NEW c, Moving(c), at = N + 3
  PROVE  /\ complete' = <<1>> /\ domains'[0].next.id = 2 /\ 1 \in DOMAIN domains'[0].should_publish
         /\ StatementsOf(domains'[0].should_publish[1]) = verifiers
<1>1. N \in Nat \ {0} /\ N \in Nat /\ at \in 4 .. N + 3 /\ DOMAIN verifiers = 1 .. N BY Facts
<1>2. Filling /\ BobsFirst /\ IInv BY <1>1 DEF Moving, Stage, FillAt, ZeroAt
<1>3. complete' # <<>>
  <2>1. run[N + 4].op = "aggregate" BY <1>1, RunCalls DEF IsCall
  <2>2. at + 1 = N + 4 BY <1>1
  <2>3. c.expect = "verified" BY <1>1 DEF Moving, OpAt
  <2>4. Did(c) \/ Declined(c) BY <1>1, Facts
  <2>5. ~ Unready BY <2>3, <2>4 DEF Did, Declined, Expected
  <2> QED BY <2>1, <2>2, <2>5 DEF Unready
<1>4. Did(c)
  <2>1. ~ Declined(c) BY <1>1, <1>3, Reported
  <2> QED BY <1>1, <2>1, Facts
<1>5. PICK e \in StatementEntry : Sent(c, e) BY <1>1, <1>4, SendFirst
<1>6. complete' = SetToSeq(DOMAIN domains'[0].should_publish) BY <1>1, <1>4, Reported
<1>7. Len(domains[0].next.statements) \in Nat /\ domains[0].next.statements \in Seq(StatementEntry)
  BY <1>2, StoredEntry, EntryFields DEF BobsFirst
<1>8. ~ (Len(domains[0].next.statements) + 1 < domains[0].next.size)
  <2> SUFFICES ASSUME Len(domains[0].next.statements) + 1 < domains[0].next.size PROVE FALSE OBVIOUS
  <2>1. DOMAIN domains'[0].should_publish = {} BY <1>2, <1>5 DEF Sent, Queued, Joined, Filling
  <2> QED BY <1>3, <1>6, <2>1, NoneCompleted
<1>9. /\ Filled(domains[0], domains'[0], e) /\ domains'[0].next.id = 2
      /\ e.statement = verifiers[at - 3]
  BY <1>2, <1>5, <1>8 DEF Sent, Queued, Filling
<1>10. DOMAIN domains'[0].should_publish = {1} BY <1>2, <1>9 DEF Filled, Filling
<1>11. complete' = <<1>> BY <1>6, <1>10, OneCompleted
<1>12. PICK q, agg : q = domains[0].next.statements /\ agg = domains'[0].should_publish[1] OBVIOUS
<1>13. q \in Seq(StatementEntry) /\ agg.statements = Append(q, e)
  BY <1>2, <1>7, <1>9, <1>12 DEF Filled, Filling
<1>14. Len(q) = N - 1 /\ \A j \in 1 .. N - 1 : q[j].statement = verifiers[j]
  <2>1. Len(q) <= N - 1 /\ ~ (Len(q) + 1 < N) /\ Len(q) \in Nat
    BY <1>1, <1>2, <1>7, <1>8, <1>12 DEF Filling
  <2>2. Len(q) = N - 1 /\ at - 4 = N - 1 BY <1>1, <2>1
  <2> QED BY <1>2, <1>12, <2>2 DEF Filling
<1>15. StatementsOf(agg) = verifiers
  <2>1. PICK r : r = agg.statements OBVIOUS
  <2>2. DOMAIN r = 1 .. N /\ r[N] = e /\ \A j \in 1 .. N - 1 : r[j] = q[j] BY <1>1, <1>13, <1>14, <2>1
  <2>3. StatementsOf(agg) = [j \in 1 .. N |-> r[j].statement] BY <2>1, <2>2 DEF StatementsOf
  <2>4. \A j \in 1 .. N : r[j].statement = verifiers[j]
    <3>1. SUFFICES ASSUME NEW j \in 1 .. N PROVE r[j].statement = verifiers[j] OBVIOUS
    <3>2. CASE j = N
      <4>1. at - 3 = N BY <1>1
      <4> QED BY <1>9, <2>2, <3>2, <4>1
    <3>3. CASE j # N
      <4>1. j \in 1 .. N - 1 BY <1>1, <3>3
      <4> QED BY <1>14, <2>2, <4>1
    <3> QED BY <3>2, <3>3
  <2>5. verifiers = [j \in 1 .. N |-> verifiers[j]] BY DEF Moving, Verifiers
  <2> QED BY <2>3, <2>4, <2>5
<1> QED BY <1>9, <1>10, <1>11, <1>12, <1>15

LEMMA FullOn ==
  ASSUME NEW c, Moving(c)
  PROVE  FullAt'
<1>1. N \in Nat \ {0} /\ N \in Nat /\ N' = N /\ at \in 1 .. N + 25 /\ at' = at + 1
      /\ verifiers' = verifiers /\ (at >= N + 4 => complete' = complete)
  BY Facts DEF Moving
<1>2. FullAt /\ OpAt(c) /\ TargetAt(c) BY DEF Moving, Stage
<1>3. CASE at < N + 3 BY <1>1, <1>3 DEF FullAt
<1>4. CASE at = N + 3
  <2>1. complete'[1] = 1 BY <1>4, LastProof
  <2> QED BY <1>1, <1>4, <2>1, LastProof DEF FullAt
<1>5. CASE at = N + 4
  <2>1. <<0, 1>> \in DOMAIN receipts' /\ receipts'[<<0, 1>>] = verifiers BY <1>5, TakeFirst
  <2> QED BY <1>1, <1>2, <1>5, <2>1 DEF FullAt
<1>6. CASE at >= N + 5
  <2>1. <<0, 1>> \in DOMAIN receipts /\ receipts[<<0, 1>>] = verifiers /\ complete[1] = 1
    BY <1>1, <1>2, <1>6 DEF FullAt
  <2>2. <<0, 1>> \in DOMAIN receipts' /\ receipts'[<<0, 1>>] = receipts[<<0, 1>>]
    <3>1. CASE UNCHANGED vars BY <2>1, <3>1 DEF vars
    <3>2. CASE effect(c) /\ c.op # "aggregate" BY <2>1, <3>2, EffectFrame
    <3>3. CASE effect(c) /\ c.op = "aggregate"
      <4>1. at = N + 15 BY <1>1, <1>2, <1>6, <3>3 DEF OpAt
      <4>2. domain(c) = 1 BY <1>1, <1>2, <4>1 DEF TargetAt
      <4>3. <<0, 1>> # <<domain(c), aggregation(c)>>
        <5>1. PICK id : id = aggregation(c) OBVIOUS
        <5> QED BY <4>2, <5>1
      <4> QED BY <2>1, <3>3, <4>3, EffectFrame
    <3> QED BY <3>1, <3>2, <3>3, Facts
  <2> QED BY <1>1, <1>6, <2>1, <2>2 DEF FullAt
<1> QED BY <1>1, <1>3, <1>4, <1>5, <1>6

-----------------------------------------------------------------------------
(***************************************************************************)
(* The invariant of the test: the pallet's own, and while the test is on   *)
(* its way, or has come to its end, what it has reached by then.           *)
(***************************************************************************)
TestInv ==
  /\ IInv /\ Verifiers
  /\ verdict # BadPath
  /\ verdict = None => at \in 1 .. N + 25 /\ err1 \in {"Ok", "ErrProofFromInvalidSubmitter"}
  /\ verdict = "Ok" => at \in {N + 24, N + 26}
  /\ verdict = None \/ (verdict = "Ok" /\ at = N + 26) => Stage
  /\ verdict \in {None, "Ok"} => faults \in Seq({Refusal})

LEMMA StageOn ==
  ASSUME NEW c, Moving(c)
  PROVE  Stage'
BY IdsOn, ListOn, FillOn, FullOn, ZeroOn, OneOn, TwoOn, ThreeOn DEF Stage

(* The path of every statement is found and leads to the root. *)
LEMMA PathsLead ==
  ASSUME Verifiers, Stage, at = N + 5, checkPaths
  PROVE  goes_on /\ UNCHANGED <<vars, verifiers, ids, complete, aggId, err1, faults>>
<1>1. N \in Nat \ {0} /\ N \in Nat /\ DOMAIN verifiers = 1 .. N /\ verifiers \in Seq(Statements)
  BY VerifiersFacts
<1>2. ids[1] = 0 /\ complete[1] = 1 /\ receipts[<<0, 1>>] = verifiers
  BY <1>1 DEF Stage, IdsAt, FullAt
<1> DEFINE checked(s) == verifyProof(merkle_proof(verifiers, position(verifiers, s)),
                                     merkle_root(verifiers))
<1>3. ASSUME NEW i \in DOMAIN verifiers PROVE checked(verifiers[i])
  <2> DEFINE s == verifiers[i]
             same == {j \in DOMAIN verifiers : verifiers[j] = s}
  <2>1. same \in SUBSET Nat /\ i \in same BY <1>1, <1>3
  <2>2. PICK m \in same : \A j \in same : m <= j BY <2>1, LeastExists
  <2>3. m \in DOMAIN verifiers /\ verifiers[m] = s /\ \A j \in 1 .. m - 1 : verifiers[j] # s
    <3>1. m \in 1 .. N /\ verifiers[m] = s BY <1>1, <2>2
    <3>2. ASSUME NEW j \in 1 .. m - 1 PROVE verifiers[j] # s
      <4>1. j \in DOMAIN verifiers /\ ~ (m <= j) BY <1>1, <3>1, <3>2
      <4> QED BY <2>2, <4>1
    <3> QED BY <1>1, <3>1, <3>2
  <2> HIDE DEF s
  <2>4. position(verifiers, s) \in DOMAIN verifiers BY <2>3 DEF position
  <2>5. checked(s) BY <1>1, <2>4, PathsVerify
  <2> QED BY <2>5 DEF s
<1>4. /\ check(\E i \in DOMAIN verifiers : ~ checked(verifiers[i]), step.code)
      /\ UNCHANGED <<vars, verifiers, ids, complete, aggId, err1, faults>>
  BY <1>2 DEF checkPaths
<1> HIDE DEF checked
<1> QED BY <1>3, <1>4 DEF check

(* A call at any other place. *)
LEMMA CallMoves ==
  ASSUME TestInv, verdict = None, at # N + 5, NEW c, c = step, TestNext
  PROVE  /\ [Next]_vars /\ verifiers' = verifiers
         /\ \/ Over
            \/ at = N + 24 /\ at' = at /\ verdict' = "Ok" /\ faults' = faults
            \/ /\ Onward /\ Moving(c) /\ faults' \in {faults, Append(faults, Refusal)}
               /\ err1' \in {"Ok", "ErrProofFromInvalidSubmitter"}
<1>1. /\ IInv /\ Verifiers /\ Stage /\ at \in 1 .. N + 25
      /\ err1 \in {"Ok", "ErrProofFromInvalidSubmitter"}
  BY DEF TestInv
<1>2. TargetAt(c) /\ OpAt(c) /\ ArgsAt(c) /\ Shape(c) BY <1>1, Places DEF Stage
<1>3. N \in Nat \ {0} /\ N \in Nat /\ DOMAIN verifiers = 1 .. N BY <1>1, VerifiersFacts
<1>4. /\ UNCHANGED vars \/ effect(c)
      /\ verifiers' = verifiers
      /\ \/ Over
         \/ faults' = faults /\ effect(c) /\ Early(c, TRUE)
         \/ faults' = faults /\ Early(c, FALSE)
         \/ Onward /\ (Did(c) \/ Declined(c) \/ Refused(c) \/ AnswerLost(c))
  BY <1>1, <1>2, Outcome
<1>5. [Next]_vars BY <1>2, <1>4, EffectIsStep
<1>6. ASSUME effect(c), Early(c, TRUE) PROVE FALSE
  <2>1. c.expect = "then_no_proof" BY <1>6 DEF Early
  <2>2. at = N + 21 BY <1>2, <2>1 DEF OpAt
  <2>3. IsSubmit(c, 1, Bob, 4, "then_no_proof", "ErrProofFromInvalidSubmitter")
    BY <1>3, <2>2, RunCalls DEF step
  <2>4. c.op = "submit" /\ c.who = Bob BY <2>3 DEF IsSubmit, IsCall
  <2>5. domain(c) = 3 BY <1>2, <1>3, <2>2 DEF TargetAt
  <2>6. on_proof_verified(Bob, 3, c.statement, CallFee) BY <1>6, <2>4, <2>5 DEF effect
  <2>7. domains[3].proof_rules = "OnlyAllowlisted" /\ allowlist = {}
    BY <1>1, <1>3, <2>2 DEF Stage, ThreeAt, Restricted, ListAt
  <2> QED BY <2>6, <2>7 DEF on_proof_verified, is_authorized_to_add_proof
<1>7. ASSUME Early(c, FALSE) PROVE at = N + 24 /\ at' = at /\ verdict' = "Ok"
  BY <1>2, <1>7 DEF Early, OpAt
<1>8. ASSUME Onward, Did(c) \/ Declined(c) \/ Refused(c) \/ AnswerLost(c)
      PROVE  /\ Moving(c) /\ faults' \in {faults, Append(faults, Refusal)}
             /\ err1' \in {"Ok", "ErrProofFromInvalidSubmitter"}
  <2>1. Moving(c) BY <1>1, <1>2, <1>4, <1>8 DEF Moving, Onward, step
  <2>2. ~ AnswerLost(c)
    <3>1. AnswerLost(c) => effect(c) /\ at \in {N + 6, N + 7, N + 8} BY <1>2 DEF AnswerLost, OpAt
    <3> QED BY <2>1, <3>1, RefusedHere
  <2>3. Did(c) \/ Declined(c) =>
          faults' = faults /\ err1' \in {"Ok", "ErrProofFromInvalidSubmitter"}
    BY <1>1 DEF Did, Declined, Err1
  <2>4. Refused(c) => faults' \in {faults, Append(faults, Refusal)} /\ err1' = err1
    BY DEF Refused, Unheard
  <2> QED BY <1>1, <1>8, <2>1, <2>2, <2>3, <2>4
<1> QED BY <1>4, <1>5, <1>6, <1>7, <1>8

LEMMA TestStart ==
  ASSUME TestInit
  PROVE  TestInv
<1>1. IInv BY InitInv DEF TestInit
<1>2. PICK n \in Sizes, d \in {2, 4} :
        verifiers = [i \in 1 .. n |-> IF i = d + 1 THEN d ELSE i]
  BY DEF TestInit
<1>3. n \in Nat \ {0} BY TestAssumption
<1>4. verifiers \in [1 .. n -> 1 .. n] BY <1>2, <1>3
<1>5. N = n
  <2>1. verifiers \in Seq(1 .. n) BY <1>3, <1>4
  <2>2. DOMAIN verifiers = 1 .. n /\ DOMAIN verifiers = 1 .. Len(verifiers) /\ Len(verifiers) \in Nat
    BY <1>4, <2>1
  <2> QED BY <1>3, <2>2 DEF N
<1>6. Verifiers BY <1>2, <1>4, <1>5 DEF Verifiers
<1>7. N \in Nat \ {0} BY <1>3, <1>5
<1>8. at = 1 /\ ids = <<>> /\ complete = <<>> /\ err1 = "Ok" /\ verdict = None /\ faults = <<>>
      /\ next_domain_id = 0 /\ allowlist = {}
  BY DEF TestInit, Init
<1>9. Stage
  <2>1. IdsAt BY <1>7, <1>8 DEF IdsAt
  <2>2. ListAt BY <1>7, <1>8 DEF ListAt
  <2>3. FillAt BY <1>7, <1>8 DEF FillAt
  <2>4. FullAt /\ ZeroAt BY <1>7, <1>8 DEF FullAt, ZeroAt
  <2>5. OneAt /\ TwoAt /\ ThreeAt BY <1>7, <1>8 DEF OneAt, TwoAt, ThreeAt
  <2> QED BY <2>1, <2>2, <2>3, <2>4, <2>5 DEF Stage
<1>10. None \notin {"Ok", BadPath} BY TestAssumption DEF ReturnCode, BadPath
<1>11. faults \in Seq({Refusal}) BY <1>8
<1>12. at \in 1 .. N + 25 BY <1>7, <1>8
<1> QED BY <1>1, <1>6, <1>8, <1>9, <1>10, <1>11, <1>12 DEF TestInv

LEMMA TestStep ==
  ASSUME TestInv, [TestNext]_all_vars
  PROVE  TestInv' /\ [Next]_vars
<1>0. None \notin {"Ok", BadPath} BY TestAssumption DEF ReturnCode, BadPath
<1>1. CASE UNCHANGED all_vars
  <2>1. UNCHANGED vars /\ UNCHANGED tvars BY <1>1 DEF all_vars
  <2>2. IInv' BY <2>1, StepInv DEF TestInv
  <2>3. UNCHANGED <<verifiers, at, ids, complete, err1, verdict, faults>> /\ N' = N
    BY <2>1 DEF tvars, N
  <2>4. UNCHANGED <<domains, next_domain_id, allowlist, receipts>> BY <2>1 DEF vars
  <2>5. Verifiers' <=> Verifiers BY <2>3 DEF Verifiers
  <2>6. Stage => Stage'
    <3>1. IdsAt => IdsAt' BY <2>3, <2>4 DEF IdsAt
    <3>2. ListAt => ListAt' BY <2>3, <2>4 DEF ListAt
    <3>3. FillAt => FillAt' BY <2>3, <2>4 DEF FillAt, Filling
    <3>4. FullAt => FullAt' BY <2>3, <2>4 DEF FullAt
    <3>5. ZeroAt => ZeroAt' BY <2>3, <2>4 DEF ZeroAt, BobsFirst
    <3>6. OneAt => OneAt' BY <2>3, <2>4 DEF OneAt
    <3>7. TwoAt => TwoAt' BY <2>3, <2>4 DEF TwoAt, Blank, OnlyStatementOf
    <3>8. ThreeAt => ThreeAt' BY <2>3, <2>4 DEF ThreeAt, Restricted, Blank, OnlyStatementOf
    <3> QED BY <3>1, <3>2, <3>3, <3>4, <3>5, <3>6, <3>7, <3>8 DEF Stage
  <2> QED BY <2>1, <2>2, <2>3, <2>5, <2>6 DEF TestInv
<1>2. CASE TestNext
  <2>0. verdict = None BY <1>2 DEF TestNext, submitExtrinsic, lost, checkPaths
  <2>1. PICK c : c = step OBVIOUS
  <2>2. /\ IInv /\ Verifiers /\ Stage /\ at \in 1 .. N + 25 /\ faults \in Seq({Refusal})
        /\ err1 \in {"Ok", "ErrProofFromInvalidSubmitter"}
    BY <2>0 DEF TestInv
  <2>3. N \in Nat \ {0} /\ N \in Nat /\ DOMAIN verifiers = 1 .. N BY <2>2, VerifiersFacts
  <2>4. Len(run) = N + 25 BY <2>3, RunCalls
  <2>5. CASE at # N + 5
    <3>1. /\ [Next]_vars /\ verifiers' = verifiers
          /\ \/ Over
             \/ at = N + 24 /\ at' = at /\ verdict' = "Ok" /\ faults' = faults
             \/ /\ Onward /\ Moving(c) /\ faults' \in {faults, Append(faults, Refusal)}
                /\ err1' \in {"Ok", "ErrProofFromInvalidSubmitter"}
      BY <1>2, <2>0, <2>1, <2>5, CallMoves
    <3>2. IInv' BY <2>2, <3>1, StepInv
    <3>3. Verifiers' /\ N' = N BY <2>2, <3>1 DEF Verifiers, N
    <3>4. CASE Over
      <4>1. TestInv' BY <3>2, <3>3, <3>4 DEF TestInv, Over
      <4> QED BY <3>1, <4>1
    <3>5. CASE at = N + 24 /\ at' = at /\ verdict' = "Ok" /\ faults' = faults
      <4>1. at' = N' + 24 /\ at' # N' + 26 BY <2>3, <3>3, <3>5
      <4>2. TestInv' BY <1>0, <2>2, <3>2, <3>3, <3>5, <4>1 DEF TestInv, BadPath
      <4> QED BY <3>1, <4>2
    <3>6. CASE /\ Onward /\ Moving(c) /\ faults' \in {faults, Append(faults, Refusal)}
               /\ err1' \in {"Ok", "ErrProofFromInvalidSubmitter"}
      <4>1. Stage' BY <3>6, StageOn
      <4>2. faults' \in Seq({Refusal}) BY <2>2, <3>6
      <4>3. at' = at + 1 /\ verdict' = IF at = N + 25 THEN "Ok" ELSE None BY <2>4, <3>6 DEF Onward
      <4>4. verdict' = None => at' \in 1 .. N' + 25 BY <1>0, <2>2, <2>3, <3>3, <4>3
      <4>5. verdict' = "Ok" => at' = N' + 26 BY <1>0, <2>2, <2>3, <3>3, <4>3
      <4>6. verdict' # BadPath BY <1>0, <4>3 DEF BadPath
      <4>7. TestInv' BY <3>2, <3>3, <3>6, <4>1, <4>2, <4>4, <4>5, <4>6 DEF TestInv
      <4> QED BY <3>1, <4>7
    <3> QED BY <3>1, <3>4, <3>5, <3>6
  <2>6. CASE at = N + 5
    <3>1. TargetAt(c) /\ OpAt(c) /\ ArgsAt(c) BY <2>1, <2>2, Places DEF Stage
    <3>2. step.op = "paths" BY <2>1, <2>6, <3>1 DEF OpAt
    <3>3. checkPaths BY <1>2, <3>2 DEF TestNext, submitExtrinsic, lost
    <3>4. goes_on /\ UNCHANGED <<vars, verifiers, ids, complete, aggId, err1, faults>>
      BY <2>2, <2>6, <3>3, PathsLead
    <3>5. at' = at + 1 /\ verdict' = None /\ N' = N
      BY <2>3, <2>4, <2>6, <3>4 DEF goes_on, N
    <3>6. Checked BY <2>6, <3>4 DEF Checked, Unheard
    <3>7. Moving(c) BY <2>1, <2>2, <3>1, <3>4, <3>5, <3>6 DEF Moving, step
    <3>8. Stage' BY <3>7, StageOn
    <3>9. UNCHANGED vars BY <3>4
    <3>10. IInv' BY <2>2, <3>9, StepInv
    <3>11. Verifiers' BY <2>2, <3>4 DEF Verifiers, N
    <3>12. at' \in 1 .. N' + 25 BY <2>3, <2>6, <3>5
    <3>13. TestInv' BY <1>0, <2>2, <3>4, <3>5, <3>8, <3>10, <3>11, <3>12 DEF TestInv
    <3> QED BY <3>9, <3>13
  <2> QED BY <2>5, <2>6
<1> QED BY <1>1, <1>2

(***************************************************************************)
(* The theorems about the test.                                            *)
(***************************************************************************)
LEMMA TestInvariance == TestSpec => []TestInv
<1>1. TestInit => TestInv BY TestStart
<1>2. TestInv /\ [TestNext]_all_vars => TestInv' BY TestStep
<1> QED BY <1>1, <1>2, PTL DEF TestSpec

(* Whatever is lost, the test drives the pallet through its own steps:     *)
(* every call of 0012-aggregate_proofs.js, with the arguments it computes  *)
(* from the events, is one the pallet's specification allows or refuses.   *)
THEOREM TestImplementsPallet == TestSpec => Spec
<1>1. TestInit => Init BY DEF TestInit
<1>2. TestInv /\ [TestNext]_all_vars => [Next]_vars BY TestStep
<1> QED BY <1>1, <1>2, TestInvariance, PTL DEF TestSpec, Spec

(* The test passes only if nothing was lost but calls that the pallet      *)
(* would have refused: a lost answer cannot hide a call that took effect,  *)
(* because the three calls whose failure run counts as success are ones    *)
(* the pallet refuses in every state the test can be in by then.           *)
THEOREM LossesAreNoticed == TestSpec => []LossesNoticed
<1>1. TestInv => LossesNoticed BY DEF TestInv, LossesNoticed, Refusal
<1> QED BY <1>1, TestInvariance, PTL

(* The check of the paths in run did not return its error. *)
PathsLeadToRoot == verdict # BadPath

(* The path check of the test never fails, however many proofs are         *)
(* aggregated and in whatever places equal statements stand.               *)
THEOREM PathsNeverFail == TestSpec => []PathsLeadToRoot
<1>1. TestInv => PathsLeadToRoot BY DEF TestInv, PathsLeadToRoot
<1> QED BY <1>1, TestInvariance, PTL

(* The test returned the good verdict of the first of a pair of calls when *)
(* the second had failed, one call before its end.                         *)
ReturnedEarly == verdict = "Ok" /\ at = Len(run) - 1

(* The test passes only if everything it asked for has happened on the     *)
(* chain, whatever was lost, for any number of proofs; but for the one     *)
(* place where it returns the wrong one of two verdicts.                   *)
THEOREM OkMeansDoneOrEarly == TestSpec => [](OkMeansDone \/ ReturnedEarly)
<1>1. ASSUME TestInv PROVE OkMeansDone \/ ReturnedEarly
  <2>1. SUFFICES ASSUME verdict = "Ok" PROVE OkMeansDone \/ ReturnedEarly BY DEF OkMeansDone
  <2>2. at \in {N + 24, N + 26} /\ Verifiers BY <1>1, <2>1 DEF TestInv
  <2>3. N \in Nat /\ N \in Nat \ {0} /\ DOMAIN verifiers = 1 .. N BY <2>2, VerifiersFacts
  <2>4. Len(run) = N + 25 BY <2>3, RunCalls
  <2>5. CASE at = N + 24 BY <2>1, <2>3, <2>4, <2>5 DEF ReturnedEarly
  <2>6. CASE at = N + 26
    <3>1. Stage BY <1>1, <2>1, <2>6 DEF TestInv
    <3>2. ids[1] = 0 /\ ids[2] = 1 /\ ids[3] = 2 /\ ids[4] = 3
      BY <2>3, <2>6, <3>1 DEF Stage, IdsAt
    <3>3. complete[1] = 1 /\ receipts[<<0, 1>>] = verifiers BY <2>3, <2>6, <3>1 DEF Stage, FullAt
    <3>4. 0 \notin DOMAIN domains /\ domains[1].state = "Removable"
      BY <2>3, <2>6, <3>1 DEF Stage, ZeroAt, OneAt
    <3>5. OnlyStatementOf(2, Bob) /\ OnlyStatementOf(3, Alice)
      BY <2>3, <2>6, <3>1 DEF Stage, TwoAt, ThreeAt
    <3>6. allowlist = {} BY <2>3, <2>6, <3>1 DEF Stage, ListAt
    <3> QED BY <3>2, <3>3, <3>4, <3>5, <3>6 DEF OkMeansDone
  <2> QED BY <2>2, <2>5, <2>6
<1> QED BY <1>1, TestInvariance, PTL
=============================================================================
