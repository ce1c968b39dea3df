---------------------------- MODULE ChunkTotals -----------------------------
(***************************************************************************)
(* Facts about the totals that both clients keep of their chunks: the sum, *)
(* the minimum and the maximum of a sequence of sizes, and how they change *)
(* with one size more.                                                     *)
(*                                                                         *)
(* The fold of the community modules takes the elements in an unspecified  *)
(* order, so that a sum growing by the element appended needs a proof.  An *)
(* induction is done by the least number of a set of counterexamples.      *)
(***************************************************************************)
EXTENDS Integers, Sequences, FiniteSets, Functions, TLAPS,
        FiniteSetTheorems, WellFoundedInduction

SumOf(s) == FoldFunction(+, 0, s)

(* What the fold computes, on every set of positions. *)
IsFold(g, s) ==
  g = [t \in SUBSET DOMAIN s |->
         IF t = {} THEN 0
         ELSE s[CHOOSE x \in t : TRUE] + g[t \ {CHOOSE x \in t : TRUE}]]

(* ... and the same, whichever position is taken first. *)
IsSums(f, s) ==
  /\ f \in [SUBSET DOMAIN s -> Nat]
  /\ f[{}] = 0
  /\ \A t \in SUBSET DOMAIN s : \A x \in t : f[t] = s[x] + f[t \ {x}]

-----------------------------------------------------------------------------
(* "<" on the natural numbers, as a set of pairs. *)
LEMMA LessThan ==
  \E R : IsWellFoundedOn(R, Nat) /\ \A m, n \in Nat : m < n => <<m, n>> \in R
<1> WITNESS OpToRel(<, Nat)
<1>1. IsWellFoundedOn(OpToRel(<, Nat), Nat)
  BY NatLessThanWellFounded
<1>2. \A m, n \in Nat : m < n => <<m, n>> \in OpToRel(<, Nat)
  BY DEF OpToRel
<1> QED
  BY <1>1, <1>2, Zenon

(* Every set of natural numbers with an element has a least one. *)
LEMMA Least ==
  ASSUME NEW T \in SUBSET Nat, T # {}
  PROVE  \E n \in T : \A m \in T : n <= m
<1>1. PICK R : IsWellFoundedOn(R, Nat) /\ \A m, n \in Nat : m < n => <<m, n>> \in R
  BY LessThan
<1>2. T \subseteq Nat /\ IsWellFoundedOn(R, Nat)
  BY <1>1
<1>3. PICK n \in T : \A m \in T : ~ (<<m, n>> \in R)
  BY ONLY <1>2, T # {}, WFMin, Zenon
<1>4. ASSUME NEW m \in T
      PROVE  n <= m
  <2>1. m \in Nat /\ n \in Nat
    BY <1>2
  <2>2. ~ (m < n)
    BY <1>1, <1>3, <2>1, Zenon
  <2> QED
    BY <2>1, <2>2
<1> QED
  BY <1>4

-----------------------------------------------------------------------------
(* The definition of the fold, unfolded. *)
LEMMA SumIsFold ==
  ASSUME NEW s
  PROVE  SumOf(s) = (CHOOSE g : IsFold(g, s))[DOMAIN s]
BY DEF SumOf, FoldFunction, FoldFunctionOnSet, MapThenFoldSet, IsFold

(* There is only one fold, and it is the sums. *)
LEMMA FoldIsSums ==
  ASSUME NEW s \in Seq(Nat), NEW f, IsSums(f, s)
  PROVE  SumOf(s) = f[DOMAIN s]
<1> DEFINE D == DOMAIN s
           ch(t) == CHOOSE x \in t : TRUE
<1>1. \A t \in SUBSET D : t # {} => ch(t) \in t
  OBVIOUS
<1>2. IsFold(f, s)
  <2> DEFINE rhs == [t \in SUBSET D |->
                       IF t = {} THEN 0 ELSE s[ch(t)] + f[t \ {ch(t)}]]
  <2>1. ASSUME NEW t \in SUBSET D
        PROVE  f[t] = rhs[t]
    BY <1>1 DEF IsSums
  <2>2. f = rhs
    BY <2>1 DEF IsSums
  <2> QED
    BY <2>2 DEF IsFold
<1> DEFINE g == CHOOSE h : IsFold(h, s)
<1>3. IsFold(g, s)
  BY <1>2
<1> HIDE DEF g
<1>4. \A t \in SUBSET D : g[t] = IF t = {} THEN 0 ELSE s[ch(t)] + g[t \ {ch(t)}]
  <2> DEFINE rhs == [t \in SUBSET D |->
                       IF t = {} THEN 0 ELSE s[ch(t)] + g[t \ {ch(t)}]]
  <2>1. g = rhs
    BY <1>3 DEF IsFold
  <2>2. \A t \in SUBSET D :
          rhs[t] = IF t = {} THEN 0 ELSE s[ch(t)] + g[t \ {ch(t)}]
    OBVIOUS
  <2> HIDE DEF rhs
  <2> QED
    BY <2>1, <2>2
<1> HIDE DEF ch
<1> DEFINE Wrong == {t \in SUBSET D : g[t] # f[t]}
           Bad == {Cardinality(t) : t \in Wrong}
<1>5. D = 1 .. Len(s) /\ Len(s) \in Nat
  OBVIOUS
<1>6. IsFiniteSet(D)
  BY <1>5, FS_Interval
<1> HIDE DEF D
<1>7. \A t \in SUBSET D : IsFiniteSet(t) /\ Cardinality(t) \in Nat
  BY <1>6, FS_Subset, FS_CardinalityType
<1>8. Wrong = {}
  <2> SUFFICES ASSUME Wrong # {}
               PROVE  FALSE
    OBVIOUS
  <2>1. Bad # {} /\ Bad \in SUBSET Nat
    BY <1>7
  <2>2. PICK n \in Bad : \A m \in Bad : n <= m
    BY <2>1, Least
  <2>3. PICK t \in Wrong : Cardinality(t) = n
    BY <2>2
  <2>4. t \in SUBSET D /\ g[t] # f[t]
    BY <2>3
  <2>5. t # {}
    BY <2>4, <1>4 DEF IsSums
  <2>6. ch(t) \in t
    BY <1>1, <2>4, <2>5
  <2>7. t \ {ch(t)} \in SUBSET D
    BY <2>4
  <2>8. Cardinality(t \ {ch(t)}) = n - 1 /\ n \in Nat
    BY <1>7, <2>3, <2>4, <2>6, FS_RemoveElement
  <2>9. g[t \ {ch(t)}] = f[t \ {ch(t)}]
    <3>1. CASE t \ {ch(t)} \in Wrong
      <4>1. n - 1 \in Bad
        BY <2>8, <3>1
      <4> QED
        BY <2>2, <2>8, <4>1
    <3>2. CASE t \ {ch(t)} \notin Wrong
      BY <2>7, <3>2
    <3> QED
      BY <3>1, <3>2
  <2>10. g[t] = s[ch(t)] + g[t \ {ch(t)}]
    BY <1>4, <2>4, <2>5
  <2>11. f[t] = s[ch(t)] + f[t \ {ch(t)}]
    BY <2>4, <2>6 DEF IsSums, D
  <2> QED
    BY <2>4, <2>9, <2>10, <2>11
<1>9. g[D] = f[D]
  BY <1>8
<1> QED
  BY <1>9, SumIsFold DEF g, D

-----------------------------------------------------------------------------
(* The sums of a sequence, extended by one element. *)
LEMMA SumsExtend ==
  ASSUME NEW s \in Seq(Nat), NEW e \in Nat, NEW f, IsSums(f, s)
  PROVE  \E g : /\ IsSums(g, Append(s, e))
                /\ g[DOMAIN Append(s, e)] = f[DOMAIN s] + e
<1> DEFINE D == DOMAIN s
           k == Len(s) + 1
           a == Append(s, e)
           E == DOMAIN a
           g == [t \in SUBSET E |-> IF k \in t THEN f[t \ {k}] + e ELSE f[t]]
<1>1. /\ k \notin D /\ k \in E /\ E = D \cup {k}
      /\ a[k] = e /\ \A i \in D : a[i] = s[i] /\ s[i] \in Nat
  OBVIOUS
<1>2. /\ f \in [SUBSET D -> Nat] /\ f[{}] = 0
      /\ \A t \in SUBSET D : \A x \in t : f[t] = s[x] + f[t \ {x}]
  BY DEF IsSums
<1> HIDE DEF D, k, a, E
<1>3. \A t \in SUBSET E : t \ {k} \in SUBSET D /\ (k \notin t => t \in SUBSET D)
  BY <1>1
<1>4. g \in [SUBSET E -> Nat] /\ g[{}] = 0
  BY <1>2, <1>3
<1>5. ASSUME NEW t \in SUBSET E, NEW x \in t
      PROVE  g[t] = a[x] + g[t \ {x}]
  <2>1. /\ t \ {x} \in SUBSET E /\ t \ {k} \in SUBSET D
        /\ (t \ {x}) \ {k} = (t \ {k}) \ {x}
        /\ f[t \ {k}] \in Nat /\ f[(t \ {k}) \ {x}] \in Nat
    BY <1>2, <1>3
  <2>2. g[t] = IF k \in t THEN f[t \ {k}] + e ELSE f[t]
    OBVIOUS
  <2>3. g[t \ {x}] = IF k \in t \ {x} THEN f[(t \ {x}) \ {k}] + e ELSE f[t \ {x}]
    BY <2>1
  <2> HIDE DEF g
  <2>4. CASE x = k
    BY <1>1, <2>1, <2>2, <2>3, <2>4
  <2>5. CASE x # k
    <3>1. x \in t \ {k} /\ x \in D /\ a[x] = s[x] /\ s[x] \in Nat
      BY <1>1, <2>5
    <3>2. f[t \ {k}] = s[x] + f[(t \ {k}) \ {x}]
      BY <1>2, <2>1, <3>1
    <3>3. CASE k \in t
      <4>1. g[t] = f[t \ {k}] + e
        BY <2>2, <3>3
      <4>2. g[t \ {x}] = f[(t \ {k}) \ {x}] + e
        BY <2>1, <2>3, <2>5, <3>3
      <4> QED
        BY <2>1, <3>1, <3>2, <4>1, <4>2
    <3>4. CASE k \notin t
      <4>1. t \ {k} = t
        BY <3>4
      <4> QED
        BY <2>2, <2>3, <3>1, <3>2, <3>4, <4>1
    <3> QED
      BY <3>3, <3>4
  <2> QED
    BY <2>4, <2>5
<1>6. g[E] = f[D] + e
  <2>1. E \ {k} = D /\ k \in E
    BY <1>1
  <2> QED
    BY <2>1
<1> HIDE DEF g
<1>7. IsSums(g, a)
  BY <1>4, <1>5 DEF IsSums, E
<1> QED
  BY <1>6, <1>7 DEF D, E, a

(* Every sequence of natural numbers has them. *)
LEMMA SumsExist ==
  ASSUME NEW s \in Seq(Nat)
  PROVE  \E f : IsSums(f, s)
<1> DEFINE Without == {n \in Nat : \E q \in Seq(Nat) :
                                     Len(q) = n /\ ~ \E f : IsSums(f, q)}
<1> SUFFICES ASSUME Without # {}
             PROVE  FALSE
  OBVIOUS
<1>1. PICK n \in Without : \A m \in Without : n <= m
  BY Least
<1>2. PICK q \in Seq(Nat) : Len(q) = n /\ ~ \E f : IsSums(f, q)
  BY <1>1
<1> HIDE DEF Without
<1>3. CASE n = 0
  <2> DEFINE f == [t \in SUBSET DOMAIN q |-> 0]
  <2>1. DOMAIN q = {}
    BY <1>2, <1>3
  <2>2. f \in [SUBSET DOMAIN q -> Nat] /\ f[{}] = 0
    OBVIOUS
  <2> HIDE DEF f
  <2>3. IsSums(f, q)
    BY <2>1, <2>2 DEF IsSums
  <2> QED
    BY <1>2, <2>3
<1>4. CASE n # 0
  <2> DEFINE p == [i \in 1 .. n - 1 |-> q[i]]
  <2>1. n \in Nat /\ n - 1 \in Nat
    BY <1>2, <1>4
  <2>2. p \in Seq(Nat) /\ Len(p) = n - 1 /\ q[n] \in Nat
    BY <1>2, <1>4, <2>1
  <2>3. q = Append(p, q[n])
    BY <1>2, <1>4, <2>1, <2>2
  <2>4. n - 1 \notin Without
    BY <1>1, <2>1
  <2>5. PICK f : IsSums(f, p)
    BY <2>1, <2>2, <2>4 DEF Without
  <2>6. \E g : IsSums(g, Append(p, q[n]))
    BY <2>2, <2>5, SumsExtend
  <2> QED
    BY <1>2, <2>3, <2>6
<1> QED
  BY <1>3, <1>4

(* The sum of no element, and of a sequence with one element appended. *)
LEMMA SumOfNone == SumOf(<<>>) = 0
<1>1. <<>> \in Seq(Nat) /\ DOMAIN <<>> = {}
  OBVIOUS
<1>2. PICK f : IsSums(f, <<>>)
  BY <1>1, SumsExist
<1> QED
  BY <1>1, <1>2, FoldIsSums DEF IsSums

(* A size more, added to the sum. *)
LEMMA SumOfAppend ==
  ASSUME NEW s \in Seq(Nat), NEW e \in Nat
  PROVE  SumOf(s) \in Nat /\ SumOf(Append(s, e)) = SumOf(s) + e
<1>1. PICK f : IsSums(f, s)
  BY SumsExist
<1>2. PICK g : /\ IsSums(g, Append(s, e))
               /\ g[DOMAIN Append(s, e)] = f[DOMAIN s] + e
  BY <1>1, SumsExtend
<1>3. Append(s, e) \in Seq(Nat)
  OBVIOUS
<1>4. SumOf(s) = f[DOMAIN s] /\ SumOf(Append(s, e)) = g[DOMAIN Append(s, e)]
  BY <1>1, <1>2, <1>3, FoldIsSums
<1>5. f[DOMAIN s] \in Nat
  BY <1>1 DEF IsSums
<1> QED
  BY <1>2, <1>4, <1>5

-----------------------------------------------------------------------------
(* The running totals of the sizes in s, where the minimum starts at top. *)
TotalsOf(total, low, high, top, s) ==
  /\ total = SumOf(s)
  /\ \A i \in 1 .. Len(s) : low <= s[i] /\ s[i] <= high
  /\ s = <<>> => low = top /\ high = 0
  /\ s # <<>> => /\ \E i \in 1 .. Len(s) : s[i] = low
                 /\ \E i \in 1 .. Len(s) : s[i] = high

(* Those of no size. *)
LEMMA TotalsOfNone ==
  ASSUME NEW top
  PROVE  TotalsOf(0, top, 0, top, <<>>)
<1>1. Len(<<>>) = 0 /\ SumOf(<<>>) = 0
  BY SumOfNone
<1> QED
  BY <1>1 DEF TotalsOf

(* One size more: also when it is the first, or both extrema at once. *)
LEMMA TotalsOfAppend ==
  ASSUME NEW s \in Seq(Nat), NEW n \in Nat, NEW total, NEW top \in Nat,
         NEW low \in Nat, NEW high \in Nat,
         TotalsOf(total, low, high, top, s), n <= top
  PROVE  TotalsOf(total + n, IF n < low THEN n ELSE low,
                  IF n > high THEN n ELSE high, top, Append(s, n))
<1> DEFINE a == Append(s, n)
           k == Len(s)
           l == IF n < low THEN n ELSE low
           h == IF n > high THEN n ELSE high
<1>1. /\ a \in Seq(Nat) /\ a # <<>> /\ k \in Nat /\ Len(a) = k + 1
      /\ a[k + 1] = n /\ \A i \in 1 .. k : a[i] = s[i] /\ s[i] \in Nat
  OBVIOUS
<1>2. SumOf(a) = total + n
  BY SumOfAppend DEF TotalsOf
<1>3. /\ l \in Nat /\ l <= n /\ l <= low /\ (l = n \/ (l = low /\ low <= n))
      /\ h \in Nat /\ n <= h /\ high <= h /\ (h = n \/ (h = high /\ n <= high))
  OBVIOUS
<1>4. /\ \A i \in 1 .. k : low <= s[i] /\ s[i] <= high
      /\ s = <<>> => low = top /\ high = 0
      /\ s # <<>> => /\ \E i \in 1 .. k : s[i] = low
                     /\ \E i \in 1 .. k : s[i] = high
  BY DEF TotalsOf
<1> HIDE DEF a, k, l, h
<1>5. /\ k + 1 \in 1 .. Len(a)
      /\ \A i \in 1 .. k : i \in 1 .. Len(a)
      /\ \A i \in 1 .. Len(a) : i = k + 1 \/ i \in 1 .. k
  BY <1>1
<1>6. ASSUME NEW i \in 1 .. Len(a)
      PROVE  l <= a[i] /\ a[i] <= h
  <2>1. CASE i = k + 1
    BY <1>1, <1>3, <2>1
  <2>2. CASE i \in 1 .. k
    <3>1. a[i] = s[i] /\ s[i] \in Nat /\ low <= s[i] /\ s[i] <= high
      BY <1>1, <1>4, <2>2
    <3> QED
      BY <1>3, <3>1
  <2> QED
    BY <1>5, <2>1, <2>2
<1>7. \E i \in 1 .. Len(a) : a[i] = l
  <2>1. CASE l = n
    BY <1>1, <1>5, <2>1
  <2>2. CASE l = low /\ s # <<>>
    BY <1>1, <1>4, <1>5, <2>2
  <2>3. CASE l # n /\ s = <<>>
    BY <1>3, <1>4, <2>3
  <2> QED
    BY <1>3, <2>1, <2>2, <2>3
<1>8. \E i \in 1 .. Len(a) : a[i] = h
  <2>1. CASE h = n
    BY <1>1, <1>5, <2>1
  <2>2. CASE h = high /\ s # <<>>
    BY <1>1, <1>4, <1>5, <2>2
  <2>3. CASE h # n /\ s = <<>>
    BY <1>3, <1>4, <2>3
  <2> QED
    BY <1>3, <2>1, <2>2, <2>3
<1> QED
  BY <1>1, <1>2, <1>6, <1>7, <1>8 DEF TotalsOf, a, l, h

=============================================================================
