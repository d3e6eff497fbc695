------------------------------ MODULE WellOrder ------------------------------
(***************************************************************************)
(* Induction over natural numbers and finite sets, in a form in which it   *)
(* can be cited: the prover cannot instantiate the library's induction     *)
(* theorems, which take the property as a parameter.  Then lemmas on the   *)
(* sums of the community modules: the order in which elements are chosen   *)
(* does not matter.  Last, that a recursive function over the natural      *)
(* numbers that iterates another one exists.                               *)
(***************************************************************************)
EXTENDS Integers, Functions, FiniteSetsExt, FiniteSetTheorems, WellFoundedInduction, TLAPS

\* Some number of a set is the least.  (For a proof by induction, take the set of
\* numbers without the property.)
LEMMA LeastNatural ==
    ASSUME NEW numbers \in SUBSET Nat, numbers # {}
    PROVE  \E n \in numbers : \A m \in numbers : n <= m
<1>. DEFINE less == {pair \in Nat \X Nat : pair[1] < pair[2]}
<1>1. IsWellFoundedOn(less, Nat)
  BY NatLessThanWellFounded DEF OpToRel
<1>2. PICK n \in numbers : \A m \in numbers : <<m, n>> \notin less
  <2>. HIDE DEF less
  <2>. QED  BY <1>1, WFMin
<1>3. ASSUME NEW m \in numbers PROVE n <= m
  <2>1. ~(m < n)
    BY <1>2
  <2>. QED  BY <2>1
<1>. QED  BY <1>3

\* The same for finite sets and their cardinalities.
LEMMA LeastFiniteSet ==
    ASSUME NEW sets, sets # {}, \A S \in sets : IsFiniteSet(S)
    PROVE  \E S \in sets : \A T \in sets : Cardinality(S) <= Cardinality(T)
<1>. DEFINE numbers == {Cardinality(S) : S \in sets}
<1>1. numbers \in SUBSET Nat /\ numbers # {}
  BY FS_CardinalityType
<1>2. PICK n \in numbers : \A m \in numbers : n <= m
  <2>. HIDE DEF numbers
  <2>. QED  BY <1>1, LeastNatural
<1>3. PICK S \in sets : n = Cardinality(S)
  OBVIOUS
<1>. QED  BY <1>2, <1>3

LEMMA RemovingMakesSmaller ==
    ASSUME NEW S, IsFiniteSet(S)
    PROVE  \A x \in S : ~(Cardinality(S) <= Cardinality(S \ {x}))
<1>. TAKE x \in S
<1>1. Cardinality(S) \in Nat
  BY FS_CardinalityType
<1>2. Cardinality(S \ {x}) = Cardinality(S) - 1
  BY FS_RemoveElement
<1>. QED  BY <1>1, <1>2

\* A finite set that is not empty has a greatest element in a strict total order.
LEMMA GreatestElement ==
    ASSUME NEW S, IsFiniteSet(S), S # {}, NEW less,
           \A x, y, z \in S : <<x, y>> \in less /\ <<y, z>> \in less => <<x, z>> \in less,
           \A x, y \in S : x # y => <<x, y>> \in less \/ <<y, x>> \in less
    PROVE  \E x \in S : \A y \in S \ {x} : <<y, x>> \in less
<1>. DEFINE Greatest(T) == \E x \in T : \A y \in T \ {x} : <<y, x>> \in less
            without == {T \in SUBSET S : T # {} /\ ~Greatest(T)}
<1>1. SUFFICES ASSUME without # {} PROVE FALSE
  OBVIOUS
<1>2. PICK T \in without : \A R \in without : Cardinality(T) <= Cardinality(R)
  <2>1. \A R \in without : IsFiniteSet(R)
    BY FS_Subset
  <2>. HIDE DEF without
  <2>. QED  BY <1>1, <2>1, LeastFiniteSet
<1>3. T \in SUBSET S /\ T # {} /\ ~Greatest(T) /\ IsFiniteSet(T)
  BY <1>2, FS_Subset
<1>4. PICK x \in T : TRUE
  BY <1>3
<1>5. T \ {x} # {}
  BY <1>3, <1>4
<1>6. Greatest(T \ {x})
  <2>1. ~(Cardinality(T) <= Cardinality(T \ {x}))
    BY <1>3, <1>4, RemovingMakesSmaller
  <2>2. T \ {x} \notin without
    <3>. HIDE DEF without
    <3>. QED  BY <1>2, <2>1
  <2>. QED  BY <1>3, <1>5, <2>2
<1>7. PICK z \in T \ {x} : \A y \in (T \ {x}) \ {z} : <<y, z>> \in less
  BY <1>6
<1>8. CASE <<x, z>> \in less
  BY <1>3, <1>7, <1>8
<1>9. CASE <<z, x>> \in less
  BY <1>3, <1>4, <1>7, <1>9
<1>. QED  BY <1>3, <1>4, <1>7, <1>8, <1>9

----------------------------------------------------------------------------
(* Sums over finite sets *)

Pick(s) == CHOOSE x \in s : TRUE

\* g is a sum of weights over the sets in some family, by its recursive definition.
IsSum(g, weight, family) ==
    g = [s \in family |-> IF s = {} THEN 0 ELSE weight[Pick(s)] + g[s \ {Pick(s)}]]

SumOf(weight, S) == (CHOOSE g : IsSum(g, weight, SUBSET S))[S]

LEMMA SumFunctionIsSum ==
    ASSUME NEW weight, NEW S
    PROVE  SumFunctionOnSet(weight, S) = SumOf(weight, S)
  BY DEF SumFunctionOnSet, FoldFunctionOnSet, MapThenFoldSet, SumOf, IsSum, Pick

LEMMA PickPicks == \A s : s # {} => Pick(s) \in s
  BY DEF Pick

\* Subsets of S of limited size.
Small(S, n) == {s \in SUBSET S : Cardinality(s) <= n}

LEMMA SmallerIsSmall ==
    ASSUME NEW S, IsFiniteSet(S), NEW n \in Nat, NEW s \in Small(S, n), s # {}
    PROVE  n # 0 /\ s \ {Pick(s)} \in Small(S, n - 1) /\ s \ {Pick(s)} \in Small(S, n)
<1>1. IsFiniteSet(s) /\ s \in SUBSET S /\ Cardinality(s) <= n /\ Pick(s) \in s
  BY FS_Subset, PickPicks DEF Small
<1>2. Cardinality(s) \in Nat /\ Cardinality(s) # 0
  BY <1>1, FS_CardinalityType, FS_EmptySet
<1>3. Cardinality(s \ {Pick(s)}) = Cardinality(s) - 1
  BY <1>1, FS_RemoveElement
<1>. QED  BY <1>1, <1>2, <1>3 DEF Small

LEMMA SumsExist ==
    ASSUME NEW S, IsFiniteSet(S), NEW weight
    PROVE  \E g : IsSum(g, weight, SUBSET S)
<1>. DEFINE Exists(n) == \E g : IsSum(g, weight, Small(S, n))
            without == {n \in Nat : ~Exists(n)}
<1>1. Exists(Cardinality(S)) => \E g : IsSum(g, weight, SUBSET S)
  <2>1. Small(S, Cardinality(S)) = SUBSET S
    BY FS_Subset DEF Small
  <2>. QED  BY <2>1
<1>2. Cardinality(S) \in Nat
  BY FS_CardinalityType
<1>3. SUFFICES ASSUME without # {} PROVE FALSE
  BY <1>1, <1>2
<1>4. PICK n \in without : \A m \in without : n <= m
  <2>1. without \in SUBSET Nat
    OBVIOUS
  <2>. HIDE DEF without
  <2>. QED  BY <1>3, <2>1, LeastNatural
<1>5. n \in Nat /\ ~Exists(n)
  BY <1>4
<1>6. CASE n = 0
  <2>. DEFINE g == [s \in Small(S, 0) |-> 0]
  <2>1. \A s \in Small(S, 0) : s = {}
    BY SmallerIsSmall
  <2>2. IsSum(g, weight, Small(S, 0))
    BY <2>1 DEF IsSum
  <2>. QED  BY <1>5, <1>6, <2>2
<1>7. CASE n # 0
  <2>1. n - 1 \in Nat /\ ~(n <= n - 1)
    BY <1>5, <1>7
  <2>2. Exists(n - 1)
    <3>1. n - 1 \notin without
      <4>. HIDE DEF without
      <4>. QED  BY <1>4, <2>1
    <3>. QED  BY <2>1, <3>1
  <2>3. PICK h : IsSum(h, weight, Small(S, n - 1))
    BY <2>2
  <2>. DEFINE g == [s \in Small(S, n) |->
                      IF s = {} THEN 0 ELSE weight[Pick(s)] + h[s \ {Pick(s)}]]
  <2>4. ASSUME NEW r \in Small(S, n - 1) PROVE g[r] = h[r]
    <3>1. r \in Small(S, n)
      <4>1. Cardinality(r) \in Nat /\ Cardinality(r) <= n - 1 /\ r \in SUBSET S
        BY FS_Subset, FS_CardinalityType DEF Small
      <4>. QED  BY <1>5, <4>1 DEF Small
    <3>2. h[r] = IF r = {} THEN 0 ELSE weight[Pick(r)] + h[r \ {Pick(r)}]
      BY <2>3 DEF IsSum
    <3>. QED  BY <3>1, <3>2
  <2>5. ASSUME NEW s \in Small(S, n)
        PROVE  g[s] = IF s = {} THEN 0 ELSE weight[Pick(s)] + g[s \ {Pick(s)}]
    <3>1. s # {} => g[s \ {Pick(s)}] = h[s \ {Pick(s)}]
      BY <1>5, <2>4, SmallerIsSmall
    <3>. QED  BY <3>1
  <2>6. IsSum(g, weight, Small(S, n))
    <3>1. g = [s \in Small(S, n) |-> g[s]]
      OBVIOUS
    <3>. HIDE DEF g
    <3>. QED  BY <2>5, <3>1 DEF IsSum
  <2>. QED  BY <1>5, <2>6
<1>. QED  BY <1>6, <1>7

SameOn(g, h, sets) == \A r \in sets : g[r] = h[r]

LEMMA SumsAgree ==
    ASSUME NEW S, IsFiniteSet(S), NEW T, NEW weight, NEW g, NEW h,
           IsSum(g, weight, SUBSET S), IsSum(h, weight, SUBSET T)
    PROVE  SameOn(g, h, SUBSET (S \cap T))
<1>. DEFINE without == {r \in SUBSET (S \cap T) : g[r] # h[r]}
<1>1. SUFFICES ASSUME without # {} PROVE FALSE
  BY DEF SameOn
<1>2. \A r \in SUBSET (S \cap T) : IsFiniteSet(r)
  BY FS_Subset
<1>3. PICK r \in without : \A s \in without : Cardinality(r) <= Cardinality(s)
  <2>1. \A s \in without : IsFiniteSet(s)
    BY <1>2
  <2>. HIDE DEF without
  <2>. QED  BY <1>1, <2>1, LeastFiniteSet
<1>4. /\ g[r] = IF r = {} THEN 0 ELSE weight[Pick(r)] + g[r \ {Pick(r)}]
      /\ h[r] = IF r = {} THEN 0 ELSE weight[Pick(r)] + h[r \ {Pick(r)}]
  BY <1>3 DEF IsSum
<1>5. r # {}
  BY <1>3, <1>4
<1>6. ~(Cardinality(r) <= Cardinality(r \ {Pick(r)}))
  BY <1>2, <1>3, <1>5, PickPicks, RemovingMakesSmaller
<1>7. r \ {Pick(r)} \notin without
  <2>. HIDE DEF without
  <2>. QED  BY <1>3, <1>6
<1>. QED  BY <1>3, <1>4, <1>5, <1>7

LEMMA SumIsSum == \A S : IsFiniteSet(S) => \A weight :
    \E g : IsSum(g, weight, SUBSET S) /\ SumOf(weight, S) = g[S]
<1>. SUFFICES ASSUME NEW S, IsFiniteSet(S), NEW weight
              PROVE  \E g : IsSum(g, weight, SUBSET S) /\ SumOf(weight, S) = g[S]
  OBVIOUS
<1>. DEFINE f == CHOOSE f : IsSum(f, weight, SUBSET S)
<1>1. IsSum(f, weight, SUBSET S)
  BY SumsExist
<1>. QED  BY <1>1 DEF SumOf

LEMMA SumByPick ==
    ASSUME NEW S, IsFiniteSet(S), NEW weight
    PROVE  SumOf(weight, S) = IF S = {} THEN 0
                              ELSE weight[Pick(S)] + SumOf(weight, S \ {Pick(S)})
<1>1. PICK g : IsSum(g, weight, SUBSET S) /\ SumOf(weight, S) = g[S]
  BY SumIsSum
<1>2. g[S] = IF S = {} THEN 0 ELSE weight[Pick(S)] + g[S \ {Pick(S)}]
  BY <1>1 DEF IsSum
<1>. DEFINE R == S \ {Pick(S)}
<1>3. IsFiniteSet(R) /\ R \in SUBSET (S \cap R)
  BY FS_Subset
<1>. HIDE DEF R
<1>4. PICK h : IsSum(h, weight, SUBSET R) /\ SumOf(weight, R) = h[R]
  BY <1>3, SumIsSum
<1>5. g[R] = h[R]
  <2>1. IsSum(g, weight, SUBSET S) /\ IsSum(h, weight, SUBSET R)
    BY <1>1, <1>4
  <2>2. SameOn(g, h, SUBSET (S \cap R))
    BY ONLY IsFiniteSet(S), <2>1, SumsAgree
  <2>. QED  BY ONLY <1>3, <2>2 DEF SameOn
<1>. QED  BY <1>1, <1>2, <1>4, <1>5 DEF R

LEMMA SumIsNatural ==
    ASSUME NEW S, IsFiniteSet(S), NEW weight, \A x \in S : weight[x] \in Nat
    PROVE  SumOf(weight, S) \in Nat
<1>. DEFINE without == {r \in SUBSET S : SumOf(weight, r) \notin Nat}
<1>1. SUFFICES ASSUME without # {} PROVE FALSE
  OBVIOUS
<1>2. \A r \in SUBSET S : IsFiniteSet(r)
  BY FS_Subset
<1>3. PICK r \in without : \A s \in without : Cardinality(r) <= Cardinality(s)
  <2>1. \A s \in without : IsFiniteSet(s)
    BY <1>2
  <2>. HIDE DEF without
  <2>. QED  BY <1>1, <2>1, LeastFiniteSet
<1>4. SumOf(weight, r) = IF r = {} THEN 0 ELSE weight[Pick(r)] + SumOf(weight, r \ {Pick(r)})
  BY <1>2, <1>3, SumByPick
<1>5. r # {}
  BY <1>3, <1>4
<1>6. Pick(r) \in S /\ ~(Cardinality(r) <= Cardinality(r \ {Pick(r)}))
  BY <1>2, <1>3, <1>5, PickPicks, RemovingMakesSmaller
<1>7. r \ {Pick(r)} \notin without
  <2>. HIDE DEF without
  <2>. QED  BY <1>3, <1>6
<1>. QED  BY <1>3, <1>4, <1>5, <1>6, <1>7

LEMMA SumIsInteger ==
    ASSUME NEW S, IsFiniteSet(S), NEW weight, \A x \in S : weight[x] \in Int
    PROVE  SumOf(weight, S) \in Int
<1>. DEFINE without == {r \in SUBSET S : SumOf(weight, r) \notin Int}
<1>1. SUFFICES ASSUME without # {} PROVE FALSE
  OBVIOUS
<1>2. \A r \in SUBSET S : IsFiniteSet(r)
  BY FS_Subset
<1>3. PICK r \in without : \A s \in without : Cardinality(r) <= Cardinality(s)
  <2>1. \A s \in without : IsFiniteSet(s)
    BY <1>2
  <2>. HIDE DEF without
  <2>. QED  BY <1>1, <2>1, LeastFiniteSet
<1>4. SumOf(weight, r) = IF r = {} THEN 0 ELSE weight[Pick(r)] + SumOf(weight, r \ {Pick(r)})
  BY <1>2, <1>3, SumByPick
<1>5. r # {}
  BY <1>3, <1>4
<1>6. Pick(r) \in S /\ ~(Cardinality(r) <= Cardinality(r \ {Pick(r)}))
  BY <1>2, <1>3, <1>5, PickPicks, RemovingMakesSmaller
<1>7. r \ {Pick(r)} \notin without
  <2>. HIDE DEF without
  <2>. QED  BY <1>3, <1>6
<1>. QED  BY <1>3, <1>4, <1>5, <1>6, <1>7

\* Any element may be taken out first.
LEMMA SumWithout ==
    ASSUME NEW S, IsFiniteSet(S), NEW weight, \A x \in S : weight[x] \in Int
    PROVE  \A x \in S : SumOf(weight, S) = weight[x] + SumOf(weight, S \ {x})
<1>. DEFINE Without(r) == \A x \in r : SumOf(weight, r) = weight[x] + SumOf(weight, r \ {x})
            without == {r \in SUBSET S : ~Without(r)}
<1>1. SUFFICES ASSUME without # {} PROVE FALSE
  OBVIOUS
<1>2. \A r \in SUBSET S : IsFiniteSet(r)
  BY FS_Subset
<1>3. PICK r \in without : \A s \in without : Cardinality(r) <= Cardinality(s)
  <2>1. \A s \in without : IsFiniteSet(s)
    BY <1>2
  <2>. HIDE DEF without
  <2>. QED  BY <1>1, <2>1, LeastFiniteSet
<1>4. r \in SUBSET S /\ ~Without(r) /\ IsFiniteSet(r)
  BY <1>2, <1>3
<1>5. PICK x \in r : SumOf(weight, r) # weight[x] + SumOf(weight, r \ {x})
  BY <1>4
<1>6. \A y \in r : Without(r \ {y})
  <2>. TAKE y \in r
  <2>1. ~(Cardinality(r) <= Cardinality(r \ {y}))
    BY <1>4, RemovingMakesSmaller
  <2>2. r \ {y} \notin without
    <3>. HIDE DEF without
    <3>. QED  BY <1>3, <2>1
  <2>. QED  BY <1>4, <2>2
<1>. DEFINE p == Pick(r)
<1>7. p \in r /\ SumOf(weight, r) = weight[p] + SumOf(weight, r \ {p})
  BY <1>4, <1>5, PickPicks, SumByPick
<1>. HIDE DEF p
<1>8. x # p
  BY <1>5, <1>7
<1>9. /\ SumOf(weight, r \ {p}) = weight[x] + SumOf(weight, (r \ {p}) \ {x})
      /\ SumOf(weight, r \ {x}) = weight[p] + SumOf(weight, (r \ {x}) \ {p})
  BY <1>5, <1>6, <1>7, <1>8
<1>10. (r \ {p}) \ {x} = (r \ {x}) \ {p}
  OBVIOUS
<1>11. weight[x] \in Int /\ weight[p] \in Int /\ SumOf(weight, (r \ {x}) \ {p}) \in Int
  BY <1>2, <1>4, <1>5, <1>7, SumIsInteger
<1>12. SumOf(weight, r) = weight[p] + (weight[x] + SumOf(weight, (r \ {x}) \ {p}))
  BY <1>7, <1>9, <1>10
<1>13. SumOf(weight, r) = weight[x] + (weight[p] + SumOf(weight, (r \ {x}) \ {p}))
  BY <1>11, <1>12
<1>. QED  BY <1>5, <1>9, <1>13

\* A sum depends on the weights of its elements only.
LEMMA SumOfSame ==
    ASSUME NEW S, IsFiniteSet(S), NEW v, NEW w, \A x \in S : v[x] = w[x]
    PROVE  SumOf(v, S) = SumOf(w, S)
<1>. DEFINE without == {r \in SUBSET S : SumOf(v, r) # SumOf(w, r)}
<1>1. SUFFICES ASSUME without # {} PROVE FALSE
  OBVIOUS
<1>2. \A r \in SUBSET S : IsFiniteSet(r)
  BY FS_Subset
<1>3. PICK r \in without : \A s \in without : Cardinality(r) <= Cardinality(s)
  <2>1. \A s \in without : IsFiniteSet(s)
    BY <1>2
  <2>. HIDE DEF without
  <2>. QED  BY <1>1, <2>1, LeastFiniteSet
<1>4. /\ SumOf(v, r) = IF r = {} THEN 0 ELSE v[Pick(r)] + SumOf(v, r \ {Pick(r)})
      /\ SumOf(w, r) = IF r = {} THEN 0 ELSE w[Pick(r)] + SumOf(w, r \ {Pick(r)})
  BY <1>2, <1>3, SumByPick
<1>5. r # {}
  BY <1>3, <1>4
<1>6. Pick(r) \in S /\ ~(Cardinality(r) <= Cardinality(r \ {Pick(r)}))
  BY <1>2, <1>3, <1>5, PickPicks, RemovingMakesSmaller
<1>7. r \ {Pick(r)} \notin without
  <2>. HIDE DEF without
  <2>. QED  BY <1>3, <1>6
<1>. QED  BY <1>3, <1>4, <1>5, <1>6, <1>7

\* One weight changes.
LEMMA SumChanges ==
    ASSUME NEW S, IsFiniteSet(S), NEW v, NEW w, NEW x \in S,
           \A y \in S : v[y] \in Int /\ w[y] \in Int,
           \A y \in S : y # x => v[y] = w[y]
    PROVE  /\ SumOf(v, S) \in Int /\ SumOf(w, S) \in Int
           /\ SumOf(v, S) = SumOf(w, S) - w[x] + v[x]
<1>1. IsFiniteSet(S \ {x})
  BY FS_Subset
<1>2. SumOf(v, S \ {x}) = SumOf(w, S \ {x})
  BY <1>1, SumOfSame
<1>3. SumOf(v, S) = v[x] + SumOf(v, S \ {x}) /\ SumOf(w, S) = w[x] + SumOf(w, S \ {x})
  BY SumWithout
<1>4. SumOf(w, S \ {x}) \in Int
  BY <1>1, SumIsInteger
<1>. QED  BY <1>2, <1>3, <1>4

\* Elements without a weight do not matter.
LEMMA SumOfZeros ==
    ASSUME NEW S, IsFiniteSet(S), NEW w, \A x \in S : w[x] \in Int
    PROVE  \A T \in SUBSET S : (\A x \in S \ T : w[x] = 0) => SumOf(w, S) = SumOf(w, T)
<1>. SUFFICES ASSUME NEW T \in SUBSET S, \A x \in S \ T : w[x] = 0
              PROVE  SumOf(w, S) = SumOf(w, T)
  OBVIOUS
<1>. DEFINE without == {r \in SUBSET S : T \subseteq r /\ SumOf(w, r) # SumOf(w, T)}
<1>1. SUFFICES ASSUME without # {} PROVE FALSE
  OBVIOUS
<1>2. \A r \in SUBSET S : IsFiniteSet(r)
  BY FS_Subset
<1>3. PICK r \in without : \A s \in without : Cardinality(r) <= Cardinality(s)
  <2>1. \A s \in without : IsFiniteSet(s)
    BY <1>2
  <2>. HIDE DEF without
  <2>. QED  BY <1>1, <2>1, LeastFiniteSet
<1>4. r \in SUBSET S /\ IsFiniteSet(r) /\ T \subseteq r /\ SumOf(w, r) # SumOf(w, T)
  BY <1>2, <1>3
<1>5. PICK x \in r \ T : TRUE
  BY <1>4
<1>6. r \ {x} \notin without
  <2>1. ~(Cardinality(r) <= Cardinality(r \ {x}))
    BY <1>4, <1>5, RemovingMakesSmaller
  <2>. HIDE DEF without
  <2>. QED  BY <1>3, <2>1
<1>7. SumOf(w, r \ {x}) = SumOf(w, T)
  BY <1>4, <1>5, <1>6
<1>8. SumOf(w, r) = w[x] + SumOf(w, r \ {x})
  <2>1. \A y \in r : w[y] \in Int
    BY <1>4
  <2>. QED  BY <1>4, <1>5, <2>1, SumWithout
<1>9. SumOf(w, r \ {x}) \in Int /\ w[x] = 0
  <2>1. IsFiniteSet(r \ {x}) /\ \A y \in r \ {x} : w[y] \in Int
    BY <1>2, <1>4
  <2>. QED  BY <1>4, <1>5, <2>1, SumIsInteger
<1>. QED  BY <1>4, <1>7, <1>8, <1>9

LEMMA SumOfDifference ==
    ASSUME NEW S, IsFiniteSet(S), NEW u, NEW v, NEW w,
           \A x \in S : v[x] \in Int /\ w[x] \in Int /\ u[x] = v[x] - w[x]
    PROVE  SumOf(u, S) = SumOf(v, S) - SumOf(w, S)
<1>. DEFINE Differs(r) == SumOf(u, r) = SumOf(v, r) - SumOf(w, r)
            without == {r \in SUBSET S : ~Differs(r)}
<1>1. SUFFICES ASSUME without # {} PROVE FALSE
  OBVIOUS
<1>2. \A r \in SUBSET S : IsFiniteSet(r)
  BY FS_Subset
<1>3. PICK r \in without : \A s \in without : Cardinality(r) <= Cardinality(s)
  <2>1. \A s \in without : IsFiniteSet(s)
    BY <1>2
  <2>. HIDE DEF without
  <2>. QED  BY <1>1, <2>1, LeastFiniteSet
<1>4. r \in SUBSET S /\ IsFiniteSet(r) /\ ~Differs(r)
  BY <1>2, <1>3
<1>5. /\ SumOf(u, r) = IF r = {} THEN 0 ELSE u[Pick(r)] + SumOf(u, r \ {Pick(r)})
      /\ SumOf(v, r) = IF r = {} THEN 0 ELSE v[Pick(r)] + SumOf(v, r \ {Pick(r)})
      /\ SumOf(w, r) = IF r = {} THEN 0 ELSE w[Pick(r)] + SumOf(w, r \ {Pick(r)})
  BY <1>4, SumByPick
<1>6. r # {}
  BY <1>4, <1>5
<1>. DEFINE x == Pick(r)
            rest == r \ {x}
<1>7. x \in S /\ rest \in SUBSET S /\ IsFiniteSet(rest) /\ Differs(rest)
  <2>1. x \in S /\ ~(Cardinality(r) <= Cardinality(rest))
    BY <1>4, <1>6, PickPicks, RemovingMakesSmaller
  <2>2. rest \notin without
    <3>. HIDE DEF without, rest
    <3>. QED  BY <1>3, <2>1
  <2>. QED  BY <1>2, <1>4, <2>1, <2>2
<1>8. SumOf(v, rest) \in Int /\ SumOf(w, rest) \in Int
  <2>1. \A y \in rest : v[y] \in Int /\ w[y] \in Int
    BY <1>7
  <2>. HIDE DEF rest
  <2>. QED  BY <1>7, <2>1, SumIsInteger
<1>9. v[x] \in Int /\ w[x] \in Int /\ u[x] = v[x] - w[x]
  BY <1>7
<1>. HIDE DEF x
<1>. QED  BY <1>4, <1>5, <1>6, <1>7, <1>8, <1>9 DEF x

\* A sum of zeros and ones counts the ones.
LEMMA SumOfOnes ==
    ASSUME NEW S, IsFiniteSet(S), NEW w, \A x \in S : w[x] \in {0, 1}
    PROVE  SumOf(w, S) = Cardinality({x \in S : w[x] = 1})
<1>. DEFINE Ones(r) == {x \in r : w[x] = 1}
            without == {r \in SUBSET S : SumOf(w, r) # Cardinality(Ones(r))}
<1>1. SUFFICES ASSUME without # {} PROVE FALSE
  OBVIOUS
<1>2. \A r \in SUBSET S : IsFiniteSet(r)
  BY FS_Subset
<1>3. PICK r \in without : \A s \in without : Cardinality(r) <= Cardinality(s)
  <2>1. \A s \in without : IsFiniteSet(s)
    BY <1>2
  <2>. HIDE DEF without
  <2>. QED  BY <1>1, <2>1, LeastFiniteSet
<1>4. r \in SUBSET S /\ IsFiniteSet(r) /\ SumOf(w, r) # Cardinality(Ones(r))
  BY <1>2, <1>3
<1>5. SumOf(w, r) = IF r = {} THEN 0 ELSE w[Pick(r)] + SumOf(w, r \ {Pick(r)})
  BY <1>4, SumByPick
<1>6. r # {}
  <2>1. Ones({}) = {} /\ Cardinality({}) = 0
    BY FS_EmptySet
  <2>. QED  BY <1>4, <1>5, <2>1
<1>. DEFINE x == Pick(r)
            rest == r \ {x}
<1>7. x \in r /\ rest \in SUBSET S /\ SumOf(w, rest) = Cardinality(Ones(rest))
  <2>1. x \in r /\ ~(Cardinality(r) <= Cardinality(rest))
    BY <1>4, <1>6, PickPicks, RemovingMakesSmaller
  <2>2. rest \notin without
    <3>. HIDE DEF without, rest
    <3>. QED  BY <1>3, <2>1
  <2>. QED  BY <1>4, <2>1, <2>2
<1>8. IsFiniteSet(Ones(rest)) /\ Cardinality(Ones(rest)) \in Nat
  <2>1. Ones(rest) \in SUBSET S
    BY <1>7
  <2>. QED  BY <1>2, <2>1, FS_CardinalityType
<1>9. CASE w[x] = 1
  <2>1. Ones(r) = Ones(rest) \cup {x} /\ x \notin Ones(rest)
    BY <1>7, <1>9
  <2>2. Cardinality(Ones(r)) = Cardinality(Ones(rest)) + 1
    <3>. HIDE DEF Ones, rest
    <3>. QED  BY <1>8, <2>1, FS_AddElement
  <2>. QED  BY <1>4, <1>5, <1>6, <1>7, <1>8, <1>9, <2>2
<1>10. CASE w[x] # 1
  <2>1. Ones(r) = Ones(rest) /\ w[x] = 0
    BY <1>4, <1>7, <1>10
  <2>. QED  BY <1>4, <1>5, <1>6, <1>7, <1>8, <2>1
<1>. QED  BY <1>9, <1>10

\* Only one element has a weight.
LEMMA SumOfSingle ==
    ASSUME NEW S, IsFiniteSet(S), NEW w, NEW x \in S, w[x] \in Int,
           \A y \in S : y # x => w[y] = 0
    PROVE  SumOf(w, S) = w[x]
<1>. DEFINE v == [y \in S |-> 0]
<1>1. SumOf(v, S) = 0
  <2>1. {y \in S : v[y] = 1} = {} /\ \A y \in S : v[y] \in {0, 1}
    OBVIOUS
  <2>. HIDE DEF v
  <2>2. SumOf(v, S) = Cardinality({y \in S : v[y] = 1})
    BY <2>1, SumOfOnes
  <2>. QED  BY <2>1, <2>2, FS_EmptySet
<1>2. /\ \A y \in S : w[y] \in Int /\ v[y] \in Int
      /\ \A y \in S : y # x => w[y] = v[y]
      /\ v[x] = 0
  OBVIOUS
<1>. HIDE DEF v
<1>3. SumOf(w, S) = SumOf(v, S) - v[x] + w[x]
  BY <1>2, SumChanges
<1>. QED  BY <1>1, <1>2, <1>3

----------------------------------------------------------------------------
(* Iteration: the function that a recursive definition over the natural numbers names. *)

Iterates(f, first, next, n) == f[0] = first /\ \A k \in 0 .. n - 1 : f[k + 1] = next[f[k]]

LEMMA IterationsExist ==
    ASSUME NEW S, NEW first \in S, NEW next \in [S -> S]
    PROVE  \A n \in Nat : \E f \in [0 .. n -> S] : Iterates(f, first, next, n)
<1>. DEFINE Exists(n) == \E f \in [0 .. n -> S] : Iterates(f, first, next, n)
            without == {n \in Nat : ~Exists(n)}
<1>1. SUFFICES ASSUME without # {} PROVE FALSE
  OBVIOUS
<1>2. PICK n \in without : \A m \in without : n <= m
  <2>1. without \in SUBSET Nat
    OBVIOUS
  <2>. HIDE DEF without
  <2>. QED  BY <1>1, <2>1, LeastNatural
<1>3. n \in Nat /\ ~Exists(n)
  BY <1>2
<1>4. CASE n = 0
  <2>. DEFINE f == [k \in 0 .. 0 |-> first]
  <2>1. f \in [0 .. 0 -> S] /\ Iterates(f, first, next, 0)
    BY DEF Iterates
  <2>. QED  BY <1>3, <1>4, <2>1
<1>5. CASE n # 0
  <2>1. n - 1 \in Nat /\ ~(n <= n - 1)
    BY <1>3, <1>5
  <2>2. Exists(n - 1)
    <3>1. n - 1 \notin without
      <4>. HIDE DEF without
      <4>. QED  BY <1>2, <2>1
    <3>. QED  BY <2>1, <3>1
  <2>3. PICK g \in [0 .. n - 1 -> S] : Iterates(g, first, next, n - 1)
    BY <2>2
  <2>. DEFINE f == [k \in 0 .. n |-> IF k = n THEN next[g[n - 1]] ELSE g[k]]
  <2>4. f \in [0 .. n -> S]
    BY <1>3, <2>1, <2>3
  <2>5. f[0] = first
    BY <1>3, <1>5, <2>3 DEF Iterates
  <2>6. ASSUME NEW k \in 0 .. n - 1 PROVE f[k + 1] = next[f[k]]
    <3>1. f[k] = g[k]
      BY <1>3, <2>6
    <3>2. CASE k = n - 1
      BY <1>3, <3>1, <3>2
    <3>3. CASE k # n - 1
      <4>1. k \in 0 .. (n - 1) - 1 /\ k + 1 \in 0 .. n /\ k + 1 # n
        BY <1>3, <3>3
      <4>2. f[k + 1] = g[k + 1] /\ g[k + 1] = next[g[k]]
        BY <2>3, <4>1 DEF Iterates
      <4>. QED  BY <3>1, <4>2
    <3>. QED  BY <3>2, <3>3
  <2>. QED  BY <1>3, <2>4, <2>5, <2>6 DEF Iterates
<1>. QED  BY <1>4, <1>5

LEMMA IterationsAgree ==
    ASSUME NEW first, NEW next, NEW f, NEW g, NEW n \in Nat,
           Iterates(f, first, next, n), Iterates(g, first, next, n)
    PROVE  \A k \in 0 .. n : f[k] = g[k]
<1>. DEFINE without == {k \in Nat : k <= n /\ f[k] # g[k]}
<1>1. SUFFICES ASSUME without # {} PROVE FALSE
  OBVIOUS
<1>2. PICK k \in without : \A m \in without : k <= m
  <2>1. without \in SUBSET Nat
    OBVIOUS
  <2>. HIDE DEF without
  <2>. QED  BY <1>1, <2>1, LeastNatural
<1>3. k \in Nat /\ k <= n /\ f[k] # g[k]
  BY <1>2
<1>4. k # 0
  BY <1>3 DEF Iterates
<1>5. k - 1 \in 0 .. n - 1 /\ k - 1 \in Nat /\ k - 1 <= n /\ ~(k <= k - 1)
  BY <1>3, <1>4
<1>6. f[k - 1] = g[k - 1]
  <2>1. k - 1 \notin without
    <3>. HIDE DEF without
    <3>. QED  BY <1>2, <1>5
  <2>. QED  BY <1>5, <2>1
<1>7. f[(k - 1) + 1] = g[(k - 1) + 1]
  BY <1>5, <1>6 DEF Iterates
<1>. QED  BY <1>3, <1>7

LEMMA IterationExists ==
    ASSUME NEW S, NEW first \in S, NEW next \in [S -> S]
    PROVE  \E f \in [Nat -> S] : f[0] = first /\ \A k \in Nat : f[k + 1] = next[f[k]]
<1>. DEFINE upto(n) == CHOOSE f \in [0 .. n -> S] : Iterates(f, first, next, n)
            f == [n \in Nat |-> upto(n)[n]]
<1>1. ASSUME NEW n \in Nat
      PROVE  upto(n) \in [0 .. n -> S] /\ Iterates(upto(n), first, next, n)
  BY IterationsExist
<1>. HIDE DEF upto
<1>2. f \in [Nat -> S]
  BY <1>1
<1>3. f[0] = first
  BY <1>1 DEF Iterates
<1>4. ASSUME NEW k \in Nat PROVE f[k + 1] = next[f[k]]
  <2>1. k + 1 \in Nat /\ Iterates(upto(k + 1), first, next, k + 1)
    BY <1>1
  <2>2. upto(k + 1)[k + 1] = next[upto(k + 1)[k]]
    BY <2>1 DEF Iterates
  <2>3. upto(k + 1)[k] = upto(k)[k]
    <3>1. Iterates(upto(k + 1), first, next, k)
      BY <2>1 DEF Iterates
    <3>2. Iterates(upto(k), first, next, k)
      BY <1>1
    <3>3. k \in 0 .. k
      OBVIOUS
    <3>. QED  BY <3>1, <3>2, <3>3, IterationsAgree
  <2>. QED  BY <2>1, <2>2, <2>3
<1>. QED  BY <1>2, <1>3, <1>4
=============================================================================
