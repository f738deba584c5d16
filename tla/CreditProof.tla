---------------------------- MODULE CreditProof -----------------------------
(***************************************************************************)
(* Proofs about what counts credits: Economy, PaymentChannels and          *)
(* Governance, for any accounts, threads, channels, voters and amounts.    *)
(***************************************************************************)
EXTENDS Economy, PaymentChannels, Governance, FiniteSetTheorems, WellFoundedInduction, TLAPS

-----------------------------------------------------------------------------
(* Sums over finite sets.  What SumFunctionOnSet computes is shown by      *)
(* taking a least counterexample.                                          *)

(* Induction over naturals, as a choice: a non-empty set of them has a     *)
(* least member.                                                           *)
LEMMA NatMin ==
    ASSUME NEW T \in SUBSET Nat, T # {}
    PROVE  \E m \in T : \A k \in T : m <= k
<1>1. PICK m \in T : \A k \in T : ~(<<k, m>> \in OpToRel(<, Nat))
  BY WFMin, NatLessThanWellFounded, Zenon
<1>2. OpToRel(<, Nat) = {ss \in Nat \X Nat : ss[1] < ss[2]}
  BY Zenon DEF OpToRel
<1>4. ASSUME NEW k \in T, k < m PROVE <<k, m>> \in {ss \in Nat \X Nat : ss[1] < ss[2]}
  BY <1>4
<1>3. \A k \in T : ~(k < m)
  BY <1>1, <1>2, <1>4, Zenon
<1> QED
  BY <1>3

(* Induction over a finite set, as a choice: of the subsets with a         *)
(* property one is such that no subset with one member less has it.        *)
LEMMA LeastSet ==
    ASSUME NEW W, IsFiniteSet(W), NEW B \in SUBSET (SUBSET W), B # {}
    PROVE  \E s \in B : \A x \in s : (s \ {x}) \notin B
<1> DEFINE sizes == {Cardinality(s) : s \in B}
<1>1. \A s \in B : IsFiniteSet(s) /\ Cardinality(s) \in Nat
  BY FS_Subset, FS_CardinalityType
<1>5. sizes \in SUBSET Nat /\ sizes # {}
  BY <1>1
<1>2. PICK m \in sizes : \A k \in sizes : m <= k
  <2> HIDE DEF sizes
  <2> QED
    BY <1>5, NatMin
<1>3. PICK s \in B : Cardinality(s) = m
  BY <1>2
<1>4. ASSUME NEW x \in s, (s \ {x}) \in B PROVE FALSE
  <2>1. Cardinality(s \ {x}) = Cardinality(s) - 1
    BY <1>1, FS_RemoveElement
  <2>2. m <= Cardinality(s \ {x})
    BY <1>2, <1>4
  <2> QED
    BY <2>1, <2>2, <1>1, <1>3
<1> QED
  BY <1>4

(* The sum of the community modules, step by step.                         *)
Pick(s) == CHOOSE x \in s : TRUE

SumStep(f, g, s) == IF s = {} THEN 0 ELSE f[Pick(s)] + g[s \ {Pick(s)}]

SumFcn(f, S) == CHOOSE g : g = [s \in SUBSET S |-> SumStep(f, g, s)]

(* A sum over S is the value at S of the function that CHOOSE finds.       *)
LEMMA SumDef ==
    ASSUME NEW f, NEW S
    PROVE  SumFunctionOnSet(f, S) = SumFcn(f, S)[S]
BY DEF SumFunctionOnSet, FoldFunctionOnSet, MapThenFoldSet, SumFcn, SumStep, Pick

(* The member that the sum takes first is a member.                        *)
LEMMA PickIn ==
    ASSUME NEW s, s # {}
    PROVE  Pick(s) \in s
BY DEF Pick

(* That function exists: the equation it is chosen for has a solution on   *)
(* the subsets of any finite set.                                          *)
LEMMA SumFcnExists ==
    ASSUME NEW f, NEW S, IsFiniteSet(S)
    PROVE  SumFcn(f, S) = [s \in SUBSET S |-> SumStep(f, SumFcn(f, S), s)]
<1> DEFINE Upto(g, n) == \A s \in SUBSET S : Cardinality(s) <= n => g[s] = SumStep(f, g, s)
           bad == {n \in Nat : ~ \E g : Upto(g, n)}
<1>0. \A s \in SUBSET S : IsFiniteSet(s) /\ Cardinality(s) \in Nat
  BY FS_Subset, FS_CardinalityType
<1>1. ASSUME bad # {} PROVE FALSE
  <2>1. PICK m \in bad : \A k \in bad : m <= k
    BY <1>1, NatMin
  <2>2. Upto([s \in SUBSET S |-> 0], 0)
    BY <1>0, FS_EmptySet DEF SumStep
  <2>3. m # 0 /\ m - 1 \in Nat /\ m - 1 \notin bad
    BY <2>1, <2>2
  <2>4. PICK g : Upto(g, m - 1)
    BY <2>3
  <2> DEFINE h == [s \in SUBSET S |-> SumStep(f, g, s)]
  <2>5. ASSUME NEW s \in SUBSET S, Cardinality(s) <= m PROVE h[s] = SumStep(f, h, s)
    <3>1. CASE s = {}
      BY <3>1 DEF SumStep
    <3>2. CASE s # {}
      <4> DEFINE r == s \ {Pick(s)}
      <4>1. r \in SUBSET S /\ Cardinality(r) <= m - 1
        BY <3>2, <1>0, <2>5, PickIn, FS_RemoveElement
      <4>2. h[r] = SumStep(f, g, r)
        BY <4>1
      <4>3. g[r] = SumStep(f, g, r)
        BY <4>1, <2>4
      <4>4. h[s] = SumStep(f, g, s)
        OBVIOUS
      <4> HIDE DEF h
      <4> QED
        BY <4>2, <4>3, <4>4, <3>2 DEF SumStep
    <3> QED
      BY <3>1, <3>2
  <2>6. Upto(h, m)
    BY <2>5
  <2> QED
    BY <2>1, <2>6
<1>2. Cardinality(S) \in Nat
  BY <1>0
<1>3. PICK g : Upto(g, Cardinality(S))
  BY <1>1, <1>2
<1> DEFINE h == [s \in SUBSET S |-> g[s]]
<1>4. h = [s \in SUBSET S |-> SumStep(f, h, s)]
  <2>1. ASSUME NEW s \in SUBSET S PROVE h[s] = SumStep(f, h, s)
    <3>1. Cardinality(s) <= Cardinality(S)
      BY FS_Subset
    <3>2. g[s] = SumStep(f, g, s)
      BY <3>1, <1>3
    <3>3. SumStep(f, h, s) = SumStep(f, g, s)
      BY PickIn DEF SumStep
    <3> QED
      BY <3>2, <3>3
  <2>2. h = [s \in SUBSET S |-> h[s]]
    OBVIOUS
  <2> HIDE DEF h
  <2> QED
    BY <2>1, <2>2
<1> HIDE DEF h
<1> QED
  BY <1>4 DEF SumFcn

(* Its equation, at one subset.                                            *)
LEMMA SumFcnStep ==
    ASSUME NEW f, NEW S, IsFiniteSet(S), NEW s \in SUBSET S
    PROVE  SumFcn(f, S)[s] = SumStep(f, SumFcn(f, S), s)
<1> DEFINE g == SumFcn(f, S)
           h == [r \in SUBSET S |-> SumStep(f, g, r)]
<1>1. g = h
  BY SumFcnExists
<1>2. h[s] = SumStep(f, g, s)
  OBVIOUS
<1> HIDE DEF g, h
<1>3. g[s] = SumStep(f, g, s)
  BY <1>1, <1>2
<1> QED
  BY <1>3 DEF g

(* The recursion over the subsets of S, restricted to the subsets of T.    *)
LEMMA SumFcnSubset ==
    ASSUME NEW f, NEW S, IsFiniteSet(S), NEW T \in SUBSET S
    PROVE  SumFcn(f, S)[T] = SumFunctionOnSet(f, T)
<1> DEFINE g == SumFcn(f, S)
           h == SumFcn(f, T)
           bad == {s \in SUBSET T : g[s] # h[s]}
<1>0. IsFiniteSet(T)
  BY FS_Subset
<1>1. /\ \A s \in SUBSET T : g[s] = SumStep(f, g, s)
      /\ \A s \in SUBSET T : h[s] = SumStep(f, h, s)
  <2>1. \A s \in SUBSET T : g[s] = SumStep(f, g, s)
    BY SumFcnStep
  <2>2. \A s \in SUBSET T : h[s] = SumStep(f, h, s)
    BY <1>0, SumFcnStep
  <2> QED
    BY <2>1, <2>2
<1> HIDE DEF g, h
<1>2. ASSUME bad # {} PROVE FALSE
  <2>1. PICK s \in bad : \A x \in s : (s \ {x}) \notin bad
    BY <1>0, <1>2, LeastSet
  <2>2. CASE s = {}
    BY <2>2, <2>1, <1>1 DEF SumStep
  <2>3. CASE s # {}
    <3>1. s \ {Pick(s)} \in SUBSET T /\ s \ {Pick(s)} \notin bad
      BY <2>1, <2>3, PickIn
    <3>2. g[s \ {Pick(s)}] = h[s \ {Pick(s)}]
      BY <3>1
    <3> QED
      BY <3>2, <2>1, <2>3, <1>1 DEF SumStep
  <2> QED
    BY <2>2, <2>3
<1>3. g[T] = h[T]
  BY <1>2
<1> QED
  BY <1>3, SumDef DEF g, h

(* A sum is the member taken first plus the sum of the rest.               *)
LEMMA SumUnfold ==
    ASSUME NEW f, NEW S, IsFiniteSet(S)
    PROVE  SumFunctionOnSet(f, S) =
             IF S = {} THEN 0 ELSE f[Pick(S)] + SumFunctionOnSet(f, S \ {Pick(S)})
<1>1. SumFunctionOnSet(f, S) = SumStep(f, SumFcn(f, S), S)
  BY SumDef, SumFcnStep
<1>2. ASSUME S # {} PROVE SumFcn(f, S)[S \ {Pick(S)}] = SumFunctionOnSet(f, S \ {Pick(S)})
  BY SumFcnSubset
<1> QED
  BY <1>1, <1>2 DEF SumStep

(* Nothing adds up to 0.                                                   *)
LEMMA SumEmpty ==
    ASSUME NEW f
    PROVE  SumFunctionOnSet(f, {}) = 0
BY SumUnfold, FS_EmptySet

(* A sum of integers is an integer.                                        *)
LEMMA SumType ==
    ASSUME NEW f, NEW S, IsFiniteSet(S), \A x \in S : f[x] \in Int
    PROVE  SumFunctionOnSet(f, S) \in Int
<1> DEFINE bad == {s \in SUBSET S : SumFunctionOnSet(f, s) \notin Int}
<1>1. ASSUME bad # {} PROVE FALSE
  <2>1. PICK s \in bad : \A x \in s : (s \ {x}) \notin bad
    BY <1>1, LeastSet
  <2>2. s # {} /\ IsFiniteSet(s)
    <3>1. SumFunctionOnSet(f, {}) \in Int
      BY SumEmpty
    <3> QED
      BY <2>1, <3>1, FS_Subset
  <2>3. Pick(s) \in s /\ SumFunctionOnSet(f, s \ {Pick(s)}) \in Int
    BY <2>1, <2>2, PickIn
  <2> QED
    BY <2>1, <2>2, <2>3, SumUnfold
<1> QED
  BY <1>1

(* Whatever element is taken first, the sum is the same.                   *)
LEMMA SumRemove ==
    ASSUME NEW f, NEW S, IsFiniteSet(S), \A x \in S : f[x] \in Int, NEW y \in S
    PROVE  SumFunctionOnSet(f, S) = f[y] + SumFunctionOnSet(f, S \ {y})
<1> DEFINE Sum(s) == SumFunctionOnSet(f, s)
           bad == {s \in SUBSET S : \E x \in s : Sum(s) # f[x] + Sum(s \ {x})}
<1>0. \A s \in SUBSET S : IsFiniteSet(s) /\ Sum(s) \in Int
  BY FS_Subset, SumType
<1>1. ASSUME bad # {} PROVE FALSE
  <2>1. PICK s \in bad : \A x \in s : (s \ {x}) \notin bad
    BY <1>1, LeastSet
  <2>2. PICK x \in s : Sum(s) # f[x] + Sum(s \ {x})
    BY <2>1
  <2> DEFINE z == Pick(s)
  <2>3. z \in s
    BY <2>2, PickIn
  <2>4. Sum(s) = f[z] + Sum(s \ {z})
    BY <2>2, <1>0, <2>1, SumUnfold
  <2> HIDE DEF z, Sum
  <2>5. x # z
    BY <2>2, <2>4
  <2>6. Sum(s \ {z}) = f[x] + Sum((s \ {z}) \ {x})
    BY <2>1, <2>2, <2>3, <2>5
  <2>7. Sum(s \ {x}) = f[z] + Sum((s \ {x}) \ {z})
    BY <2>1, <2>2, <2>3, <2>5
  <2>8. (s \ {x}) \ {z} = (s \ {z}) \ {x}
    OBVIOUS
  <2>9. f[x] \in Int /\ f[z] \in Int /\ Sum((s \ {z}) \ {x}) \in Int
    BY <1>0, <2>1, <2>2, <2>3
  <2> QED
    BY <2>2, <2>4, <2>6, <2>7, <2>8, <2>9
<1> QED
  BY <1>1

(* A new member adds its value.                                            *)
LEMMA SumInsert ==
    ASSUME NEW f, NEW S, IsFiniteSet(S), NEW y, y \notin S,
           \A x \in S \cup {y} : f[x] \in Int
    PROVE  SumFunctionOnSet(f, S \cup {y}) = f[y] + SumFunctionOnSet(f, S)
<1>1. IsFiniteSet(S \cup {y})
  BY FS_AddElement
<1>2. (S \cup {y}) \ {y} = S
  OBVIOUS
<1> QED
  BY <1>1, <1>2, SumRemove

(* A sum depends on the values at its members only.                        *)
LEMMA SumCongruence ==
    ASSUME NEW f, NEW g, NEW S, IsFiniteSet(S), \A x \in S : f[x] = g[x]
    PROVE  SumFunctionOnSet(f, S) = SumFunctionOnSet(g, S)
<1> DEFINE bad == {s \in SUBSET S : SumFunctionOnSet(f, s) # SumFunctionOnSet(g, s)}
<1>1. ASSUME bad # {} PROVE FALSE
  <2>1. PICK s \in bad : \A x \in s : (s \ {x}) \notin bad
    BY <1>1, LeastSet
  <2>2. s # {} /\ IsFiniteSet(s)
    <3>1. SumFunctionOnSet(f, {}) = SumFunctionOnSet(g, {})
      BY SumEmpty
    <3> QED
      BY <2>1, <3>1, FS_Subset
  <2>3. /\ Pick(s) \in s
        /\ SumFunctionOnSet(f, s \ {Pick(s)}) = SumFunctionOnSet(g, s \ {Pick(s)})
    BY <2>1, <2>2, PickIn
  <2>4. SumFunctionOnSet(f, s) = f[Pick(s)] + SumFunctionOnSet(f, s \ {Pick(s)})
    BY <2>2, SumUnfold
  <2>5. SumFunctionOnSet(g, s) = g[Pick(s)] + SumFunctionOnSet(g, s \ {Pick(s)})
    BY <2>2, SumUnfold
  <2>6. f[Pick(s)] = g[Pick(s)]
    BY <2>1, <2>3
  <2> QED
    BY <2>1, <2>3, <2>4, <2>5, <2>6
<1> QED
  BY <1>1

(* Changing the function at one element.                                   *)
LEMMA SumUpdate ==
    ASSUME NEW f, NEW g, NEW S, IsFiniteSet(S), NEW y \in S,
           \A x \in S : f[x] \in Int /\ g[x] \in Int,
           \A x \in S \ {y} : f[x] = g[x]
    PROVE  SumFunctionOnSet(g, S) = SumFunctionOnSet(f, S) - f[y] + g[y]
<1>1. SumFunctionOnSet(f, S) = f[y] + SumFunctionOnSet(f, S \ {y})
  BY SumRemove
<1>2. SumFunctionOnSet(g, S) = g[y] + SumFunctionOnSet(g, S \ {y})
  BY SumRemove
<1>3. IsFiniteSet(S \ {y})
  BY FS_RemoveElement
<1>4. SumFunctionOnSet(f, S \ {y}) = SumFunctionOnSet(g, S \ {y})
  BY <1>3, SumCongruence
<1>5. SumFunctionOnSet(f, S \ {y}) \in Int
  BY <1>3, SumType
<1> QED
  BY <1>1, <1>2, <1>4, <1>5

(* A sum is the sum of a part plus the sum of what is left.                *)
LEMMA SumSplit ==
    ASSUME NEW f, NEW S, IsFiniteSet(S), \A x \in S : f[x] \in Int, NEW T \in SUBSET S
    PROVE  SumFunctionOnSet(f, S) = SumFunctionOnSet(f, T) + SumFunctionOnSet(f, S \ T)
<1> DEFINE Sum(s) == SumFunctionOnSet(f, s)
           bad == {s \in SUBSET S : Sum(S) # Sum(s) + Sum(S \ s)}
<1>0. \A s \in SUBSET S : IsFiniteSet(s) /\ Sum(s) \in Int
  BY FS_Subset, SumType
<1>1. ASSUME bad # {} PROVE FALSE
  <2>1. PICK s \in bad : \A x \in s : (s \ {x}) \notin bad
    BY <1>1, LeastSet
  <2>2. CASE s = {}
    <3>1. S \ {} = S /\ Sum({}) = 0 /\ Sum(S) \in Int
      BY SumEmpty, <1>0
    <3> HIDE DEF Sum
    <3> QED
      BY <3>1, <2>1, <2>2
  <2>3. CASE s # {}
    <3>1. PICK x \in s : TRUE
      BY <2>3
    <3>2. Sum(S) = Sum(s \ {x}) + Sum(S \ (s \ {x}))
      BY <2>1, <3>1
    <3>3. S \ (s \ {x}) = (S \ s) \cup {x}
      BY <2>1, <3>1
    <3>4. Sum(S \ (s \ {x})) = f[x] + Sum(S \ s)
      <4>1. Sum((S \ s) \cup {x}) = f[x] + Sum(S \ s)
        BY <1>0, <2>1, <3>1, SumInsert
      <4> QED
        BY <4>1, <3>3
    <3>5. Sum(s) = f[x] + Sum(s \ {x})
      BY <1>0, <2>1, <3>1, SumRemove
    <3>6. f[x] \in Int /\ Sum(S \ s) \in Int /\ Sum(s \ {x}) \in Int
      BY <1>0, <2>1, <3>1
    <3>7. Sum(S) # Sum(s) + Sum(S \ s)
      BY <2>1
    <3> HIDE DEF Sum
    <3> QED
      BY <3>2, <3>4, <3>5, <3>6, <3>7
  <2> QED
    BY <2>2, <2>3
<1> QED
  BY <1>1

(* Larger values, larger sum.                                              *)
LEMMA SumMonotone ==
    ASSUME NEW f, NEW g, NEW S, IsFiniteSet(S),
           \A x \in S : f[x] \in Int /\ g[x] \in Int /\ f[x] <= g[x]
    PROVE  SumFunctionOnSet(f, S) <= SumFunctionOnSet(g, S)
<1> DEFINE bad == {s \in SUBSET S : ~(SumFunctionOnSet(f, s) <= SumFunctionOnSet(g, s))}
<1>1. ASSUME bad # {} PROVE FALSE
  <2>1. PICK s \in bad : \A x \in s : (s \ {x}) \notin bad
    BY <1>1, LeastSet
  <2>2. IsFiniteSet(s) /\ s \subseteq S
    BY <2>1, FS_Subset
  <2>3. s # {}
    <3>1. SumFunctionOnSet(f, {}) = 0 /\ SumFunctionOnSet(g, {}) = 0
      BY SumEmpty
    <3> QED
      BY <2>1, <3>1
  <2>4. PICK x \in s : TRUE
    BY <2>3
  <2>5. SumFunctionOnSet(f, s \ {x}) <= SumFunctionOnSet(g, s \ {x})
    BY <2>1, <2>4
  <2>6. SumFunctionOnSet(f, s) = f[x] + SumFunctionOnSet(f, s \ {x})
    BY <2>2, SumRemove
  <2>7. SumFunctionOnSet(g, s) = g[x] + SumFunctionOnSet(g, s \ {x})
    BY <2>2, SumRemove
  <2>8. IsFiniteSet(s \ {x})
    BY <2>2, FS_RemoveElement
  <2>9. SumFunctionOnSet(f, s \ {x}) \in Int /\ SumFunctionOnSet(g, s \ {x}) \in Int
    BY <2>2, <2>8, SumType
  <2> QED
    BY <2>1, <2>2, <2>5, <2>6, <2>7, <2>9
<1> QED
  BY <1>1

(* The sum of two columns is the sum of their sums.                        *)
LEMMA SumPlus ==
    ASSUME NEW f, NEW g, NEW h, NEW S, IsFiniteSet(S),
           \A x \in S : f[x] \in Int /\ g[x] \in Int /\ h[x] = f[x] + g[x]
    PROVE  SumFunctionOnSet(h, S) = SumFunctionOnSet(f, S) + SumFunctionOnSet(g, S)
<1> DEFINE bad == {s \in SUBSET S : SumFunctionOnSet(h, s) #
                                       SumFunctionOnSet(f, s) + SumFunctionOnSet(g, s)}
<1>1. ASSUME bad # {} PROVE FALSE
  <2>1. PICK s \in bad : \A x \in s : (s \ {x}) \notin bad
    BY <1>1, LeastSet
  <2>2. IsFiniteSet(s) /\ s \subseteq S
    BY <2>1, FS_Subset
  <2>3. s # {}
    <3>1. /\ SumFunctionOnSet(f, {}) = 0 /\ SumFunctionOnSet(g, {}) = 0
          /\ SumFunctionOnSet(h, {}) = 0
      BY SumEmpty
    <3> QED
      BY <2>1, <3>1
  <2>4. PICK x \in s : TRUE
    BY <2>3
  <2>5. SumFunctionOnSet(h, s \ {x}) =
          SumFunctionOnSet(f, s \ {x}) + SumFunctionOnSet(g, s \ {x})
    BY <2>1, <2>4
  <2>6. SumFunctionOnSet(f, s) = f[x] + SumFunctionOnSet(f, s \ {x})
    BY <2>2, SumRemove
  <2>7. SumFunctionOnSet(g, s) = g[x] + SumFunctionOnSet(g, s \ {x})
    BY <2>2, SumRemove
  <2>8. SumFunctionOnSet(h, s) = h[x] + SumFunctionOnSet(h, s \ {x})
    <3>1. \A y \in s : h[y] \in Int
      BY <2>2
    <3> QED
      BY <2>2, <3>1, SumRemove
  <2>9. IsFiniteSet(s \ {x})
    BY <2>2, FS_RemoveElement
  <2>10. SumFunctionOnSet(f, s \ {x}) \in Int /\ SumFunctionOnSet(g, s \ {x}) \in Int
    BY <2>2, <2>9, SumType
  <2> QED
    BY <2>1, <2>2, <2>5, <2>6, <2>7, <2>8, <2>10
<1> QED
  BY <1>1

(* k for each element of H, nothing for the others.                        *)
LEMMA SumConstant ==
    ASSUME NEW S, IsFiniteSet(S), NEW H \in SUBSET S, NEW k \in Int, NEW f,
           \A x \in S : f[x] = IF x \in H THEN k ELSE 0
    PROVE  SumFunctionOnSet(f, S) = Cardinality(H) * k
<1> DEFINE bad == {s \in SUBSET S : SumFunctionOnSet(f, s) # Cardinality(s \cap H) * k}
<1>1. ASSUME bad # {} PROVE FALSE
  <2>1. PICK s \in bad : \A x \in s : (s \ {x}) \notin bad
    BY <1>1, LeastSet
  <2>2. IsFiniteSet(s) /\ s \subseteq S /\ IsFiniteSet(s \cap H)
    BY <2>1, FS_Subset
  <2>3. s # {}
    <3>1. SumFunctionOnSet(f, {}) = 0 /\ {} \cap H = {} /\ Cardinality({}) = 0
      BY SumEmpty, FS_EmptySet
    <3> QED
      BY <2>1, <3>1
  <2>4. PICK x \in s : TRUE
    BY <2>3
  <2> DEFINE c == Cardinality(s \cap H)
             d == Cardinality((s \ {x}) \cap H)
  <2>5. SumFunctionOnSet(f, s \ {x}) = d * k
    BY <2>1, <2>4
  <2>6. SumFunctionOnSet(f, s) = f[x] + SumFunctionOnSet(f, s \ {x})
    BY <2>2, SumRemove
  <2>7. d = (IF x \in H THEN c - 1 ELSE c) /\ c \in Nat
    <3>1. (s \ {x}) \cap H = (s \cap H) \ {x}
      OBVIOUS
    <3> QED
      BY <2>2, <2>4, <3>1, FS_RemoveElement, FS_CardinalityType
  <2>8. f[x] = IF x \in H THEN k ELSE 0
    BY <2>2
  <2>9. SumFunctionOnSet(f, s) # c * k
    BY <2>1
  <2> HIDE DEF c, d
  <2>10. CASE x \in H
    <3>1. (c - 1) * k = c * k - k
      BY <2>7
    <3>2. c * k \in Int
      BY <2>7
    <3> QED
      BY <2>5, <2>6, <2>7, <2>8, <2>9, <2>10, <3>1, <3>2
  <2>11. CASE x \notin H
    BY <2>5, <2>6, <2>7, <2>8, <2>9, <2>11
  <2> QED
    BY <2>10, <2>11
<1>2. S \cap H = H
  OBVIOUS
<1> QED
  BY <1>1, <1>2

(* A sum of naturals is a natural.                                         *)
LEMMA SumNonNegative ==
    ASSUME NEW f, NEW S, IsFiniteSet(S), \A x \in S : f[x] \in Nat
    PROVE  SumFunctionOnSet(f, S) \in Nat
<1> DEFINE g == [x \in S |-> 0]
<1>1. SumFunctionOnSet(g, S) = Cardinality({}) * 0
  BY SumConstant
<1>2. SumFunctionOnSet(g, S) <= SumFunctionOnSet(f, S)
  BY SumMonotone
<1>3. SumFunctionOnSet(f, S) \in Int
  BY SumType
<1> QED
  BY <1>1, <1>2, <1>3, FS_EmptySet

-----------------------------------------------------------------------------
(* Economy: the tables.                                                    *)

(* A row of table accounts, and the table with a new row of account a.     *)
Row(e, x, y, z) == [exists |-> e, balance |-> x, locked |-> y, unbonding |-> z]

With(f, a, r) == [b \in Accounts |-> IF b = a THEN r ELSE f[b]]

(* A row of table accounts is its four columns.                            *)
LEMMA RowOf ==
    ASSUME NEW r \in AccountRow
    PROVE  /\ r.exists \in BOOLEAN /\ r.balance \in Nat /\ r.locked \in Nat /\ r.unbonding \in Nat
           /\ r = Row(r.exists, r.balance, r.locked, r.unbonding)
BY DEF AccountRow, Row

(* A table that differs from f in row a at most is f with that row.        *)
LEMMA WithUnique ==
    ASSUME NEW f, NEW g, NEW a \in Accounts, NEW r,
           DOMAIN g = Accounts, g = [b \in Accounts |-> g[b]], g[a] = r,
           \A b \in Accounts \ {a} : g[b] = f[b]
    PROVE  g = With(f, a, r)
BY DEF With

(* The UPDATEs of the ledger as a new row: of balance,                     *)
LEMMA ExceptBalance ==
    ASSUME NEW f \in [Accounts -> AccountRow], NEW a \in Accounts, NEW x
    PROVE  [f EXCEPT ![a].balance = x]
             = With(f, a, Row(f[a].exists, x, f[a].locked, f[a].unbonding))
<1> DEFINE g == [f EXCEPT ![a].balance = x]
<1>1. g[a] = Row(f[a].exists, x, f[a].locked, f[a].unbonding)
  BY DEF Row, AccountRow
<1>2. DOMAIN g = Accounts /\ g = [b \in Accounts |-> g[b]]
      /\ \A b \in Accounts \ {a} : g[b] = f[b]
  OBVIOUS
<1> HIDE DEF g
<1>3. g = With(f, a, Row(f[a].exists, x, f[a].locked, f[a].unbonding))
  BY <1>1, <1>2, WithUnique
<1> QED
  BY <1>3 DEF g

(* of locked,                                                              *)
LEMMA ExceptLocked ==
    ASSUME NEW f \in [Accounts -> AccountRow], NEW a \in Accounts, NEW x
    PROVE  [f EXCEPT ![a].locked = x]
             = With(f, a, Row(f[a].exists, f[a].balance, x, f[a].unbonding))
<1> DEFINE g == [f EXCEPT ![a].locked = x]
<1>1. g[a] = Row(f[a].exists, f[a].balance, x, f[a].unbonding)
  BY DEF Row, AccountRow
<1>2. DOMAIN g = Accounts /\ g = [b \in Accounts |-> g[b]]
      /\ \A b \in Accounts \ {a} : g[b] = f[b]
  OBVIOUS
<1> HIDE DEF g
<1>3. g = With(f, a, Row(f[a].exists, f[a].balance, x, f[a].unbonding))
  BY <1>1, <1>2, WithUnique
<1> QED
  BY <1>3 DEF g

(* of the balance of an account that may be created,                       *)
LEMMA ExceptPaid ==
    ASSUME NEW f \in [Accounts -> AccountRow], NEW a \in Accounts, NEW x, NEW e
    PROVE  [f EXCEPT ![a].balance = x, ![a].exists = e]
             = With(f, a, Row(e, x, f[a].locked, f[a].unbonding))
<1> DEFINE g == [f EXCEPT ![a].balance = x, ![a].exists = e]
<1>1. g[a] = Row(e, x, f[a].locked, f[a].unbonding)
  BY DEF Row, AccountRow
<1>2. DOMAIN g = Accounts /\ g = [b \in Accounts |-> g[b]]
      /\ \A b \in Accounts \ {a} : g[b] = f[b]
  OBVIOUS
<1> HIDE DEF g
<1>3. g = With(f, a, Row(e, x, f[a].locked, f[a].unbonding))
  BY <1>1, <1>2, WithUnique
<1> QED
  BY <1>3 DEF g

(* of balance and locked,                                                  *)
LEMMA ExceptStaked ==
    ASSUME NEW f \in [Accounts -> AccountRow], NEW a \in Accounts, NEW x, NEW y
    PROVE  [f EXCEPT ![a].balance = x, ![a].locked = y]
             = With(f, a, Row(f[a].exists, x, y, f[a].unbonding))
<1> DEFINE g == [f EXCEPT ![a].balance = x, ![a].locked = y]
<1>1. g[a] = Row(f[a].exists, x, y, f[a].unbonding)
  BY DEF Row, AccountRow
<1>2. DOMAIN g = Accounts /\ g = [b \in Accounts |-> g[b]]
      /\ \A b \in Accounts \ {a} : g[b] = f[b]
  OBVIOUS
<1> HIDE DEF g
<1>3. g = With(f, a, Row(f[a].exists, x, y, f[a].unbonding))
  BY <1>1, <1>2, WithUnique
<1> QED
  BY <1>3 DEF g

(* of locked and balance,                                                  *)
LEMMA ExceptUnlocked ==
    ASSUME NEW f \in [Accounts -> AccountRow], NEW a \in Accounts, NEW x, NEW y
    PROVE  [f EXCEPT ![a].locked = x, ![a].balance = y]
             = With(f, a, Row(f[a].exists, y, x, f[a].unbonding))
<1> DEFINE g == [f EXCEPT ![a].locked = x, ![a].balance = y]
<1>1. g[a] = Row(f[a].exists, y, x, f[a].unbonding)
  BY DEF Row, AccountRow
<1>2. DOMAIN g = Accounts /\ g = [b \in Accounts |-> g[b]]
      /\ \A b \in Accounts \ {a} : g[b] = f[b]
  OBVIOUS
<1> HIDE DEF g
<1>3. g = With(f, a, Row(f[a].exists, y, x, f[a].unbonding))
  BY <1>1, <1>2, WithUnique
<1> QED
  BY <1>3 DEF g

(* of locked and unbonding,                                                *)
LEMMA ExceptUnstaked ==
    ASSUME NEW f \in [Accounts -> AccountRow], NEW a \in Accounts, NEW x, NEW y
    PROVE  [f EXCEPT ![a].locked = x, ![a].unbonding = y]
             = With(f, a, Row(f[a].exists, f[a].balance, x, y))
<1> DEFINE g == [f EXCEPT ![a].locked = x, ![a].unbonding = y]
<1>1. g[a] = Row(f[a].exists, f[a].balance, x, y)
  BY DEF Row, AccountRow
<1>2. DOMAIN g = Accounts /\ g = [b \in Accounts |-> g[b]]
      /\ \A b \in Accounts \ {a} : g[b] = f[b]
  OBVIOUS
<1> HIDE DEF g
<1>3. g = With(f, a, Row(f[a].exists, f[a].balance, x, y))
  BY <1>1, <1>2, WithUnique
<1> QED
  BY <1>3 DEF g

(* and of unbonding and balance.                                           *)
LEMMA ExceptUnbonded ==
    ASSUME NEW f \in [Accounts -> AccountRow], NEW a \in Accounts, NEW x, NEW y
    PROVE  [f EXCEPT ![a].unbonding = x, ![a].balance = y]
             = With(f, a, Row(f[a].exists, y, f[a].locked, x))
<1> DEFINE g == [f EXCEPT ![a].unbonding = x, ![a].balance = y]
<1>1. g[a] = Row(f[a].exists, y, f[a].locked, x)
  BY DEF Row, AccountRow
<1>2. DOMAIN g = Accounts /\ g = [b \in Accounts |-> g[b]]
      /\ \A b \in Accounts \ {a} : g[b] = f[b]
  OBVIOUS
<1> HIDE DEF g
<1>3. g = With(f, a, Row(f[a].exists, y, f[a].locked, x))
  BY <1>1, <1>2, WithUnique
<1> QED
  BY <1>3 DEF g

(* A table with a new row is a table.                                      *)
LEMMA WithTyped ==
    ASSUME NEW f \in [Accounts -> AccountRow], NEW a \in Accounts, NEW e \in BOOLEAN,
           NEW x \in Nat, NEW y \in Nat, NEW z \in Nat
    PROVE  LET g == With(f, a, Row(e, x, y, z)) IN
           /\ g \in [Accounts -> AccountRow]
           /\ g[a] = Row(e, x, y, z)
           /\ \A b \in Accounts \ {a} : g[b] = f[b]
<1>1. Row(e, x, y, z) \in AccountRow
  BY DEF Row, AccountRow
<1> QED
  BY <1>1 DEF With

(* What the slashes of calls that still run have collected.                *)
Pending == SumFunctionOnSet([t \in Threads |-> call[t].total], Threads)

(* What a call keeps is what its place in the code says.                   *)
CallsOK == \A t \in Threads :
   /\ call[t].pc = "escrow" => call[t].account \in Accounts /\ call[t].id \in Ids
   /\ call[t].pc \in {"slash","execute"} => call[t].charge \in Charges
   /\ call[t].pc = "execute" => call[t].verifier \in Accounts

(* An account that does not exist holds nothing.                           *)
Solid(f) == \A a \in Accounts : f[a].exists \/ (/\ f[a].balance = 0 /\ f[a].locked = 0
                                                /\ f[a].unbonding = 0)

(* Rows in use belong to accounts.                                         *)
RowsOK ==
    /\ Solid(accounts)
    /\ \A i \in Ids : escrows[i] = NoEscrow \/ escrows[i].account \in Accounts
    /\ \A u \in UnbondingIds : \/ unbondings[u] = NoUnbonding
                               \/ unbondings[u].account \in Accounts
    /\ \A b \in BountyIds : bounties[b] = NoBounty \/ bounties[b].creator \in Accounts

(* The tables are well formed.                                             *)
RowInv == EconomyTypeOK /\ CallsOK /\ RowsOK

(* A thread that is in no call.                                            *)
LEMMA IdleTyped == IdleCall \in CallState /\ IdleCall.pc = "idle"
BY DEF IdleCall, CallState

(* A reward is a natural number.                                           *)
LEMMA RewardTyped ==
    ASSUME NEW c \in Charges, NEW total \in Nat, NEW first, NEW a \in Accounts
    PROVE  Reward(c, total, first, a) \in Nat
<1>1. c.honest \in SUBSET Accounts
  BY EconomyAssumption DEF Charges
<1>2. a \in c.honest => Cardinality(c.honest) \in Nat \ {0}
  BY <1>1, EconomyAssumption, FS_Subset, FS_CardinalityType, FS_EmptySet
<1>3. (total * 50) \div 100 \in Nat /\ (total * 40) \div 100 \in Nat
  OBVIOUS
<1>4. ASSUME NEW n \in Nat \ {0}, NEW m \in Nat PROVE m \div n \in Nat /\ m % n \in Nat
  OBVIOUS
<1>5. a \in c.honest => /\ ((total * 40) \div 100) \div Cardinality(c.honest) \in Nat
                        /\ ((total * 40) \div 100) % Cardinality(c.honest) \in Nat
  BY <1>2, <1>3, <1>4
<1> DEFINE p == IF a = c.challenger THEN (total * 50) \div 100 ELSE 0
           q == IF a \in c.honest THEN ((total * 40) \div 100) \div Cardinality(c.honest) ELSE 0
           s == IF a \in c.honest /\ a = first
                THEN ((total * 40) \div 100) % Cardinality(c.honest) ELSE 0
<1>6. p \in Nat /\ q \in Nat /\ s \in Nat
  BY <1>3, <1>5
<1>7. Reward(c, total, first, a) = p + q + s
  BY DEF Reward
<1> HIDE DEF p, q, s
<1> QED
  BY <1>6, <1>7

(* The tables are empty initially.                                         *)
LEMMA RowInit == EconomyInit => RowInv
<1> SUFFICES ASSUME EconomyInit PROVE RowInv
  OBVIOUS
<1>1. accounts \in [Accounts -> AccountRow] /\ supply \in 0..MAX_SUPPLY
  BY EconomyAssumption DEF EconomyInit, NoAccount, AccountRow
<1>2. /\ escrows \in [Ids -> EscrowRow] /\ unbondings \in [UnbondingIds -> UnbondingRow]
      /\ bounties \in [BountyIds -> BountyRow]
  BY DEF EconomyInit, EscrowRow, NoEscrow, UnbondingRow, NoUnbonding, BountyRow, NoBounty
<1>3. call \in [Threads -> CallState] /\ CallsOK
  BY IdleTyped DEF EconomyInit, CallsOK
<1>4. RowsOK
  BY DEF EconomyInit, RowsOK, Solid, NoAccount
<1> QED
  BY <1>1, <1>2, <1>3, <1>4 DEF EconomyInit, RowInv, EconomyTypeOK

(* What the type invariant says of the tables, in the form used below.     *)
LEMMA RowFacts ==
    ASSUME RowInv
    PROVE  /\ accounts \in [Accounts -> AccountRow] /\ escrows \in [Ids -> EscrowRow]
           /\ call \in [Threads -> CallState] /\ unbondings \in [UnbondingIds -> UnbondingRow]
           /\ Amounts \subseteq Nat
           /\ \A a \in Accounts : /\ accounts[a].exists \in BOOLEAN /\ accounts[a].balance \in Nat
                                  /\ accounts[a].locked \in Nat /\ accounts[a].unbonding \in Nat
BY EconomyAssumption, RowOf DEF RowInv, EconomyTypeOK

(* What each operation makes of table accounts.                            *)
LEMMA CreateEffect ==
    ASSUME RowInv, NEW a \in Accounts, NEW n \in Amounts \cup {0}, create_account(a, n)
    PROVE  n \in Nat /\ accounts' = With(accounts, a, Row(TRUE, n, 0, 0))
<1>2. accounts' = [accounts EXCEPT ![a] = Row(TRUE, n, 0, 0)]
  BY DEF create_account, Row
<1>3. \A r : [accounts EXCEPT ![a] = r] = With(accounts, a, r)
  BY RowFacts DEF With
<1>4. accounts' = With(accounts, a, Row(TRUE, n, 0, 0))
  BY <1>2, <1>3, Zenon
<1> QED
  BY RowFacts, <1>4

(* transfer, as two rows written one after the other: a and b may be the   *)
(* same account.                                                           *)
LEMMA TransferEffect ==
    ASSUME RowInv, NEW a \in Accounts, NEW b \in Accounts, NEW n \in Amounts, NEW w \in BOOLEAN,
           transfer(a, b, n, w)
    PROVE  /\ n \in Nat /\ accounts[a].balance >= n
             /\ \E paid \in [Accounts -> AccountRow] :
                  /\ paid = With(accounts, a, Row(accounts[a].exists, accounts[a].balance - n,
                                                  accounts[a].locked, accounts[a].unbonding))
                  /\ accounts' = With(paid, b, Row(TRUE, paid[b].balance + n, paid[b].locked,
                                                   paid[b].unbonding))
<1> DEFINE paid == [accounts EXCEPT ![a].balance = accounts[a].balance - n]
<1>1. /\ n \in Nat /\ accounts[a].balance >= n
      /\ accounts' = [paid EXCEPT ![b].balance = paid[b].balance + n, ![b].exists = TRUE]
  BY RowFacts DEF transfer
<1>2. paid = With(accounts, a, Row(accounts[a].exists, accounts[a].balance - n,
                                   accounts[a].locked, accounts[a].unbonding))
  BY RowFacts, ExceptBalance
<1>3. accounts[a].balance - n \in Nat
  BY RowFacts, <1>1
<1> HIDE DEF paid
<1>4. paid \in [Accounts -> AccountRow]
  BY RowFacts, <1>2, <1>3, WithTyped
<1>5. accounts' = With(paid, b, Row(TRUE, paid[b].balance + n, paid[b].locked,
                                    paid[b].unbonding))
  BY <1>1, <1>4, ExceptPaid
<1> QED
  BY <1>1, <1>2, <1>4, <1>5

(* release_escrow: likewise.                                               *)
LEMMA ReleaseEffect ==
    ASSUME RowInv, NEW i \in Ids, NEW b \in Accounts, release_escrow(i, b)
    PROVE  LET c == escrows[i].account
                 n == escrows[i].amount
             IN  /\ c \in Accounts /\ n \in Nat /\ accounts[c].locked >= n
                 /\ \E unlocked \in [Accounts -> AccountRow] :
                      /\ unlocked = With(accounts, c, Row(accounts[c].exists,
                           accounts[c].balance, accounts[c].locked - n, accounts[c].unbonding))
                      /\ accounts' = With(unlocked, b, Row(TRUE, unlocked[b].balance + n,
                           unlocked[b].locked, unlocked[b].unbonding))
<1> DEFINE c == escrows[i].account
           n == escrows[i].amount
           unlocked == [accounts EXCEPT ![c].locked = accounts[c].locked - n]
<1>0. c \in Accounts /\ n \in Nat
  BY RowFacts DEF RowInv, RowsOK, release_escrow, Open, EscrowRow
<1>1. /\ accounts[c].locked >= n
      /\ accounts' = [unlocked EXCEPT ![b].balance = unlocked[b].balance + n, ![b].exists = TRUE]
  BY DEF release_escrow
<1> HIDE DEF c, n
<1>2. unlocked = With(accounts, c, Row(accounts[c].exists, accounts[c].balance,
                                       accounts[c].locked - n, accounts[c].unbonding))
  BY RowFacts, <1>0, ExceptLocked
<1>3. accounts[c].locked - n \in Nat
  BY RowFacts, <1>0, <1>1
<1> HIDE DEF unlocked
<1>4. unlocked \in [Accounts -> AccountRow]
  BY RowFacts, <1>0, <1>2, <1>3, WithTyped
<1>5. accounts' = With(unlocked, b, Row(TRUE, unlocked[b].balance + n, unlocked[b].locked,
                                        unlocked[b].unbonding))
  BY <1>1, <1>4, ExceptPaid
<1> QED
  BY <1>0, <1>1, <1>2, <1>4, <1>5 DEF c, n

(* cancel_escrow.                                                          *)
LEMMA CancelEffect ==
    ASSUME RowInv, NEW i \in Ids, cancel_escrow(i)
    PROVE  LET c == escrows[i].account
                 n == escrows[i].amount
             IN  /\ c \in Accounts /\ n \in Nat /\ accounts[c].locked >= n
                 /\ accounts' = With(accounts, c, Row(accounts[c].exists,
                      accounts[c].balance + n, accounts[c].locked - n, accounts[c].unbonding))
<1> DEFINE c == escrows[i].account
           n == escrows[i].amount
<1>0. c \in Accounts /\ n \in Nat
  BY RowFacts DEF RowInv, RowsOK, cancel_escrow, Open, EscrowRow
<1>1. /\ accounts[c].locked >= n
      /\ accounts' = [accounts EXCEPT ![c].locked = accounts[c].locked - n,
                                      ![c].balance = accounts[c].balance + n]
  BY DEF cancel_escrow
<1> HIDE DEF c, n
<1> QED
  <2>1. accounts' = With(accounts, c, Row(accounts[c].exists, accounts[c].balance + n,
                                          accounts[c].locked - n, accounts[c].unbonding))
    BY RowFacts, <1>0, <1>1, ExceptUnlocked
  <2> QED
    BY <1>0, <1>1, <2>1 DEF c, n

(* stake.                                                                  *)
LEMMA StakeEffect ==
    ASSUME RowInv, NEW a \in Accounts, NEW n \in Amounts, stake(a, n)
    PROVE  /\ n \in Nat /\ accounts[a].balance >= n
             /\ accounts' = With(accounts, a, Row(accounts[a].exists,
                  accounts[a].balance - n, accounts[a].locked + n, accounts[a].unbonding))
<1>1. /\ n \in Nat /\ accounts[a].balance >= n
      /\ accounts' = [accounts EXCEPT ![a].balance = accounts[a].balance - n,
                                      ![a].locked = accounts[a].locked + n]
  BY RowFacts DEF stake
<1> QED
  BY RowFacts, <1>1, ExceptStaked

(* unstake.                                                                *)
LEMMA UnstakeEffect ==
    ASSUME RowInv, NEW a \in Accounts, NEW n \in Amounts, NEW u \in UnbondingIds, unstake(a, n, u)
    PROVE  /\ n \in Nat /\ accounts[a].locked >= n
             /\ accounts' = With(accounts, a, Row(accounts[a].exists,
                  accounts[a].balance, accounts[a].locked - n, accounts[a].unbonding + n))
<1>1. /\ n \in Nat /\ accounts[a].locked >= n
      /\ accounts' = [accounts EXCEPT ![a].locked = accounts[a].locked - n,
                                      ![a].unbonding = accounts[a].unbonding + n]
  BY RowFacts DEF unstake
<1> QED
  BY RowFacts, <1>1, ExceptUnstaked

(* complete_unbonding.                                                     *)
LEMMA CompleteEffect ==
    ASSUME RowInv, NEW a \in Accounts, complete_unbonding(a)
    PROVE  LET n == SumFunctionOnSet(UnbondingAmounts, Ripe(a))
             IN  /\ n \in Nat /\ accounts[a].unbonding >= n
                 /\ accounts' = With(accounts, a, Row(accounts[a].exists,
                      accounts[a].balance + n, accounts[a].locked, accounts[a].unbonding - n))
<1> DEFINE n == SumFunctionOnSet(UnbondingAmounts, Ripe(a))
<1>0. n \in Nat
  <2>1. IsFiniteSet(Ripe(a)) /\ Ripe(a) \subseteq UnbondingIds
    BY EconomyAssumption, FS_Subset DEF Ripe
  <2>2. \A u \in Ripe(a) : UnbondingAmounts[u] \in Nat
    BY RowFacts, <2>1 DEF UnbondingRow, UnbondingAmounts
  <2> QED
    BY <2>1, <2>2, SumNonNegative
<1>1. /\ accounts[a].unbonding >= n
      /\ accounts' = [accounts EXCEPT ![a].unbonding = accounts[a].unbonding - n,
                                      ![a].balance = accounts[a].balance + n]
  BY DEF complete_unbonding
<1> HIDE DEF n
<1> QED
  BY RowFacts, <1>0, <1>1, ExceptUnbonded DEF n

(* escrow, which may raise.                                                *)
LEMMA EscrowEffect ==
    ASSUME RowInv, NEW t \in Threads, escrow(t)
    PROVE  LET a == call[t].account
                 n == call[t].amount
             IN  /\ a \in Accounts /\ n \in Nat /\ call[t].id \in Ids
                 /\ \/ UNCHANGED <<accounts, escrows>>
                    \/ /\ accounts[a].balance >= n
                       /\ accounts' = With(accounts, a, Row(accounts[a].exists,
                            accounts[a].balance - n, accounts[a].locked + n,
                            accounts[a].unbonding))
<1> DEFINE a == call[t].account
           n == call[t].amount
<1>0. a \in Accounts /\ n \in Nat /\ call[t].id \in Ids
  BY RowFacts DEF RowInv, CallsOK, CallState, escrow
<1>1. \/ UNCHANGED <<accounts, escrows>>
      \/ /\ accounts[a].balance >= n
         /\ accounts' = [accounts EXCEPT ![a].balance = accounts[a].balance - n,
                                         ![a].locked = accounts[a].locked + n]
  BY DEF escrow
<1> HIDE DEF a, n
<1>2. \/ UNCHANGED <<accounts, escrows>>
      \/ /\ accounts[a].balance >= n
         /\ accounts' = With(accounts, a, Row(accounts[a].exists,
              accounts[a].balance - n, accounts[a].locked + n, accounts[a].unbonding))
  BY RowFacts, <1>0, <1>1, ExceptStaked
<1> QED
  BY <1>0, <1>2 DEF a, n

(* execute_slash.                                                          *)
LEMMA SlashEffect ==
    ASSUME RowInv, NEW t \in Threads, execute_slash(t)
    PROVE  LET a == call[t].verifier
                 n == IF accounts[a].locked < call[t].amount THEN accounts[a].locked
                      ELSE call[t].amount
             IN  /\ a \in Accounts /\ n \in Nat /\ accounts[a].locked >= n
                 /\ call[t].amount \in Nat
                 /\ accounts' = With(accounts, a, Row(accounts[a].exists,
                      accounts[a].balance, accounts[a].locked - n, accounts[a].unbonding))
<1> DEFINE a == call[t].verifier
           n == IF accounts[a].locked < call[t].amount THEN accounts[a].locked
                ELSE call[t].amount
<1>0. a \in Accounts /\ call[t].amount \in Nat
  BY RowFacts DEF RowInv, CallsOK, CallState, execute_slash
<1>1. n \in Nat /\ accounts[a].locked >= n
  BY RowFacts, <1>0
<1>2. accounts' = [accounts EXCEPT ![a].locked = accounts[a].locked - n]
  BY DEF execute_slash
<1> HIDE DEF a, n
<1>3. accounts' = With(accounts, a, Row(accounts[a].exists, accounts[a].balance,
                                        accounts[a].locked - n, accounts[a].unbonding))
  BY RowFacts, <1>0, <1>2, ExceptLocked
<1> QED
  BY <1>0, <1>1, <1>3 DEF a, n

(* Whoever gives credits to an account creates it.                         *)
LEMMA WithSolid ==
    ASSUME NEW f \in [Accounts -> AccountRow], Solid(f), NEW a \in Accounts, NEW e \in BOOLEAN,
           NEW x \in Nat, NEW y \in Nat, NEW z \in Nat, e \/ (x = 0 /\ y = 0 /\ z = 0)
    PROVE  /\ With(f, a, Row(e, x, y, z)) \in [Accounts -> AccountRow]
           /\ Solid(With(f, a, Row(e, x, y, z)))
<1> DEFINE g == With(f, a, Row(e, x, y, z))
<1>1. /\ g \in [Accounts -> AccountRow]
      /\ g[a] = Row(e, x, y, z)
      /\ \A b \in Accounts \ {a} : g[b] = f[b]
  BY WithTyped
<1> HIDE DEF g
<1>2. g[a].exists = e /\ g[a].balance = x /\ g[a].locked = y /\ g[a].unbonding = z
  BY <1>1 DEF Row
<1>3. Solid(g)
  BY <1>1, <1>2 DEF Solid
<1> QED
  BY <1>1, <1>3 DEF g

(* No operation breaks the table accounts, or leaves credits with an       *)
(* account that does not exist.                                            *)
LEMMA AccountsStep ==
    ASSUME RowInv, [EconomyNext]_economyVars
    PROVE  accounts' \in [Accounts -> AccountRow] /\ Solid(accounts)'
<1>0. /\ accounts \in [Accounts -> AccountRow] /\ Solid(accounts)
      /\ \A a \in Accounts : /\ accounts[a].exists \in BOOLEAN /\ accounts[a].balance \in Nat
                             /\ accounts[a].locked \in Nat /\ accounts[a].unbonding \in Nat
  BY RowOf DEF RowInv, EconomyTypeOK, RowsOK
<1> DEFINE Goal == accounts' \in [Accounts -> AccountRow] /\ Solid(accounts')
<1> SUFFICES Goal
  BY DEF Solid
<1>1. ASSUME NEW a \in Accounts, NEW n \in Amounts \cup {0}, create_account(a, n) PROVE Goal
  <2>1. n \in Nat /\ accounts' = With(accounts, a, Row(TRUE, n, 0, 0))
    BY <1>1, CreateEffect, Zenon
  <2> QED
    BY <1>0, <2>1, WithSolid
<1>2. ASSUME NEW a \in Accounts, NEW b \in Accounts, NEW n \in Amounts, NEW w \in BOOLEAN,
             transfer(a, b, n, w)
      PROVE  Goal
  <2>1. n \in Nat /\ accounts[a].balance >= n
    BY <1>2, TransferEffect
  <2>2. PICK paid \in [Accounts -> AccountRow] :
              /\ paid = With(accounts, a, Row(accounts[a].exists, accounts[a].balance - n,
                                              accounts[a].locked, accounts[a].unbonding))
              /\ accounts' = With(paid, b, Row(TRUE, paid[b].balance + n, paid[b].locked,
                                               paid[b].unbonding))
    BY <1>2, TransferEffect, Zenon
  <2>3. /\ accounts[a].balance - n \in Nat
        /\ accounts[a].exists \/ (accounts[a].balance - n = 0 /\ accounts[a].locked = 0
                                  /\ accounts[a].unbonding = 0)
    BY <1>0, <2>1 DEF Solid
  <2>4. Solid(paid)
    BY <1>0, <2>2, <2>3, WithSolid
  <2>5. paid[b].balance + n \in Nat /\ paid[b].locked \in Nat /\ paid[b].unbonding \in Nat
    BY <2>1, <2>2, RowOf
  <2> QED
    BY <2>2, <2>4, <2>5, WithSolid
<1>3. ASSUME NEW i \in Ids, NEW b \in Accounts, release_escrow(i, b) PROVE Goal
  <2> DEFINE c == escrows[i].account
             n == escrows[i].amount
  <2>1. c \in Accounts /\ n \in Nat /\ accounts[c].locked >= n
    BY <1>3, ReleaseEffect
  <2>2. PICK unlocked \in [Accounts -> AccountRow] :
              /\ unlocked = With(accounts, c, Row(accounts[c].exists,
                   accounts[c].balance, accounts[c].locked - n, accounts[c].unbonding))
              /\ accounts' = With(unlocked, b, Row(TRUE, unlocked[b].balance + n,
                   unlocked[b].locked, unlocked[b].unbonding))
    BY <1>3, ReleaseEffect
  <2> HIDE DEF c, n
  <2>3. /\ accounts[c].locked - n \in Nat
        /\ accounts[c].exists \/ (accounts[c].balance = 0 /\ accounts[c].locked - n = 0
                                  /\ accounts[c].unbonding = 0)
    BY <1>0, <2>1 DEF Solid
  <2>4. Solid(unlocked)
    BY <1>0, <2>1, <2>2, <2>3, WithSolid
  <2>5. /\ unlocked[b].balance + n \in Nat /\ unlocked[b].locked \in Nat
        /\ unlocked[b].unbonding \in Nat
    BY <2>1, <2>2, RowOf
  <2> QED
    BY <2>2, <2>4, <2>5, WithSolid
<1>4. ASSUME NEW i \in Ids, cancel_escrow(i) PROVE Goal
  <2> DEFINE c == escrows[i].account
             n == escrows[i].amount
  <2>1. /\ c \in Accounts /\ n \in Nat /\ accounts[c].locked >= n
        /\ accounts' = With(accounts, c, Row(accounts[c].exists,
             accounts[c].balance + n, accounts[c].locked - n, accounts[c].unbonding))
    BY <1>4, CancelEffect
  <2> HIDE DEF c, n
  <2>2. /\ accounts[c].locked - n \in Nat /\ accounts[c].balance + n \in Nat
        /\ accounts[c].exists \/ (accounts[c].balance + n = 0 /\ accounts[c].locked - n = 0
                                  /\ accounts[c].unbonding = 0)
    BY <1>0, <2>1 DEF Solid
  <2> QED
    BY <1>0, <2>1, <2>2, WithSolid
<1>5. ASSUME NEW a \in Accounts, NEW n \in Amounts, stake(a, n) PROVE Goal
  <2>1. /\ n \in Nat /\ accounts[a].balance >= n
        /\ accounts' = With(accounts, a, Row(accounts[a].exists,
             accounts[a].balance - n, accounts[a].locked + n, accounts[a].unbonding))
    BY <1>5, StakeEffect
  <2>2. /\ accounts[a].balance - n \in Nat /\ accounts[a].locked + n \in Nat
        /\ accounts[a].exists \/ (accounts[a].balance - n = 0 /\ accounts[a].locked + n = 0
                                  /\ accounts[a].unbonding = 0)
    BY <1>0, <2>1 DEF Solid
  <2> QED
    BY <1>0, <2>1, <2>2, WithSolid
<1>6. ASSUME NEW a \in Accounts, NEW n \in Amounts, NEW u \in UnbondingIds, unstake(a, n, u)
      PROVE  Goal
  <2>1. /\ n \in Nat /\ accounts[a].locked >= n
        /\ accounts' = With(accounts, a, Row(accounts[a].exists,
             accounts[a].balance, accounts[a].locked - n, accounts[a].unbonding + n))
    BY <1>6, UnstakeEffect
  <2>2. /\ accounts[a].locked - n \in Nat /\ accounts[a].unbonding + n \in Nat
        /\ accounts[a].exists \/ (accounts[a].balance = 0 /\ accounts[a].locked - n = 0
                                  /\ accounts[a].unbonding + n = 0)
    BY <1>0, <2>1 DEF Solid
  <2> QED
    BY <1>0, <2>1, <2>2, WithSolid
<1>7. ASSUME NEW a \in Accounts, complete_unbonding(a) PROVE Goal
  <2> DEFINE n == SumFunctionOnSet(UnbondingAmounts, Ripe(a))
  <2>1. /\ n \in Nat /\ accounts[a].unbonding >= n
        /\ accounts' = With(accounts, a, Row(accounts[a].exists,
             accounts[a].balance + n, accounts[a].locked, accounts[a].unbonding - n))
    BY <1>7, CompleteEffect
  <2> HIDE DEF n
  <2>2. /\ accounts[a].unbonding - n \in Nat /\ accounts[a].balance + n \in Nat
        /\ accounts[a].exists \/ (accounts[a].balance + n = 0 /\ accounts[a].locked = 0
                                  /\ accounts[a].unbonding - n = 0)
    BY <1>0, <2>1 DEF Solid
  <2> QED
    BY <1>0, <2>1, <2>2, WithSolid
<1>8. ASSUME NEW t \in Threads, escrow(t) PROVE Goal
  <2> DEFINE a == call[t].account
             n == call[t].amount
  <2>1. /\ a \in Accounts /\ n \in Nat
        /\ \/ UNCHANGED accounts
           \/ /\ accounts[a].balance >= n
              /\ accounts' = With(accounts, a, Row(accounts[a].exists,
                   accounts[a].balance - n, accounts[a].locked + n, accounts[a].unbonding))
    BY <1>8, EscrowEffect
  <2> HIDE DEF a, n
  <2>2. CASE UNCHANGED accounts
    BY <1>0, <2>2
  <2>3. CASE ~UNCHANGED accounts
    <3>1. /\ accounts[a].balance - n \in Nat /\ accounts[a].locked + n \in Nat
          /\ accounts[a].exists \/ (accounts[a].balance - n = 0 /\ accounts[a].locked + n = 0
                                    /\ accounts[a].unbonding = 0)
      BY <1>0, <2>1, <2>3 DEF Solid
    <3>2. accounts' = With(accounts, a, Row(accounts[a].exists, accounts[a].balance - n,
                                            accounts[a].locked + n, accounts[a].unbonding))
      BY <2>1, <2>3
    <3> QED
      BY <1>0, <2>1, <3>1, <3>2, WithSolid
  <2> QED
    BY <2>2, <2>3
<1>9. ASSUME NEW t \in Threads, execute_slash(t) PROVE Goal
  <2> DEFINE a == call[t].verifier
             n == IF accounts[a].locked < call[t].amount THEN accounts[a].locked
                  ELSE call[t].amount
  <2>1. /\ a \in Accounts /\ n \in Nat /\ accounts[a].locked >= n
        /\ accounts' = With(accounts, a, Row(accounts[a].exists,
             accounts[a].balance, accounts[a].locked - n, accounts[a].unbonding))
    BY <1>9, SlashEffect
  <2> HIDE DEF a, n
  <2>2. /\ accounts[a].locked - n \in Nat
        /\ accounts[a].exists \/ (accounts[a].balance = 0 /\ accounts[a].locked - n = 0
                                  /\ accounts[a].unbonding = 0)
    BY <1>0, <2>1 DEF Solid
  <2> QED
    BY <1>0, <2>1, <2>2, WithSolid
<1>10. ASSUME NEW t \in Threads, NEW first \in Accounts, PayRewards(t, first) PROVE Goal
  <2>0. call[t].charge \in Charges /\ call[t].total \in Nat
    BY <1>10 DEF RowInv, CallsOK, EconomyTypeOK, CallState, PayRewards
  <2>1. \A a \in Accounts : Reward(call[t].charge, call[t].total, first, a) \in Nat
    BY <2>0, RewardTyped
  <2>2. accounts' \in [Accounts -> AccountRow]
    BY <1>0, <1>10, <2>1 DEF AccountRow, PayRewards
  <2>3. \A a \in Accounts : accounts[a].exists => accounts'[a].exists
    BY <1>0, <1>10 DEF AccountRow, PayRewards
  <2>4. \A a \in Accounts : ~accounts[a].exists => accounts'[a] = accounts[a]
    BY <1>0, <1>10 DEF PayRewards
  <2> QED
    BY <1>0, <2>2, <2>3, <2>4 DEF Solid
<1>11. CASE UNCHANGED accounts
  BY <1>0, <1>11
<1> HIDE DEF Goal
<1>12. CASE UNCHANGED economyVars
  BY <1>11, <1>12 DEF economyVars
<1>13. ASSUME NEW t \in Threads, NEW a \in Accounts, NEW n \in Amounts, NEW i \in EscrowIds,
              EscrowCall(t, a, n, i)
       PROVE  Goal
  BY <1>11, <1>13 DEF EscrowCall
<1>14. ASSUME NEW u \in UnbondingIds, Ripen(u) PROVE Goal
  BY <1>11, <1>14 DEF Ripen
<1>15. ASSUME NEW t \in Threads, NEW c \in Charges, slash_verifiers(t, c) PROVE Goal
  BY <1>11, <1>15 DEF slash_verifiers
<1>16. ASSUME NEW b \in BountyIds, NEW a \in Accounts, NEW n \in Amounts, create_bounty(b, a, n)
       PROVE  Goal
  BY <1>11, <1>16 DEF create_bounty
<1>17. ASSUME NEW t \in Threads, NEW b \in BountyIds, escrow_bounty(t, b) PROVE Goal
  BY <1>11, <1>17 DEF escrow_bounty
<1>18. ASSUME NEW b \in BountyIds, cancel_bounty(b) PROVE Goal
  BY <1>11, <1>18 DEF cancel_bounty
<1>19. ASSUME NEW t \in Threads, NEW v \in Accounts, calculate_slash_amount(t, v) PROVE Goal
  BY <1>11, <1>19 DEF calculate_slash_amount
<1> QED
  BY <1>1, <1>2, <1>3, <1>4, <1>5, <1>6, <1>7, <1>8, <1>9, <1>10, <1>12, <1>13, <1>14,
     <1>15, <1>16, <1>17, <1>18, <1>19 DEF EconomyNext, ThreadStep

(* A call after one of its slashes.                                        *)
LEMMA SlashedCall ==
    ASSUME NEW r \in CallState, NEW m \in Nat
    PROVE  [r EXCEPT !.pc = "slash", !.total = m] \in CallState
BY DEF CallState

(* Every step keeps the tables well formed.                                *)
LEMMA RowStep == RowInv /\ [EconomyNext]_economyVars => RowInv'
<1> SUFFICES ASSUME RowInv, [EconomyNext]_economyVars PROVE RowInv'
  OBVIOUS
<1>0. accounts' \in [Accounts -> AccountRow] /\ Solid(accounts)'
  BY AccountsStep
<1>1. ASSUME NEW a \in Accounts, NEW n \in Amounts \cup {0}, create_account(a, n) PROVE RowInv'
  <2>1. supply' \in 0..MAX_SUPPLY
    BY <1>1, EconomyAssumption DEF RowInv, EconomyTypeOK, create_account
  <2> QED
    BY <1>0, <1>1, <2>1 DEF RowInv, EconomyTypeOK, CallsOK, RowsOK, create_account
<1>2. ASSUME UNCHANGED <<supply, escrows, unbondings, bounties, lock, call, raced>> PROVE RowInv'
  BY <1>0, <1>2 DEF RowInv, EconomyTypeOK, CallsOK, RowsOK
<1>3. ASSUME NEW t \in Threads, NEW a \in Accounts, NEW n \in Amounts, NEW i \in EscrowIds,
             EscrowCall(t, a, n, i)
      PROVE  RowInv'
  <2>1. call' \in [Threads -> CallState]
    BY <1>3, EconomyAssumption DEF RowInv, EconomyTypeOK, EscrowCall, CallState, Ids, IdleCall
  <2>2. CallsOK'
    BY <1>3 DEF RowInv, EconomyTypeOK, CallsOK, EscrowCall, IdleCall, Ids
  <2> QED
    BY <1>0, <1>3, <2>1, <2>2 DEF RowInv, EconomyTypeOK, RowsOK, EscrowCall
<1>4. ASSUME NEW i \in Ids, escrows' = [escrows EXCEPT ![i].released = TRUE], Open(i),
             UNCHANGED <<supply, unbondings, bounties, lock, call, raced>>
      PROVE  RowInv'
  <2>1. escrows' \in [Ids -> EscrowRow]
    BY <1>4 DEF RowInv, EconomyTypeOK, EscrowRow
  <2>2. \A j \in Ids : escrows'[j] = NoEscrow \/ escrows'[j].account \in Accounts
    BY <1>4 DEF RowInv, EconomyTypeOK, RowsOK, EscrowRow, Open
  <2> QED
    BY <1>0, <1>4, <2>1, <2>2 DEF RowInv, EconomyTypeOK, RowsOK, CallsOK
<1>5. ASSUME NEW a \in Accounts, NEW n \in Amounts, NEW u \in UnbondingIds, unstake(a, n, u)
      PROVE  RowInv'
  <2>1. /\ unbondings' \in [UnbondingIds -> UnbondingRow]
        /\ \A v \in UnbondingIds : \/ unbondings'[v] = NoUnbonding
                                  \/ unbondings'[v].account \in Accounts
    BY <1>5, EconomyAssumption DEF RowInv, EconomyTypeOK, RowsOK, unstake, UnbondingRow
  <2> QED
    BY <1>0, <1>5, <2>1 DEF RowInv, EconomyTypeOK, CallsOK, RowsOK, unstake
<1>6. ASSUME NEW u \in UnbondingIds, Ripen(u) PROVE RowInv'
  <2>1. /\ unbondings' \in [UnbondingIds -> UnbondingRow]
        /\ \A v \in UnbondingIds : \/ unbondings'[v] = NoUnbonding
                                  \/ unbondings'[v].account \in Accounts
    BY <1>6 DEF RowInv, EconomyTypeOK, RowsOK, Ripen, UnbondingRow, NoUnbonding
  <2> QED
    BY <1>0, <1>6, <2>1 DEF RowInv, EconomyTypeOK, CallsOK, RowsOK, Ripen
<1>7. ASSUME NEW a \in Accounts, complete_unbonding(a) PROVE RowInv'
  <2>1. unbondings' \in [UnbondingIds -> UnbondingRow]
    BY <1>7 DEF RowInv, EconomyTypeOK, complete_unbonding, UnbondingRow
  <2>2. \A u \in UnbondingIds : unbondings'[u] = NoUnbonding \/ unbondings'[u].account \in Accounts
    BY <1>7 DEF RowInv, EconomyTypeOK, RowsOK, complete_unbonding, UnbondingRow, Ripe
  <2> QED
    BY <1>0, <1>7, <2>1, <2>2 DEF RowInv, EconomyTypeOK, CallsOK, RowsOK, complete_unbonding
<1>8. ASSUME NEW t \in Threads, NEW c \in Charges, slash_verifiers(t, c) PROVE RowInv'
  <2>1. c.verifiers \in SUBSET Accounts
    BY EconomyAssumption DEF Charges
  <2>2. call' \in [Threads -> CallState]
    BY <1>8, <2>1 DEF RowInv, EconomyTypeOK, slash_verifiers, CallState, IdleCall
  <2>3. CallsOK'
    BY <1>8 DEF RowInv, EconomyTypeOK, CallsOK, slash_verifiers, IdleCall
  <2> QED
    BY <1>0, <1>8, <2>2, <2>3 DEF RowInv, EconomyTypeOK, RowsOK, slash_verifiers
<1>9. ASSUME NEW b \in BountyIds, NEW a \in Accounts, NEW n \in Amounts, create_bounty(b, a, n)
      PROVE  RowInv'
  <2>1. /\ bounties' \in [BountyIds -> BountyRow]
        /\ \A d \in BountyIds : bounties'[d] = NoBounty \/ bounties'[d].creator \in Accounts
    BY <1>9, EconomyAssumption DEF RowInv, EconomyTypeOK, RowsOK, create_bounty, BountyRow
  <2> QED
    BY <1>0, <1>9, <2>1 DEF RowInv, EconomyTypeOK, CallsOK, RowsOK, create_bounty
<1>10. ASSUME NEW t \in Threads, NEW b \in BountyIds, escrow_bounty(t, b) PROVE RowInv'
  <2>0. bounties[b].creator \in Accounts /\ bounties[b].amount \in Nat
    BY <1>10 DEF RowInv, RowsOK, EconomyTypeOK, escrow_bounty, BountyRow, NoBounty
  <2>1. call' \in [Threads -> CallState] /\ lock' \in Threads \cup {Nobody}
    BY <1>10, <2>0 DEF RowInv, EconomyTypeOK, escrow_bounty, CallState, IdleCall, Ids
  <2>2. CallsOK'
    BY <1>10, <2>0 DEF RowInv, EconomyTypeOK, CallsOK, escrow_bounty, IdleCall, Ids
  <2> QED
    BY <1>0, <1>10, <2>1, <2>2 DEF RowInv, EconomyTypeOK, RowsOK, escrow_bounty
<1>11. ASSUME NEW b \in BountyIds, cancel_bounty(b) PROVE RowInv'
  <2>1. /\ bounties' \in [BountyIds -> BountyRow]
        /\ \A d \in BountyIds : bounties'[d] = NoBounty \/ bounties'[d].creator \in Accounts
    BY <1>11 DEF RowInv, EconomyTypeOK, RowsOK, cancel_bounty, BountyRow
  <2> QED
    BY <1>0, <1>11, <2>1 DEF RowInv, EconomyTypeOK, CallsOK, RowsOK, cancel_bounty
<1>12. ASSUME NEW t \in Threads, escrow(t) PROVE RowInv'
  <2>0. call[t].account \in Accounts /\ call[t].id \in Ids /\ call[t].amount \in Nat
    BY <1>12 DEF RowInv, CallsOK, EconomyTypeOK, CallState, escrow
  <2>1. \/ UNCHANGED escrows
        \/ escrows' = [escrows EXCEPT ![call[t].id] =
             [account |-> call[t].account, amount |-> call[t].amount, released |-> FALSE]]
    BY <1>12 DEF escrow
  <2>2. /\ escrows' \in [Ids -> EscrowRow]
        /\ \A j \in Ids : escrows'[j] = NoEscrow \/ escrows'[j].account \in Accounts
    <3>1. CASE UNCHANGED escrows
      BY <3>1 DEF RowInv, EconomyTypeOK, RowsOK
    <3>2. ASSUME NEW r, r \in EscrowRow, r.account \in Accounts,
                 escrows' = [escrows EXCEPT ![call[t].id] = r]
          PROVE  /\ escrows' \in [Ids -> EscrowRow]
                 /\ \A j \in Ids : escrows'[j] = NoEscrow \/ escrows'[j].account \in Accounts
      BY <3>2, <2>0 DEF RowInv, EconomyTypeOK, RowsOK
    <3>3. /\ [account |-> call[t].account, amount |-> call[t].amount, released |-> FALSE]
               \in EscrowRow
          /\ [account |-> call[t].account, amount |-> call[t].amount, released |-> FALSE].account
               \in Accounts
      BY <2>0 DEF EscrowRow
    <3> QED
      BY <2>1, <3>1, <3>2, <3>3
  <2>3. call' \in [Threads -> CallState] /\ CallsOK'
    BY <1>12, IdleTyped DEF RowInv, EconomyTypeOK, CallsOK, escrow
  <2> QED
    BY <1>0, <1>12, <2>2, <2>3 DEF RowInv, EconomyTypeOK, RowsOK, escrow
<1>13. ASSUME NEW t \in Threads, NEW v \in Accounts, calculate_slash_amount(t, v) PROVE RowInv'
  <2>0. accounts[v].locked \div 2 \in Nat
    BY RowFacts
  <2>1. call' \in [Threads -> CallState]
    BY <1>13, <2>0 DEF RowInv, EconomyTypeOK, calculate_slash_amount, CallState
  <2>2. CallsOK'
    BY <1>13 DEF RowInv, EconomyTypeOK, CallsOK, calculate_slash_amount, CallState
  <2> QED
    BY <1>0, <1>13, <2>1, <2>2 DEF RowInv, EconomyTypeOK, RowsOK, calculate_slash_amount
<1>14. ASSUME NEW t \in Threads, execute_slash(t) PROVE RowInv'
  <2>0. call[t].verifier \in Accounts /\ call[t].amount \in Nat /\ call[t].total \in Nat
    BY <1>14 DEF RowInv, CallsOK, EconomyTypeOK, CallState, execute_slash
  <2>1. call' = [call EXCEPT ![t].pc = "slash", ![t].total = call[t].total + call[t].amount]
    BY <1>14 DEF execute_slash
  <2>2. call' \in [Threads -> CallState]
    <3>1. call[t] \in CallState /\ call \in [Threads -> CallState]
      BY DEF RowInv, EconomyTypeOK
    <3>2. [call[t] EXCEPT !.pc = "slash", !.total = call[t].total + call[t].amount] \in CallState
      <4>1. call[t].total + call[t].amount \in Nat
        BY <2>0
      <4> QED
        BY <3>1, <4>1, SlashedCall
    <3>3. call' = [call EXCEPT ![t] = [call[t] EXCEPT !.pc = "slash",
                                         !.total = call[t].total + call[t].amount]]
      BY <3>1, <2>1
    <3> QED
      BY <3>1, <3>2, <3>3
  <2>3. raced' \in BOOLEAN
    BY <1>14, Zenon DEF execute_slash
  <2>4. CallsOK'
    BY <1>14 DEF RowInv, EconomyTypeOK, CallsOK, CallState, execute_slash
  <2> QED
    BY <1>0, <1>14, <2>2, <2>3, <2>4 DEF RowInv, EconomyTypeOK, RowsOK, execute_slash
<1>15. ASSUME NEW t \in Threads, NEW first \in Accounts, PayRewards(t, first) PROVE RowInv'
  <2>1. call' \in [Threads -> CallState] /\ CallsOK'
    BY <1>15, IdleTyped DEF RowInv, EconomyTypeOK, CallsOK, PayRewards
  <2> QED
    BY <1>0, <1>15, <2>1 DEF RowInv, EconomyTypeOK, RowsOK, PayRewards
<1>16. CASE UNCHANGED economyVars
  BY <1>2, <1>16 DEF economyVars
<1>17. ASSUME NEW i \in Ids, NEW b \in Accounts, release_escrow(i, b) PROVE RowInv'
  BY <1>4, <1>17 DEF release_escrow
<1>18. ASSUME NEW i \in Ids, cancel_escrow(i) PROVE RowInv'
  BY <1>4, <1>18 DEF cancel_escrow
<1>19. ASSUME NEW a \in Accounts, NEW b \in Accounts, NEW n \in Amounts, NEW w \in BOOLEAN,
              transfer(a, b, n, w)
       PROVE  RowInv'
  BY <1>2, <1>19 DEF transfer
<1>20. ASSUME NEW a \in Accounts, NEW n \in Amounts, stake(a, n) PROVE RowInv'
  BY <1>2, <1>20 DEF stake
<1> QED
  BY <1>1, <1>3, <1>5, <1>6, <1>7, <1>8, <1>9, <1>10, <1>11, <1>12, <1>13, <1>14,
     <1>15, <1>16, <1>17, <1>18, <1>19, <1>20 DEF EconomyNext, ThreadStep

-----------------------------------------------------------------------------
(* Economy: the supply.                                                    *)

(* What each account holds.                                                *)
Worth(f) == [a \in Accounts |-> f[a].balance + f[a].locked + f[a].unbonding]

(* What the accounts are worth is a natural number.                        *)
LEMMA WorthTyped ==
    ASSUME NEW f \in [Accounts -> AccountRow]
    PROVE  /\ \A a \in Accounts : Worth(f)[a] \in Nat
           /\ SumFunctionOnSet(Worth(f), Accounts) \in Nat
<1>1. \A a \in Accounts : Worth(f)[a] \in Nat
  BY RowOf DEF Worth
<1> QED
  BY <1>1, EconomyAssumption, SumNonNegative

(* A new row changes the worth of the table by the difference of the rows. *)
LEMMA WorthWith ==
    ASSUME NEW f \in [Accounts -> AccountRow], NEW a \in Accounts, NEW e \in BOOLEAN,
           NEW x \in Nat, NEW y \in Nat, NEW z \in Nat
    PROVE  SumFunctionOnSet(Worth(With(f, a, Row(e, x, y, z))), Accounts)
             = SumFunctionOnSet(Worth(f), Accounts)
               - (f[a].balance + f[a].locked + f[a].unbonding) + (x + y + z)
<1> DEFINE g == With(f, a, Row(e, x, y, z))
<1>1. /\ g \in [Accounts -> AccountRow]
      /\ g[a] = Row(e, x, y, z)
      /\ \A b \in Accounts \ {a} : g[b] = f[b]
  BY WithTyped
<1> HIDE DEF g
<1>2. g[a].balance = x /\ g[a].locked = y /\ g[a].unbonding = z
  BY <1>1 DEF Row
<1>3. /\ Worth(g)[a] = x + y + z
      /\ Worth(f)[a] = f[a].balance + f[a].locked + f[a].unbonding
      /\ \A b \in Accounts \ {a} : Worth(f)[b] = Worth(g)[b]
  BY <1>1, <1>2 DEF Worth
<1>4. \A b \in Accounts : Worth(f)[b] \in Int /\ Worth(g)[b] \in Int
  BY <1>1, WorthTyped
<1>5. IsFiniteSet(Accounts)
  BY EconomyAssumption
<1>6. SumFunctionOnSet(Worth(g), Accounts)
        = SumFunctionOnSet(Worth(f), Accounts) - Worth(f)[a] + Worth(g)[a]
  BY <1>3, <1>4, <1>5, SumUpdate
<1> QED
  BY <1>3, <1>6 DEF g

(* The same, of a table that is known to be one with a new row.            *)
LEMMA WorthTo ==
    ASSUME NEW f, NEW g, NEW a, NEW e,
           NEW x, NEW y, NEW z,
           f \in [Accounts -> AccountRow], a \in Accounts, e \in BOOLEAN,
           x \in Nat, y \in Nat, z \in Nat,
           g = With(f, a, Row(e, x, y, z))
    PROVE  SumFunctionOnSet(Worth(g), Accounts)
             = SumFunctionOnSet(Worth(f), Accounts)
               - (f[a].balance + f[a].locked + f[a].unbonding) + (x + y + z)
BY WorthWith

(* Credits, as the worth of table accounts,                                *)
LEMMA CreditsDef == Credits = SumFunctionOnSet(Worth(accounts), Accounts)
BY DEF Credits, Worth

(* and after a step.                                                       *)
LEMMA CreditsDefPrimed == Credits' = SumFunctionOnSet(Worth(accounts'), Accounts)
BY DEF Credits, Worth

(* What slashes have collected and not paid out is a natural number.       *)
LEMMA PendingTyped ==
    ASSUME NEW f \in [Threads -> CallState]
    PROVE  SumFunctionOnSet([t \in Threads |-> f[t].total], Threads) \in Nat
<1>1. \A t \in Threads : [s \in Threads |-> f[s].total][t] \in Nat
  BY DEF CallState
<1> QED
  BY <1>1, EconomyAssumption, SumNonNegative

(* A step of thread t changes it by what happens to the total of t.        *)
LEMMA PendingUpdate ==
    ASSUME RowInv, RowInv', NEW t \in Threads, \A s \in Threads \ {t} : call'[s] = call[s]
    PROVE  /\ Pending' = Pending - call[t].total + call'[t].total
           /\ Pending \in Nat /\ call[t].total \in Nat /\ call'[t].total \in Nat
<1> DEFINE f == [s \in Threads |-> call[s].total]
           g == [s \in Threads |-> call'[s].total]
<1>1. \A s \in Threads : call[s].total \in Nat /\ call'[s].total \in Nat
  BY DEF RowInv, EconomyTypeOK, CallState
<1>2. Pending = SumFunctionOnSet(f, Threads) /\ Pending' = SumFunctionOnSet(g, Threads)
  BY DEF Pending
<1>3. f[t] = call[t].total /\ g[t] = call'[t].total
  OBVIOUS
<1>4. /\ \A s \in Threads : f[s] \in Int /\ g[s] \in Int
      /\ \A s \in Threads \ {t} : f[s] = g[s]
  BY <1>1
<1>5. IsFiniteSet(Threads)
  BY EconomyAssumption
<1>6. Pending \in Nat
  BY PendingTyped DEF Pending, RowInv, EconomyTypeOK
<1> HIDE DEF f, g
<1>7. SumFunctionOnSet(g, Threads) = SumFunctionOnSet(f, Threads) - f[t] + g[t]
  BY <1>4, <1>5, SumUpdate
<1> QED
  BY <1>1, <1>2, <1>3, <1>6, <1>7

(* What the accounts hold and the calls have collected was minted.         *)
SupplyInv == ~raced => Credits + Pending <= supply

(* What one round of rewards adds to the ledger: at most 90 % of total.    *)
LEMMA RewardsBounded ==
    ASSUME NEW c \in Charges, NEW total \in Nat, NEW first \in Accounts
    PROVE  SumFunctionOnSet([a \in Accounts |-> Reward(c, total, first, a)], Accounts) <= total
<1> DEFINE p == (total * 50) \div 100
           q == (total * 40) \div 100
           n == Cardinality(c.honest)
           one == [a \in Accounts |-> IF a \in {c.challenger} THEN p ELSE 0]
           each == [a \in Accounts |-> IF a \in c.honest THEN q \div n ELSE 0]
           rest == [a \in Accounts |-> IF a \in c.honest \cap {first} THEN q % n ELSE 0]
           both == [a \in Accounts |-> one[a] + each[a]]
           all == [a \in Accounts |-> Reward(c, total, first, a)]
<1>0. /\ IsFiniteSet(Accounts) /\ c.honest \in SUBSET Accounts /\ c.challenger \in Accounts
      /\ c.honest \cap {first} \in SUBSET Accounts
  BY EconomyAssumption DEF Charges
<1>1. n \in Nat /\ (c.honest # {} => n > 0)
  BY <1>0, FS_Subset, FS_CardinalityType, FS_EmptySet
<1>2. p \in Nat /\ q \in Nat /\ p + q <= total
  OBVIOUS
<1>3. all = [a \in Accounts |-> both[a] + rest[a]]
  BY DEF Reward
<1> HIDE DEF p, q, n
<1>4. CASE c.honest = {}
  <2>1. \A a \in Accounts : each[a] = 0 /\ rest[a] = 0 /\ one[a] \in Int /\ one[a] + 0 = one[a]
    BY <1>2, <1>4
  <2>2. \A a \in Accounts : all[a] = one[a]
    BY <1>3, <2>1
  <2> HIDE DEF all
  <2>3. SumFunctionOnSet(all, Accounts) = SumFunctionOnSet(one, Accounts)
    BY <1>0, <2>2, SumCongruence
  <2>4. SumFunctionOnSet(one, Accounts) = Cardinality({c.challenger}) * p
    BY <1>0, <1>2, SumConstant
  <2>5. Cardinality({c.challenger}) = 1
    BY FS_Singleton
  <2> QED
    BY <1>2, <2>3, <2>4, <2>5 DEF all
<1>5. CASE c.honest # {}
  <2>1. /\ q \div n \in Nat /\ q % n \in Nat /\ n * (q \div n) + (q % n) = q
    BY <1>1, <1>2, <1>5
  <2> DEFINE d == q \div n
             m == q % n
  <2>2. SumFunctionOnSet(one, Accounts) = Cardinality({c.challenger}) * p
    BY <1>0, <1>2, SumConstant
  <2>3. SumFunctionOnSet(each, Accounts) = n * d
    BY <1>0, <2>1, SumConstant DEF n
  <2>4. SumFunctionOnSet(rest, Accounts) = Cardinality(c.honest \cap {first}) * m
    BY <1>0, <2>1, SumConstant
  <2>5. \A a \in Accounts : one[a] \in Int /\ each[a] \in Int /\ rest[a] \in Int /\ both[a] \in Int
    BY <1>2, <2>1
  <2>6. SumFunctionOnSet(both, Accounts)
          = SumFunctionOnSet(one, Accounts) + SumFunctionOnSet(each, Accounts)
    BY <1>0, <2>5, SumPlus
  <2>7. \A a \in Accounts : all[a] = both[a] + rest[a]
    BY <1>3
  <2> HIDE DEF one, each, rest, both, all
  <2>8. SumFunctionOnSet(all, Accounts)
          = SumFunctionOnSet(both, Accounts) + SumFunctionOnSet(rest, Accounts)
    BY <1>0, <2>5, <2>7, SumPlus
  <2>9. Cardinality({c.challenger}) = 1
    BY FS_Singleton
  <2>10. Cardinality(c.honest \cap {first}) * m <= m
    <3>1. CASE first \in c.honest
      <4>1. c.honest \cap {first} = {first}
        BY <3>1
      <4>2. Cardinality({first}) = 1
        BY FS_Singleton
      <4>3. m \in Nat /\ Cardinality(c.honest \cap {first}) = 1
        BY <4>1, <4>2, <2>1
      <4> HIDE DEF m
      <4> QED
        BY <4>3
    <3>2. CASE first \notin c.honest
      <4>1. c.honest \cap {first} = {}
        BY <3>2
      <4> QED
        BY <4>1, <2>1, FS_EmptySet
    <3> QED
      BY <3>1, <3>2
  <2>11. /\ Cardinality(c.honest \cap {first}) * m \in Int /\ n * d \in Int
         /\ n * d + m = q /\ m \in Nat
    <3>1. Cardinality(c.honest \cap {first}) \in Nat
      BY <1>0, FS_Subset, FS_CardinalityType
    <3> QED
      BY <1>1, <2>1, <3>1
  <2> HIDE DEF d, m
  <2> QED
    BY <1>2, <2>2, <2>3, <2>4, <2>6, <2>8, <2>9, <2>10, <2>11 DEF all
<1> QED
  BY <1>4, <1>5

(* No step makes credits: a slash moves them from locked to the total of   *)
(* its call, the rewards take at most that total, and only create_account  *)
(* adds any, as it adds to supply.                                         *)
LEMMA SupplyStep ==
    ASSUME RowInv, RowInv', SupplyInv, [EconomyNext]_economyVars
    PROVE  SupplyInv'
<1>0. accounts \in [Accounts -> AccountRow] /\ accounts' \in [Accounts -> AccountRow]
  BY DEF RowInv, EconomyTypeOK
<1>a. \A a \in Accounts : /\ accounts[a].exists \in BOOLEAN /\ accounts[a].balance \in Nat
                          /\ accounts[a].locked \in Nat /\ accounts[a].unbonding \in Nat
  BY RowFacts
<1>b. /\ Credits \in Nat /\ Credits' \in Nat /\ Pending \in Nat /\ Pending' \in Nat
      /\ supply \in Nat /\ supply' \in Nat
  BY WorthTyped, PendingTyped, CreditsDef, CreditsDefPrimed, EconomyAssumption
     DEF RowInv, EconomyTypeOK, Pending
<1>c. PICK was \in Nat, now \in Nat, due \in Nat, left \in Nat :
            was = Credits /\ now = Credits' /\ due = Pending /\ left = Pending'
  BY <1>b, Zenon
<1>d. /\ was = SumFunctionOnSet(Worth(accounts), Accounts)
      /\ now = SumFunctionOnSet(Worth(accounts'), Accounts)
  BY <1>c, CreditsDef, CreditsDefPrimed, Zenon
<1>e. supply \in Nat /\ supply' \in Nat /\ (~raced => was + due <= supply)
  BY <1>b, <1>c, Zenon DEF SupplyInv
<1>g. ASSUME ~raced' => now + left <= supply' PROVE SupplyInv'
  BY <1>c, <1>g, Zenon DEF SupplyInv
<1>1. ASSUME now <= was, left <= due, UNCHANGED <<supply, raced>>
      PROVE  SupplyInv'
  <2>1. ASSUME ~raced' PROVE now + left <= supply'
    <3>1. ~raced /\ supply' = supply
      BY <1>1, <2>1
    <3> QED
      BY <1>e, <1>1, <3>1 
  <2> QED
    BY <1>g, <2>1, Zenon
<1>2. ASSUME UNCHANGED call PROVE left = due
  <2>1. Pending' = Pending
    BY <1>2 DEF Pending
  <2> QED
    BY <1>c, <2>1, Zenon
<1>3. ASSUME UNCHANGED accounts PROVE now = was
  BY <1>3, <1>d
<1>f. ASSUME NEW t \in Threads, \A s \in Threads \ {t} : call'[s] = call[s]
      PROVE  /\ left = due - call[t].total + call'[t].total
             /\ call[t].total \in Nat /\ call'[t].total \in Nat
  <2>1. /\ Pending' = Pending - call[t].total + call'[t].total
        /\ call[t].total \in Nat /\ call'[t].total \in Nat
    BY <1>f, PendingUpdate
  <2> QED
    BY <1>c, <2>1, Zenon
<1>4. ASSUME NEW t \in Threads, \A s \in Threads \ {t} : call'[s] = call[s],
             call'[t].total <= call[t].total
      PROVE  left <= due
  BY <1>e, <1>4, <1>f
<1>5. ASSUME NEW a \in Accounts, NEW n \in Amounts \cup {0}, create_account(a, n) PROVE SupplyInv'
  <2>1. n \in Nat /\ accounts' = With(accounts, a, Row(TRUE, n, 0, 0))
    BY <1>5, CreateEffect, Zenon
  <2>2. now <= was + n
    <3>r. /\ accounts[a].balance \in Nat
          /\ accounts[a].locked \in Nat /\ accounts[a].unbonding \in Nat
      BY <1>a
    <3>0. n \in Nat
      BY <2>1
    <3>1. PICK e \in BOOLEAN, y \in Nat, z \in Nat :
              y = 0 /\ z = 0 /\ accounts' = With(accounts, a, Row(e, n, y, z))
      <4>1. TRUE \in BOOLEAN /\ 0 \in Nat
        BY Zenon
      <4> QED
        BY <2>1, <4>1, Zenon
    <3>2. SumFunctionOnSet(Worth(accounts'), Accounts)
            = SumFunctionOnSet(Worth(accounts), Accounts)
              - (accounts[a].balance + accounts[a].locked + accounts[a].unbonding) + (n + y + z)
      BY <1>0, <3>0, <3>1, WorthTo
    <3>3. now = was - (accounts[a].balance + accounts[a].locked + accounts[a].unbonding)
                + (n + y + z)
      BY <1>d, <3>2
    <3> QED
      BY <3>0, <3>r, <3>1, <3>3
  <2>3. supply' = supply + n /\ UNCHANGED <<call, raced>>
    BY <1>5 DEF create_account
  <2>4. ASSUME ~raced' PROVE now + left <= supply'
    <3>1. ~raced /\ left = due
      BY <1>2, <2>3, <2>4
    <3> QED
      BY <1>e, <2>1, <2>2, <2>3, <3>1 
  <2> QED
    BY <1>g, <2>4, Zenon
<1>6. ASSUME NEW a \in Accounts, NEW b \in Accounts, NEW n \in Amounts, NEW w \in BOOLEAN,
             transfer(a, b, n, w)
      PROVE  SupplyInv'
  <2>1. n \in Nat /\ accounts[a].balance >= n
    BY <1>6, TransferEffect
  <2>2. PICK paid \in [Accounts -> AccountRow] :
              /\ paid = With(accounts, a, Row(accounts[a].exists, accounts[a].balance - n,
                                              accounts[a].locked, accounts[a].unbonding))
              /\ accounts' = With(paid, b, Row(TRUE, paid[b].balance + n, paid[b].locked,
                                               paid[b].unbonding))
    BY <1>6, TransferEffect, Zenon
  <2> DEFINE between == SumFunctionOnSet(Worth(paid), Accounts)
  <2>3. /\ accounts[a].balance - n \in Nat
    BY <1>a, <2>1
  <2>r. /\ accounts[a].exists \in BOOLEAN /\ accounts[a].balance \in Nat
        /\ accounts[a].locked \in Nat /\ accounts[a].unbonding \in Nat
    BY <1>a, <2>1
  <2>p. PICK ep \in BOOLEAN, x \in Nat, y \in Nat, z \in Nat :
            /\ x = accounts[a].balance - n /\ y = accounts[a].locked
            /\ z = accounts[a].unbonding
            /\ paid = With(accounts, a, Row(ep, x, y, z))
    BY <2>r, <2>2, <2>3
  <2>4. between
       = SumFunctionOnSet(Worth(accounts), Accounts)
         - (accounts[a].balance + accounts[a].locked + accounts[a].unbonding)
         + (x + y + z)
    BY <1>0, <2>1, <2>p, WorthTo
  <2>5. /\ paid[b].balance \in Nat /\ paid[b].locked \in Nat /\ paid[b].unbonding \in Nat
        /\ paid[b].balance + n \in Nat
    BY <2>1, <2>2, RowOf
  <2>q. PICK eq \in BOOLEAN, xx \in Nat, yy \in Nat, zz \in Nat :
            /\ xx = paid[b].balance + n /\ yy = paid[b].locked
            /\ zz = paid[b].unbonding
            /\ accounts' = With(paid, b, Row(eq, xx, yy, zz))
    BY <2>2, <2>5
  <2>6. SumFunctionOnSet(Worth(accounts'), Accounts)
       = between
         - (paid[b].balance + paid[b].locked + paid[b].unbonding)
         + (xx + yy + zz)
    BY <2>q, WorthTo
  <2>s. between \in Int
    BY WorthTyped
  <2> HIDE DEF between
  <2>v. between = was - (accounts[a].balance + accounts[a].locked + accounts[a].unbonding)
                      + (x + y + z)
    BY <1>d, <2>4, Zenon
  <2>w. now = between - (paid[b].balance + paid[b].locked + paid[b].unbonding) + (xx + yy + zz)
    BY <1>d, <2>6, Zenon
  <2>t. between = was - n
    BY <2>s, <2>r, <2>p, <2>1, <2>v
  <2>u. now = between + n
    BY <2>s, <2>q, <2>1, <2>5, <2>w
  <2>7. now = was
    BY <2>t, <2>u, <2>1
  <2> QED
    BY <1>e, <1>1, <1>2, <1>6, <2>7 DEF transfer
<1>7. ASSUME NEW i \in Ids, NEW b \in Accounts, release_escrow(i, b) PROVE SupplyInv'
  <2> DEFINE c == escrows[i].account
             n == escrows[i].amount
  <2>1. c \in Accounts /\ n \in Nat /\ accounts[c].locked >= n
    BY <1>7, ReleaseEffect
  <2>2. PICK unlocked \in [Accounts -> AccountRow] :
              /\ unlocked = With(accounts, c, Row(accounts[c].exists,
                   accounts[c].balance, accounts[c].locked - n, accounts[c].unbonding))
              /\ accounts' = With(unlocked, b, Row(TRUE, unlocked[b].balance + n,
                   unlocked[b].locked, unlocked[b].unbonding))
    BY <1>7, ReleaseEffect
  <2> DEFINE between == SumFunctionOnSet(Worth(unlocked), Accounts)
  <2> HIDE DEF c, n
  <2>3. /\ accounts[c].locked - n \in Nat
    BY <1>a, <2>1
  <2>r. /\ accounts[c].exists \in BOOLEAN /\ accounts[c].balance \in Nat
        /\ accounts[c].locked \in Nat /\ accounts[c].unbonding \in Nat
    BY <1>a, <2>1
  <2>p. PICK ep \in BOOLEAN, x \in Nat, y \in Nat, z \in Nat :
            /\ x = accounts[c].balance /\ y = accounts[c].locked - n
            /\ z = accounts[c].unbonding
            /\ unlocked = With(accounts, c, Row(ep, x, y, z))
    BY <2>r, <2>1, <2>2, <2>3
  <2>4. between
       = SumFunctionOnSet(Worth(accounts), Accounts)
         - (accounts[c].balance + accounts[c].locked + accounts[c].unbonding)
         + (x + y + z)
    BY <1>0, <2>1, <2>p, WorthTo
  <2>5. /\ unlocked[b].balance \in Nat /\ unlocked[b].locked \in Nat
        /\ unlocked[b].unbonding \in Nat /\ unlocked[b].balance + n \in Nat
    BY <2>1, <2>2, RowOf
  <2>q. PICK eq \in BOOLEAN, xx \in Nat, yy \in Nat, zz \in Nat :
            /\ xx = unlocked[b].balance + n /\ yy = unlocked[b].locked
            /\ zz = unlocked[b].unbonding
            /\ accounts' = With(unlocked, b, Row(eq, xx, yy, zz))
    BY <2>2, <2>5
  <2>6. SumFunctionOnSet(Worth(accounts'), Accounts)
       = between
         - (unlocked[b].balance + unlocked[b].locked + unlocked[b].unbonding)
         + (xx + yy + zz)
    BY <2>q, WorthTo
  <2>s. between \in Int
    BY WorthTyped
  <2> HIDE DEF between
  <2>v. between = was - (accounts[c].balance + accounts[c].locked + accounts[c].unbonding)
                      + (x + y + z)
    BY <1>d, <2>4, Zenon
  <2>w. now = between - (unlocked[b].balance + unlocked[b].locked + unlocked[b].unbonding)
                  + (xx + yy + zz)
    BY <1>d, <2>6, Zenon
  <2>t. between = was - n
    BY <2>s, <2>r, <2>p, <2>1, <2>v
  <2>u. now = between + n
    BY <2>s, <2>q, <2>1, <2>5, <2>w
  <2>7. now = was
    BY <2>t, <2>u, <2>1
  <2> QED
    BY <1>e, <1>1, <1>2, <1>7, <2>7 DEF release_escrow
<1>8. ASSUME NEW i \in Ids, cancel_escrow(i) PROVE SupplyInv'
  <2> DEFINE c == escrows[i].account
             n == escrows[i].amount
  <2>1. /\ c \in Accounts /\ n \in Nat /\ accounts[c].locked >= n
        /\ accounts' = With(accounts, c, Row(accounts[c].exists,
             accounts[c].balance + n, accounts[c].locked - n, accounts[c].unbonding))
    BY <1>8, CancelEffect
  <2> HIDE DEF c, n
  <2>2. /\ accounts[c].balance + n \in Nat /\ accounts[c].locked - n \in Nat
    BY <1>a, <2>1
  <2>r. /\ accounts[c].exists \in BOOLEAN /\ accounts[c].balance \in Nat
        /\ accounts[c].locked \in Nat /\ accounts[c].unbonding \in Nat
    BY <1>a, <2>1
  <2>p. PICK ep \in BOOLEAN, x \in Nat, y \in Nat, z \in Nat :
            /\ x = accounts[c].balance + n /\ y = accounts[c].locked - n
            /\ z = accounts[c].unbonding
            /\ accounts' = With(accounts, c, Row(ep, x, y, z))
    BY <2>r, <2>1, <2>2
  <2>3. SumFunctionOnSet(Worth(accounts'), Accounts)
       = SumFunctionOnSet(Worth(accounts), Accounts)
         - (accounts[c].balance + accounts[c].locked + accounts[c].unbonding)
         + (x + y + z)
    BY <1>0, <2>1, <2>p, WorthTo
  <2>4. now = was
    BY <1>d, <2>r, <2>p, <2>1, <2>3
  <2> QED
    BY <1>e, <1>1, <1>2, <1>8, <2>4 DEF cancel_escrow
<1>9. ASSUME NEW a \in Accounts, NEW n \in Amounts, stake(a, n) PROVE SupplyInv'
  <2>1. /\ n \in Nat /\ accounts[a].balance >= n
        /\ accounts' = With(accounts, a, Row(accounts[a].exists,
             accounts[a].balance - n, accounts[a].locked + n, accounts[a].unbonding))
    BY <1>9, StakeEffect
  <2>2. /\ accounts[a].balance - n \in Nat /\ accounts[a].locked + n \in Nat
    BY <1>a, <2>1
  <2>r. /\ accounts[a].exists \in BOOLEAN /\ accounts[a].balance \in Nat
        /\ accounts[a].locked \in Nat /\ accounts[a].unbonding \in Nat
    BY <1>a, <2>1
  <2>p. PICK ep \in BOOLEAN, x \in Nat, y \in Nat, z \in Nat :
            /\ x = accounts[a].balance - n /\ y = accounts[a].locked + n
            /\ z = accounts[a].unbonding
            /\ accounts' = With(accounts, a, Row(ep, x, y, z))
    BY <2>r, <2>1, <2>2
  <2>3. SumFunctionOnSet(Worth(accounts'), Accounts)
       = SumFunctionOnSet(Worth(accounts), Accounts)
         - (accounts[a].balance + accounts[a].locked + accounts[a].unbonding)
         + (x + y + z)
    BY <1>0, <2>1, <2>p, WorthTo
  <2>4. now = was
    BY <1>d, <2>r, <2>p, <2>1, <2>3
  <2> QED
    BY <1>e, <1>1, <1>2, <1>9, <2>4 DEF stake
<1>10. ASSUME NEW a \in Accounts, NEW n \in Amounts, NEW u \in UnbondingIds, unstake(a, n, u)
       PROVE  SupplyInv'
  <2>1. /\ n \in Nat /\ accounts[a].locked >= n
        /\ accounts' = With(accounts, a, Row(accounts[a].exists,
             accounts[a].balance, accounts[a].locked - n, accounts[a].unbonding + n))
    BY <1>10, UnstakeEffect
  <2>2. /\ accounts[a].locked - n \in Nat /\ accounts[a].unbonding + n \in Nat
    BY <1>a, <2>1
  <2>r. /\ accounts[a].exists \in BOOLEAN /\ accounts[a].balance \in Nat
        /\ accounts[a].locked \in Nat /\ accounts[a].unbonding \in Nat
    BY <1>a, <2>1
  <2>p. PICK ep \in BOOLEAN, x \in Nat, y \in Nat, z \in Nat :
            /\ x = accounts[a].balance /\ y = accounts[a].locked - n
            /\ z = accounts[a].unbonding + n
            /\ accounts' = With(accounts, a, Row(ep, x, y, z))
    BY <2>r, <2>1, <2>2
  <2>3. SumFunctionOnSet(Worth(accounts'), Accounts)
       = SumFunctionOnSet(Worth(accounts), Accounts)
         - (accounts[a].balance + accounts[a].locked + accounts[a].unbonding)
         + (x + y + z)
    BY <1>0, <2>1, <2>p, WorthTo
  <2>4. now = was
    BY <1>d, <2>r, <2>p, <2>1, <2>3
  <2> QED
    BY <1>e, <1>1, <1>2, <1>10, <2>4 DEF unstake
<1>11. ASSUME NEW a \in Accounts, complete_unbonding(a) PROVE SupplyInv'
  <2> DEFINE n == SumFunctionOnSet(UnbondingAmounts, Ripe(a))
  <2>1. /\ n \in Nat /\ accounts[a].unbonding >= n
        /\ accounts' = With(accounts, a, Row(accounts[a].exists,
             accounts[a].balance + n, accounts[a].locked, accounts[a].unbonding - n))
    BY <1>11, CompleteEffect
  <2> HIDE DEF n
  <2>2. /\ accounts[a].balance + n \in Nat /\ accounts[a].unbonding - n \in Nat
    BY <1>a, <2>1
  <2>r. /\ accounts[a].exists \in BOOLEAN /\ accounts[a].balance \in Nat
        /\ accounts[a].locked \in Nat /\ accounts[a].unbonding \in Nat
    BY <1>a, <2>1
  <2>p. PICK ep \in BOOLEAN, x \in Nat, y \in Nat, z \in Nat :
            /\ x = accounts[a].balance + n /\ y = accounts[a].locked
            /\ z = accounts[a].unbonding - n
            /\ accounts' = With(accounts, a, Row(ep, x, y, z))
    BY <2>r, <2>1, <2>2
  <2>3. SumFunctionOnSet(Worth(accounts'), Accounts)
       = SumFunctionOnSet(Worth(accounts), Accounts)
         - (accounts[a].balance + accounts[a].locked + accounts[a].unbonding)
         + (x + y + z)
    BY <1>0, <2>1, <2>p, WorthTo
  <2>4. now = was
    BY <1>d, <2>r, <2>p, <2>1, <2>3
  <2> QED
    BY <1>e, <1>1, <1>2, <1>11, <2>4 DEF complete_unbonding
<1>12. ASSUME NEW t \in Threads, escrow(t) PROVE SupplyInv'
  <2> DEFINE a == call[t].account
             n == call[t].amount
  <2>1. /\ a \in Accounts /\ n \in Nat
        /\ \/ UNCHANGED accounts
           \/ /\ accounts[a].balance >= n
              /\ accounts' = With(accounts, a, Row(accounts[a].exists,
                   accounts[a].balance - n, accounts[a].locked + n, accounts[a].unbonding))
    BY <1>12, EscrowEffect
  <2> HIDE DEF a, n
  <2>2. now = was
    <3>1. CASE UNCHANGED accounts
      BY <1>3, <3>1
    <3>2. CASE ~UNCHANGED accounts
      <4>1. /\ accounts[a].balance >= n
            /\ accounts' = With(accounts, a, Row(accounts[a].exists,
                 accounts[a].balance - n, accounts[a].locked + n, accounts[a].unbonding))
        BY <2>1, <3>2
      <4>2. accounts[a].balance - n \in Nat /\ accounts[a].locked + n \in Nat
        BY <1>a, <2>1, <4>1
      <4>r. /\ accounts[a].exists \in BOOLEAN /\ accounts[a].balance \in Nat
            /\ accounts[a].locked \in Nat /\ accounts[a].unbonding \in Nat
        BY <1>a, <2>1
      <4>p. PICK ep \in BOOLEAN, x \in Nat, y \in Nat, z \in Nat :
                /\ x = accounts[a].balance - n /\ y = accounts[a].locked + n
                /\ z = accounts[a].unbonding
                /\ accounts' = With(accounts, a, Row(ep, x, y, z))
        BY <4>r, <2>1, <4>1, <4>2
      <4>3. SumFunctionOnSet(Worth(accounts'), Accounts)
           = SumFunctionOnSet(Worth(accounts), Accounts)
             - (accounts[a].balance + accounts[a].locked + accounts[a].unbonding)
             + (x + y + z)
        BY <1>0, <2>1, <4>p, WorthTo
      <4> QED
        BY <1>d, <2>1, <4>r, <4>p, <4>3
    <3> QED
      BY <3>1, <3>2
  <2>3. /\ \A s \in Threads \ {t} : call'[s] = call[s]
        /\ call'[t].total <= call[t].total
    BY <1>12 DEF escrow, IdleCall, RowInv, EconomyTypeOK, CallState
  <2> QED
    BY <1>e, <1>1, <1>4, <1>12, <2>2, <2>3 DEF escrow
<1>13. ASSUME NEW t \in Threads, execute_slash(t) PROVE SupplyInv'
  <2> DEFINE a == call[t].verifier
             n == IF accounts[a].locked < call[t].amount THEN accounts[a].locked
                  ELSE call[t].amount
  <2>1. /\ a \in Accounts /\ n \in Nat /\ accounts[a].locked >= n /\ call[t].amount \in Nat
        /\ accounts' = With(accounts, a, Row(accounts[a].exists,
             accounts[a].balance, accounts[a].locked - n, accounts[a].unbonding))
    BY <1>13, SlashEffect
  <2>2. n <= call[t].amount /\ (~raced' => ~raced /\ ~(n < call[t].amount))
    <3>1. n <= call[t].amount
      BY <1>a, <2>1
    <3>2. raced' = (raced \/ n < call[t].amount)
      BY <1>13 DEF execute_slash
    <3> HIDE DEF n
    <3> QED
      BY <3>1, <3>2, Zenon
  <2> HIDE DEF a, n
  <2>3. accounts[a].locked - n \in Nat
    BY <1>a, <2>1
  <2>r. /\ accounts[a].exists \in BOOLEAN /\ accounts[a].balance \in Nat
        /\ accounts[a].locked \in Nat /\ accounts[a].unbonding \in Nat
    BY <1>a, <2>1
  <2>p. PICK ep \in BOOLEAN, x \in Nat, y \in Nat, z \in Nat :
            /\ x = accounts[a].balance /\ y = accounts[a].locked - n
            /\ z = accounts[a].unbonding
            /\ accounts' = With(accounts, a, Row(ep, x, y, z))
    BY <2>r, <2>1, <2>3
  <2>4. SumFunctionOnSet(Worth(accounts'), Accounts)
       = SumFunctionOnSet(Worth(accounts), Accounts)
         - (accounts[a].balance + accounts[a].locked + accounts[a].unbonding)
         + (x + y + z)
    BY <1>0, <2>1, <2>p, WorthTo
  <2>5. now = was - n
    BY <1>d, <2>r, <2>p, <2>1, <2>4
  <2>6. /\ \A s \in Threads \ {t} : call'[s] = call[s]
        /\ call'[t].total = call[t].total + call[t].amount
    BY <1>13 DEF execute_slash, RowInv, EconomyTypeOK, CallState
  <2>7. left = due + call[t].amount
    BY <1>e, <2>1, <2>6, <1>f
  <2>8. UNCHANGED supply
    BY <1>13 DEF execute_slash
  <2>9. ASSUME ~raced' PROVE now + left <= supply'
    <3>1. ~raced /\ n = call[t].amount
      BY <2>1, <2>2, <2>9
    <3> QED
      BY <1>e, <2>1, <2>5, <2>7, <2>8, <3>1 
  <2> QED
    BY <1>g, <2>9, Zenon
<1>14. ASSUME NEW t \in Threads, NEW first \in Accounts, PayRewards(t, first) PROVE SupplyInv'
  <2> DEFINE c == call[t].charge
             total == call[t].total
             added == [a \in Accounts |-> Reward(c, total, first, a)]
             full == [a \in Accounts |-> Worth(accounts)[a] + added[a]]
  <2>0. c \in Charges /\ total \in Nat
    BY <1>14 DEF RowInv, CallsOK, EconomyTypeOK, CallState, PayRewards
  <2>1. accounts' = [a \in Accounts |->
                       IF accounts[a].exists
                       THEN [accounts[a] EXCEPT !.balance = @ + Reward(c, total, first, a)]
                       ELSE accounts[a]]
    BY <1>14 DEF PayRewards
  <2>2. SumFunctionOnSet(added, Accounts) <= total
    BY <2>0, RewardsBounded
  <2> HIDE DEF c, total
  <2>3. \A a \in Accounts : added[a] \in Nat
    BY <2>0, RewardTyped
  <2>4. \A a \in Accounts : Worth(accounts')[a] <= full[a]
    <3> SUFFICES ASSUME NEW a \in Accounts PROVE Worth(accounts')[a] <= full[a]
      OBVIOUS
    <3>1. accounts[a] \in AccountRow /\ Reward(c, total, first, a) \in Nat
      BY <1>0, <2>0, RewardTyped
    <3>2. /\ accounts'[a].locked = accounts[a].locked
          /\ accounts'[a].unbonding = accounts[a].unbonding
          /\ accounts'[a].balance <= accounts[a].balance + Reward(c, total, first, a)
          /\ accounts'[a].balance \in Nat
      BY <2>1, <3>1 DEF AccountRow
    <3> QED
      BY <1>a, <3>1, <3>2 DEF Worth
  <2>5. \A a \in Accounts : /\ Worth(accounts')[a] \in Int /\ Worth(accounts)[a] \in Int
                            /\ added[a] \in Int /\ full[a] \in Int
    BY <1>0, <2>3, WorthTyped
  <2>6. IsFiniteSet(Accounts)
    BY EconomyAssumption
  <2>7. SumFunctionOnSet(Worth(accounts'), Accounts) <= SumFunctionOnSet(full, Accounts)
    <3> HIDE DEF full
    <3> QED
      BY <2>4, <2>5, <2>6, SumMonotone
  <2>8. \A a \in Accounts : full[a] = Worth(accounts)[a] + added[a]
    OBVIOUS
  <2> HIDE DEF full, added
  <2>9. SumFunctionOnSet(full, Accounts)
          = SumFunctionOnSet(Worth(accounts), Accounts) + SumFunctionOnSet(added, Accounts)
    BY <2>5, <2>6, <2>8, SumPlus
  <2>10. SumFunctionOnSet(full, Accounts) \in Int /\ SumFunctionOnSet(added, Accounts) \in Int
    BY <2>5, <2>6, SumType
  <2>11. now <= was + total
    BY <1>e, <2>0, <2>2, <2>7, <2>9, <2>10, <1>d
  <2>12. /\ \A s \in Threads \ {t} : call'[s] = call[s]
         /\ call'[t].total = 0
    BY <1>14 DEF PayRewards, IdleCall, RowInv, EconomyTypeOK
  <2>13. left = due - total
    BY <1>e, <2>12, <1>f DEF total
  <2>14. UNCHANGED <<supply, raced>>
    BY <1>14 DEF PayRewards
  <2>15. ASSUME ~raced' PROVE now + left <= supply'
    <3>1. ~raced /\ supply' = supply
      BY <2>14, <2>15
    <3> QED
      BY <1>e, <2>0, <2>11, <2>13, <3>1 
  <2> QED
    BY <1>g, <2>15, Zenon
<1>15. CASE UNCHANGED economyVars
  <2>1. UNCHANGED <<accounts, supply, call, raced>>
    BY <1>15 DEF economyVars
  <2>2. now <= was /\ left <= due
    BY <1>2, <1>3, <2>1
  <2> QED
    BY <1>1, <2>1, <2>2
<1>16. ASSUME NEW t \in Threads, NEW a \in Accounts, NEW n \in Amounts, NEW i \in EscrowIds,
              EscrowCall(t, a, n, i)
       PROVE  SupplyInv'
  <2>1. /\ \A s \in Threads \ {t} : call'[s] = call[s]
        /\ call'[t].total <= call[t].total
    BY <1>16 DEF EscrowCall, IdleCall, RowInv, EconomyTypeOK, CallState
  <2> QED
    BY <1>e, <1>1, <1>3, <1>4, <1>16, <2>1 DEF EscrowCall
<1>17. ASSUME NEW u \in UnbondingIds, Ripen(u) PROVE SupplyInv'
  BY <1>e, <1>1, <1>2, <1>3, <1>17 DEF Ripen
<1>18. ASSUME NEW t \in Threads, NEW c \in Charges, slash_verifiers(t, c) PROVE SupplyInv'
  <2>1. /\ \A s \in Threads \ {t} : call'[s] = call[s]
        /\ call'[t].total <= call[t].total
    BY <1>18 DEF slash_verifiers, IdleCall, RowInv, EconomyTypeOK, CallState
  <2> QED
    BY <1>e, <1>1, <1>3, <1>4, <1>18, <2>1 DEF slash_verifiers
<1>19. ASSUME NEW b \in BountyIds, NEW a \in Accounts, NEW n \in Amounts, create_bounty(b, a, n)
       PROVE  SupplyInv'
  BY <1>e, <1>1, <1>2, <1>3, <1>19 DEF create_bounty
<1>20. ASSUME NEW t \in Threads, NEW b \in BountyIds, escrow_bounty(t, b) PROVE SupplyInv'
  <2>1. /\ \A s \in Threads \ {t} : call'[s] = call[s]
        /\ call'[t].total <= call[t].total
    BY <1>20 DEF escrow_bounty, IdleCall, RowInv, EconomyTypeOK, CallState
  <2> QED
    BY <1>e, <1>1, <1>3, <1>4, <1>20, <2>1 DEF escrow_bounty
<1>21. ASSUME NEW b \in BountyIds, cancel_bounty(b) PROVE SupplyInv'
  BY <1>e, <1>1, <1>2, <1>3, <1>21 DEF cancel_bounty
<1>22. ASSUME NEW t \in Threads, NEW v \in Accounts, calculate_slash_amount(t, v) PROVE SupplyInv'
  <2>1. /\ \A s \in Threads \ {t} : call'[s] = call[s]
        /\ call'[t].total <= call[t].total
    BY <1>22 DEF calculate_slash_amount, RowInv, EconomyTypeOK, CallState
  <2>2. UNCHANGED <<accounts, supply, raced>>
    BY <1>22 DEF calculate_slash_amount
  <2>3. left <= due /\ now <= was
    BY <1>e, <1>3, <1>4, <2>1, <2>2
  <2> QED
    BY <1>1, <2>2, <2>3
<1> QED
  BY <1>5, <1>6, <1>7, <1>8, <1>9, <1>10, <1>11, <1>12, <1>13, <1>14, <1>15, <1>16, <1>17, <1>18,
     <1>19, <1>20, <1>21, <1>22 DEF EconomyNext, ThreadStep

-----------------------------------------------------------------------------
(* Economy: unbonding and escrows.                                         *)

(* The columns locked and unbonding of a table with a new row.             *)
LEMMA WithColumns ==
    ASSUME NEW f \in [Accounts -> AccountRow], NEW g, NEW a \in Accounts, NEW e \in BOOLEAN,
           NEW x \in Nat, NEW y \in Nat, NEW z \in Nat, g = With(f, a, Row(e, x, y, z))
    PROVE  /\ g[a].locked = y /\ g[a].unbonding = z
           /\ \A b \in Accounts \ {a} : /\ g[b].locked = f[b].locked
                                        /\ g[b].unbonding = f[b].unbonding
<1>1. g[a] = Row(e, x, y, z) /\ \A b \in Accounts \ {a} : g[b] = f[b]
  BY WithTyped
<1> QED
  BY <1>1 DEF Row

(* Two tables with the same unbonding column; with no locked lowered.      *)
UnbondingKept(f, g) == \A b \in Accounts : g[b].unbonding = f[b].unbonding

LockedKept(f, g) == \A b \in Accounts : g[b].locked >= f[b].locked

Quiet(f, g) == UnbondingKept(f, g) /\ LockedKept(f, g)

(* A new row that keeps unbonding, and does not lower locked, keeps the    *)
(* columns so.                                                             *)
LEMMA QuietWith ==
    ASSUME NEW f \in [Accounts -> AccountRow], NEW g, NEW a \in Accounts, NEW e \in BOOLEAN,
           NEW x \in Nat, NEW y \in Nat, NEW z \in Nat, g = With(f, a, Row(e, x, y, z)),
           z = f[a].unbonding
    PROVE  /\ UnbondingKept(f, g)
           /\ y >= f[a].locked => LockedKept(f, g)
<1>1. /\ g[a].locked = y /\ g[a].unbonding = z
      /\ \A b \in Accounts \ {a} : /\ g[b].locked = f[b].locked
                                   /\ g[b].unbonding = f[b].unbonding
  BY WithColumns
<1>2. \A b \in Accounts : f[b].locked \in Nat
  BY RowOf
<1> QED
  BY <1>1, <1>2 DEF UnbondingKept, LockedKept

(* Which steps touch the column unbonding or lower locked.                 *)
LEMMA QuietStep ==
    ASSUME RowInv, [EconomyNext]_economyVars
    PROVE  \/ Quiet(accounts, accounts') /\ UNCHANGED unbondings
              /\ (UNCHANGED escrows \/ \E t \in Threads : escrow(t))
           \/ \E i \in Ids, b \in Accounts : release_escrow(i, b)
           \/ \E i \in Ids : cancel_escrow(i)
           \/ \E a \in Accounts, n \in Amounts, u \in UnbondingIds : unstake(a, n, u)
           \/ \E u \in UnbondingIds : Ripen(u)
           \/ \E a \in Accounts : complete_unbonding(a)
           \/ \E t \in Threads : execute_slash(t)
<1> DEFINE Done == Quiet(accounts, accounts') /\ UNCHANGED unbondings
                   /\ (UNCHANGED escrows \/ \E t \in Threads : escrow(t))
<1>0. accounts \in [Accounts -> AccountRow]
  BY RowFacts
<1>a. \A a \in Accounts : /\ accounts[a].exists \in BOOLEAN /\ accounts[a].balance \in Nat
                          /\ accounts[a].locked \in Nat /\ accounts[a].unbonding \in Nat
  BY RowFacts
<1>1. ASSUME UNCHANGED <<accounts, unbondings, escrows>> PROVE Done
  <2>1. Quiet(accounts, accounts)
    BY <1>a DEF Quiet, UnbondingKept, LockedKept
  <2> QED
    BY <1>1, <2>1
<1>2. ASSUME NEW a \in Accounts, NEW n \in Amounts \cup {0}, create_account(a, n) PROVE Done
  <2>1. n \in Nat /\ accounts' = With(accounts, a, Row(TRUE, n, 0, 0))
    BY <1>2, CreateEffect, Zenon
  <2>2. PICK e \in BOOLEAN, y \in Nat, z \in Nat :
              y = 0 /\ z = 0 /\ accounts' = With(accounts, a, Row(e, n, y, z))
    <3>1. TRUE \in BOOLEAN /\ 0 \in Nat
      BY Zenon
    <3> QED
      BY <2>1, <3>1, Zenon
  <2>a. accounts[a].unbonding = 0 /\ accounts[a].locked = 0
    BY <1>2 DEF create_account, RowInv, RowsOK, Solid
  <2>b. n \in Nat
    BY <2>1
  <2>3. n \in Nat /\ z = accounts[a].unbonding /\ y >= accounts[a].locked
    BY <2>a, <2>b, <2>2
  <2>4. Quiet(accounts, accounts')
    BY <1>0, <2>2, <2>3, QuietWith DEF Quiet
  <2> QED
    BY <1>2, <2>4 DEF create_account
<1>3. ASSUME NEW a \in Accounts, NEW b \in Accounts, NEW n \in Amounts, NEW w \in BOOLEAN,
             transfer(a, b, n, w)
      PROVE  Done
  <2>1. n \in Nat /\ accounts[a].balance >= n
    BY <1>3, TransferEffect
  <2>2. PICK paid \in [Accounts -> AccountRow] :
              /\ paid = With(accounts, a, Row(accounts[a].exists, accounts[a].balance - n,
                                              accounts[a].locked, accounts[a].unbonding))
              /\ accounts' = With(paid, b, Row(TRUE, paid[b].balance + n, paid[b].locked,
                                               paid[b].unbonding))
    BY <1>3, TransferEffect, Zenon
  <2>3. PICK e \in BOOLEAN, x \in Nat, y \in Nat, z \in Nat :
              /\ y = accounts[a].locked /\ z = accounts[a].unbonding
              /\ paid = With(accounts, a, Row(e, x, y, z))
    BY <1>a, <2>1, <2>2
  <2>4. UnbondingKept(accounts, paid) /\ LockedKept(accounts, paid)
    BY <1>0, <1>a, <2>3, QuietWith
  <2>5. /\ paid[b].locked \in Nat /\ paid[b].unbonding \in Nat /\ paid[b].balance + n \in Nat
    BY <2>1, RowOf
  <2>6. PICK ee \in BOOLEAN, xx \in Nat, yy \in Nat, zz \in Nat :
              /\ yy = paid[b].locked /\ zz = paid[b].unbonding
              /\ accounts' = With(paid, b, Row(ee, xx, yy, zz))
    <3>1. TRUE \in BOOLEAN
      BY Zenon
    <3> QED
      BY <2>2, <2>5, <3>1, Zenon
  <2>7. UnbondingKept(paid, accounts') /\ LockedKept(paid, accounts')
    BY <2>5, <2>6, QuietWith
  <2>8. \A c \in Accounts : paid[c].locked \in Nat
    BY RowOf
  <2>9. \A c \in Accounts : accounts'[c].locked \in Nat
    <3>1. accounts' \in [Accounts -> AccountRow]
      BY AccountsStep
    <3> QED
      BY <3>1, RowOf
  <2>10. Quiet(accounts, accounts')
    BY <1>a, <2>4, <2>7, <2>8, <2>9 DEF Quiet, UnbondingKept, LockedKept
  <2> QED
    BY <1>3, <2>10 DEF transfer
<1>4. ASSUME NEW a \in Accounts, NEW n \in Amounts, stake(a, n) PROVE Done
  <2>1. /\ n \in Nat /\ accounts[a].balance >= n
        /\ accounts' = With(accounts, a, Row(accounts[a].exists,
             accounts[a].balance - n, accounts[a].locked + n, accounts[a].unbonding))
    BY <1>4, StakeEffect
  <2>a. /\ accounts[a].exists \in BOOLEAN /\ accounts[a].balance - n \in Nat
        /\ accounts[a].locked + n \in Nat /\ accounts[a].unbonding \in Nat
    BY <1>a, <2>1
  <2>2. PICK e \in BOOLEAN, x \in Nat, y \in Nat, z \in Nat :
              /\ y = accounts[a].locked + n /\ z = accounts[a].unbonding
              /\ accounts' = With(accounts, a, Row(e, x, y, z))
    BY <2>a, <2>1, Zenon
  <2>b. y >= accounts[a].locked
    BY <1>a, <2>1, <2>2
  <2>3. Quiet(accounts, accounts')
    BY <1>0, <2>b, <2>2, QuietWith DEF Quiet
  <2> QED
    BY <1>4, <2>3 DEF stake
<1>5. ASSUME NEW t \in Threads, escrow(t) PROVE Done
  <2> DEFINE a == call[t].account
             n == call[t].amount
  <2>1. /\ a \in Accounts /\ n \in Nat
        /\ \/ UNCHANGED accounts
           \/ /\ accounts[a].balance >= n
              /\ accounts' = With(accounts, a, Row(accounts[a].exists,
                   accounts[a].balance - n, accounts[a].locked + n, accounts[a].unbonding))
    BY <1>5, EscrowEffect
  <2> HIDE DEF a, n
  <2>2. Quiet(accounts, accounts')
    <3>1. CASE UNCHANGED accounts
      BY <1>a, <3>1 DEF Quiet, UnbondingKept, LockedKept
    <3>2. CASE ~UNCHANGED accounts
      <4>a. /\ accounts[a].balance >= n
            /\ accounts' = With(accounts, a, Row(accounts[a].exists,
                 accounts[a].balance - n, accounts[a].locked + n, accounts[a].unbonding))
        BY <2>1, <3>2
      <4>b. /\ accounts[a].exists \in BOOLEAN /\ accounts[a].balance - n \in Nat
            /\ accounts[a].locked + n \in Nat /\ accounts[a].unbonding \in Nat
        BY <1>a, <2>1, <4>a
      <4>1. PICK e \in BOOLEAN, x \in Nat, y \in Nat, z \in Nat :
              /\ y = accounts[a].locked + n /\ z = accounts[a].unbonding
              /\ accounts' = With(accounts, a, Row(e, x, y, z))
        BY <4>a, <4>b, Zenon
      <4>2. y >= accounts[a].locked /\ a \in Accounts
        BY <1>a, <2>1, <4>1
      <4> QED
        BY <1>0, <4>2, <4>1, QuietWith DEF Quiet
    <3> QED
      BY <3>1, <3>2
  <2> QED
    BY <1>5, <2>2 DEF escrow
<1>6. ASSUME NEW t \in Threads, NEW first \in Accounts, PayRewards(t, first) PROVE Done
  <2>1. accounts' = [a \in Accounts |->
                       IF accounts[a].exists
                       THEN [accounts[a] EXCEPT
                               !.balance = @ + Reward(call[t].charge, call[t].total, first, a)]
                       ELSE accounts[a]]
    BY <1>6 DEF PayRewards
  <2>2. \A b \in Accounts : /\ accounts'[b].locked = accounts[b].locked
                            /\ accounts'[b].unbonding = accounts[b].unbonding
    BY <1>0, <2>1 DEF AccountRow
  <2> QED
    BY <1>6, <1>a, <2>2 DEF PayRewards, Quiet, UnbondingKept, LockedKept
<1>7. CASE UNCHANGED economyVars
  BY <1>1, <1>7 DEF economyVars
<1>8. ASSUME NEW t \in Threads, NEW a \in Accounts, NEW n \in Amounts, NEW i \in EscrowIds,
              EscrowCall(t, a, n, i) PROVE Done
  BY <1>1, <1>8 DEF EscrowCall
<1>9. ASSUME NEW t \in Threads, NEW c \in Charges, slash_verifiers(t, c) PROVE Done
  BY <1>1, <1>9 DEF slash_verifiers
<1>10. ASSUME NEW b \in BountyIds, NEW a \in Accounts, NEW n \in Amounts, create_bounty(b, a, n)
       PROVE  Done
  BY <1>1, <1>10 DEF create_bounty
<1>11. ASSUME NEW t \in Threads, NEW b \in BountyIds, escrow_bounty(t, b) PROVE Done
  BY <1>1, <1>11 DEF escrow_bounty
<1>12. ASSUME NEW b \in BountyIds, cancel_bounty(b) PROVE Done
  BY <1>1, <1>12 DEF cancel_bounty
<1>13. ASSUME NEW t \in Threads, NEW v \in Accounts, calculate_slash_amount(t, v) PROVE Done
  BY <1>1, <1>13 DEF calculate_slash_amount
<1> QED
  BY <1>2, <1>3, <1>4, <1>5, <1>6, <1>7, <1>8, <1>9, <1>10, <1>11, <1>12, <1>13
     DEF EconomyNext, ThreadStep

(* The amounts of a table; the unbonding records of account a that are not *)
(* completed; its open escrows.                                            *)
Amount(r) == [x \in DOMAIN r |-> r[x].amount]

Live(r, a) == {u \in UnbondingIds : r[u].account = a /\ r[u].status # "completed"}

Held(r, a) == {i \in Ids : r[i] # NoEscrow /\ ~r[i].released /\ r[i].account = a}

(* UnbondingBacked in terms of the table unbondings,                       *)
LEMMA UnbondingBackedDef ==
    ASSUME RowInv
    PROVE  UnbondingBacked <=> \A a \in Accounts : accounts[a].unbonding
             = SumFunctionOnSet(Amount(unbondings), Live(unbondings, a))
<1>1. UnbondingAmounts = Amount(unbondings)
  BY DEF UnbondingAmounts, Amount, RowInv, EconomyTypeOK
<1> QED
  BY <1>1 DEF UnbondingBacked, Live

(* and after a step.                                                       *)
LEMMA UnbondingBackedDefPrimed ==
    ASSUME RowInv'
    PROVE  UnbondingBacked' <=> \A a \in Accounts : accounts'[a].unbonding
             = SumFunctionOnSet(Amount(unbondings'), Live(unbondings', a))
<1>1. UnbondingAmounts' = Amount(unbondings')
  BY DEF UnbondingAmounts, Amount, RowInv, EconomyTypeOK
<1> QED
  BY <1>1 DEF UnbondingBacked, Live

(* EscrowsBacked in terms of the table escrows,                            *)
LEMMA EscrowsBackedDef ==
    ASSUME RowInv
    PROVE  EscrowsBacked <=> \A a \in Accounts : accounts[a].locked
             >= SumFunctionOnSet(Amount(escrows), Held(escrows, a))
<1>1. [i \in Ids |-> escrows[i].amount] = Amount(escrows)
  BY DEF Amount, RowInv, EconomyTypeOK
<1>2. \A a \in Accounts : {i \in Ids : Open(i) /\ escrows[i].account = a} = Held(escrows, a)
  BY DEF Held, Open
<1> QED
  BY <1>1, <1>2 DEF EscrowsBacked

(* and after a step.                                                       *)
LEMMA EscrowsBackedDefPrimed ==
    ASSUME RowInv'
    PROVE  EscrowsBacked' <=> \A a \in Accounts : accounts'[a].locked
             >= SumFunctionOnSet(Amount(escrows'), Held(escrows', a))
<1>1. [i \in Ids |-> escrows'[i].amount] = Amount(escrows')
  BY DEF Amount, RowInv, EconomyTypeOK
<1>2. \A a \in Accounts : {i \in Ids : Open(i)' /\ escrows'[i].account = a} = Held(escrows', a)
  BY DEF Held, Open
<1> QED
  BY <1>1, <1>2 DEF EscrowsBacked

(* There are finitely many rows, each with an amount.                      *)
LEMMA TablesFinite ==
    /\ \A r \in [UnbondingIds -> UnbondingRow], a \in Accounts :
         /\ IsFiniteSet(Live(r, a)) /\ Live(r, a) \subseteq UnbondingIds
         /\ \A u \in UnbondingIds : Amount(r)[u] = r[u].amount /\ r[u].amount \in Nat
    /\ \A r \in [Ids -> EscrowRow], a \in Accounts :
         /\ IsFiniteSet(Held(r, a)) /\ Held(r, a) \subseteq Ids
         /\ \A i \in Ids : Amount(r)[i] = r[i].amount /\ r[i].amount \in Nat
<1>1. IsFiniteSet(UnbondingIds) /\ IsFiniteSet(Ids)
  BY EconomyAssumption, FS_Union DEF Ids
<1>2. \A r, a : Live(r, a) \subseteq UnbondingIds /\ Held(r, a) \subseteq Ids
  BY DEF Live, Held
<1>3. \A r, a : IsFiniteSet(Live(r, a)) /\ IsFiniteSet(Held(r, a))
  BY <1>1, <1>2, FS_Subset
<1>4. /\ \A r \in [UnbondingIds -> UnbondingRow] :
         \A u \in UnbondingIds : Amount(r)[u] = r[u].amount /\ r[u].amount \in Nat
      /\ \A r \in [Ids -> EscrowRow] :
         \A i \in Ids : Amount(r)[i] = r[i].amount /\ r[i].amount \in Nat
  BY DEF Amount, UnbondingRow, EscrowRow
<1> QED
  BY <1>2, <1>3, <1>4

(* Every step keeps the column unbonding in line with the records: unstake *)
(* adds to both, and complete_unbonding takes from the column exactly what *)
(* the records it completes add up to.                                     *)
LEMMA UnbondingBackedStep ==
    ASSUME RowInv, RowInv', UnbondingBacked, [EconomyNext]_economyVars
    PROVE  UnbondingBacked'
<1> DEFINE Owed(a) == SumFunctionOnSet(Amount(unbondings), Live(unbondings, a))
           OwedNext(a) == SumFunctionOnSet(Amount(unbondings'), Live(unbondings', a))
<1>0. /\ unbondings \in [UnbondingIds -> UnbondingRow]
      /\ unbondings' \in [UnbondingIds -> UnbondingRow]
      /\ accounts \in [Accounts -> AccountRow]
  BY DEF RowInv, EconomyTypeOK
<1>1. \A a \in Accounts : accounts[a].unbonding = Owed(a)
  BY UnbondingBackedDef
<1>2. SUFFICES ASSUME NEW b \in Accounts PROVE accounts'[b].unbonding = OwedNext(b)
  BY UnbondingBackedDefPrimed
<1>3. /\ IsFiniteSet(Live(unbondings, b)) /\ IsFiniteSet(Live(unbondings', b))
      /\ Live(unbondings, b) \subseteq UnbondingIds /\ Live(unbondings', b) \subseteq UnbondingIds
      /\ \A u \in UnbondingIds : /\ Amount(unbondings)[u] = unbondings[u].amount
                                 /\ Amount(unbondings')[u] = unbondings'[u].amount
                                 /\ Amount(unbondings)[u] \in Nat /\ Amount(unbondings')[u] \in Nat
  BY <1>0, TablesFinite
<1>a. \A a \in Accounts : /\ accounts[a].exists \in BOOLEAN /\ accounts[a].balance \in Nat
                          /\ accounts[a].locked \in Nat /\ accounts[a].unbonding \in Nat
  BY RowFacts
<1>4. ASSUME UnbondingKept(accounts, accounts'),
             Live(unbondings', b) = Live(unbondings, b),
             \A u \in Live(unbondings, b) : unbondings'[u].amount = unbondings[u].amount
      PROVE  accounts'[b].unbonding = OwedNext(b)
  <2>1. \A u \in Live(unbondings, b) : Amount(unbondings)[u] = Amount(unbondings')[u]
    BY <1>3, <1>4
  <2>2. Owed(b) = OwedNext(b)
    BY <1>3, <1>4, <2>1, SumCongruence
  <2> QED
    BY <1>1, <1>4, <2>2 DEF UnbondingKept
<1>5. ASSUME UNCHANGED unbondings, UnbondingKept(accounts, accounts')
      PROVE  accounts'[b].unbonding = OwedNext(b)
  BY <1>4, <1>5
<1>6. ASSUME NEW i \in Ids, NEW c \in Accounts, release_escrow(i, c)
      PROVE  accounts'[b].unbonding = OwedNext(b)
  <2> DEFINE a == escrows[i].account
             n == escrows[i].amount
  <2>1. a \in Accounts /\ n \in Nat /\ accounts[a].locked >= n
    BY <1>6, ReleaseEffect
  <2>2. PICK unlocked \in [Accounts -> AccountRow] :
              /\ unlocked = With(accounts, a, Row(accounts[a].exists,
                   accounts[a].balance, accounts[a].locked - n, accounts[a].unbonding))
              /\ accounts' = With(unlocked, c, Row(TRUE, unlocked[c].balance + n,
                   unlocked[c].locked, unlocked[c].unbonding))
    BY <1>6, ReleaseEffect
  <2> HIDE DEF a, n
  <2>3. /\ accounts[a].exists \in BOOLEAN /\ accounts[a].balance \in Nat
        /\ accounts[a].locked - n \in Nat /\ accounts[a].unbonding \in Nat
    BY <1>a, <2>1
  <2>4. PICK e \in BOOLEAN, x \in Nat, y \in Nat, z \in Nat :
              z = accounts[a].unbonding /\ unlocked = With(accounts, a, Row(e, x, y, z))
    BY <2>2, <2>3, Zenon
  <2>5. UnbondingKept(accounts, unlocked)
    BY <1>0, <2>1, <2>4, QuietWith
  <2>6. /\ unlocked[c].locked \in Nat /\ unlocked[c].unbonding \in Nat
        /\ unlocked[c].balance + n \in Nat
    BY <2>1, RowOf
  <2>7. PICK ee \in BOOLEAN, xx \in Nat, yy \in Nat, zz \in Nat :
              zz = unlocked[c].unbonding /\ accounts' = With(unlocked, c, Row(ee, xx, yy, zz))
    <3>1. TRUE \in BOOLEAN
      BY Zenon
    <3> QED
      BY <2>2, <2>6, <3>1, Zenon
  <2>8. UnbondingKept(unlocked, accounts')
    BY <2>7, QuietWith
  <2>9. UnbondingKept(accounts, accounts')
    BY <2>5, <2>8 DEF UnbondingKept
  <2> QED
    BY <1>5, <1>6, <2>9 DEF release_escrow
<1>7. ASSUME NEW i \in Ids, cancel_escrow(i) PROVE accounts'[b].unbonding = OwedNext(b)
  <2> DEFINE a == escrows[i].account
             n == escrows[i].amount
  <2>1. /\ a \in Accounts /\ n \in Nat /\ accounts[a].locked >= n
        /\ accounts' = With(accounts, a, Row(accounts[a].exists,
             accounts[a].balance + n, accounts[a].locked - n, accounts[a].unbonding))
    BY <1>7, CancelEffect
  <2> HIDE DEF a, n
  <2>3. /\ accounts[a].exists \in BOOLEAN /\ accounts[a].balance + n \in Nat
        /\ accounts[a].locked - n \in Nat /\ accounts[a].unbonding \in Nat
    BY <1>a, <2>1
  <2>4. PICK e \in BOOLEAN, x \in Nat, y \in Nat, z \in Nat :
              z = accounts[a].unbonding /\ accounts' = With(accounts, a, Row(e, x, y, z))
    BY <2>1, <2>3, Zenon
  <2>5. UnbondingKept(accounts, accounts')
    BY <1>0, <2>1, <2>4, QuietWith
  <2> QED
    BY <1>5, <1>7, <2>5 DEF cancel_escrow
<1>8. ASSUME NEW t \in Threads, execute_slash(t) PROVE accounts'[b].unbonding = OwedNext(b)
  <2> DEFINE a == call[t].verifier
             n == IF accounts[a].locked < call[t].amount THEN accounts[a].locked
                  ELSE call[t].amount
  <2>1. /\ a \in Accounts /\ n \in Nat /\ accounts[a].locked >= n
        /\ accounts' = With(accounts, a, Row(accounts[a].exists,
             accounts[a].balance, accounts[a].locked - n, accounts[a].unbonding))
    BY <1>8, SlashEffect
  <2> HIDE DEF a, n
  <2>3. /\ accounts[a].exists \in BOOLEAN /\ accounts[a].balance \in Nat
        /\ accounts[a].locked - n \in Nat /\ accounts[a].unbonding \in Nat
    BY <1>a, <2>1
  <2>4. PICK e \in BOOLEAN, x \in Nat, y \in Nat, z \in Nat :
              z = accounts[a].unbonding /\ accounts' = With(accounts, a, Row(e, x, y, z))
    BY <2>1, <2>3, Zenon
  <2>5. UnbondingKept(accounts, accounts')
    BY <1>0, <2>1, <2>4, QuietWith
  <2> QED
    BY <1>5, <1>8, <2>5 DEF execute_slash
<1>9. ASSUME NEW u \in UnbondingIds, Ripen(u) PROVE accounts'[b].unbonding = OwedNext(b)
  <2>1. \A v \in UnbondingIds : /\ unbondings'[v].account = unbondings[v].account
                                /\ unbondings'[v].amount = unbondings[v].amount
                                /\ (unbondings'[v].status = "completed")
                                     <=> (unbondings[v].status = "completed")
    BY <1>0, <1>9 DEF Ripen, UnbondingRow
  <2>2. Live(unbondings', b) = Live(unbondings, b)
    BY <2>1 DEF Live
  <2>3. UnbondingKept(accounts, accounts')
    BY <1>9 DEF Ripen, UnbondingKept
  <2> QED
    BY <1>3, <1>4, <2>1, <2>2, <2>3
<1>10. ASSUME NEW a \in Accounts, NEW n \in Amounts, NEW u \in UnbondingIds, unstake(a, n, u)
       PROVE  accounts'[b].unbonding = OwedNext(b)
  <2>1. /\ n \in Nat /\ accounts[a].locked >= n
        /\ accounts' = With(accounts, a, Row(accounts[a].exists,
             accounts[a].balance, accounts[a].locked - n, accounts[a].unbonding + n))
    BY <1>10, UnstakeEffect
  <2>2. /\ accounts[a].exists \in BOOLEAN /\ accounts[a].balance \in Nat
        /\ accounts[a].locked - n \in Nat /\ accounts[a].unbonding + n \in Nat
    BY <1>a, <2>1
  <2>3. PICK e \in BOOLEAN, x \in Nat, y \in Nat, z \in Nat :
              z = accounts[a].unbonding + n /\ accounts' = With(accounts, a, Row(e, x, y, z))
    BY <2>1, <2>2, Zenon
  <2>4. /\ accounts'[a].unbonding = accounts[a].unbonding + n
        /\ \A c \in Accounts \ {a} : accounts'[c].unbonding = accounts[c].unbonding
    BY <1>0, <2>3, WithColumns
  <2>5. /\ unbondings[u] = NoUnbonding
        /\ unbondings'[u] = [account |-> a, amount |-> n, status |-> "open"]
        /\ \A v \in UnbondingIds \ {u} : unbondings'[v] = unbondings[v]
    BY <1>0, <1>10 DEF unstake
  <2>6. unbondings[u].account \notin Accounts
    BY <2>5, EconomyAssumption DEF NoUnbonding
  <2>7. \A v \in Live(unbondings, b) : Amount(unbondings)[v] = Amount(unbondings')[v]
    BY <1>3, <2>5, <2>6 DEF Live
  <2>8. SumFunctionOnSet(Amount(unbondings), Live(unbondings, b))
          = SumFunctionOnSet(Amount(unbondings'), Live(unbondings, b))
    BY <1>3, <2>7, SumCongruence
  <2>9. CASE b = a
    <3>1. Live(unbondings', b) = Live(unbondings, b) \cup {u} /\ u \notin Live(unbondings, b)
      BY <2>5, <2>6, <2>9 DEF Live
    <3>2. OwedNext(b) = Amount(unbondings')[u]
                          + SumFunctionOnSet(Amount(unbondings'), Live(unbondings, b))
      <4>1. \A v \in Live(unbondings, b) \cup {u} : Amount(unbondings')[v] \in Int
        BY <1>3
      <4> QED
        BY <1>3, <3>1, <4>1, SumInsert
    <3>3. Amount(unbondings')[u] = n
      BY <1>3, <2>5
    <3>4. accounts[b].unbonding = Owed(b)
      BY <1>1
    <3> QED
      BY <1>a, <2>1, <2>4, <2>8, <2>9, <3>2, <3>3, <3>4
  <2>10. CASE b # a
    <3>1. Live(unbondings', b) = Live(unbondings, b)
      BY <2>5, <2>6, <2>10 DEF Live
    <3> QED
      BY <1>1, <2>4, <2>8, <2>10, <3>1
  <2> QED
    BY <2>9, <2>10
<1>11. ASSUME NEW a \in Accounts, complete_unbonding(a) PROVE accounts'[b].unbonding = OwedNext(b)
  <2> DEFINE n == SumFunctionOnSet(UnbondingAmounts, Ripe(a))
  <2>1. /\ n \in Nat /\ accounts[a].unbonding >= n
        /\ accounts' = With(accounts, a, Row(accounts[a].exists,
             accounts[a].balance + n, accounts[a].locked, accounts[a].unbonding - n))
    BY <1>11, CompleteEffect
  <2>2. n = SumFunctionOnSet(Amount(unbondings), Ripe(a))
    <3>1. UnbondingAmounts = Amount(unbondings)
      BY <1>0 DEF UnbondingAmounts, Amount
    <3> QED
      BY <3>1
  <2> HIDE DEF n
  <2>3. /\ accounts[a].exists \in BOOLEAN /\ accounts[a].balance + n \in Nat
        /\ accounts[a].locked \in Nat /\ accounts[a].unbonding - n \in Nat
    BY <1>a, <2>1
  <2>4. PICK e \in BOOLEAN, x \in Nat, y \in Nat, z \in Nat :
              z = accounts[a].unbonding - n /\ accounts' = With(accounts, a, Row(e, x, y, z))
    BY <2>1, <2>3, Zenon
  <2>5. /\ accounts'[a].unbonding = accounts[a].unbonding - n
        /\ \A c \in Accounts \ {a} : accounts'[c].unbonding = accounts[c].unbonding
    BY <1>0, <2>4, WithColumns
  <2>6. \A u \in UnbondingIds :
          /\ unbondings'[u].account = unbondings[u].account
          /\ unbondings'[u].amount = unbondings[u].amount
          /\ u \in Ripe(a) => unbondings'[u].status = "completed"
          /\ u \notin Ripe(a) => unbondings'[u].status = unbondings[u].status
    BY <1>0, <1>11 DEF complete_unbonding, UnbondingRow
  <2>7. Live(unbondings', b) = Live(unbondings, b) \ Ripe(a)
    BY <2>6 DEF Live
  <2>8. SumFunctionOnSet(Amount(unbondings), Live(unbondings', b)) = OwedNext(b)
    <3>1. \A u \in Live(unbondings', b) : Amount(unbondings)[u] = Amount(unbondings')[u]
      BY <1>3, <2>6
    <3> QED
      BY <1>3, <3>1, SumCongruence
  <2>9. CASE b = a
    <3>1. Ripe(a) \in SUBSET Live(unbondings, b)
      BY <2>9 DEF Ripe, Live
    <3>2. \A u \in Live(unbondings, b) : Amount(unbondings)[u] \in Int
      BY <1>3
    <3>3. SumFunctionOnSet(Amount(unbondings), Live(unbondings, b))
            = SumFunctionOnSet(Amount(unbondings), Ripe(a))
              + SumFunctionOnSet(Amount(unbondings), Live(unbondings, b) \ Ripe(a))
      BY <1>3, <3>1, <3>2, SumSplit
    <3>4. OwedNext(b) \in Int
      <4>1. \A u \in Live(unbondings', b) : Amount(unbondings')[u] \in Int
        BY <1>3
      <4> QED
        BY <1>3, <4>1, SumType
    <3>5. accounts[b].unbonding = n + OwedNext(b)
      BY <1>1, <2>2, <2>7, <2>8, <3>3
    <3> QED
      BY <1>a, <2>1, <2>5, <2>9, <3>4, <3>5
  <2>10. CASE b # a
    <3>1. Live(unbondings', b) = Live(unbondings, b)
      BY <2>7, <2>10 DEF Live, Ripe
    <3> QED
      BY <1>1, <2>5, <2>8, <2>10, <3>1
  <2> QED
    BY <2>9, <2>10
<1>12. ASSUME Quiet(accounts, accounts'), UNCHANGED unbondings
       PROVE  accounts'[b].unbonding = OwedNext(b)
  BY <1>5, <1>12 DEF Quiet
<1> QED
  BY <1>6, <1>7, <1>8, <1>9, <1>10, <1>11, <1>12, QuietStep

(* Every step but those of the stake keeps escrows payable: escrow locks   *)
(* what it records, release and cancel take their own amount, and the rest *)
(* lowers no locked.                                                       *)
LEMMA EscrowsBackedStep ==
    ASSUME RowInv, RowInv', EscrowsBacked, [EconomyNext]_economyVars
    PROVE  \/ EscrowsBacked'
           \/ \E a \in Accounts, n \in Amounts, u \in UnbondingIds : unstake(a, n, u)
           \/ \E t \in Threads : execute_slash(t)
<1> DEFINE Due(a) == SumFunctionOnSet(Amount(escrows), Held(escrows, a))
           DueNext(a) == SumFunctionOnSet(Amount(escrows'), Held(escrows', a))
           Stakes == \/ \E a \in Accounts, n \in Amounts, u \in UnbondingIds : unstake(a, n, u)
                     \/ \E t \in Threads : execute_slash(t)
<1>0. /\ escrows \in [Ids -> EscrowRow] /\ escrows' \in [Ids -> EscrowRow]
      /\ accounts \in [Accounts -> AccountRow] /\ accounts' \in [Accounts -> AccountRow]
  BY DEF RowInv, EconomyTypeOK
<1>1. \A a \in Accounts : accounts[a].locked >= Due(a)
  BY EscrowsBackedDef
<1>2. SUFFICES ASSUME ~Stakes, NEW b \in Accounts PROVE accounts'[b].locked >= DueNext(b)
  BY EscrowsBackedDefPrimed
<1>3. /\ IsFiniteSet(Held(escrows, b)) /\ IsFiniteSet(Held(escrows', b))
      /\ Held(escrows, b) \subseteq Ids /\ Held(escrows', b) \subseteq Ids
      /\ \A i \in Ids : /\ Amount(escrows)[i] = escrows[i].amount
                        /\ Amount(escrows')[i] = escrows'[i].amount
                        /\ Amount(escrows)[i] \in Nat /\ Amount(escrows')[i] \in Nat
  BY <1>0, TablesFinite
<1>4. Due(b) \in Nat /\ DueNext(b) \in Nat
  <2>1. /\ \A i \in Held(escrows, b) : Amount(escrows)[i] \in Nat
        /\ \A i \in Held(escrows', b) : Amount(escrows')[i] \in Nat
    BY <1>3
  <2> QED
    BY <1>3, <2>1, SumNonNegative
<1>a. \A a \in Accounts : /\ accounts[a].exists \in BOOLEAN /\ accounts[a].balance \in Nat
                          /\ accounts[a].locked \in Nat /\ accounts[a].unbonding \in Nat
                          /\ accounts'[a].locked \in Nat
  BY <1>0, RowOf
<1>5. ASSUME LockedKept(accounts, accounts'), UNCHANGED escrows
      PROVE  accounts'[b].locked >= DueNext(b)
  <2>1. Due(b) = DueNext(b)
    BY <1>5
  <2>2. accounts[b].locked >= Due(b) /\ accounts'[b].locked >= accounts[b].locked
    BY <1>1, <1>5 DEF LockedKept
  <2> HIDE DEF Due, DueNext
  <2> QED
    BY <1>a, <1>4, <2>1, <2>2
<1>6. ASSUME NEW i \in Ids, NEW a \in Accounts, NEW n \in Nat,
             a = escrows[i].account, n = escrows[i].amount,
             Open(i), escrows' = [escrows EXCEPT ![i].released = TRUE],
             accounts'[a].locked = accounts[a].locked - n,
             \A c \in Accounts \ {a} : accounts'[c].locked = accounts[c].locked
      PROVE  accounts'[b].locked >= DueNext(b)
  <2>1. \A j \in Ids : /\ escrows'[j].amount = escrows[j].amount
                       /\ escrows'[j].account = escrows[j].account
                       /\ j # i => escrows'[j] = escrows[j]
    BY <1>0, <1>6 DEF EscrowRow
  <2>2. escrows'[i].released
    BY <1>0, <1>6 DEF EscrowRow
  <2>3. \A j \in Held(escrows', b) : Amount(escrows)[j] = Amount(escrows')[j]
    BY <1>3, <2>1
  <2>4. SumFunctionOnSet(Amount(escrows), Held(escrows', b)) = DueNext(b)
    BY <1>3, <2>3, SumCongruence
  <2>5. CASE b = a
    <3>1. i \in Held(escrows, b) /\ Held(escrows', b) = Held(escrows, b) \ {i}
      BY <1>6, <2>1, <2>2, <2>5 DEF Held, Open
    <3>2. \A j \in Held(escrows, b) : Amount(escrows)[j] \in Int
      BY <1>3
    <3>3. SumFunctionOnSet(Amount(escrows), Held(escrows, b))
            = Amount(escrows)[i] + SumFunctionOnSet(Amount(escrows), Held(escrows, b) \ {i})
      BY <1>3, <3>1, <3>2, SumRemove
    <3>4. Due(b) = n + DueNext(b)
      BY <1>3, <1>6, <2>4, <3>1, <3>3
    <3>5. accounts[b].locked >= Due(b) /\ accounts'[b].locked = accounts[b].locked - n
      BY <1>1, <1>6, <2>5
    <3> HIDE DEF Due, DueNext
    <3> QED
      BY <1>a, <1>4, <3>4, <3>5
  <2>6. CASE b # a
    <3>1. Held(escrows', b) = Held(escrows, b)
      BY <1>6, <2>1, <2>6 DEF Held
    <3>2. Due(b) = DueNext(b)
      BY <2>4, <3>1
    <3>3. accounts[b].locked >= Due(b) /\ accounts'[b].locked = accounts[b].locked
      BY <1>1, <1>6, <2>6
    <3> QED
      BY <3>2, <3>3
  <2> QED
    BY <2>5, <2>6
<1>7. ASSUME NEW i \in Ids, NEW c \in Accounts, release_escrow(i, c)
      PROVE  accounts'[b].locked >= DueNext(b)
  <2> DEFINE a == escrows[i].account
             n == escrows[i].amount
  <2>1. a \in Accounts /\ n \in Nat /\ accounts[a].locked >= n
    BY <1>7, ReleaseEffect
  <2>2. PICK unlocked \in [Accounts -> AccountRow] :
              /\ unlocked = With(accounts, a, Row(accounts[a].exists,
                   accounts[a].balance, accounts[a].locked - n, accounts[a].unbonding))
              /\ accounts' = With(unlocked, c, Row(TRUE, unlocked[c].balance + n,
                   unlocked[c].locked, unlocked[c].unbonding))
    BY <1>7, ReleaseEffect
  <2>a. Open(i) /\ escrows' = [escrows EXCEPT ![i].released = TRUE]
    BY <1>7 DEF release_escrow
  <2>b. a = escrows[i].account /\ n = escrows[i].amount
    OBVIOUS
  <2> HIDE DEF a, n
  <2>3. /\ accounts[a].exists \in BOOLEAN /\ accounts[a].balance \in Nat
        /\ accounts[a].locked - n \in Nat /\ accounts[a].unbonding \in Nat
    BY <1>a, <2>1
  <2>4. PICK e \in BOOLEAN, x \in Nat, y \in Nat, z \in Nat :
              y = accounts[a].locked - n /\ unlocked = With(accounts, a, Row(e, x, y, z))
    BY <2>2, <2>3, Zenon
  <2>5. /\ unlocked[a].locked = accounts[a].locked - n
        /\ \A d \in Accounts \ {a} : unlocked[d].locked = accounts[d].locked
    BY <1>0, <2>1, <2>4, WithColumns
  <2>6. /\ unlocked[c].locked \in Nat /\ unlocked[c].unbonding \in Nat
        /\ unlocked[c].balance + n \in Nat
    BY <2>1, RowOf
  <2>7. PICK ee \in BOOLEAN, xx \in Nat, yy \in Nat, zz \in Nat :
              yy = unlocked[c].locked /\ accounts' = With(unlocked, c, Row(ee, xx, yy, zz))
    <3>1. TRUE \in BOOLEAN
      BY Zenon
    <3> QED
      BY <2>2, <2>6, <3>1, Zenon
  <2>8. /\ accounts'[c].locked = yy
        /\ \A d \in Accounts \ {c} : accounts'[d].locked = unlocked[d].locked
    BY <2>7, WithColumns
  <2>9. \A d \in Accounts : accounts'[d].locked = unlocked[d].locked
    BY <2>7, <2>8
  <2>10. /\ accounts'[a].locked = accounts[a].locked - n
         /\ \A d \in Accounts \ {a} : accounts'[d].locked = accounts[d].locked
    BY <2>1, <2>5, <2>9
  <2> QED
    BY <1>6, <2>1, <2>10, <2>a, <2>b
<1>8. ASSUME NEW i \in Ids, cancel_escrow(i) PROVE accounts'[b].locked >= DueNext(b)
  <2> DEFINE a == escrows[i].account
             n == escrows[i].amount
  <2>1. /\ a \in Accounts /\ n \in Nat /\ accounts[a].locked >= n
        /\ accounts' = With(accounts, a, Row(accounts[a].exists,
             accounts[a].balance + n, accounts[a].locked - n, accounts[a].unbonding))
    BY <1>8, CancelEffect
  <2>a. Open(i) /\ escrows' = [escrows EXCEPT ![i].released = TRUE]
    BY <1>8 DEF cancel_escrow
  <2>b. a = escrows[i].account /\ n = escrows[i].amount
    OBVIOUS
  <2> HIDE DEF a, n
  <2>3. /\ accounts[a].exists \in BOOLEAN /\ accounts[a].balance + n \in Nat
        /\ accounts[a].locked - n \in Nat /\ accounts[a].unbonding \in Nat
    BY <1>a, <2>1
  <2>4. PICK e \in BOOLEAN, x \in Nat, y \in Nat, z \in Nat :
              y = accounts[a].locked - n /\ accounts' = With(accounts, a, Row(e, x, y, z))
    BY <2>1, <2>3, Zenon
  <2>5. /\ accounts'[a].locked = accounts[a].locked - n
        /\ \A d \in Accounts \ {a} : accounts'[d].locked = accounts[d].locked
    BY <1>0, <2>1, <2>4, WithColumns
  <2> QED
    BY <1>6, <2>1, <2>5, <2>a, <2>b
<1>9. ASSUME NEW t \in Threads, escrow(t), ~UNCHANGED escrows
      PROVE  accounts'[b].locked >= DueNext(b)
  <2> DEFINE a == call[t].account
             n == call[t].amount
             i == call[t].id
  <2>1. a \in Accounts /\ n \in Nat /\ i \in Ids
    BY <1>9, EscrowEffect
  <2>2. /\ accounts[a].balance >= n /\ escrows[i] = NoEscrow
        /\ escrows' = [escrows EXCEPT ![i] = [account |-> a, amount |-> n, released |-> FALSE]]
    BY <1>9 DEF escrow
  <2>3. accounts' = [accounts EXCEPT ![a].balance = accounts[a].balance - n,
                                     ![a].locked = accounts[a].locked + n]
    BY <1>0, <1>9, <2>1 DEF escrow
  <2> HIDE DEF a, n, i
  <2>4. accounts' = With(accounts, a, Row(accounts[a].exists, accounts[a].balance - n,
                                          accounts[a].locked + n, accounts[a].unbonding))
    BY <1>0, <2>1, <2>3, ExceptStaked
  <2>5. /\ accounts[a].exists \in BOOLEAN /\ accounts[a].balance - n \in Nat
        /\ accounts[a].locked + n \in Nat /\ accounts[a].unbonding \in Nat
    BY <1>a, <2>1, <2>2
  <2>6. PICK e \in BOOLEAN, x \in Nat, y \in Nat, z \in Nat :
              y = accounts[a].locked + n /\ accounts' = With(accounts, a, Row(e, x, y, z))
    BY <2>4, <2>5, Zenon
  <2>7. /\ accounts'[a].locked = accounts[a].locked + n
        /\ \A d \in Accounts \ {a} : accounts'[d].locked = accounts[d].locked
    BY <1>0, <2>1, <2>6, WithColumns
  <2>8. /\ escrows'[i] = [account |-> a, amount |-> n, released |-> FALSE]
        /\ \A j \in Ids \ {i} : escrows'[j] = escrows[j]
    BY <1>0, <2>1, <2>2
  <2>9. \A j \in Held(escrows, b) : j # i /\ Amount(escrows)[j] = Amount(escrows')[j]
    BY <1>3, <2>2, <2>8 DEF Held
  <2>10. Due(b) = SumFunctionOnSet(Amount(escrows'), Held(escrows, b))
    BY <1>3, <2>9, SumCongruence
  <2>11. CASE b = a
    <3>1. escrows'[i] # NoEscrow /\ ~escrows'[i].released /\ escrows'[i].account = a
          /\ escrows'[i].amount = n
      BY <2>1, <2>8, EconomyAssumption DEF NoEscrow
    <3>2. Held(escrows', b) = Held(escrows, b) \cup {i} /\ i \notin Held(escrows, b)
      BY <2>1, <2>8, <2>9, <2>11, <3>1 DEF Held
    <3>3. DueNext(b) = Amount(escrows')[i] + SumFunctionOnSet(Amount(escrows'), Held(escrows, b))
      <4>1. \A j \in Held(escrows, b) \cup {i} : Amount(escrows')[j] \in Int
        BY <1>3, <2>1
      <4> QED
        BY <1>3, <3>2, <4>1, SumInsert
    <3>4. DueNext(b) = n + Due(b)
      BY <1>3, <2>1, <2>10, <3>1, <3>3
    <3>5. accounts[b].locked >= Due(b) /\ accounts'[b].locked = accounts[b].locked + n
      BY <1>1, <2>7, <2>11
    <3> HIDE DEF Due, DueNext
    <3> QED
      BY <1>a, <1>4, <2>1, <3>4, <3>5
  <2>12. CASE b # a
    <3>1. Held(escrows', b) = Held(escrows, b)
      BY <2>1, <2>2, <2>8, <2>12 DEF Held
    <3>2. accounts[b].locked >= Due(b) /\ accounts'[b].locked = accounts[b].locked
      BY <1>1, <2>7, <2>12
    <3> QED
      BY <2>10, <3>1, <3>2
  <2> QED
    BY <2>11, <2>12
<1>10. ASSUME NEW a \in Accounts, complete_unbonding(a) PROVE accounts'[b].locked >= DueNext(b)
  <2> DEFINE n == SumFunctionOnSet(UnbondingAmounts, Ripe(a))
  <2>1. /\ n \in Nat /\ accounts[a].unbonding >= n
        /\ accounts' = With(accounts, a, Row(accounts[a].exists,
             accounts[a].balance + n, accounts[a].locked, accounts[a].unbonding - n))
    BY <1>10, CompleteEffect
  <2> HIDE DEF n
  <2>2. /\ accounts[a].exists \in BOOLEAN /\ accounts[a].balance + n \in Nat
        /\ accounts[a].locked \in Nat /\ accounts[a].unbonding - n \in Nat
    BY <1>a, <2>1
  <2>3. PICK e \in BOOLEAN, x \in Nat, y \in Nat, z \in Nat :
              y = accounts[a].locked /\ accounts' = With(accounts, a, Row(e, x, y, z))
    BY <2>1, <2>2, Zenon
  <2>4. \A d \in Accounts : accounts'[d].locked = accounts[d].locked
    BY <1>0, <2>3, WithColumns
  <2>5. LockedKept(accounts, accounts')
    BY <1>a, <2>4 DEF LockedKept
  <2> QED
    BY <1>5, <1>10, <2>5 DEF complete_unbonding
<1>11. ASSUME NEW u \in UnbondingIds, Ripen(u) PROVE accounts'[b].locked >= DueNext(b)
  <2>1. LockedKept(accounts, accounts')
    BY <1>a, <1>11 DEF LockedKept, Ripen
  <2> QED
    BY <1>5, <1>11, <2>1 DEF Ripen
<1>12. ASSUME Quiet(accounts, accounts'), UNCHANGED escrows \/ \E t \in Threads : escrow(t)
       PROVE  accounts'[b].locked >= DueNext(b)
  BY <1>5, <1>9, <1>12 DEF Quiet
<1> QED
  BY <1>2, <1>7, <1>8, <1>10, <1>11, <1>12, QuietStep

(* The inductive invariant of the ledger.                                  *)
LedgerInv == RowInv /\ SupplyInv /\ UnbondingBacked

(* The ledger is sound initially,                                          *)
LEMMA LedgerInit == EconomyInit => LedgerInv
<1> SUFFICES ASSUME EconomyInit PROVE LedgerInv
  OBVIOUS
<1>1. RowInv
  BY RowInit
<1>0. IsFiniteSet(Accounts) /\ IsFiniteSet(Threads)
  BY EconomyAssumption
<1>2. SupplyInv
  <2> DEFINE f == Worth(accounts)
             g == [t \in Threads |-> call[t].total]
             zero == [a \in Accounts |-> IF a \in {} THEN 0 ELSE 0]
             none == [t \in Threads |-> IF t \in {} THEN 0 ELSE 0]
  <2>1. /\ \A a \in Accounts : f[a] = zero[a]
        /\ \A t \in Threads : g[t] = none[t]
    BY DEF EconomyInit, Worth, NoAccount, IdleCall
  <2>2. /\ SumFunctionOnSet(zero, Accounts) = Cardinality({}) * 0
        /\ SumFunctionOnSet(none, Threads) = Cardinality({}) * 0
    BY <1>0, SumConstant
  <2>3. Credits = SumFunctionOnSet(f, Accounts) /\ Pending = SumFunctionOnSet(g, Threads)
    BY CreditsDef DEF Pending
  <2>4. Cardinality({}) * 0 = 0
    BY FS_EmptySet
  <2> HIDE DEF f, g, zero, none
  <2>5. Credits = 0 /\ Pending = 0
    BY <1>0, <2>1, <2>2, <2>3, <2>4, SumCongruence
  <2> QED
    BY <2>5 DEF SupplyInv, EconomyInit
<1>3. UnbondingBacked
  <2>1. SUFFICES ASSUME NEW a \in Accounts
                 PROVE  accounts[a].unbonding
                          = SumFunctionOnSet(Amount(unbondings), Live(unbondings, a))
    BY <1>1, UnbondingBackedDef
  <2>2. Live(unbondings, a) = {}
    BY EconomyAssumption DEF Live, EconomyInit, NoUnbonding
  <2>3. accounts[a].unbonding = 0
    BY DEF EconomyInit, NoAccount
  <2> QED
    BY <2>2, <2>3, SumEmpty
<1> QED
  BY <1>1, <1>2, <1>3 DEF LedgerInv

(* and every step keeps it sound.                                          *)
LEMMA LedgerStep == LedgerInv /\ [EconomyNext]_economyVars => LedgerInv'
BY RowStep, SupplyStep, UnbondingBackedStep DEF LedgerInv

(* The tables of the ledger, the stakes, the slashing and the bounties     *)
(* keep their types: no column is ever negative (ledger.py, stake.py,      *)
(* slashing.py, bounties.py).                                              *)
THEOREM LedgerTyped == EconomySpec => []EconomyTypeOK
<1>1. LedgerInv => EconomyTypeOK
  BY DEF LedgerInv, RowInv
<1> QED
  BY <1>1, LedgerInit, LedgerStep, PTL DEF EconomySpec

(* Transfers, escrows, stakes, unbonding, slashes and rewards in any       *)
(* order, by any number of threads and accounts, create no credits beyond  *)
(* those minted, as long as every slash takes what it calculated           *)
(* (ledger.py, slashing.py 60-187).                                        *)
THEOREM NoCreditsFromNothing == EconomySpec => []SupplyHolds
<1>1. LedgerInv => SupplyHolds
  <2> SUFFICES ASSUME LedgerInv, ~raced PROVE Credits <= supply
    BY DEF SupplyHolds
  <2>1. /\ Credits \in Nat /\ Pending \in Nat /\ supply \in Nat
    BY WorthTyped, PendingTyped, CreditsDef, EconomyAssumption
       DEF LedgerInv, RowInv, EconomyTypeOK, Pending
  <2>2. Credits + Pending <= supply
    BY DEF LedgerInv, SupplyInv
  <2> QED
    BY <2>1, <2>2
<1> QED
  BY <1>1, LedgerInit, LedgerStep, PTL DEF EconomySpec

(* The unbonding column is what the open records add up to, so that        *)
(* complete_unbonding finds the credits it pays out (stake.py).            *)
THEOREM UnbondingAlwaysPaid == EconomySpec => []UnbondingBacked
<1>1. LedgerInv => UnbondingBacked
  BY DEF LedgerInv
<1> QED
  BY <1>1, LedgerInit, LedgerStep, PTL DEF EconomySpec

(* Only the stake operations can take the credits of an open escrow away:  *)
(* an escrow that is backed stays payable through everything else          *)
(* (ledger.py, stake.py).                                                  *)
THEOREM EscrowsStayPayable == EconomySpec => EscrowStaysBacked
<1>1. LedgerInv /\ LedgerInv' /\ [EconomyNext]_economyVars =>
        [EscrowsBacked =>
           \/ EscrowsBacked'
           \/ \E a \in Accounts, n \in Amounts, u \in UnbondingIds : unstake(a, n, u)
           \/ \E t \in Threads : execute_slash(t)]_economyVars
  BY EscrowsBackedStep DEF LedgerInv
<1> QED
  BY <1>1, LedgerInit, LedgerStep, PTL DEF EconomySpec, EscrowStaysBacked

-----------------------------------------------------------------------------
(* PaymentChannels.                                                        *)

(* Channels and payments.                                                  *)
ChannelRow == [status : {"absent", "open", "closed"}, sender : Senders \cup {NoSender},
               capacity : Nat, nonce : Nat, sender_balance : Nat, receiver_balance : Nat]

Payment == [channel : ChannelIds, nonce : Nonces, amount : Payable]

ChannelsTyped ==
    /\ channels \in [ChannelIds -> ChannelRow]
    /\ deposits \in [Senders -> Int]
    /\ honoured \subseteq Payment /\ IsFiniteSet(honoured)

(* A channel has seen no nonce above its own, and none before it is open.  *)
PaymentsOrdered ==
    /\ \A h \in honoured : /\ channels[h.channel].status # "absent"
                           /\ h.nonce <= channels[h.channel].nonce
    /\ \A i \in ChannelIds : channels[i].status # "absent" => channels[i].sender \in Senders

(* The inductive invariant of the channels.                                *)
ChannelsInv == ChannelsTyped /\ PaymentsOrdered /\ PaymentsCountOnce

(* The sums of PaymentsCountOnce, of any tables.                           *)
Paid(H) == [h \in H |-> h.amount]

PaidOn(H, i) == {h \in H : h.channel = i}

Capacity(C) == [i \in ChannelIds |-> C[i].capacity]

OpenOf(C, s) == {i \in ChannelIds : C[i].status = "open" /\ C[i].sender = s}

Balanced(C, D, H) ==
    /\ \A i \in ChannelIds :
         /\ C[i].receiver_balance = SumFunctionOnSet(Paid(H), PaidOn(H, i))
         /\ C[i].sender_balance + C[i].receiver_balance = C[i].capacity
    /\ \A s \in Senders : D[s] = SumFunctionOnSet(Capacity(C), OpenOf(C, s))

(* PaymentsCountOnce in terms of the three tables,                         *)
LEMMA CountOnceDef == PaymentsCountOnce <=> Balanced(channels, deposits, honoured)
BY DEF PaymentsCountOnce, Balanced, Paid, PaidOn, Capacity, OpenOf

(* and after a step.                                                       *)
LEMMA CountOnceDefPrimed == PaymentsCountOnce' <=> Balanced(channels', deposits', honoured')
BY DEF PaymentsCountOnce, Balanced, Paid, PaidOn, Capacity, OpenOf

(* There are no channels initially.                                        *)
LEMMA ChannelsInitially == ChannelsInit => ChannelsInv
<1> SUFFICES ASSUME ChannelsInit PROVE ChannelsInv
  OBVIOUS
<1>1. ChannelsTyped
  BY ChannelAssumption, FS_EmptySet DEF ChannelsInit, ChannelsTyped, ChannelRow
<1>2. PaymentsOrdered
  BY DEF ChannelsInit, PaymentsOrdered
<1>3. \A i \in ChannelIds : PaidOn(honoured, i) = {}
  BY DEF PaidOn, ChannelsInit
<1>4. \A s \in Senders : OpenOf(channels, s) = {}
  BY DEF OpenOf, ChannelsInit
<1>5. \A i \in ChannelIds : channels[i].receiver_balance = 0 /\ channels[i].sender_balance = 0
                            /\ channels[i].capacity = 0
  BY DEF ChannelsInit
<1>6. \A s \in Senders : deposits[s] = 0
  BY DEF ChannelsInit
<1>7. Balanced(channels, deposits, honoured)
  <2>1. /\ SumFunctionOnSet(Paid(honoured), {}) = 0 /\ SumFunctionOnSet(Capacity(channels), {}) = 0
        /\ 0 + 0 = 0
    BY SumEmpty
  <2> QED
    BY <1>3, <1>4, <1>5, <1>6, <2>1 DEF Balanced
<1> QED
  BY <1>1, <1>2, <1>7, CountOnceDef DEF ChannelsInv

(* There are finitely many channels and payments, and their amounts are    *)
(* natural numbers.                                                        *)
LEMMA ChannelFacts ==
    ASSUME NEW C \in [ChannelIds -> ChannelRow], NEW H \in SUBSET Payment, IsFiniteSet(H)
    PROVE  /\ \A i \in ChannelIds : /\ C[i].capacity \in Nat /\ C[i].nonce \in Nat
                                    /\ C[i].sender_balance \in Nat /\ C[i].receiver_balance \in Nat
                                    /\ Capacity(C)[i] = C[i].capacity
                                    /\ IsFiniteSet(PaidOn(H, i)) /\ PaidOn(H, i) \subseteq H
           /\ \A s : IsFiniteSet(OpenOf(C, s)) /\ OpenOf(C, s) \subseteq ChannelIds
           /\ \A h \in H : Paid(H)[h] = h.amount /\ h.amount \in Nat /\ h.channel \in ChannelIds
<1>1. \A i \in ChannelIds : PaidOn(H, i) \subseteq H
  BY DEF PaidOn
<1>2. \A s : OpenOf(C, s) \subseteq ChannelIds
  BY DEF OpenOf
<1>3. IsFiniteSet(ChannelIds)
  BY ChannelAssumption
<1>4. /\ \A i \in ChannelIds : IsFiniteSet(PaidOn(H, i))
      /\ \A s : IsFiniteSet(OpenOf(C, s))
  BY <1>1, <1>2, <1>3, FS_Subset
<1>5. \A i \in ChannelIds : /\ C[i].capacity \in Nat /\ C[i].nonce \in Nat
                            /\ C[i].sender_balance \in Nat /\ C[i].receiver_balance \in Nat
                            /\ Capacity(C)[i] = C[i].capacity
  BY DEF ChannelRow, Capacity
<1>6. \A h \in H : Paid(H)[h] = h.amount /\ h.amount \in Nat /\ h.channel \in ChannelIds
  BY ChannelAssumption DEF Paid, Payment
<1> QED
  BY <1>1, <1>2, <1>4, <1>5, <1>6

(* A new channel has had no payments; its capacity is the new deposit.     *)
LEMMA OpenKept ==
    ASSUME ChannelsInv, NEW i \in ChannelIds, NEW s \in Senders, NEW d \in Deposits,
           open_channel(i, s, d)
    PROVE  ChannelsInv'
<1> DEFINE row == [status |-> "open", sender |-> s, capacity |-> d, nonce |-> 0,
                   sender_balance |-> d, receiver_balance |-> 0]
<1>0. d \in Nat
  BY ChannelAssumption
<1>1. /\ channels \in [ChannelIds -> ChannelRow] /\ deposits \in [Senders -> Int]
      /\ honoured \in SUBSET Payment /\ IsFiniteSet(honoured) /\ PaymentsOrdered
      /\ Balanced(channels, deposits, honoured)
  BY CountOnceDef DEF ChannelsInv, ChannelsTyped
<1>2. /\ channels[i].status = "absent" /\ channels' = [channels EXCEPT ![i] = row]
      /\ deposits' = [deposits EXCEPT ![s] = deposits[s] + d] /\ honoured' = honoured
  BY <1>1 DEF open_channel
<1>3. row \in ChannelRow
  BY <1>0 DEF ChannelRow
<1>4. /\ channels' \in [ChannelIds -> ChannelRow] /\ channels'[i] = row
      /\ \A j \in ChannelIds \ {i} : channels'[j] = channels[j]
  BY <1>1, <1>2, <1>3
<1>5. /\ deposits' \in [Senders -> Int] /\ deposits'[s] = deposits[s] + d
      /\ \A q \in Senders \ {s} : deposits'[q] = deposits[q]
  BY <1>0, <1>1, <1>2
<1>6. ChannelsTyped' /\ PaymentsOrdered'
  <2>1. ChannelsTyped'
    BY <1>1, <1>2, <1>4, <1>5 DEF ChannelsTyped
  <2>2. \A h \in honoured' : /\ channels'[h.channel].status # "absent"
                             /\ h.nonce <= channels'[h.channel].nonce
    BY <1>1, <1>2, <1>4 DEF PaymentsOrdered, Payment
  <2>3. \A j \in ChannelIds : channels'[j].status # "absent" => channels'[j].sender \in Senders
    BY <1>1, <1>4 DEF PaymentsOrdered
  <2> QED
    BY <2>1, <2>2, <2>3 DEF PaymentsOrdered
<1>7. PaidOn(honoured, i) = {}
  BY <1>1, <1>2 DEF PaidOn, PaymentsOrdered
<1>8. \A j \in ChannelIds :
         /\ channels'[j].receiver_balance = SumFunctionOnSet(Paid(honoured'), PaidOn(honoured', j))
         /\ channels'[j].sender_balance + channels'[j].receiver_balance = channels'[j].capacity
  <2>1. /\ channels'[i].receiver_balance = 0 /\ channels'[i].sender_balance = d
        /\ channels'[i].capacity = d
    BY <1>4
  <2>2. SumFunctionOnSet(Paid(honoured'), PaidOn(honoured', i)) = 0
    BY <1>2, <1>7, SumEmpty
  <2>3. d + 0 = d
    BY <1>0
  <2> QED
    BY <1>1, <1>2, <1>4, <2>1, <2>2, <2>3 DEF Balanced
<1>9. ASSUME NEW q \in Senders
      PROVE  deposits'[q] = SumFunctionOnSet(Capacity(channels'), OpenOf(channels', q))
  <2>0. /\ IsFiniteSet(OpenOf(channels, q)) /\ OpenOf(channels, q) \subseteq ChannelIds
        /\ \A j \in ChannelIds : /\ Capacity(channels)[j] = channels[j].capacity
                                 /\ Capacity(channels')[j] = channels'[j].capacity
                                 /\ channels'[j].capacity \in Nat
    BY <1>1, <1>4, ChannelFacts
  <2>1. i \notin OpenOf(channels, q)
    BY <1>2 DEF OpenOf
  <2>2. \A j \in OpenOf(channels, q) : Capacity(channels)[j] = Capacity(channels')[j]
    BY <1>4, <2>0, <2>1
  <2>3. deposits[q] = SumFunctionOnSet(Capacity(channels'), OpenOf(channels, q))
    <3>1. SumFunctionOnSet(Capacity(channels), OpenOf(channels, q))
            = SumFunctionOnSet(Capacity(channels'), OpenOf(channels, q))
      BY <2>0, <2>2, SumCongruence
    <3> QED
      BY <1>1, <3>1 DEF Balanced
  <2>4. CASE q = s
    <3>1. OpenOf(channels', q) = OpenOf(channels, q) \cup {i}
      BY <1>4, <2>4 DEF OpenOf
    <3>2. \A j \in OpenOf(channels, q) \cup {i} : Capacity(channels')[j] \in Int
      BY <2>0
    <3>3. SumFunctionOnSet(Capacity(channels'), OpenOf(channels, q) \cup {i})
            = Capacity(channels')[i] + SumFunctionOnSet(Capacity(channels'), OpenOf(channels, q))
      BY <2>0, <2>1, <3>2, SumInsert
    <3>4. Capacity(channels')[i] = d
      BY <1>4, <2>0
    <3>5. deposits[q] \in Int
      BY <1>1
    <3> QED
      BY <1>0, <1>5, <2>3, <2>4, <3>1, <3>3, <3>4, <3>5
  <2>5. CASE q # s
    <3>1. OpenOf(channels', q) = OpenOf(channels, q)
      BY <1>4, <2>1, <2>5 DEF OpenOf
    <3> QED
      BY <1>5, <2>3, <2>5, <3>1
  <2> QED
    BY <2>4, <2>5
<1> QED
  BY <1>6, <1>8, <1>9, CountOnceDefPrimed DEF ChannelsInv, Balanced

(* A payment that is honoured has a nonce that none before it had, so that *)
(* it is a new one, and moves its amount.                                  *)
LEMMA SendKept ==
    ASSUME ChannelsInv, NEW i \in ChannelIds, NEW x \in Payable, NEW n \in Nonces,
           send_payment(i, x, n)
    PROVE  ChannelsInv'
<1> DEFINE h0 == [channel |-> i, nonce |-> n, amount |-> x]
<1>0. x \in Nat /\ n \in Nat
  BY ChannelAssumption
<1>1. /\ channels \in [ChannelIds -> ChannelRow] /\ deposits \in [Senders -> Int]
      /\ honoured \in SUBSET Payment /\ IsFiniteSet(honoured) /\ PaymentsOrdered
      /\ Balanced(channels, deposits, honoured)
  BY CountOnceDef DEF ChannelsInv, ChannelsTyped
<1>2. /\ channels[i].status = "open" /\ n > channels[i].nonce /\ channels[i].sender_balance >= x
      /\ honoured' = honoured \cup {h0} /\ deposits' = deposits
  BY <1>1 DEF send_payment, Apply
<1>3. /\ channels' = [channels EXCEPT ![i].sender_balance = @ - x,
                                      ![i].receiver_balance = @ + x, ![i].nonce = n]
  BY <1>1 DEF send_payment, Apply
<1>4. /\ channels[i].sender_balance \in Nat /\ channels[i].receiver_balance \in Nat
      /\ channels[i].nonce \in Nat /\ channels[i].capacity \in Nat
  BY <1>1, ChannelFacts
<1>5. /\ channels' \in [ChannelIds -> ChannelRow]
      /\ channels'[i].sender_balance = channels[i].sender_balance - x
      /\ channels'[i].receiver_balance = channels[i].receiver_balance + x
      /\ channels'[i].nonce = n /\ channels'[i].status = channels[i].status
      /\ channels'[i].capacity = channels[i].capacity /\ channels'[i].sender = channels[i].sender
      /\ \A j \in ChannelIds \ {i} : channels'[j] = channels[j]
  BY <1>0, <1>1, <1>2, <1>3, <1>4 DEF ChannelRow
<1>6. h0 \in Payment /\ h0.channel = i /\ h0.amount = x /\ h0.nonce = n
  BY DEF Payment
<1> HIDE DEF h0
<1>7. h0 \notin honoured
  BY <1>0, <1>1, <1>2, <1>4, <1>6 DEF PaymentsOrdered
<1>8. honoured' \in SUBSET Payment /\ IsFiniteSet(honoured')
  BY <1>1, <1>2, <1>6, FS_AddElement
<1>9. ChannelsTyped' /\ PaymentsOrdered'
  <2>1. ChannelsTyped'
    BY <1>1, <1>2, <1>5, <1>8 DEF ChannelsTyped
  <2>2. ASSUME NEW h \in honoured'
        PROVE  /\ channels'[h.channel].status # "absent" /\ h.nonce <= channels'[h.channel].nonce
    <3>1. CASE h = h0
      BY <1>0, <1>2, <1>5, <1>6, <3>1
    <3>2. CASE h \in honoured
      <4>1. /\ channels[h.channel].status # "absent" /\ h.nonce <= channels[h.channel].nonce
            /\ h.channel \in ChannelIds /\ h.nonce \in Nat
        BY <1>1, <3>2, ChannelAssumption DEF PaymentsOrdered, Payment
      <4> QED
        BY <1>0, <1>2, <1>4, <1>5, <4>1
    <3> QED
      BY <1>2, <3>1, <3>2
  <2>3. \A j \in ChannelIds : channels'[j].status # "absent" => channels'[j].sender \in Senders
    BY <1>1, <1>5 DEF PaymentsOrdered
  <2> QED
    BY <2>1, <2>2, <2>3 DEF PaymentsOrdered
<1>10. ASSUME NEW j \in ChannelIds
       PROVE  /\ channels'[j].receiver_balance
                   = SumFunctionOnSet(Paid(honoured'), PaidOn(honoured', j))
              /\ channels'[j].sender_balance + channels'[j].receiver_balance
                   = channels'[j].capacity
  <2>0. /\ IsFiniteSet(PaidOn(honoured, j)) /\ PaidOn(honoured, j) \subseteq honoured
        /\ \A h \in honoured : Paid(honoured)[h] = h.amount
        /\ \A h \in honoured' : Paid(honoured')[h] = h.amount /\ h.amount \in Nat
    BY <1>1, <1>5, <1>8, ChannelFacts
  <2>1. \A h \in PaidOn(honoured, j) : Paid(honoured)[h] = Paid(honoured')[h]
    BY <1>2, <2>0
  <2>2. SumFunctionOnSet(Paid(honoured), PaidOn(honoured, j))
          = SumFunctionOnSet(Paid(honoured'), PaidOn(honoured, j))
    BY <2>0, <2>1, SumCongruence
  <2>3. /\ channels[j].receiver_balance = SumFunctionOnSet(Paid(honoured'), PaidOn(honoured, j))
        /\ channels[j].sender_balance + channels[j].receiver_balance = channels[j].capacity
    BY <1>1, <2>2 DEF Balanced
  <2>4. CASE j = i
    <3>1. PaidOn(honoured', j) = PaidOn(honoured, j) \cup {h0} /\ h0 \notin PaidOn(honoured, j)
      BY <1>2, <1>6, <1>7, <2>4 DEF PaidOn
    <3>2. \A h \in PaidOn(honoured, j) \cup {h0} : Paid(honoured')[h] \in Int
      <4>1. PaidOn(honoured, j) \cup {h0} \subseteq honoured'
        BY <1>2, <2>0
      <4> QED
        BY <4>1, <2>0
    <3>3. SumFunctionOnSet(Paid(honoured'), PaidOn(honoured, j) \cup {h0})
            = Paid(honoured')[h0] + SumFunctionOnSet(Paid(honoured'), PaidOn(honoured, j))
      BY <2>0, <3>1, <3>2, SumInsert
    <3>4. Paid(honoured')[h0] = x
      BY <1>2, <1>6, <2>0
    <3> QED
      BY <1>0, <1>4, <1>5, <2>3, <2>4, <3>1, <3>3, <3>4
  <2>5. CASE j # i
    <3>1. PaidOn(honoured', j) = PaidOn(honoured, j)
      BY <1>2, <1>6, <2>5 DEF PaidOn
    <3> QED
      BY <1>5, <2>3, <2>5, <3>1
  <2> QED
    BY <2>4, <2>5
<1>11. ASSUME NEW q \in Senders
       PROVE  deposits'[q] = SumFunctionOnSet(Capacity(channels'), OpenOf(channels', q))
  <2>1. \A j \in ChannelIds : /\ channels'[j].capacity = channels[j].capacity
                              /\ channels'[j].status = channels[j].status
                              /\ channels'[j].sender = channels[j].sender
    BY <1>5
  <2>2. OpenOf(channels', q) = OpenOf(channels, q) /\ Capacity(channels') = Capacity(channels)
    BY <2>1 DEF OpenOf, Capacity
  <2> QED
    BY <1>1, <1>2, <2>2 DEF Balanced
<1> QED
  BY <1>9, <1>10, <1>11, CountOnceDefPrimed DEF ChannelsInv, Balanced

(* A closed channel gives its capacity back.                               *)
LEMMA CloseKept ==
    ASSUME ChannelsInv, NEW i \in ChannelIds, close_channel(i)
    PROVE  ChannelsInv'
<1> DEFINE s == channels[i].sender
           d == channels[i].capacity
<1>1. /\ channels \in [ChannelIds -> ChannelRow] /\ deposits \in [Senders -> Int]
      /\ honoured \in SUBSET Payment /\ IsFiniteSet(honoured) /\ PaymentsOrdered
      /\ Balanced(channels, deposits, honoured)
  BY CountOnceDef DEF ChannelsInv, ChannelsTyped
<1>2. channels[i].status = "open" /\ s \in Senders /\ d \in Nat
  BY <1>1, ChannelFacts DEF close_channel, PaymentsOrdered
<1>3. /\ channels' = [channels EXCEPT ![i].status = "closed"]
      /\ deposits' = [deposits EXCEPT ![s] = deposits[s] - d] /\ honoured' = honoured
  BY <1>1 DEF close_channel
<1>4. /\ channels' \in [ChannelIds -> ChannelRow] /\ channels'[i].status = "closed"
      /\ \A j \in ChannelIds : /\ channels'[j].sender = channels[j].sender
                               /\ channels'[j].capacity = channels[j].capacity
                               /\ channels'[j].nonce = channels[j].nonce
                               /\ channels'[j].sender_balance = channels[j].sender_balance
                               /\ channels'[j].receiver_balance = channels[j].receiver_balance
      /\ \A j \in ChannelIds \ {i} : channels'[j] = channels[j]
  BY <1>1, <1>3 DEF ChannelRow
<1>a. s = channels[i].sender /\ d = channels[i].capacity
  OBVIOUS
<1> HIDE DEF s, d
<1>5. /\ deposits' \in [Senders -> Int] /\ deposits'[s] = deposits[s] - d
      /\ \A q \in Senders \ {s} : deposits'[q] = deposits[q]
  BY <1>1, <1>2, <1>3
<1>6. ChannelsTyped' /\ PaymentsOrdered'
  <2>1. ChannelsTyped'
    BY <1>1, <1>3, <1>4, <1>5 DEF ChannelsTyped
  <2>2. \A h \in honoured' : /\ channels'[h.channel].status # "absent"
                             /\ h.nonce <= channels'[h.channel].nonce
    BY <1>1, <1>3, <1>4 DEF PaymentsOrdered, Payment
  <2>3. \A j \in ChannelIds : channels'[j].status # "absent" => channels'[j].sender \in Senders
    BY <1>1, <1>2, <1>4, <1>a DEF PaymentsOrdered
  <2> QED
    BY <2>1, <2>2, <2>3 DEF PaymentsOrdered
<1>7. \A j \in ChannelIds :
         /\ channels'[j].receiver_balance = SumFunctionOnSet(Paid(honoured'), PaidOn(honoured', j))
         /\ channels'[j].sender_balance + channels'[j].receiver_balance = channels'[j].capacity
  BY <1>1, <1>3, <1>4 DEF Balanced
<1>8. Capacity(channels') = Capacity(channels)
  BY <1>4 DEF Capacity
<1>9. ASSUME NEW q \in Senders
      PROVE  deposits'[q] = SumFunctionOnSet(Capacity(channels'), OpenOf(channels', q))
  <2>0. /\ IsFiniteSet(OpenOf(channels, q)) /\ OpenOf(channels, q) \subseteq ChannelIds
        /\ \A j \in ChannelIds : /\ Capacity(channels)[j] = channels[j].capacity
                                 /\ channels[j].capacity \in Nat
    BY <1>1, ChannelFacts
  <2>1. deposits[q] = SumFunctionOnSet(Capacity(channels), OpenOf(channels, q))
    BY <1>1 DEF Balanced
  <2>2. OpenOf(channels', q) = OpenOf(channels, q) \ {i}
    BY <1>4 DEF OpenOf
  <2>3. CASE q = s
    <3>1. i \in OpenOf(channels, q)
      BY <1>2, <1>a, <2>3 DEF OpenOf
    <3>2. \A j \in OpenOf(channels, q) : Capacity(channels)[j] \in Int
      BY <2>0
    <3>3. SumFunctionOnSet(Capacity(channels), OpenOf(channels, q))
            = Capacity(channels)[i]
              + SumFunctionOnSet(Capacity(channels), OpenOf(channels, q) \ {i})
      BY <2>0, <3>1, <3>2, SumRemove
    <3>4. Capacity(channels)[i] = d
      BY <1>a, <2>0
    <3>5. deposits[q] \in Int /\ SumFunctionOnSet(Capacity(channels), OpenOf(channels', q)) \in Int
      <4>1. IsFiniteSet(OpenOf(channels', q))
        BY <2>0, <2>2, FS_RemoveElement
      <4>2. \A j \in OpenOf(channels', q) : Capacity(channels)[j] \in Int
        BY <2>0, <2>2
      <4> QED
        BY <1>1, <4>1, <4>2, SumType
    <3> QED
      BY <1>2, <1>5, <1>8, <2>1, <2>2, <2>3, <3>3, <3>4, <3>5
  <2>4. CASE q # s
    <3>1. OpenOf(channels', q) = OpenOf(channels, q)
      BY <1>a, <2>2, <2>4 DEF OpenOf
    <3> QED
      BY <1>5, <1>8, <2>1, <2>4, <3>1
  <2> QED
    BY <2>3, <2>4
<1> QED
  BY <1>6, <1>7, <1>9, CountOnceDefPrimed DEF ChannelsInv, Balanced

(* A payment counts once, however often and in whatever order payments     *)
(* arrive, for any number of channels, nonces and amounts (channels.py     *)
(* 49-157).                                                                *)
THEOREM PaymentsAlwaysCountOnce == ChannelsSpec => []PaymentsCountOnce
<1>1. ChannelsInv /\ [ChannelsNext]_channelVars => ChannelsInv'
  <2> SUFFICES ASSUME ChannelsInv, [ChannelsNext]_channelVars PROVE ChannelsInv'
    OBVIOUS
  <2>1. CASE UNCHANGED channelVars
    BY <2>1, CountOnceDef, CountOnceDefPrimed
       DEF channelVars, ChannelsInv, ChannelsTyped, PaymentsOrdered
  <2> QED
    BY <2>1, OpenKept, SendKept, CloseKept DEF ChannelsNext
<1>2. ChannelsInv => PaymentsCountOnce
  BY DEF ChannelsInv
<1> QED
  BY <1>1, <1>2, ChannelsInitially, PTL DEF ChannelsSpec

-----------------------------------------------------------------------------
(* Governance.                                                             *)

(* Proposals, weights and parameters keep their types.                     *)
GovernanceTyped ==
    /\ proposals \in [Proposals -> [status : {"absent", "pending", "active", "expired", "passed",
                                              "rejected", "executed"},
                                    voting_end : Nat]]
    /\ DOMAIN votes = Proposals
    /\ registered \in [Voters -> Nat]
    /\ totalWeight \in Int
    /\ DOMAIN parameters = DOMAIN DEFAULT_PARAMS
    /\ clock \in Nat

(* The inductive invariant of the governance.                              *)
GovernanceInv == GovernanceTyped /\ ExecutedWasCarried

(* approval_met, of the votes on one proposal.                             *)
Tally(ballot, choices) ==
    SumFunctionOnSet([v \in Voters |-> ballot[v].weight],
                     {v \in Voters : ballot[v].choice \in choices})

Approved(ballot) ==
    /\ Tally(ballot, {"yes", "no"}) > 0
    /\ 100 * Tally(ballot, {"yes"}) >= 51 * Tally(ballot, {"yes", "no"})

(* approval_met in terms of the votes on the proposal,                     *)
LEMMA ApprovalDef == \A p : approval_met(p) <=> Approved(votes[p])
BY DEF approval_met, Approved, WeightOf, Tally

(* and after a step.                                                       *)
LEMMA ApprovalDefPrimed == \A p : approval_met(p)' <=> Approved(votes'[p])
BY DEF approval_met, Approved, WeightOf, Tally

(* A proposal that was executed gave param this value.                     *)
Set(param, value, ps) ==
    \E p \in Proposals : /\ ps[p].status = "executed" /\ param \in DOMAIN Changes[p]
                         /\ Changes[p][param] = value

(* ExecutedWasCarried, in these terms.                                     *)
Carried ==
    /\ totalWeight = SumFunctionOnSet(registered, Voters)
    /\ \A p \in Proposals : proposals[p].status \in {"passed", "executed"} => Approved(votes[p])
    /\ \A param \in DOMAIN DEFAULT_PARAMS :
         parameters[param] # DEFAULT_PARAMS[param] => Set(param, parameters[param], proposals)

(* ExecutedWasCarried in those terms,                                      *)
LEMMA CarriedSame ==
    DOMAIN parameters = DOMAIN DEFAULT_PARAMS => (ExecutedWasCarried <=> Carried)
BY ApprovalDef DEF ExecutedWasCarried, Carried, Set

(* and after a step.                                                       *)
LEMMA CarriedSamePrimed ==
    DOMAIN parameters' = DOMAIN DEFAULT_PARAMS => (ExecutedWasCarried' <=> Carried')
BY ApprovalDefPrimed DEF ExecutedWasCarried, Carried, Set

(* Nothing has passed initially.                                           *)
LEMMA GovernanceInitially == GovernanceInit => GovernanceInv
<1> SUFFICES ASSUME GovernanceInit PROVE GovernanceInv
  OBVIOUS
<1>1. GovernanceTyped
  BY DEF GovernanceInit, GovernanceTyped
<1>2. totalWeight = SumFunctionOnSet(registered, Voters)
  <2> DEFINE zero == [v \in Voters |-> IF v \in {} THEN 0 ELSE 0]
  <2>1. IsFiniteSet(Voters) /\ \A v \in Voters : registered[v] = zero[v]
    BY GovernanceAssumption DEF GovernanceInit
  <2>2. SumFunctionOnSet(zero, Voters) = Cardinality({}) * 0
    BY <2>1, SumConstant
  <2>3. Cardinality({}) * 0 = 0
    BY FS_EmptySet
  <2> HIDE DEF zero
  <2>4. SumFunctionOnSet(registered, Voters) = SumFunctionOnSet(zero, Voters)
    BY <2>1, SumCongruence
  <2> QED
    BY <2>2, <2>3, <2>4 DEF GovernanceInit
<1>3. Carried
  BY <1>2 DEF Carried, GovernanceInit
<1> QED
  BY <1>1, <1>3, CarriedSame DEF GovernanceInv, GovernanceTyped

(* Every step keeps it: votes are taken on an active proposal only, and    *)
(* nothing takes a proposal back that has passed.                          *)
LEMMA GovernanceKept == GovernanceInv /\ [GovernanceNext]_governanceVars => GovernanceInv'
<1> SUFFICES ASSUME GovernanceInv, [GovernanceNext]_governanceVars PROVE GovernanceInv'
  OBVIOUS
<1>0. GovernanceTyped /\ Carried
  BY CarriedSame DEF GovernanceInv, GovernanceTyped
<1>a. ASSUME GovernanceTyped', Carried' PROVE GovernanceInv'
  BY <1>a, CarriedSamePrimed DEF GovernanceInv, GovernanceTyped
<1>b. ASSUME UNCHANGED <<registered, totalWeight, parameters>>, GovernanceTyped',
             \A p \in Proposals : /\ proposals[p].status = "executed"
                                       => proposals'[p].status = "executed"
                                  /\ proposals'[p].status \in {"passed", "executed"}
                                       => Approved(votes'[p])
      PROVE  GovernanceInv'
  <2>1. Carried'
    BY <1>0, <1>b DEF Carried, Set
  <2> QED
    BY <1>a, <1>b, <2>1
<1>1. CASE UNCHANGED governanceVars
  BY <1>0, <1>1, <1>b DEF governanceVars, GovernanceTyped, Carried
<1>2. CASE GovTick
  <2>1. GovernanceTyped'
    BY <1>0, <1>2 DEF GovTick, GovernanceTyped
  <2> QED
    BY <1>0, <1>2, <2>1, <1>b DEF GovTick, Carried
<1>3. ASSUME NEW v \in Voters, NEW w \in Weights, register_voter(v, w) PROVE GovernanceInv'
  <2>1. w \in Nat /\ IsFiniteSet(Voters)
    BY GovernanceAssumption
  <2>2. /\ registered' \in [Voters -> Nat] /\ registered'[v] = w
        /\ \A u \in Voters \ {v} : registered[u] = registered'[u]
        /\ registered \in [Voters -> Nat] /\ totalWeight \in Int
    BY <1>0, <1>3, <2>1 DEF register_voter, GovernanceTyped
  <2>3. \A u \in Voters : registered[u] \in Int /\ registered'[u] \in Int
    BY <2>2
  <2>4. SumFunctionOnSet(registered', Voters)
          = SumFunctionOnSet(registered, Voters) - registered[v] + registered'[v]
    BY <2>1, <2>2, <2>3, SumUpdate
  <2>5. totalWeight' = SumFunctionOnSet(registered', Voters)
    BY <1>0, <1>3, <2>2, <2>4 DEF register_voter, Carried
  <2>6. totalWeight' \in Int
    BY <1>3, <2>1, <2>2, <2>3 DEF register_voter
  <2>7. GovernanceTyped'
    BY <1>0, <1>3, <2>2, <2>6 DEF register_voter, GovernanceTyped
  <2>8. Carried'
    BY <1>0, <1>3, <2>5 DEF register_voter, Carried, Set
  <2> QED
    BY <1>a, <2>7, <2>8
<1>4. ASSUME NEW p \in Proposals, submit_proposal(p) PROVE GovernanceInv'
  <2>1. GovernanceTyped'
    BY <1>0, <1>4 DEF submit_proposal, GovernanceTyped
  <2> QED
    BY <1>0, <1>4, <2>1, <1>b DEF submit_proposal, Carried, GovernanceTyped
<1>5. ASSUME NEW p \in Proposals, start_voting(p) PROVE GovernanceInv'
  <2>1. GovernanceTyped'
    BY <1>0, <1>5, GovernanceAssumption DEF start_voting, GovernanceTyped
  <2>2. \A q \in Proposals : q # p => votes'[q] = votes[q] /\ proposals'[q] = proposals[q]
    BY <1>0, <1>5 DEF start_voting, GovernanceTyped
  <2>3. proposals[p].status = "pending" /\ proposals'[p].status = "active"
    BY <1>0, <1>5 DEF start_voting, GovernanceTyped
  <2> QED
    BY <1>0, <1>5, <2>1, <2>2, <2>3, <1>b DEF start_voting, Carried
<1>6. ASSUME NEW p \in Proposals, finalize_proposal(p) PROVE GovernanceInv'
  <2>1. /\ votes' = votes /\ proposals[p].status = "active"
        /\ proposals'[p].status \in {"passed", "rejected"}
        /\ proposals'[p].status = "passed" => approval_met(p)
        /\ \A q \in Proposals : q # p => proposals'[q] = proposals[q]
    BY <1>0, <1>6 DEF finalize_proposal, GovernanceTyped
  <2>2. GovernanceTyped'
    BY <1>0, <1>6 DEF finalize_proposal, GovernanceTyped
  <2>3. proposals'[p].status = "passed" => Approved(votes'[p])
    BY <2>1, ApprovalDef
  <2> QED
    BY <1>0, <1>6, <2>1, <2>2, <2>3, <1>b DEF finalize_proposal, Carried
<1>7. ASSUME NEW p \in Proposals, execute_proposal(p) PROVE GovernanceInv'
  <2>1. /\ votes' = votes /\ proposals[p].status = "passed" /\ proposals'[p].status = "executed"
        /\ \A q \in Proposals : q # p => proposals'[q] = proposals[q]
    BY <1>0, <1>7 DEF execute_proposal, GovernanceTyped
  <2>2. GovernanceTyped'
    BY <1>0, <1>7 DEF execute_proposal, GovernanceTyped
  <2>3. ASSUME NEW param \in DOMAIN DEFAULT_PARAMS,
               parameters'[param] # DEFAULT_PARAMS[param]
        PROVE  Set(param, parameters'[param], proposals')
    <3>1. CASE param \in DOMAIN Changes[p]
      <4>1. parameters'[param] = Changes[p][param]
        BY <1>0, <1>7, <3>1 DEF execute_proposal, GovernanceTyped
      <4> QED
        BY <2>1, <3>1, <4>1 DEF Set
    <3>2. CASE param \notin DOMAIN Changes[p]
      <4>1. parameters'[param] = parameters[param]
        BY <1>0, <1>7, <3>2 DEF execute_proposal, GovernanceTyped
      <4>2. PICK q \in Proposals : /\ proposals[q].status = "executed"
                                   /\ param \in DOMAIN Changes[q]
                                   /\ Changes[q][param] = parameters[param]
        BY <1>0, <2>3, <4>1 DEF Carried, Set
      <4>3. proposals'[q].status = "executed"
        BY <2>1, <4>2
      <4> QED
        BY <4>1, <4>2, <4>3 DEF Set
    <3> QED
      BY <3>1, <3>2
  <2>4. \A q \in Proposals : proposals'[q].status \in {"passed", "executed"} => Approved(votes'[q])
    BY <1>0, <2>1 DEF Carried
  <2>5. Carried'
    BY <1>0, <1>7, <2>3, <2>4 DEF Carried, execute_proposal
  <2> QED
    BY <1>a, <2>2, <2>5
<1>8. ASSUME NEW p \in Proposals, NEW v \in Voters, NEW choice \in {"yes", "no", "abstain"},
             NEW w \in Weights, vote(p, v, choice, w)
      PROVE  GovernanceInv'
  <2>1. /\ proposals[p].status = "active" /\ proposals'[p].status \in {"active", "expired"}
        /\ \A q \in Proposals : q # p => votes'[q] = votes[q] /\ proposals'[q] = proposals[q]
    BY <1>0, <1>8 DEF vote, GovernanceTyped
  <2>2. GovernanceTyped'
    BY <1>0, <1>8 DEF vote, GovernanceTyped
  <2> QED
    BY <1>0, <1>8, <2>1, <2>2, <1>b DEF vote, Carried
<1> QED
  BY <1>1, <1>2, <1>3, <1>4, <1>5, <1>6, <1>7, <1>8 DEF GovernanceNext

(* The total weight is the sum of the weights whoever registers again, the *)
(* votes on record carry every proposal that passed, and a parameter that  *)
(* is not its default was set by a proposal that was executed              *)
(* (governance.py 105-118, 196-370).                                       *)
THEOREM ExecutedAlwaysCarried == GovernanceSpec => []ExecutedWasCarried
<1>1. GovernanceInv => ExecutedWasCarried
  BY DEF GovernanceInv
<1> QED
  BY <1>1, GovernanceInitially, GovernanceKept, PTL DEF GovernanceSpec
=============================================================================
