--------------------------- MODULE ShardingProof ----------------------------
(***************************************************************************)
(* Proofs about Sharding, for any commitments, dependencies and shards and *)
(* any sequence of calls.                                                  *)
(***************************************************************************)
EXTENDS Sharding, FiniteSetTheorems, SequenceTheorems, WellFoundedInduction, TLAPS

USE DEF DagAssumption

(* What the counters mean: for each shard, how many dependencies are open. *)
CounterExact ==
    ~irregular => \A s \in Shards : inDegree[s] = Cardinality(get_blocking_shards(s))

DagInv ==
    /\ graph \subseteq Shards \X Shards
    /\ known \subseteq Shards
    /\ \A e \in graph : e[1] \in known /\ e[2] \in known
    /\ inDegree \in [Shards -> Int]
    /\ completed \subseteq Shards
    /\ CounterExact

LEMMA BlockingFinite ==
  ASSUME NEW s \in Shards
  PROVE  IsFiniteSet(get_blocking_shards(s))
<1>1. get_blocking_shards(s) \in SUBSET Shards
  BY DEF get_blocking_shards, get_dependencies
<1> QED BY <1>1, FS_Subset, DagAssumption

(* A new edge to an open shard is one more open dependency of its source.  *)
LEMMA EdgeCounts ==
  ASSUME DagInv, NEW from \in Shards, NEW to \in Shards, add_dependency(from, to)
  PROVE  DagInv'
<1> USE DEF DagInv, add_dependency
<1>1. ASSUME ~irregular', NEW s \in Shards
      PROVE  inDegree'[s] = Cardinality(get_blocking_shards(s)')
  <2>1. ~irregular /\ <<from, to>> \notin graph /\ to \notin completed
    BY <1>1
  <2>2. inDegree[s] = Cardinality(get_blocking_shards(s))
    BY <2>1 DEF CounterExact
  <2>3. CASE s = from
    <3>1. get_blocking_shards(s)' = get_blocking_shards(s) \cup {to}
      BY <2>1, <2>3 DEF get_blocking_shards, get_dependencies
    <3>2. to \notin get_blocking_shards(s)
      BY <2>1, <2>3 DEF get_blocking_shards, get_dependencies
    <3>3. Cardinality(get_blocking_shards(s)') = Cardinality(get_blocking_shards(s)) + 1
      BY <3>1, <3>2, BlockingFinite, FS_AddElement
    <3> QED BY <2>2, <2>3, <3>3
  <2>4. CASE s # from
    <3>1. get_blocking_shards(s)' = get_blocking_shards(s)
      BY <2>4 DEF get_blocking_shards, get_dependencies
    <3> QED BY <2>2, <2>4, <3>1
  <2> QED BY <2>3, <2>4
<1>2. CounterExact'
  BY <1>1 DEF CounterExact
<1>3. /\ graph' \subseteq Shards \X Shards /\ known' \subseteq Shards
      /\ inDegree' \in [Shards -> Int] /\ completed' \subseteq Shards
  OBVIOUS
<1> QED BY <1>2, <1>3

(* The first completion of a shard is one open dependency less for each    *)
(* dependent.                                                              *)
LEMMA CompletionCounts ==
  ASSUME DagInv, NEW c \in Shards, handle_finalize(c)
  PROVE  DagInv'
<1> USE DEF DagInv, handle_finalize, mark_shard_complete
<1>1. ASSUME ~irregular', NEW s \in Shards
      PROVE  inDegree'[s] = Cardinality(get_blocking_shards(s)')
  <2>1. ~irregular /\ c \notin completed
    BY <1>1
  <2>2. inDegree[s] = Cardinality(get_blocking_shards(s))
    BY <2>1 DEF CounterExact
  <2>3. get_blocking_shards(s)' = get_blocking_shards(s) \ {c}
    BY DEF get_blocking_shards, get_dependencies
  <2>4. c \in get_blocking_shards(s) <=> s \in get_dependents(c)
    BY <2>1 DEF get_blocking_shards, get_dependencies, get_dependents
  <2>5. Cardinality(get_blocking_shards(s)') =
          IF c \in get_blocking_shards(s) THEN Cardinality(get_blocking_shards(s)) - 1
          ELSE Cardinality(get_blocking_shards(s))
    BY <2>3, BlockingFinite, FS_RemoveElement
  <2>6. inDegree'[s] = IF s \in get_dependents(c) THEN inDegree[s] - 1 ELSE inDegree[s]
    OBVIOUS
  <2> QED BY <2>2, <2>4, <2>5, <2>6
<1>2. CounterExact'
  BY <1>1 DEF CounterExact
<1>3. /\ graph' \subseteq Shards \X Shards /\ known' \subseteq Shards
      /\ inDegree' \in [Shards -> Int] /\ completed' \subseteq Shards
  OBVIOUS
<1> QED BY <1>2, <1>3

LEMMA DagInvInit == Init => DagInv
<1> SUFFICES ASSUME Init PROVE DagInv
  OBVIOUS
<1>1. ASSUME NEW s \in Shards PROVE get_blocking_shards(s) = {}
  BY DEF Init, DagInit, get_blocking_shards, get_dependencies
<1>2. ASSUME NEW s \in Shards PROVE Cardinality(get_blocking_shards(s)) = 0
  BY <1>1, FS_EmptySet
<1>3. CounterExact
  BY <1>2 DEF Init, DagInit, CounterExact
<1> QED BY <1>3 DEF Init, DagInit, DagInv

LEMMA DagInvNext == DagInv /\ [Next]_vars => DagInv'
<1> SUFFICES ASSUME DagInv, [Next]_vars PROVE DagInv'
  OBVIOUS
<1>1. CASE UNCHANGED dagVars
  BY <1>1 DEF DagInv, CounterExact, get_blocking_shards, get_dependencies, dagVars
<1>2. CASE DagNext
  BY <1>2, EdgeCounts, CompletionCounts DEF DagNext
<1>3. UNCHANGED dagVars \/ DagNext
  BY DEF Next, Call, vars
<1> QED BY <1>1, <1>2, <1>3

LEMMA DagInvHolds == Spec => []DagInv
<1> QED BY DagInvInit, DagInvNext, PTL DEF Spec

(* A shard whose counter is zero has no open dependency: on a regular      *)
(* graph get_ready_shards is what its docstring says.                      *)
THEOREM ReadyHolds == Spec => []ReadyWhenUnblocked
<1>1. DagInv => ReadyWhenUnblocked
  <2> SUFFICES ASSUME DagInv, ~irregular
               PROVE  get_ready_shards =
                        {s \in known \ completed : get_blocking_shards(s) = {}}
    BY DEF ReadyWhenUnblocked
  <2>1. ASSUME NEW s \in known
        PROVE  inDegree[s] = 0 <=> get_blocking_shards(s) = {}
    <3>1. s \in Shards /\ inDegree[s] = Cardinality(get_blocking_shards(s))
      BY DEF DagInv, CounterExact
    <3> QED BY <3>1, BlockingFinite, FS_EmptySet
  <2> QED BY <2>1 DEF get_ready_shards
<1> QED BY <1>1, DagInvHolds, PTL

-----------------------------------------------------------------------------
(* detect_deadlock.                                                        *)

(* A set of naturals has a least member.                                   *)
LEMMA LeastNumber ==
    ASSUME NEW T \in SUBSET Nat, T # {}
    PROVE  \E m \in T : \A k \in T : m <= k
<1>1. PICK m \in T : \A k \in T : ~(<<k, m>> \in OpToRel(<, Nat))
  BY WFMin, NatLessThanWellFounded, Zenon
<1>2. OpToRel(<, Nat) = {ss \in Nat \X Nat : ss[1] < ss[2]}
  BY Zenon DEF OpToRel
<1>3. ASSUME NEW k \in T, k < m PROVE <<k, m>> \in {ss \in Nat \X Nat : ss[1] < ss[2]}
  BY <1>3
<1>4. \A k \in T : ~(k < m)
  BY <1>1, <1>2, <1>3, Zenon
<1> QED  BY <1>4

(* What holds of the first round and, with a round, of the next one, holds *)
(* of all: P is the set of the rounds of which it holds.                   *)
LEMMA EveryRound ==
    ASSUME NEW C \in Nat, NEW P, 0 \in P, \A n \in 0..C : n \in P /\ n < C => n + 1 \in P
    PROVE  0..C \subseteq P
<1> DEFINE bad == {n \in 0..C : n \notin P}
<1>1. ASSUME bad # {} PROVE FALSE
  <2>1. bad \in SUBSET Nat
    OBVIOUS
  <2>2. PICK m \in bad : \A k \in bad : m <= k
    <3> HIDE DEF bad
    <3> QED  BY <1>1, <2>1, LeastNumber
  <2>3. m \in 0..C /\ m \notin P /\ m # 0
    BY <2>2
  <2>4. m - 1 \in 0..C /\ ~(m <= m - 1) /\ m - 1 < C /\ (m - 1) + 1 = m
    BY <2>3
  <2>5. m - 1 \notin bad
    <3> HIDE DEF bad
    <3> QED  BY <2>2, <2>4
  <2>6. m - 1 \in P
    BY <2>4, <2>5
  <2> QED  BY <2>3, <2>4, <2>6
<1> QED  BY <1>1

(* One round of topo_sort_shards.                                          *)
NextRound(X) ==
    X \cup {s \in known : /\ inDegree[s] > 0
                          /\ Cardinality(get_dependencies(s) \cap X) >= inDegree[s]}

FirstRound == {s \in known : inDegree[s] = 0}

(* The dependencies of a shard, all or those in a set, can be counted.     *)
LEMMA DependenciesFinite ==
    ASSUME NEW s \in Shards, NEW X
    PROVE  /\ IsFiniteSet(get_dependencies(s))
           /\ Cardinality(get_dependencies(s)) \in Nat
           /\ IsFiniteSet(get_dependencies(s) \cap X)
           /\ Cardinality(get_dependencies(s) \cap X) \in Nat
<1>1. get_dependencies(s) \subseteq Shards /\ get_dependencies(s) \cap X \subseteq Shards
  BY DEF get_dependencies
<1>2. IsFiniteSet(get_dependencies(s)) /\ IsFiniteSet(get_dependencies(s) \cap X)
  BY <1>1, FS_Subset, DagAssumption, Zenon DEF DagAssumption
<1> QED  BY <1>2, FS_CardinalityType, Zenon

(* While nothing is completed, a shard is taken in a round when all it     *)
(* depends on was taken before.                                            *)
LEMMA TakenWithAll ==
    ASSUME DagInv, ~irregular, completed = {}, NEW s \in known, NEW X
    PROVE  /\ inDegree[s] = 0 <=> get_dependencies(s) = {}
           /\ Cardinality(get_dependencies(s) \cap X) >= inDegree[s]
                <=> get_dependencies(s) \subseteq X
           /\ inDegree[s] \in Nat
<1>1. s \in Shards /\ inDegree[s] = Cardinality(get_dependencies(s))
  BY DEF DagInv, CounterExact, get_blocking_shards
<1>2. /\ IsFiniteSet(get_dependencies(s)) /\ Cardinality(get_dependencies(s)) \in Nat
      /\ IsFiniteSet(get_dependencies(s) \cap X)
      /\ Cardinality(get_dependencies(s) \cap X) \in Nat
  BY <1>1, DependenciesFinite
<1>3. inDegree[s] = 0 <=> get_dependencies(s) = {}
  BY <1>1, <1>2, FS_EmptySet
<1>4. ASSUME get_dependencies(s) \subseteq X
      PROVE  Cardinality(get_dependencies(s) \cap X) >= inDegree[s]
  <2>1. get_dependencies(s) \cap X = get_dependencies(s)
    BY <1>4
  <2> QED  BY <1>1, <1>2, <2>1
<1>5. ASSUME Cardinality(get_dependencies(s) \cap X) >= inDegree[s]
      PROVE  get_dependencies(s) \subseteq X
  <2>1. Cardinality(get_dependencies(s)) <= Cardinality(get_dependencies(s) \cap X)
    BY <1>1, <1>2, <1>5
  <2>2. get_dependencies(s) \cap X \subseteq get_dependencies(s)
    OBVIOUS
  <2>3. get_dependencies(s) \cap X = get_dependencies(s)
    <3>1. PICK S, T : S = get_dependencies(s) \cap X /\ T = get_dependencies(s)
      OBVIOUS
    <3>2. /\ IsFiniteSet(T) /\ S \subseteq T
          /\ Cardinality(S) \in Nat /\ Cardinality(T) \in Nat /\ Cardinality(T) <= Cardinality(S)
      BY <1>2, <2>1, <2>2, <3>1, Zenon
    <3>3. S # T => Cardinality(S) < Cardinality(T)
      BY <3>2, FS_Subset
    <3>4. S = T
      BY <3>2, <3>3
    <3> QED  BY <3>1, <3>4, Zenon
  <2> QED  BY <2>3
<1> QED  BY <1>1, <1>2, <1>3, <1>4, <1>5

(* Nothing is left for a further round.                                    *)
Settled(X) == NextRound(X) = X

(* A round that changes something takes a shard more.                      *)
LEMMA RoundTakes ==
    ASSUME DagInv, NEW X \in SUBSET known
    PROVE  /\ NextRound(X) \in SUBSET known /\ X \subseteq NextRound(X)
           /\ IsFiniteSet(X) /\ Cardinality(X) \in Nat /\ Cardinality(NextRound(X)) \in Nat
           /\ Cardinality(X) <= Cardinality(Shards) /\ Cardinality(Shards) \in Nat
           /\ ~Settled(X) => Cardinality(NextRound(X)) > Cardinality(X)
<1>1. NextRound(X) \in SUBSET known /\ X \subseteq NextRound(X)
  BY DEF NextRound
<1>2. X \subseteq Shards /\ NextRound(X) \subseteq Shards /\ IsFiniteSet(Shards)
  BY <1>1, DagAssumption DEF DagInv, DagAssumption
<1> DEFINE Y == NextRound(X)
<1>3. X \subseteq Y /\ Y \subseteq Shards /\ (~Settled(X) => X # Y)
  BY <1>1, <1>2 DEF Settled
<1> HIDE DEF Y
<1>4. IsFiniteSet(X) /\ IsFiniteSet(Y)
  BY <1>2, <1>3, FS_Subset, Zenon
<1>5. Cardinality(X) \in Nat /\ Cardinality(Y) \in Nat /\ Cardinality(Shards) \in Nat
  BY <1>2, <1>4, FS_CardinalityType, Zenon
<1>6. Cardinality(X) <= Cardinality(Shards)
  BY <1>2, FS_Subset
<1>7. X # Y => Cardinality(X) < Cardinality(Y)
  BY <1>3, <1>4, <1>5, FS_Subset
<1>8. ~Settled(X) => Cardinality(Y) > Cardinality(X)
  BY <1>3, <1>5, <1>7
<1> QED  BY <1>1, <1>4, <1>5, <1>6, <1>8, Zenon DEF Y

(* The function that the sort computes round by round exists.              *)
LEMMA RoundsExist ==
    ASSUME NEW C \in Nat
    PROVE  \E f \in [0..C -> SUBSET known] :
             /\ f[0] = FirstRound
             /\ \A n \in 0..C : n # 0 => f[n] = NextRound(f[n - 1])
<1> DEFINE Upto(f, m) == f[0] = FirstRound /\ \A n \in 0..m : n # 0 => f[n] = NextRound(f[n - 1])
           P == {m \in 0..C : \E f \in [0..C -> SUBSET known] : Upto(f, m)}
<1>r. FirstRound \in SUBSET known /\ \A X \in SUBSET known : NextRound(X) \in SUBSET known
  BY DEF FirstRound, NextRound
<1>1. 0 \in P
  <2>1. PICK f \in [0..C -> SUBSET known] : f = [n \in 0..C |-> FirstRound]
    BY <1>r
  <2>2. Upto(f, 0) /\ 0 \in 0..C
    BY <2>1
  <2> QED  BY <2>2
<1>2. ASSUME NEW m \in 0..C, m \in P, m < C PROVE m + 1 \in P
  <2>1. PICK f \in [0..C -> SUBSET known] : Upto(f, m)
    BY <1>2
  <2> DEFINE g == [f EXCEPT ![m + 1] = NextRound(f[m])]
  <2>2. g \in [0..C -> SUBSET known] /\ m + 1 \in 0..C
    BY <1>2, <1>r
  <2>3. Upto(g, m + 1)
    <3>0. g[0] = FirstRound
      BY <1>2, <2>1
    <3> SUFFICES ASSUME NEW n \in 0..(m + 1), n # 0 PROVE g[n] = NextRound(g[n - 1])
      BY <3>0
    <3>1. CASE n = m + 1
      BY <1>2, <2>2, <3>1
    <3>2. CASE n # m + 1
      <4>1. n \in 0..m /\ n \in 0..C /\ n - 1 \in 0..C /\ n - 1 # m + 1
        BY <1>2, <3>2
      <4>2. g[n] = f[n] /\ g[n - 1] = f[n - 1]
        BY <3>2, <4>1
      <4> QED  BY <2>1, <4>1, <4>2
    <3> QED  BY <3>1, <3>2
  <2> QED  BY <2>2, <2>3
<1>3. C \in P
  <2>0. \A m \in 0..C : m \in P /\ m < C => m + 1 \in P
    BY <1>2
  <2> HIDE DEF P
  <2>1. 0..C \subseteq P
    BY <1>1, <2>0, EveryRound
  <2> QED  BY <2>1
<1> QED  BY <1>3

(* topo_sort_shards is the last of the rounds.                             *)
LEMMA SortIsLastRound ==
    ASSUME DagInv
    PROVE  \E f \in [0..Cardinality(Shards) -> SUBSET known] :
             /\ topo_sort_shards = f[Cardinality(Shards)]
             /\ f[0] = FirstRound
             /\ \A n \in 0..Cardinality(Shards) : n # 0 => f[n] = NextRound(f[n - 1])
<1> DEFINE C == Cardinality(Shards)
           Rounds(f) == f = [n \in 0..C |-> IF n = 0 THEN FirstRound ELSE NextRound(f[n - 1])]
           g == CHOOSE f : Rounds(f)
<1>1. C \in Nat
  BY FS_CardinalityType, DagAssumption DEF DagAssumption
<1>2. FirstRound \in SUBSET known
  BY DEF FirstRound
<1>3. topo_sort_shards = g[C]
  BY Zenon DEF topo_sort_shards, FirstRound, NextRound
<1> HIDE DEF C
<1>4. PICK f \in [0..C -> SUBSET known] :
        f[0] = FirstRound /\ \A n \in 0..C : n # 0 => f[n] = NextRound(f[n - 1])
  BY <1>1, RoundsExist
<1>5. Rounds(f)
  BY <1>4
<1>6. Rounds(g)
  BY <1>5, Zenon
<1> HIDE DEF g
<1>7. DOMAIN g = 0..C /\ g[0] = FirstRound /\ \A n \in 0..C : n # 0 => g[n] = NextRound(g[n - 1])
  BY <1>1, <1>6
<1>8. \A n \in 0..C : g[n] \in SUBSET known
  <2> DEFINE P == {n \in 0..C : g[n] \in SUBSET known}
  <2>1. 0 \in P
    BY <1>1, <1>2, <1>7
  <2>2. \A n \in 0..C : n \in P /\ n < C => n + 1 \in P
    <3> SUFFICES ASSUME NEW n \in 0..C, g[n] \in SUBSET known, n < C
                 PROVE  n + 1 \in 0..C /\ g[n + 1] \in SUBSET known
      OBVIOUS
    <3>1. n + 1 \in 0..C /\ n + 1 # 0 /\ (n + 1) - 1 = n
      BY <1>1
    <3>2. g[n + 1] = NextRound(g[n])
      BY <1>7, <3>1
    <3> QED  BY <3>1, <3>2 DEF NextRound
  <2>3. 0..C \subseteq P
    <3> HIDE DEF P
    <3> QED  BY <1>1, <2>1, <2>2, EveryRound
  <2> QED  BY <2>3
<1>9. g \in [0..C -> SUBSET known]
  BY <1>6, <1>8
<1> QED  BY <1>3, <1>7, <1>9 DEF C

(* The last round settles: until then every round takes a shard more, and  *)
(* there are no more rounds than shards.                                   *)
LEMMA SortSettles ==
    ASSUME DagInv
    PROVE  topo_sort_shards \in SUBSET known /\ Settled(topo_sort_shards)
<1>1. PICK C \in Nat : C = Cardinality(Shards)
  BY FS_CardinalityType, DagAssumption DEF DagAssumption
<1>2. PICK f \in [0..C -> SUBSET known] :
        /\ topo_sort_shards = f[C] /\ f[0] = FirstRound
        /\ \A n \in 0..C : n # 0 => f[n] = NextRound(f[n - 1])
  BY <1>1, SortIsLastRound
<1> DEFINE P == {n \in 0..C : Settled(f[n]) \/ n + 1 <= Cardinality(f[n])}
<1>3. 0 \in P
  <2>1. ASSUME f[0] = {} PROVE Settled(f[0])
    <3>1. Cardinality({}) = 0
      BY FS_EmptySet
    <3>2. \A s \in known : s \in Shards /\ inDegree[s] \in Int /\ get_dependencies(s) \cap {} = {}
      BY DEF DagInv
    <3>3. NextRound({}) = {}
      BY <3>1, <3>2 DEF NextRound
    <3> QED  BY <2>1, <3>3 DEF Settled
  <2>2. ASSUME f[0] # {} PROVE 1 <= Cardinality(f[0])
    <3>1. f[0] \in SUBSET known
      OBVIOUS
    <3>2. IsFiniteSet(f[0]) /\ Cardinality(f[0]) \in Nat
      BY <3>1, RoundTakes
    <3>3. Cardinality(f[0]) # 0
      BY <2>2, <3>2, FS_EmptySet
    <3> QED  BY <3>2, <3>3
  <2> QED  BY <2>1, <2>2
<1>4. ASSUME NEW n \in 0..C, n \in P, n < C PROVE n + 1 \in P
  <2>1. n + 1 \in 0..C /\ n + 1 # 0 /\ (n + 1) - 1 = n
    BY <1>4
  <2>2. f[n + 1] = NextRound(f[n])
    BY <1>2, <2>1
  <2>3. f[n] \in SUBSET known
    OBVIOUS
  <2>4. CASE Settled(f[n])
    <3>1. f[n + 1] = f[n]
      BY <2>2, <2>4 DEF Settled
    <3> QED  BY <2>1, <2>4, <3>1
  <2>5. CASE ~Settled(f[n])
    <3>1. /\ Cardinality(NextRound(f[n])) > Cardinality(f[n])
          /\ Cardinality(f[n]) \in Nat /\ Cardinality(NextRound(f[n])) \in Nat
      BY <2>3, <2>5, RoundTakes
    <3>2. n + 1 <= Cardinality(f[n])
      BY <1>4, <2>5
    <3>3. (n + 1) + 1 <= Cardinality(f[n + 1])
      BY <2>2, <3>1, <3>2
    <3> QED  BY <2>1, <3>3
  <2> QED  BY <2>4, <2>5
<1>5. C \in P
  <2>1. \A n \in 0..C : n \in P /\ n < C => n + 1 \in P
    BY <1>4
  <2> HIDE DEF P
  <2>2. 0..C \subseteq P
    BY <1>3, <2>1, EveryRound
  <2> QED  BY <2>2
<1>6. f[C] \in SUBSET known
  OBVIOUS
<1>7. Cardinality(f[C]) \in Nat /\ Cardinality(f[C]) <= C
  BY <1>1, <1>6, RoundTakes
<1> QED  BY <1>2, <1>5, <1>6, <1>7

(* Shards that wait for each other are taken in no round.                  *)
LEMMA SortAvoidsCycles ==
    ASSUME DagInv, ~irregular, completed = {}, NEW S \in SUBSET known,
           \A s \in S : get_dependencies(s) \cap S # {}
    PROVE  S \cap topo_sort_shards = {}
<1>1. PICK C \in Nat : C = Cardinality(Shards)
  BY FS_CardinalityType, DagAssumption DEF DagAssumption
<1>2. PICK f \in [0..C -> SUBSET known] :
        /\ topo_sort_shards = f[C] /\ f[0] = FirstRound
        /\ \A n \in 0..C : n # 0 => f[n] = NextRound(f[n - 1])
  BY <1>1, SortIsLastRound
<1> DEFINE P == {n \in 0..C : S \cap f[n] = {}}
<1>3. 0 \in P
  <2>1. ASSUME NEW s \in S PROVE s \notin FirstRound
    BY TakenWithAll DEF FirstRound
  <2> QED  BY <1>2, <2>1
<1>4. ASSUME NEW n \in 0..C, n \in P, n < C PROVE n + 1 \in P
  <2>1. n + 1 \in 0..C /\ n + 1 # 0 /\ (n + 1) - 1 = n
    BY <1>4
  <2>2. f[n + 1] = NextRound(f[n])
    BY <1>2, <2>1
  <2>3. ASSUME NEW s \in S PROVE s \notin NextRound(f[n])
    <3>1. s \notin f[n] /\ ~(get_dependencies(s) \subseteq f[n])
      BY <1>4
    <3>2. ~(Cardinality(get_dependencies(s) \cap f[n]) >= inDegree[s])
      BY <3>1, TakenWithAll
    <3> QED  BY <3>1, <3>2 DEF NextRound
  <2> QED  BY <2>1, <2>2, <2>3
<1>5. C \in P
  <2>1. \A n \in 0..C : n \in P /\ n < C => n + 1 \in P
    BY <1>4
  <2> HIDE DEF P
  <2>2. 0..C \subseteq P
    BY <1>3, <2>1, EveryRound
  <2> QED  BY <2>2
<1> QED  BY <1>2, <1>5

(* The sort takes what depends on nothing.                                 *)
LEMMA SortStartsReady ==
    ASSUME DagInv
    PROVE  FirstRound \subseteq topo_sort_shards
<1>1. PICK C \in Nat : C = Cardinality(Shards)
  BY FS_CardinalityType, DagAssumption DEF DagAssumption
<1>2. PICK f \in [0..C -> SUBSET known] :
        /\ topo_sort_shards = f[C] /\ f[0] = FirstRound
        /\ \A n \in 0..C : n # 0 => f[n] = NextRound(f[n - 1])
  BY <1>1, SortIsLastRound
<1> DEFINE P == {n \in 0..C : FirstRound \subseteq f[n]}
<1>3. 0 \in P
  BY <1>2
<1>4. \A n \in 0..C : n \in P /\ n < C => n + 1 \in P
  <2> SUFFICES ASSUME NEW n \in 0..C, FirstRound \subseteq f[n], n < C
               PROVE  n + 1 \in 0..C /\ FirstRound \subseteq f[n + 1]
    OBVIOUS
  <2>1. n + 1 \in 0..C /\ n + 1 # 0 /\ (n + 1) - 1 = n
    OBVIOUS
  <2>2. f[n + 1] = NextRound(f[n])
    BY <1>2, <2>1
  <2> QED  BY <2>1, <2>2 DEF NextRound
<1>5. C \in P
  <2> HIDE DEF P
  <2>1. 0..C \subseteq P
    BY <1>3, <1>4, EveryRound
  <2> QED  BY <2>1
<1> QED  BY <1>2, <1>5

(* The sort leaves out exactly the shards of cycles and what needs them.   *)
LEMMA DeadlockExact == DagInv => DeadlockDetected
<1> SUFFICES ASSUME DagInv, ~irregular, completed = {}
             PROVE  topo_sort_shards # known <=> Deadlocked
  BY DEF DeadlockDetected, detect_deadlock
<1>0. topo_sort_shards \in SUBSET known /\ Settled(topo_sort_shards)
  BY SortSettles
<1>1. ASSUME Deadlocked PROVE topo_sort_shards # known
  <2>1. PICK S \in SUBSET known : S # {} /\ \A s \in S : get_dependencies(s) \cap S # {}
    BY <1>1 DEF Deadlocked
  <2>2. S \cap topo_sort_shards = {}
    BY <2>1, SortAvoidsCycles
  <2> QED  BY <2>1, <2>2
<1>2. ASSUME topo_sort_shards # known PROVE Deadlocked
  <2> DEFINE X == topo_sort_shards
             S == known \ X
  <2>1. S \in SUBSET known /\ S # {}
    BY <1>0, <1>2
  <2>2. ASSUME NEW s \in S PROVE get_dependencies(s) \cap S # {}
    <3>1. get_dependencies(s) \subseteq known
      BY DEF DagInv, get_dependencies
    <3>2. s \in known /\ s \notin NextRound(X)
      BY <1>0 DEF Settled
    <3>3. ~(inDegree[s] > 0 /\ Cardinality(get_dependencies(s) \cap X) >= inDegree[s])
      BY <3>2 DEF NextRound
    <3>4. inDegree[s] # 0
      <4>1. FirstRound \subseteq X
        BY SortStartsReady
      <4> QED  BY <3>2, <4>1 DEF FirstRound
    <3>5. ~(get_dependencies(s) \subseteq X)
      <4>1. /\ inDegree[s] \in Nat
            /\ Cardinality(get_dependencies(s) \cap X) >= inDegree[s]
                 <=> get_dependencies(s) \subseteq X
        <5> HIDE DEF X
        <5> QED  BY <3>2, TakenWithAll
      <4> QED  BY <3>3, <3>4, <4>1
    <3> QED  BY <3>1, <3>5
  <2> QED  BY <2>1, <2>2 DEF Deadlocked
<1> QED  BY <1>1, <1>2

(* For any shards and dependencies, added once each and before any         *)
(* completion, detect_deadlock is true exactly when some shards wait for   *)
(* each other (dependencies.py 150-181).                                   *)
THEOREM DeadlockAlwaysDetected == Spec => []DeadlockDetected
  BY DeadlockExact, DagInvHolds, PTL

(* No FINALIZE, redelivered or not, completes a shard of a set of shards   *)
(* that wait for each other.                                               *)
THEOREM NoEntryHolds == Spec => NoEntryIntoCycle
<1>1. [Next]_vars =>
        [\A S \in SUBSET known :
          (S # {} /\ S \cap completed = {} /\ \A s \in S : get_dependencies(s) \cap S # {})
             => S \cap completed' = {}]_dagVars
  <2> SUFFICES ASSUME [Next]_vars, NEW S \in SUBSET known, S \cap completed = {},
                      \A s \in S : get_dependencies(s) \cap S # {},
                      dagVars' # dagVars
               PROVE  S \cap completed' = {}
    OBVIOUS
  <2>1. DagNext
    BY DEF Next, Call, vars
  <2>2. CASE \E from, to \in Shards : add_dependency(from, to)
    BY <2>2 DEF add_dependency
  <2>3. CASE \E s \in Shards : handle_finalize(s)
    <3>1. PICK c \in Shards : handle_finalize(c)
      BY <2>3
    <3>2. completed' = completed \cup {c} /\ get_dependencies(c) \subseteq completed
      BY <3>1 DEF handle_finalize, mark_shard_complete, check_cross_shard_dependencies,
                  get_blocking_shards
    <3>3. c \notin S
      BY <3>2
    <3> QED BY <3>2, <3>3
  <2> QED BY <2>1, <2>2, <2>3 DEF DagNext
<1> QED BY <1>1, PTL DEF Spec, NoEntryIntoCycle

-----------------------------------------------------------------------------
(* What holds between two steps of a recursion: the calls in progress are  *)
(* about final commitments, and a dependency that is final but still       *)
(* recorded as awaited is on the list of one of them.                      *)
Awaited(h, d) ==
    \E i \in 1 .. Len(stack) : stack[i].hash = d /\ h \in stack[i].waiting

Settling(h) ==
    /\ h \in DOMAIN pending
    /\ Deps[h] \ finalized \subseteq pending[h]
    /\ pending[h] \subseteq Deps[h]
    /\ pending[h] # {}
    /\ \A d \in pending[h] \cap finalized : Awaited(h, d)

Shape ==
    /\ published \subseteq Hashes
    /\ finalized \subseteq published
    /\ DOMAIN pending \subseteq published
    /\ stack \in Seq(Frame)
    /\ \A i \in 1 .. Len(stack) : stack[i].hash \in finalized

CommitInv ==
    /\ Shape
    /\ FinalAfterDeps
    /\ ~failed => \A h \in published \ finalized : Deps[h] \cap cleared = {} => Settling(h)

(* The loop in progress, one entry further.                                *)
Advance(w) == [stack EXCEPT ![Len(stack)].waiting = @ \ {w}]

LEMMA AdvanceShape ==
  ASSUME Shape, ~Idle, NEW w \in Hashes
  PROVE  /\ Advance(w) \in Seq(Frame)
         /\ Len(Advance(w)) = Len(stack)
         /\ Len(stack) \in Nat \ {0}
         /\ \A i \in 1 .. Len(stack) : Advance(w)[i].hash = stack[i].hash
         /\ \A i \in 1 .. Len(stack) : i # Len(stack) => Advance(w)[i] = stack[i]
         /\ Advance(w)[Len(stack)].waiting = Top.waiting \ {w}
         /\ Top \in Frame
<1>1. stack \in Seq(Frame) /\ Len(stack) \in Nat \ {0}
  BY DEF Shape, Idle
<1>2. Top \in Frame
  BY <1>1 DEF Top
<1>3. [Top EXCEPT !.waiting = @ \ {w}] \in Frame
  BY <1>2 DEF Frame
<1>4. Advance(w) = [stack EXCEPT ![Len(stack)] = [Top EXCEPT !.waiting = @ \ {w}]]
  BY <1>1 DEF Advance, Top
<1> QED BY <1>1, <1>2, <1>3, <1>4 DEF Frame, Top

(* Finalizing w, called by the calls in `callers`, keeps what is known of  *)
(* every other commitment.                                                 *)
LEMMA FinalizeKeeps ==
  ASSUME Shape, FinalAfterDeps, NEW w \in Hashes, NEW pend, NEW callers \in Seq(Frame),
         \A i \in 1 .. Len(callers) : callers[i].hash \in finalized,
         w \in published', published \subseteq published', published' \subseteq Hashes,
         DOMAIN pend \subseteq published',
         Ready(w), Finalize(w, pend, callers), UNCHANGED <<failed, cleared>>
  PROVE  /\ Shape'
         /\ FinalAfterDeps'
         /\ \A h \in DOMAIN pend \ {w} : h \in DOMAIN pending' /\ pending'[h] = pend[h]
         /\ \A h \in DOMAIN pend \ {w} : w \in pend[h] => Awaited(h, w)'
         /\ \A h, d : (\E i \in 1 .. Len(callers) : callers[i].hash = d /\ h \in callers[i].waiting)
                         => Awaited(h, d)'
<1> DEFINE f == [hash |-> w, waiting |-> {h \in DOMAIN pending' : w \in pending'[h]}]
<1>1. \A h \in DOMAIN pend \ {w} : h \in DOMAIN pending' /\ pending'[h] = pend[h]
  BY DEF Finalize, Without
<1>2. DOMAIN pending' \subseteq published'
  BY DEF Finalize, Without
<1>3. stack' = Append(callers, f) /\ f \in Frame
  BY <1>2 DEF Finalize, Frame
<1>4. /\ stack' \in Seq(Frame) /\ Len(stack') = Len(callers) + 1 /\ Len(callers) \in Nat
      /\ stack'[Len(callers) + 1] = f
      /\ \A i \in 1 .. Len(callers) : stack'[i] = callers[i]
  BY <1>3
<1>5. finalized' = finalized \cup {w}
  BY DEF Finalize
<1>6. \A i \in 1 .. Len(stack') : stack'[i].hash \in finalized'
  BY <1>4, <1>5
<1>7. Shape'
  BY <1>2, <1>4, <1>5, <1>6 DEF Shape
<1>8. FinalAfterDeps'
  BY <1>5 DEF FinalAfterDeps, Ready
<1>9. \A h \in DOMAIN pend \ {w} : w \in pend[h] => Awaited(h, w)'
  BY <1>1, <1>4 DEF Awaited
<1>10. \A h, d : (\E i \in 1 .. Len(callers) : callers[i].hash = d /\ h \in callers[i].waiting)
                    => Awaited(h, d)'
  BY <1>4 DEF Awaited
<1> QED BY <1>1, <1>7, <1>8, <1>9, <1>10

LEMMA CommitInvInit == Init => CommitInv
<1> SUFFICES ASSUME Init PROVE CommitInv
  OBVIOUS
<1>1. published = {} /\ finalized = {} /\ DOMAIN pending = {} /\ stack = <<>>
  BY DEF Init, CommitInit
<1>2. stack \in Seq(Frame) /\ Len(stack) = 0
  BY <1>1
<1> QED BY <1>1, <1>2 DEF CommitInv, Shape, FinalAfterDeps

LEMMA PublishKeeps ==
  ASSUME CommitInv, NEW w \in Hashes, publish_commitment(w)
  PROVE  CommitInv'
<1> USE DEF CommitInv, publish_commitment
<1>1. Shape /\ FinalAfterDeps /\ stack = <<>> /\ Len(stack) = 0
  BY DEF Idle
<1>2. CASE Ready(w)
  <2>1. Finalize(w, pending, stack)
    BY <1>2
  <2>2. /\ Shape' /\ FinalAfterDeps'
        /\ \A h \in DOMAIN pending \ {w} : h \in DOMAIN pending' /\ pending'[h] = pending[h]
        /\ \A h \in DOMAIN pending \ {w} : w \in pending[h] => Awaited(h, w)'
    BY <1>1, <1>2, <2>1, FinalizeKeeps DEF Shape
  <2>3. ASSUME ~failed', NEW h \in published' \ finalized', Deps[h] \cap cleared' = {}
        PROVE  Settling(h)'
    <3>1. finalized' = finalized \cup {w} /\ h # w /\ h \in published \ finalized
      BY <2>1, <2>3 DEF Finalize
    <3>2. Settling(h)
      BY <2>3, <3>1
    <3>3. pending[h] \cap finalized = {}
      BY <1>1, <3>2 DEF Settling, Awaited
    <3> QED BY <2>2, <3>1, <3>2, <3>3 DEF Settling
  <2> QED BY <2>2, <2>3
<1>3. CASE ~Ready(w)
  <2>1. /\ finalized' = finalized /\ stack' = stack
        /\ DOMAIN pending' = DOMAIN pending \cup {w}
        /\ pending'[w] = Deps[w] \ finalized
        /\ \A h \in DOMAIN pending : h # w => pending'[h] = pending[h]
    BY <1>3
  <2>2. Shape' /\ FinalAfterDeps'
    BY <1>1, <2>1 DEF Shape, FinalAfterDeps
  <2>3. ASSUME ~failed', NEW h \in published' \ finalized', Deps[h] \cap cleared' = {}
        PROVE  Settling(h)'
    <3>1. CASE h = w
      BY <1>3, <2>1, <3>1 DEF Settling, Ready
    <3>2. CASE h # w
      <4>1. Settling(h)
        BY <2>1, <2>3, <3>2
      <4> QED BY <2>1, <3>2, <4>1 DEF Settling, Awaited
    <3> QED BY <3>1, <3>2
  <2> QED BY <2>2, <2>3
<1> QED BY <1>2, <1>3

LEMMA FinalizeCallKeeps ==
  ASSUME CommitInv, NEW w \in Hashes, finalize_commitment(w)
  PROVE  CommitInv'
<1> USE DEF CommitInv, finalize_commitment
<1>1. Shape /\ FinalAfterDeps /\ stack = <<>> /\ Len(stack) = 0
  BY DEF Idle
<1>2. /\ Shape' /\ FinalAfterDeps'
      /\ \A h \in DOMAIN pending \ {w} : h \in DOMAIN pending' /\ pending'[h] = pending[h]
      /\ \A h \in DOMAIN pending \ {w} : w \in pending[h] => Awaited(h, w)'
  BY <1>1, FinalizeKeeps DEF Shape
<1>3. ASSUME ~failed', NEW h \in published' \ finalized', Deps[h] \cap cleared' = {}
      PROVE  Settling(h)'
  <2>1. finalized' = finalized \cup {w} /\ h # w /\ h \in published \ finalized
    BY <1>3 DEF Finalize
  <2>2. Settling(h)
    BY <1>3, <2>1
  <2>3. pending[h] \cap finalized = {}
    BY <1>1, <2>2 DEF Settling, Awaited
  <2> QED BY <1>2, <2>1, <2>2, <2>3 DEF Settling
<1> QED BY <1>2, <1>3

(* One entry of the innermost loop.  The entry loses a dependency that is  *)
(* final; if that was the last open one the entry becomes final itself.    *)
LEMMA CascadeKeeps ==
  ASSUME CommitInv, NEW w \in Hashes, cascade_finalize(w)
  PROVE  CommitInv'
<1> DEFINE pend == [pending EXCEPT ![w] = @ \ {Top.hash}]
           try == w \in published \ finalized /\ Ready(w)
<1>1. /\ Shape /\ FinalAfterDeps /\ ~Idle /\ w \in DOMAIN pending
      /\ UNCHANGED <<published, rank, failed, cleared>>
      /\ \/ try /\ Finalize(w, pend, Advance(w))
         \/ ~try /\ pending' = pend /\ stack' = Advance(w) /\ finalized' = finalized
  BY DEF CommitInv, cascade_finalize, Advance
<1>2. /\ Advance(w) \in Seq(Frame) /\ Len(Advance(w)) = Len(stack)
      /\ Len(stack) \in Nat \ {0}
      /\ \A i \in 1 .. Len(stack) : Advance(w)[i].hash = stack[i].hash
      /\ \A i \in 1 .. Len(stack) : i # Len(stack) => Advance(w)[i] = stack[i]
      /\ Advance(w)[Len(stack)].waiting = Top.waiting \ {w}
  BY <1>1, AdvanceShape
<1>3. \A i \in 1 .. Len(stack) : Advance(w)[i].hash \in finalized
  BY <1>1, <1>2 DEF Shape
<1>4. Top.hash \in finalized
  BY <1>1, <1>2 DEF Shape, Top
<1>5. /\ DOMAIN pend = DOMAIN pending
      /\ pend[w] = pending[w] \ {Top.hash}
      /\ \A h \in DOMAIN pending : h # w => pend[h] = pending[h]
  BY <1>1
<1>6. ASSUME NEW h, NEW d, Awaited(h, d), h # w \/ d # Top.hash
      PROVE  \E i \in 1 .. Len(Advance(w)) :
                Advance(w)[i].hash = d /\ h \in Advance(w)[i].waiting
  <2>1. PICK i \in 1 .. Len(stack) : stack[i].hash = d /\ h \in stack[i].waiting
    BY <1>6 DEF Awaited
  <2>2. CASE i # Len(stack)
    BY <1>2, <2>1, <2>2
  <2>3. CASE i = Len(stack)
    <3>1. h # w /\ h \in Top.waiting
      BY <1>6, <2>1, <2>3 DEF Top
    <3> QED BY <1>2, <2>1, <2>3, <3>1
  <2> QED BY <2>2, <2>3
<1> HIDE DEF pend
<1>7. CASE try /\ Finalize(w, pend, Advance(w))
  <2>1. /\ Shape' /\ FinalAfterDeps'
        /\ \A h \in DOMAIN pend \ {w} : h \in DOMAIN pending' /\ pending'[h] = pend[h]
        /\ \A h \in DOMAIN pend \ {w} : w \in pend[h] => Awaited(h, w)'
        /\ \A h, d : (\E i \in 1 .. Len(Advance(w)) :
                          Advance(w)[i].hash = d /\ h \in Advance(w)[i].waiting)
                      => Awaited(h, d)'
    <3>1. /\ w \in published' /\ published \subseteq published' /\ published' \subseteq Hashes
          /\ DOMAIN pend \subseteq published'
          /\ UNCHANGED <<failed, cleared>>
          /\ \A i \in 1 .. Len(Advance(w)) : Advance(w)[i].hash \in finalized
      BY <1>1, <1>2, <1>3, <1>5, <1>7 DEF Shape
    <3>2. Ready(w) /\ Finalize(w, pend, Advance(w)) /\ Advance(w) \in Seq(Frame)
      BY <1>2, <1>7
    <3> HIDE DEF try
    <3> QED BY <1>1, <3>1, <3>2, FinalizeKeeps
  <2>2. ASSUME ~failed', NEW h \in published' \ finalized', Deps[h] \cap cleared' = {}
        PROVE  Settling(h)'
    <3>1. finalized' = finalized \cup {w} /\ h # w /\ h \in published \ finalized
      BY <1>1, <1>7, <2>2 DEF Finalize
    <3>2. Settling(h)
      BY <1>1, <2>2, <3>1 DEF CommitInv
    <3>3. h \in DOMAIN pending' /\ pending'[h] = pending[h] /\ pend[h] = pending[h]
      BY <1>5, <2>1, <3>1, <3>2 DEF Settling
    <3>4. ASSUME NEW d \in pending'[h] \cap finalized' PROVE Awaited(h, d)'
      <4>1. CASE d = w
        BY <1>5, <2>1, <3>1, <3>2, <3>3, <3>4, <4>1 DEF Settling
      <4>2. CASE d # w
        <5>1. Awaited(h, d)
          BY <3>1, <3>2, <3>3, <3>4, <4>2 DEF Settling
        <5> QED BY <1>6, <2>1, <3>1, <5>1
      <4> QED BY <4>1, <4>2
    <3> QED BY <3>1, <3>2, <3>3, <3>4 DEF Settling
  <2> QED BY <2>1, <2>2 DEF CommitInv
<1>8. CASE ~try /\ pending' = pend /\ stack' = Advance(w) /\ finalized' = finalized
  <2>1. Shape' /\ FinalAfterDeps'
    BY <1>1, <1>2, <1>3, <1>5, <1>8 DEF Shape, FinalAfterDeps
  <2>2. ASSUME NEW h, NEW d, Awaited(h, d), h # w \/ d # Top.hash
        PROVE  Awaited(h, d)'
    BY <1>6, <1>8, <2>2 DEF Awaited
  <2>3. ASSUME ~failed', NEW h \in published' \ finalized', Deps[h] \cap cleared' = {}
        PROVE  Settling(h)'
    <3>1. h \in published \ finalized /\ Settling(h)
      BY <1>1, <1>8, <2>3 DEF CommitInv
    <3>2. CASE h # w
      <4>1. h \in DOMAIN pending' /\ pending'[h] = pending[h]
        BY <1>5, <1>8, <3>1, <3>2 DEF Settling
      <4> QED BY <1>8, <2>2, <3>1, <3>2, <4>1 DEF Settling
    <3>3. CASE h = w
      <4>1. h \in DOMAIN pending' /\ pending'[h] = pending[h] \ {Top.hash}
        BY <1>5, <1>8, <3>1, <3>3 DEF Settling
      <4>2. Deps[h] \ finalized # {}
        BY <1>8, <3>1, <3>3 DEF Ready
      <4>3. Deps[h] \ finalized \subseteq pending'[h]
        BY <1>4, <3>1, <4>1 DEF Settling
      <4>4. \A d \in pending'[h] \cap finalized : Awaited(h, d)'
        BY <2>2, <3>1, <4>1 DEF Settling
      <4> QED BY <1>8, <3>1, <4>1, <4>2, <4>3, <4>4 DEF Settling
    <3> QED BY <3>2, <3>3
  <2> QED BY <2>1, <2>3 DEF CommitInv
<1> QED BY <1>1, <1>7, <1>8

LEMMA ReturnKeeps ==
  ASSUME CommitInv, CascadeReturn
  PROVE  CommitInv'
<1>1. /\ stack \in Seq(Frame) /\ Len(stack) \in Nat \ {0}
      /\ Top.waiting = {} /\ stack' = SubSeq(stack, 1, Len(stack) - 1)
      /\ UNCHANGED <<published, finalized, pending, failed, cleared>>
  BY DEF CommitInv, Shape, CascadeReturn, Idle
<1>2. /\ stack' \in Seq(Frame) /\ Len(stack') = Len(stack) - 1
      /\ \A i \in 1 .. Len(stack') : stack'[i] = stack[i]
  <2> DEFINE n == Len(stack) - 1
  <2>1. n \in Int /\ n >= 0 /\ \A i \in 1 .. n : stack[i] \in Frame
    BY <1>1
  <2> HIDE DEF n
  <2>2. /\ SubSeq(stack, 1, n) \in Seq(Frame)
        /\ Len(SubSeq(stack, 1, n)) = IF 1 <= n THEN n - 1 + 1 ELSE 0
        /\ \A i \in 1 .. n - 1 + 1 : SubSeq(stack, 1, n)[i] = stack[1 + i - 1]
    BY <2>1, SubSeqProperties
  <2>3. stack' = SubSeq(stack, 1, n)
    BY <1>1 DEF n
  <2>4. Len(stack') = n
    BY <2>1, <2>2, <2>3
  <2>5. ASSUME NEW i \in 1 .. n PROVE stack'[i] = stack[i]
    BY <2>1, <2>2, <2>3
  <2> QED BY <2>2, <2>3, <2>4, <2>5 DEF n
<1>3. Shape' /\ FinalAfterDeps'
  BY <1>1, <1>2 DEF CommitInv, Shape, FinalAfterDeps
<1>4. ASSUME NEW h, NEW d, Awaited(h, d) PROVE Awaited(h, d)'
  <2>1. PICK i \in 1 .. Len(stack) : stack[i].hash = d /\ h \in stack[i].waiting
    BY <1>4 DEF Awaited
  <2>2. i # Len(stack)
    BY <1>1, <2>1 DEF Top
  <2> QED BY <1>1, <1>2, <2>1, <2>2 DEF Awaited
<1>5. ASSUME NEW h, Settling(h) PROVE Settling(h)'
  BY <1>1, <1>4, <1>5 DEF Settling
<1> QED BY <1>1, <1>3, <1>5 DEF CommitInv

LEMMA ClearKeeps ==
  ASSUME CommitInv, NEW n, clear_need(n)
  PROVE  CommitInv'
<1> DEFINE gone == {h \in published : NeedOf[h] = n}
<1>1. /\ stack = <<>> /\ Len(stack) = 0 /\ stack' = stack /\ failed' = failed
      /\ published' = published \ gone /\ finalized' = finalized \ gone
      /\ cleared' = cleared \cup gone /\ pending' = Without(pending, gone)
  BY DEF clear_need, Idle
<1> HIDE DEF gone
<1>2. /\ DOMAIN pending' = DOMAIN pending \ gone
      /\ \A h \in DOMAIN pending' : pending'[h] = pending[h]
  BY <1>1 DEF Without
<1>3. Shape' /\ FinalAfterDeps'
  BY <1>1, <1>2 DEF CommitInv, Shape, FinalAfterDeps
<1>4. ASSUME ~failed', NEW h \in published' \ finalized', Deps[h] \cap cleared' = {}
      PROVE  Settling(h)'
  <2>1. Settling(h) /\ h \notin gone /\ Deps[h] \cap gone = {}
    BY <1>1, <1>4 DEF CommitInv
  <2> QED BY <1>1, <1>2, <2>1 DEF Settling, Awaited
<1> QED BY <1>3, <1>4 DEF CommitInv

LEMMA CommitInvNext == CommitInv /\ [Next]_vars => CommitInv'
<1> SUFFICES ASSUME CommitInv, [Next]_vars PROVE CommitInv'
  OBVIOUS
<1>1. CASE UNCHANGED commitVars
  BY <1>1 DEF CommitInv, Shape, FinalAfterDeps, Settling, Awaited, commitVars
<1>2. CASE CommitCall
  BY <1>2, PublishKeeps, FinalizeCallKeeps, ClearKeeps DEF CommitCall
<1>3. CASE \E w \in Hashes : cascade_finalize(w)
  BY <1>3, CascadeKeeps
<1>4. CASE \E w \in Hashes : CascadeKeyError(w)
  <2>1. /\ stack' = <<>> /\ failed' /\ Len(stack') = 0 /\ stack' \in Seq(Frame)
        /\ UNCHANGED <<published, finalized, pending, cleared>>
    BY <1>4 DEF CascadeKeyError
  <2> QED BY <2>1 DEF CommitInv, Shape, FinalAfterDeps
<1>5. CASE CascadeReturn
  BY <1>5, ReturnKeeps
<1>6. UNCHANGED commitVars \/ CommitCall \/ CascadeStep
  BY DEF Next, Call, vars
<1> QED BY <1>1, <1>2, <1>3, <1>4, <1>5, <1>6 DEF CascadeStep

LEMMA CommitInvHolds == Spec => []CommitInv
<1> QED BY CommitInvInit, CommitInvNext, PTL DEF Spec

(* A commitment is never final before what it depends on, however the      *)
(* cascades nest.                                                          *)
THEOREM FinalAfterDepsHolds == Spec => []FinalAfterDeps
<1>1. CommitInv => FinalAfterDeps
  BY DEF CommitInv
<1> QED BY <1>1, CommitInvHolds, PTL

(* A cascade that returns without a KeyError has reached every commitment  *)
(* it should, for every dependency graph and every order of publication.   *)
THEOREM CascadeSettlesHolds == Spec => []CascadeSettles
<1>1. CommitInv => CascadeSettles
  <2> SUFFICES ASSUME CommitInv, Idle, ~failed, NEW h \in published \ finalized,
                      Deps[h] \cap cleared = {}
               PROVE  h \in DOMAIN pending /\ pending[h] = Deps[h] \ finalized /\ pending[h] # {}
    BY DEF CascadeSettles
  <2>1. Settling(h)
    BY DEF CommitInv
  <2>2. \A d : ~Awaited(h, d)
    BY DEF Awaited, Idle
  <2> QED BY <2>1, <2>2 DEF Settling
<1> QED BY <1>1, CommitInvHolds, PTL
=============================================================================
