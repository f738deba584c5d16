------------------------------ MODULE Sharding ------------------------------
(***************************************************************************)
(* The cross-shard state of one process: the commitments that COMMIT       *)
(* publishes and the dependency graph that FINALIZE asks.  One event loop  *)
(* runs the handlers, so while a cascade recurses no envelope is handled.  *)
(*                                                                         *)
(* Shard dependencies: DependencyDAG and the way the FINALIZE handler uses *)
(* it.  One graph serves every need, so an edge may be added once per      *)
(* need, and a shard is completed by the FINALIZE of each of its tasks.    *)
(* What the graph knows of open dependencies is a counter per shard.       *)
(***************************************************************************)
EXTENDS CommitmentProtocol, Integers, FiniteSets

CONSTANT Shards    \* shard ids

ASSUME DagAssumption == IsFiniteSet(Shards)

VARIABLES
    graph,         \* graph, reverse_graph: pairs <<from_shard, to_shard>>
    known,         \* the keys of graph and in_degree
    inDegree,      \* in_degree, 0 where it has no key
    completed,     \* completed_shards
    readyShards,   \* ready_shards
    irregular      \* history variable: an edge was added twice or to a
                   \* completed shard, or a shard was completed twice

dagVars == <<graph, known, inDegree, completed, readyShards, irregular>>

DagInit ==
    /\ graph = {}
    /\ known = {}
    /\ inDegree = [s \in Shards |-> 0]
    /\ completed = {}
    /\ readyShards = {}
    /\ irregular = FALSE

get_dependencies(s) == {t \in Shards : <<s, t>> \in graph}

get_dependents(s) == {t \in Shards : <<t, s>> \in graph}

get_blocking_shards(s) == get_dependencies(s) \ completed

get_ready_shards == {s \in known : inDegree[s] = 0} \ completed

-----------------------------------------------------------------------------
add_dependency(from, to) ==
    /\ graph' = graph \cup {<<from, to>>}
    /\ known' = known \cup {from, to}
    /\ inDegree' = [inDegree EXCEPT ![from] = @ + 1]
    /\ irregular' = (irregular \/ <<from, to>> \in graph \/ to \in completed)
    /\ UNCHANGED <<completed, readyShards>>

(***************************************************************************)
(* mark_shard_complete, as it counts: one less for every dependent, on     *)
(* every call; the ones that reach zero become ready.                      *)
(***************************************************************************)
mark_shard_complete_Forward(s) ==
    LET dependents == get_dependencies(s) IN
    /\ completed' = completed \cup {s}
    /\ inDegree' = [d \in Shards |->
                       IF d \in dependents THEN inDegree[d] - 1 ELSE inDegree[d]]
    /\ readyShards' = readyShards \cup
                      {d \in dependents \ completed' : inDegree'[d] = 0}

mark_shard_complete(s) ==
    LET dependents == get_dependents(s) IN
    /\ completed' = completed \cup {s}
    /\ inDegree' = [d \in Shards |->
                       IF d \in dependents THEN inDegree[d] - 1 ELSE inDegree[d]]
    /\ readyShards' = readyShards \cup
                      {d \in dependents \ completed' : inDegree'[d] = 0}

(***************************************************************************)
(* handle_finalize for a shard: refused while some dependency is open; the *)
(* two plan ops are appended without giving up the loop, then the shard is *)
(* marked complete.  A redelivered FINALIZE passes the gate again.         *)
(***************************************************************************)
check_cross_shard_dependencies_ByCounter(s) == inDegree[s] <= 0

check_cross_shard_dependencies(s) == get_blocking_shards(s) = {}

handle_finalize(s) ==
    /\ check_cross_shard_dependencies(s)
    /\ mark_shard_complete(s)
    /\ irregular' = (irregular \/ s \in completed)
    /\ UNCHANGED <<graph, known>>

DagNext ==
    \/ \E from, to \in Shards : add_dependency(from, to)
    \/ \E s \in Shards : handle_finalize(s)

-----------------------------------------------------------------------------
(***************************************************************************)
(* topo_sort_shards, as the set of shards its queue processes (which does  *)
(* not depend on the order of the queue): those with counter zero, and in  *)
(* every round those whose copy of the counter the processed dependencies  *)
(* bring down to zero.                                                     *)
(***************************************************************************)
topo_sort_shards_OneRound ==
    {s \in known : inDegree[s] = 0 \/ get_dependencies(s) \subseteq
                                        {t \in known : inDegree[t] = 0}}

topo_sort_shards ==
    LET sorted[n \in 0 .. Cardinality(Shards)] ==
            IF n = 0 THEN {s \in known : inDegree[s] = 0}
            ELSE sorted[n - 1] \cup
                 {s \in known :
                    /\ inDegree[s] > 0
                    /\ Cardinality(get_dependencies(s) \cap sorted[n - 1])
                          >= inDegree[s]}
    IN sorted[Cardinality(Shards)]

detect_deadlock == topo_sort_shards # known

\* Some shards can never be finalized: each waits for another of them.
Deadlocked ==
    \E S \in SUBSET known :
        /\ S # {}
        /\ \A s \in S : get_dependencies(s) \cap S # {}

DagTypeOK ==
    /\ graph \subseteq Shards \X Shards
    /\ known \subseteq Shards
    /\ inDegree \in [Shards -> Int]
    /\ completed \subseteq Shards
    /\ readyShards \subseteq known
    /\ irregular \in BOOLEAN

\* Readiness is decided by counters, blocking by sets (dependencies.py 84,
\* 109-115, 131-135 against 250-251): as long as each edge was added once and to
\* an open shard, and each shard was completed once, the two agree.
ReadyWhenUnblocked ==
    ~irregular => get_ready_shards =
        {s \in known \ completed : get_blocking_shards(s) = {}}

\* detect_deadlock (dependencies.py 150-181) reports a cycle exactly when there
\* is one, for a graph whose edges were added once and before any completion.
DeadlockDetected ==
    ~irregular /\ completed = {} => (detect_deadlock <=> Deadlocked)

\* The FINALIZE gate (finalize.py 39-45, 108-114) keeps the order of the graph: a
\* step completes a shard only when everything it depends on is completed, so a
\* set of shards that wait for each other is never entered.
NoEntryIntoCycle ==
    [][\A S \in SUBSET known :
          (S # {} /\ S \cap completed = {} /\ \A s \in S : get_dependencies(s) \cap S # {})
             => S \cap completed' = {}]_dagVars
-----------------------------------------------------------------------------
CONSTANT MaxCalls      \* bound: calls of the two tables

ASSUME ShardingAssumption == MaxCalls \in Nat

VARIABLE calls         \* calls made so far

vars == <<commitVars, dagVars, calls>>

Init == CommitInit /\ DagInit /\ calls = 0

Call ==
    /\ calls < MaxCalls
    /\ calls' = calls + 1
    /\ \/ CommitCall /\ UNCHANGED dagVars
       \/ Idle /\ DagNext /\ UNCHANGED commitVars

Next == Call \/ (CascadeStep /\ UNCHANGED <<dagVars, calls>>)

Spec == Init /\ [][Next]_vars

\* Types of the two tables and of the recursion in progress.
TypeOK == CommitTypeOK /\ DagTypeOK /\ calls \in 0 .. MaxCalls
=============================================================================
