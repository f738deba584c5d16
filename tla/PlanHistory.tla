----------------------------- MODULE PlanHistory ----------------------------
(***************************************************************************)
(* PatchValidator, which merges the patches of several actors, and         *)
(* VersionTracker, which keeps snapshots of the plan.                      *)
(***************************************************************************)
EXTENDS Integers, Sequences, FiniteSets, SequencesExt

CONSTANTS
    PatchOf,      \* patch id -> [actor, base_lamport, ops]; actors are ordered
    VersionIds,
    Lamports,
    PlanStates    \* what a plan can look like: functions from task ids to data

PatchIds == DOMAIN PatchOf

ASSUME HistoryAssumption ==
    /\ Lamports \subseteq Nat
    /\ \A p \in PatchIds : {PatchOf[p].base_lamport, PatchOf[p].actor, Len(PatchOf[p].ops)}
                              \subseteq Nat

VARIABLES
    pending,      \* the patches received and validated, in order of arrival
    merges,       \* history: the merges done, [of, ops]
    versions,     \* table plan_versions: version id -> lamport, 0 if absent
    snapshots,    \* table plan_snapshots: [version, task, data]
    recorded      \* history: version id -> the state recorded once under it

historyVars == <<pending, merges, versions, snapshots, recorded>>

HistoryInit ==
    /\ pending = <<>>
    /\ merges = {}
    /\ versions = [v \in VersionIds |-> 0]
    /\ snapshots = {}
    /\ recorded = [v \in VersionIds |-> {}]

-----------------------------------------------------------------------------
(* An op names a type and a task, a STATE op a state, and a LINK op its    *)
(* two ends; complete stands for that.                                     *)
validate_patch(p) == PatchOf[p].ops # <<>> /\ \A i \in DOMAIN PatchOf[p].ops : PatchOf[p].ops[i].complete

has_cycle(all) ==
    LET nodes == {e[1] : e \in all} \cup {e[2] : e \in all}
        reach[n \in 0..Cardinality(nodes)] ==
          IF n = 0 THEN all
          ELSE reach[n - 1] \cup {<<ef[1][1], ef[2][2]>> :
                 ef \in {pair \in reach[n - 1] \X all : pair[1][2] = pair[2][1]}}
    IN  \E t \in nodes : <<t, t>> \in reach[Cardinality(nodes)]

(* Is there a cycle once new is added?                                     *)
_detect_cycle(edges, new) == has_cycle(edges \cup {new})

(* One op of a patch.  A task added twice and a state set twice go to the  *)
(* larger base_lamport, the first one on a tie; a link that would close a  *)
(* cycle is left out, and a link kept takes the place of an earlier link   *)
(* op of the same task; other ops go to the last one.                      *)
MergeOp(m, p, op) ==
    LET key == <<op.task_id, op.op_type>>
        old == {x \in m.ops : x.key = key}
        mine == [key |-> key, lamport |-> PatchOf[p].base_lamport, actor |-> PatchOf[p].actor,
                 payload |-> op.payload]
        replaced == [m EXCEPT !.ops = (@ \ old) \cup {mine}]
    IN  CASE op.op_type \in {"ADD_TASK", "STATE"} ->
               IF \A x \in old : mine.lamport > x.lamport THEN replaced ELSE m
          [] op.op_type = "LINK" ->
               IF _detect_cycle(m.edges, op.payload) THEN m
               ELSE [replaced EXCEPT !.edges = @ \cup {op.payload}]
          [] OTHER -> replaced

(* Faulty variant: patches are ordered by lamport alone.                   *)
Before_NoActor(p, q) == PatchOf[p].base_lamport < PatchOf[q].base_lamport

(* The sort key (base_lamport, actor_id).                                  *)
Before(p, q) ==
    \/ PatchOf[p].base_lamport < PatchOf[q].base_lamport
    \/ PatchOf[p].base_lamport = PatchOf[q].base_lamport /\ PatchOf[p].actor < PatchOf[q].actor

(* sorted is stable: the n-th patch is the one that n - 1 others come      *)
(* before.                                                                 *)
SortedPatches(patches) ==
    LET all == ToSet(patches)
        arrived(p) == CHOOSE i \in DOMAIN patches : patches[i] = p
        first(p, q) == Before(p, q) \/ (~Before(q, p) /\ arrived(p) < arrived(q))
    IN  [n \in 1..Cardinality(all) |->
            CHOOSE p \in all : Cardinality({q \in all : first(q, p)}) = n - 1]

(* The loops of merge_patches: over the ops of a patch, over the patches.  *)
MergePatch(m, p) ==
    LET after[k \in 0..Len(PatchOf[p].ops)] ==
          IF k = 0 THEN m ELSE MergeOp(after[k - 1], p, PatchOf[p].ops[k])
    IN  after[Len(PatchOf[p].ops)]

MergeInOrder(patches) ==
    LET after[k \in 0..Len(patches)] ==
          IF k = 0 THEN [ops |-> {}, edges |-> {}] ELSE MergePatch(after[k - 1], patches[k])
    IN  after[Len(patches)]

merge_patches(patches) == MergeInOrder(SortedPatches(patches))

ReceivePatch(p) ==
    /\ p \notin ToSet(pending)
    /\ validate_patch(p)
    /\ pending' = Append(pending, p)
    /\ UNCHANGED <<merges, versions, snapshots, recorded>>

MergePatches ==
    /\ pending # <<>>
    /\ merges' = merges \cup {[of |-> ToSet(pending), merged |-> merge_patches(pending)]}
    /\ pending' = <<>>
    /\ UNCHANGED <<versions, snapshots, recorded>>

-----------------------------------------------------------------------------
(* INSERT OR REPLACE: the row of the same id goes, and so does the row     *)
(* with the same lamport, which is UNIQUE; snapshot rows are replaced task *)
(* by task, and rows of tasks that are gone stay.                          *)
record_version(v, l, state) ==
    /\ versions' = [w \in VersionIds |-> IF w = v THEN l
                                         ELSE IF versions[w] = l THEN 0 ELSE versions[w]]
    /\ snapshots' = {s \in snapshots : ~(s.version = v /\ s.task \in DOMAIN state)}
                      \cup {[version |-> v, task |-> t, data |-> state[t]] : t \in DOMAIN state}
    /\ recorded' = [recorded EXCEPT ![v] = @ \cup {state}]
    /\ UNCHANGED <<pending, merges>>

get_snapshot_data(v) ==
    LET mine == {s \in snapshots : s.version = v}
    IN  [t \in {s.task : s \in mine} |-> (CHOOSE s \in mine : s.task = t).data]

get_version_at_lamport(l) ==
    {v \in VersionIds : /\ versions[v] \in 1..l
                        /\ \A w \in VersionIds : versions[w] \in 1..l => versions[w] <= versions[v]}

(* Faulty variant: a task that is gone in b is not reported.               *)
compute_diff_NoRemoved(a, b) ==
    LET sa == get_snapshot_data(a)
        sb == get_snapshot_data(b)
    IN  [added |-> DOMAIN sb \ DOMAIN sa, removed |-> {},
         modified |-> {t \in DOMAIN sa \cap DOMAIN sb : sa[t] # sb[t]}]

compute_diff(a, b) ==
    LET sa == get_snapshot_data(a)
        sb == get_snapshot_data(b)
    IN  [added |-> DOMAIN sb \ DOMAIN sa, removed |-> DOMAIN sa \ DOMAIN sb,
         modified |-> {t \in DOMAIN sa \cap DOMAIN sb : sa[t] # sb[t]}]

HistoryNext ==
    \/ \E p \in PatchIds : ReceivePatch(p)
    \/ MergePatches
    \/ \E v \in VersionIds, l \in Lamports, s \in PlanStates : record_version(v, l, s)

-----------------------------------------------------------------------------
(* The merge of a set of patches does not depend on the order in which     *)
(* they arrived, and the links it keeps have no cycle (patching.py 1-9,    *)
(* 208-335: "Deterministic merge by (lamport, actor_id)").                 *)
MergeIsDeterministic ==
    /\ \A m, n \in merges : m.of = n.of => m.merged = n.merged
    /\ \A m \in merges : \A e \in m.merged.edges : ~_detect_cycle(m.merged.edges \ {e}, e)

(* For versions recorded once: the difference of two, applied to the plan  *)
(* recorded for one, gives the plan recorded for the other, and a version  *)
(* found for a lamport is the last at or before it (versioning.py          *)
(* 203-341).                                                               *)
DiffRebuilds ==
    /\ \A a, b \in VersionIds : \A sa \in recorded[a], sb \in recorded[b] :
         recorded[a] = {sa} /\ recorded[b] = {sb} =>
           LET d == compute_diff(a, b)
               kept == (DOMAIN sa \cup d.added) \ d.removed
           IN  /\ kept = DOMAIN sb
               /\ \A t \in kept \ (d.added \cup d.modified) : sa[t] = sb[t]
    /\ \A l \in Lamports : Cardinality(get_version_at_lamport(l)) <= 1
=============================================================================
