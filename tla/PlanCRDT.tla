------------------------------ MODULE PlanCRDT ------------------------------
(***************************************************************************)
(* AutomergePlanStore at several replicas, the views over its document and *)
(* the SyncManager that exchanges documents.  An operation reaches a       *)
(* replica by append_op, in any order, or inside a peer's saved document,  *)
(* which may be merged late and more than once.                            *)
(***************************************************************************)
EXTENDS Integers, Sequences, FiniteSets, SequencesExt

CONSTANTS
    Replicas,
    OpIds,
    OpOf,         \* op id -> [op_type, lamport, task_id, and its payload]
    PlanTasks,
    NoTask,       \* a task id that the document does not hold
    MaxSaved      \* bound on the saved documents

ASSUME CRDTAssumption ==
    /\ DOMAIN OpOf = OpIds
    /\ \A o \in OpIds : OpOf[o].lamport \in Nat /\ OpOf[o].task_id \in PlanTasks
    /\ MaxSaved \in Nat

VARIABLES
    doc,       \* doc[r]: the CRDTDocument, with how its state was last computed
    views,     \* views[r]: what task_view and graph_view were built from
    saved,     \* the results of get_save_data, [from, doc]
    peers      \* peers[r]: SyncManager.peers, "absent" or the sync_state

crdtVars == <<doc, views, saved, peers>>

(* CRDTDocument as _init_schema leaves it.  replayed is history: the state *)
(* was rebuilt from the sorted operations.                                 *)
EmptyDoc == [tasks |-> [t \in PlanTasks |-> NoTask], edges |-> {},
             annotations |-> [t \in PlanTasks |-> NoTask], ops |-> <<>>, replayed |-> TRUE]

ViewOf(d) == [tasks |-> d.tasks, edges |-> d.edges]

(* The replicas start with their peers registered.                         *)
CRDTInit ==
    /\ doc = [r \in Replicas |-> EmptyDoc]
    /\ views = [r \in Replicas |-> ViewOf(EmptyDoc)]
    /\ saved = {}
    /\ peers = [r \in Replicas |-> [q \in Replicas |-> IF q = r THEN "absent" ELSE "idle"]]

(* Adding a task that exists changes nothing; a state is taken when its    *)
(* lamport is larger than the last one, and creates the task otherwise; a  *)
(* link is added to a set; an annotation is taken as a state is.           *)
_apply_to_state(d, op) ==
    LET t == op.task_id
        newer(old) == old = NoTask \/ op.lamport > old.last_lamport
    IN  CASE op.op_type = "ADD_TASK" /\ d.tasks[t] = NoTask ->
               [d EXCEPT !.tasks[t] = [type |-> "typed", state |-> "DRAFT",
                                       last_lamport |-> op.lamport]]
          [] op.op_type = "STATE" /\ d.tasks[t] = NoTask ->
               [d EXCEPT !.tasks[t] = [type |-> "None", state |-> op.state,
                                       last_lamport |-> op.lamport]]
          [] op.op_type = "STATE" /\ d.tasks[t] # NoTask /\ newer(d.tasks[t]) ->
               [d EXCEPT !.tasks[t].state = op.state, !.tasks[t].last_lamport = op.lamport]
          [] op.op_type = "LINK" -> [d EXCEPT !.edges = @ \cup {<<op.parent, op.child>>}]
          [] op.op_type = "ANNOTATE" /\ newer(d.annotations[t]) ->
               [d EXCEPT !.annotations[t] = [value |-> op.value, last_lamport |-> op.lamport]]
          [] OTHER -> d

(* The document and its views.                                             *)
Update(r, d) ==
    /\ doc' = [doc EXCEPT ![r] = d]
    /\ views' = [views EXCEPT ![r] = ViewOf(d)]

append_op(r, o) ==
    /\ o \notin ToSet(doc[r].ops)
    /\ Update(r, [_apply_to_state(doc[r], OpOf[o])
                    EXCEPT !.ops = Append(@, o), !.replayed = FALSE])
    /\ UNCHANGED <<saved, peers>>

(* Where an operation is before the sort: the own ones, then the new ones. *)
Place(mine, theirs, o) ==
    IF o \in ToSet(mine) THEN CHOOSE i \in DOMAIN mine : mine[i] = o
    ELSE Len(mine) + (CHOOSE i \in DOMAIN theirs : theirs[i] = o)

(* Faulty variant: the operations are replayed as they came.               *)
Sooner_Unsorted(mine, theirs, o, p) == Place(mine, theirs, o) < Place(mine, theirs, p)

(* list.sort is stable: equal lamports keep their places.                  *)
Sooner(mine, theirs, o, p) ==
    \/ OpOf[o].lamport < OpOf[p].lamport
    \/ OpOf[o].lamport = OpOf[p].lamport /\ Place(mine, theirs, o) < Place(mine, theirs, p)

(* The union of two logs: the n-th operation is the one that n - 1 others  *)
(* come before.                                                            *)
SortedByLamport(mine, theirs) ==
    LET all == ToSet(mine) \cup ToSet(theirs)
    IN  [n \in 1..Cardinality(all) |->
            CHOOSE o \in all : Cardinality({p \in all : Sooner(mine, theirs, p, o)}) = n - 1]

_rebuild_state_from_ops(ops) ==
    LET after[n \in 0..Len(ops)] ==
          IF n = 0 THEN EmptyDoc ELSE _apply_to_state(after[n - 1], OpOf[ops[n]])
        d == after[Len(ops)]
    IN  [tasks |-> d.tasks, edges |-> d.edges, annotations |-> d.annotations, ops |-> ops,
         replayed |-> TRUE]

(* merge_with_peer: the union of the operations, sorted and replayed.      *)
Merged(d, peer) == _rebuild_state_from_ops(SortedByLamport(d.ops, peer.ops))

get_save_data(r) ==
    /\ Cardinality(saved) < MaxSaved
    /\ saved' = saved \cup {[from |-> r, doc |-> doc[r]]}
    /\ UNCHANGED <<doc, views, peers>>

(* A replica that restarts loads a document it saved.  The views stay the  *)
(* ones built before.                                                      *)
load_from_data(r) ==
    /\ \E s \in saved : s.from = r /\ doc' = [doc EXCEPT ![r] = s.doc]
    /\ UNCHANGED <<views, saved, peers>>

register_peer(r, q) ==
    /\ r # q
    /\ peers[r][q] = "absent"
    /\ peers' = [peers EXCEPT ![r][q] = "idle"]
    /\ UNCHANGED <<doc, views, saved>>

unregister_peer(r, q) ==
    /\ peers[r][q] # "absent"
    /\ peers' = [peers EXCEPT ![r][q] = "absent"]
    /\ UNCHANGED <<doc, views, saved>>

(* The callback returns a document the peer saved, or nothing or an        *)
(* exception, which leaves the peer in error.                              *)
sync_with_peer(r, q) ==
    /\ peers[r][q] # "absent"
    /\ \/ \E s \in saved :
            /\ s.from = q
            /\ Update(r, Merged(doc[r], s.doc))
            /\ peers' = [peers EXCEPT ![r][q] = "idle"]
       \/ /\ peers' = [peers EXCEPT ![r][q] = "error"]
          /\ UNCHANGED <<doc, views>>
    /\ UNCHANGED saved

(* incremental_sync merges the changes that came with the call and answers *)
(* with the whole document.                                                *)
incremental_sync(r, q) ==
    /\ peers[r][q] # "absent"
    /\ Cardinality(saved) < MaxSaved
    /\ \E s \in saved :
         /\ s.from = q
         /\ Update(r, Merged(doc[r], s.doc))
         /\ saved' = saved \cup {[from |-> r, doc |-> Merged(doc[r], s.doc)]}
    /\ UNCHANGED peers

CRDTNext ==
    \/ \E r \in Replicas, o \in OpIds : append_op(r, o)
    \/ \E r \in Replicas : get_save_data(r) \/ load_from_data(r)
    \/ \E r, q \in Replicas : \/ register_peer(r, q) \/ unregister_peer(r, q)
                              \/ sync_with_peer(r, q) \/ incremental_sync(r, q)

-----------------------------------------------------------------------------
(* Two replicas that hold the same operations and have rebuilt their state *)
(* from them are in the same state, whatever the order in which operations *)
(* and documents arrived (automerge_store.py 266-326: "Replay all ops to   *)
(* rebuild state deterministically").                                      *)
MergedReplicasAgree ==
    \A r, q \in Replicas :
        /\ doc[r].replayed /\ doc[q].replayed
        /\ ToSet(doc[r].ops) = ToSet(doc[q].ops)
        => /\ doc[r].tasks = doc[q].tasks
           /\ doc[r].edges = doc[q].edges
           /\ doc[r].annotations = doc[q].annotations
=============================================================================
