----------------------------- MODULE TieredStorage --------------------------
(***************************************************************************)
(* TieredStorage and the PruningManager that moves old operations to cold  *)
(* storage.  The hot tier and the index are in memory; the op files and    *)
(* index.json are written in place, so that a crash may cut one.           *)
(***************************************************************************)
EXTENDS Integers, FiniteSets

CONSTANTS
    EpochOf,       \* plan op -> the epoch it belongs to; ops are numbered
    CurrentEpochs, \* the epochs at which pruning is asked for
    keep_epochs,
    Unreadable     \* an index.json that cannot be parsed

PlanOps == DOMAIN EpochOf

ASSUME StorageAssumption ==
    /\ keep_epochs \in Nat /\ PlanOps \subseteq Nat
    /\ \A index \in SUBSET PlanOps : Unreadable # index

VARIABLES
    hot,           \* TieredStorage.hot_tier
    cold,          \* the op files: "none", "whole" or "cut"
    cold_index,    \* the set in memory
    index_file,    \* index.json
    pruning,       \* prune_before_epoch in progress: ops to write, ids, moved
    added,         \* history: the ops ever added
    unsaved,       \* history: the cold ops that the index on disk does not have
    hit,           \* history: the ops that a stop or a failed rewrite hit
    dropped        \* history: the ops dropped though their write had failed

histVars == <<added, unsaved, hit, dropped>>

storageVars == <<hot, cold, cold_index, index_file, pruning, added, unsaved, hit, dropped>>

Idle == [active |-> FALSE, todo |-> {}, ids |-> {}, moved |-> 0]

StorageInit ==
    /\ hot = {}
    /\ cold = [o \in PlanOps |-> "none"]
    /\ cold_index = {}
    /\ index_file = {}
    /\ pruning = Idle
    /\ added = {} /\ unsaved = {} /\ hit = {} /\ dropped = {}

add_to_hot(o) ==
    /\ o \notin added
    /\ hot' = hot \cup {o}
    /\ added' = added \cup {o}
    /\ UNCHANGED <<cold, cold_index, index_file, pruning, unsaved, hit, dropped>>

get_from_hot(o) == o \in hot

_read_from_cold(o) == cold[o] = "whole"

get_op(o) == get_from_hot(o) \/ (o \in cold_index /\ _read_from_cold(o))

(* A write that fails leaves the op file cut, or as it was when it could   *)
(* not be opened.                                                          *)
_write_to_cold(o, outcome) == cold' = [cold EXCEPT ![o] = outcome]

(* prune_before_epoch is given the log, in the order of the ids: what is   *)
(* hot, and of what is not any longer as much as the caller still has.     *)
prune_before_epoch(current_epoch, log) ==
    LET ids == {o \in hot \cup log : EpochOf[o] < current_epoch - keep_epochs}
    IN  /\ ~pruning.active
        /\ pruning' = [active |-> TRUE, todo |-> ids, ids |-> ids, moved |-> 0]
        /\ UNCHANGED <<hot, cold, cold_index, index_file, histVars>>

(* The op that the loop of move_to_cold is at.                             *)
NextToMove == CHOOSE o \in pruning.todo : \A p \in pruning.todo : o <= p

(* Faulty variant: the op file is written and the index is not told.       *)
move_to_cold_NoIndex ==
    /\ pruning.active /\ pruning.todo # {}
    /\ _write_to_cold(NextToMove, "whole")
    /\ hot' = hot \ {NextToMove}
    /\ pruning' = [pruning EXCEPT !.todo = @ \ {NextToMove}, !.moved = @ + 1]
    /\ UNCHANGED <<cold_index, index_file, histVars>>

(* One round of the loop of move_to_cold.  An op that is written again is  *)
(* no longer lost; one that was cold only is lost when rewriting it fails. *)
move_to_cold ==
    LET o == NextToMove IN
    /\ pruning.active /\ pruning.todo # {}
    /\ \/ /\ _write_to_cold(o, "whole")
          /\ hot' = hot \ {o}
          /\ cold_index' = cold_index \cup {o}
          /\ pruning' = [pruning EXCEPT !.todo = @ \ {o}, !.moved = @ + 1]
          /\ unsaved' = unsaved \cup ({o} \ cold_index)
          /\ hit' = hit \ {o} /\ dropped' = dropped \ {o}
       \/ /\ \/ _write_to_cold(o, "cut") /\ hit' = hit \cup ({o} \ hot)
             \/ UNCHANGED <<cold, hit>>
          /\ pruning' = [pruning EXCEPT !.todo = @ \ {o}]
          /\ UNCHANGED <<hot, cold_index, unsaved, dropped>>
    /\ UNCHANGED <<index_file, added>>

(* The first n of a list of ids.                                           *)
FirstOf(ids, n) == {o \in ids : Cardinality({p \in ids : p < o}) < n}

prune_from_hot(ids) ==
    /\ hot' = hot \ ids
    /\ dropped' = dropped \cup (hot \cap ids)

(* Faulty variant: the index is saved of what this prune moved only.       *)
_save_cold_index_Fresh ==
    /\ index_file' = cold_index \cap pruning.ids
    /\ unsaved' = {}

(* A save that fails is logged and forgotten: it leaves index.json as it   *)
(* was or, once it was opened for writing, cut.                            *)
_save_cold_index ==
    \/ index_file' = cold_index /\ unsaved' = {}
    \/ UNCHANGED <<index_file, unsaved>>
    \/ index_file' = Unreadable /\ unsaved' = cold_index

(* The end of move_to_cold and of prune_before_epoch: the index is saved,  *)
(* and as many ids as were moved are dropped from the hot tier, from the   *)
(* front of the list.                                                      *)
FinishPrune ==
    /\ pruning.active /\ pruning.todo = {}
    /\ _save_cold_index
    /\ prune_from_hot(FirstOf(pruning.ids, pruning.moved))
    /\ pruning' = Idle
    /\ UNCHANGED <<cold, cold_index, added, hit>>

(* What index.json gives a process that starts.                            *)
_load_cold_index == IF index_file' = Unreadable THEN {} ELSE index_file'

(* The process stops and starts: memory is lost and index.json is loaded.  *)
(* A stop while a file is written cuts that file.  What was hot is lost,   *)
(* what was cold is lost when its file was cut or the index on disk does   *)
(* not have it.                                                            *)
RestartStorage ==
    /\ \E torn \in SUBSET {o \in pruning.todo : o = NextToMove},
          tornIndex \in {b \in BOOLEAN : b => pruning.active /\ pruning.todo = {}} :
         /\ cold' = [o \in PlanOps |-> IF o \in torn THEN "cut" ELSE cold[o]]
         /\ index_file' = IF tornIndex THEN Unreadable ELSE index_file
         /\ hit' = hit \cup hot \cup torn \cup (IF tornIndex THEN cold_index ELSE unsaved)
    /\ cold_index' = _load_cold_index
    /\ unsaved' = {}
    /\ hot' = {} /\ pruning' = Idle
    /\ UNCHANGED <<added, dropped>>

StorageNext ==
    \/ \E o \in PlanOps : add_to_hot(o)
    \/ \E e \in CurrentEpochs, log \in SUBSET added : prune_before_epoch(e, log)
    \/ move_to_cold \/ FinishPrune \/ RestartStorage

-----------------------------------------------------------------------------
(* An operation that was added can be read, hot or cold, also in the       *)
(* middle of a prune, after failed writes and saves and after restarts,    *)
(* unless it was hot when the process stopped, its file was cut when it    *)
(* was cold already, the process stopped before an index that has it was   *)
(* saved, or prune_from_hot dropped it after its write had failed          *)
(* (pruning.py 110-142, 166-185, 266-296, 321-359).                        *)
UnhitOpsReadable ==
    \A o \in added \ (hit \cup dropped) : get_op(o)

=============================================================================
