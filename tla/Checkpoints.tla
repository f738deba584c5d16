----------------------------- MODULE Checkpoints ----------------------------
(***************************************************************************)
(* CheckpointManager with its files and cache, the Merkle tree over the    *)
(* operations of a checkpoint, and FastSync.  The cache is in memory; a    *)
(* crash may cut a file in the middle.                                     *)
(***************************************************************************)
EXTENDS Integers, Sequences, FiniteSets, SequencesExt, FiniteSetsExt

CONSTANTS
    Epochs,        \* epochs of checkpoints, below 100
    OpLists,       \* the lists of op hashes a checkpoint may cover
    NoResult,
    Cut            \* a file that a crash cut in the middle

ASSUME CheckpointAssumption ==
    /\ Epochs \subseteq 0..99
    /\ \A ops \in OpLists : Len(ops) \in Nat /\ DOMAIN ops = 1..Len(ops)

VARIABLES
    files,         \* epoch -> the checkpoint stored, or Cut
    cache,         \* CheckpointManager.checkpoints
    synced         \* the epoch fast_sync_node last returned

checkpointVars == <<files, cache, synced>>

CheckpointsInit ==
    /\ files = [e \in Epochs |-> NoResult]
    /\ cache = [e \in Epochs |-> NoResult]
    /\ synced = NoResult

-----------------------------------------------------------------------------
(* The hash of a pair is taken to be injective.                            *)
_hash_pair(left, right) == <<left, right>>

(* The level above: neighbours are hashed together, the last one with      *)
(* itself when it has none.                                                *)
NextLevel(level) ==
    [i \in 1..((Len(level) + 1) \div 2) |->
        _hash_pair(level[2 * i - 1], level[IF 2 * i <= Len(level) THEN 2 * i ELSE 2 * i - 1])]

(* MerkleTree.tree, from the leaves up to the first level with one hash; a *)
(* leaf hash is a 1-tuple.                                                 *)
build_tree(leaves) ==
    LET levels[n \in 0..Len(leaves)] ==
          IF n = 0 THEN [i \in 1..Len(leaves) |-> <<leaves[i]>>] ELSE NextLevel(levels[n - 1])
        height == CHOOSE n \in 0..Len(leaves) :
                    Len(levels[n]) = 1 /\ \A k \in 0..(n - 1) : Len(levels[k]) > 1
    IN  [n \in 1..(height + 1) |-> levels[n - 1]]

Root(leaves) == IF leaves = <<>> THEN <<>> ELSE Last(build_tree(leaves))[1]

(* current_index on the way up from leaf i, level by level.                *)
Way(tree, i) ==
    LET at[n \in 0..Len(tree)] == IF n = 0 THEN i - 1 ELSE at[n - 1] \div 2
    IN  at

(* The sibling of the hash at an index, or the hash itself at the end of   *)
(* a level.                                                                *)
SiblingHash(level, at) ==
    LET sibling == IF at % 2 = 0 THEN at + 1 ELSE at - 1
    IN  level[(IF sibling < Len(level) THEN sibling ELSE at) + 1]

(* Faulty variant: the sibling is always taken to be on the right.         *)
get_proof_RightOnly(tree, i) ==
    [n \in 1..(Len(tree) - 1) |->
        [hash |-> SiblingHash(tree[n], Way(tree, i)[n - 1]), is_right |-> TRUE]]

(* The siblings on the way up from leaf i, each with the side it is on.    *)
get_proof(tree, i) ==
    [n \in 1..(Len(tree) - 1) |->
        [hash |-> SiblingHash(tree[n], Way(tree, i)[n - 1]),
         is_right |-> Way(tree, i)[n - 1] % 2 = 0]]

verify_proof(leaf, proof, root) ==
    LET current_hash[n \in 0..Len(proof)] ==
          IF n = 0 THEN leaf
          ELSE IF proof[n].is_right THEN _hash_pair(current_hash[n - 1], proof[n].hash)
          ELSE _hash_pair(proof[n].hash, current_hash[n - 1])
    IN  root = current_hash[Len(proof)]

-----------------------------------------------------------------------------
(* A state summary is an empty dictionary or not; compress_state wraps it. *)
Summaries == {<<>>, <<"tasks">>}
compress_state(state) == <<"_compressed", state>>

(* create_checkpoint.  The ops are what the root commits to.               *)
create_checkpoint(e, state, ops) ==
    [epoch |-> e, merkle_root |-> Root(ops), state_summary |-> state, ops |-> ops]

(* The file is opened for writing in place.                                *)
store_checkpoint(cp) ==
    /\ files' = [files EXCEPT ![cp.epoch] = [cp EXCEPT !.state_summary = compress_state(@)]]
    /\ cache' = [cache EXCEPT ![cp.epoch] = cp]
    /\ UNCHANGED synced

(* A CHECKPOINT envelope is stored as it came, in place of one of its own, *)
(* signed or not, whatever its root: the ops do not come with it.  One     *)
(* without a summary is dropped.                                           *)
handle_checkpoint(e, state, root) ==
    /\ state # <<>>
    /\ store_checkpoint([epoch |-> e, merkle_root |-> root, state_summary |-> state, ops |-> <<>>])

(* What load_checkpoint reads: a summary that comes out empty leaves the   *)
(* compressed one in its place.                                            *)
Loaded(file) ==
    [file EXCEPT !.state_summary = IF @[2] = <<>> THEN @ ELSE @[2]]

get_checkpoint(e) ==
    /\ cache[e] = NoResult /\ files[e] \notin {NoResult, Cut}
    /\ cache' = [cache EXCEPT ![e] = Loaded(files[e])]
    /\ UNCHANGED <<files, synced>>

CrashInStore(e) ==
    /\ files' = [files EXCEPT ![e] = Cut]
    /\ cache' = [x \in Epochs |-> NoResult]
    /\ UNCHANGED synced

delete_checkpoint(e) ==
    /\ files[e] # NoResult
    /\ files' = [files EXCEPT ![e] = NoResult]
    /\ cache' = [cache EXCEPT ![e] = NoResult]
    /\ UNCHANGED synced

(* Files are compared by name, so that epoch 9 comes after epoch 10.       *)
Digits(e) == IF e < 10 THEN <<e>> ELSE <<e \div 10, e % 10>>
NameBefore(a, b) ==
    LET x == Digits(a)
        y == Digits(b)
    IN  \/ x[1] < y[1]
        \/ x[1] = y[1] /\ Len(y) = 2 /\ (Len(x) = 1 \/ x[2] < y[2])

LastByName == CHOOSE e \in Epochs : /\ files[e] # NoResult
                                    /\ \A f \in Epochs \ {e} : files[f] # NoResult => NameBefore(f, e)

(* The operations after the checkpoint are all later and in order.         *)
verify_continuity(e, after, ordered) == (\A x \in after : x > e) /\ (after # {} => ordered)

(* get_latest_checkpoint loads the file whose name sorts last, and answers *)
(* nothing when that one is cut.  An empty state ends the sync, and so do  *)
(* operations (their epochs here) that do not continue the checkpoint.     *)
fast_sync_node ==
    /\ \E e \in Epochs : files[e] # NoResult
    /\ IF files[LastByName] = Cut THEN synced' = NoResult /\ UNCHANGED cache
       ELSE LET cp == Loaded(files[LastByName])
            IN  /\ cache' = [cache EXCEPT ![cp.epoch] = cp]
                /\ \E after \in SUBSET Epochs, ordered \in BOOLEAN :
                     synced' = IF cp.state_summary # <<>> /\ verify_continuity(cp.epoch, after, ordered)
                               THEN cp.epoch ELSE NoResult
    /\ UNCHANGED files

CheckpointsNext ==
    \/ \E e \in Epochs, state \in Summaries, ops \in OpLists :
         \/ store_checkpoint(create_checkpoint(e, state, ops))
         \/ handle_checkpoint(e, state, Root(ops))
    \/ \E e \in Epochs : CrashInStore(e) \/ delete_checkpoint(e) \/ get_checkpoint(e)
    \/ fast_sync_node

-----------------------------------------------------------------------------
(* Whatever the length of the list, the proof of each operation that a     *)
(* checkpoint of this node covers leads to the root it stored, also when   *)
(* received ones take its place in between (merkle.py 38-171).             *)
ProofsVerify ==
    \A e \in Epochs : files[e] \notin {NoResult, Cut} =>
        LET cp == files[e]
        IN  \A i \in DOMAIN cp.ops :
              verify_proof(<<cp.ops[i]>>, get_proof(build_tree(cp.ops), i), cp.merkle_root)
=============================================================================
