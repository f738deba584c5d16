-------------------------- MODULE PlanPlatformProof -------------------------
(***************************************************************************)
(* Proofs about PlanPlatform, for any needs, proposals, lamports and times,*)
(* any log of operations and any plan states.                              *)
(***************************************************************************)
EXTENDS PlanPlatform, FiniteSetTheorems, WellFoundedInduction, TLAPS

USE DEF Sides, Other

PartitionTypeOK ==
    /\ side_epoch \in [Sides -> Nat]
    /\ decided \in [Sides -> [Needs -> Decisions \cup {NoDecide}]]
    /\ verdict \in [Sides -> [Needs -> {"none", "local", "remote"}]]

(* A side holds its own decision, or the one the other side holds too: a   *)
(* DECIDE is sent when it is made, and replaces nothing.                   *)
OwnOrShared ==
    \A s \in Sides, n \in Needs :
        decided[s][n] # NoDecide =>
          \/ decided[s][n].decider_id = s
          \/ decided[Other(s)][n] = decided[s][n]

(* A verdict is what the rule says about the decisions that both sides     *)
(* still hold.                                                             *)
VerdictsFollowRule ==
    \A s \in Sides, n \in Needs :
        verdict[s][n] # "none" =>
          /\ n \in Conflicts(s)
          /\ verdict[s][n] = highest_epoch_wins(decided[s][n], decided[Other(s)][n])

PartitionInv == PartitionTypeOK /\ OwnOrShared /\ VerdictsFollowRule

(* Of two decisions of different deciders, the rule prefers the same one,  *)
(* whichever is called local: epoch, lamport and decider order them.       *)
LEMMA RuleIsTotal ==
    ASSUME NEW d \in Decisions, NEW e \in Decisions, d.decider_id # e.decider_id
    PROVE  /\ highest_epoch_wins(d, e) \in {"local", "remote"}
           /\ highest_epoch_wins(d, e) = "local" <=> highest_epoch_wins(e, d) = "remote"
<1>1. /\ d.epoch \in Nat /\ d.lamport \in Nat /\ d.decider_id \in Nat
      /\ e.epoch \in Nat /\ e.lamport \in Nat /\ e.decider_id \in Nat
  BY DEF Decisions
<1> QED  BY <1>1 DEF highest_epoch_wins

(* In a conflict each side holds a decision of its own.                    *)
LEMMA ConflictsAreOwn ==
    ASSUME PartitionInv, NEW s \in Sides, NEW n \in Conflicts(s)
    PROVE  /\ decided[s][n] \in Decisions /\ decided[Other(s)][n] \in Decisions
           /\ decided[s][n].decider_id = s /\ decided[Other(s)][n].decider_id = Other(s)
<1>1. /\ n \in Needs /\ Other(s) \in Sides /\ Other(Other(s)) = s
      /\ decided[s][n] # NoDecide /\ decided[Other(s)][n] # NoDecide
      /\ decided[s][n] # decided[Other(s)][n]
  BY DEF Conflicts
<1> QED  BY <1>1 DEF PartitionInv, PartitionTypeOK, OwnOrShared

LEMMA PartitionInitially == PartitionInit => PartitionInv
  BY DEF PartitionInit, PartitionInv, PartitionTypeOK, OwnOrShared, VerdictsFollowRule

LEMMA DecideKept ==
    ASSUME PartitionInv,
           NEW s \in Sides, NEW n \in Needs, NEW p \in Proposed, NEW l \in Stamps,
           Decide(s, n, p, l)
    PROVE  PartitionInv'
<1> DEFINE d == [epoch |-> side_epoch[s], lamport |-> l, decider_id |-> s, proposal_id |-> p]
<1> USE DEF PartitionInv
<1>1. d \in Decisions /\ d # NoDecide
  BY PartitionAssumption DEF PartitionAssumption, PartitionTypeOK, Decisions
<1>2. /\ decided[s][n] = NoDecide
      /\ decided' = [x \in Sides |-> IF x = s \/ (connected /\ decided[x][n] = NoDecide)
                                     THEN [decided[x] EXCEPT ![n] = d] ELSE decided[x]]
      /\ UNCHANGED <<side_epoch, verdict>>
  BY DEF Decide
<1>3. /\ decided'[s][n] = d
      /\ decided'[Other(s)][n] = d \/ decided'[Other(s)][n] = decided[Other(s)][n]
      /\ \A x \in Sides, m \in Needs : m # n => decided'[x][m] = decided[x][m]
      /\ d.decider_id = s
  BY <1>2 DEF PartitionTypeOK
<1>4. PartitionTypeOK'
  BY <1>1, <1>2 DEF PartitionTypeOK
<1>5. OwnOrShared'
  <2> SUFFICES ASSUME NEW x \in Sides, NEW m \in Needs, decided'[x][m] # NoDecide
               PROVE  \/ decided'[x][m].decider_id = x
                      \/ decided'[Other(x)][m] = decided'[x][m]
    BY DEF OwnOrShared
  <2>1. CASE m # n
    <3>1. decided'[x][m] = decided[x][m] /\ decided'[Other(x)][m] = decided[Other(x)][m]
      BY <1>3, <2>1
    <3> QED  BY <3>1 DEF OwnOrShared
  <2>2. CASE m = n /\ x = s
    BY <1>3, <2>2
  <2>3. CASE m = n /\ x = Other(s)
    <3>1. CASE decided'[x][n] = d
      BY <1>3, <2>3, <3>1
    <3>2. CASE decided'[x][n] = decided[x][n] /\ decided'[x][n] # d
      <4>1. decided[s][n] # decided[x][n]
        BY <1>2, <2>3, <3>2
      <4>2. Other(x) = s
        BY <2>3
      <4> QED  BY <2>3, <3>2, <4>1, <4>2 DEF OwnOrShared
    <3> QED  BY <1>3, <2>3, <3>1, <3>2
  <2> QED  BY <2>1, <2>2, <2>3
<1>6. VerdictsFollowRule'
  <2> SUFFICES ASSUME NEW x \in Sides, NEW m \in Needs, verdict[x][m] # "none"
               PROVE  /\ m \in Conflicts(x)'
                      /\ verdict[x][m] = highest_epoch_wins(decided'[x][m], decided'[Other(x)][m])
    BY <1>2 DEF VerdictsFollowRule, highest_epoch_wins
  <2>1. m \in Conflicts(x) /\ m # n
    BY <1>2 DEF VerdictsFollowRule, Conflicts
  <2>2. decided'[x][m] = decided[x][m] /\ decided'[Other(x)][m] = decided[Other(x)][m]
    BY <1>3, <2>1
  <2> QED  BY <2>1, <2>2 DEF VerdictsFollowRule, Conflicts
<1> QED  BY <1>4, <1>5, <1>6

LEMMA HeartbeatKept ==
    ASSUME PartitionInv, NEW s \in Sides, heartbeat(s)
    PROVE  PartitionInv'
<1> USE DEF PartitionInv
<1>1. UNCHANGED decided
  BY DEF heartbeat
<1>2. OwnOrShared'
  BY <1>1 DEF OwnOrShared
<1>3. CASE ~partitioned[s]
  <2>1. UNCHANGED <<verdict, side_epoch>>
    BY <1>3 DEF heartbeat
  <2> QED  BY <1>1, <1>2, <2>1
           DEF PartitionTypeOK, VerdictsFollowRule, Conflicts, highest_epoch_wins
<1>4. CASE partitioned[s]
  <2>1. /\ side_epoch' = [side_epoch EXCEPT ![s] = @ + 1]
        /\ verdict' = [verdict EXCEPT ![s] = [n \in Needs |->
              IF n \in Conflicts(s) THEN highest_epoch_wins(decided[s][n], decided[Other(s)][n])
              ELSE verdict[s][n]]]
    BY <1>4 DEF heartbeat, merge_on_heal, handle_reconcile
  <2>2. \A n \in Conflicts(s) :
          highest_epoch_wins(decided[s][n], decided[Other(s)][n]) \in {"local", "remote"}
    BY ConflictsAreOwn, RuleIsTotal
  <2>3. PartitionTypeOK'
    BY <1>1, <2>1, <2>2 DEF PartitionTypeOK
  <2>4. VerdictsFollowRule'
    <3> SUFFICES ASSUME NEW x \in Sides, NEW m \in Needs, verdict'[x][m] # "none"
                 PROVE  /\ m \in Conflicts(x)
                        /\ verdict'[x][m] = highest_epoch_wins(decided[x][m], decided[Other(x)][m])
      BY <1>1 DEF VerdictsFollowRule, Conflicts, highest_epoch_wins
    <3>1. \/ verdict'[x][m] = verdict[x][m]
          \/ x = s /\ m \in Conflicts(s)
             /\ verdict'[x][m] = highest_epoch_wins(decided[s][m], decided[Other(s)][m])
      BY <2>1 DEF PartitionTypeOK
    <3> QED  BY <3>1 DEF VerdictsFollowRule
  <2> QED  BY <1>2, <2>3, <2>4
<1> QED  BY <1>3, <1>4

LEMMA PartitionKept == PartitionInv /\ [PartitionNext]_partitionVars => PartitionInv'
<1> SUFFICES ASSUME PartitionInv, [PartitionNext]_partitionVars PROVE PartitionInv'
  OBVIOUS
<1>1. CASE UNCHANGED <<side_epoch, decided, verdict>>
  BY <1>1 DEF PartitionInv, PartitionTypeOK, OwnOrShared, VerdictsFollowRule, Conflicts,
              highest_epoch_wins
<1>2. CASE Tick \/ Split \/ \E s \in Sides : detect_partition(s)
  BY <1>1, <1>2 DEF Tick, Split, detect_partition
<1>3. CASE UNCHANGED partitionVars
  BY <1>1, <1>3 DEF partitionVars
<1> QED  BY <1>2, <1>3, DecideKept, HeartbeatKept DEF PartitionNext

LEMMA PartitionInvSuffices == PartitionInv => PartitionsAgree
<1> SUFFICES ASSUME PartitionInv, NEW n \in Needs, NEW s \in Sides
             PROVE  /\ verdict[s][n] = "local" => verdict[Other(s)][n] # "local"
                    /\ verdict[s][n] = "remote" => verdict[Other(s)][n] # "remote"
  BY DEF PartitionsAgree
<1>1. CASE verdict[s][n] # "none" /\ verdict[Other(s)][n] # "none"
  <2>1. Other(s) \in Sides /\ Other(Other(s)) = s /\ Other(s) # s
    OBVIOUS
  <2>2. /\ n \in Conflicts(s)
        /\ verdict[s][n] = highest_epoch_wins(decided[s][n], decided[Other(s)][n])
        /\ verdict[Other(s)][n] = highest_epoch_wins(decided[Other(s)][n], decided[s][n])
    BY <1>1, <2>1 DEF PartitionInv, VerdictsFollowRule
  <2>3. /\ decided[s][n] \in Decisions /\ decided[Other(s)][n] \in Decisions
        /\ decided[s][n].decider_id # decided[Other(s)][n].decider_id
    BY <2>1, <2>2, ConflictsAreOwn
  <2> QED  BY <2>2, <2>3, RuleIsTotal
<1> QED  BY <1>1

(* However a network splits and heals, and whatever is decided in between, *)
(* two sides that merged the same conflict name the same winner (merge.py  *)
(* 39-120).                                                                *)
THEOREM PartitionsAlwaysAgree == Spec => []PartitionsAgree
<1>1. Init => PartitionInv
  BY PartitionInitially DEF Init
<1>2. PartitionInv /\ [Next]_vars => PartitionInv'
  <2>1. [Next]_vars => [PartitionNext]_partitionVars
    BY DEF Next, vars
  <2> QED  BY <2>1, PartitionKept
<1> QED  BY <1>1, <1>2, PartitionInvSuffices, PTL DEF Spec

-----------------------------------------------------------------------------
(* A set of naturals has a least member.                                   *)
LEMMA LeastNumber ==
    ASSUME NEW T \in SUBSET Nat, T # {}
    PROVE  \E m \in T : \A k \in T : m <= k
<1>1. PICK m \in T : \A k \in T : ~(<<k, m>> \in OpToRel(<, Nat))
  BY WFMin, NatLessThanWellFounded, Zenon
<1>2. OpToRel(<, Nat) = {ss \in Nat \X Nat : ss[1] < ss[2]}
  BY Zenon DEF OpToRel
<1>3. ASSUME NEW k \in T, k < m PROVE <<k, m>> \in {ss \in Nat \X Nat : ss[1] < ss[2]}
  BY <1>3
<1>4. \A k \in T : ~(k < m)
  BY <1>1, <1>2, <1>3, Zenon
<1> QED  BY <1>4

(* What holds of the first round and, with a round, of the next one, holds *)
(* of all: P is the set of the rounds of which it holds.                   *)
LEMMA EveryRound ==
    ASSUME NEW C \in Nat, NEW P, 0 \in P, \A n \in 0..C : n \in P /\ n < C => n + 1 \in P
    PROVE  0..C \subseteq P
<1> DEFINE bad == {n \in 0..C : n \notin P}
<1>1. ASSUME bad # {} PROVE FALSE
  <2>1. bad \in SUBSET Nat
    OBVIOUS
  <2>2. PICK m \in bad : \A k \in bad : m <= k
    <3> HIDE DEF bad
    <3> QED  BY <1>1, <2>1, LeastNumber
  <2>3. m \in 0..C /\ m \notin P /\ m # 0
    BY <2>2
  <2>4. m - 1 \in 0..C /\ ~(m <= m - 1) /\ m - 1 < C /\ (m - 1) + 1 = m
    BY <2>3
  <2>5. m - 1 \notin bad
    <3> HIDE DEF bad
    <3> QED  BY <2>2, <2>4
  <2>6. m - 1 \in P
    BY <2>4, <2>5
  <2> QED  BY <2>3, <2>4, <2>6
<1> QED  BY <1>1

(* Tiered storage.  The op file of o is whole and o is in the index.       *)
InCold(o) == o \in cold_index /\ cold[o] = "whole"

StorageTypeOK ==
    /\ hot \subseteq PlanOps /\ added \subseteq PlanOps
    /\ cold_index \subseteq PlanOps
    /\ cold \in [PlanOps -> {"none", "whole", "cut"}]
    /\ pruning \in [active : BOOLEAN, todo : SUBSET PlanOps, ids : SUBSET PlanOps, moved : Nat]

(* The index on disk can be read and has every cold op that was not moved  *)
(* since it was last saved.                                                *)
IndexSaved == \A o \in cold_index \ unsaved : index_file # Unreadable /\ o \in index_file

(* The index on disk, when it can be read, names ops.                      *)
IndexNamesOps == index_file = Unreadable \/ index_file \subseteq PlanOps

AddedReadable == \A o \in added : o \in hit \cup dropped \/ o \in hot \/ InCold(o)

StorageInv == StorageTypeOK /\ IndexNamesOps /\ IndexSaved /\ AddedReadable

(* Nothing was added.                                                      *)
LEMMA StorageInitially == StorageInit => StorageInv
<1> SUFFICES ASSUME StorageInit PROVE StorageInv
  OBVIOUS
<1>1. /\ pruning = [active |-> FALSE, todo |-> {}, ids |-> {}, moved |-> 0]
      /\ cold \in [PlanOps -> {"none", "whole", "cut"}]
      /\ hot = {} /\ added = {} /\ cold_index = {} /\ index_file = {}
  BY DEF StorageInit, Idle
<1>2. pruning \in [active : BOOLEAN, todo : SUBSET PlanOps, ids : SUBSET PlanOps, moved : Nat]
  BY <1>1
<1> QED  BY <1>1, <1>2 DEF StorageInv, StorageTypeOK, IndexNamesOps, IndexSaved, AddedReadable

(* An op file is written, or the write fails.                              *)
LEMMA MoveKept == ASSUME StorageInv, move_to_cold PROVE StorageInv'
<1>1. PICK o \in pruning.todo : o = NextToMove
  <2>1. pruning.todo \in SUBSET Nat /\ pruning.todo # {}
    BY StorageAssumption DEF move_to_cold, StorageInv, StorageTypeOK, StorageAssumption
  <2>2. \E p \in pruning.todo : \A q \in pruning.todo : p <= q
    BY <2>1, LeastNumber
  <2> QED  BY <2>2 DEF NextToMove
<1>2. o \in PlanOps
  BY <1>1 DEF StorageInv, StorageTypeOK
<1>3. pruning' \in [active : BOOLEAN, todo : SUBSET PlanOps, ids : SUBSET PlanOps, moved : Nat]
  <2>1. pruning \in [active : BOOLEAN, todo : SUBSET PlanOps, ids : SUBSET PlanOps, moved : Nat]
    BY DEF StorageInv, StorageTypeOK
  <2>2. PICK t \in SUBSET PlanOps : t = pruning.todo \ {o}
    BY <2>1
  <2>3. CASE pruning' = [pruning EXCEPT !.todo = t]
    BY <2>1, <2>3
  <2>4. CASE pruning' = [pruning EXCEPT !.todo = t, !.moved = pruning.moved + 1]
    <3>1. pruning.moved + 1 \in Nat
      BY <2>1
    <3> QED  BY <2>1, <2>4, <3>1
  <2> QED  BY <1>1, <2>2, <2>3, <2>4 DEF move_to_cold
<1>4. CASE /\ cold' = [cold EXCEPT ![o] = "whole"] /\ hot' = hot \ {o}
           /\ cold_index' = cold_index \cup {o} /\ unsaved' = unsaved \cup ({o} \ cold_index)
           /\ hit' = hit \ {o} /\ dropped' = dropped \ {o}
           /\ UNCHANGED <<index_file, added>>
  <2>1. StorageTypeOK' /\ IndexNamesOps'
    BY <1>2, <1>3, <1>4 DEF StorageInv, StorageTypeOK, IndexNamesOps
  <2>2. IndexSaved'
    BY <1>4 DEF StorageInv, IndexSaved
  <2>3. AddedReadable'
    BY <1>2, <1>4 DEF StorageInv, StorageTypeOK, AddedReadable, InCold
  <2> QED  BY <2>1, <2>2, <2>3 DEF StorageInv
<1>5. CASE /\ \/ cold' = [cold EXCEPT ![o] = "cut"] /\ hit' = hit \cup ({o} \ hot)
              \/ UNCHANGED <<cold, hit>>
           /\ UNCHANGED <<hot, cold_index, unsaved, dropped, index_file, added>>
  <2>1. StorageTypeOK' /\ IndexNamesOps'
    BY <1>2, <1>3, <1>5 DEF StorageInv, StorageTypeOK, IndexNamesOps
  <2>2. IndexSaved'
    BY <1>5 DEF StorageInv, IndexSaved
  <2>3. AddedReadable'
    BY <1>2, <1>5 DEF StorageInv, StorageTypeOK, AddedReadable, InCold
  <2> QED  BY <2>1, <2>2, <2>3 DEF StorageInv
<1> QED  BY <1>1, <1>4, <1>5 DEF move_to_cold, _write_to_cold

(* Memory is lost and the index is read again.                             *)
LEMMA RestartKept == ASSUME StorageInv, RestartStorage PROVE StorageInv'
<1>1. PICK torn \in SUBSET {o \in pruning.todo : o = NextToMove},
           tornIndex \in {b \in BOOLEAN : b => pruning.active /\ pruning.todo = {}} :
        /\ cold' = [o \in PlanOps |-> IF o \in torn THEN "cut" ELSE cold[o]]
        /\ index_file' = IF tornIndex THEN Unreadable ELSE index_file
        /\ hit' = hit \cup hot \cup torn \cup (IF tornIndex THEN cold_index ELSE unsaved)
  BY DEF RestartStorage
<1>2. /\ pruning' = [active |-> FALSE, todo |-> {}, ids |-> {}, moved |-> 0]
      /\ index_file' = Unreadable => cold_index' = {}
      /\ index_file' # Unreadable => cold_index' = index_file'
      /\ hot' = {} /\ unsaved' = {} /\ added' = added /\ dropped' = dropped
  BY DEF RestartStorage, _load_cold_index, Idle
<1>3. pruning' \in [active : BOOLEAN, todo : SUBSET PlanOps, ids : SUBSET PlanOps, moved : Nat]
  BY <1>2
<1>4. IndexNamesOps'
  <2>1. CASE tornIndex
    BY <1>1, <2>1 DEF IndexNamesOps
  <2>2. CASE ~tornIndex
    BY <1>1, <2>2 DEF StorageInv, IndexNamesOps
  <2> QED  BY <2>1, <2>2
<1>5. StorageTypeOK'
  <2>1. cold_index' \subseteq PlanOps
    BY <1>2, <1>4 DEF IndexNamesOps
  <2>2. cold' \in [PlanOps -> {"none", "whole", "cut"}]
    BY <1>1 DEF StorageInv, StorageTypeOK
  <2> QED  BY <1>2, <1>3, <2>1, <2>2 DEF StorageInv, StorageTypeOK
<1>6. IndexSaved'
  BY <1>2 DEF IndexSaved
<1>7. AddedReadable'
  <2> SUFFICES ASSUME NEW o \in added, o \notin hit', o \notin dropped PROVE InCold(o)'
    BY <1>2 DEF AddedReadable
  <2>1. o \in PlanOps /\ o \notin hit /\ o \notin hot /\ o \notin torn
    BY <1>1 DEF StorageInv, StorageTypeOK
  <2>2. o \in cold_index /\ cold[o] = "whole"
    BY <2>1 DEF StorageInv, AddedReadable, InCold
  <2>3. ~tornIndex /\ o \notin unsaved
    BY <1>1, <2>2
  <2>4. index_file' = index_file /\ index_file # Unreadable /\ o \in index_file
    BY <1>1, <2>2, <2>3 DEF StorageInv, IndexSaved
  <2> QED  BY <1>1, <1>2, <2>1, <2>2, <2>4 DEF InCold
<1> QED  BY <1>4, <1>5, <1>6, <1>7 DEF StorageInv

(* A prune ends: the index is saved, or the save fails, and ids are        *)
(* dropped from the hot tier.                                              *)
LEMMA FinishKept == ASSUME StorageInv, FinishPrune PROVE StorageInv'
<1>1. PICK ids : /\ hot' = hot \ ids /\ dropped' = dropped \cup (hot \cap ids)
                 /\ UNCHANGED <<cold, cold_index, added, hit>>
                 /\ pruning' = [active |-> FALSE, todo |-> {}, ids |-> {}, moved |-> 0]
  BY DEF FinishPrune, prune_from_hot, Idle
<1>2. pruning' \in [active : BOOLEAN, todo : SUBSET PlanOps, ids : SUBSET PlanOps, moved : Nat]
  BY <1>1
<1>3. \/ index_file' = cold_index /\ unsaved' = {}
      \/ UNCHANGED <<index_file, unsaved>>
      \/ index_file' = Unreadable /\ unsaved' = cold_index
  BY DEF FinishPrune, _save_cold_index
<1>4. cold_index # Unreadable
  BY StorageAssumption DEF StorageAssumption, StorageInv, StorageTypeOK
<1>5. StorageTypeOK' /\ IndexNamesOps'
  BY <1>1, <1>2, <1>3 DEF StorageInv, StorageTypeOK, IndexNamesOps
<1>6. IndexSaved'
  BY <1>1, <1>3, <1>4 DEF StorageInv, IndexSaved
<1>7. AddedReadable'
  BY <1>1 DEF StorageInv, AddedReadable, InCold
<1> QED  BY <1>5, <1>6, <1>7 DEF StorageInv

(* Every step of the storage and of its pruning keeps StorageInv.          *)
LEMMA StorageKept == StorageInv /\ [StorageNext]_storageVars => StorageInv'
<1> SUFFICES ASSUME StorageInv, [StorageNext]_storageVars PROVE StorageInv'
  OBVIOUS
<1>1. ASSUME NEW o \in PlanOps, add_to_hot(o) PROVE StorageInv'
  BY <1>1 DEF add_to_hot, StorageInv, StorageTypeOK, IndexNamesOps, IndexSaved, AddedReadable,
              InCold
<1>2. ASSUME NEW e \in CurrentEpochs, NEW log \in SUBSET added, prune_before_epoch(e, log)
      PROVE StorageInv'
  <2>1. PICK ids \in SUBSET PlanOps :
          /\ pruning' = [active |-> TRUE, todo |-> ids, ids |-> ids, moved |-> 0]
          /\ UNCHANGED <<hot, cold, cold_index, index_file, added, unsaved, hit, dropped>>
    <3> DEFINE ids == {o \in hot \cup log : EpochOf[o] < e - keep_epochs}
    <3>1. ids \in SUBSET PlanOps
      BY DEF StorageInv, StorageTypeOK
    <3>2. /\ pruning' = [active |-> TRUE, todo |-> ids, ids |-> ids, moved |-> 0]
          /\ UNCHANGED <<hot, cold, cold_index, index_file, added, unsaved, hit, dropped>>
      BY <1>2 DEF prune_before_epoch, histVars
    <3> HIDE DEF ids
    <3> QED  BY <3>1, <3>2
  <2>2. pruning' \in [active : BOOLEAN, todo : SUBSET PlanOps, ids : SUBSET PlanOps, moved : Nat]
    BY <2>1
  <2> QED  BY <2>1, <2>2 DEF StorageInv, StorageTypeOK, IndexNamesOps, IndexSaved, AddedReadable,
                             InCold
<1>3. CASE UNCHANGED storageVars
  BY <1>3 DEF storageVars, StorageInv, StorageTypeOK, IndexNamesOps, IndexSaved, AddedReadable,
              InCold
<1> QED  BY <1>1, <1>2, <1>3, MoveKept, FinishKept, RestartKept DEF StorageNext

(* What was added and not hit is hot or cold.                              *)
LEMMA StorageInvSuffices == StorageInv => UnhitOpsReadable
  BY DEF StorageInv, AddedReadable, InCold, UnhitOpsReadable, get_op, get_from_hot, _read_from_cold

(* However long the log is, however often it is pruned, whichever writes   *)
(* and saves of the index fail and whenever the process stops: no op is    *)
(* lost between the tiers but the hot ones at a stop, those whose only     *)
(* file was cut, the cold ones that no index on disk had at a stop, and    *)
(* those dropped after their write failed (pruning.py 110-185, 266-359).   *)
THEOREM UnhitAlwaysReadable == Spec => []UnhitOpsReadable
<1>1. Init => StorageInv
  BY StorageInitially DEF Init
<1>2. StorageInv /\ [Next]_vars => StorageInv'
  <2>1. [Next]_vars => [StorageNext]_storageVars
    BY DEF Next, vars
  <2> QED  BY <2>1, StorageKept
<1> QED  BY <1>1, <1>2, StorageInvSuffices, PTL DEF Spec

-----------------------------------------------------------------------------
(* Versions.  The snapshot rows of a version.                              *)
RowsOf(v) == {s \in snapshots : s.version = v}

RowsFor(v, state) == {[version |-> v, task |-> t, data |-> state[t]] : t \in DOMAIN state}

(* A version recorded with one state has the rows of that state, and one   *)
(* that was not recorded has none.                                         *)
RowsFollow(v) ==
    /\ recorded[v] = {} => RowsOf(v) = {}
    /\ \A state \in recorded[v] : recorded[v] = {state} => RowsOf(v) = RowsFor(v, state)

VersionsInv ==
    /\ recorded = [v \in VersionIds |-> recorded[v]]
    /\ versions \in [VersionIds -> Nat]
    /\ \A v, w \in VersionIds : versions[v] # 0 /\ versions[v] = versions[w] => v = w
    /\ \A v \in VersionIds : RowsFollow(v)

(* No version was recorded.                                                *)
LEMMA VersionsInitially == HistoryInit => VersionsInv
  BY DEF HistoryInit, VersionsInv, RowsFollow, RowsOf

(* record_version replaces the rows of the tasks of the state: all, if the *)
(* same state was recorded before.                                         *)
LEMMA RecordKept ==
    ASSUME VersionsInv, NEW v \in VersionIds, NEW l \in Lamports, NEW state,
           record_version(v, l, state)
    PROVE  VersionsInv'
<1>1. /\ versions' = [w \in VersionIds |-> IF w = v THEN l
                                           ELSE IF versions[w] = l THEN 0 ELSE versions[w]]
      /\ snapshots' = {s \in snapshots : ~(s.version = v /\ s.task \in DOMAIN state)}
                        \cup RowsFor(v, state)
      /\ recorded' = [recorded EXCEPT ![v] = @ \cup {state}]
  BY DEF record_version, RowsFor
<1>2. l \in Nat
  BY HistoryAssumption DEF HistoryAssumption
<1>3. /\ versions' \in [VersionIds -> Nat]
      /\ \A u, w \in VersionIds : versions'[u] # 0 /\ versions'[u] = versions'[w] => u = w
  BY <1>1, <1>2 DEF VersionsInv
<1>4. recorded' = [w \in VersionIds |-> recorded'[w]]
  BY <1>1 DEF VersionsInv
<1>5. \A r \in RowsFor(v, state) : r.version = v
  BY DEF RowsFor
<1>6. ASSUME NEW w \in VersionIds PROVE RowsFollow(w)'
  <2>1. CASE w # v
    <3>1. recorded'[w] = recorded[w]
      BY <1>1, <2>1 DEF VersionsInv
    <3>2. RowsOf(w)' = RowsOf(w)
      BY <1>1, <1>5, <2>1 DEF RowsOf
    <3> QED  BY <3>1, <3>2 DEF VersionsInv, RowsFollow, RowsFor
  <2>2. CASE w = v
    <3>1. recorded'[v] = recorded[v] \cup {state}
      BY <1>1 DEF VersionsInv
    <3>2. ASSUME NEW st \in recorded'[v], recorded'[v] = {st}
          PROVE  RowsOf(v)' = RowsFor(v, st)
      <4>1. st = state /\ recorded[v] \in {{}, {state}}
        BY <3>1, <3>2
      <4>2. RowsOf(v) \subseteq RowsFor(v, state)
        BY <4>1 DEF VersionsInv, RowsFollow
      <4>3. \A r \in RowsFor(v, state) : r.version = v /\ r.task \in DOMAIN state
        BY DEF RowsFor
      <4>4. RowsOf(v)' = RowsFor(v, state)
        BY <1>1, <4>2, <4>3 DEF RowsOf
      <4> QED  BY <4>1, <4>4
    <3> QED  BY <2>2, <3>1, <3>2 DEF RowsFollow, RowsFor
  <2> QED  BY <2>1, <2>2
<1> QED  BY <1>3, <1>4, <1>6 DEF VersionsInv

(* Every step of the history keeps VersionsInv.                            *)
LEMMA VersionsKept == VersionsInv /\ [HistoryNext]_historyVars => VersionsInv'
<1> SUFFICES ASSUME VersionsInv, [HistoryNext]_historyVars PROVE VersionsInv'
  OBVIOUS
<1>1. CASE UNCHANGED <<versions, snapshots, recorded>>
  BY <1>1 DEF VersionsInv, RowsFollow, RowsOf, RowsFor
<1>2. ASSUME NEW p \in PatchIds, ReceivePatch(p) PROVE VersionsInv'
  BY <1>1, <1>2 DEF ReceivePatch
<1>3. CASE MergePatches
  BY <1>1, <1>3 DEF MergePatches
<1>4. CASE UNCHANGED historyVars
  BY <1>1, <1>4 DEF historyVars
<1> QED  BY <1>2, <1>3, <1>4, RecordKept DEF HistoryNext

(* What is read back of a version that was recorded once.                  *)
LEMMA SnapshotIsRecorded ==
    ASSUME VersionsInv, NEW v \in VersionIds, NEW state, recorded[v] = {state}
    PROVE  /\ DOMAIN get_snapshot_data(v) = DOMAIN state
           /\ \A t \in DOMAIN state : get_snapshot_data(v)[t] = state[t]
<1> DEFINE mine == {s \in snapshots : s.version = v}
<1>1. mine = RowsFor(v, state)
  BY DEF VersionsInv, RowsFollow, RowsOf
<1>a. ASSUME NEW t \in DOMAIN state PROVE \E s \in mine : s.task = t
  <2>1. PICK r : r = [version |-> v, task |-> t, data |-> state[t]]
    OBVIOUS
  <2>2. r \in RowsFor(v, state) /\ r.task = t
    BY <2>1 DEF RowsFor
  <2> HIDE DEF mine
  <2> QED  BY <1>1, <2>2
<1>b. \A s \in mine : s.task \in DOMAIN state
  BY <1>1 DEF RowsFor
<1>2. {s.task : s \in mine} = DOMAIN state
  <2> HIDE DEF mine
  <2> QED  BY <1>a, <1>b
<1>3. ASSUME NEW t \in DOMAIN state PROVE (CHOOSE s \in mine : s.task = t).data = state[t]
  <2>1. \A s \in mine : s.task = t => s.data = state[t]
    BY <1>1 DEF RowsFor
  <2>2. \E s \in mine : s.task = t
    BY <1>a
  <2> HIDE DEF mine
  <2> QED  BY <2>1, <2>2
<1>4. get_snapshot_data(v) = [t \in {s.task : s \in mine} |-> (CHOOSE s \in mine : s.task = t).data]
  BY Zenon DEF get_snapshot_data
<1> HIDE DEF mine
<1> QED  BY <1>2, <1>3, <1>4

(* The difference of two versions leads from one to the other, and one     *)
(* version at most is the last at a lamport.                               *)
LEMMA VersionsInvSuffices == VersionsInv => DiffRebuilds
<1> SUFFICES ASSUME VersionsInv PROVE DiffRebuilds
  OBVIOUS
<1>1. ASSUME NEW a \in VersionIds, NEW b \in VersionIds, NEW sa \in recorded[a],
             NEW sb \in recorded[b], recorded[a] = {sa} /\ recorded[b] = {sb}
      PROVE  LET d == compute_diff(a, b)
                 kept == (DOMAIN sa \cup d.added) \ d.removed
             IN  /\ kept = DOMAIN sb
                 /\ \A t \in kept \ (d.added \cup d.modified) : sa[t] = sb[t]
  <2>1. PICK ga, gb : ga = get_snapshot_data(a) /\ gb = get_snapshot_data(b)
    OBVIOUS
  <2>2. /\ DOMAIN ga = DOMAIN sa /\ \A t \in DOMAIN sa : ga[t] = sa[t]
        /\ DOMAIN gb = DOMAIN sb /\ \A t \in DOMAIN sb : gb[t] = sb[t]
    BY <1>1, <2>1, SnapshotIsRecorded
  <2>3. /\ compute_diff(a, b).added = DOMAIN gb \ DOMAIN ga
        /\ compute_diff(a, b).removed = DOMAIN ga \ DOMAIN gb
        /\ compute_diff(a, b).modified = {t \in DOMAIN ga \cap DOMAIN gb : ga[t] # gb[t]}
    BY <2>1 DEF compute_diff
  <2> QED  BY <2>2, <2>3
<1>2. ASSUME NEW l \in Lamports PROVE Cardinality(get_version_at_lamport(l)) <= 1
  <2> DEFINE G == get_version_at_lamport(l)
  <2>1. ASSUME NEW v \in G, NEW w \in G PROVE v = w
    <3>1. /\ v \in VersionIds /\ w \in VersionIds
          /\ versions[v] \in 1..l /\ versions[w] \in 1..l
          /\ versions[v] <= versions[w] /\ versions[w] <= versions[v]
      BY DEF get_version_at_lamport
    <3>2. versions[v] \in Nat /\ versions[w] \in Nat /\ versions[v] # 0
      BY <3>1 DEF VersionsInv
    <3>3. versions[v] = versions[w]
      BY <3>1, <3>2
    <3> QED  BY <3>1, <3>2, <3>3 DEF VersionsInv
  <2> HIDE DEF G
  <2>2. CASE G = {}
    BY <2>2, FS_EmptySet DEF G
  <2>3. CASE G # {}
    <3>1. PICK v : G = {v}
      BY <2>1, <2>3
    <3>2. Cardinality(G) = 1
      BY <3>1, FS_Singleton, Zenon
    <3> QED  BY <3>2 DEF G
  <2> QED  BY <2>2, <2>3
<1> QED  BY <1>1, <1>2, Zenon DEF DiffRebuilds

(* Whatever states are recorded, and in whatever order, the difference of  *)
(* two versions that were recorded with one state each turns the one into  *)
(* the other, and a lamport names one version (versioning.py).             *)
THEOREM DiffAlwaysRebuilds == Spec => []DiffRebuilds
<1>1. Init => VersionsInv
  BY VersionsInitially DEF Init
<1>2. VersionsInv /\ [Next]_vars => VersionsInv'
  <2>1. [Next]_vars => [HistoryNext]_historyVars
    BY DEF Next, vars
  <2> QED  BY <2>1, VersionsKept
<1> QED  BY <1>1, <1>2, VersionsInvSuffices, PTL DEF Spec

-----------------------------------------------------------------------------
(* A strict order of the members of S, given as a set of pairs.            *)
Orders(R, S) ==
    /\ \A o \in S : <<o, o>> \notin R
    /\ \A o, p \in S : o # p => <<o, p>> \in R \/ <<p, o>> \in R
    /\ \A o, p, q \in S : <<o, p>> \in R /\ <<p, q>> \in R => <<o, q>> \in R

Earlier(R, S, o) == {p \in S : <<p, o>> \in R}

InOrder(R, S) ==
    [n \in 1..Cardinality(S) |-> CHOOSE o \in S : Cardinality(Earlier(R, S, o)) = n - 1]

(* Each member has a place of its own, and each place a member.            *)
LEMMA PlacesAreDistinct ==
    ASSUME NEW R, NEW S, Orders(R, S), IsFiniteSet(S)
    PROVE  /\ Cardinality(S) \in Nat
           /\ \A o \in S : Cardinality(Earlier(R, S, o)) \in 0..(Cardinality(S) - 1)
           /\ \A o, p \in S :
                Cardinality(Earlier(R, S, o)) = Cardinality(Earlier(R, S, p)) => o = p
           /\ \A n \in 1..Cardinality(S) : \E o \in S : Cardinality(Earlier(R, S, o)) = n - 1
<1>1. PICK k \in Nat : k = Cardinality(S)
  BY FS_CardinalityType
<1>3. ASSUME NEW o \in S
      PROVE  IsFiniteSet(Earlier(R, S, o)) /\ Cardinality(Earlier(R, S, o)) \in 0..(k - 1)
  <2>1. Earlier(R, S, o) \in SUBSET S /\ o \notin Earlier(R, S, o)
    BY DEF Earlier, Orders
  <2>2. /\ IsFiniteSet(Earlier(R, S, o)) /\ Cardinality(Earlier(R, S, o)) <= k
        /\ Cardinality(Earlier(R, S, o)) # k
    BY <1>1, <2>1, FS_Subset
  <2>3. Cardinality(Earlier(R, S, o)) \in Nat
    BY <2>2, FS_CardinalityType
  <2> QED  BY <2>2, <2>3
<1>4. ASSUME NEW o \in S, NEW p \in S, <<o, p>> \in R
      PROVE  Cardinality(Earlier(R, S, o)) # Cardinality(Earlier(R, S, p))
  <2>1. /\ Earlier(R, S, o) \in SUBSET Earlier(R, S, p)
        /\ o \in Earlier(R, S, p) /\ o \notin Earlier(R, S, o)
    BY <1>4 DEF Earlier, Orders
  <2> QED  BY <1>3, <2>1, FS_Subset
<1>5. ASSUME NEW o \in S, NEW p \in S,
             Cardinality(Earlier(R, S, o)) = Cardinality(Earlier(R, S, p))
      PROVE  o = p
  <2>1. <<o, p>> \notin R /\ <<p, o>> \notin R
    BY <1>4, <1>5
  <2> QED  BY <2>1 DEF Orders
<1>6. ASSUME NEW n \in 1..k PROVE \E o \in S : Cardinality(Earlier(R, S, o)) = n - 1
  <2> DEFINE place == [o \in S |-> Cardinality(Earlier(R, S, o))]
  <2>1. place \in Injection(S, 0..(k - 1))
    BY <1>3, <1>5 DEF Injection, IsInjective
  <2>2. IsFiniteSet(0..(k - 1)) /\ Cardinality(0..(k - 1)) = k
    <3>1. PICK b \in Int : b = k - 1
      OBVIOUS
    <3>2. IsFiniteSet(0..b) /\ Cardinality(0..b) = IF 0 > b THEN 0 ELSE b - 0 + 1
      BY FS_Interval
    <3> QED  BY <3>1, <3>2
  <2>3. place \in Surjection(S, 0..(k - 1))
    <3> HIDE DEF place
    <3> QED  BY <1>1, <2>1, <2>2, FS_Injection
  <2>4. n - 1 \in 0..(k - 1)
    OBVIOUS
  <2>5. PICK o \in S : place[o] = n - 1
    <3> HIDE DEF place
    <3> QED  BY <2>3, <2>4 DEF Surjection
  <2> QED  BY <2>5
<1> QED  BY <1>1, <1>3, <1>5, <1>6

(* InOrder lists a set.                                                    *)
LEMMA InOrderLists ==
    ASSUME NEW R, NEW S, Orders(R, S), IsFiniteSet(S)
    PROVE  InOrder(R, S) \in Seq(S) /\ ToSet(InOrder(R, S)) = S
<1>1. PICK k \in Nat : k = Cardinality(S)
  BY FS_CardinalityType
<1>2. PICK s : s = InOrder(R, S)
  OBVIOUS
<1>3. ASSUME NEW n \in 1..k PROVE s[n] \in S /\ Cardinality(Earlier(R, S, s[n])) = n - 1
  <2>1. s[n] = CHOOSE o \in S : Cardinality(Earlier(R, S, o)) = n - 1
    BY <1>1, <1>2 DEF InOrder
  <2>2. \E o \in S : Cardinality(Earlier(R, S, o)) = n - 1
    BY <1>1, PlacesAreDistinct
  <2> QED  BY <2>1, <2>2
<1>4. s = [n \in 1..k |-> s[n]]
  BY <1>1, <1>2 DEF InOrder
<1>5. s \in Seq(S) /\ DOMAIN s = 1..k
  <2>1. \A n \in 1..k : s[n] \in S
    BY <1>3
  <2> QED  BY <1>4, <2>1
<1>6. ASSUME NEW o \in S PROVE \E n \in 1..k : s[n] = o
  <2>1. PICK n \in 1..k : n - 1 = Cardinality(Earlier(R, S, o))
    <3>1. Cardinality(Earlier(R, S, o)) \in 0..(k - 1)
      BY <1>1, PlacesAreDistinct
    <3>2. PICK m \in 0..(k - 1) : m = Cardinality(Earlier(R, S, o))
      BY <3>1
    <3>3. m + 1 \in 1..k /\ (m + 1) - 1 = m
      OBVIOUS
    <3> QED  BY <3>2, <3>3
  <2>2. Cardinality(Earlier(R, S, s[n])) = Cardinality(Earlier(R, S, o)) /\ s[n] \in S
    BY <1>3, <2>1
  <2> QED  BY <2>2, PlacesAreDistinct
<1>7. ToSet(s) = S
  BY <1>3, <1>5, <1>6 DEF ToSet
<1> QED  BY <1>2, <1>5, <1>7

(* A list has finitely many members.                                       *)
LEMMA ListFinite ==
    ASSUME NEW X, NEW s \in Seq(X)
    PROVE  IsFiniteSet(ToSet(s)) /\ ToSet(s) \subseteq X
<1>1. s \in Surjection(1..Len(s), ToSet(s))
  BY DEF Surjection, ToSet
<1>2. IsFiniteSet(1..Len(s))
  BY FS_Interval
<1> QED  BY <1>1, <1>2, FS_Surjection DEF ToSet

(* A list with every member at its place is the list in order.             *)
LEMMA SortsInOrder ==
    ASSUME NEW R, NEW S, Orders(R, S), IsFiniteSet(S),
           NEW f, f = [n \in 1..Cardinality(S) |-> f[n]],
           \A n \in 1..Cardinality(S) : f[n] \in S /\ Cardinality(Earlier(R, S, f[n])) = n - 1
    PROVE  f = InOrder(R, S)
<1>1. ASSUME NEW n \in 1..Cardinality(S)
      PROVE  f[n] = CHOOSE o \in S : Cardinality(Earlier(R, S, o)) = n - 1
  <2>1. \A p \in S : Cardinality(Earlier(R, S, p)) = n - 1 <=> p = f[n]
    BY PlacesAreDistinct
  <2> QED  BY <2>1
<1> QED  BY <1>1 DEF InOrder

-----------------------------------------------------------------------------
(* The merge of documents.  What the sort decides when no two operations   *)
(* have the same lamport.                                                  *)
DistinctLamports == \A o, p \in OpIds : OpOf[o].lamport = OpOf[p].lamport => o = p

ByLamport == {op \in OpIds \X OpIds : OpOf[op[1]].lamport < OpOf[op[2]].lamport}

(* Lamports order the operations.                                          *)
LEMMA LamportsOrder ==
    ASSUME DistinctLamports, NEW S \in SUBSET OpIds
    PROVE  /\ Orders(ByLamport, S)
           /\ \A o, p \in S : <<o, p>> \in ByLamport <=> OpOf[o].lamport < OpOf[p].lamport
<1>1. \A o, p \in S : <<o, p>> \in ByLamport <=> OpOf[o].lamport < OpOf[p].lamport
  BY DEF ByLamport
<1>2. \A o \in S : OpOf[o].lamport \in Nat
  BY CRDTAssumption DEF CRDTAssumption
<1> QED  BY <1>1, <1>2 DEF Orders, DistinctLamports

(* The sort has nothing left to decide.                                    *)
LEMMA LogsInOrder ==
    ASSUME DistinctLamports, NEW mine \in Seq(OpIds), NEW theirs \in Seq(OpIds)
    PROVE  SortedByLamport(mine, theirs) = InOrder(ByLamport, ToSet(mine) \cup ToSet(theirs))
<1>1. PICK all : all = ToSet(mine) \cup ToSet(theirs)
  OBVIOUS
<1>2. all \in SUBSET OpIds /\ IsFiniteSet(all)
  BY <1>1, ListFinite, FS_Union
<1>3. PICK k \in Nat : k = Cardinality(all)
  BY <1>2, FS_CardinalityType
<1>4. ASSUME NEW o \in all PROVE Place(mine, theirs, o) \in Nat
  <2>1. CASE o \in ToSet(mine)
    <3>1. \E i \in DOMAIN mine : mine[i] = o
      BY <2>1 DEF ToSet
    <3> QED  BY <2>1, <3>1 DEF Place
  <2>2. CASE o \notin ToSet(mine)
    <3>1. \E i \in DOMAIN theirs : theirs[i] = o
      BY <1>1, <2>2 DEF ToSet
    <3>2. PICK i \in DOMAIN theirs : i = CHOOSE j \in DOMAIN theirs : theirs[j] = o
      BY <3>1
    <3>3. Place(mine, theirs, o) = Len(mine) + i /\ i \in Nat /\ Len(mine) \in Nat
      BY <2>2, <3>2 DEF Place
    <3> QED  BY <3>3
  <2> QED  BY <2>1, <2>2
<1>5. ASSUME NEW o \in all
      PROVE  {p \in all : Sooner(mine, theirs, p, o)} = Earlier(ByLamport, all, o)
  <2>1. ASSUME NEW p \in all
        PROVE  Sooner(mine, theirs, p, o) <=> OpOf[p].lamport < OpOf[o].lamport
    <3>1. CASE p = o
      BY <1>4, <3>1 DEF Sooner
    <3>2. CASE p # o
      BY <1>2, <3>2 DEF Sooner, DistinctLamports
    <3> QED  BY <3>1, <3>2
  <2> QED  BY <1>2, <2>1, LamportsOrder DEF Earlier
<1>o. Orders(ByLamport, all)
  BY <1>2, LamportsOrder
<1> DEFINE at(n) ==
         CHOOSE o \in all : Cardinality({p \in all : Sooner(mine, theirs, p, o)}) = n - 1
<1>6. PICK f : f = [n \in 1..k |-> at(n)]
  OBVIOUS
<1>7. ASSUME NEW n \in 1..k
      PROVE  f[n] \in all /\ Cardinality(Earlier(ByLamport, all, f[n])) = n - 1
  <2>1. PICK o \in all : Cardinality(Earlier(ByLamport, all, o)) = n - 1
    BY <1>2, <1>3, <1>o, PlacesAreDistinct
  <2>2. Cardinality({p \in all : Sooner(mine, theirs, p, o)}) = n - 1
    BY <1>5, <2>1
  <2>3. /\ f[n] \in all
        /\ Cardinality({p \in all : Sooner(mine, theirs, p, f[n])}) = n - 1
    BY <1>6, <2>2
  <2> QED  BY <1>5, <2>3
<1>8. f = InOrder(ByLamport, all)
  <2> HIDE DEF at
  <2>1. f = [n \in 1..k |-> f[n]]
    BY <1>6
  <2> QED  BY <1>2, <1>3, <1>7, <1>o, <2>1, SortsInOrder
<1>9. SortedByLamport(mine, theirs) = f
  BY <1>1, <1>3, <1>6 DEF SortedByLamport
<1> QED  BY <1>1, <1>8, <1>9

(* A document whose state was rebuilt is the replay of its operations.     *)
GoodDoc(d) ==
    /\ DOMAIN d = {"tasks", "edges", "annotations", "ops", "replayed"}
    /\ d.ops \in Seq(OpIds)
    /\ d.replayed # FALSE => \E S \in SUBSET OpIds :
                               IsFiniteSet(S) /\ d = _rebuild_state_from_ops(InOrder(ByLamport, S))

CRDTInv ==
    /\ DOMAIN doc = Replicas
    /\ \A r \in Replicas : GoodDoc(doc[r])
    /\ \A s \in saved : GoodDoc(s.doc)

(* The empty document is the replay of no operation.                       *)
LEMMA EmptyDocGood == GoodDoc(EmptyDoc)
<1>1. PICK e : e = EmptyDoc
  OBVIOUS
<1>2. /\ DOMAIN e = {"tasks", "edges", "annotations", "ops", "replayed"}
      /\ e.ops = <<>> /\ e.replayed = TRUE
      /\ e = [tasks |-> e.tasks, edges |-> e.edges, annotations |-> e.annotations,
              ops |-> <<>>, replayed |-> TRUE]
  BY <1>1 DEF EmptyDoc
<1>3. InOrder(ByLamport, {}) = <<>>
  BY FS_EmptySet DEF InOrder
<1>4. _rebuild_state_from_ops(<<>>) = [tasks |-> e.tasks, edges |-> e.edges,
         annotations |-> e.annotations, ops |-> <<>>, replayed |-> TRUE]
  <2> DEFINE F(f) == [n \in 0..Len(<<>>) |->
                IF n = 0 THEN EmptyDoc ELSE _apply_to_state(f[n - 1], OpOf[<<>>[n]])]
             after == CHOOSE f : f = F(f)
  <2>1. PICK g : g = [n \in {0} |-> EmptyDoc]
    OBVIOUS
  <2>2. 0..Len(<<>>) = {0}
    OBVIOUS
  <2>3. g = F(g)
    BY <2>1, <2>2
  <2>4. after = F(after)
    BY <2>3
  <2>5. after[Len(<<>>)] = EmptyDoc
    BY <2>2, <2>4
  <2>6. _rebuild_state_from_ops(<<>>) =
          [tasks |-> after[Len(<<>>)].tasks, edges |-> after[Len(<<>>)].edges,
           annotations |-> after[Len(<<>>)].annotations, ops |-> <<>>, replayed |-> TRUE]
    BY DEF _rebuild_state_from_ops
  <2> HIDE DEF after
  <2> QED  BY <1>1, <2>5, <2>6
<1>5. IsFiniteSet({}) /\ {} \in SUBSET OpIds /\ e = _rebuild_state_from_ops(InOrder(ByLamport, {}))
  BY <1>2, <1>3, <1>4, FS_EmptySet
<1>6. <<>> \in Seq(OpIds)
  OBVIOUS
<1> QED  BY <1>1, <1>2, <1>5, <1>6 DEF GoodDoc

(* An operation changes the state, whose fields stay.                      *)
LEMMA AppendedGood ==
    ASSUME NEW d, GoodDoc(d), NEW o \in OpIds
    PROVE  GoodDoc([_apply_to_state(d, OpOf[o]) EXCEPT !.ops = Append(@, o), !.replayed = FALSE])
<1>1. PICK a : a = _apply_to_state(d, OpOf[o])
  OBVIOUS
<1>2. DOMAIN a = DOMAIN d /\ a.ops = d.ops
  BY <1>1 DEF _apply_to_state, GoodDoc
<1>3. PICK s \in Seq(OpIds) : s = Append(d.ops, o)
  <2>1. PICK l \in Seq(OpIds) : l = d.ops
    BY DEF GoodDoc
  <2>2. Append(l, o) \in Seq(OpIds)
    OBVIOUS
  <2> QED  BY <2>1, <2>2
<1>4. PICK b : b = [a EXCEPT !.ops = s, !.replayed = FALSE]
  OBVIOUS
<1>5. /\ DOMAIN b = {"tasks", "edges", "annotations", "ops", "replayed"}
      /\ b.ops = s /\ b.replayed = FALSE
  BY <1>2, <1>4 DEF GoodDoc
<1>6. GoodDoc(b)
  BY <1>3, <1>5 DEF GoodDoc
<1> QED  BY <1>1, <1>2, <1>3, <1>4, <1>6

(* A merge sorts and replays the operations of both.                       *)
LEMMA MergedGood ==
    ASSUME DistinctLamports, NEW d, GoodDoc(d), NEW e, GoodDoc(e)
    PROVE  GoodDoc(Merged(d, e))
<1>1. PICK mine \in Seq(OpIds), theirs \in Seq(OpIds) : mine = d.ops /\ theirs = e.ops
  BY DEF GoodDoc
<1>2. PICK S \in SUBSET OpIds :
         IsFiniteSet(S) /\ SortedByLamport(mine, theirs) = InOrder(ByLamport, S)
  <2>1. ToSet(mine) \cup ToSet(theirs) \in SUBSET OpIds
    BY ListFinite
  <2>2. IsFiniteSet(ToSet(mine) \cup ToSet(theirs))
    BY ListFinite, FS_Union
  <2> QED  BY <2>1, <2>2, LogsInOrder
<1>3. PICK m : m = _rebuild_state_from_ops(InOrder(ByLamport, S))
  OBVIOUS
<1>4. PICK s \in Seq(OpIds) : s = InOrder(ByLamport, S)
  <2>1. InOrder(ByLamport, S) \in Seq(S)
    BY <1>2, LamportsOrder, InOrderLists
  <2>2. Seq(S) \subseteq Seq(OpIds)
    OBVIOUS
  <2> QED  BY <2>1, <2>2
<1>5. DOMAIN m = {"tasks", "edges", "annotations", "ops", "replayed"} /\ m.ops = s
  BY <1>3, <1>4 DEF _rebuild_state_from_ops
<1>6. GoodDoc(m)
  BY <1>2, <1>3, <1>5 DEF GoodDoc
<1>7. Merged(d, e) = m
  BY <1>1, <1>2, <1>3 DEF Merged
<1> QED  BY <1>6, <1>7

(* The replicas start with the empty document.                             *)
LEMMA CRDTInitially == CRDTInit => CRDTInv
  BY EmptyDocGood DEF CRDTInit, CRDTInv

(* Every step of the replicas keeps CRDTInv.                               *)
LEMMA CRDTKept ==
    ASSUME DistinctLamports, CRDTInv, [CRDTNext]_crdtVars
    PROVE  CRDTInv'
<1>1. ASSUME NEW r \in Replicas, NEW d, GoodDoc(d), doc' = [doc EXCEPT ![r] = d],
             \A s \in saved' : GoodDoc(s.doc)
      PROVE  CRDTInv'
  BY <1>1 DEF CRDTInv, GoodDoc
<1>2. ASSUME NEW r \in Replicas, NEW o \in OpIds, append_op(r, o) PROVE CRDTInv'
  <2>1. PICK d : d = [_apply_to_state(doc[r], OpOf[o])
                         EXCEPT !.ops = Append(@, o), !.replayed = FALSE]
    OBVIOUS
  <2>2. GoodDoc(d)
    BY <2>1, AppendedGood DEF CRDTInv
  <2>3. doc' = [doc EXCEPT ![r] = d] /\ saved' = saved
    BY <1>2, <2>1 DEF append_op, Update
  <2> QED  BY <1>1, <2>2, <2>3 DEF CRDTInv
<1>3. ASSUME NEW r \in Replicas, get_save_data(r) PROVE CRDTInv'
  <2>1. saved' = saved \cup {[from |-> r, doc |-> doc[r]]} /\ doc' = doc
    BY <1>3 DEF get_save_data
  <2>2. \A s \in saved' : GoodDoc(s.doc)
    BY <2>1 DEF CRDTInv
  <2> QED  BY <2>1, <2>2 DEF CRDTInv, GoodDoc
<1>4. ASSUME NEW r \in Replicas, load_from_data(r) PROVE CRDTInv'
  <2>1. PICK s \in saved : doc' = [doc EXCEPT ![r] = s.doc]
    BY <1>4 DEF load_from_data
  <2>2. saved' = saved
    BY <1>4 DEF load_from_data
  <2> QED  BY <1>1, <2>1, <2>2 DEF CRDTInv
<1>5. ASSUME NEW r \in Replicas, NEW q \in Replicas, sync_with_peer(r, q) PROVE CRDTInv'
  <2>1. CASE UNCHANGED doc
    BY <1>5, <2>1 DEF sync_with_peer, CRDTInv, GoodDoc
  <2>2. CASE \E s \in saved : doc' = [doc EXCEPT ![r] = Merged(doc[r], s.doc)]
    <3>1. PICK s \in saved : doc' = [doc EXCEPT ![r] = Merged(doc[r], s.doc)]
      BY <2>2
    <3>2. GoodDoc(Merged(doc[r], s.doc))
      BY MergedGood DEF CRDTInv
    <3>3. saved' = saved
      BY <1>5 DEF sync_with_peer
    <3> QED  BY <1>1, <3>1, <3>2, <3>3 DEF CRDTInv
  <2> QED  BY <1>5, <2>1, <2>2 DEF sync_with_peer, Update
<1>6. ASSUME NEW r \in Replicas, NEW q \in Replicas, incremental_sync(r, q) PROVE CRDTInv'
  <2>1. PICK s \in saved :
          /\ doc' = [doc EXCEPT ![r] = Merged(doc[r], s.doc)]
          /\ saved' = saved \cup {[from |-> r, doc |-> Merged(doc[r], s.doc)]}
    BY <1>6 DEF incremental_sync, Update
  <2>2. GoodDoc(Merged(doc[r], s.doc))
    BY MergedGood DEF CRDTInv
  <2>3. \A t \in saved' : GoodDoc(t.doc)
    BY <2>1, <2>2 DEF CRDTInv
  <2> QED  BY <1>1, <2>1, <2>2, <2>3
<1>7. CASE UNCHANGED <<doc, saved>>
  BY <1>7 DEF CRDTInv, GoodDoc
<1>8. ASSUME NEW r \in Replicas, NEW q \in Replicas,
             register_peer(r, q) \/ unregister_peer(r, q)
      PROVE  CRDTInv'
  BY <1>7, <1>8 DEF register_peer, unregister_peer
<1>9. CASE UNCHANGED crdtVars
  BY <1>7, <1>9 DEF crdtVars
<1> QED  BY <1>2, <1>3, <1>4, <1>5, <1>6, <1>8, <1>9 DEF CRDTNext

(* The operations of a rebuilt document say what it is.                    *)
LEMMA CRDTInvSuffices == ASSUME DistinctLamports, CRDTInv PROVE MergedReplicasAgree
<1> SUFFICES ASSUME NEW r \in Replicas, NEW q \in Replicas, doc[r].replayed, doc[q].replayed,
                    ToSet(doc[r].ops) = ToSet(doc[q].ops)
             PROVE  doc[r] = doc[q]
  BY DEF MergedReplicasAgree
<1>1. ASSUME NEW x \in Replicas, doc[x].replayed
      PROVE  doc[x] = _rebuild_state_from_ops(InOrder(ByLamport, ToSet(doc[x].ops)))
  <2>1. PICK S \in SUBSET OpIds :
          IsFiniteSet(S) /\ doc[x] = _rebuild_state_from_ops(InOrder(ByLamport, S))
    BY <1>1 DEF CRDTInv, GoodDoc
  <2>2. doc[x].ops = InOrder(ByLamport, S)
    BY <2>1 DEF _rebuild_state_from_ops
  <2>3. ToSet(InOrder(ByLamport, S)) = S
    BY <2>1, LamportsOrder, InOrderLists
  <2> QED  BY <2>1, <2>2, <2>3
<1> QED  BY <1>1

(* If no two operations have the same lamport: whatever replicas append,   *)
(* save, load and merge, and in whatever order, two that hold the same     *)
(* operations and have rebuilt their state agree (automerge_store.py       *)
(* 266-326).                                                               *)
THEOREM ReplicasAlwaysAgree == ASSUME DistinctLamports PROVE Spec => []MergedReplicasAgree
<1>1. Init => CRDTInv
  BY CRDTInitially DEF Init
<1>2. CRDTInv /\ [Next]_vars => CRDTInv'
  <2>1. [Next]_vars => [CRDTNext]_crdtVars
    BY DEF Next, vars
  <2> QED  BY <2>1, CRDTKept
<1> QED  BY <1>1, <1>2, CRDTInvSuffices, PTL DEF Spec

-----------------------------------------------------------------------------
(* The merge of patches.  What the sort decides when no two patches of one *)
(* actor have the same base_lamport.                                       *)
DistinctKeys ==
    \A p, q \in PatchIds :
        PatchOf[p].base_lamport = PatchOf[q].base_lamport /\ PatchOf[p].actor = PatchOf[q].actor
          => p = q

ByKey == {pq \in PatchIds \X PatchIds : Before(pq[1], pq[2])}

(* The keys order the patches.                                             *)
LEMMA KeysOrder ==
    ASSUME DistinctKeys, NEW S \in SUBSET PatchIds
    PROVE  /\ Orders(ByKey, S)
           /\ \A p, q \in S : <<p, q>> \in ByKey <=> Before(p, q)
<1>1. \A p, q \in S : <<p, q>> \in ByKey <=> Before(p, q)
  BY DEF ByKey
<1>2. \A p \in S : PatchOf[p].base_lamport \in Nat /\ PatchOf[p].actor \in Nat
  BY HistoryAssumption DEF HistoryAssumption
<1>3. \A p, q \in S : Before(p, q) <=>
         \/ PatchOf[p].base_lamport < PatchOf[q].base_lamport
         \/ /\ PatchOf[p].base_lamport = PatchOf[q].base_lamport
            /\ PatchOf[p].actor < PatchOf[q].actor
  BY DEF Before
<1>4. \A p \in S : <<p, p>> \notin ByKey
  BY <1>1, <1>2, <1>3
<1>5. \A p, q \in S : p # q => <<p, q>> \in ByKey \/ <<q, p>> \in ByKey
  BY <1>1, <1>2, <1>3 DEF DistinctKeys
<1>6. \A p, q, r \in S : <<p, q>> \in ByKey /\ <<q, r>> \in ByKey => <<p, r>> \in ByKey
  BY <1>1, <1>2, <1>3
<1> QED  BY <1>1, <1>4, <1>5, <1>6 DEF Orders

(* The order of arrival decides nothing.                                   *)
LEMMA PatchesInOrder ==
    ASSUME DistinctKeys, NEW patches \in Seq(PatchIds)
    PROVE  SortedPatches(patches) = InOrder(ByKey, ToSet(patches))
<1>1. PICK all : all = ToSet(patches)
  OBVIOUS
<1>2. all \in SUBSET PatchIds /\ IsFiniteSet(all)
  BY <1>1, ListFinite
<1>o. Orders(ByKey, all) /\ \A p, q \in all : <<p, q>> \in ByKey <=> Before(p, q)
  BY <1>2, KeysOrder
<1>3. PICK k \in Nat : k = Cardinality(all)
  BY <1>2, FS_CardinalityType
<1> DEFINE arrived(p) == CHOOSE i \in DOMAIN patches : patches[i] = p
           first(p, q) == Before(p, q) \/ (~Before(q, p) /\ arrived(p) < arrived(q))
           at(n) == CHOOSE p \in all : Cardinality({q \in all : first(q, p)}) = n - 1
<1>4. ASSUME NEW p \in all PROVE arrived(p) \in Nat
  <2>1. \E i \in DOMAIN patches : patches[i] = p
    BY <1>1 DEF ToSet
  <2> QED  BY <2>1
<1>5. ASSUME NEW p \in all PROVE {q \in all : first(q, p)} = Earlier(ByKey, all, p)
  <2>1. ASSUME NEW q \in all PROVE first(q, p) <=> <<q, p>> \in ByKey
    <3>1. CASE p = q
      <4>1. arrived(p) \in Nat /\ arrived(q) = arrived(p)
        BY <1>4, <3>1
      <4> HIDE DEF arrived
      <4> QED  BY <1>o, <3>1, <4>1 DEF Orders
    <3>2. CASE p # q
      BY <1>o, <3>2 DEF Orders
    <3> QED  BY <3>1, <3>2
  <2> QED  BY <2>1 DEF Earlier
<1> HIDE DEF arrived, first
<1>6. PICK f : f = [n \in 1..k |-> at(n)]
  OBVIOUS
<1>7. ASSUME NEW n \in 1..k
      PROVE  f[n] \in all /\ Cardinality(Earlier(ByKey, all, f[n])) = n - 1
  <2>1. PICK p \in all : Cardinality(Earlier(ByKey, all, p)) = n - 1
    BY <1>2, <1>3, <1>o, PlacesAreDistinct
  <2>2. Cardinality({q \in all : first(q, p)}) = n - 1
    BY <1>5, <2>1
  <2>3. f[n] \in all /\ Cardinality({q \in all : first(q, f[n])}) = n - 1
    BY <1>6, <2>2
  <2> QED  BY <1>5, <2>3
<1>8. f = InOrder(ByKey, all)
  <2> HIDE DEF at
  <2>1. f = [n \in 1..k |-> f[n]]
    BY <1>6
  <2> QED  BY <1>2, <1>3, <1>7, <1>o, <2>1, SortsInOrder
<1>9. SortedPatches(patches) = f
  BY <1>1, <1>3, <1>6 DEF SortedPatches, at, first, arrived
<1> QED  BY <1>1, <1>8, <1>9

(* What the loops of merge_patches keep.                                   *)
NoCycle(m) ==
    /\ DOMAIN m = {"ops", "edges"}
    /\ \A e \in m.edges : ~_detect_cycle(m.edges \ {e}, e)

(* A link was tried with all the others when it was taken.                 *)
LEMMA OpKeepsNoCycle ==
    ASSUME NEW m, NoCycle(m), NEW p, NEW op
    PROVE  NoCycle(MergeOp(m, p, op))
<1>1. PICK x : x = MergeOp(m, p, op)
  OBVIOUS
<1>2. \/ DOMAIN x = {"ops", "edges"} /\ x.edges = m.edges
      \/ /\ DOMAIN x = {"ops", "edges"} /\ x.edges = m.edges \cup {op.payload}
         /\ ~_detect_cycle(m.edges, op.payload)
  BY <1>1 DEF MergeOp, NoCycle
<1>3. CASE DOMAIN x = {"ops", "edges"} /\ x.edges = m.edges
  BY <1>1, <1>3 DEF NoCycle
<1>4. CASE /\ DOMAIN x = {"ops", "edges"} /\ x.edges = m.edges \cup {op.payload}
           /\ ~_detect_cycle(m.edges, op.payload)
  <2>1. ~has_cycle(x.edges)
    BY <1>4 DEF _detect_cycle
  <2>2. ASSUME NEW e \in x.edges PROVE ~_detect_cycle(x.edges \ {e}, e)
    <3>1. (x.edges \ {e}) \cup {e} = x.edges
      OBVIOUS
    <3> QED  BY <2>1, <3>1 DEF _detect_cycle
  <2> QED  BY <1>1, <1>4, <2>2 DEF NoCycle
<1> QED  BY <1>2, <1>3, <1>4

(* So for all the ops of a patch.                                          *)
LEMMA PatchKeepsNoCycle ==
    ASSUME NEW m, NoCycle(m), NEW p \in PatchIds
    PROVE  NoCycle(MergePatch(m, p))
<1>0. PICK ops : ops = PatchOf[p].ops
  OBVIOUS
<1>1. PICK C \in Nat : C = Len(ops)
  BY <1>0, HistoryAssumption DEF HistoryAssumption
<1> DEFINE Loop(f, c) == f = [k \in 0..c |-> IF k = 0 THEN m ELSE MergeOp(f[k - 1], p, ops[k])]
           P == {c \in 0..C : \E f : Loop(f, c)}
<1>2. 0 \in P
  <2>1. PICK f : f = [k \in 0..0 |-> m]
    OBVIOUS
  <2>2. Loop(f, 0) /\ f[0] = m
    BY <2>1
  <2> QED  BY <2>2
<1>3. ASSUME NEW c \in 0..C, c \in P, c < C PROVE c + 1 \in P
  <2>1. PICK f : Loop(f, c)
    BY <1>3
  <2>2. PICK x : x = MergeOp(f[c], p, ops[c + 1])
    OBVIOUS
  <2>3. PICK g : g = [k \in 0..(c + 1) |-> IF k = c + 1 THEN x ELSE f[k]]
    OBVIOUS
  <2>5. ASSUME NEW k \in 0..(c + 1)
        PROVE  g[k] = IF k = 0 THEN m ELSE MergeOp(g[k - 1], p, ops[k])
    <3>1. CASE k = 0
      <4>1. g[0] = f[0] /\ f[0] = m
        BY <1>3, <2>1, <2>3
      <4> QED  BY <3>1, <4>1
    <3>2. CASE k = c + 1
      <4>1. g[k] = x /\ g[k - 1] = f[c] /\ k # 0
        BY <1>3, <2>3, <3>2
      <4> QED  BY <2>2, <3>2, <4>1
    <3>3. CASE k # 0 /\ k # c + 1
      <4>1. k \in 0..c /\ g[k] = f[k] /\ g[k - 1] = f[k - 1]
        BY <1>3, <2>3, <3>3
      <4>2. f[k] = MergeOp(f[k - 1], p, ops[k])
        BY <2>1, <3>3, <4>1
      <4> QED  BY <3>3, <4>1, <4>2
    <3> QED  BY <3>1, <3>2, <3>3
  <2>6. Loop(g, c + 1)
    BY <2>3, <2>5
  <2>7. c + 1 \in 0..C
    BY <1>3
  <2> HIDE DEF Loop
  <2> QED  BY <2>6, <2>7
<1>4. C \in P
  <2>0. \A c \in 0..C : c \in P /\ c < C => c + 1 \in P
    BY <1>3
  <2> HIDE DEF P
  <2>1. 0..C \subseteq P
    BY <1>2, <2>0, EveryRound
  <2> QED  BY <2>1
<1> DEFINE after == CHOOSE f : Loop(f, C)
<1>5. Loop(after, C)
  BY <1>4, Zenon
<1>6. MergePatch(m, p) = after[C]
  BY <1>0, <1>1, Zenon DEF MergePatch
<1> HIDE DEF after
<1>7. after[0] = m /\ \A k \in 0..C : k < C => after[k + 1] = MergeOp(after[k], p, ops[k + 1])
  BY <1>5
<1> DEFINE Q == {k \in 0..C : NoCycle(after[k])}
<1>8. 0 \in Q /\ \A k \in 0..C : k \in Q /\ k < C => k + 1 \in Q
  BY <1>7, OpKeepsNoCycle
<1>9. C \in Q
  <2> HIDE DEF Q
  <2>1. 0..C \subseteq Q
    BY <1>8, EveryRound
  <2> QED  BY <2>1
<1> QED  BY <1>6, <1>9

(* So for all the patches.                                                 *)
LEMMA MergeHasNoCycle ==
    ASSUME NEW s \in Seq(PatchIds)
    PROVE  NoCycle(MergeInOrder(s))
<1>0. PICK m : m = [ops |-> {}, edges |-> {}]
  OBVIOUS
<1>1. PICK C \in Nat : C = Len(s)
  OBVIOUS
<1> DEFINE Loop(f, c) == f = [k \in 0..c |-> IF k = 0 THEN m ELSE MergePatch(f[k - 1], s[k])]
           P == {c \in 0..C : \E f : Loop(f, c)}
<1>2. 0 \in P
  <2>1. PICK f : f = [k \in 0..0 |-> m]
    OBVIOUS
  <2>2. Loop(f, 0) /\ f[0] = m
    BY <2>1
  <2> QED  BY <2>2
<1>3. ASSUME NEW c \in 0..C, c \in P, c < C PROVE c + 1 \in P
  <2>1. PICK f : Loop(f, c)
    BY <1>3
  <2>2. PICK x : x = MergePatch(f[c], s[c + 1])
    OBVIOUS
  <2>3. PICK g : g = [k \in 0..(c + 1) |-> IF k = c + 1 THEN x ELSE f[k]]
    OBVIOUS
  <2>5. ASSUME NEW k \in 0..(c + 1)
        PROVE  g[k] = IF k = 0 THEN m ELSE MergePatch(g[k - 1], s[k])
    <3>1. CASE k = 0
      <4>1. g[0] = f[0] /\ f[0] = m
        BY <1>3, <2>1, <2>3
      <4> QED  BY <3>1, <4>1
    <3>2. CASE k = c + 1
      <4>1. g[k] = x /\ g[k - 1] = f[c] /\ k # 0
        BY <1>3, <2>3, <3>2
      <4> QED  BY <2>2, <3>2, <4>1
    <3>3. CASE k # 0 /\ k # c + 1
      <4>1. k \in 0..c /\ g[k] = f[k] /\ g[k - 1] = f[k - 1]
        BY <1>3, <2>3, <3>3
      <4>2. f[k] = MergePatch(f[k - 1], s[k])
        BY <2>1, <3>3, <4>1
      <4> QED  BY <3>3, <4>1, <4>2
    <3> QED  BY <3>1, <3>2, <3>3
  <2>6. Loop(g, c + 1)
    BY <2>3, <2>5
  <2>7. c + 1 \in 0..C
    BY <1>3
  <2> HIDE DEF Loop
  <2> QED  BY <2>6, <2>7
<1>4. C \in P
  <2>0. \A c \in 0..C : c \in P /\ c < C => c + 1 \in P
    BY <1>3
  <2> HIDE DEF P
  <2>1. 0..C \subseteq P
    BY <1>2, <2>0, EveryRound
  <2> QED  BY <2>1
<1> DEFINE after == CHOOSE f : Loop(f, C)
<1>5. Loop(after, C)
  BY <1>4, Zenon
<1>6. MergeInOrder(s) = after[C]
  BY <1>0, <1>1, Zenon DEF MergeInOrder
<1> HIDE DEF after
<1>7. after[0] = m /\ \A k \in 0..C : k < C => after[k + 1] = MergePatch(after[k], s[k + 1])
  BY <1>5
<1> DEFINE Q == {k \in 0..C : NoCycle(after[k])}
<1>8. 0 \in Q /\ \A k \in 0..C : k \in Q /\ k < C => k + 1 \in Q
  <2>1. NoCycle(m)
    BY <1>0 DEF NoCycle
  <2>2. \A k \in 0..C : k < C => s[k + 1] \in PatchIds
    BY <1>1
  <2> QED  BY <1>7, <2>1, <2>2, PatchKeepsNoCycle
<1>9. C \in Q
  <2> HIDE DEF Q
  <2>1. 0..C \subseteq Q
    BY <1>8, EveryRound
  <2> QED  BY <2>1
<1> QED  BY <1>6, <1>9

(* A merge is what the set of its patches says, in the order of the keys.  *)
MergesInv ==
    /\ pending \in Seq(PatchIds)
    /\ \A m \in merges : m.merged = MergeInOrder(InOrder(ByKey, m.of)) /\ NoCycle(m.merged)

(* Nothing was merged.                                                     *)
LEMMA MergesInitially == HistoryInit => MergesInv
  BY DEF HistoryInit, MergesInv

(* Every step of the history keeps MergesInv.                              *)
LEMMA MergesKept ==
    ASSUME DistinctKeys, MergesInv, [HistoryNext]_historyVars
    PROVE  MergesInv'
<1>1. CASE UNCHANGED <<pending, merges>>
  BY <1>1 DEF MergesInv
<1>2. ASSUME NEW p \in PatchIds, ReceivePatch(p) PROVE MergesInv'
  BY <1>2 DEF ReceivePatch, MergesInv
<1>3. CASE MergePatches
  <2>1. PICK S, x : S = ToSet(pending) /\ x = merge_patches(pending)
    OBVIOUS
  <2>2. merges' = merges \cup {[of |-> S, merged |-> x]} /\ pending' = <<>>
    BY <1>3, <2>1 DEF MergePatches
  <2>3. S \in SUBSET PatchIds /\ IsFiniteSet(S)
    BY <2>1, ListFinite DEF MergesInv
  <2>4. x = MergeInOrder(InOrder(ByKey, S))
    BY <2>1, PatchesInOrder DEF MergesInv, merge_patches
  <2>5. InOrder(ByKey, S) \in Seq(PatchIds)
    <3>1. InOrder(ByKey, S) \in Seq(S)
      BY <2>3, KeysOrder, InOrderLists
    <3>2. Seq(S) \subseteq Seq(PatchIds)
      BY <2>3
    <3> QED  BY <3>1, <3>2
  <2>6. NoCycle(x)
    BY <2>4, <2>5, MergeHasNoCycle
  <2>7. \A m \in merges' : m.merged = MergeInOrder(InOrder(ByKey, m.of)) /\ NoCycle(m.merged)
    BY <2>2, <2>4, <2>6 DEF MergesInv
  <2> QED  BY <2>2, <2>7 DEF MergesInv
<1>4. ASSUME NEW v \in VersionIds, NEW l \in Lamports, NEW s, record_version(v, l, s)
      PROVE  MergesInv'
  BY <1>1, <1>4 DEF record_version
<1>5. CASE UNCHANGED historyVars
  BY <1>1, <1>5 DEF historyVars
<1> QED  BY <1>2, <1>3, <1>4, <1>5 DEF HistoryNext

(* MergesInv is what is to be shown, and more.                             *)
LEMMA MergesInvSuffices == MergesInv => MergeIsDeterministic
  BY DEF MergesInv, MergeIsDeterministic, NoCycle

(* If no actor sends two patches with one base_lamport: whatever arrives,  *)
(* and in whatever order, the merge of a set of patches depends on the set *)
(* alone, and its links have no cycle (patching.py 208-335).               *)
THEOREM MergeAlwaysDeterministic == ASSUME DistinctKeys PROVE Spec => []MergeIsDeterministic
<1>1. Init => MergesInv
  BY MergesInitially DEF Init
<1>2. MergesInv /\ [Next]_vars => MergesInv'
  <2>1. [Next]_vars => [HistoryNext]_historyVars
    BY DEF Next, vars
  <2> QED  BY <2>1, MergesKept
<1> QED  BY <1>1, <1>2, MergesInvSuffices, PTL DEF Spec

-----------------------------------------------------------------------------
(* Merkle proofs.  The length of a list that is given by its members.      *)
LEMMA ListLength ==
    ASSUME NEW n \in Nat, NEW f, f = [i \in 1..n |-> f[i]]
    PROVE  Len(f) = n
<1>1. PICK S : S = {f[i] : i \in 1..n}
  OBVIOUS
<1>2. f \in [1..n -> S]
  BY <1>1
<1>3. f \in Seq(S)
  BY <1>2
<1>4. Len(f) \in Nat /\ DOMAIN f = 1..Len(f) /\ DOMAIN f = 1..n
  BY <1>2, <1>3
<1> QED  BY <1>4

(* Halves, rounded up and down.                                            *)
LEMMA Halves ==
    ASSUME NEW l \in Nat
    PROVE  /\ l \div 2 \in Nat /\ l % 2 \in {0, 1} /\ l = 2 * (l \div 2) + (l % 2)
           /\ (l + 1) \div 2 \in Nat
           /\ 2 * ((l + 1) \div 2) = l \/ 2 * ((l + 1) \div 2) = l + 1
<1>1. l \div 2 \in Nat /\ (l + 1) \div 2 \in Nat
  OBVIOUS
<1>2. l % 2 \in {0, 1}
  OBVIOUS
<1>3. l = 2 * (l \div 2) + (l % 2)
  OBVIOUS
<1>4. 2 * ((l + 1) \div 2) = l \/ 2 * ((l + 1) \div 2) = l + 1
  OBVIOUS
<1> QED  BY <1>1, <1>2, <1>3, <1>4

(* The level above a level has half its length, rounded up.                *)
LEMMA NextLevelIs ==
    ASSUME NEW level, Len(level) \in Nat
    PROVE  /\ Len(NextLevel(level)) = (Len(level) + 1) \div 2
           /\ \A i \in 1..((Len(level) + 1) \div 2) :
                NextLevel(level)[i] = _hash_pair(level[2 * i - 1],
                  level[IF 2 * i <= Len(level) THEN 2 * i ELSE 2 * i - 1])
<1>1. PICK k \in Nat : k = (Len(level) + 1) \div 2
  OBVIOUS
<1>2. PICK f : f = NextLevel(level)
  OBVIOUS
<1>3. f = [i \in 1..k |-> f[i]] /\ \A i \in 1..k :
        f[i] = _hash_pair(level[2 * i - 1], level[IF 2 * i <= Len(level) THEN 2 * i ELSE 2 * i - 1])
  BY <1>1, <1>2 DEF NextLevel
<1>4. Len(f) = k
  BY <1>3, ListLength
<1> QED  BY <1>1, <1>2, <1>3, <1>4

(* f is the levels above leaves, one after the other.                      *)
Levels(f, leaves, c) ==
    f = [n \in 0..c |-> IF n = 0 THEN [i \in 1..Len(leaves) |-> <<leaves[i]>>]
                        ELSE NextLevel(f[n - 1])]

(* There are such levels.                                                  *)
LEMMA LevelsExist ==
    ASSUME NEW C \in Nat, NEW leaves
    PROVE  \E f : Levels(f, leaves, C)
<1> DEFINE P == {c \in 0..C : \E f : Levels(f, leaves, c)}
<1>1. PICK m : m = [i \in 1..Len(leaves) |-> <<leaves[i]>>]
  OBVIOUS
<1>2. 0 \in P
  <2>1. PICK f : f = [k \in 0..0 |-> m]
    OBVIOUS
  <2>2. Levels(f, leaves, 0)
    BY <1>1, <2>1 DEF Levels
  <2> QED  BY <2>2
<1>3. ASSUME NEW c \in 0..C, c \in P, c < C PROVE c + 1 \in P
  <2>1. PICK f : Levels(f, leaves, c)
    BY <1>3
  <2>2. PICK x : x = NextLevel(f[c])
    OBVIOUS
  <2>3. PICK g : g = [k \in 0..(c + 1) |-> IF k = c + 1 THEN x ELSE f[k]]
    OBVIOUS
  <2>4. \A k \in 0..c : f[k] = IF k = 0 THEN m ELSE NextLevel(f[k - 1])
    BY <1>1, <2>1 DEF Levels
  <2>5. ASSUME NEW k \in 0..(c + 1) PROVE g[k] = IF k = 0 THEN m ELSE NextLevel(g[k - 1])
    <3>1. CASE k = 0
      <4>1. g[0] = f[0] /\ f[0] = m
        BY <1>3, <2>3, <2>4
      <4> QED  BY <3>1, <4>1
    <3>2. CASE k = c + 1
      <4>1. g[k] = x /\ g[k - 1] = f[c] /\ k # 0
        BY <1>3, <2>3, <3>2
      <4> QED  BY <2>2, <4>1
    <3>3. CASE k # 0 /\ k # c + 1
      <4>1. k \in 0..c /\ g[k] = f[k] /\ g[k - 1] = f[k - 1]
        BY <1>3, <2>3, <3>3
      <4> QED  BY <2>4, <3>3, <4>1
    <3> QED  BY <3>1, <3>2, <3>3
  <2>6. Levels(g, leaves, c + 1)
    BY <1>1, <2>3, <2>5 DEF Levels
  <2>7. c + 1 \in 0..C
    BY <1>3
  <2> QED  BY <2>6, <2>7
<1>4. C \in P
  <2>0. \A c \in 0..C : c \in P /\ c < C => c + 1 \in P
    BY <1>3
  <2> HIDE DEF P
  <2>1. 0..C \subseteq P
    BY <1>2, <2>0, EveryRound
  <2> QED  BY <2>1
<1> QED  BY <1>4

(* Half of more than one, rounded up, is less.                             *)
LEMMA HalfIsLess ==
    ASSUME NEW l \in Nat, NEW u \in Nat, l # 0, 2 * u = l \/ 2 * u = l + 1
    PROVE  u # 0 /\ (u = 1 \/ u <= l - 1) /\ (l = 1 => u = 1)
OBVIOUS

(* So each level but one of length one takes a place off the height.       *)
LEMMA HalfFits ==
    ASSUME NEW l \in Nat, NEW u \in Nat, NEW n \in Nat, NEW N \in Nat,
           u <= l - 1, l + n <= N
    PROVE  u + (n + 1) <= N
OBVIOUS

LEMMA AboveOne == \A l \in Nat : l # 0 /\ l # 1 => l > 1
OBVIOUS

(* The levels one by one.                                                  *)
LEMMA LevelsAre ==
    ASSUME NEW leaves, NEW N \in Nat, Len(leaves) = N, NEW f, Levels(f, leaves, N)
    PROVE  /\ f[0] = [i \in 1..N |-> <<leaves[i]>>]
           /\ \A n \in 0..N : n < N => f[n + 1] = NextLevel(f[n])
<1>1. \A n \in 0..N : f[n] = IF n = 0 THEN [i \in 1..N |-> <<leaves[i]>>] ELSE NextLevel(f[n - 1])
  BY DEF Levels
<1>2. ASSUME NEW n \in 0..N, n < N PROVE f[n + 1] = NextLevel(f[n])
  <2>1. n + 1 \in 0..N /\ n + 1 # 0 /\ (n + 1) - 1 = n
    BY <1>2
  <2> QED  BY <1>1, <2>1
<1> QED  BY <1>1, <1>2

(* The levels get shorter until one has a single hash.                     *)
LEMMA LevelsShrink ==
    ASSUME NEW leaves, NEW N \in Nat, N # 0, Len(leaves) = N, NEW f, Levels(f, leaves, N)
    PROVE  /\ \A n \in 0..N : Len(f[n]) \in Nat /\ Len(f[n]) # 0
           /\ \E h \in 0..N : Len(f[h]) = 1 /\ \A k \in 0..(h - 1) : Len(f[k]) > 1
<1>1. /\ f[0] = [i \in 1..N |-> <<leaves[i]>>]
      /\ \A n \in 0..N : n < N => f[n + 1] = NextLevel(f[n])
  BY LevelsAre
<1>2. Len(f[0]) = N
  <2>1. f[0] = [i \in 1..N |-> f[0][i]]
    BY <1>1
  <2> QED  BY <2>1, ListLength
<1> DEFINE P == {n \in 0..N : /\ Len(f[n]) \in Nat /\ Len(f[n]) # 0
                              /\ Len(f[n]) = 1 \/ Len(f[n]) + n <= N}
<1>3. 0 \in P
  BY <1>2
<1>4. ASSUME NEW n \in 0..N, n \in P, n < N PROVE n + 1 \in P
  <2>1. PICK l \in Nat : l # 0 /\ l = Len(f[n]) /\ (l = 1 \/ l + n <= N)
    BY <1>4
  <2>2. Len(f[n + 1]) = (l + 1) \div 2
    BY <1>1, <1>4, <2>1, NextLevelIs
  <2>3. PICK u \in Nat : u = (l + 1) \div 2 /\ (2 * u = l \/ 2 * u = l + 1)
    BY Halves
  <2>4. u # 0 /\ (u = 1 \/ u <= l - 1) /\ (l = 1 => u = 1)
    BY <2>1, <2>3, HalfIsLess
  <2>5. Len(f[n + 1]) = u
    BY <2>2, <2>3
  <2>6. n + 1 \in 0..N
    BY <1>4
  <2>7. u = 1 \/ u + (n + 1) <= N
    <3>1. CASE u <= l - 1 /\ l + n <= N
      <4>1. n \in Nat
        OBVIOUS
      <4> HIDE DEF P
      <4> QED  BY <3>1, <4>1, HalfFits
    <3> QED  BY <2>1, <2>4, <3>1
  <2> QED  BY <2>4, <2>5, <2>6, <2>7
<1>5. 0..N \subseteq P
  <2>0. \A n \in 0..N : n \in P /\ n < N => n + 1 \in P
    BY <1>4
  <2> HIDE DEF P
  <2> QED  BY <1>3, <2>0, EveryRound
<1>6. \A n \in 0..N : Len(f[n]) \in Nat /\ Len(f[n]) # 0
  BY <1>5
<1> DEFINE T == {n \in 0..N : Len(f[n]) = 1}
<1>7. T \in SUBSET Nat /\ T # {}
  <2>1. N \in P
    BY <1>5
  <2> QED  BY <2>1
<1>8. PICK h \in T : \A k \in T : h <= k
  <2> HIDE DEF T
  <2> QED  BY <1>7, LeastNumber
<1>9. ASSUME NEW k \in 0..(h - 1) PROVE Len(f[k]) > 1
  <2>1. k \in 0..N /\ k \notin T
    BY <1>8
  <2>2. PICK l \in Nat : l # 0 /\ l = Len(f[k])
    BY <1>6, <2>1
  <2>3. l # 1
    BY <2>1, <2>2
  <2>4. l > 1
    BY <2>2, <2>3, AboveOne
  <2> QED  BY <2>2, <2>4
<1> QED  BY <1>6, <1>8, <1>9


(* A tree of levels f[0]..f[h] over leaves.                                *)
IsTree(f, h, leaves) ==
    /\ h \in Nat
    /\ f[0] = [i \in 1..Len(leaves) |-> <<leaves[i]>>]
    /\ \A n \in 0..h : n < h => f[n + 1] = NextLevel(f[n])
    /\ \A n \in 0..h : Len(f[n]) \in Nat
    /\ Len(f[0]) = Len(leaves)
    /\ Len(f[h]) = 1

(* build_tree returns the levels of a tree.                                *)
LEMMA TreeIs ==
    ASSUME NEW leaves, Len(leaves) \in Nat, Len(leaves) # 0
    PROVE  \E f, h : IsTree(f, h, leaves) /\ build_tree(leaves) = [n \in 1..(h + 1) |-> f[n - 1]]
<1>1. PICK N \in Nat : N # 0 /\ N = Len(leaves)
  OBVIOUS
<1> DEFINE f == CHOOSE g : Levels(g, leaves, Len(leaves))
<1> DEFINE Top(n) == Len(f[n]) = 1 /\ \A k \in 0..(n - 1) : Len(f[k]) > 1
<1> DEFINE h == CHOOSE n \in 0..Len(leaves) : Top(n)
<1>2. build_tree(leaves) = [n \in 1..(h + 1) |-> f[n - 1]]
  BY Zenon DEF build_tree, Levels
<1>3. Levels(f, leaves, N)
  BY <1>1, LevelsExist, Zenon
<1> HIDE DEF f
<1>4. /\ \A n \in 0..N : Len(f[n]) \in Nat /\ Len(f[n]) # 0
      /\ \E n \in 0..N : Top(n)
  BY <1>1, <1>3, LevelsShrink, Zenon
<1>5. h \in 0..N /\ Top(h)
  <2> HIDE DEF Top
  <2> QED  BY <1>1, <1>4, Zenon
<1> HIDE DEF h
<1>6. IsTree(f, h, leaves)
  <2>1. h \in Nat /\ Len(f[h]) = 1 /\ \A n \in 0..h : n \in 0..N
    BY <1>5
  <2>2. /\ f[0] = [i \in 1..N |-> <<leaves[i]>>]
        /\ \A n \in 0..N : n < N => f[n + 1] = NextLevel(f[n])
    BY <1>1, <1>3, LevelsAre
  <2>3. \A n \in 0..h : n < h => n \in 0..N /\ n < N
    BY <1>5
  <2>4. Len(f[0]) = N
    <3>1. f[0] = [i \in 1..N |-> f[0][i]]
      BY <2>2
    <3> QED  BY <3>1, ListLength
  <2> HIDE DEF Top
  <2> QED  BY <1>1, <1>4, <2>1, <2>2, <2>3, <2>4 DEF IsTree
<1> QED  BY <1>2, <1>6

(* There is a way up from each index.                                      *)
LEMMA WayExists ==
    ASSUME NEW C \in Nat, NEW i
    PROVE  \E at : at = [n \in 0..C |-> IF n = 0 THEN i - 1 ELSE at[n - 1] \div 2]
<1> DEFINE P == {c \in 0..C : \E at : at = [n \in 0..c |-> IF n = 0 THEN i - 1
                                                          ELSE at[n - 1] \div 2]}
<1>1. PICK m : m = i - 1
  OBVIOUS
<1>2. 0 \in P
  <2>1. PICK f : f = [k \in 0..0 |-> m]
    OBVIOUS
  <2>2. f = [n \in 0..0 |-> IF n = 0 THEN i - 1 ELSE f[n - 1] \div 2]
    BY <1>1, <2>1
  <2> QED  BY <2>2
<1>3. ASSUME NEW c \in 0..C, c \in P, c < C PROVE c + 1 \in P
  <2>1. PICK f : f = [n \in 0..c |-> IF n = 0 THEN m ELSE f[n - 1] \div 2]
    BY <1>1, <1>3
  <2>2. PICK x : x = f[c] \div 2
    OBVIOUS
  <2>3. PICK g : g = [k \in 0..(c + 1) |-> IF k = c + 1 THEN x ELSE f[k]]
    OBVIOUS
  <2>4. \A k \in 0..c : f[k] = IF k = 0 THEN m ELSE f[k - 1] \div 2
    BY <2>1
  <2>5. ASSUME NEW k \in 0..(c + 1) PROVE g[k] = IF k = 0 THEN m ELSE g[k - 1] \div 2
    <3>1. CASE k = 0
      <4>1. g[0] = f[0] /\ f[0] = m
        BY <1>3, <2>3, <2>4
      <4> QED  BY <3>1, <4>1
    <3>2. CASE k = c + 1
      <4>1. g[k] = x /\ g[k - 1] = f[c] /\ k # 0
        BY <1>3, <2>3, <3>2
      <4> QED  BY <2>2, <4>1
    <3>3. CASE k # 0 /\ k # c + 1
      <4>1. k \in 0..c /\ g[k] = f[k] /\ g[k - 1] = f[k - 1]
        BY <1>3, <2>3, <3>3
      <4> QED  BY <2>4, <3>3, <4>1
    <3> QED  BY <3>1, <3>2, <3>3
  <2>6. g = [n \in 0..(c + 1) |-> IF n = 0 THEN i - 1 ELSE g[n - 1] \div 2]
    BY <1>1, <2>3, <2>5
  <2>7. c + 1 \in 0..C
    BY <1>3
  <2> QED  BY <2>6, <2>7
<1>4. C \in P
  <2>0. \A c \in 0..C : c \in P /\ c < C => c + 1 \in P
    BY <1>3
  <2> HIDE DEF P
  <2>1. 0..C \subseteq P
    BY <1>2, <2>0, EveryRound
  <2> QED  BY <2>1
<1> QED  BY <1>4

(* Half of an index is an index of the level above.                        *)
LEMMA HalfWithin ==
    ASSUME NEW a \in Nat, NEW l \in Nat, a < l
    PROVE  a \div 2 \in Nat /\ a \div 2 < (l + 1) \div 2
OBVIOUS

(* current_index stays within the levels.                                  *)
LEMMA WayIs ==
    ASSUME NEW f, NEW h, NEW leaves, IsTree(f, h, leaves), NEW i \in 1..Len(leaves),
           NEW tree, Len(tree) = h + 1
    PROVE  /\ Way(tree, i)[0] = i - 1
           /\ \A n \in 0..h : n < h => Way(tree, i)[n + 1] = Way(tree, i)[n] \div 2
           /\ \A n \in 0..h : Way(tree, i)[n] \in Nat /\ Way(tree, i)[n] < Len(f[n])
<1>1. h \in Nat /\ Len(f[0]) = Len(leaves) /\ Len(f[0]) \in Nat
  BY DEF IsTree
<1>0. PICK c \in Nat : c = h + 1
  BY <1>1
<1>2. PICK at : at = CHOOSE g : g = [n \in 0..(h + 1) |-> IF n = 0 THEN i - 1 ELSE g[n - 1] \div 2]
  OBVIOUS
<1>3. at = Way(tree, i)
  BY <1>2, Zenon DEF Way
<1>4. at = [n \in 0..(h + 1) |-> IF n = 0 THEN i - 1 ELSE at[n - 1] \div 2]
  <2>1. \E g : g = [n \in 0..c |-> IF n = 0 THEN i - 1 ELSE g[n - 1] \div 2]
    BY WayExists
  <2> QED  BY <1>0, <1>2, <2>1, Zenon
<1>5. at[0] = i - 1 /\ \A n \in 0..h : at[n + 1] = at[n] \div 2
  BY <1>1, <1>4
<1> DEFINE P == {n \in 0..h : at[n] \in Nat /\ at[n] < Len(f[n])}
<1>6. 0 \in P
  <2>1. PICK l \in Nat : l = Len(f[0]) /\ i \in 1..l
    BY <1>1
  <2>2. i - 1 \in Nat /\ i - 1 < l
    BY <2>1
  <2>3. 0 \in 0..h /\ at[0] \in Nat /\ at[0] < Len(f[0])
    BY <1>1, <1>5, <2>1, <2>2
  <2> QED  BY <2>3
<1>7. ASSUME NEW n \in 0..h, n \in P, n < h PROVE n + 1 \in P
  <2>1. f[n + 1] = NextLevel(f[n]) /\ Len(f[n]) \in Nat
    BY <1>7 DEF IsTree
  <2>2. PICK l \in Nat : l = Len(f[n])
    BY <2>1
  <2>3. PICK a \in Nat : a = at[n] /\ a < l
    BY <1>7, <2>2
  <2>4. Len(f[n + 1]) = (l + 1) \div 2
    BY <2>1, <2>2, NextLevelIs
  <2>5. at[n + 1] = a \div 2
    BY <1>5, <2>3
  <2>6. a \div 2 \in Nat /\ a \div 2 < (l + 1) \div 2
    BY <2>3, HalfWithin
  <2>7. n + 1 \in 0..h
    BY <1>1, <1>7
  <2> QED  BY <2>4, <2>5, <2>6, <2>7
<1>8. 0..h \subseteq P
  <2>0. \A n \in 0..h : n \in P /\ n < h => n + 1 \in P
    BY <1>7
  <2> HIDE DEF P
  <2> QED  BY <1>1, <1>6, <2>0, EveryRound
<1>9. \A n \in 0..h : at[n] \in Nat /\ at[n] < Len(f[n])
  BY <1>8
<1> QED  BY <1>3, <1>5, <1>9

(* c is the hashes on the way up that verify_proof computes.               *)
Chain(c, leaf, proof) ==
    c = [n \in 0..Len(proof) |->
          IF n = 0 THEN leaf
          ELSE IF proof[n].is_right THEN _hash_pair(c[n - 1], proof[n].hash)
          ELSE _hash_pair(proof[n].hash, c[n - 1])]

(* They one by one.                                                        *)
LEMMA ChainIs ==
    ASSUME NEW leaf, NEW proof, NEW h \in Nat, h = Len(proof), NEW c, Chain(c, leaf, proof)
    PROVE  /\ c[0] = leaf
           /\ \A n \in 0..h : n # 0 =>
                c[n] = IF proof[n].is_right THEN _hash_pair(c[n - 1], proof[n].hash)
                       ELSE _hash_pair(proof[n].hash, c[n - 1])
<1>1. \A n \in 0..h : c[n] =
        IF n = 0 THEN leaf
        ELSE IF proof[n].is_right THEN _hash_pair(c[n - 1], proof[n].hash)
        ELSE _hash_pair(proof[n].hash, c[n - 1])
  BY DEF Chain
<1> QED  BY <1>1

(* They are determined by the leaf and the proof.                          *)
LEMMA ChainsAgree ==
    ASSUME NEW leaf, NEW proof, Len(proof) \in Nat, NEW c, NEW g,
           Chain(c, leaf, proof), Chain(g, leaf, proof)
    PROVE  c[Len(proof)] = g[Len(proof)]
<1>1. PICK h \in Nat : h = Len(proof)
  OBVIOUS
<1>2. /\ c[0] = leaf /\ g[0] = leaf
      /\ \A n \in 0..h : n # 0 =>
           /\ c[n] = IF proof[n].is_right THEN _hash_pair(c[n - 1], proof[n].hash)
                     ELSE _hash_pair(proof[n].hash, c[n - 1])
           /\ g[n] = IF proof[n].is_right THEN _hash_pair(g[n - 1], proof[n].hash)
                     ELSE _hash_pair(proof[n].hash, g[n - 1])
  BY <1>1, ChainIs
<1> DEFINE P == {n \in 0..h : c[n] = g[n]}
<1>3. 0 \in P
  BY <1>2
<1>4. ASSUME NEW n \in 0..h, n \in P, n < h PROVE n + 1 \in P
  <2>1. n + 1 \in 0..h /\ n + 1 # 0 /\ (n + 1) - 1 = n /\ c[n] = g[n]
    BY <1>4
  <2>2. c[n + 1] = g[n + 1]
    BY <1>2, <2>1
  <2> QED  BY <2>1, <2>2
<1>5. 0..h \subseteq P
  <2>0. \A n \in 0..h : n \in P /\ n < h => n + 1 \in P
    BY <1>4
  <2> HIDE DEF P
  <2> QED  BY <1>3, <2>0, EveryRound
<1>6. h \in P
  BY <1>5
<1> QED  BY <1>1, <1>6

(* A proof is accepted when such hashes end at the root.                   *)
LEMMA VerifyIs ==
    ASSUME NEW leaf, NEW proof, NEW root, NEW g, Len(proof) \in Nat, Chain(g, leaf, proof),
           root = g[Len(proof)]
    PROVE  verify_proof(leaf, proof, root)
<1> DEFINE c == CHOOSE x : Chain(x, leaf, proof)
<1>1. verify_proof(leaf, proof, root) <=> root = c[Len(proof)]
  BY Zenon DEF verify_proof, Chain
<1>2. Chain(c, leaf, proof)
  BY Zenon
<1> HIDE DEF c
<1>3. c[Len(proof)] = g[Len(proof)]
  BY <1>2, ChainsAgree
<1> QED  BY <1>1, <1>3

(* A step up: the parent is the hash of a hash and its sibling.            *)
LEMMA StepUp ==
    ASSUME NEW level, NEW l \in Nat, l = Len(level), NEW a \in Nat, a < l
    PROVE  NextLevel(level)[(a \div 2) + 1] =
             IF a % 2 = 0 THEN _hash_pair(level[a + 1], SiblingHash(level, a))
             ELSE _hash_pair(SiblingHash(level, a), level[a + 1])
<1>1. PICK b \in Nat : b = a \div 2 /\ ((a = 2 * b /\ a % 2 = 0) \/ (a = 2 * b + 1 /\ a % 2 = 1))
  <2>1. a \div 2 \in Nat /\ a % 2 \in {0, 1} /\ a = 2 * (a \div 2) + (a % 2)
    BY Halves
  <2>2. PICK b \in Nat : b = a \div 2
    BY <2>1
  <2>3. PICK r \in {0, 1} : r = a % 2
    BY <2>1
  <2>4. a = 2 * b + r
    BY <2>1, <2>2, <2>3
  <2>5. (a = 2 * b /\ r = 0) \/ (a = 2 * b + 1 /\ r = 1)
    <3>1. CASE r = 0
      BY <2>4, <3>1
    <3>2. CASE r = 1
      BY <2>4, <3>2
    <3> QED  BY <2>3, <3>1, <3>2
  <2> QED  BY <2>2, <2>3, <2>5
<1>2. b + 1 \in 1..((l + 1) \div 2)
  <2>1. b < (l + 1) \div 2
    BY <1>1, HalfWithin
  <2> QED  BY <2>1
<1>3. NextLevel(level)[b + 1] = _hash_pair(level[2 * (b + 1) - 1],
        level[IF 2 * (b + 1) <= l THEN 2 * (b + 1) ELSE 2 * (b + 1) - 1])
  BY <1>2, NextLevelIs
<1>4. CASE a = 2 * b /\ a % 2 = 0
  <2>1. 2 * (b + 1) - 1 = a + 1 /\ 2 * (b + 1) = a + 2
    BY <1>4
  <2>2. SiblingHash(level, a) = level[IF a + 1 < l THEN a + 2 ELSE a + 1]
    <3>1. SiblingHash(level, a) = level[(IF a + 1 < l THEN a + 1 ELSE a) + 1]
      BY <1>4 DEF SiblingHash
    <3>2. (IF a + 1 < l THEN a + 1 ELSE a) + 1 = IF a + 1 < l THEN a + 2 ELSE a + 1
      OBVIOUS
    <3> QED  BY <3>1, <3>2
  <2>3. a + 1 < l <=> a + 2 <= l
    OBVIOUS
  <2> QED  BY <1>1, <1>3, <1>4, <2>1, <2>2, <2>3
<1>5. CASE a = 2 * b + 1 /\ a % 2 = 1
  <2>1. 2 * (b + 1) - 1 = a /\ 2 * (b + 1) = a + 1 /\ a + 1 <= l
    BY <1>5
  <2>2. SiblingHash(level, a) = level[a]
    <3>1. SiblingHash(level, a) = level[(IF a - 1 < l THEN a - 1 ELSE a) + 1]
      BY <1>5 DEF SiblingHash
    <3>2. (IF a - 1 < l THEN a - 1 ELSE a) + 1 = a
      OBVIOUS
    <3> QED  BY <3>1, <3>2
  <2> QED  BY <1>1, <1>3, <1>5, <2>1, <2>2
<1> QED  BY <1>1, <1>4, <1>5

(* The proof of each leaf leads to the root.                               *)
LEMMA ProofLeadsUp ==
    ASSUME NEW leaves, Len(leaves) \in Nat, NEW i \in 1..Len(leaves)
    PROVE  verify_proof(<<leaves[i]>>, get_proof(build_tree(leaves), i), Root(leaves))
<1>1. Len(leaves) # 0 /\ leaves # <<>>
  OBVIOUS
<1>2. PICK f, h : IsTree(f, h, leaves) /\ build_tree(leaves) = [n \in 1..(h + 1) |-> f[n - 1]]
  BY <1>1, TreeIs
<1>3. PICK tree : tree = build_tree(leaves)
  OBVIOUS
<1>4. h \in Nat /\ h \in 0..h /\ f[0] = [k \in 1..Len(leaves) |-> <<leaves[k]>>] /\ Len(f[h]) = 1
  BY <1>2 DEF IsTree
<1>5. Len(tree) = h + 1 /\ \A n \in 1..(h + 1) : tree[n] = f[n - 1]
  <2>1. PICK c \in Nat : c = h + 1
    BY <1>4
  <2>2. tree = [n \in 1..c |-> tree[n]] /\ \A n \in 1..c : tree[n] = f[n - 1]
    BY <1>2, <1>3, <2>1
  <2>3. Len(tree) = c
    BY <2>2, ListLength
  <2> QED  BY <2>1, <2>2, <2>3
<1>6. PICK at : at = Way(tree, i)
  OBVIOUS
<1>7. /\ at[0] = i - 1
      /\ \A n \in 0..h : n < h => at[n + 1] = at[n] \div 2
      /\ \A n \in 0..h : at[n] \in Nat /\ at[n] < Len(f[n])
  BY <1>2, <1>5, <1>6, WayIs
<1>8. PICK proof : proof = get_proof(tree, i)
  OBVIOUS
<1>9. Len(proof) = h /\ \A n \in 1..h : /\ proof[n].hash = SiblingHash(f[n - 1], at[n - 1])
                                        /\ proof[n].is_right = (at[n - 1] % 2 = 0)
  <2>1. (h + 1) - 1 = h /\ \A n \in 1..h : n \in 1..(h + 1)
    BY <1>4
  <2>2. proof = [n \in 1..h |-> [hash |-> SiblingHash(tree[n], at[n - 1]),
                                 is_right |-> at[n - 1] % 2 = 0]]
    BY <1>5, <1>6, <1>8, <2>1 DEF get_proof
  <2>3. proof = [n \in 1..h |-> proof[n]]
    BY <2>2
  <2>4. Len(proof) = h
    BY <1>4, <2>3, ListLength
  <2> QED  BY <1>5, <2>1, <2>2, <2>4
<1>10. PICK g : g = [n \in 0..h |-> f[n][at[n] + 1]]
  OBVIOUS
<1>11. g[0] = <<leaves[i]>>
  <2>1. 0 \in 0..h /\ at[0] + 1 = i
    BY <1>4, <1>7
  <2>2. f[0][i] = <<leaves[i]>>
    BY <1>4
  <2> QED  BY <1>10, <2>1, <2>2
<1>12. ASSUME NEW n \in 0..h, n # 0
       PROVE  g[n] = IF proof[n].is_right THEN _hash_pair(g[n - 1], proof[n].hash)
                     ELSE _hash_pair(proof[n].hash, g[n - 1])
  <2>1. PICK m \in 0..h : m = n - 1 /\ m < h /\ m + 1 = n
    BY <1>4, <1>12
  <2>2. f[n] = NextLevel(f[m]) /\ Len(f[m]) \in Nat
    BY <1>2, <2>1 DEF IsTree
  <2>3. PICK a \in Nat : a = at[m] /\ a < Len(f[m]) /\ at[n] = a \div 2
    BY <1>7, <2>1
  <2>4. g[m] = f[m][a + 1] /\ g[n] = f[n][(a \div 2) + 1]
    BY <1>10, <2>3
  <2>5. proof[n].hash = SiblingHash(f[m], a) /\ proof[n].is_right = (a % 2 = 0)
    <3>1. n \in 1..h
      BY <1>4, <1>12
    <3> QED  BY <1>9, <2>1, <2>3, <3>1
  <2>6. NextLevel(f[m])[(a \div 2) + 1] =
             IF a % 2 = 0 THEN _hash_pair(f[m][a + 1], SiblingHash(f[m], a))
             ELSE _hash_pair(SiblingHash(f[m], a), f[m][a + 1])
    <3>0. PICK level : level = f[m]
      OBVIOUS
    <3>1. PICK l \in Nat : level = f[m] /\ l = Len(level) /\ a < l
      BY <2>2, <2>3, <3>0
    <3>2. NextLevel(level)[(a \div 2) + 1] =
             IF a % 2 = 0 THEN _hash_pair(level[a + 1], SiblingHash(level, a))
             ELSE _hash_pair(SiblingHash(level, a), level[a + 1])
      BY <3>1, StepUp
    <3> QED  BY <3>1, <3>2
  <2> QED  BY <2>1, <2>2, <2>4, <2>5, <2>6
<1>13. Chain(g, <<leaves[i]>>, proof)
  BY <1>9, <1>10, <1>11, <1>12 DEF Chain
<1>14. Root(leaves) = g[h]
  <2>0. PICK x \in Nat : x = at[h] /\ x < 1
    BY <1>4, <1>7
  <2>1. at[h] = 0
    BY <2>0
  <2>2. g[h] = f[h][1]
    BY <1>4, <1>10, <2>1
  <2>3. Last(tree) = f[h]
    BY <1>4, <1>5 DEF Last
  <2> QED  BY <1>1, <1>3, <2>2, <2>3 DEF Root
<1>15. verify_proof(<<leaves[i]>>, proof, Root(leaves))
  BY <1>4, <1>9, <1>13, <1>14, VerifyIs
<1> QED  BY <1>3, <1>8, <1>15

(* A stored checkpoint has the root of its operations, or came without     *)
(* them.                                                                   *)
HasRoot(root, ops) == ops = <<>> \/ (ops \in OpLists /\ root = Root(ops))

CheckpointsInv ==
    /\ files = [e \in Epochs |-> files[e]]
    /\ \A e \in Epochs : files[e] \notin {NoResult, Cut} =>
         HasRoot(files[e].merkle_root, files[e].ops)

LEMMA CheckpointsInitially == CheckpointsInit => CheckpointsInv
BY DEF CheckpointsInit, CheckpointsInv

(* What is stored is a checkpoint of its own or one that was received.     *)
LEMMA StoreKept ==
    ASSUME CheckpointsInv, NEW e \in Epochs, NEW state, NEW root, NEW ops, HasRoot(root, ops),
           store_checkpoint([epoch |-> e, merkle_root |-> root, state_summary |-> state,
                             ops |-> ops])
    PROVE  CheckpointsInv'
<1>2. PICK cp : cp = [epoch |-> e, merkle_root |-> root, state_summary |-> compress_state(state),
                      ops |-> ops]
  OBVIOUS
<1>3. files' = [files EXCEPT ![e] = cp]
  <2>1. PICK old : old = [epoch |-> e, merkle_root |-> root, state_summary |-> state, ops |-> ops]
    OBVIOUS
  <2>3. old.epoch = e /\ old.state_summary = state
    BY <2>1
  <2>4. [old EXCEPT !.state_summary = compress_state(old.state_summary)] = cp
    BY <1>2, <2>1 DEF compress_state
  <2>5. files' = [files EXCEPT ![old.epoch]
                    = [old EXCEPT !.state_summary = compress_state(old.state_summary)]]
    BY <2>1, Zenon DEF store_checkpoint
  <2> QED  BY <2>3, <2>4, <2>5
<1>4. cp.ops = ops /\ cp.merkle_root = root
  BY <1>2
<1>5. ASSUME NEW x \in Epochs, files'[x] \notin {NoResult, Cut}
      PROVE  HasRoot(files'[x].merkle_root, files'[x].ops)
  <2>1. CASE x = e
    <3>1. files'[x] = cp
      BY <1>3, <2>1 DEF CheckpointsInv
    <3> QED  BY <1>4, <3>1
  <2>2. CASE x # e
    <3>1. files'[x] = files[x]
      BY <1>3, <2>2 DEF CheckpointsInv
    <3> QED  BY <1>5, <3>1 DEF CheckpointsInv
  <2> QED  BY <2>1, <2>2
<1>6. files' = [x \in Epochs |-> files'[x]]
  BY <1>3 DEF CheckpointsInv
<1> QED  BY <1>5, <1>6 DEF CheckpointsInv

LEMMA CheckpointsKept == CheckpointsInv /\ [CheckpointsNext]_checkpointVars => CheckpointsInv'
<1> SUFFICES ASSUME CheckpointsInv, [CheckpointsNext]_checkpointVars PROVE CheckpointsInv'
  OBVIOUS
<1>1. CASE files' = files
  BY <1>1 DEF CheckpointsInv
<1>2. ASSUME NEW e \in Epochs, NEW v \in {NoResult, Cut}, files' = [files EXCEPT ![e] = v]
      PROVE  CheckpointsInv'
  <2>1. files'[e] = v /\ \A x \in Epochs : x # e => files'[x] = files[x]
    BY <1>2 DEF CheckpointsInv
  <2>2. files' = [x \in Epochs |-> files'[x]]
    BY <1>2 DEF CheckpointsInv
  <2>3. ASSUME NEW x \in Epochs, files'[x] \notin {NoResult, Cut}
        PROVE  HasRoot(files'[x].merkle_root, files'[x].ops)
    <3>1. x # e /\ files'[x] = files[x]
      BY <2>1, <2>3
    <3> QED  BY <2>3, <3>1 DEF CheckpointsInv
  <2> QED  BY <2>2, <2>3 DEF CheckpointsInv
<1>3. CASE UNCHANGED checkpointVars
  BY <1>1, <1>3 DEF checkpointVars
<1>4. CASE \E e \in Epochs, state \in Summaries, ops \in OpLists :
             \/ store_checkpoint(create_checkpoint(e, state, ops))
             \/ handle_checkpoint(e, state, Root(ops))
  <2>1. PICK e \in Epochs, state \in Summaries, ops \in OpLists :
          \/ store_checkpoint(create_checkpoint(e, state, ops))
          \/ handle_checkpoint(e, state, Root(ops))
    BY <1>4
  <2>2. PICK root : root = Root(ops)
    OBVIOUS
  <2>3. HasRoot(root, ops) /\ HasRoot(root, <<>>)
    BY <2>2 DEF HasRoot
  <2>4. CASE store_checkpoint(create_checkpoint(e, state, ops))
    <3>1. store_checkpoint([epoch |-> e, merkle_root |-> root, state_summary |-> state,
                            ops |-> ops])
      BY <2>2, <2>4 DEF create_checkpoint
    <3> QED  BY <2>3, <3>1, StoreKept
  <2>5. CASE handle_checkpoint(e, state, Root(ops))
    <3>1. store_checkpoint([epoch |-> e, merkle_root |-> root, state_summary |-> state,
                            ops |-> <<>>])
      BY <2>2, <2>5 DEF handle_checkpoint
    <3> QED  BY <2>3, <3>1, StoreKept
  <2> QED  BY <2>1, <2>4, <2>5
<1>5. CASE \E e \in Epochs : CrashInStore(e) \/ delete_checkpoint(e) \/ get_checkpoint(e)
  <2>1. ASSUME NEW e \in Epochs, CrashInStore(e) PROVE CheckpointsInv'
    BY <1>2, <2>1 DEF CrashInStore
  <2>2. ASSUME NEW e \in Epochs, delete_checkpoint(e) PROVE CheckpointsInv'
    BY <1>2, <2>2 DEF delete_checkpoint
  <2>3. ASSUME NEW e \in Epochs, get_checkpoint(e) PROVE CheckpointsInv'
    BY <1>1, <2>3 DEF get_checkpoint
  <2> QED  BY <1>5, <2>1, <2>2, <2>3
<1>6. CASE fast_sync_node
  BY <1>1, <1>6 DEF fast_sync_node
<1> QED  BY <1>3, <1>4, <1>5, <1>6 DEF CheckpointsNext

LEMMA CheckpointsInvSuffices == CheckpointsInv => ProofsVerify
<1> SUFFICES ASSUME CheckpointsInv, NEW e \in Epochs, files[e] \notin {NoResult, Cut},
                    NEW i \in DOMAIN files[e].ops
             PROVE  verify_proof(<<files[e].ops[i]>>, get_proof(build_tree(files[e].ops), i),
                                 files[e].merkle_root)
  BY DEF ProofsVerify
<1>1. PICK leaves \in OpLists : leaves = files[e].ops /\ files[e].merkle_root = Root(leaves)
  <2>1. DOMAIN files[e].ops # {}
    OBVIOUS
  <2>2. files[e].ops # <<>>
    BY <2>1
  <2> QED  BY <2>2 DEF CheckpointsInv, HasRoot
<1>2. Len(leaves) \in Nat /\ i \in 1..Len(leaves)
  BY <1>1, CheckpointAssumption
<1>3. verify_proof(<<leaves[i]>>, get_proof(build_tree(leaves), i), Root(leaves))
  BY <1>2, ProofLeadsUp
<1> QED  BY <1>1, <1>3

(* Whatever lists of operations are checkpointed, with crashes in the      *)
(* middle of a write, deletions and syncs: the proof of each operation of  *)
(* a checkpoint of this node leads to the root it stored (merkle.py        *)
(* 38-171).                                                                *)
THEOREM ProofsAlwaysVerify == Spec => []ProofsVerify
<1>1. Init => CheckpointsInv
  BY CheckpointsInitially DEF Init
<1>2. CheckpointsInv /\ [Next]_vars => CheckpointsInv'
  <2>1. [Next]_vars => [CheckpointsNext]_checkpointVars
    BY DEF Next, vars
  <2> QED  BY <2>1, CheckpointsKept
<1> QED  BY <1>1, <1>2, CheckpointsInvSuffices, PTL DEF Spec
=============================================================================
