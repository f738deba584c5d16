--------------------------- MODULE ConsensusProof ---------------------------
(***************************************************************************)
(* Proofs about Consensus, for any nodes, needs, proposals and verifiers.  *)
(***************************************************************************)
EXTENDS Consensus, FiniteSetTheorems, TLAPS

USE DEF ConsensusAssumption

(* The handler state of an idle node is well formed.                       *)
LEMMA IdleType == Idle \in BusyState
BY ConsensusAssumption DEF Idle, BusyState, Handlers, NoRecord, DecideRecord, Deciders

(* get_k_plan is a number, whatever the pool.                              *)
LEMMA KPlanType == ASSUME pool \subseteq Verifiers PROVE get_k_plan(ActiveVerifiers) \in Nat
<1>1. IsFiniteSet(pool)
  BY FS_Subset, ConsensusAssumption
<1>2. PICK c \in Nat : c = Cardinality(pool)
  BY <1>1, FS_CardinalityType
<1>3. PICK a \in Nat : a = ((c + OtherActive) * 3) \div 10
  BY ConsensusAssumption
<1> QED BY <1>2, <1>3 DEF get_k_plan, ActiveVerifiers, Min2, Max2

(* Init establishes the inductive invariant.                               *)
LEMMA InitInd == Init => IndInv
<1> SUFFICES ASSUME Init PROVE IndInv
  OBVIOUS
<1> USE ConsensusAssumption DEF Init
<1>1. TypeOK
  BY IdleType DEF TypeOK, DecideRecord, NoRecord, Deciders, QuorumState, NoQuorumState
<1>2. PlansAgree /\ EpochsDurable
  BY DEF PlansAgree, EpochsDurable
<1>3. HandlersHonest
  BY DEF HandlersHonest, Idle
<1> QED BY <1>1, <1>2, <1>3 DEF IndInv

(* Every action preserves the inductive invariant.                         *)
LEMMA StepInd == IndInv /\ [Next]_vars => IndInv'
<1> SUFFICES ASSUME IndInv, [Next]_vars PROVE IndInv'
  OBVIOUS
<1> USE ConsensusAssumption DEF IndInv, Enter, Return
<1>b. /\ \A n \in Nodes : busy[n] \in BusyState
      /\ Idle \in BusyState /\ Idle.pc = "idle"
  BY IdleType DEF TypeOK, Idle
<1>1. ASSUME NEW v \in Verifiers, NEW x \in Needs, NEW p \in Proposals, CastVote(v, x, p) PROVE IndInv'
  <2> USE <1>1 DEF CastVote
  <2>1. TypeOK'
    <3>1. [need |-> x, proposal |-> p, verifier |-> v] \in Vote
      BY DEF Vote
    <3> QED BY <3>1 DEF TypeOK
  <2>2. PlansAgree'
    BY DEF PlansAgree
  <2>3. HandlersHonest'
    BY DEF HandlersHonest
  <2>4. EpochsDurable'
    BY DEF TypeOK, EpochsDurable
  <2> QED BY <2>1, <2>2, <2>3, <2>4
<1>2. ASSUME NEW v \in Verifiers, PoolChange(v) PROVE IndInv'
  <2> USE <1>2 DEF PoolChange
  <2>1. TypeOK'
    BY DEF TypeOK
  <2>2. PlansAgree'
    BY DEF PlansAgree
  <2>3. HandlersHonest'
    BY DEF HandlersHonest
  <2>4. EpochsDurable'
    BY DEF TypeOK, EpochsDurable
  <2> QED BY <2>1, <2>2, <2>3, <2>4
<1>3. ASSUME NEW n \in Nodes, NEW m \in Vote, AttestPlan(n, m) PROVE IndInv'
  <2> USE <1>3 DEF AttestPlan
  <2> DEFINE k == get_k_plan(ActiveVerifiers)
             d == <<m.need, m.proposal>>
             s == tracker[n][d]
             t == recorded(s, m.verifier, k)
             h == [pc |-> "append", need |-> m.need,
                   rec |-> [proposal |-> m.proposal, epoch |-> 1, k |-> k, by |-> "quorum-system"],
                   quorum |-> has_quorum(t) /\ ~has_quorum(s)]
  <2>a. k \in Nat
    BY KPlanType DEF TypeOK
  <2>b. /\ m.need \in Needs /\ m.proposal \in Proposals /\ m.verifier \in Verifiers
        /\ d \in Needs \X Proposals
    BY DEF Vote
  <2>c. s \in QuorumState
    BY <2>b DEF TypeOK
  <2>d. t \in QuorumState
    BY <2>a, <2>b, <2>c DEF QuorumState, recorded
  <2>e. h \in BusyState
    <3>1. (has_quorum(t) /\ ~has_quorum(s)) \in BOOLEAN
      BY DEF has_quorum
    <3> QED BY <2>a, <2>b, <3>1 DEF BusyState, Handlers, DecideRecord, Deciders
  <2>f. busy' = [busy EXCEPT ![n] = h] /\ tracker' = [tracker EXCEPT ![n][d] = t]
    OBVIOUS
  <2>1. TypeOK'
    <3>1. tracker' \in [Nodes -> [Needs \X Proposals -> QuorumState]]
      <4> HIDE DEF d, t
      <4>1. PICK r : r = [tracker[n] EXCEPT ![d] = t]
        OBVIOUS
      <4>2. tracker[n] \in [Needs \X Proposals -> QuorumState]
        BY DEF TypeOK
      <4>3. r \in [Needs \X Proposals -> QuorumState]
        BY <4>1, <4>2, <2>b, <2>d
      <4>4. tracker' = [tracker EXCEPT ![n] = r]
        BY <4>1, <2>f
      <4> QED BY <4>3, <4>4 DEF TypeOK
    <3>2. busy' \in [Nodes -> BusyState]
      BY <2>e, <2>f DEF TypeOK
    <3> QED BY <3>1, <3>2 DEF TypeOK
  <2>2. PlansAgree'
    BY DEF PlansAgree
  <2>3. HandlersHonest'
    <3>1. busy'[n].pc = "append" /\ busy'[n].rec.proposal \in Proposals
      BY <2>b, <2>f DEF TypeOK
    <3>2. \A u \in Nodes : u # n => busy'[u] = busy[u] /\ epoch'[u] = epoch[u]
      BY DEF TypeOK
    <3> QED BY <3>1, <3>2 DEF HandlersHonest
  <2>4. EpochsDurable'
    BY DEF TypeOK, EpochsDurable
  <2> QED BY <2>1, <2>2, <2>3, <2>4
<1>4. ASSUME NEW n \in Nodes, AttestPlanDecide(n) PROVE IndInv'
  <2> USE <1>4 DEF AttestPlanDecide
  <2>1. TypeOK'
    <3>1. [busy[n] EXCEPT !.pc = "try"] \in BusyState
      BY <1>b DEF BusyState, Handlers, DecideRecord, Deciders, Epochs
    <3>5. busy' \in [Nodes -> BusyState]
      BY <1>b, <3>1 DEF TypeOK
    <3>6. epoch' \in [Nodes -> Nat] /\ epochDb' \in [Nodes -> Nat]
      BY DEF TypeOK
    <3> QED BY <3>5, <3>6 DEF TypeOK
  <2>2. PlansAgree'
    BY DEF PlansAgree
  <2>3. HandlersHonest'
    <3>1. \/ busy'[n].pc = "idle"
          \/ /\ busy'[n].pc = "try" /\ busy'[n].rec = busy[n].rec
             /\ busy[n].rec.epoch >= epoch[n]
      BY <1>b DEF TypeOK, BusyState
    <3>2. \A u \in Nodes : u # n => busy'[u] = busy[u] /\ epoch'[u] = epoch[u]
      BY DEF TypeOK
    <3> QED BY <3>1, <3>2 DEF HandlersHonest
  <2>4. EpochsDurable'
    BY DEF TypeOK, EpochsDurable
  <2> QED BY <2>1, <2>2, <2>3, <2>4
<1>5. ASSUME NEW n \in Nodes, NEW x \in Needs, NEW p \in Proposals, NEW e \in Epochs, Decide(n, x, p, e) PROVE IndInv'
  <2> USE <1>5 DEF Decide
  <2>1. TypeOK'
    <3> DEFINE r == [proposal |-> p, epoch |-> e, k |-> 1, by |-> "sender"]
    <3>0. r \in DecideRecord
      BY DEF DecideRecord, Deciders, Epochs
    <3>1. [Idle EXCEPT !.pc = "try", !.need = x, !.rec = r] \in BusyState
      <4> HIDE DEF r
      <4> QED BY <1>b, <3>0 DEF BusyState, Handlers
    <3>5. busy' \in [Nodes -> BusyState]
      BY <1>b, <3>1 DEF TypeOK
    <3>6. epoch' \in [Nodes -> Nat] /\ epochDb' \in [Nodes -> Nat]
      BY DEF TypeOK
    <3> QED BY <3>5, <3>6 DEF TypeOK
  <2>2. PlansAgree'
    BY DEF PlansAgree
  <2>3. HandlersHonest'
    <3>1. busy'[n].pc = "try" /\ busy'[n].rec.proposal = p /\ busy'[n].rec.epoch = e
      BY <1>b DEF TypeOK, BusyState, Idle
    <3>2. \A u \in Nodes : u # n => busy'[u] = busy[u] /\ epoch'[u] = epoch[u]
      BY DEF TypeOK
    <3> QED BY <3>1, <3>2 DEF HandlersHonest, Epochs, TypeOK
  <2>4. EpochsDurable'
    BY DEF TypeOK, EpochsDurable
  <2> QED BY <2>1, <2>2, <2>3, <2>4
<1>6. ASSUME NEW n \in Nodes, TryDecide(n) PROVE IndInv'
  <2> USE <1>6 DEF TryDecide
  <2>1. TypeOK'
    <3>1. [busy[n] EXCEPT !.pc = "won"] \in BusyState
      BY <1>b DEF BusyState, Handlers, DecideRecord, Deciders, Epochs
    <3>2. [busy[n] EXCEPT !.pc = "read"] \in BusyState
      BY <1>b DEF BusyState, Handlers, DecideRecord, Deciders, Epochs
    <3>5. busy' \in [Nodes -> BusyState]
      BY <1>b, <3>1, <3>2 DEF TypeOK
    <3>6. etcd' \in [Needs -> DecideRecord]
      BY <1>b DEF TypeOK, BusyState
    <3> QED BY <3>5, <3>6 DEF TypeOK
  <2>2. PlansAgree'
    <3>0. \A x \in Needs : etcd[x].proposal \in Proposals => etcd'[x] = etcd[x]
      BY DEF TypeOK
    <3>1. ASSUME NEW d \in stated PROVE etcd'[d[2]] = etcd[d[2]]
      <4>1. d[2] \in Needs /\ etcd[d[2]].proposal \in Proposals
        BY <3>1 DEF TypeOK, PlansAgree
      <4> QED BY <3>0, <4>1
    <3>2. ASSUME NEW d \in noted PROVE etcd'[d[2]] = etcd[d[2]]
      <4>1. d[2] \in Needs /\ etcd[d[2]].proposal \in Proposals
        BY <3>2 DEF TypeOK, PlansAgree
      <4> QED BY <3>0, <4>1
    <3> QED BY <3>1, <3>2 DEF PlansAgree
  <2>3. HandlersHonest'
    <3>1. /\ busy'[n].rec = busy[n].rec /\ busy'[n].need = busy[n].need
          /\ \/ busy'[n].pc = "read"
             \/ busy'[n].pc = "won" /\ etcd'[busy[n].need] = busy[n].rec
      BY <1>b DEF TypeOK, BusyState
    <3>2. \A u \in Nodes : u # n => busy'[u] = busy[u] /\ epoch'[u] = epoch[u]
      BY DEF TypeOK
    <3>3. \A x \in Needs : etcd[x].proposal # NoProposal => etcd'[x] = etcd[x]
      BY DEF TypeOK
    <3>4. \A u \in Nodes : busy[u].need \in Needs
      BY <1>b DEF BusyState
    <3> QED BY <3>1, <3>2, <3>3, <3>4 DEF HandlersHonest
  <2>4. EpochsDurable'
    BY DEF TypeOK, EpochsDurable
  <2> QED BY <2>1, <2>2, <2>3, <2>4
<1>7. ASSUME NEW n \in Nodes, ReadExisting(n) PROVE IndInv'
  <2> USE <1>7 DEF ReadExisting
  <2>1. TypeOK'
    <3>1. [busy[n] EXCEPT !.pc = "won"] \in BusyState
      BY <1>b DEF BusyState, Handlers, DecideRecord, Deciders, Epochs
    <3>5. busy' \in [Nodes -> BusyState]
      BY <1>b, <3>1 DEF TypeOK
    <3>6. epoch' \in [Nodes -> Nat] /\ epochDb' \in [Nodes -> Nat]
      BY DEF TypeOK
    <3> QED BY <3>5, <3>6 DEF TypeOK
  <2>2. PlansAgree'
    BY DEF PlansAgree
  <2>3. HandlersHonest'
    <3>1. \/ busy'[n].pc = "idle"
          \/ /\ busy'[n].rec = busy[n].rec /\ busy'[n].need = busy[n].need
             /\ busy'[n].pc = "won" /\ etcd[busy[n].need].proposal = busy[n].rec.proposal
             /\ etcd[busy[n].need].epoch = busy[n].rec.epoch
      BY <1>b DEF TypeOK, BusyState
    <3>2. \A u \in Nodes : u # n => busy'[u] = busy[u] /\ epoch'[u] = epoch[u]
      BY DEF TypeOK
    <3> QED BY <3>1, <3>2 DEF HandlersHonest
  <2>4. EpochsDurable'
    BY DEF TypeOK, EpochsDurable
  <2> QED BY <2>1, <2>2, <2>3, <2>4
<1>8. ASSUME NEW n \in Nodes, Won(n) PROVE IndInv'
  <2> USE <1>8 DEF Won
  <2>1. TypeOK'
    <3>1. [busy[n] EXCEPT !.pc = "annotate"] \in BusyState
      BY <1>b DEF BusyState, Handlers, DecideRecord, Deciders, Epochs
    <3>5. busy' \in [Nodes -> BusyState]
      BY <1>b, <3>1 DEF TypeOK
    <3>6. stated' \subseteq Nodes \X Needs \X Proposals
      BY <1>b DEF TypeOK, HandlersHonest, BusyState
    <3> QED BY <3>5, <3>6 DEF TypeOK
  <2>2. PlansAgree'
    <3>1. etcd[busy[n].need].proposal = busy[n].rec.proposal
      BY DEF HandlersHonest
    <3> QED BY <3>1 DEF PlansAgree
  <2>3. HandlersHonest'
    <3>1. \/ busy'[n].pc = "idle"
          \/ /\ busy'[n].rec = busy[n].rec /\ busy'[n].need = busy[n].need
             /\ busy'[n].pc = "annotate"
      BY <1>b DEF TypeOK, BusyState
    <3>2. \A u \in Nodes : u # n => busy'[u] = busy[u] /\ epoch'[u] = epoch[u]
      BY DEF TypeOK
    <3> QED BY <3>1, <3>2 DEF HandlersHonest
  <2>4. EpochsDurable'
    BY DEF TypeOK, EpochsDurable
  <2> QED BY <2>1, <2>2, <2>3, <2>4
<1>9. ASSUME NEW n \in Nodes, Annotate(n) PROVE IndInv'
  <2> USE <1>9 DEF Annotate
  <2>1. TypeOK'
    <3>5. busy' \in [Nodes -> BusyState]
      BY <1>b DEF TypeOK
    <3>6. noted' \subseteq Nodes \X Needs \X Proposals \X Nat
      BY <1>b DEF TypeOK, HandlersHonest, BusyState, DecideRecord
    <3> QED BY <3>5, <3>6 DEF TypeOK
  <2>2. PlansAgree'
    <3>1. etcd[busy[n].need].proposal = busy[n].rec.proposal
      BY DEF HandlersHonest
    <3>2. etcd[busy[n].need].epoch = busy[n].rec.epoch
      BY DEF HandlersHonest
    <3> QED BY <3>1, <3>2 DEF PlansAgree
  <2>3. HandlersHonest'
    <3>1. busy'[n].pc = "idle"
      BY <1>b DEF TypeOK
    <3>2. \A u \in Nodes : u # n => busy'[u] = busy[u] /\ epoch'[u] = epoch[u]
      BY DEF TypeOK
    <3> QED BY <3>1, <3>2 DEF HandlersHonest
  <2>4. EpochsDurable'
    BY DEF TypeOK, EpochsDurable
  <2> QED BY <2>1, <2>2, <2>3, <2>4
<1>10. ASSUME NEW n \in Nodes, Reconcile(n) PROVE IndInv'
  <2> USE <1>10 DEF Reconcile
  <2>1. TypeOK'
    <3>1. [Idle EXCEPT !.pc = "persist"] \in BusyState
      BY <1>b DEF BusyState, Handlers, DecideRecord, Deciders, Epochs
    <3>5. busy' \in [Nodes -> BusyState]
      BY <1>b, <3>1 DEF TypeOK
    <3>6. epoch' \in [Nodes -> Nat] /\ epochDb' \in [Nodes -> Nat]
      BY DEF TypeOK
    <3> QED BY <3>5, <3>6 DEF TypeOK
  <2>2. PlansAgree'
    BY DEF PlansAgree
  <2>3. HandlersHonest'
    <3>1. busy'[n].pc = "persist"
      BY <1>b DEF TypeOK, BusyState
    <3>2. \A u \in Nodes : u # n => busy'[u] = busy[u] /\ epoch'[u] = epoch[u]
      BY DEF TypeOK
    <3> QED BY <3>1, <3>2 DEF HandlersHonest
  <2>4. EpochsDurable'
    BY DEF TypeOK, EpochsDurable
  <2> QED BY <2>1, <2>2, <2>3, <2>4
<1>11. ASSUME NEW n \in Nodes, PersistEpoch(n) PROVE IndInv'
  <2> USE <1>11 DEF PersistEpoch
  <2>1. TypeOK'
    <3>5. busy' \in [Nodes -> BusyState]
      BY <1>b DEF TypeOK
    <3>6. epoch' \in [Nodes -> Nat] /\ epochDb' \in [Nodes -> Nat]
      BY DEF TypeOK
    <3> QED BY <3>5, <3>6 DEF TypeOK
  <2>2. PlansAgree'
    BY DEF PlansAgree
  <2>3. HandlersHonest'
    <3>1. busy'[n].pc = "idle"
      BY <1>b DEF TypeOK
    <3>2. \A u \in Nodes : u # n => busy'[u] = busy[u] /\ epoch'[u] = epoch[u]
      BY DEF TypeOK
    <3> QED BY <3>1, <3>2 DEF HandlersHonest
  <2>4. EpochsDurable'
    BY DEF TypeOK, EpochsDurable
  <2> QED BY <2>1, <2>2, <2>3, <2>4
<1>12. ASSUME NEW n \in Nodes, Crash(n) PROVE IndInv'
  <2> USE <1>12 DEF Crash
  <2>1. TypeOK'
    <3>5. busy' \in [Nodes -> BusyState]
      BY <1>b DEF TypeOK
    <3>6. tracker' \in [Nodes -> [Needs \X Proposals -> QuorumState]]
      BY DEF TypeOK, QuorumState, NoQuorumState
    <3> QED BY <3>5, <3>6 DEF TypeOK
  <2>2. PlansAgree'
    BY DEF PlansAgree
  <2>3. HandlersHonest'
    <3>1. busy'[n].pc = "idle"
      BY <1>b DEF TypeOK
    <3>2. \A u \in Nodes : u # n => busy'[u] = busy[u] /\ epoch'[u] = epoch[u]
      BY DEF TypeOK
    <3> QED BY <3>1, <3>2 DEF HandlersHonest
  <2>4. EpochsDurable'
    BY DEF TypeOK, EpochsDurable
  <2> QED BY <2>1, <2>2, <2>3, <2>4
<1>20. CASE UNCHANGED vars
  BY <1>20 DEF vars, TypeOK, PlansAgree, HandlersHonest, EpochsDurable
<1> QED
  BY <1>1, <1>2, <1>3, <1>4, <1>5, <1>6, <1>7, <1>8, <1>9, <1>10, <1>11, <1>12, <1>20 DEF Next, HandlerStep

(* Type correctness of the keys, the trackers and every handler.           *)
THEOREM ConsensusTypeCorrect == Spec => []TypeOK
<1>1. IndInv => TypeOK
  BY DEF IndInv
<1> QED BY <1>1, InitInd, StepInd, PTL DEF Spec

(* On every node the annotations of a need carry the proposal and the      *)
(* epoch of the etcd key, and no task is DECIDED for another proposal:     *)
(* handle_decide and try_decide, whatever is retried, raced or crashes.    *)
THEOREM PlansAlwaysAgree == Spec => []PlansAgree
<1>1. IndInv => PlansAgree
  BY DEF IndInv
<1> QED BY <1>1, InitInd, StepInd, PTL DEF Spec

(* No node writes a decision of an epoch older than the one it persisted:  *)
(* validate_epoch before the transaction is enough, since a node advances  *)
(* its epoch only between two handlers.                                    *)
THEOREM AlwaysFenced == Spec => Fenced
<1>1. ASSUME IndInv, [Next]_vars, NEW n \in Nodes, NEW x \in Needs,
             TryDecide(n), busy[n].need = x, etcd'[x] # etcd[x]
      PROVE  etcd'[x].epoch >= epochDb[n]
  <2>1. etcd'[x] = busy[n].rec
    BY <1>1 DEF TryDecide, IndInv, TypeOK
  <2>2. /\ busy[n].rec.epoch >= epoch[n] /\ epochDb[n] <= epoch[n]
        /\ busy[n].rec.epoch \in Nat /\ epochDb[n] \in Nat /\ epoch[n] \in Nat
    BY <1>1 DEF IndInv, HandlersHonest, EpochsDurable, TypeOK, TryDecide, BusyState, DecideRecord
  <2> QED BY <2>1, <2>2
<1>2. ASSUME IndInv, [Next]_vars
      PROVE  [\A n \in Nodes, x \in Needs :
                TryDecide(n) /\ busy[n].need = x /\ etcd'[x] # etcd[x]
                  => etcd'[x].epoch >= epochDb[n]]_vars
  BY <1>1, <1>2
<1> QED BY <1>2, InitInd, StepInd, PTL DEF Spec, Fenced

-----------------------------------------------------------------------------
(* The inductive strengthening of QuorumBacked.  What a tracker counts was *)
(* cast, and a handler that is about to decide for the quorum still has    *)
(* that quorum in its tracker.                                             *)
Voters(x, p) == {v \in Verifiers : [need |-> x, proposal |-> p, verifier |-> v] \in cast}

CountedWereCast ==
    \A n \in Nodes, x \in Needs, p \in Proposals :
      tracker[n][<<x, p>>].attestations \subseteq Voters(x, p)

CarriesQuorum(n) ==
    /\ busy[n].rec.by = "quorum-system"
    /\ busy[n].pc = "try" \/ (busy[n].pc = "append" /\ busy[n].quorum)

QuorumHolds ==
    \A n \in Nodes :
      CarriesQuorum(n) => has_quorum(tracker[n][<<busy[n].need, busy[n].rec.proposal>>])

BackedInv == CountedWereCast /\ QuorumHolds

(* Init establishes it.                                                    *)
LEMMA InitBacked == Init => BackedInv
<1> SUFFICES ASSUME Init PROVE BackedInv
  OBVIOUS
<1>1. CountedWereCast
  BY DEF Init, CountedWereCast, NoQuorumState
<1>2. \A n \in Nodes : busy[n].pc = "idle"
  BY DEF Init, Idle
<1> QED  BY <1>1, <1>2 DEF BackedInv, QuorumHolds, CarriesQuorum

(* A handler's step leaves the trackers alone and moves on with the same   *)
(* need, proposal and quorum flag, or ends.                                *)
LEMMA BackedLater ==
    ASSUME BackedInv, NEW n \in Nodes, tracker' = tracker, cast \subseteq cast',
           \A k \in Nodes : k # n => busy'[k] = busy[k],
           CarriesQuorum(n)' => /\ CarriesQuorum(n)
                                /\ busy'[n].need = busy[n].need /\ busy'[n].rec = busy[n].rec
    PROVE  BackedInv'
<1>1. CountedWereCast'
  BY DEF BackedInv, CountedWereCast, Voters
<1>2. ASSUME NEW k \in Nodes, CarriesQuorum(k)'
      PROVE  has_quorum(tracker[k][<<busy[k].need, busy[k].rec.proposal>>])'
  <2>1. CarriesQuorum(k) /\ busy'[k].need = busy[k].need /\ busy'[k].rec = busy[k].rec
    BY <1>2 DEF CarriesQuorum
  <2>2. has_quorum(tracker[k][<<busy[k].need, busy[k].rec.proposal>>])
    BY <2>1 DEF BackedInv, QuorumHolds
  <2> QED  BY <2>1, <2>2 DEF has_quorum
<1> QED  BY <1>1, <1>2 DEF BackedInv, QuorumHolds

(* Every action preserves it.                                              *)
LEMMA StepBacked == IndInv /\ BackedInv /\ [Next]_vars => BackedInv'
<1> SUFFICES ASSUME IndInv, BackedInv, [Next]_vars PROVE BackedInv'
  OBVIOUS
<1> USE ConsensusAssumption DEF Enter, Return
<1>t. /\ busy \in [Nodes -> BusyState] /\ cast \subseteq Vote
      /\ tracker \in [Nodes -> [Needs \X Proposals -> QuorumState]]
      /\ Idle.pc = "idle"
  BY DEF IndInv, TypeOK, Idle
<1>1. ASSUME NEW v \in Verifiers, NEW x \in Needs, NEW p \in Proposals, CastVote(v, x, p)
      PROVE  BackedInv'
  BY <1>1 DEF CastVote, BackedInv, CountedWereCast, QuorumHolds, Voters, CarriesQuorum, has_quorum
<1>2. ASSUME UNCHANGED <<tracker, busy, cast>> PROVE BackedInv'
  BY <1>2 DEF BackedInv, CountedWereCast, QuorumHolds, Voters, CarriesQuorum, has_quorum
<1>3. ASSUME NEW n \in Nodes, NEW m \in Vote, AttestPlan(n, m) PROVE BackedInv'
  <2> DEFINE s == tracker[n][<<m.need, m.proposal>>]
             t == recorded(s, m.verifier, get_k_plan(ActiveVerifiers))
  <2>1. /\ tracker' = [tracker EXCEPT ![n][<<m.need, m.proposal>>] = t]
        /\ busy' = [busy EXCEPT ![n] = [pc |-> "append", need |-> m.need,
                        rec |-> [proposal |-> m.proposal, epoch |-> 1,
                                 k |-> get_k_plan(ActiveVerifiers), by |-> "quorum-system"],
                        quorum |-> has_quorum(t) /\ ~has_quorum(s)]]
        /\ cast' = cast /\ m \in cast
    BY <1>3 DEF AttestPlan
  <2>2. t.attestations = s.attestations \cup {m.verifier}
    BY DEF recorded
  <2>3. m.need \in Needs /\ m.proposal \in Proposals /\ m.verifier \in Verifiers
        /\ m = [need |-> m.need, proposal |-> m.proposal, verifier |-> m.verifier]
    BY DEF Vote
  <2> HIDE DEF s, t
  <2>4. /\ tracker'[n][<<m.need, m.proposal>>] = t
        /\ \A k \in Nodes : k # n => tracker'[k] = tracker[k]
        /\ \A d \in Needs \X Proposals :
             d # <<m.need, m.proposal>> => tracker'[n][d] = tracker[n][d]
    BY <1>t, <2>1, <2>3
  <2>5. CountedWereCast'
    <3> SUFFICES ASSUME NEW k \in Nodes, NEW x \in Needs, NEW p \in Proposals,
                        NEW v \in tracker'[k][<<x, p>>].attestations
                 PROVE  v \in Voters(x, p)
      BY <2>1 DEF CountedWereCast, Voters
    <3>1. tracker[k][<<x, p>>].attestations \subseteq Voters(x, p)
      BY DEF BackedInv, CountedWereCast
    <3>2. CASE k = n /\ x = m.need /\ p = m.proposal
      <4>1. v \in s.attestations \/ v = m.verifier
        BY <2>2, <2>4, <3>2
      <4>2. m.verifier \in Voters(x, p)
        BY <2>1, <2>3, <3>2 DEF Voters
      <4> QED  BY <3>1, <3>2, <4>1, <4>2 DEF s
    <3>3. CASE ~(k = n /\ x = m.need /\ p = m.proposal)
      <4>1. tracker'[k][<<x, p>>] = tracker[k][<<x, p>>]
        BY <2>4, <3>3
      <4> QED  BY <3>1, <4>1
    <3> QED  BY <3>2, <3>3
  <2>6. /\ busy'[n].need = m.need /\ busy'[n].rec.proposal = m.proposal /\ busy'[n].pc = "append"
        /\ busy'[n].quorum = (has_quorum(t) /\ ~has_quorum(s))
        /\ \A k \in Nodes : k # n => busy'[k] = busy[k]
    BY <1>t, <2>1
  <2>7. ASSUME NEW k \in Nodes, CarriesQuorum(k)'
        PROVE  has_quorum(tracker[k][<<busy[k].need, busy[k].rec.proposal>>])'
    <3>1. CASE k = n
      <4>1. has_quorum(t)
        BY <2>6, <2>7, <3>1 DEF CarriesQuorum
      <4> QED  BY <2>4, <2>6, <3>1, <4>1 DEF has_quorum
    <3>2. CASE k # n
      <4>1. CarriesQuorum(k)
        BY <2>6, <2>7, <3>2 DEF CarriesQuorum
      <4>2. has_quorum(tracker[k][<<busy[k].need, busy[k].rec.proposal>>])
        BY <4>1 DEF BackedInv, QuorumHolds
      <4> QED  BY <2>4, <2>6, <3>2, <4>2 DEF has_quorum
    <3> QED  BY <3>1, <3>2
  <2> QED  BY <2>5, <2>7 DEF BackedInv, QuorumHolds
<1>4. ASSUME NEW n \in Nodes, NEW h, busy' = [busy EXCEPT ![n] = h], UNCHANGED <<tracker, cast>>,
             h.pc \in {"idle", "read", "won", "annotate", "persist"} \/ h.rec.by = "sender"
      PROVE  BackedInv'
  <2>1. busy'[n] = h /\ \A k \in Nodes : k # n => busy'[k] = busy[k]
    BY <1>4, <1>t
  <2>2. ~CarriesQuorum(n)'
    BY <1>4, <2>1 DEF CarriesQuorum
  <2> QED  BY <1>4, <2>1, <2>2, BackedLater
<1>5. ASSUME NEW n \in Nodes, AttestPlanDecide(n) PROVE BackedInv'
  <2>1. CASE busy[n].quorum /\ busy[n].rec.epoch >= epoch[n]
    <3>1. /\ UNCHANGED <<tracker, cast>> /\ busy[n].pc = "append"
          /\ busy' = [busy EXCEPT ![n] = [busy[n] EXCEPT !.pc = "try"]]
      BY <1>5, <2>1 DEF AttestPlanDecide
    <3>2. /\ \A k \in Nodes : k # n => busy'[k] = busy[k]
          /\ busy'[n] = [busy[n] EXCEPT !.pc = "try"] /\ busy[n] \in BusyState
      BY <1>t, <3>1
    <3>3. busy'[n].need = busy[n].need /\ busy'[n].rec = busy[n].rec
      BY <3>2 DEF BusyState
    <3>4. CarriesQuorum(n)' => CarriesQuorum(n)
      BY <2>1, <3>1, <3>3 DEF CarriesQuorum
    <3> QED  BY <3>1, <3>2, <3>3, <3>4, BackedLater
  <2>2. CASE ~(busy[n].quorum /\ busy[n].rec.epoch >= epoch[n])
    BY <1>5, <1>4, <1>t, <2>2 DEF AttestPlanDecide
  <2> QED  BY <2>1, <2>2
<1>6. ASSUME NEW n \in Nodes, NEW x \in Needs, NEW p \in Proposals, NEW e \in Epochs,
             Decide(n, x, p, e)
      PROVE  BackedInv'
  BY <1>6, <1>4 DEF Decide, Idle
<1>7. ASSUME NEW n \in Nodes, TryDecide(n) \/ ReadExisting(n) \/ Won(n) PROVE BackedInv'
  <2>1. busy[n] \in BusyState
    BY <1>t
  <2>2. PICK h : /\ busy' = [busy EXCEPT ![n] = h] /\ UNCHANGED <<tracker, cast>>
                 /\ h \in {Idle, [busy[n] EXCEPT !.pc = "won"], [busy[n] EXCEPT !.pc = "read"],
                           [busy[n] EXCEPT !.pc = "annotate"]}
    BY <1>7 DEF TryDecide, ReadExisting, Won
  <2>3. h.pc \in {"idle", "read", "won", "annotate"}
    BY <1>t, <2>1, <2>2 DEF BusyState
  <2> QED  BY <1>4, <2>2, <2>3
<1>8. ASSUME NEW n \in Nodes, Annotate(n) \/ PersistEpoch(n) PROVE BackedInv'
  BY <1>8, <1>4, <1>t DEF Annotate, PersistEpoch
<1>9. ASSUME NEW n \in Nodes, Reconcile(n) PROVE BackedInv'
  BY <1>9, <1>4 DEF Reconcile, Idle
<1>10. ASSUME NEW n \in Nodes, Crash(n) PROVE BackedInv'
  <2>1. /\ cast' = cast /\ busy'[n] = Idle
        /\ \A k \in Nodes : k # n => busy'[k] = busy[k] /\ tracker'[k] = tracker[k]
        /\ tracker'[n] = [d \in Needs \X Proposals |-> NoQuorumState]
    BY <1>10, <1>t DEF Crash
  <2>2. CountedWereCast'
    BY <2>1 DEF BackedInv, CountedWereCast, Voters, NoQuorumState
  <2>3. ~CarriesQuorum(n)'
    BY <1>t, <2>1 DEF CarriesQuorum
  <2>4. QuorumHolds'
    BY <2>1, <2>3 DEF BackedInv, QuorumHolds, CarriesQuorum, has_quorum
  <2> QED  BY <2>2, <2>4 DEF BackedInv
<1>11. ASSUME NEW v \in Churn, PoolChange(v) PROVE BackedInv'
  BY <1>11, <1>2 DEF PoolChange
<1>12. ASSUME NEW v \in Verifiers, NEW x \in Needs, NEW p \in VotedFor, CastVote(v, x, p)
       PROVE  BackedInv'
  BY <1>12, <1>1
<1>13. CASE UNCHANGED vars
  BY <1>13, <1>2 DEF vars
<1> QED  BY <1>3, <1>5, <1>6, <1>7, <1>8, <1>9, <1>10, <1>11, <1>12, <1>13 DEF Next, HandlerStep

(* A decision that try_decide writes on behalf of the quorum rests on at   *)
(* least as many different verifiers as the tracker asked for, in every    *)
(* cluster and whatever is redelivered, crashes or leaves the pool between *)
(* the vote and the transaction (attest_plan.py, quorum.py, adapter.py).   *)
THEOREM QuorumAlwaysBacked == Spec => QuorumBacked
<1>1. ASSUME IndInv, BackedInv, NEW n \in Nodes, NEW x \in Needs, TryDecide(n),
             busy[n].need = x, busy[n].rec.by = "quorum-system"
      PROVE  /\ tracker[n][<<x, busy[n].rec.proposal>>].k >= 1
             /\ tracker[n][<<x, busy[n].rec.proposal>>].k
                  <= Cardinality(Voters(x, busy[n].rec.proposal))
  <2>1. PICK p \in Proposals : p = busy[n].rec.proposal
    BY <1>1 DEF IndInv, HandlersHonest, TryDecide
  <2>2. PICK s \in QuorumState : s = tracker[n][<<x, p>>]
    BY <1>1 DEF IndInv, TypeOK
  <2>3. has_quorum(s)
    BY <1>1, <2>1, <2>2 DEF BackedInv, QuorumHolds, CarriesQuorum, TryDecide
  <2>4. s.attestations \subseteq Voters(x, p)
    BY <1>1, <2>2 DEF BackedInv, CountedWereCast
  <2>5. IsFiniteSet(Voters(x, p))
    BY ConsensusAssumption, FS_Subset DEF Voters
  <2>6. /\ Cardinality(s.attestations) <= Cardinality(Voters(x, p))
        /\ Cardinality(s.attestations) \in Nat /\ Cardinality(Voters(x, p)) \in Nat
    BY <2>4, <2>5, FS_Subset, FS_CardinalityType
  <2>7. s.k \in Nat
    BY DEF QuorumState
  <2>8. s.k >= 1 /\ s.k <= Cardinality(Voters(x, p))
    BY <2>3, <2>6, <2>7 DEF has_quorum
  <2> QED  BY <2>1, <2>2, <2>8
<1>2. ASSUME IndInv, BackedInv
      PROVE  [\A n \in Nodes, x \in Needs :
                TryDecide(n) /\ busy[n].need = x /\ etcd'[x] # etcd[x]
                      /\ busy[n].rec.by = "quorum-system" =>
                  LET p == busy[n].rec.proposal IN
                  /\ tracker[n][<<x, p>>].k >= 1
                  /\ tracker[n][<<x, p>>].k <=
                       Cardinality({v \in Verifiers :
                         [need |-> x, proposal |-> p, verifier |-> v] \in cast})]_vars
  BY <1>1, <1>2 DEF Voters
<1> QED  BY <1>2, InitInd, StepInd, InitBacked, StepBacked, PTL DEF Spec, QuorumBacked

(* What the abstract specification sees.                                   *)
Chosen == [x \in Needs |-> etcd[x].proposal]
Learned == {<<d[2], d[3]>> : d \in stated \cup noted}

(* A step of the handlers is a step of DecideOnce or leaves it alone.      *)
LEMMA StepRefines ==
  IndInv /\ [Next]_vars => [Abstract!Next]_(Abstract!vars)
<1> SUFFICES ASSUME IndInv, [Next]_vars
             PROVE  Abstract!Next \/ (Chosen' = Chosen /\ Learned' = Learned)
  BY DEF Abstract!vars, Chosen, Learned
<1> USE ConsensusAssumption
<1>1. ASSUME UNCHANGED <<etcd, stated, noted>> PROVE Chosen' = Chosen /\ Learned' = Learned
  BY <1>1 DEF Chosen, Learned
<1>2. ASSUME NEW n \in Nodes, TryDecide(n)
      PROVE  Abstract!Next \/ (Chosen' = Chosen /\ Learned' = Learned)
  <2>1. PICK x \in Needs, p \in Proposals : x = busy[n].need /\ p = busy[n].rec.proposal
    BY <1>2 DEF IndInv, TypeOK, HandlersHonest, TryDecide, BusyState
  <2>2. Learned' = Learned
    BY <1>2 DEF TryDecide, Learned
  <2>3. CASE etcd[x].proposal = NoProposal
    <3>1. etcd' = [etcd EXCEPT ![x] = busy[n].rec]
      BY <1>2, <2>1, <2>3 DEF TryDecide
    <3>2. Chosen' = [Chosen EXCEPT ![x] = p]
      BY <3>1, <2>1 DEF Chosen, IndInv, TypeOK
    <3>3. Chosen[x] = NoProposal
      BY <2>1, <2>3 DEF Chosen
    <3>4. Abstract!Choose(x, p)
      BY <3>2, <3>3, <2>2 DEF Abstract!Choose, Chosen, Learned
    <3> QED BY <3>4, <2>1 DEF Abstract!Next
  <2>4. CASE etcd[x].proposal # NoProposal
    BY <1>2, <2>1, <2>2, <2>4 DEF TryDecide, Chosen
  <2> QED BY <2>3, <2>4
<1>3. ASSUME NEW n \in Nodes,
             busy[n].pc \in {"won", "annotate"},
             etcd' = etcd,
             NEW e, e[2] = busy[n].need, e[3] = busy[n].rec.proposal,
             stated' \cup noted' = (stated \cup noted) \cup {e}
      PROVE  Abstract!Next
  <2>1. PICK x \in Needs, p \in Proposals :
          x = busy[n].need /\ p = busy[n].rec.proposal /\ etcd[x].proposal = p
    BY <1>3 DEF IndInv, TypeOK, HandlersHonest, BusyState
  <2>2. Learned' = Learned \cup {<<x, p>>}
    <3>1. PICK S : S = stated \cup noted
      OBVIOUS
    <3>2. Learned = {<<d[2], d[3]>> : d \in S}
      BY <3>1 DEF Learned
    <3>3. Learned' = {<<d[2], d[3]>> : d \in S \cup {e}}
      BY <1>3, <3>1 DEF Learned
    <3> DEFINE g(d) == <<d[2], d[3]>>
    <3>4. g(e) = <<x, p>>
      BY <1>3, <2>1
    <3> HIDE DEF g
    <3>5. Learned = {g(d) : d \in S} /\ Learned' = {g(d) : d \in S \cup {e}}
      BY <3>2, <3>3 DEF g
    <3>6. {g(d) : d \in S \cup {e}} = {g(d) : d \in S} \cup {g(e)}
      OBVIOUS
    <3> QED BY <3>4, <3>5, <3>6
  <2>3. Chosen' = Chosen /\ Chosen[x] = p
    BY <1>3, <2>1 DEF Chosen
  <2>4. Abstract!Learn(x, p)
    BY <2>2, <2>3 DEF Abstract!Learn, Chosen, Learned
  <2> QED BY <2>1, <2>4 DEF Abstract!Next
<1>4. ASSUME NEW n \in Nodes, Won(n)
      PROVE  Abstract!Next \/ (Chosen' = Chosen /\ Learned' = Learned)
  <2>1. CASE busy[n].rec.by = "quorum-system"
    BY <1>1, <1>4, <2>1 DEF Won
  <2>2. CASE busy[n].rec.by # "quorum-system"
    <3> DEFINE e == <<n, busy[n].need, busy[n].rec.proposal>>
    <3>1. e[2] = busy[n].need /\ e[3] = busy[n].rec.proposal
      OBVIOUS
    <3>2. /\ busy[n].pc = "won" /\ etcd' = etcd /\ noted' = noted
          /\ stated' = stated \/ stated' = stated \cup {e}
      BY <1>4, <2>2 DEF Won
    <3> HIDE DEF e
    <3> QED BY <1>1, <1>3, <3>1, <3>2
  <2> QED BY <2>1, <2>2
<1>5. ASSUME NEW n \in Nodes, Annotate(n) PROVE Abstract!Next
  <2> DEFINE e == <<n, busy[n].need, busy[n].rec.proposal, busy[n].rec.epoch>>
  <2>1. e[2] = busy[n].need /\ e[3] = busy[n].rec.proposal
    OBVIOUS
  <2>2. /\ busy[n].pc = "annotate" /\ etcd' = etcd /\ stated' = stated
        /\ noted' = noted \cup {e}
    BY <1>5 DEF Annotate
  <2> HIDE DEF e
  <2> QED BY <1>3, <2>1, <2>2
<1>6. CASE UNCHANGED vars
  BY <1>1, <1>6 DEF vars
<1>7. ASSUME NEW n \in Nodes,
             \/ AttestPlanDecide(n) \/ ReadExisting(n) \/ PersistEpoch(n)
             \/ Reconcile(n) \/ Crash(n)
      PROVE  UNCHANGED <<etcd, stated, noted>>
  BY <1>7 DEF AttestPlanDecide, ReadExisting, PersistEpoch, Reconcile, Crash
<1>8. ASSUME NEW n \in Nodes,
             \/ \E m \in Vote : AttestPlan(n, m)
             \/ \E x \in Needs, p \in Proposals, e \in Epochs : Decide(n, x, p, e)
      PROVE  UNCHANGED <<etcd, stated, noted>>
  BY <1>8 DEF AttestPlan, Decide
<1>9. ASSUME \/ \E v \in Churn : PoolChange(v)
             \/ \E v \in Verifiers, x \in Needs, p \in VotedFor : CastVote(v, x, p)
      PROVE  UNCHANGED <<etcd, stated, noted>>
  BY <1>9 DEF PoolChange, CastVote
<1> QED BY <1>1, <1>2, <1>4, <1>5, <1>6, <1>7, <1>8, <1>9 DEF Next, HandlerStep

(* The quorum path and the DECIDE path together implement "at most one     *)
(* DECIDE per NEED": one proposal is chosen, plans learn only that one.    *)
THEOREM ConsensusImplementsDecideOnce == Spec => ImplementsDecideOnce
<1>1. Init => Abstract!Init
  BY ConsensusAssumption DEF Init, NoRecord, Abstract!Init
<1> QED BY <1>1, InitInd, StepInd, StepRefines, PTL
        DEF Spec, ImplementsDecideOnce, Abstract!Spec

=============================================================================
