----------------------------- MODULE Consensus -----------------------------
(***************************************************************************)
(* DECIDE by quorum: the ATTEST_PLAN, DECIDE and RECONCILE handlers, the   *)
(* QuorumTracker (in memory), the EpochManager (in memory, persisted in    *)
(* SQLite) and RaftConsensusAdapter.try_decide over one etcd cluster, with *)
(* use_raft_consensus() on and raft_adapter injected.                      *)
(*                                                                         *)
(* Each node runs its handlers one at a time (subscribe_envelopes awaits   *)
(* the handler before it fetches the next message); a handler is split at  *)
(* its awaits and around its etcd calls, where other nodes, the verifier   *)
(* pool and a crash can get in.  Envelopes are redelivered until they are  *)
(* acknowledged and may be redelivered after that.                         *)
(***************************************************************************)
EXTENDS Integers, FiniteSets

CONSTANTS
    Nodes,        \* coordinator processes
    Trackers,     \* those that are subscribed to ATTEST_PLAN
    Needs,
    Proposals,
    NoProposal,
    Verifiers,    \* verifiers that send ATTEST_PLAN
    Churn,        \* those that may leave and join the pool of active verifiers
    VotedFor,     \* the proposals verifiers may approve
    OtherActive,  \* number of active verifiers that never vote
    MaxEpoch,     \* bound: RECONCILE does not advance an epoch beyond
    MaxCrashes    \* bound: crashes of all nodes together

ASSUME ConsensusAssumption ==
    /\ Needs # {}
    /\ NoProposal \notin Proposals
    /\ Trackers \subseteq Nodes
    /\ IsFiniteSet(Verifiers)
    /\ Churn \subseteq Verifiers
    /\ VotedFor \subseteq Proposals
    /\ OtherActive \in Nat
    /\ MaxEpoch \in Nat /\ MaxEpoch >= 1
    /\ MaxCrashes \in Nat

VARIABLES
    etcd,       \* the decide keys: need -> record
    tracker,    \* QuorumTracker.states of each node
    epoch,      \* EpochManager.current_epoch of each node
    epochDb,    \* the epoch_state row of each node
    busy,       \* the handler each node is in
    cast,       \* ATTEST_PLAN envelopes (verdict "approve") on the bus
    pool,       \* active verifiers among Verifiers
    stated,     \* <<node, need, proposal>>: STATE DECIDED op in the node's plan
    noted,      \* <<node, need, proposal, epoch>>: its decide annotations
    crashes

vars == <<etcd, tracker, epoch, epochDb, busy, cast, pool, stated, noted, crashes>>

Epochs == 1..MaxEpoch

Deciders == {"quorum-system", "sender"}

DecideRecord == [proposal : Proposals \cup {NoProposal}, epoch : Nat, k : Nat,
                 by : Deciders]

NoRecord == [proposal |-> NoProposal, epoch |-> 0, k |-> 0, by |-> "sender"]

(* k_plan_required is fixed by the first attestation; 0: no state yet.     *)
QuorumState == [attestations : SUBSET Verifiers, k : Nat]

NoQuorumState == [attestations |-> {}, k |-> 0]

Vote == [need : Needs, proposal : Proposals, verifier : Verifiers]

Handlers == {"idle", "append", "try", "read", "won", "annotate", "persist"}

(* A handler in progress: the arguments it will pass to try_decide.        *)
BusyState == [pc : Handlers, need : Needs, rec : DecideRecord, quorum : BOOLEAN]

Idle == [pc |-> "idle", need |-> CHOOSE x \in Needs : TRUE,
         rec |-> NoRecord, quorum |-> FALSE]

Min2(a, b) == IF a < b THEN a ELSE b
Max2(a, b) == IF a > b THEN a ELSE b

(* QuorumTracker.get_k_plan with alpha = 0.3 and k_target = 5. *)
get_k_plan(active) == Min2(5, Max2(1, (active * 3) \div 10))

ActiveVerifiers == Cardinality(pool) + OtherActive

(* Faulty variant: one vote short of the quorum is enough.                 *)
has_quorum_OneShort(s) == s.k > 0 /\ Cardinality(s.attestations) + 1 >= s.k

has_quorum(s) == s.k > 0 /\ Cardinality(s.attestations) >= s.k

(* QuorumTracker.record_attestation: state created on first use.           *)
recorded(s, v, k) == [attestations |-> s.attestations \cup {v},
                      k |-> IF s.k = 0 THEN k ELSE s.k]

-----------------------------------------------------------------------------
Init ==
    /\ etcd = [x \in Needs |-> NoRecord]
    /\ tracker = [n \in Nodes |-> [d \in Needs \X Proposals |-> NoQuorumState]]
    /\ epoch = [n \in Nodes |-> 1]
    /\ epochDb = [n \in Nodes |-> 1]
    /\ busy = [n \in Nodes |-> Idle]
    /\ cast = {}
    /\ pool = Verifiers \ Churn
    /\ stated = {}
    /\ noted = {}
    /\ crashes = 0

Enter(n, h) == busy' = [busy EXCEPT ![n] = h]

(* The handler returns; the acknowledgement can be lost, so the envelope   *)
(* may still come again.                                                   *)
Return(n) == Enter(n, Idle)

-----------------------------------------------------------------------------
(* Verifiers and their pool.                                               *)
CastVote(v, x, p) ==
    /\ v \in pool
    /\ cast' = cast \cup {[need |-> x, proposal |-> p, verifier |-> v]}
    /\ UNCHANGED <<etcd, tracker, epoch, epochDb, busy, pool, stated, noted, crashes>>

PoolChange(v) ==
    /\ pool' = IF v \in pool THEN pool \ {v} ELSE pool \cup {v}
    /\ UNCHANGED <<etcd, tracker, epoch, epochDb, busy, cast, stated, noted, crashes>>

-----------------------------------------------------------------------------
(* handle_attest_plan, up to the await of append_op.  A sender outside the *)
(* pool is turned away without effect, any other is recorded.  k_plan is   *)
(* computed from the pool of now, and becomes the k_plan of the DECIDE if  *)
(* this is the vote that completes the quorum.                             *)
AttestPlan(n, m) ==
    /\ n \in Trackers /\ busy[n].pc = "idle" /\ m \in cast
    /\ m.verifier \in pool
    /\ LET k == get_k_plan(ActiveVerifiers)
           s == tracker[n][<<m.need, m.proposal>>]
           t == recorded(s, m.verifier, k)
       IN  /\ tracker' = [tracker EXCEPT ![n][<<m.need, m.proposal>>] = t]
           /\ Enter(n, [pc |-> "append", need |-> m.need,
                        rec |-> [proposal |-> m.proposal, epoch |-> 1, k |-> k,
                                 by |-> "quorum-system"],
                        quorum |-> has_quorum(t) /\ ~has_quorum(s)])
    /\ UNCHANGED <<etcd, epoch, epochDb, cast, pool, stated, noted, crashes>>

(* Faulty variant: an equal epoch is fenced off too.                       *)
AttestPlanDecide_Strict(n) ==
    /\ busy[n].pc = "append"
    /\ IF busy[n].quorum /\ busy[n].rec.epoch > epoch[n]
       THEN Enter(n, [busy[n] EXCEPT !.pc = "try"])
       ELSE Return(n)
    /\ UNCHANGED <<etcd, tracker, epoch, epochDb, cast, pool, stated, noted, crashes>>

(* After the append: only the vote that completed the quorum goes on to    *)
(* try_decide, whose first step compares the epoch (envelopes carry none,  *)
(* so it is 1) with the node's.                                            *)
AttestPlanDecide(n) ==
    /\ busy[n].pc = "append"
    /\ IF busy[n].quorum /\ busy[n].rec.epoch >= epoch[n]
       THEN Enter(n, [busy[n] EXCEPT !.pc = "try"])
       ELSE Return(n)
    /\ UNCHANGED <<etcd, tracker, epoch, epochDb, cast, pool, stated, noted, crashes>>

(* Faulty variant: the epoch is not compared.                              *)
Decide_Unfenced(n, x, p, e) ==
    /\ busy[n].pc = "idle"
    /\ Enter(n, [Idle EXCEPT !.pc = "try", !.need = x,
                   !.rec = [proposal |-> p, epoch |-> e, k |-> 1, by |-> "sender"]])
    /\ UNCHANGED <<etcd, tracker, epoch, epochDb, cast, pool, stated, noted, crashes>>

(* handle_decide: a DECIDE envelope with any proposal and epoch.  One that *)
(* is fenced off returns at once and changes nothing.                      *)
Decide(n, x, p, e) ==
    /\ busy[n].pc = "idle"
    /\ e >= epoch[n]
    /\ Enter(n, [Idle EXCEPT !.pc = "try", !.need = x,
                   !.rec = [proposal |-> p, epoch |-> e, k |-> 1, by |-> "sender"]])
    /\ UNCHANGED <<etcd, tracker, epoch, epochDb, cast, pool, stated, noted, crashes>>

(* Faulty variant: a record of a newer epoch replaces an older one.        *)
TryDecide_Replaces(n) ==
    LET x == busy[n].need IN
    /\ busy[n].pc = "try"
    /\ IF etcd[x].proposal = NoProposal \/ etcd[x].epoch < busy[n].rec.epoch
       THEN /\ etcd' = [etcd EXCEPT ![x] = busy[n].rec]
            /\ Enter(n, [busy[n] EXCEPT !.pc = "won"])
       ELSE /\ Enter(n, [busy[n] EXCEPT !.pc = "read"])
            /\ UNCHANGED etcd
    /\ UNCHANGED <<tracker, epoch, epochDb, cast, pool, stated, noted, crashes>>

(* try_decide: the etcd transaction puts the record if the key is new.     *)
TryDecide(n) ==
    LET x == busy[n].need IN
    /\ busy[n].pc = "try"
    /\ IF etcd[x].proposal = NoProposal
       THEN /\ etcd' = [etcd EXCEPT ![x] = busy[n].rec]
            /\ Enter(n, [busy[n] EXCEPT !.pc = "won"])
       ELSE /\ Enter(n, [busy[n] EXCEPT !.pc = "read"])
            /\ UNCHANGED etcd
    /\ UNCHANGED <<tracker, epoch, epochDb, cast, pool, stated, noted, crashes>>

(* Faulty variant: a retry is recognised by its proposal alone.            *)
ReadExisting_AnyEpoch(n) ==
    /\ busy[n].pc = "read"
    /\ IF etcd[busy[n].need].proposal = busy[n].rec.proposal
       THEN Enter(n, [busy[n] EXCEPT !.pc = "won"])
       ELSE Return(n)
    /\ UNCHANGED <<etcd, tracker, epoch, epochDb, cast, pool, stated, noted, crashes>>

(* The key exists: a retry of the same proposal in the same epoch has won, *)
(* anything else is a conflict.                                            *)
ReadExisting(n) ==
    /\ busy[n].pc = "read"
    /\ IF /\ etcd[busy[n].need].proposal = busy[n].rec.proposal
          /\ etcd[busy[n].need].epoch = busy[n].rec.epoch
       THEN Enter(n, [busy[n] EXCEPT !.pc = "won"])
       ELSE Return(n)
    /\ UNCHANGED <<etcd, tracker, epoch, epochDb, cast, pool, stated, noted, crashes>>

(* A record was returned: ATTEST_PLAN is done; DECIDE appends the STATE op *)
(* of the task, if its payload names one ...                               *)
Won(n) ==
    /\ busy[n].pc = "won"
    /\ IF busy[n].rec.by = "quorum-system"
       THEN Return(n) /\ UNCHANGED stated
       ELSE /\ \E task_id \in BOOLEAN :
                 stated' = IF task_id
                           THEN stated \cup {<<n, busy[n].need, busy[n].rec.proposal>>}
                           ELSE stated
            /\ Enter(n, [busy[n] EXCEPT !.pc = "annotate"])
    /\ UNCHANGED <<etcd, tracker, epoch, epochDb, cast, pool, noted, crashes>>

(* ... and, after that await, the annotation of the task or of the need.   *)
Annotate(n) ==
    /\ busy[n].pc = "annotate"
    /\ noted' = noted \cup
         {<<n, busy[n].need, busy[n].rec.proposal, busy[n].rec.epoch>>}
    /\ Return(n)
    /\ UNCHANGED <<etcd, tracker, epoch, epochDb, cast, pool, stated, crashes>>

-----------------------------------------------------------------------------
(* handle_reconcile: advance_epoch counts in memory, then persists.  The   *)
(* orphan annotations are coroutines nobody awaits: they write nothing.    *)
Reconcile(n) ==
    /\ busy[n].pc = "idle" /\ epoch[n] < MaxEpoch
    /\ epoch' = [epoch EXCEPT ![n] = @ + 1]
    /\ Enter(n, [Idle EXCEPT !.pc = "persist"])
    /\ UNCHANGED <<etcd, tracker, epochDb, cast, pool, stated, noted, crashes>>

PersistEpoch(n) ==
    /\ busy[n].pc = "persist"
    /\ epochDb' = [epochDb EXCEPT ![n] = epoch[n]]
    /\ Enter(n, Idle)
    /\ UNCHANGED <<etcd, tracker, epoch, cast, pool, stated, noted, crashes>>

(* A crash, or an exception that ends the runner, and the restart: the     *)
(* tracker starts empty, the epoch is loaded from the database.            *)
Crash(n) ==
    /\ crashes < MaxCrashes
    /\ crashes' = crashes + 1
    /\ tracker' = [tracker EXCEPT ![n] = [d \in Needs \X Proposals |-> NoQuorumState]]
    /\ epoch' = [epoch EXCEPT ![n] = epochDb[n]]
    /\ Enter(n, Idle)
    /\ UNCHANGED <<etcd, epochDb, cast, pool, stated, noted>>

-----------------------------------------------------------------------------
HandlerStep(n) ==
    \/ AttestPlanDecide(n)
    \/ TryDecide(n)
    \/ ReadExisting(n)
    \/ Won(n)
    \/ Annotate(n)
    \/ PersistEpoch(n)

Next ==
    \/ \E v \in Churn : PoolChange(v)
    \/ \E v \in Verifiers, x \in Needs, p \in VotedFor : CastVote(v, x, p)
    \/ \E n \in Nodes :
         \/ \E m \in Vote : AttestPlan(n, m)
         \/ \E x \in Needs, p \in Proposals, e \in Epochs : Decide(n, x, p, e)
         \/ Reconcile(n)
         \/ HandlerStep(n)
         \/ Crash(n)

Spec == Init /\ [][Next]_vars

(* A started handler finishes: etcd and SQLite answer.                     *)
FairSpec == Spec /\ \A n \in Nodes : WF_vars(HandlerStep(n))

-----------------------------------------------------------------------------
(* Types of the keys, the trackers, the epochs and the handlers.           *)
TypeOK ==
    /\ etcd \in [Needs -> DecideRecord]
    /\ tracker \in [Nodes -> [Needs \X Proposals -> QuorumState]]
    /\ epoch \in [Nodes -> Nat]
    /\ epochDb \in [Nodes -> Nat]
    /\ busy \in [Nodes -> BusyState]
    /\ cast \subseteq Vote
    /\ pool \subseteq Verifiers
    /\ stated \subseteq Nodes \X Needs \X Proposals
    /\ noted \subseteq Nodes \X Needs \X Proposals \X Nat
    /\ crashes \in Nat

(* The adapter and its handlers implement DecideOnce: whatever the retries,*)
(* crashes, epochs and races between the two ways to a DECIDE, a key is    *)
(* written once and a plan only records what the key says.                 *)
Abstract == INSTANCE DecideOnce WITH
    chosen  <- [x \in Needs |-> etcd[x].proposal],
    learned <- {<<d[2], d[3]>> : d \in stated \cup noted}

ImplementsDecideOnce == Abstract!Spec

(* All plans tell the same story.  The decide annotations that the nodes   *)
(* keep for a need carry one proposal and one epoch, those of the etcd     *)
(* key, and no task is marked DECIDED for another proposal: also when the  *)
(* winner's proposal is sent again under a newer epoch, by another node,   *)
(* with or without a task id, or after a crash between the two appends.    *)
PlansAgree ==
    /\ \A d \in noted : etcd[d[2]].proposal = d[3] /\ etcd[d[2]].epoch = d[4]
    /\ \A d \in stated : etcd[d[2]].proposal = d[3]

(* A DECIDE written on behalf of the quorum is backed by as many different *)
(* verifiers as the tracker asked for at the first vote: duplicates do not *)
(* count, votes lost in a crash are not remembered.                        *)
QuorumBacked ==
    [][\A n \in Nodes, x \in Needs :
         TryDecide(n) /\ busy[n].need = x /\ etcd'[x] # etcd[x]
                      /\ busy[n].rec.by = "quorum-system" =>
           LET p == busy[n].rec.proposal IN
           /\ tracker[n][<<x, p>>].k >= 1
           /\ tracker[n][<<x, p>>].k <=
                Cardinality({v \in Verifiers :
                  [need |-> x, proposal |-> p, verifier |-> v] \in cast})]_vars

(* Fencing survives restarts: once a node has persisted an epoch, it never *)
(* writes a decision of an older one.                                      *)
Fenced ==
    [][\A n \in Nodes, x \in Needs :
         TryDecide(n) /\ busy[n].need = x /\ etcd'[x] # etcd[x]
           => etcd'[x].epoch >= epochDb[n]]_vars

(* While nothing crashes and no epoch advances, a quorum is not lost: the  *)
(* handler that completes it brings about a decision for the need.         *)
QuorumDecides ==
    [](crashes = 0 /\ \A n \in Nodes : epoch[n] = 1) =>
      \A x \in Needs :
        (\E n \in Nodes, p \in Proposals : has_quorum(tracker[n][<<x, p>>]))
          ~> (etcd[x].proposal # NoProposal)

-----------------------------------------------------------------------------
(* The inductive strengthening.  A handler past its transaction holds the  *)
(* proposal and epoch of the key; one before it holds an epoch that is not *)
(* fenced.                                                                 *)
HandlersHonest ==
    \A n \in Nodes :
      LET b == busy[n] IN
      /\ b.pc \in {"append", "try", "read", "won", "annotate"} =>
           b.rec.proposal \in Proposals
      /\ b.pc \in {"won", "annotate"} =>
           /\ etcd[b.need].proposal = b.rec.proposal
           /\ etcd[b.need].epoch = b.rec.epoch
      /\ b.pc = "try" => b.rec.epoch >= epoch[n]

EpochsDurable == \A n \in Nodes : epochDb[n] <= epoch[n]

IndInv == TypeOK /\ PlansAgree /\ HandlersHonest /\ EpochsDurable

=============================================================================
