--------------------------- MODULE PartitionMerge ---------------------------
(***************************************************************************)
(* Two sides of a network that may split.  Each side runs a                *)
(* PartitionDetector on the heartbeats of the other; when it sees the      *)
(* split heal, merge_on_heal compares the decisions of both sides and      *)
(* handle_reconcile advances the epoch.                                    *)
(***************************************************************************)
EXTENDS Integers, FiniteSets

CONSTANTS
    Needs, Proposed,
    NoDecide,
    Stamps,             \* the lamports that a DECIDE may carry
    PartitionTimeout,   \* heartbeat_interval * missed_heartbeat_threshold
    PartitionMaxTime,   \* bound on the clock
    PartitionMaxEpoch   \* bound on the epochs

(* A decider is on one side, and its id orders it.                         *)
Sides == {1, 2}
Other(s) == 3 - s

Decisions == [epoch : Nat, lamport : Nat, decider_id : Sides, proposal_id : Proposed]

ASSUME PartitionAssumption ==
    /\ Stamps \subseteq Nat
    /\ PartitionTimeout \in Nat /\ PartitionMaxTime \in Nat /\ PartitionMaxEpoch \in Nat
    /\ NoDecide \notin Decisions

VARIABLES
    clock,            \* time.time()
    connected,        \* whether the sides reach each other
    last_heartbeat,   \* of the other side, as each side saw it
    partitioned,      \* _partitioned_peers holds the other side; is_alive is its negation
    side_epoch,       \* the epoch of each side's EpochManager
    decided,          \* decided[s][n]: the DECIDE that side s holds for need n
    verdict           \* verdict[s][n]: the winner of the last conflict side s merged

partitionVars == <<clock, connected, last_heartbeat, partitioned, side_epoch, decided, verdict>>

PartitionInit ==
    /\ clock = 0
    /\ connected = TRUE
    /\ last_heartbeat = [s \in Sides |-> 0]
    /\ partitioned = [s \in Sides |-> FALSE]
    /\ side_epoch = [s \in Sides |-> 1]
    /\ decided = [s \in Sides |-> [n \in Needs |-> NoDecide]]
    /\ verdict = [s \in Sides |-> [n \in Needs |-> "none"]]

(* Time passes, and the network splits and heals.                          *)
Tick ==
    /\ clock < PartitionMaxTime
    /\ clock' = clock + 1
    /\ UNCHANGED <<connected, last_heartbeat, partitioned, side_epoch, decided, verdict>>

Split ==
    /\ connected' = ~connected
    /\ UNCHANGED <<clock, last_heartbeat, partitioned, side_epoch, decided, verdict>>

(* A DECIDE reaches both sides while they are connected.                   *)
Decide(s, n, p, l) ==
    /\ decided[s][n] = NoDecide
    /\ LET d == [epoch |-> side_epoch[s], lamport |-> l, decider_id |-> s, proposal_id |-> p]
       IN  decided' = [x \in Sides |-> IF x = s \/ (connected /\ decided[x][n] = NoDecide)
                                       THEN [decided[x] EXCEPT ![n] = d] ELSE decided[x]]
    /\ UNCHANGED <<clock, connected, last_heartbeat, partitioned, side_epoch, verdict>>

detect_partition(s) ==
    /\ ~partitioned[s]
    /\ clock - last_heartbeat[s] > PartitionTimeout
    /\ partitioned' = [partitioned EXCEPT ![s] = TRUE]
    /\ UNCHANGED <<clock, connected, last_heartbeat, side_epoch, decided, verdict>>

(* Faulty variant: on equal epochs each side keeps its own.                *)
highest_epoch_wins_Mine(local, remote) ==
    IF local.epoch >= remote.epoch THEN "local" ELSE "remote"

highest_epoch_wins(local, remote) ==
    LET wins == \/ local.epoch > remote.epoch
                \/ local.epoch = remote.epoch /\ local.lamport > remote.lamport
                \/ /\ local.epoch = remote.epoch /\ local.lamport = remote.lamport
                   /\ local.decider_id < remote.decider_id
    IN  IF wins THEN "local" ELSE "remote"

(* The needs that both sides decided, for different proposals.             *)
Conflicts(s) == {n \in Needs : /\ decided[s][n] # NoDecide /\ decided[Other(s)][n] # NoDecide
                               /\ decided[s][n].proposal_id # decided[Other(s)][n].proposal_id}

merge_on_heal(s) ==
    verdict' = [verdict EXCEPT ![s] = [n \in Needs |->
        IF n \in Conflicts(s) THEN highest_epoch_wins(decided[s][n], decided[Other(s)][n])
        ELSE verdict[s][n]]]

(* handle_reconcile advances the epoch.  mark_orphaned calls the           *)
(* asynchronous annotate_task without awaiting it, so that the plan stays  *)
(* as it is.                                                               *)
handle_reconcile(s) ==
    /\ side_epoch[s] < PartitionMaxEpoch
    /\ side_epoch' = [side_epoch EXCEPT ![s] = @ + 1]

(* A heartbeat that ends a partition calls on_heal.                        *)
heartbeat(s) ==
    /\ connected
    /\ last_heartbeat' = [last_heartbeat EXCEPT ![s] = clock]
    /\ partitioned' = [partitioned EXCEPT ![s] = FALSE]
    /\ IF partitioned[s] THEN merge_on_heal(s) /\ handle_reconcile(s)
       ELSE UNCHANGED <<verdict, side_epoch>>
    /\ UNCHANGED <<clock, connected, decided>>

PartitionNext ==
    \/ Tick \/ Split
    \/ \E s \in Sides, n \in Needs, p \in Proposed, l \in Stamps : Decide(s, n, p, l)
    \/ \E s \in Sides : detect_partition(s) \/ heartbeat(s)

(* Two sides that merged the same conflict name the same winner, although  *)
(* each calls its own decision the local one (merge.py 39-120).            *)
PartitionsAgree ==
    \A n \in Needs : \A s \in Sides :
        /\ verdict[s][n] = "local" => verdict[Other(s)][n] # "local"
        /\ verdict[s][n] = "remote" => verdict[Other(s)][n] # "remote"
=============================================================================
