----------------------------- MODULE ShardEscrow ----------------------------
(***************************************************************************)
(* EscrowManager of sharding/escrow.py and the EscrowMonitor that expires  *)
(* what waited too long.                                                   *)
(***************************************************************************)
EXTENDS Integers, FiniteSets

CONSTANTS EscrowIds, EscrowShards, Ttls, EscrowMaxTime

ASSUME EscrowAssumption == Ttls \subseteq Nat /\ EscrowMaxTime \in Nat

VARIABLES
    escrows,        \* EscrowManager.escrows; state "absent" before and "removed" after
    now_ns,         \* the clock
    running,        \* EscrowMonitor.running
    outcomes        \* history: the terminal states each escrow has been in

escrowVars == <<escrows, now_ns, running, outcomes>>

EscrowInit ==
    /\ escrows = [e \in EscrowIds |-> [state |-> "absent", deps |-> {}, ready |-> {}, expires |-> 0]]
    /\ now_ns = 0
    /\ running = FALSE
    /\ outcomes = [e \in EscrowIds |-> {}]

EscrowTick == now_ns < EscrowMaxTime /\ now_ns' = now_ns + 1 /\ UNCHANGED <<escrows, running, outcomes>>

_transition_to_ready(escrow) == [escrow EXCEPT !.state = "ready"]

(* Escrows that expire after EscrowMaxTime are not created.                *)
create_escrow(e, deps, ttl) ==
    /\ escrows[e].state = "absent"
    /\ now_ns + ttl <= EscrowMaxTime
    /\ LET new == [state |-> "pending", deps |-> deps, ready |-> {}, expires |-> now_ns + ttl]
       IN  escrows' = [escrows EXCEPT ![e] = IF deps = {} THEN _transition_to_ready(new) ELSE new]
    /\ UNCHANGED <<now_ns, running, outcomes>>

(* The last dependency makes the escrow ready, also after its time is over *)
(* when the monitor has not looked yet.                                    *)
add_ready_shard(e, s) ==
    LET told == [escrows[e] EXCEPT !.ready = @ \cup {s}]
    IN  /\ escrows[e].state = "pending"
        /\ escrows' = [escrows EXCEPT ![e] = IF told.deps \subseteq told.ready
                                             THEN _transition_to_ready(told) ELSE told]
        /\ UNCHANGED <<now_ns, running, outcomes>>

Becomes(e, state) ==
    /\ escrows' = [escrows EXCEPT ![e].state = state]
    /\ outcomes' = [outcomes EXCEPT ![e] = @ \cup {state}]
    /\ UNCHANGED <<now_ns, running>>

release_escrow(e) == escrows[e].state = "ready" /\ Becomes(e, "released")

expire_escrow(e) == escrows[e].state \in {"pending", "ready"} /\ Becomes(e, "expired")

cancel_escrow(e) ==
    escrows[e].state \notin {"absent", "removed", "released", "expired"} /\ Becomes(e, "cancelled")

(* Faulty variant: an escrow for which some shard is ready is not due.     *)
Overdue_NoneReady ==
    {e \in EscrowIds : /\ escrows[e].state = "pending" /\ escrows[e].ready = {}
                       /\ now_ns >= escrows[e].expires}

Overdue == {e \in EscrowIds : escrows[e].state = "pending" /\ now_ns >= escrows[e].expires}

cleanup_completed(all) ==
    [e \in EscrowIds |-> IF all[e].state \in {"released", "expired", "cancelled"}
                         THEN [all[e] EXCEPT !.state = "removed"] ELSE all[e]]

(* One round of the monitor: what is overdue expires, and then everything  *)
(* that is completed is removed.                                           *)
check_expirations ==
    /\ running
    /\ Overdue # {}
    /\ escrows' = cleanup_completed([e \in EscrowIds |->
         IF e \in Overdue THEN [escrows[e] EXCEPT !.state = "expired"] ELSE escrows[e]])
    /\ outcomes' = [e \in EscrowIds |-> outcomes[e] \cup IF e \in Overdue THEN {"expired"} ELSE {}]
    /\ UNCHANGED <<now_ns, running>>

MonitorSwitch == running' = ~running /\ UNCHANGED <<escrows, now_ns, outcomes>>

EscrowNext ==
    \/ EscrowTick
    \/ \E e \in EscrowIds :
         \/ \E deps \in SUBSET EscrowShards, ttl \in Ttls : create_escrow(e, deps, ttl)
         \/ \E s \in EscrowShards : add_ready_shard(e, s)
         \/ release_escrow(e) \/ expire_escrow(e) \/ cancel_escrow(e)
    \/ check_expirations \/ MonitorSwitch

(* While the monitor runs, an escrow that waits for shards is not left     *)
(* waiting for ever, and no escrow ends in two ways (escrow.py 124-289,    *)
(* escrow_monitor.py 61-87).                                               *)
PendingSettles ==
    /\ \A e \in EscrowIds : escrows[e].state = "pending" ~> (escrows[e].state # "pending" \/ ~running)
    /\ [](\A e \in EscrowIds : Cardinality(outcomes[e]) <= 1)
=============================================================================
