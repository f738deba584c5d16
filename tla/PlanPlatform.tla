---------------------------- MODULE PlanPlatform ----------------------------
(***************************************************************************)
(* The services that keep copies and history of the plan, side by side.    *)
(* They share no state, so that a behaviour is one of a single service.    *)
(***************************************************************************)
EXTENDS PlanCRDT, PlanHistory, Checkpoints, TieredStorage, PartitionMerge

VARIABLE
    service,    \* the service that this behaviour is about
    calls       \* calls made so far

CONSTANT MaxCalls   \* service -> bound on the calls made

ASSUME PlatformAssumption ==
    MaxCalls \in [{"crdt", "history", "checkpoint", "storage", "partition"} -> Nat]

vars == <<crdtVars, historyVars, checkpointVars, storageVars, partitionVars, service, calls>>

Init ==
    /\ CRDTInit /\ HistoryInit /\ CheckpointsInit /\ StorageInit /\ PartitionInit
    /\ service \in DOMAIN MaxCalls
    /\ calls = 0

Turn(s) == service = s /\ calls < MaxCalls[s] /\ calls' = calls + 1 /\ UNCHANGED service

Next ==
    \/ /\ Turn("crdt") /\ CRDTNext
       /\ UNCHANGED <<historyVars, checkpointVars, storageVars, partitionVars>>
    \/ /\ Turn("history") /\ HistoryNext
       /\ UNCHANGED <<crdtVars, checkpointVars, storageVars, partitionVars>>
    \/ /\ Turn("checkpoint") /\ CheckpointsNext
       /\ UNCHANGED <<crdtVars, historyVars, storageVars, partitionVars>>
    \/ /\ Turn("storage") /\ StorageNext
       /\ UNCHANGED <<crdtVars, historyVars, checkpointVars, partitionVars>>
    \/ /\ Turn("partition") /\ PartitionNext
       /\ UNCHANGED <<crdtVars, historyVars, checkpointVars, storageVars>>

Spec == Init /\ [][Next]_vars
=============================================================================
