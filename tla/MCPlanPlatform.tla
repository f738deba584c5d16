--------------------------- MODULE MCPlanPlatform ---------------------------
(* Small instance of PlanPlatform.                                         *)
EXTENDS PlanPlatform, TLC

(* A task is added, set and annotated; two links close a cycle.            *)
MCOps == [add |-> [op_type |-> "ADD_TASK", lamport |-> 2, task_id |-> "a"],
          run |-> [op_type |-> "STATE", lamport |-> 3, task_id |-> "a", state |-> "VERIFIED"],
          ab  |-> [op_type |-> "LINK", lamport |-> 4, task_id |-> "b", parent |-> "a",
                   child |-> "b"],
          ba  |-> [op_type |-> "LINK", lamport |-> 5, task_id |-> "a", parent |-> "b",
                   child |-> "a"],
          note |-> [op_type |-> "ANNOTATE", lamport |-> 1, task_id |-> "a", value |-> 1]]

(* Two states of one task with the same lamport, from two clocks.          *)
MCTiedOps == [run |-> [op_type |-> "STATE", lamport |-> 3, task_id |-> "a", state |-> "VERIFIED"],
              end |-> [op_type |-> "STATE", lamport |-> 3, task_id |-> "a", state |-> "FINAL"]]
MCOpIds == DOMAIN MCOps
MCTiedOpIds == DOMAIN MCTiedOps

op(ty, t, x) == [op_type |-> ty, task_id |-> t, payload |-> x, complete |-> TRUE]

(* Two patches of equal lamport set one task; links of three patches close *)
(* a cycle; one patch is malformed.                                        *)
MCPatches == [p1 |-> [actor |-> 1, base_lamport |-> 5,
                      ops |-> <<op("STATE", "a", <<"VERIFIED">>), op("LINK", "b", <<"a", "b">>)>>],
              p2 |-> [actor |-> 2, base_lamport |-> 5,
                      ops |-> <<op("STATE", "a", <<"FINAL">>), op("LINK", "a", <<"b", "a">>),
                                op("ANNOTATE", "a", <<"1">>)>>],
              p3 |-> [actor |-> 1, base_lamport |-> 7,
                      ops |-> <<op("ADD_TASK", "c", <<"t">>), op("LINK", "b", <<"c", "b">>),
                                op("ANNOTATE", "a", <<"2">>)>>],
              p4 |-> [actor |-> 3, base_lamport |-> 1,
                      ops |-> <<[op("STATE", "a", <<"none">>) EXCEPT !.complete = FALSE]>>]]

MCPlanStates == {[a |-> "DRAFT"], [a |-> "FINAL", b |-> "DRAFT"], [b |-> "FINAL"]}
MCOpLists == {<<>>, <<1>>, <<1, 2>>, <<1, 2, 3>>, <<1, 2, 3, 4, 5>>, <<1, 2, 3, 4, 5, 6>>}
MCEpochOf == [o \in 1..3 |-> IF o = 3 THEN 2 ELSE 1]
MCMaxCalls == [crdt |-> 6, history |-> 6, checkpoint |-> 4, storage |-> 10, partition |-> 12]

Interchangeable == Permutations(Replicas) \cup Permutations(VersionIds)
=============================================================================
