------------------------------ MODULE TaskFlow ------------------------------
(***************************************************************************)
(* The life of tasks in a coordinator: the bus runner of                   *)
(* subscribe_envelopes, the verb handlers and the PlanStore (SQLite) they  *)
(* write to, with plan_store injected into every handler.                  *)
(*                                                                         *)
(* The runner handles one envelope at a time and acknowledges it after the *)
(* handler returned; a handler awaits every append_op, and the process can *)
(* stop at each await.  An envelope that was not acknowledged is delivered *)
(* again, behind what is pending.  Which proposal a need is decided for is *)
(* kept by the consensus store (module Consensus): here the need of a task *)
(* is the task, epochs are equal, and a proposal is named by its sender,   *)
(* which is what CLAIM_EXTENDED falls back to.                             *)
(***************************************************************************)
EXTENDS Integers, Sequences, FiniteSets

CONSTANTS
    Tasks,       \* task ids
    NewIds,      \* those that a NEED makes up
    Senders,
    Nobody,
    Traffic,     \* the envelopes that may be published
    MaxSent,     \* bound: number of envelopes published
    MaxCrashes   \* bound: crashes that no handler caused

Kinds == {"NEED", "PROPOSE", "PROPOSE_EXTENDED", "CLAIM", "CLAIM_EXTENDED", "COMMIT",
          "ATTEST", "DECIDE", "FINALIZE", "YIELD", "RELEASE", "UPDATE_PLAN"}

(* TaskState; UPDATE_PLAN stores any string ("OTHER") as a state.          *)
States == {"DRAFT", "DECIDED", "VERIFIED", "FINAL", "OTHER"}

OpTypes == {"ADD_TASK", "STATE", "ANNOTATE", "LINK"}

Notes == {"proposal", "proposal_extended", "claim", "claim_extended", "commit",
          "attestation", "decide", "finalize", "release", "none"}

(* PlanOp without op_id and time: equal ops are one element of the log.    *)
Op == [type : OpTypes, task : Tasks, lamport : Nat, arg : States \cup Notes, actor : Senders]

(* An entry of an UPDATE_PLAN patch.                                       *)
Change == [type : OpTypes, arg : States \cup Notes]

Envelope == [kind : Kinds, sender : Senders, task : Tasks, lamport : Nat \ {0},
             patch : Seq(Change)]

ASSUME TaskFlowAssumption ==
    /\ NewIds \subseteq Tasks
    /\ Nobody \notin Senders
    /\ Traffic \subseteq Envelope
    /\ \A e \in Traffic : \A i \in 1..Len(e.patch) :
         e.patch[i].type = "STATE" => e.patch[i].arg \in States
    /\ MaxSent \in Nat
    /\ MaxCrashes \in Nat

VARIABLES
    sent,      \* envelopes in the stream
    done,      \* acknowledged or terminated
    queue,     \* pending delivery
    run,       \* the runner: the envelope in hand and what is left to do
    ops,       \* table ops
    tasks,     \* table tasks
    chosen,    \* the consensus store
    leases,    \* _lease_registry of claim_extended: <<task, worker>>
    ballots,   \* _ballot_registry of propose_extended
    crashes

vars == <<sent, done, queue, run, ops, tasks, chosen, leases, ballots, crashes>>

Row == [state : States \cup {"NONE"}, lamport : Nat]

NoRow == [state |-> "NONE", lamport |-> 0]

(* pc: "idle", "handle" (fetched) or "append" (ops left to append); then:  *)
(* what follows the last append.                                           *)
Idle == [pc |-> "idle", env |-> Nobody, todo |-> <<>>, then |-> "ack"]

(* Faulty variant: the last op to arrive wins.                             *)
apply_op_LastArrival(row, op) ==
    CASE op.type = "ADD_TASK" /\ row = NoRow -> [state |-> "DRAFT", lamport |-> op.lamport]
      [] op.type = "STATE" -> [state |-> op.arg, lamport |-> op.lamport]
      [] OTHER -> row

(* Faulty variant: an op also wins over one of the same lamport.           *)
apply_op_TieWins(row, op) ==
    CASE op.type = "ADD_TASK" /\ row = NoRow -> [state |-> "DRAFT", lamport |-> op.lamport]
      [] op.type = "STATE" /\ row.lamport <= op.lamport
           -> [state |-> op.arg, lamport |-> op.lamport]
      [] OTHER -> row

(* PlanStore._apply_op on a row of tasks.                                  *)
apply_op(row, op) ==
    CASE op.type = "ADD_TASK" /\ row = NoRow -> [state |-> "DRAFT", lamport |-> op.lamport]
      [] op.type = "STATE" /\ row.lamport < op.lamport
           -> [state |-> op.arg, lamport |-> op.lamport]
      [] OTHER -> row

PlanOp(e, type, plus, arg) ==
    [type |-> type, task |-> e.task, lamport |-> e.lamport + plus, arg |-> arg,
     actor |-> e.sender]

-----------------------------------------------------------------------------
Init ==
    /\ sent = {}
    /\ done = {}
    /\ queue = <<>>
    /\ run = Idle
    /\ ops = {}
    /\ tasks = [t \in Tasks |-> NoRow]
    /\ chosen = [t \in Tasks |-> Nobody]
    /\ leases = {}
    /\ ballots = {}
    /\ crashes = 0

(* Nobody knows an id before a NEED has made it up.                        *)
Publish(e) ==
    /\ e.kind # "NEED" /\ e.task \in NewIds => tasks[e.task] # NoRow
    /\ e \notin sent /\ Cardinality(sent) < MaxSent
    /\ sent' = sent \cup {e}
    /\ queue' = Append(queue, e)
    /\ UNCHANGED <<done, run, ops, tasks, chosen, leases, ballots, crashes>>

Fetch ==
    /\ run.pc = "idle" /\ queue # <<>>
    /\ run' = [Idle EXCEPT !.pc = "handle", !.env = Head(queue)]
    /\ queue' = Tail(queue)
    /\ UNCHANGED <<sent, done, ops, tasks, chosen, leases, ballots, crashes>>

(* The policy gates terminate the message, or the handler finds a field    *)
(* missing or out of range and returns.                                    *)
Refuse ==
    /\ run.pc = "handle"
    /\ done' = done \cup {run.env}
    /\ run' = Idle
    /\ UNCHANGED <<sent, queue, ops, tasks, chosen, leases, ballots, crashes>>

(* The handler goes on to append these ops, then does what "then" says.    *)
Appends(todo, then) ==
    run' = [run EXCEPT !.pc = "append", !.todo = todo, !.then = then]

Received(kind) == run.pc = "handle" /\ run.env.kind = kind

-----------------------------------------------------------------------------
(* The handlers, up to their first append.                                 *)

(* Every delivery of a NEED makes a task of a new id.                      *)
handle_need ==
    /\ Received("NEED")
    /\ \E t \in NewIds :
         /\ tasks[t] = NoRow
         /\ Appends(<<[PlanOp(run.env, "ADD_TASK", 0, "none") EXCEPT !.task = t]>>, "ack")
    /\ UNCHANGED <<sent, done, queue, ops, tasks, chosen, leases, ballots, crashes>>

handle_propose ==
    /\ Received("PROPOSE")
    /\ Appends(<<PlanOp(run.env, "ANNOTATE", 0, "proposal")>>, "ack")
    /\ UNCHANGED <<sent, done, queue, ops, tasks, chosen, leases, ballots, crashes>>

(* A sender's ballot is used up before its proposal is stored.             *)
handle_propose_extended ==
    /\ Received("PROPOSE_EXTENDED")
    /\ IF run.env.sender \in ballots
       THEN Appends(<<>>, "ack") /\ UNCHANGED ballots
       ELSE /\ ballots' = ballots \cup {run.env.sender}
            /\ Appends(<<PlanOp(run.env, "ANNOTATE", 0, "proposal_extended")>>, "ack")
    /\ UNCHANGED <<sent, done, queue, ops, tasks, chosen, leases, crashes>>

handle_claim ==
    /\ Received("CLAIM")
    /\ Appends(<<PlanOp(run.env, "ANNOTATE", 0, "claim")>>, "ack")
    /\ UNCHANGED <<sent, done, queue, ops, tasks, chosen, leases, ballots, crashes>>

handle_commit ==
    /\ Received("COMMIT")
    /\ Appends(<<PlanOp(run.env, "ANNOTATE", 0, "commit")>>, "ack")
    /\ UNCHANGED <<sent, done, queue, ops, tasks, chosen, leases, ballots, crashes>>

(* The ops are then counted without awaiting them: a TypeError follows.    *)
handle_attest ==
    /\ Received("ATTEST")
    /\ Appends(<<PlanOp(run.env, "ANNOTATE", 0, "attestation")>>, "fail")
    /\ UNCHANGED <<sent, done, queue, ops, tasks, chosen, leases, ballots, crashes>>

(* try_decide returns a record to the first proposal of a need and to its  *)
(* retries, and None to the others.                                        *)
TryDecide(e, plus, then) ==
    IF chosen[e.task] \in {Nobody, e.sender}
    THEN /\ chosen' = [chosen EXCEPT ![e.task] = e.sender]
         /\ Appends(<<PlanOp(e, "STATE", plus, "DECIDED"),
                      PlanOp(e, "ANNOTATE", plus, "decide")>>, then)
    ELSE Appends(<<>>, then) /\ UNCHANGED chosen

handle_decide ==
    /\ Received("DECIDE")
    /\ TryDecide(run.env, 0, "ack")
    /\ UNCHANGED <<sent, done, queue, ops, tasks, leases, ballots, crashes>>

handle_finalize ==
    /\ Received("FINALIZE")
    /\ Appends(<<PlanOp(run.env, "STATE", 0, "FINAL"),
                 PlanOp(run.env, "ANNOTATE", 0, "finalize")>>, "ack")
    /\ UNCHANGED <<sent, done, queue, ops, tasks, chosen, leases, ballots, crashes>>

(* require_policy_validation asks for a field "operation", which no        *)
(* envelope of make_envelope has: it raises ValueError, and the body of    *)
(* the handler (an annotation, then STATE DRAFT) is never reached.         *)
handle_yield ==
    /\ Received("YIELD")
    /\ Appends(<<>>, "fail")
    /\ UNCHANGED <<sent, done, queue, ops, tasks, chosen, leases, ballots, crashes>>

handle_release ==
    /\ Received("RELEASE")
    /\ Appends(<<PlanOp(run.env, "ANNOTATE", 0, "release"),
                 PlanOp(run.env, "STATE", 1, "DRAFT")>>, "ack")
    /\ UNCHANGED <<sent, done, queue, ops, tasks, chosen, leases, ballots, crashes>>

(* Faulty variant: a lease of another worker is not looked for.            *)
handle_claim_extended_NoCheck ==
    /\ Received("CLAIM_EXTENDED")
    /\ TryDecide(run.env, 1, "claim")
    /\ UNCHANGED <<sent, done, queue, ops, tasks, leases, ballots, crashes>>

(* CLAIM_EXTENDED: turned away if another worker holds a lease, otherwise  *)
(* it goes through handle_decide.                                          *)
handle_claim_extended ==
    /\ Received("CLAIM_EXTENDED")
    /\ IF \E l \in leases : l[1] = run.env.task /\ l[2] # run.env.sender
       THEN Appends(<<>>, "ack") /\ UNCHANGED chosen
       ELSE TryDecide(run.env, 1, "claim")
    /\ UNCHANGED <<sent, done, queue, ops, tasks, leases, ballots, crashes>>

(* The ops of the patch in order, each with the next lamport.              *)
handle_update_plan ==
    /\ Received("UPDATE_PLAN")
    /\ LET p == run.env.patch
       IN  Appends([i \in 1..Len(p) |-> PlanOp(run.env, p[i].type, i - 1, p[i].arg)], "ack")
    /\ UNCHANGED <<sent, done, queue, ops, tasks, chosen, leases, ballots, crashes>>

-----------------------------------------------------------------------------
(* append_op: the log and the table change in one transaction.             *)
append_op ==
    /\ run.pc = "append" /\ run.todo # <<>>
    /\ LET op == Head(run.todo)
       IN  /\ ops' = ops \cup {op}
           /\ tasks' = [tasks EXCEPT ![op.task] = apply_op(@, op)]
    /\ run' = [run EXCEPT !.todo = Tail(@)]
    /\ UNCHANGED <<sent, done, queue, chosen, leases, ballots, crashes>>

(* After handle_decide returned, with or without a decision, the claim     *)
(* looks at the state of the task.                                         *)
ClaimLease ==
    /\ run.pc = "append" /\ run.todo = <<>> /\ run.then = "claim"
    /\ IF tasks[run.env.task].state = "DECIDED"
       THEN /\ leases' = leases \cup {<<run.env.task, run.env.sender>>}
            /\ Appends(<<PlanOp(run.env, "ANNOTATE", 0, "claim_extended")>>, "ack")
       ELSE Appends(<<>>, "ack") /\ UNCHANGED leases
    /\ UNCHANGED <<sent, done, queue, ops, tasks, chosen, ballots, crashes>>

Ack ==
    /\ run.pc = "append" /\ run.todo = <<>> /\ run.then = "ack"
    /\ done' = done \cup {run.env}
    /\ run' = Idle
    /\ UNCHANGED <<sent, queue, ops, tasks, chosen, leases, ballots, crashes>>

(* Faulty variant: the message in hand is lost.                            *)
Restart_Loses ==
    /\ run' = Idle
    /\ leases' = {}
    /\ ballots' = {}
    /\ UNCHANGED queue

(* The process ends and starts again: the registries are empty, the        *)
(* message in hand is redelivered.                                         *)
Restart ==
    /\ run' = Idle
    /\ queue' = IF run.pc = "idle" THEN queue ELSE Append(queue, run.env)
    /\ leases' = {}
    /\ ballots' = {}

(* An exception leaves the handler and ends the runner.                    *)
HandlerFails ==
    /\ run.pc = "append" /\ run.todo = <<>> /\ run.then = "fail"
    /\ Restart
    /\ UNCHANGED <<sent, done, ops, tasks, chosen, crashes>>

Crash ==
    /\ crashes < MaxCrashes
    /\ crashes' = crashes + 1
    /\ Restart
    /\ UNCHANGED <<sent, done, ops, tasks, chosen>>

-----------------------------------------------------------------------------
dispatch ==
    \/ handle_need
    \/ handle_propose
    \/ handle_propose_extended
    \/ handle_claim
    \/ handle_commit
    \/ handle_attest
    \/ handle_decide
    \/ handle_finalize
    \/ handle_yield
    \/ handle_release
    \/ handle_claim_extended
    \/ handle_update_plan

Runner == Fetch \/ Refuse \/ dispatch \/ append_op \/ ClaimLease \/ Ack \/ HandlerFails

Next == (\E e \in Traffic : Publish(e)) \/ Runner \/ Crash

Spec == Init /\ [][Next]_vars

(* The coordinator is restarted when it stops and its runner keeps going.  *)
FairSpec == Spec /\ WF_vars(Runner)

-----------------------------------------------------------------------------
(* Types of the stream, the runner, the tables and the registries.         *)
TypeOK ==
    /\ sent \subseteq Traffic
    /\ done \subseteq Traffic
    /\ queue \in Seq(Traffic)
    /\ run \in [pc : {"idle", "handle", "append"}, env : Traffic \cup {Nobody},
                todo : Seq(Op), then : {"ack", "claim", "fail"}]
    /\ run.pc # "idle" => run.env \in Traffic
    /\ ops \subseteq Op
    /\ tasks \in [Tasks -> Row]
    /\ chosen \in [Tasks -> Senders \cup {Nobody}]
    /\ leases \subseteq Tasks \X Senders
    /\ ballots \subseteq Senders
    /\ crashes \in Nat

(* A row of tasks is what the log says it is: it has the state of the op   *)
(* with the highest lamport, in whatever order and however often the ops   *)
(* arrived ("Higher Lamport wins for task state").                         *)
LatestWins ==
    \A t \in Tasks :
      LET stateOps == {o \in ops : o.task = t /\ o.type = "STATE"}
          addOps == {o \in ops : o.task = t /\ o.type = "ADD_TASK"}
      IN  /\ \A o \in stateOps : o.lamport <= tasks[t].lamport
          /\ tasks[t] = NoRow => stateOps \cup addOps = {}
          /\ tasks[t] # NoRow =>
               \/ \E o \in stateOps : tasks[t] = [state |-> o.arg, lamport |-> o.lamport]
               \/ \E o \in addOps : tasks[t] = [state |-> "DRAFT", lamport |-> o.lamport]

(* At-least-once delivery is harmless to the table: a handler that runs    *)
(* again, after a crash half way or a lost acknowledgement, changes no row *)
(* with an op the log already has.                                         *)
RedeliveryIsHarmless == [][tasks' # tasks => ops' # ops]_vars

(* The registry never holds leases of two workers on one task, although    *)
(* claims, crashes and redelivered claims come in any order.               *)
OneHolder == \A a, b \in leases : a[1] = b[1] => a[2] = b[2]

(* Every envelope is handled in the end: the runner catches up with what   *)
(* was published, although an ATTEST and a YIELD end it each time they are *)
(* delivered.                                                              *)
EveryoneServed == []<>({e \in sent : e.kind \notin {"ATTEST", "YIELD"}} \subseteq done)

(* "Create lease record only after successful DECIDE": the worker that     *)
(* gets a lease is the one the need was decided for.                       *)
LeaseHolderWon == \A l \in leases : chosen[l[1]] = l[2]

-----------------------------------------------------------------------------
(* The inductive strengthening.  While a claim is on its way, nobody else  *)
(* holds a lease on its task; a STATE op on its way has a proper state and *)
(* a lamport above that of a missing row.                                  *)
ClaimUncontested ==
    run.pc = "append" /\ run.then = "claim" =>
      \A l \in leases : l[1] = run.env.task => l[2] = run.env.sender

WellFormed(o) == o.type = "STATE" => o.arg \in States /\ o.lamport > 0

TodoWellFormed == \A i \in 1..Len(run.todo) : WellFormed(run.todo[i])

IndInv == TypeOK /\ LatestWins /\ OneHolder /\ ClaimUncontested /\ TodoWellFormed

=============================================================================
