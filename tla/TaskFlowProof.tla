--------------------------- MODULE TaskFlowProof ----------------------------
(***************************************************************************)
(* Proofs about TaskFlow, for any envelopes, tasks and senders, any number *)
(* of crashes and any order of delivery.                                   *)
(***************************************************************************)
EXTENDS TaskFlow, TLAPS

USE DEF TaskFlowAssumption

RunState == [pc : {"idle", "handle", "append"}, env : Traffic \cup {Nobody},
             todo : Seq(Op), then : {"ack", "claim", "fail"}]

(* What a fetched envelope is.                                             *)
LEMMA EnvType ==
  ASSUME TypeOK, run.pc # "idle"
  PROVE  /\ run.env \in Traffic /\ run.env \in Envelope
         /\ run.env.task \in Tasks /\ run.env.sender \in Senders
         /\ run.env.lamport \in Nat /\ run.env.lamport > 0
         /\ run.env.patch \in Seq(Change)
BY TaskFlowAssumption DEF TypeOK, Envelope

(* PlanOp builds an op.                                                    *)
LEMMA PlanOpType ==
  ASSUME NEW e \in Envelope, NEW y \in OpTypes, NEW i \in Nat, NEW a \in States \cup Notes
  PROVE  PlanOp(e, y, i, a) \in Op
BY DEF PlanOp, Op, Envelope

(* A handler that goes on to append well-formed ops keeps the runner well  *)
(* formed.                                                                 *)
LEMMA AppendsType ==
  ASSUME TypeOK, run.pc # "idle", NEW todo \in Seq(Op), NEW then \in {"ack", "claim", "fail"},
         Appends(todo, then)
  PROVE  /\ run' \in RunState /\ run'.env = run.env /\ run'.env \in Traffic
         /\ run'.todo = todo /\ run'.then = then /\ run'.pc = "append"
BY EnvType DEF TypeOK, RunState, Appends

LEMMA IdleType == Idle \in RunState /\ Idle.pc = "idle" /\ Idle.todo = <<>>
BY DEF Idle, RunState

(* Init establishes the inductive invariant.                               *)
LEMMA InitInd == Init => IndInv
<1> SUFFICES ASSUME Init PROVE IndInv
  OBVIOUS
<1> USE TaskFlowAssumption DEF Init
<1>1. TypeOK
  BY IdleType DEF TypeOK, RunState, Row, NoRow, States, Idle
<1>2. LatestWins
  BY DEF LatestWins, NoRow
<1>3. OneHolder /\ ClaimUncontested /\ TodoWellFormed
  BY DEF OneHolder, ClaimUncontested, TodoWellFormed, Idle
<1> QED BY <1>1, <1>2, <1>3 DEF IndInv

(* append_op keeps every row the latest of its log, and an op that the log *)
(* has already changes nothing.                                            *)
LEMMA AppendKeepsLatest ==
  ASSUME TypeOK, LatestWins, NEW o \in Op, WellFormed(o),
         ops' = ops \cup {o},
         tasks' = [tasks EXCEPT ![o.task] = apply_op(@, o)]
  PROVE  LatestWins' /\ tasks' \in [Tasks -> Row] /\ (tasks' # tasks => ops' # ops)
<1> DEFINE r == tasks[o.task]
           q == apply_op(r, o)
<1>0. /\ o.task \in Tasks /\ o.lamport \in Nat /\ r \in Row
      /\ \A t \in Tasks : tasks'[t] = IF t = o.task THEN q ELSE tasks[t]
  BY DEF TypeOK, Op
<1>1. /\ q \in Row
      /\ \/ o.type = "ADD_TASK" /\ r = NoRow /\ q = [state |-> "DRAFT", lamport |-> o.lamport]
         \/ /\ o.type = "STATE" /\ r.lamport < o.lamport
            /\ q = [state |-> o.arg, lamport |-> o.lamport]
         \/ /\ q = r
            /\ o.type = "ADD_TASK" => r # NoRow
            /\ o.type = "STATE" => o.lamport <= r.lamport
  BY <1>0 DEF apply_op, Row, WellFormed, States
<1>2. tasks' \in [Tasks -> Row]
  BY <1>0, <1>1 DEF TypeOK
<1>3. ASSUME NEW t \in Tasks, t # o.task
      PROVE  /\ tasks'[t] = tasks[t]
             /\ {p \in ops' : p.task = t /\ p.type = "STATE"} =
                  {p \in ops : p.task = t /\ p.type = "STATE"}
             /\ {p \in ops' : p.task = t /\ p.type = "ADD_TASK"} =
                  {p \in ops : p.task = t /\ p.type = "ADD_TASK"}
  BY <1>0, <1>3
<1>4. \A p \in ops : p \in Op /\ p.lamport \in Nat
  BY DEF TypeOK, Op
<1> DEFINE S == {p \in ops : p.task = o.task /\ p.type = "STATE"}
           A == {p \in ops : p.task = o.task /\ p.type = "ADD_TASK"}
           S1 == {p \in ops' : p.task = o.task /\ p.type = "STATE"}
           A1 == {p \in ops' : p.task = o.task /\ p.type = "ADD_TASK"}
<1>5. /\ \A p \in S : p.lamport <= r.lamport
      /\ r = NoRow => S \cup A = {}
      /\ r # NoRow =>
           \/ \E p \in S : r = [state |-> p.arg, lamport |-> p.lamport]
           \/ \E p \in A : r = [state |-> "DRAFT", lamport |-> p.lamport]
  BY <1>0 DEF LatestWins
<1>6. /\ S1 = IF o.type = "STATE" THEN S \cup {o} ELSE S
      /\ A1 = IF o.type = "ADD_TASK" THEN A \cup {o} ELSE A
  BY <1>0
<1>7. r.lamport \in Nat /\ q.lamport \in Nat /\ r.lamport <= q.lamport
  BY <1>0, <1>1 DEF Row, NoRow
<1>8. /\ \A p \in S1 : p.lamport <= q.lamport
      /\ q = NoRow => S1 \cup A1 = {}
      /\ q # NoRow =>
           \/ \E p \in S1 : q = [state |-> p.arg, lamport |-> p.lamport]
           \/ \E p \in A1 : q = [state |-> "DRAFT", lamport |-> p.lamport]
  <2> HIDE DEF S, A, S1, A1, q, r
  <2>1. CASE o.type = "ADD_TASK" /\ r = NoRow /\ q = [state |-> "DRAFT", lamport |-> o.lamport]
    BY <2>1, <1>0, <1>5, <1>6, <1>7 DEF NoRow
  <2>2. CASE /\ o.type = "STATE" /\ r.lamport < o.lamport
             /\ q = [state |-> o.arg, lamport |-> o.lamport]
    <3>1. o.arg \in States
      BY <2>2 DEF WellFormed
    <3>2. q # NoRow
      BY <2>2, <3>1 DEF NoRow, States
    <3>3. \A p \in S : p.lamport \in Nat
      BY <1>4 DEF S
    <3>4. S1 = S \cup {o}
      BY <2>2, <1>6
    <3>5. \A p \in S1 : p.lamport <= q.lamport
      BY <2>2, <3>3, <3>4, <1>0, <1>5, <1>7
    <3>6. o \in S1
      BY <3>4
    <3> QED BY <2>2, <3>2, <3>5, <3>6
  <2>3. CASE /\ q = r
             /\ o.type = "ADD_TASK" => r # NoRow
             /\ o.type = "STATE" => o.lamport <= r.lamport
    <3>1. o.type = "STATE" => r # NoRow
      BY <2>3, <1>0 DEF WellFormed, NoRow
    <3> QED BY <2>3, <3>1, <1>5, <1>6
  <2> QED BY <1>1, <2>1, <2>2, <2>3
<1>9. LatestWins'
  <2> SUFFICES ASSUME NEW t \in Tasks
        PROVE LET stateOps == {p \in ops' : p.task = t /\ p.type = "STATE"}
                  addOps == {p \in ops' : p.task = t /\ p.type = "ADD_TASK"}
              IN  /\ \A p \in stateOps : p.lamport <= tasks'[t].lamport
                  /\ tasks'[t] = NoRow => stateOps \cup addOps = {}
                  /\ tasks'[t] # NoRow =>
                       \/ \E p \in stateOps : tasks'[t] = [state |-> p.arg, lamport |-> p.lamport]
                       \/ \E p \in addOps : tasks'[t] = [state |-> "DRAFT", lamport |-> p.lamport]
    BY DEF LatestWins, NoRow
  <2>1. CASE t = o.task
    <3>1. /\ {p \in ops' : p.task = t /\ p.type = "STATE"} = S1
          /\ {p \in ops' : p.task = t /\ p.type = "ADD_TASK"} = A1
          /\ tasks'[t] = q
      BY <2>1, <1>0
    <3> HIDE DEF S1, A1, q
    <3> QED BY <3>1, <1>8
  <2>2. CASE t # o.task
    <3> DEFINE T == {p \in ops : p.task = t /\ p.type = "STATE"}
               B == {p \in ops : p.task = t /\ p.type = "ADD_TASK"}
    <3>1. /\ \A p \in T : p.lamport <= tasks[t].lamport
          /\ tasks[t] = NoRow => T \cup B = {}
          /\ tasks[t] # NoRow =>
               \/ \E p \in T : tasks[t] = [state |-> p.arg, lamport |-> p.lamport]
               \/ \E p \in B : tasks[t] = [state |-> "DRAFT", lamport |-> p.lamport]
      BY DEF LatestWins
    <3>2. /\ {p \in ops' : p.task = t /\ p.type = "STATE"} = T
          /\ {p \in ops' : p.task = t /\ p.type = "ADD_TASK"} = B
          /\ tasks'[t] = tasks[t]
      BY <2>2, <1>3
    <3> HIDE DEF T, B
    <3> QED BY <3>1, <3>2
  <2> QED BY <2>1, <2>2
<1>10. ASSUME o \in ops PROVE tasks' = tasks
  <2>1. o.type = "STATE" => o.lamport <= r.lamport
    BY <1>10, <1>5
  <2>2. o.type = "ADD_TASK" => r # NoRow
    BY <1>10, <1>5
  <2>3. q = r
    BY <1>0, <1>1, <1>7, <2>1, <2>2
  <2> QED BY <1>0, <2>3 DEF TypeOK
<1>11. ops' = ops => o \in ops
  OBVIOUS
<1> QED BY <1>2, <1>9, <1>10, <1>11

(* The rest of the invariant does not change when the tables do not.       *)
LEMMA LatestUnchanged == ASSUME LatestWins, ops' = ops, tasks' = tasks PROVE LatestWins'
BY DEF LatestWins, NoRow

OkTodo(q) == q \in Seq(Op) /\ \A i \in 1..Len(q) : WellFormed(q[i])

LEMMA OkTodos ==
  /\ OkTodo(<<>>)
  /\ \A o \in Op : WellFormed(o) => OkTodo(<<o>>)
  /\ \A o, p \in Op : WellFormed(o) /\ WellFormed(p) => OkTodo(<<o, p>>)
BY DEF OkTodo

(* A handler that starts: it appends well-formed ops, and goes on to a     *)
(* lease only if nobody else has one.                                      *)
LEMMA DispatchInd ==
  ASSUME IndInv, run.pc = "handle", NEW todo, OkTodo(todo),
         NEW then \in {"ack", "claim", "fail"}, Appends(todo, then),
         then = "claim" => \A l \in leases : l[1] = run.env.task => l[2] = run.env.sender,
         UNCHANGED <<sent, done, queue, ops, tasks, leases, crashes>>,
         chosen' \in [Tasks -> Senders \cup {Nobody}],
         ballots' \subseteq Senders
  PROVE  IndInv'
<1> USE DEF IndInv
<1>1. /\ run' \in RunState /\ run'.env = run.env /\ run'.env \in Traffic
      /\ run'.todo = todo /\ run'.then = then /\ run'.pc = "append"
  BY AppendsType DEF OkTodo
<1>2. TypeOK'
  BY <1>1 DEF TypeOK, RunState
<1>3. LatestWins'
  BY LatestUnchanged
<1>4. OneHolder'
  BY DEF OneHolder
<1>5. ClaimUncontested'
  BY <1>1 DEF ClaimUncontested
<1>6. TodoWellFormed'
  BY <1>1 DEF TodoWellFormed, OkTodo
<1> QED BY <1>2, <1>3, <1>4, <1>5, <1>6

(* Both ways into try_decide.                                              *)
LEMMA TryDecideInd ==
  ASSUME IndInv, run.pc = "handle", NEW plus \in {0, 1}, NEW then \in {"ack", "claim"},
         TryDecide(run.env, plus, then),
         then = "claim" => \A l \in leases : l[1] = run.env.task => l[2] = run.env.sender,
         UNCHANGED <<sent, done, queue, ops, tasks, leases, ballots, crashes>>
  PROVE  IndInv'
<1>0. run.env \in Envelope /\ run.env.task \in Tasks /\ run.env.sender \in Senders
      /\ run.env.lamport \in Nat /\ run.env.lamport > 0 /\ TypeOK
  BY EnvType DEF IndInv
<1> DEFINE a == PlanOp(run.env, "STATE", plus, "DECIDED")
           b == PlanOp(run.env, "ANNOTATE", plus, "decide")
<1>1. a \in Op /\ b \in Op
  BY <1>0, PlanOpType DEF OpTypes, States, Notes
<1>2. WellFormed(a) /\ WellFormed(b)
  BY <1>0 DEF PlanOp, WellFormed, States
<1>3. OkTodo(<<a, b>>) /\ OkTodo(<<>>)
  BY <1>1, <1>2, OkTodos
<1>4. CASE chosen[run.env.task] \in {Nobody, run.env.sender}
  <2>1. chosen' = [chosen EXCEPT ![run.env.task] = run.env.sender] /\ Appends(<<a, b>>, then)
    BY <1>4 DEF TryDecide
  <2>2. chosen' \in [Tasks -> Senders \cup {Nobody}] /\ ballots' \subseteq Senders
    BY <2>1, <1>0 DEF TypeOK
  <2> HIDE DEF a, b
  <2> QED BY <2>1, <2>2, <1>3, DispatchInd
<1>5. CASE chosen[run.env.task] \notin {Nobody, run.env.sender}
  <2>1. chosen' = chosen /\ Appends(<<>>, then)
    BY <1>5 DEF TryDecide
  <2>2. chosen' \in [Tasks -> Senders \cup {Nobody}] /\ ballots' \subseteq Senders
    BY <2>1, <1>0 DEF TypeOK
  <2> QED BY <2>1, <2>2, <1>3, DispatchInd
<1> QED BY <1>4, <1>5

(* A handler whose ops are at most two, a note and a state.                *)
LEMMA PlainHandler ==
  ASSUME IndInv, run.pc = "handle",
         NEW y \in {"ADD_TASK", "ANNOTATE"}, NEW a \in Notes,
         NEW then \in {"ack", "fail"},
         UNCHANGED <<sent, done, queue, ops, tasks, chosen, leases, crashes>>,
         ballots' \subseteq Senders,
         \/ Appends(<<>>, then)
         \/ Appends(<<PlanOp(run.env, y, 0, a)>>, then)
         \/ \E t \in Tasks : Appends(<<[PlanOp(run.env, y, 0, a) EXCEPT !.task = t]>>, then)
         \/ \E x \in States, i \in {0, 1} :
              \/ Appends(<<PlanOp(run.env, "STATE", i, x), PlanOp(run.env, y, 0, a)>>, then)
              \/ Appends(<<PlanOp(run.env, y, 0, a), PlanOp(run.env, "STATE", i, x)>>, then)
  PROVE  IndInv'
<1>0. run.env \in Envelope /\ run.env.lamport \in Nat /\ run.env.lamport > 0 /\ TypeOK
  BY EnvType DEF IndInv
<1>1. chosen' \in [Tasks -> Senders \cup {Nobody}] /\ ballots' \subseteq Senders
  BY <1>0 DEF TypeOK
<1> DEFINE o == PlanOp(run.env, y, 0, a)
<1>2. o \in Op /\ WellFormed(o)
  <2>1. o \in Op
    BY <1>0, PlanOpType DEF OpTypes
  <2> QED BY <2>1 DEF PlanOp, WellFormed
<1>3. ASSUME NEW t \in Tasks
      PROVE  [o EXCEPT !.task = t] \in Op /\ WellFormed([o EXCEPT !.task = t])
  <2>1. [o EXCEPT !.task = t] \in Op
    <3> HIDE DEF o
    <3> QED BY <1>2 DEF Op
  <2>2. WellFormed([o EXCEPT !.task = t])
    BY DEF WellFormed, PlanOp
  <2> QED BY <2>1, <2>2
<1>4. ASSUME NEW x \in States, NEW i \in {0, 1}
      PROVE  PlanOp(run.env, "STATE", i, x) \in Op /\ WellFormed(PlanOp(run.env, "STATE", i, x))
  <2>1. PlanOp(run.env, "STATE", i, x) \in Op
    BY <1>0, PlanOpType DEF OpTypes
  <2> QED BY <2>1, <1>0 DEF PlanOp, WellFormed
<1> HIDE DEF o
<1>5. PICK todo : OkTodo(todo) /\ Appends(todo, then)
  <2>1. CASE Appends(<<>>, then)
    BY <2>1, OkTodos
  <2>2. CASE Appends(<<o>>, then)
    BY <2>2, <1>2, OkTodos
  <2>3. ASSUME NEW t \in Tasks, Appends(<<[o EXCEPT !.task = t]>>, then)
        PROVE  \E q : OkTodo(q) /\ Appends(q, then)
    BY <2>3, <1>3, OkTodos
  <2>4. ASSUME NEW x \in States, NEW i \in {0, 1},
               \/ Appends(<<PlanOp(run.env, "STATE", i, x), o>>, then)
               \/ Appends(<<o, PlanOp(run.env, "STATE", i, x)>>, then)
        PROVE  \E q : OkTodo(q) /\ Appends(q, then)
    BY <2>4, <1>2, <1>4, OkTodos
  <2> QED BY <2>1, <2>2, <2>3, <2>4 DEF o
<1> QED BY <1>1, <1>5, DispatchInd

(* Every action preserves the inductive invariant.                         *)
LEMMA StepInd == IndInv /\ [Next]_vars => IndInv'
<1> SUFFICES ASSUME IndInv, [Next]_vars PROVE IndInv'
  OBVIOUS
<1> USE DEF IndInv
<1>e. run.pc = "handle" => run.env.sender \in Senders
  BY EnvType
<1>1. ASSUME handle_need PROVE IndInv'
  <2>1. PICK t \in Tasks : Appends(<<[PlanOp(run.env, "ADD_TASK", 0, "none") EXCEPT !.task = t]>>, "ack")
    BY <1>1, TaskFlowAssumption DEF handle_need
  <2>2. /\ run.pc = "handle" /\ ballots' \subseteq Senders /\ "none" \in Notes
        /\ UNCHANGED <<sent, done, queue, ops, tasks, chosen, leases, crashes>>
    BY <1>1 DEF handle_need, Received, TypeOK, Notes
  <2> QED BY <2>1, <2>2, PlainHandler
<1>2. ASSUME handle_propose PROVE IndInv'
  <2>1. Appends(<<PlanOp(run.env, "ANNOTATE", 0, "proposal")>>, "ack")
    BY <1>2 DEF handle_propose
  <2>2. /\ run.pc = "handle" /\ ballots' \subseteq Senders /\ "proposal" \in Notes
        /\ UNCHANGED <<sent, done, queue, ops, tasks, chosen, leases, crashes>>
    BY <1>2, <1>e DEF handle_propose, Received, TypeOK, Notes
  <2> QED BY <2>1, <2>2, PlainHandler
<1>3. ASSUME handle_propose_extended PROVE IndInv'
  <2>1. Appends(<<>>, "ack") \/ Appends(<<PlanOp(run.env, "ANNOTATE", 0, "proposal_extended")>>, "ack")
    BY <1>3 DEF handle_propose_extended
  <2>2. /\ run.pc = "handle" /\ ballots' \subseteq Senders /\ "proposal_extended" \in Notes
        /\ UNCHANGED <<sent, done, queue, ops, tasks, chosen, leases, crashes>>
    BY <1>3, <1>e DEF handle_propose_extended, Received, TypeOK, Notes
  <2> QED BY <2>1, <2>2, PlainHandler
<1>4. ASSUME handle_claim PROVE IndInv'
  <2>1. Appends(<<PlanOp(run.env, "ANNOTATE", 0, "claim")>>, "ack")
    BY <1>4 DEF handle_claim
  <2>2. /\ run.pc = "handle" /\ ballots' \subseteq Senders /\ "claim" \in Notes
        /\ UNCHANGED <<sent, done, queue, ops, tasks, chosen, leases, crashes>>
    BY <1>4, <1>e DEF handle_claim, Received, TypeOK, Notes
  <2> QED BY <2>1, <2>2, PlainHandler
<1>5. ASSUME handle_commit PROVE IndInv'
  <2>1. Appends(<<PlanOp(run.env, "ANNOTATE", 0, "commit")>>, "ack")
    BY <1>5 DEF handle_commit
  <2>2. /\ run.pc = "handle" /\ ballots' \subseteq Senders /\ "commit" \in Notes
        /\ UNCHANGED <<sent, done, queue, ops, tasks, chosen, leases, crashes>>
    BY <1>5, <1>e DEF handle_commit, Received, TypeOK, Notes
  <2> QED BY <2>1, <2>2, PlainHandler
<1>6. ASSUME handle_attest PROVE IndInv'
  <2>1. Appends(<<PlanOp(run.env, "ANNOTATE", 0, "attestation")>>, "fail")
    BY <1>6 DEF handle_attest
  <2>2. /\ run.pc = "handle" /\ ballots' \subseteq Senders /\ "attestation" \in Notes
        /\ UNCHANGED <<sent, done, queue, ops, tasks, chosen, leases, crashes>>
    BY <1>6, <1>e DEF handle_attest, Received, TypeOK, Notes
  <2> QED BY <2>1, <2>2, PlainHandler
<1>7. ASSUME handle_finalize PROVE IndInv'
  <2>1. Appends(<<PlanOp(run.env, "STATE", 0, "FINAL"), PlanOp(run.env, "ANNOTATE", 0, "finalize")>>, "ack")
    BY <1>7 DEF handle_finalize
  <2>2. /\ run.pc = "handle" /\ ballots' \subseteq Senders
        /\ "finalize" \in Notes /\ "FINAL" \in States
        /\ UNCHANGED <<sent, done, queue, ops, tasks, chosen, leases, crashes>>
    BY <1>7 DEF handle_finalize, Received, TypeOK, Notes, States
  <2> QED BY <2>1, <2>2, PlainHandler
<1>8. ASSUME handle_yield PROVE IndInv'
  <2>1. /\ Appends(<<>>, "fail") /\ run.pc = "handle" /\ ballots' \subseteq Senders
        /\ "none" \in Notes
        /\ UNCHANGED <<sent, done, queue, ops, tasks, chosen, leases, crashes>>
    BY <1>8 DEF handle_yield, Received, TypeOK, Notes
  <2> QED BY <2>1, PlainHandler
<1>9. ASSUME handle_release PROVE IndInv'
  <2>1. Appends(<<PlanOp(run.env, "ANNOTATE", 0, "release"), PlanOp(run.env, "STATE", 1, "DRAFT")>>, "ack")
    BY <1>9 DEF handle_release
  <2>2. /\ run.pc = "handle" /\ ballots' \subseteq Senders
        /\ "release" \in Notes /\ "DRAFT" \in States
        /\ UNCHANGED <<sent, done, queue, ops, tasks, chosen, leases, crashes>>
    BY <1>9 DEF handle_release, Received, TypeOK, Notes, States
  <2> QED BY <2>1, <2>2, PlainHandler
<1>10. ASSUME handle_decide PROVE IndInv'
  BY <1>10, TryDecideInd DEF handle_decide, Received
<1>11. ASSUME handle_claim_extended PROVE IndInv'
  <2>1. CASE \E l \in leases : l[1] = run.env.task /\ l[2] # run.env.sender
    <3>1. /\ Appends(<<>>, "ack") /\ run.pc = "handle" /\ ballots' \subseteq Senders
          /\ UNCHANGED <<sent, done, queue, ops, tasks, chosen, leases, crashes>>
      BY <1>11, <2>1 DEF handle_claim_extended, Received, TypeOK
    <3>2. "none" \in Notes
      BY DEF Notes
    <3> QED BY <3>1, <3>2, PlainHandler
  <2>2. CASE ~\E l \in leases : l[1] = run.env.task /\ l[2] # run.env.sender
    BY <1>11, <2>2, TryDecideInd DEF handle_claim_extended, Received
  <2> QED BY <2>1, <2>2
<1>12. ASSUME handle_update_plan PROVE IndInv'
  <2> DEFINE p == run.env.patch
             q == [i \in 1..Len(p) |-> PlanOp(run.env, p[i].type, i - 1, p[i].arg)]
  <2>1. run.pc = "handle" /\ Appends(q, "ack")
    BY <1>12 DEF handle_update_plan, Received
  <2>2. /\ run.env \in Envelope /\ run.env \in Traffic /\ p \in Seq(Change)
        /\ run.env.lamport \in Nat /\ run.env.lamport > 0
    BY <2>1, EnvType
  <2>3. \A i \in 1..Len(p) : p[i].type = "STATE" => p[i].arg \in States
    BY <2>2, TaskFlowAssumption
  <2>4. ASSUME NEW i \in 1..Len(p) PROVE q[i] \in Op /\ WellFormed(q[i])
    <3>1. p[i] \in Change /\ i - 1 \in Nat
      BY <2>2
    <3>2. q[i] = PlanOp(run.env, p[i].type, i - 1, p[i].arg)
      OBVIOUS
    <3>3. q[i] \in Op
      BY <2>2, <3>1, <3>2, PlanOpType DEF Change
    <3>4. /\ q[i].type = p[i].type /\ q[i].arg = p[i].arg
          /\ q[i].lamport = run.env.lamport + (i - 1)
      BY <3>2 DEF PlanOp
    <3>5. WellFormed(q[i])
      <4>1. run.env.lamport + (i - 1) > 0
        BY <2>2, <3>1
      <4>2. q[i].lamport > 0
        BY <3>4, <4>1
      <4>3. q[i].type = "STATE" => q[i].arg \in States
        BY <2>3, <3>4
      <4> HIDE DEF p, q
      <4> QED BY <4>2, <4>3 DEF WellFormed
    <3> QED BY <3>3, <3>5
  <2>5. OkTodo(q)
    <3>1. Len(p) \in Nat
      BY <2>2
    <3>2. q \in Seq(Op) /\ Len(q) = Len(p)
      <4>1. q \in [1..Len(p) -> Op]
        BY <2>4
      <4> HIDE DEF p, q
      <4> QED BY <3>1, <4>1
    <3> HIDE DEF p, q
    <3> QED BY <2>4, <3>2 DEF OkTodo
  <2>6. /\ UNCHANGED <<sent, done, queue, ops, tasks, leases, crashes>>
        /\ chosen' \in [Tasks -> Senders \cup {Nobody}] /\ ballots' \subseteq Senders
    BY <1>12 DEF handle_update_plan, TypeOK
  <2> HIDE DEF p, q
  <2> QED BY <2>1, <2>5, <2>6, DispatchInd
<1>13. ASSUME dispatch PROVE IndInv'
  BY <1>1, <1>2, <1>3, <1>4, <1>5, <1>6, <1>7, <1>8, <1>9, <1>10, <1>11, <1>12, <1>13 DEF dispatch
<1>14. ASSUME NEW e \in Traffic, Publish(e) PROVE IndInv'
  <2> USE <1>14 DEF Publish
  <2>1. TypeOK'
    BY DEF TypeOK
  <2>2. LatestWins'
    BY LatestUnchanged
  <2> QED BY <2>1, <2>2 DEF OneHolder, ClaimUncontested, TodoWellFormed
<1>15. ASSUME Fetch PROVE IndInv'
  <2> USE <1>15 DEF Fetch
  <2>1. TypeOK'
    <3>1. Head(queue) \in Traffic /\ Tail(queue) \in Seq(Traffic)
      BY DEF TypeOK
    <3>2. /\ run' \in RunState /\ run'.pc = "handle" /\ run'.env \in Traffic
      BY <3>1, IdleType DEF RunState
    <3> QED BY <3>1, <3>2 DEF TypeOK, RunState
  <2>2. LatestWins'
    BY LatestUnchanged
  <2>3. OneHolder'
    BY DEF OneHolder
  <2>4. ClaimUncontested' /\ TodoWellFormed'
    BY IdleType DEF ClaimUncontested, TodoWellFormed, Idle
  <2> QED BY <2>1, <2>2, <2>3, <2>4
<1>16. ASSUME Refuse PROVE IndInv'
  <2> USE <1>16 DEF Refuse
  <2>1. TypeOK'
    BY IdleType, EnvType DEF TypeOK, RunState, Idle
  <2>2. LatestWins'
    BY LatestUnchanged
  <2>3. OneHolder'
    BY DEF OneHolder
  <2>4. ClaimUncontested' /\ TodoWellFormed'
    BY IdleType DEF ClaimUncontested, TodoWellFormed, Idle
  <2> QED BY <2>1, <2>2, <2>3, <2>4
<1>17. ASSUME Ack PROVE IndInv'
  <2> USE <1>17 DEF Ack
  <2>1. TypeOK'
    BY IdleType, EnvType DEF TypeOK, RunState, Idle
  <2>2. LatestWins'
    BY LatestUnchanged
  <2>3. OneHolder'
    BY DEF OneHolder
  <2>4. ClaimUncontested' /\ TodoWellFormed'
    BY IdleType DEF ClaimUncontested, TodoWellFormed, Idle
  <2> QED BY <2>1, <2>2, <2>3, <2>4
<1>18. ASSUME append_op PROVE IndInv'
  <2> USE <1>18 DEF append_op
  <2> DEFINE o == Head(run.todo)
  <2>1. /\ run \in RunState /\ run.todo \in Seq(Op) /\ run.todo # <<>>
    BY DEF TypeOK, RunState
  <2>2. o \in Op /\ Tail(run.todo) \in Seq(Op) /\ WellFormed(o)
    BY <2>1 DEF TodoWellFormed
  <2>3. /\ ops' = ops \cup {o}
        /\ tasks' = [tasks EXCEPT ![o.task] = apply_op(@, o)]
    OBVIOUS
  <2>4. LatestWins' /\ tasks' \in [Tasks -> Row]
    <3> HIDE DEF o
    <3> QED BY <2>2, <2>3, AppendKeepsLatest
  <2>5. /\ run' \in RunState /\ run'.env = run.env /\ run'.then = run.then /\ run'.pc = run.pc
        /\ run'.todo = Tail(run.todo)
    BY <2>1, <2>2 DEF RunState
  <2>6. TypeOK'
    BY <2>2, <2>3, <2>4, <2>5 DEF TypeOK, RunState
  <2>7. OneHolder' /\ ClaimUncontested'
    BY <2>5 DEF OneHolder, ClaimUncontested
  <2>8. TodoWellFormed'
    BY <2>1, <2>5 DEF TodoWellFormed
  <2> QED BY <2>4, <2>6, <2>7, <2>8
<1>19. ASSUME ClaimLease PROVE IndInv'
  <2> USE <1>19 DEF ClaimLease
  <2> DEFINE o == PlanOp(run.env, "ANNOTATE", 0, "claim_extended")
  <2>1. /\ run.env \in Envelope /\ run.env.task \in Tasks /\ run.env.sender \in Senders
    BY EnvType
  <2>2. o \in Op
    BY <2>1, PlanOpType DEF OpTypes, Notes
  <2>3. WellFormed(o)
    BY DEF PlanOp, WellFormed
  <2>4. OkTodo(<<o>>) /\ OkTodo(<<>>)
    BY <2>2, <2>3, OkTodos
  <2>5. PICK todo : OkTodo(todo) /\ Appends(todo, "ack")
    <3> HIDE DEF o
    <3> QED BY <2>4 DEF o
  <2>6. /\ run' \in RunState /\ run'.env \in Traffic /\ run'.then = "ack" /\ run'.todo = todo
    BY <2>5, AppendsType DEF OkTodo
  <2>7. leases' \subseteq leases \cup {<<run.env.task, run.env.sender>>}
    OBVIOUS
  <2>8. TypeOK'
    BY <2>1, <2>6, <2>7 DEF TypeOK, RunState
  <2>9. LatestWins'
    BY LatestUnchanged
  <2>10. OneHolder'
    BY <2>7 DEF OneHolder, ClaimUncontested
  <2>11. ClaimUncontested' /\ TodoWellFormed'
    BY <2>5, <2>6 DEF ClaimUncontested, TodoWellFormed, OkTodo
  <2> QED BY <2>8, <2>9, <2>10, <2>11
<1>20. ASSUME Restart, UNCHANGED <<sent, done, ops, tasks, chosen>>, crashes' \in Nat PROVE IndInv'
  <2> USE <1>20 DEF Restart
  <2>1. TypeOK'
    BY IdleType, EnvType DEF TypeOK, RunState, Idle
  <2>2. LatestWins'
    BY LatestUnchanged
  <2>3. OneHolder' /\ ClaimUncontested' /\ TodoWellFormed'
    BY IdleType DEF OneHolder, ClaimUncontested, TodoWellFormed
  <2> QED BY <2>1, <2>2, <2>3
<1>21. ASSUME HandlerFails \/ Crash PROVE IndInv'
  BY <1>21, <1>20 DEF HandlerFails, Crash, TypeOK
<1>22. CASE UNCHANGED vars
  BY <1>22, LatestUnchanged DEF vars, TypeOK, OneHolder, ClaimUncontested, TodoWellFormed
<1> QED BY <1>13, <1>14, <1>15, <1>16, <1>17, <1>18, <1>19, <1>21, <1>22 DEF Next, Runner

(* Type correctness of the tables, the queue and the runner.               *)
THEOREM TaskFlowTypeCorrect == Spec => []TypeOK
<1>1. IndInv => TypeOK
  BY DEF IndInv
<1> QED BY <1>1, InitInd, StepInd, PTL DEF Spec

(* _apply_op makes tasks a last-writer-wins register over the op log, for  *)
(* any sequence of envelopes, redeliveries and crashes.                    *)
THEOREM TasksAreLatest == Spec => []LatestWins
<1>1. IndInv => LatestWins
  BY DEF IndInv
<1> QED BY <1>1, InitInd, StepInd, PTL DEF Spec

(* Two workers never hold leases on one task in the registry of            *)
(* handle_claim_extended.                                                  *)
THEOREM AlwaysOneHolder == Spec => []OneHolder
<1>1. IndInv => OneHolder
  BY DEF IndInv
<1> QED BY <1>1, InitInd, StepInd, PTL DEF Spec

(* Handling an envelope again never changes the state of a task, unless it *)
(* appends an op that the first time did not get to.                       *)
THEOREM RedeliveryAlwaysHarmless == Spec => RedeliveryIsHarmless
<1>1. ASSUME IndInv, [Next]_vars PROVE [tasks' # tasks => ops' # ops]_vars
  <2> SUFFICES ASSUME Next, tasks' # tasks PROVE ops' # ops
    BY <1>1
  <2>1. append_op
    BY DEF Next, Runner, dispatch, Publish, Fetch, Refuse, ClaimLease, Ack, HandlerFails, Crash,
           handle_need, handle_propose, handle_propose_extended, handle_claim, handle_commit,
           handle_attest, handle_decide, handle_finalize, handle_yield, handle_release,
           handle_claim_extended, handle_update_plan
  <2> DEFINE o == Head(run.todo)
  <2>2. o \in Op /\ WellFormed(o) /\ TypeOK /\ LatestWins
    <3>1. run.todo \in Seq(Op) /\ run.todo # <<>> /\ TypeOK /\ LatestWins /\ TodoWellFormed
      BY <1>1, <2>1 DEF IndInv, TypeOK, append_op
    <3> QED BY <3>1 DEF TodoWellFormed
  <2>3. /\ ops' = ops \cup {o}
        /\ tasks' = [tasks EXCEPT ![o.task] = apply_op(@, o)]
    BY <2>1 DEF append_op
  <2> HIDE DEF o
  <2> QED BY <2>2, <2>3, AppendKeepsLatest
<1> QED BY <1>1, InitInd, StepInd, PTL DEF Spec, RedeliveryIsHarmless

=============================================================================
