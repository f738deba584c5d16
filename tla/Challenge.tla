----------------------------- MODULE Challenge ------------------------------
(***************************************************************************)
(* The life of a challenge: taken in (ChallengeIntake), verified           *)
(* (ChallengeQueue), its outcome processed (OutcomeHandler), its task      *)
(* invalidated (handle_invalidate) and the bounty of the task paid         *)
(* (PayoutDistributor).                                                    *)
(*                                                                         *)
(* Each of these is called from outside: Enqueue, the choice of an outcome *)
(* and the INVALIDATE message stand for callers that src/ does not hold.   *)
(***************************************************************************)
EXTENDS ChallengeIntake, ChallengeQueue

CONSTANTS
    Verifiers,      \* who attested the tasks
    InitialStake,
    T_CHALLENGE,
    CompletedAt     \* when the tasks were completed

ASSUME OutcomeAssumption ==
    /\ InitialStake \in Nat
    /\ {T_CHALLENGE, CompletedAt} \subseteq Nat

VARIABLES
    stakes,         \* locked credits of each verifier
    wallets,        \* balance of each verifier, above what it began with
    treasury,       \* balance of the account "system"
    outcomes,       \* the outcome processed for each challenge
    invalidated,    \* PayoutDistributor._invalidated_tasks
    distributed     \* tasks whose bounty was distributed

outcomeVars == <<stakes, wallets, treasury, outcomes, invalidated, distributed>>

(* Of the intake variables, what the other components leave alone.         *)
intake == <<now, windows, windowLock, recent, balance, escrows, accepted, uuids, loop,
            recorded>>

vars == <<intakeVars, queueVars, outcomeVars>>

Init ==
    /\ IntakeInit
    /\ QueueInit
    /\ stakes = [v \in Verifiers |-> InitialStake]
    /\ wallets = [v \in Verifiers |-> 0]
    /\ treasury = InitialStake
    /\ outcomes = [c \in Challenges |-> "none"]
    /\ invalidated = {}
    /\ distributed = {}

-----------------------------------------------------------------------------
(* An accepted challenge is given to the queue, if it is one of the first. *)
Enqueue(i, proof_type, jitter) ==
    /\ accepted[i].challenge_id \in Challenges
    /\ add_challenge(accepted[i].challenge_id, proof_type, accepted[i].bond, jitter)
    /\ Called
    /\ UNCHANGED <<intake, outcomeVars>>

Record(c) == {accepted[i] : i \in {j \in DOMAIN accepted : accepted[j].challenge_id = c}}

-----------------------------------------------------------------------------
(* OutcomeHandler.                                                         *)
WasStaked == [v \in Verifiers |-> InitialStake]

(* execute_slash takes what is still staked, at most.                      *)
Slashed(read) ==
    [v \in Verifiers |-> stakes[v] - Min({stakes[v], (read[v] * 50) \div 100})]

(* The reward is computed from the stakes the caller passes, which it read *)
(* earlier.  The bond is looked for under the id of the challenge; what    *)
(* the ledger raises is swallowed, also when "system" has too little.      *)
process_upheld(r, read) ==
    LET total == MapThenSumSet(LAMBDA v : (read[v] * 50) \div 100, Verifiers)
        reward == (total * 20) \div 100
        bond == {e \in escrows : e.id = r.challenge_id /\ ~e.released}
        returned == MapThenSumSet(LAMBDA e : e.amount, bond)
        paid == IF treasury >= reward THEN reward ELSE 0
    IN
    /\ stakes' = Slashed(read)
    /\ treasury' = treasury - paid
    /\ balance' = [balance EXCEPT ![r.challenger] = @ + returned + paid]
    /\ escrows' = (escrows \ bond) \cup {[e EXCEPT !.released = TRUE] : e \in bond}
    /\ outcomes' = [outcomes EXCEPT ![r.challenge_id] = "UPHELD"]

(* REJECTED and WITHDRAWN report amounts and leave the ledger alone.       *)
process_other(r, outcome) ==
    /\ outcomes' = [outcomes EXCEPT ![r.challenge_id] = outcome]
    /\ UNCHANGED <<stakes, treasury, balance, escrows>>

process_outcome(c, r, read) ==
    /\ Called
    /\ outcomes[c] = "none"
    /\ \/ /\ rows[c].status = "verified" /\ rows[c].is_valid
          /\ process_upheld(r, read)
       \/ /\ rows[c].status = "verified" /\ ~rows[c].is_valid
          /\ process_other(r, "REJECTED")
       \/ /\ rows[c].status \in {"absent", "queued"}
          /\ process_other(r, "WITHDRAWN")
    /\ UNCHANGED <<queueVars, now, windows, windowLock, recent, accepted, uuids, loop,
                   recorded, wallets, invalidated, distributed>>

-----------------------------------------------------------------------------
(* slash_verifiers: half of what the accused have staked; of that 50% for  *)
(* the challenger and 40% for the verifiers named honest, the odd credits  *)
(* for the first of them.                                                  *)
slash_verifiers(accused, challenger, honest) ==
    LET amount(v) == (stakes[v] * 50) \div 100
        total == MapThenSumSet(amount, accused)
        honest_total == (total * 40) \div 100
        count == Cardinality(honest)
    IN
    /\ stakes' = [v \in Verifiers |-> IF v \in accused THEN stakes[v] - amount(v) ELSE stakes[v]]
    /\ balance' = [balance EXCEPT ![challenger] = @ + (total * 50) \div 100]
    /\ \/ honest = {} /\ UNCHANGED wallets
       \/ \E first \in honest :
            wallets' = [v \in Verifiers |->
                          IF v \notin honest THEN wallets[v]
                          ELSE wallets[v] + honest_total \div count
                                 + IF v = first THEN honest_total % count ELSE 0]

(* handle_invalidate, for any message that is complete, also a second one  *)
(* and one for a challenge that was not upheld.  Without the attestation   *)
(* of every verifier named honest the slash raises, before it took         *)
(* anything, and the task is marked all the same.  Its get_task and        *)
(* annotate_task are coroutines that nobody awaits, so that the plan keeps *)
(* the task as it is.                                                      *)
handle_invalidate(t, challenger) ==
    /\ Called
    /\ \/ \E accused \in (SUBSET Verifiers) \ {{}}, honest \in SUBSET Verifiers :
            slash_verifiers(accused, challenger, honest)
       \/ UNCHANGED <<stakes, wallets, balance>>
    /\ invalidated' = invalidated \cup {t}
    /\ UNCHANGED <<now, windows, windowLock, recent, escrows, accepted, uuids, loop, recorded,
                   queueVars, treasury, outcomes, distributed>>

(* PayoutDistributor.                                                      *)
can_payout(t) == t \notin invalidated /\ now - CompletedAt >= 2 * T_CHALLENGE

execute_payout(t) ==
    /\ Called
    /\ can_payout(t)
    /\ t \notin distributed
    /\ distributed' = distributed \cup {t}
    /\ UNCHANGED <<intake, queueVars, stakes, wallets, treasury, outcomes, invalidated>>

(* The coordinator starts again; the agents are other processes.           *)
Restart ==
    /\ IntakeRestart
    /\ invalidated' = {}
    /\ UNCHANGED <<queueVars, stakes, wallets, treasury, outcomes, distributed>>

-----------------------------------------------------------------------------
Next ==
    \/ IntakeNext /\ UNCHANGED <<queueVars, outcomeVars>>
    \/ \E a \in Agents : process_queue(a) /\ UNCHANGED <<intakeVars, outcomeVars>>
    \/ QueueCall /\ Called /\ UNCHANGED <<intake, outcomeVars>>
    \/ \E i \in DOMAIN accepted, proof_type \in TypesGiven, jitter \in {0, 1} :
         Enqueue(i, proof_type, jitter)
    \/ \E c \in Challenges : \E r \in Record(c), read \in {stakes, WasStaked} :
         process_outcome(c, r, read)
    \/ \E t \in Tasks : \/ \E challenger \in Challengers : handle_invalidate(t, challenger)
                         \/ execute_payout(t)
    \/ Restart

(* Every agent runs process_queue for ever, and sleeps for seconds at most.*)
Spec == Init /\ [][Next]_vars
        /\ \A a \in Agents : WF_vars(process_queue(a) /\ UNCHANGED <<intakeVars, outcomeVars>>)
=============================================================================
