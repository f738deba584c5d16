----------------------------- MODULE Governance -----------------------------
(***************************************************************************)
(* GovernanceSystem: proposals that change parameters, weighted votes.     *)
(* Everything is in memory, and each call runs to its end.                 *)
(***************************************************************************)
EXTENDS Integers, FiniteSets, Functions

CONSTANTS
    Proposals,
    Changes,          \* Changes[p], the parameter_changes of proposal p
    Voters,
    Weights,          \* weights that voters register and vote with
    VotingPeriod,
    GovMaxTime        \* bound on the clock

ASSUME GovernanceAssumption ==
    /\ IsFiniteSet(Voters)
    /\ Weights \subseteq Nat
    /\ {VotingPeriod, GovMaxTime} \subseteq Nat

VARIABLES
    clock,
    proposals,        \* [status, voting_end] of each proposal
    votes,            \* votes[p][v] = [choice, weight], choice "none": no vote
    registered,       \* registered_voters: the weight of each, 0: not registered
    totalWeight,      \* total_voting_weight
    parameters

governanceVars == <<clock, proposals, votes, registered, totalWeight, parameters>>

NoVote == [choice |-> "none", weight |-> 0]

DEFAULT_PARAMS == [k_plan |-> 3, k_result |-> 5, bounty_cap |-> 1000, slashing_percentage |-> 10]

GovernanceInit ==
    /\ clock = 0
    /\ proposals = [p \in Proposals |-> [status |-> "absent", voting_end |-> 0]]
    /\ votes = [p \in Proposals |-> [v \in Voters |-> NoVote]]
    /\ registered = [v \in Voters |-> 0]
    /\ totalWeight = 0
    /\ parameters = DEFAULT_PARAMS

GovTick ==
    /\ clock < GovMaxTime
    /\ clock' = clock + 1
    /\ UNCHANGED <<proposals, votes, registered, totalWeight, parameters>>

(* A voter may register again with another weight, also after it voted.    *)
register_voter(v, weight) ==
    /\ weight > 0
    /\ registered' = [registered EXCEPT ![v] = weight]
    /\ totalWeight' = totalWeight - registered[v] + weight
    /\ UNCHANGED <<clock, proposals, votes, parameters>>

(* slashing_percentage is kept in percent.                                 *)
validate_parameter_changes(changes) ==
    /\ DOMAIN changes \subseteq DOMAIN DEFAULT_PARAMS
    /\ \A param \in DOMAIN changes :
         IF param = "slashing_percentage" THEN changes[param] \in 0..100
         ELSE changes[param] > 0

(* With enough stake; the stake is kept with the proposal only.            *)
submit_proposal(p) ==
    /\ proposals[p].status = "absent"
    /\ validate_parameter_changes(Changes[p])
    /\ proposals' = [proposals EXCEPT ![p].status = "pending"]
    /\ UNCHANGED <<clock, votes, registered, totalWeight, parameters>>

start_voting(p) ==
    /\ proposals[p].status = "pending"
    /\ proposals' = [proposals EXCEPT ![p] = [status |-> "active",
                                              voting_end |-> clock + VotingPeriod]]
    /\ votes' = [votes EXCEPT ![p] = [v \in Voters |-> NoVote]]
    /\ UNCHANGED <<clock, registered, totalWeight, parameters>>

(* Faulty variant: votes are taken whatever the status of the proposal.    *)
vote_Anytime(p, v, choice, weight) ==
    /\ proposals[p].status # "absent"
    /\ weight > 0 /\ weight <= registered[v]
    /\ votes' = [votes EXCEPT ![p][v] = [choice |-> choice, weight |-> weight]]
    /\ UNCHANGED <<clock, proposals, registered, totalWeight, parameters>>

(* A late vote is refused and expires the proposal.  A second vote of a    *)
(* voter replaces the first.                                               *)
vote(p, v, choice, weight) ==
    /\ proposals[p].status = "active"
    /\ IF clock > proposals[p].voting_end
       THEN /\ proposals' = [proposals EXCEPT ![p].status = "expired"]
            /\ UNCHANGED votes
       ELSE /\ weight > 0 /\ weight <= registered[v]
            /\ votes' = [votes EXCEPT ![p][v] = [choice |-> choice, weight |-> weight]]
            /\ UNCHANGED proposals
    /\ UNCHANGED <<clock, registered, totalWeight, parameters>>

WeightOf(p, choices) ==
    SumFunctionOnSet([v \in Voters |-> votes[p][v].weight],
                     {v \in Voters : votes[p][v].choice \in choices})

(* 20% of the registered weight.                                           *)
quorum_met(p) ==
    totalWeight > 0 /\ 10 * WeightOf(p, {"yes", "no", "abstain"}) >= 2 * totalWeight

(* 51% of the votes that are not abstentions.                              *)
approval_met(p) ==
    /\ WeightOf(p, {"yes", "no"}) > 0
    /\ 100 * WeightOf(p, {"yes"}) >= 51 * WeightOf(p, {"yes", "no"})

(* Nothing asks whether the voting period is over.                         *)
finalize_proposal(p) ==
    /\ proposals[p].status = "active"
    /\ proposals' = [proposals EXCEPT ![p].status =
                       IF quorum_met(p) /\ approval_met(p) THEN "passed" ELSE "rejected"]
    /\ UNCHANGED <<clock, votes, registered, totalWeight, parameters>>

execute_proposal(p) ==
    /\ proposals[p].status = "passed"
    /\ parameters' = [param \in DOMAIN parameters |->
                        IF param \in DOMAIN Changes[p] THEN Changes[p][param]
                        ELSE parameters[param]]
    /\ proposals' = [proposals EXCEPT ![p].status = "executed"]
    /\ UNCHANGED <<clock, votes, registered, totalWeight>>

GovernanceNext ==
    \/ GovTick
    \/ \E v \in Voters, w \in Weights : register_voter(v, w)
    \/ \E p \in Proposals : submit_proposal(p) \/ start_voting(p) \/ finalize_proposal(p)
                            \/ execute_proposal(p)
    \/ \E p \in Proposals, v \in Voters, choice \in {"yes", "no", "abstain"}, w \in Weights :
         vote(p, v, choice, w)

GovernanceSpec == GovernanceInit /\ [][GovernanceNext]_governanceVars

(* The total is the sum of the weights, whoever registers again; the votes *)
(* on record carry every proposal that passed; and a parameter differs     *)
(* from its default only if a proposal that was executed set it            *)
(* (governance.py 105-118, 196-370).                                       *)
ExecutedWasCarried ==
    /\ totalWeight = SumFunctionOnSet(registered, Voters)
    /\ \A p \in Proposals : proposals[p].status \in {"passed", "executed"} => approval_met(p)
    /\ \A param \in DOMAIN parameters :
         parameters[param] # DEFAULT_PARAMS[param] =>
           \E p \in Proposals : /\ proposals[p].status = "executed"
                                /\ param \in DOMAIN Changes[p]
                                /\ Changes[p][param] = parameters[param]
=============================================================================
