----------------------------- MODULE DecideOnce -----------------------------
(***************************************************************************)
(* What the consensus layer promises its users: at most one proposal is    *)
(* ever chosen for a NEED, and a node only ever acts on a chosen proposal. *)
(* ("Uses compare-and-set to ensure at-most-once DECIDE per NEED.")        *)
(***************************************************************************)
CONSTANTS Needs, Proposals, NoProposal

VARIABLES
    chosen,     \* the proposal chosen for each need, if any
    learned     \* pairs <<need, proposal>> that some node acted upon

vars == <<chosen, learned>>

Init ==
    /\ chosen = [x \in Needs |-> NoProposal]
    /\ learned = {}

Choose(x, p) ==
    /\ chosen[x] = NoProposal
    /\ chosen' = [chosen EXCEPT ![x] = p]
    /\ UNCHANGED learned

Learn(x, p) ==
    /\ chosen[x] = p
    /\ learned' = learned \cup {<<x, p>>}
    /\ UNCHANGED chosen

Next == \E x \in Needs, p \in Proposals : Choose(x, p) \/ Learn(x, p)

Spec == Init /\ [][Next]_vars

TypeOK ==
    /\ chosen \in [Needs -> Proposals \cup {NoProposal}]
    /\ learned \subseteq Needs \X Proposals

(* Nobody acts on a proposal other than the one chosen for its need.       *)
LearnedIsChosen == \A d \in learned : chosen[d[1]] = d[2]

=============================================================================
