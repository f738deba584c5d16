------------------------------- MODULE Market -------------------------------
(***************************************************************************)
(* TaskMarketplace: tasks, bids and the choice of a bid.  Every method is  *)
(* one transaction.  Ratings and price trends are reports and left out.    *)
(***************************************************************************)
EXTENDS Integers, FiniteSets

CONSTANTS MarketTasks, BidIds, Bidders, Caps, NoAgent

VARIABLES
    tasks,    \* table tasks: [status, capabilities, assigned_to]
    bids      \* table bids: [task, agent, status]

marketVars == <<tasks, bids>>

NoTask == [status |-> "absent", capabilities |-> {}, assigned_to |-> NoAgent]

NoBid == [task |-> NoAgent, agent |-> NoAgent, status |-> "absent"]

MarketInit ==
    /\ tasks = [t \in MarketTasks |-> NoTask]
    /\ bids = [b \in BidIds |-> NoBid]

(* The task id is the primary key: it cannot be posted twice.              *)
post_task(t, capabilities) ==
    /\ tasks[t] = NoTask
    /\ tasks' = [tasks EXCEPT ![t] = [status |-> "open", capabilities |-> capabilities,
                                      assigned_to |-> NoAgent]]
    /\ UNCHANGED bids

(* What an agent that has capabilities is offered.                         *)
list_available_tasks(capabilities) ==
    {t \in MarketTasks : tasks[t].status = "open" /\ capabilities \subseteq tasks[t].capabilities}

(* A bid may name a task that was never posted, or one that is assigned:   *)
(* the UPDATE then finds no row, or takes the task back to "bidding".      *)
submit_bid(b, t, agent) ==
    /\ bids[b] = NoBid
    /\ bids' = [bids EXCEPT ![b] = [task |-> t, agent |-> agent, status |-> "pending"]]
    /\ tasks' = IF tasks[t] = NoTask THEN tasks ELSE [tasks EXCEPT ![t].status = "bidding"]

(* Faulty variant: the other bids are not rejected.                        *)
accept_bid_Alone(b) ==
    /\ bids[b] # NoBid
    /\ bids' = [bids EXCEPT ![b].status = "accepted"]
    /\ tasks' = IF tasks[bids[b].task] = NoTask THEN tasks
                ELSE [tasks EXCEPT ![bids[b].task].status = "assigned",
                                   ![bids[b].task].assigned_to = bids[b].agent]

(* Any bid can be accepted, also after another one was, or one that was    *)
(* rejected.                                                               *)
accept_bid(b) ==
    LET t == bids[b].task IN
    /\ bids[b] # NoBid
    /\ bids' = [x \in BidIds |->
                  CASE x = b -> [bids[x] EXCEPT !.status = "accepted"]
                    [] x # b /\ bids[x].task = t -> [bids[x] EXCEPT !.status = "rejected"]
                    [] x # b /\ bids[x].task # t -> bids[x]]
    /\ tasks' = IF tasks[t] = NoTask THEN tasks
                ELSE [tasks EXCEPT ![t].status = "assigned", ![t].assigned_to = bids[b].agent]

MarketNext ==
    \/ \E t \in MarketTasks, c \in SUBSET Caps : post_task(t, c)
    \/ \E b \in BidIds, t \in MarketTasks, a \in Bidders : submit_bid(b, t, a)
    \/ \E b \in BidIds : accept_bid(b)

(* Whatever bids come in late and whatever is accepted anew: a task has    *)
(* one accepted bid at most, it went to the agent of that bid unless it    *)
(* was posted after the bid, and it is not offered again (market.py        *)
(* 230-347, 387-429).                                                      *)
AcceptedIsAssigned ==
    \A t \in MarketTasks :
      LET won == {b \in BidIds : bids[b].task = t /\ bids[b].status = "accepted"} IN
      /\ Cardinality(won) <= 1
      /\ tasks[t].assigned_to # NoAgent =>
           /\ \E b \in won : bids[b].agent = tasks[t].assigned_to
           /\ t \notin list_available_tasks({})
=============================================================================
