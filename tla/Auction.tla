------------------------------- MODULE Auction ------------------------------
(***************************************************************************)
(* AuctionManager: bids that BidSubmitter prepares arrive until the window *)
(* is over; BidEvaluator picks the winner.                                 *)
(***************************************************************************)
EXTENDS Integers, Sequences, FiniteSets, FiniteSetsExt

CONSTANTS
    AuctionNeeds,
    Submitters,        \* agent -> [reputation (in tenths), capabilities]
    Payloads,          \* tasks: [complexity, requires]
    Budgets,
    bid_window,        \* in units of 5 seconds, as the late-bid margin
    AuctionMaxTime

ASSUME AuctionAssumption ==
    /\ Budgets \subseteq Nat /\ bid_window \in Nat /\ AuctionMaxTime \in Nat
    /\ \A a \in DOMAIN Submitters : /\ Submitters[a].reputation \in 0..10
                                   /\ IsFiniteSet(Submitters[a].capabilities)
    /\ \A p \in Payloads : p.complexity \in Nat

VARIABLES
    auctions,          \* AuctionManager._auctions; status "absent" or the code's
    time_ns,           \* the clock
    won                \* history: the winners that close_auction returned

auctionVars == <<auctions, time_ns, won>>

AuctionInit ==
    /\ auctions = [n \in AuctionNeeds |-> [status |-> "absent", budget |-> 0, start_time |-> 0,
                                           bids |-> <<>>, extensions |-> 0]]
    /\ time_ns = 0
    /\ won = [n \in AuctionNeeds |-> {}]

AuctionTick == time_ns < AuctionMaxTime /\ time_ns' = time_ns + 1 /\ UNCHANGED <<auctions, won>>

(* Costs are in units of 50 credits and estimates in tenths of base_eta.   *)
estimate_cost(payload, capabilities) ==
    Max({10 * payload.complexity - Cardinality(capabilities \cap payload.requires), 2})

estimate_eta(payload, capabilities) ==
    payload.complexity * (10 - Min({Cardinality(capabilities \cap payload.requires), 5}))

create_bid(agent, payload) ==
    [agent_id |-> agent, cost |-> estimate_cost(payload, Submitters[agent].capabilities),
     eta |-> estimate_eta(payload, Submitters[agent].capabilities),
     reputation |-> Submitters[agent].reputation,
     capabilities |-> Cardinality(Submitters[agent].capabilities)]

start_auction(n, budget) ==
    /\ auctions' = [auctions EXCEPT ![n] = [status |-> "open", budget |-> budget,
                                            start_time |-> time_ns, bids |-> <<>>,
                                            extensions |-> 0]]
    /\ won' = [won EXCEPT ![n] = {}]
    /\ UNCHANGED time_ns

(* A bid in the last 5 seconds moves start_time back, three times at most. *)
Late(a) == bid_window - (time_ns - a.start_time) < 1 /\ a.extensions < 3

BidRecord(bid) ==
    [agent_id |-> bid.agent_id, cost |-> bid.cost, eta |-> bid.eta,
     reputation |-> bid.reputation, capabilities |-> bid.capabilities, timestamp |-> time_ns]

WithBid(a, bid) ==
    [a EXCEPT !.bids = Append(@, BidRecord(bid)),
              !.start_time = IF Late(a) THEN @ - 1 ELSE @,
              !.extensions = IF Late(a) THEN @ + 1 ELSE @]

(* Faulty variant: a closed auction still takes bids.                      *)
take_bid_Closed(n, bid) ==
    /\ auctions[n].status # "absent"
    /\ time_ns - auctions[n].start_time <= bid_window
    /\ bid.cost <= auctions[n].budget
    /\ auctions' = [auctions EXCEPT ![n] = WithBid(@, bid)]
    /\ UNCHANGED <<time_ns, won>>

(* AuctionManager.accept_bid.                                              *)
take_bid(n, bid) ==
    /\ auctions[n].status = "open"
    /\ time_ns - auctions[n].start_time <= bid_window
    /\ bid.cost <= auctions[n].budget
    /\ auctions' = [auctions EXCEPT ![n] = WithBid(@, bid)]
    /\ UNCHANGED <<time_ns, won>>

(* max_eta is a week and base_eta an hour.                                 *)
max_eta == 1680

(* 40% cost, 30% time, 20% reputation, 10% capabilities, over a common     *)
(* denominator.                                                            *)
score_bid(bid, budget) ==
    LET cost == IF budget > 0 THEN budget - Min({bid.cost, budget}) ELSE 0
        one == Max({budget, 1})
    IN  40 * cost * max_eta * 10 + 30 * (max_eta - Min({bid.eta, max_eta})) * one * 10
          + 20 * bid.reputation * one * max_eta + 10 * Min({bid.capabilities, 10}) * one * max_eta

(* The best score, then the best reputation, then the earliest, and the    *)
(* first of what is left: the sorts are stable.                            *)
select_winner(bids, budget) ==
    LET score(i) == score_bid(bids[i], budget)
        better(i, j) ==
          \/ score(i) > score(j)
          \/ score(i) = score(j) /\ bids[i].reputation > bids[j].reputation
          \/ /\ score(i) = score(j) /\ bids[i].reputation = bids[j].reputation
             /\ bids[i].timestamp < bids[j].timestamp \/ (bids[i].timestamp = bids[j].timestamp /\ i < j)
    IN  bids[CHOOSE i \in DOMAIN bids : \A j \in DOMAIN bids \ {i} : better(i, j)]

close_auction(n) ==
    LET a == auctions[n]
    IN  /\ a.status # "absent"
        /\ auctions' = [auctions EXCEPT ![n].status = "closed"]
        /\ won' = [won EXCEPT ![n] = IF a.bids = <<>> THEN @ ELSE @ \cup {select_winner(a.bids, a.budget)}]
        /\ UNCHANGED time_ns

timeout_auction(n) ==
    /\ auctions[n].status # "absent"
    /\ auctions' = [auctions EXCEPT ![n].status = "timeout"]
    /\ UNCHANGED <<time_ns, won>>

AuctionNext ==
    \/ AuctionTick
    \/ \E n \in AuctionNeeds :
         \/ \E b \in Budgets : start_auction(n, b)
         \/ \E a \in DOMAIN Submitters, p \in Payloads : take_bid(n, create_bid(a, p))
         \/ close_auction(n) \/ timeout_auction(n)

(* However often an auction is closed, and however a timeout and late bids *)
(* come in between, it has one winner, and nobody who bid less or offered  *)
(* to be faster with no worse record lost to it (bidding.py 68-206,        *)
(* selection.py 25-125).                                                   *)
OneBestWinner ==
    \A n \in AuctionNeeds :
        /\ Cardinality(won[n]) <= 1
        /\ \A w \in won[n] : \A i \in DOMAIN auctions[n].bids :
             LET b == auctions[n].bids[i]
             IN  ~(/\ b.cost <= w.cost /\ b.eta <= w.eta /\ b.reputation >= w.reputation
                   /\ b.capabilities >= w.capabilities
                   /\ b.cost < w.cost \/ b.eta < w.eta)
=============================================================================
