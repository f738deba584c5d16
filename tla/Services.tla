------------------------------ MODULE Services ------------------------------
(***************************************************************************)
(* The services around the plan, side by side: marketplace/, the auctions, *)
(* the artifact escrows of the shards, the connection pool of the bus, the *)
(* hybrid bus, the gossip router, the pool of peers and the Lamport clock. *)
(* None calls another and they share no state, so that a behaviour is one  *)
(* of a single service.                                                    *)
(***************************************************************************)
EXTENDS Market, AgentRegistry, Governance, PaymentChannels, CircuitBreaker,
        Bus, HybridBus, Gossip, Auction, ShardEscrow

VARIABLE
    service,    \* the service that this behaviour is about
    calls       \* calls made so far to a service whose calls are bounded

CONSTANT MaxCalls   \* bounds on the calls made

Bounded == {"market", "registry", "governance", "channels", "breaker", "limiter", "auction",
            "lamport", "hybrid", "gossip", "peers"}

ASSUME ServicesAssumption == MaxCalls \in [Bounded -> Nat]

bounded == <<marketVars, registryVars, governanceVars, channelVars, breakerVars, limiterVars,
             auctionVars, lamportVars, hybridVars, gossipVars, poolVars>>

vars == <<bounded, busVars, escrowVars, service, calls>>

Init ==
    /\ MarketInit /\ RegistryInit /\ GovernanceInit /\ ChannelsInit /\ BreakerInit /\ LimiterInit
    /\ AuctionInit /\ LamportInit /\ HybridInit /\ GossipInit /\ PoolInit
    /\ BusInit /\ EscrowInit
    /\ service \in Bounded \cup {"bus", "escrow"}
    /\ calls = 0

Turn(s) ==
    /\ service = s /\ calls < MaxCalls[s]
    /\ calls' = calls + 1
    /\ UNCHANGED <<service, busVars, escrowVars>>

OfBus(A) == service = "bus" /\ A /\ UNCHANGED <<bounded, escrowVars, service, calls>>
OfEscrow(A) == service = "escrow" /\ A /\ UNCHANGED <<bounded, busVars, service, calls>>

Next ==
    \/ /\ Turn("market") /\ MarketNext
       /\ UNCHANGED <<registryVars, governanceVars, channelVars, breakerVars,
                      limiterVars, auctionVars, lamportVars, hybridVars, gossipVars, poolVars>>
    \/ /\ Turn("registry") /\ RegistryNext
       /\ UNCHANGED <<marketVars, governanceVars, channelVars, breakerVars,
                      limiterVars, auctionVars, lamportVars, hybridVars, gossipVars, poolVars>>
    \/ /\ Turn("governance") /\ GovernanceNext
       /\ UNCHANGED <<marketVars, registryVars, channelVars, breakerVars,
                      limiterVars, auctionVars, lamportVars, hybridVars, gossipVars, poolVars>>
    \/ /\ Turn("channels") /\ ChannelsNext
       /\ UNCHANGED <<marketVars, registryVars, governanceVars, breakerVars,
                      limiterVars, auctionVars, lamportVars, hybridVars, gossipVars, poolVars>>
    \/ /\ Turn("breaker") /\ BreakerNext
       /\ UNCHANGED <<marketVars, registryVars, governanceVars, channelVars,
                      limiterVars, auctionVars, lamportVars, hybridVars, gossipVars, poolVars>>
    \/ /\ Turn("limiter") /\ LimiterNext
       /\ UNCHANGED <<marketVars, registryVars, governanceVars, channelVars,
                      breakerVars, auctionVars, lamportVars, hybridVars, gossipVars, poolVars>>
    \/ /\ Turn("auction") /\ AuctionNext
       /\ UNCHANGED <<marketVars, registryVars, governanceVars, channelVars,
                      breakerVars, limiterVars, lamportVars, hybridVars, gossipVars, poolVars>>
    \/ /\ Turn("lamport") /\ LamportNext
       /\ UNCHANGED <<marketVars, registryVars, governanceVars, channelVars,
                      breakerVars, limiterVars, auctionVars, hybridVars, gossipVars, poolVars>>
    \/ /\ Turn("hybrid") /\ HybridNext
       /\ UNCHANGED <<marketVars, registryVars, governanceVars, channelVars,
                      breakerVars, limiterVars, auctionVars, lamportVars, gossipVars, poolVars>>
    \/ /\ Turn("gossip") /\ GossipNext
       /\ UNCHANGED <<marketVars, registryVars, governanceVars, channelVars, breakerVars,
                      limiterVars, auctionVars, lamportVars, hybridVars, poolVars>>
    \/ /\ Turn("peers") /\ PoolNext
       /\ UNCHANGED <<marketVars, registryVars, governanceVars, channelVars, breakerVars,
                      limiterVars, auctionVars, lamportVars, hybridVars, gossipVars>>
    \/ OfBus(BusNext)
    \/ OfEscrow(EscrowNext)

(* The event loop runs every coroutine that can run; connections, messages *)
(* and drains end, well or badly; time passes; a monitor that runs comes   *)
(* round.                                                                  *)
Fairness ==
    /\ \A p \in Publishers : WF_vars(OfBus(PublishStep(p)))
    /\ WF_vars(OfBus(CloseStep))
    /\ WF_vars(OfEscrow(EscrowTick))
    /\ WF_vars(OfEscrow(check_expirations))

Spec == Init /\ [][Next]_vars /\ Fairness

-----------------------------------------------------------------------------
(* What has a limit keeps it: the rate limiter in any window, across       *)
(* blocks and requests that are only recorded; the pool of peers with      *)
(* evictions and a blacklist; and the meshes while peers come and go       *)
(* (circuit_breaker.py 301-405, connection_pool.py 82-243, gossipsub.py    *)
(* 118-174, 250-333).                                                      *)
LimitsHold == WindowBounded /\ PoolSound /\ RoutesCurrent

(* A subscriber of the hybrid bus, and one of the gossip router, meets a   *)
(* message again only when the bounded memory of what was seen had to      *)
(* forget it (hybrid_bus.py 40-79, 190-231, gossipsub.py 212-235, 326-333).*)
DeliveredOnce == HandledOnce /\ GossipedOnce
=============================================================================
