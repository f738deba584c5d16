---------------------------- MODULE ServicesProof ---------------------------
(***************************************************************************)
(* Proofs about Services, for any agents, tasks, bids, manifests, peers    *)
(* and lamports, and any number of calls.                                  *)
(***************************************************************************)
EXTENDS Services, FiniteSetTheorems, WellFoundedInduction, TLAPS

(* A step of the whole is a step of each service, or leaves it alone.      *)
LEMMA ServicesApart ==
    [Next]_vars => /\ [LamportNext]_lamportVars
                   /\ [MarketNext]_marketVars
                   /\ [RegistryNext]_registryVars
                   /\ [BreakerNext]_breakerVars
                   /\ [GovernanceNext]_governanceVars
                   /\ [ChannelsNext]_channelVars
                   /\ [LimiterNext]_limiterVars
                   /\ [AuctionNext]_auctionVars
                   /\ [HybridNext]_hybridVars
                   /\ [GossipNext]_gossipVars
                   /\ [PoolNext]_poolVars
  BY DEF Next, Turn, OfBus, OfEscrow, vars, bounded

(* Run beside the other services, the payment channels and the governance  *)
(* module behave as they do alone: what is proved of ChannelsSpec and of   *)
(* GovernanceSpec holds of the whole (marketplace/, governance/).          *)
THEOREM ServicesRunAlone == Spec => ChannelsSpec /\ GovernanceSpec
<1>1. Init => ChannelsInit /\ GovernanceInit
  BY DEF Init
<1>2. [Next]_vars => [ChannelsNext]_channelVars /\ [GovernanceNext]_governanceVars
  BY ServicesApart
<1> QED  BY <1>1, <1>2, PTL DEF Spec, ChannelsSpec, GovernanceSpec

-----------------------------------------------------------------------------
(* The Lamport clock.  The file is written before a lamport that was heard *)
(* can be lost, so that neither the counter nor the file is behind it.     *)
LamportInv ==
    /\ counter \in Nat /\ file \in Nat /\ heard \in Nat /\ torn \in BOOLEAN
    /\ ~torn => heard <= counter /\ heard <= file

(* A clock that starts has heard nothing.                                  *)
LEMMA LamportInitially == LamportInit => LamportInv
<1>1. LamportInit => counter \in Nat /\ file \in Nat /\ heard \in Nat
                     /\ heard <= counter /\ heard <= file
  BY DEF LamportInit
<1>2. LamportInit => torn \in BOOLEAN
  BY Zenon DEF LamportInit
<1> QED  BY <1>1, <1>2, Zenon DEF LamportInv

(* Every step of the clock keeps LamportInv, the crash in the middle too.  *)
LEMMA LamportKept == LamportInv /\ [LamportNext]_lamportVars => LamportInv'
<1> SUFFICES ASSUME LamportInv, [LamportNext]_lamportVars PROVE LamportInv'
  OBVIOUS
<1> USE LamportAssumption DEF LamportAssumption, LamportInv
<1>1. CASE tick
  BY <1>1 DEF tick
<1>2. CASE flush
  BY <1>2 DEF flush
<1>3. ASSUME NEW o \in Remote, observe(o) PROVE LamportInv'
  BY <1>3 DEF observe
<1>4. ASSUME NEW cut \in BOOLEAN, LamportCrash(cut) PROVE LamportInv'
  BY <1>4 DEF LamportCrash
<1>5. CASE UNCHANGED lamportVars
  BY <1>5 DEF lamportVars
<1> QED  BY <1>1, <1>2, <1>3, <1>4, <1>5 DEF LamportNext

(* For any batch size and any crashes that leave the file whole, what a    *)
(* node sends after it heard a lamport carries a larger one (lamport.py    *)
(* 42-90).                                                                 *)
THEOREM AlwaysSendsAfterHeard == Spec => SendsAfterHeard
<1>1. Init => LamportInv
  BY LamportInitially DEF Init
<1>2. LamportInv /\ [Next]_vars => LamportInv'
  BY LamportKept, ServicesApart
<1>3. LamportInv => [~torn /\ tick => counter' > heard]_lamportVars
  BY DEF LamportInv, tick
<1> QED  BY <1>1, <1>2, <1>3, PTL DEF Spec, SendsAfterHeard

-----------------------------------------------------------------------------
(* The market.  Two accepted bids for one task are the same, and a task    *)
(* that went to somebody went to the agent of an accepted bid.             *)
BidRow == [task : MarketTasks \cup {NoAgent}, agent : Bidders \cup {NoAgent},
           status : {"absent", "pending", "accepted", "rejected"}]

TaskRow == [status : {"absent", "open", "bidding", "assigned"}, capabilities : SUBSET Caps,
            assigned_to : Bidders \cup {NoAgent}]

Accepted(b, t) == bids[b].task = t /\ bids[b].status = "accepted"

MarketTypeOK ==
    /\ tasks \in [MarketTasks -> TaskRow]
    /\ bids \in [BidIds -> BidRow]
    /\ \A b \in BidIds : bids[b] # NoBid => bids[b].task \in MarketTasks

OneAccepted == \A t \in MarketTasks : \A b, c \in BidIds : Accepted(b, t) /\ Accepted(c, t) => b = c

WentToAccepted ==
    \A t \in MarketTasks : tasks[t].assigned_to # NoAgent =>
        /\ tasks[t].status # "open"
        /\ \E b \in BidIds : Accepted(b, t) /\ bids[b].agent = tasks[t].assigned_to

MarketInv == MarketTypeOK /\ OneAccepted /\ WentToAccepted

(* An empty market.                                                        *)
LEMMA MarketInitially == MarketInit => MarketInv
  BY DEF MarketInit, MarketInv, MarketTypeOK, OneAccepted, WentToAccepted, Accepted, BidRow,
         TaskRow, NoBid, NoTask

(* post_task writes one open task.                                         *)
LEMMA PostKept ==
    ASSUME MarketInv, NEW t \in MarketTasks, NEW c \in SUBSET Caps, post_task(t, c)
    PROVE  MarketInv'
  BY DEF post_task, MarketInv, MarketTypeOK, OneAccepted, WentToAccepted, Accepted, TaskRow, NoTask

(* submit_bid writes one pending bid.                                      *)
LEMMA SubmitKept ==
    ASSUME MarketInv, NEW b \in BidIds, NEW t \in MarketTasks, NEW a \in Bidders,
           submit_bid(b, t, a)
    PROVE  MarketInv'
<1> USE DEF submit_bid, MarketInv, MarketTypeOK
<1>1. \A x \in BidIds : x # b => bids'[x] = bids[x]
  OBVIOUS
<1>2. bids'[b] = [task |-> t, agent |-> a, status |-> "pending"] /\ bids[b].status = "absent"
  BY DEF NoBid
<1>3. \A x \in MarketTasks : /\ tasks'[x].assigned_to = tasks[x].assigned_to
                             /\ tasks'[x].status \in {tasks[x].status, "bidding"}
  BY DEF TaskRow
<1>4. MarketTypeOK'
  <2>1. tasks' \in [MarketTasks -> TaskRow]
    BY DEF TaskRow
  <2>2. bids' \in [BidIds -> BidRow]
    BY DEF BidRow
  <2> QED  BY <1>1, <1>2, <2>1, <2>2
<1>5. \A x \in BidIds, u \in MarketTasks : Accepted(x, u)' <=> Accepted(x, u)
  BY <1>1, <1>2 DEF Accepted
<1>6. OneAccepted'
  BY <1>5 DEF OneAccepted
<1>7. WentToAccepted'
  <2>1. \A x \in BidIds, u \in MarketTasks : Accepted(x, u) => bids'[x].agent = bids[x].agent
    BY <1>1, <1>2 DEF Accepted
  <2> QED  BY <1>3, <1>5, <2>1 DEF WentToAccepted
<1> QED  BY <1>4, <1>6, <1>7

(* accept_bid takes one bid of a task that had taken none.                 *)
LEMMA AcceptKept ==
    ASSUME MarketInv, NEW b \in BidIds, accept_bid(b)
    PROVE  MarketInv'
<1> USE DEF MarketInv, MarketTypeOK
<1>1. PICK t \in MarketTasks : t = bids[b].task /\ bids[b] \in BidRow
  BY DEF accept_bid
<1>2. /\ bids'[b] = [bids[b] EXCEPT !.status = "accepted"]
      /\ \A x \in BidIds \ {b} :
           bids'[x] = IF bids[x].task = t THEN [bids[x] EXCEPT !.status = "rejected"] ELSE bids[x]
      /\ bids' = [x \in BidIds |-> bids'[x]]
  <2>1. bids' = [x \in BidIds |->
                  CASE x = b -> [bids[x] EXCEPT !.status = "accepted"]
                    [] x # b /\ bids[x].task = t -> [bids[x] EXCEPT !.status = "rejected"]
                    [] x # b /\ bids[x].task # t -> bids[x]]
    BY <1>1, Zenon DEF accept_bid
  <2>2. \A x \in BidIds \ {b} :
          bids'[x] = IF bids[x].task = t THEN [bids[x] EXCEPT !.status = "rejected"] ELSE bids[x]
    BY <2>1
  <2>3. bids'[b] = [bids[b] EXCEPT !.status = "accepted"]
    BY <2>1
  <2>4. bids' = [x \in BidIds |-> bids'[x]]
    BY <2>1
  <2> QED  BY <2>2, <2>3, <2>4
<1>3. \A x \in BidIds : /\ bids'[x] \in BidRow
                        /\ bids'[x].task = bids[x].task
                        /\ bids'[x].agent = bids[x].agent
  BY <1>1, <1>2 DEF BidRow
<1>4. /\ Accepted(b, t)'
      /\ \A x \in BidIds \ {b} : ~Accepted(x, t)'
      /\ \A x \in BidIds, u \in MarketTasks \ {t} : Accepted(x, u)' <=> Accepted(x, u)
  BY <1>1, <1>2, <1>3 DEF Accepted, BidRow
<1>5. /\ \A u \in MarketTasks \ {t} : tasks'[u] = tasks[u]
      /\ \/ tasks'[t] = NoTask
         \/ tasks'[t].status = "assigned" /\ tasks'[t].assigned_to = bids[b].agent
      /\ tasks' \in [MarketTasks -> TaskRow]
  <2>1. CASE tasks[t] = NoTask
    BY <1>1, <2>1 DEF accept_bid
  <2>2. CASE tasks[t] # NoTask
    <3>1. tasks' = [tasks EXCEPT ![t] = [tasks[t] EXCEPT !.status = "assigned",
                                                         !.assigned_to = bids[b].agent]]
      BY <1>1, <2>2 DEF accept_bid
    <3>2. bids[b].agent \in Bidders \cup {NoAgent}
      BY <1>1 DEF BidRow
    <3> QED  BY <3>1, <3>2 DEF TaskRow
  <2> QED  BY <2>1, <2>2
<1>6. MarketTypeOK'
  <2>1. \A x \in BidIds : bids'[x] # NoBid => bids'[x].task \in MarketTasks
    <3> SUFFICES ASSUME NEW x \in BidIds, bids'[x] # NoBid PROVE bids[x].task \in MarketTasks
      BY <1>3
    <3>1. CASE bids[x] # NoBid
      BY <3>1
    <3>2. CASE bids[x] = NoBid
      BY <1>1, <1>2, <3>2 DEF accept_bid
    <3> QED  BY <3>1, <3>2
  <2> QED  BY <1>2, <1>3, <1>5, <2>1
<1>7. OneAccepted'
  BY <1>1, <1>4 DEF OneAccepted
<1>8. WentToAccepted'
  BY <1>1, <1>3, <1>4, <1>5 DEF WentToAccepted, NoTask
<1> QED  BY <1>6, <1>7, <1>8

(* Every step of the market keeps MarketInv.                               *)
LEMMA MarketKept == MarketInv /\ [MarketNext]_marketVars => MarketInv'
<1>1. MarketInv /\ UNCHANGED marketVars => MarketInv'
  BY DEF MarketInv, MarketTypeOK, OneAccepted, WentToAccepted, Accepted, marketVars
<1> QED  BY <1>1, PostKept, SubmitKept, AcceptKept DEF MarketNext

(* An accepted bid is the only one, and its task went to its agent.        *)
LEMMA MarketInvSuffices == MarketInv => AcceptedIsAssigned
<1> SUFFICES ASSUME MarketInv, NEW t \in MarketTasks
             PROVE  LET winners == {b \in BidIds : bids[b].task = t /\ bids[b].status = "accepted"}
                    IN  /\ Cardinality(winners) <= 1
                        /\ tasks[t].assigned_to # NoAgent =>
                             /\ \E b \in winners : bids[b].agent = tasks[t].assigned_to
                             /\ t \notin list_available_tasks({})
  BY DEF AcceptedIsAssigned
<1> DEFINE winners == {b \in BidIds : bids[b].task = t /\ bids[b].status = "accepted"}
<1>1. winners = {} \/ \E b \in BidIds : winners = {b}
  BY DEF MarketInv, OneAccepted, Accepted
<1>2. Cardinality(winners) <= 1
  <2>1. CASE winners = {}
    BY <2>1, FS_EmptySet
  <2>2. CASE \E b \in BidIds : winners = {b}
    <3>1. PICK b \in BidIds : winners = {b}
      BY <2>2
    <3>2. Cardinality({b}) = 1
      BY FS_Singleton
    <3> QED  BY <3>1, <3>2
  <2> QED  BY <1>1, <2>1, <2>2
<1>3. tasks[t].assigned_to # NoAgent => /\ \E b \in winners : bids[b].agent = tasks[t].assigned_to
                                        /\ t \notin list_available_tasks({})
  BY DEF MarketInv, WentToAccepted, Accepted, list_available_tasks
<1> QED  BY <1>2, <1>3

(* For any number of tasks, bids and agents, in any order of calls: a task *)
(* has one accepted bid at most and went to its agent (market.py 230-347,  *)
(* 387-429).                                                               *)
THEOREM AcceptedAlwaysAssigned == Spec => []AcceptedIsAssigned
<1>1. Init => MarketInv
  BY MarketInitially DEF Init
<1>2. MarketInv /\ [Next]_vars => MarketInv'
  BY MarketKept, ServicesApart
<1> QED  BY <1>1, <1>2, MarketInvSuffices, PTL DEF Spec

-----------------------------------------------------------------------------
(* The registry.  What the connection sees and what is committed both keep *)
(* the index within the manifests, and agents without one out of it: so    *)
(* neither a commit nor a crash can mix the two.                           *)
Capabilities == UNION {Range(m) : m \in Manifests}

RegistryTables ==
    [manifest : [RegAgents -> Manifests \cup {NoManifest}],
     status : [RegAgents -> {"active", "inactive", "suspended"}],
     capabilities : SUBSET (RegAgents \X Capabilities),
     stats : SUBSET RegAgents]

IndexSound(T) ==
    \A a \in RegAgents : \A c \in Capabilities :
        <<a, c>> \in T.capabilities =>
          T.manifest[a] # NoManifest /\ c \in Range(T.manifest[a])

RegistryInv ==
    /\ tables \in RegistryTables /\ IndexSound(tables)
    /\ durable \in RegistryTables /\ IndexSound(durable)

(* An empty registry.                                                      *)
LEMMA RegistryInitially == RegistryInit => RegistryInv
  BY DEF RegistryInit, RegistryInv, RegistryTables, IndexSound

(* The rows of a manifest that were inserted are rows of that manifest.    *)
LEMMA InsertedFromManifest ==
    ASSUME NEW a \in RegAgents, NEW m \in Manifests
    PROVE  /\ Inserted(a, m) \subseteq RegAgents \X Capabilities
           /\ \A b, c : <<b, c>> \in Inserted(a, m) => b = a /\ c \in Range(m)
  BY DEF Inserted, Capabilities, Range

(* An agent's rows are replaced by rows of its new manifest; there were    *)
(* none before if it had no manifest.                                      *)
LEMMA ManifestWritten ==
    ASSUME RegistryInv, NEW a \in RegAgents, NEW m \in Manifests, NEW T \in RegistryTables,
           T.manifest = [tables.manifest EXCEPT ![a] = m],
           \A b \in RegAgents, c \in Capabilities :
             <<b, c>> \in T.capabilities =>
               \/ b # a /\ <<b, c>> \in tables.capabilities
               \/ <<b, c>> \in Inserted(a, m)
    PROVE  IndexSound(T)
<1> SUFFICES ASSUME NEW b \in RegAgents, NEW c \in Capabilities, <<b, c>> \in T.capabilities
             PROVE  T.manifest[b] # NoManifest /\ c \in Range(T.manifest[b])
  BY DEF IndexSound
<1>0. tables.manifest \in [RegAgents -> Manifests \cup {NoManifest}]
  BY DEF RegistryInv, RegistryTables
<1>1. CASE b # a /\ <<b, c>> \in tables.capabilities
  <2>1. T.manifest[b] = tables.manifest[b]
    BY <1>0, <1>1
  <2> QED  BY <1>1, <2>1 DEF RegistryInv, IndexSound
<1>2. CASE <<b, c>> \in Inserted(a, m)
  <2>1. b = a /\ c \in Range(m)
    BY <1>2, InsertedFromManifest
  <2>2. T.manifest[a] = m /\ m # NoManifest
    BY <1>0, RegistryAssumption DEF RegistryAssumption
  <2> QED  BY <2>1, <2>2
<1> QED  BY <1>1, <1>2

(* register_agent writes the manifest and the rows that index it.          *)
LEMMA RegisterKept ==
    ASSUME RegistryInv, NEW a \in RegAgents, NEW m \in Manifests, register_agent(a, m)
    PROVE  RegistryInv'
<1>0. tables \in RegistryTables /\ tables.manifest[a] = NoManifest
  BY DEF RegistryInv, register_agent, Registered
<1> DEFINE written == [tables EXCEPT !.manifest[a] = m, !.status[a] = "active",
                                     !.capabilities = @ \cup Inserted(a, m)]
<1>1. /\ tables' = written \/ tables' = [written EXCEPT !.stats = @ \cup {a}]
      /\ durable' \in {durable, tables'}
  BY DEF register_agent, Commit
<1>2. /\ tables' \in RegistryTables
      /\ tables'.manifest = [tables.manifest EXCEPT ![a] = m]
      /\ tables'.capabilities = tables.capabilities \cup Inserted(a, m)
  <2>1. /\ written \in RegistryTables
        /\ written.manifest = [tables.manifest EXCEPT ![a] = m]
        /\ written.capabilities = tables.capabilities \cup Inserted(a, m)
    BY <1>0, InsertedFromManifest DEF RegistryTables
  <2> HIDE DEF written
  <2> QED  BY <1>1, <2>1 DEF RegistryTables
<1>3. \A c \in Capabilities : <<a, c>> \notin tables.capabilities
  BY <1>0 DEF RegistryInv, IndexSound
<1>4. IndexSound(tables')
  BY <1>2, <1>3, ManifestWritten
<1>5. IndexSound(tables)'
  BY <1>4 DEF IndexSound
<1> QED  BY <1>1, <1>2, <1>4, <1>5 DEF RegistryInv, IndexSound

(* update_manifest replaces the rows of one agent.                         *)
LEMMA UpdateKept ==
    ASSUME RegistryInv, NEW a \in RegAgents, NEW m \in Manifests, update_manifest(a, m)
    PROVE  RegistryInv'
<1>0. tables \in RegistryTables
  BY DEF RegistryInv
<1>1. /\ tables' = [tables EXCEPT !.manifest[a] = m,
                      !.capabilities = {row \in tables.capabilities : row[1] # a}
                                       \cup Inserted(a, m)]
      /\ durable' \in {durable, tables'}
  BY DEF update_manifest, Commit
<1>2. /\ tables' \in RegistryTables
      /\ tables'.manifest = [tables.manifest EXCEPT ![a] = m]
      /\ tables'.capabilities = {row \in tables.capabilities : row[1] # a} \cup Inserted(a, m)
  BY <1>0, <1>1, InsertedFromManifest DEF RegistryTables
<1>4. IndexSound(tables')
  BY <1>2, ManifestWritten
<1>5. IndexSound(tables)'
  BY <1>4 DEF IndexSound
<1> QED  BY <1>1, <1>2, <1>4, <1>5 DEF RegistryInv, IndexSound

(* Every step of the registry keeps RegistryInv.                           *)
LEMMA RegistryKept == RegistryInv /\ [RegistryNext]_registryVars => RegistryInv'
<1> SUFFICES ASSUME RegistryInv, [RegistryNext]_registryVars PROVE RegistryInv'
  OBVIOUS
<1>1. ASSUME NEW a \in RegAgents, NEW status \in {"active", "inactive", "suspended"},
             set_agent_status(a, status)
      PROVE  RegistryInv'
  <2>1. /\ tables' \in RegistryTables
        /\ tables'.manifest = tables.manifest
        /\ tables'.capabilities = tables.capabilities
        /\ durable' = tables'
    BY <1>1 DEF set_agent_status, RegistryInv, RegistryTables, Commit
  <2> QED  BY <2>1 DEF RegistryInv, IndexSound
<1>2. CASE record_task_completion
  BY <1>2 DEF record_task_completion, Commit, RegistryInv, IndexSound
<1>3. CASE RegistryCrash
  BY <1>3 DEF RegistryCrash, RegistryInv, IndexSound
<1>4. CASE UNCHANGED registryVars
  BY <1>4 DEF registryVars, RegistryInv, IndexSound
<1> QED  BY <1>1, <1>2, <1>3, <1>4, RegisterKept, UpdateKept DEF RegistryNext

(* For any manifests, whichever updates fail halfway and whatever a crash  *)
(* loses, nobody is found by a capability that its manifest does not list  *)
(* (registry.py 142-378).                                                  *)
THEOREM IndexAlwaysWithinManifest == Spec => []IndexWithinManifest
<1>1. Init => RegistryInv
  BY RegistryInitially DEF Init
<1>2. RegistryInv /\ [Next]_vars => RegistryInv'
  BY RegistryKept, ServicesApart
<1>3. RegistryInv => IndexWithinManifest
  <2> SUFFICES ASSUME RegistryInv,
                      NEW a \in RegAgents, NEW row \in tables.capabilities,
                      <<a, row[2]>> \in tables.capabilities
               PROVE  row[2] \in Range(tables.manifest[a])
    BY DEF IndexWithinManifest, search_agents
  <2>1. row[2] \in Capabilities
    BY DEF RegistryInv, RegistryTables
  <2> QED  BY <2>1 DEF RegistryInv, IndexSound
<1> QED  BY <1>1, <1>2, <1>3, PTL DEF Spec

-----------------------------------------------------------------------------
(* The circuit breaker: half_open_calls lags one behind the calls let      *)
(* through since the circuit was half open, at most.                       *)
BreakerInv ==
    /\ trial \in Nat
    /\ circuit \in [state : {"closed", "open", "half_open"}, failure_count : Nat,
                    trip_time : Nat, half_open_calls : Nat]
    /\ time \in Nat
    /\ circuit.state = "half_open" => /\ trial <= circuit.half_open_calls + 1
                                      /\ circuit.half_open_calls <= half_open_max_calls

(* Every step of the circuit breaker keeps BreakerInv.                     *)
LEMMA BreakerKept == BreakerInv /\ [BreakerNext]_breakerVars => BreakerInv'
<1> SUFFICES ASSUME BreakerInv, [BreakerNext]_breakerVars PROVE BreakerInv'
  OBVIOUS
<1> USE DEF BreakerInv
<1>0. half_open_max_calls \in Nat /\ failure_threshold \in Nat
  BY BreakerAssumption DEF BreakerAssumption
<1> USE <1>0
<1>h. ASSUME circuit' = HalfOpen, trial' \in {0, 1}, UNCHANGED time PROVE BreakerInv'
  <2>1. circuit' = [circuit EXCEPT !.state = "half_open", !.half_open_calls = 0]
    BY <1>h DEF HalfOpen
  <2>2. circuit'.half_open_calls = 0 /\ circuit' \in [state : {"closed", "open", "half_open"},
                    failure_count : Nat, trip_time : Nat, half_open_calls : Nat]
    BY <2>1
  <2> QED  BY <1>h, <2>2
<1>1. CASE BreakerTick
  BY <1>1 DEF BreakerTick
<1>2. CASE record_failure
  <2> DEFINE n == IF circuit.failure_count < failure_threshold THEN circuit.failure_count + 1
                  ELSE circuit.failure_count
             c == [circuit EXCEPT !.failure_count = n]
  <2>1. n \in Nat
    OBVIOUS
  <2>2. /\ circuit' = c \/ circuit' = [c EXCEPT !.state = "open", !.trip_time = time]
        /\ circuit' = c => circuit.state # "half_open" \/ circuit'.state = "open"
        /\ UNCHANGED <<time, trial>>
    BY <1>2 DEF record_failure, Tripped
  <2> HIDE DEF n
  <2> QED  BY <2>1, <2>2
<1>3. CASE record_success
  <2>1. CASE circuit.state = "half_open"
    <3>1. \/ circuit' = Closed
          \/ /\ circuit' = [circuit EXCEPT !.half_open_calls = circuit.half_open_calls + 1]
             /\ circuit.half_open_calls + 1 < half_open_max_calls
      BY <1>3, <2>1 DEF record_success
    <3> QED  BY <1>3, <3>1 DEF record_success, Closed
  <2>2. CASE circuit.state = "closed"
    <3>1. circuit' = [circuit EXCEPT !.failure_count = IF @ > 0 THEN @ - 1 ELSE 0]
      BY <1>3, <2>2 DEF record_success
    <3> QED  BY <1>3, <2>2, <3>1 DEF record_success
  <2>3. CASE circuit.state = "open"
    BY <1>3, <2>3 DEF record_success
  <2> QED  BY <2>1, <2>2, <2>3
<1>4. CASE trigger_breaker
  BY <1>4 DEF trigger_breaker, Tripped
<1>5. CASE reset_breaker
  BY <1>5 DEF reset_breaker, Closed
<1>6. CASE is_open
  BY <1>6, <1>h DEF is_open
<1>7. CASE call_allowed
  <2>1. CASE circuit' = HalfOpen /\ trial' = 1
    BY <1>7, <1>h, <2>1 DEF call_allowed
  <2>2. CASE /\ circuit.state = "half_open" /\ circuit.half_open_calls < half_open_max_calls
             /\ circuit' = [circuit EXCEPT !.half_open_calls = @ + 1]
             /\ trial' = trial + 1
    BY <1>7, <2>2 DEF call_allowed
  <2> QED  BY <1>7, <2>1, <2>2 DEF call_allowed
<1>8. CASE UNCHANGED breakerVars
  BY <1>8 DEF breakerVars
<1> QED  BY <1>1, <1>2, <1>3, <1>4, <1>5, <1>6, <1>7, <1>8 DEF BreakerNext

(* The limit of a half-open circuit and the one call that finds the        *)
(* time-out passed, which the code does not count.                         *)
OneCallOver == circuit.state = "half_open" => trial <= half_open_max_calls + 1

(* For any threshold, time-out and limit, a half-open circuit passes its   *)
(* limit by one call at most, however calls, results and time-outs         *)
(* interleave (circuit_breaker.py 105-187).                                *)
THEOREM HalfOpenOneOver == Spec => []OneCallOver
<1>1. Init => BreakerInv
  BY DEF Init, BreakerInit, BreakerInv, Closed
<1>2. BreakerInv /\ [Next]_vars => BreakerInv'
  BY BreakerKept, ServicesApart
<1>3. BreakerInv => OneCallOver
  BY BreakerAssumption DEF BreakerInv, OneCallOver, BreakerAssumption
<1> QED  BY <1>1, <1>2, <1>3, PTL DEF Spec

-----------------------------------------------------------------------------
(* The rate limiter.  The requests that were granted within the last       *)
(* window are still among those the limiter remembers.                     *)
Requests == [n : Nat, at : Nat]

Window(reqs, t) == {r \in reqs : t - window_seconds < r.at /\ r.at <= t}

LimiterTypeOK ==
    /\ limiter_time \in Nat /\ requests \in Nat
    /\ request_times \in [LimitedAgents -> SUBSET Requests]
    /\ granted \in [LimitedAgents -> SUBSET Requests]

LimiterOf(a) ==
    /\ IsFiniteSet(request_times[a]) /\ IsFiniteSet(granted[a])
    /\ \A r \in granted[a] : r.at <= limiter_time
    /\ Recent(granted[a]) \subseteq request_times[a]
    /\ \A t \in Nat : Cardinality(Window(granted[a], t)) <= limit_per_agent

LimiterInv == LimiterTypeOK /\ \A a \in LimitedAgents : LimiterOf(a)

(* The limiter starts without requests.                                    *)
LEMMA LimiterInitially == LimiterInit => LimiterInv
<1> SUFFICES ASSUME LimiterInit PROVE LimiterInv
  OBVIOUS
<1>1. LimiterTypeOK
  BY DEF LimiterInit, LimiterTypeOK
<1>2. ASSUME NEW a \in LimitedAgents PROVE LimiterOf(a)
  <2>1. granted[a] = {} /\ request_times[a] = {}
    BY DEF LimiterInit
  <2>2. \A t : Window({}, t) = {}
    BY DEF Window
  <2>3. Recent({}) = {}
    BY DEF Recent
  <2> QED  BY <2>1, <2>2, <2>3, FS_EmptySet, LimiterAssumption DEF LimiterOf, LimiterAssumption
<1> QED  BY <1>1, <1>2 DEF LimiterInv

(* What a window holds, and how much of it, as requests are added.         *)
LEMMA WindowFinite ==
    ASSUME NEW S, IsFiniteSet(S), NEW t \in Nat
    PROVE  /\ IsFiniteSet(Window(S, t)) /\ Cardinality(Window(S, t)) \in Nat
           /\ IsFiniteSet(Recent(S)) /\ Cardinality(Recent(S)) \in Nat
<1>1. Window(S, t) \in SUBSET S /\ Recent(S) \in SUBSET S
  BY DEF Window, Recent
<1> QED  BY <1>1, FS_Subset, FS_CardinalityType

(* A question that is granted leaves every window within the limit.        *)
LEMMA GrantKeepsWindows ==
    ASSUME LimiterInv, NEW a \in LimitedAgents, NEW t \in Nat,
           Cardinality(Recent(request_times[a])) < limit_per_agent
    PROVE  Cardinality(Window(granted[a] \cup {Request}, t)) <= limit_per_agent
<1> USE LimiterAssumption DEF LimiterAssumption
<1>1. /\ LimiterOf(a) /\ limiter_time \in Nat /\ requests \in Nat
      /\ request_times[a] \subseteq Requests /\ granted[a] \subseteq Requests
      /\ window_seconds \in Nat /\ limit_per_agent \in Nat
  BY DEF LimiterInv, LimiterTypeOK
<1>2. Request.at = limiter_time
  BY DEF Request
<1>3. CASE t < limiter_time
  <2>1. Window(granted[a] \cup {Request}, t) = Window(granted[a], t)
    BY <1>1, <1>2, <1>3 DEF Window
  <2> QED  BY <1>1, <2>1 DEF LimiterOf
<1>4. CASE t >= limiter_time
  <2> DEFINE R == Recent(request_times[a])
  <2>1. ASSUME NEW r \in Window(granted[a] \cup {Request}, t), r # Request
        PROVE  r \in R
    <3>1. r \in granted[a] /\ t - window_seconds < r.at /\ r.at \in Nat
      BY <1>1, <2>1 DEF Window, Requests
    <3>2. r \in Recent(granted[a])
      BY <1>1, <1>4, <3>1 DEF Recent
    <3> QED  BY <1>1, <3>2 DEF LimiterOf, Recent
  <2>2. Window(granted[a] \cup {Request}, t) \in SUBSET (R \cup {Request})
    BY <2>1
  <2>3. IsFiniteSet(R) /\ Cardinality(R) \in Nat /\ Cardinality(R) < limit_per_agent
    BY <1>1, WindowFinite DEF LimiterOf
  <2> HIDE DEF R
  <2>4. /\ IsFiniteSet(R \cup {Request})
        /\ Cardinality(R \cup {Request}) <= Cardinality(R) + 1
        /\ Cardinality(R \cup {Request}) \in Nat
    <3>1. /\ IsFiniteSet(R \cup {Request})
          /\ Cardinality(R \cup {Request}) \in {Cardinality(R), Cardinality(R) + 1}
      BY <2>3, FS_AddElement
    <3> QED  BY <2>3, <3>1
  <2>5. /\ Cardinality(Window(granted[a] \cup {Request}, t)) <= Cardinality(R \cup {Request})
        /\ Cardinality(Window(granted[a] \cup {Request}, t)) \in Nat
    BY <2>2, <2>4, FS_Subset, FS_CardinalityType
  <2> QED  BY <1>1, <2>3, <2>4, <2>5
<1> QED  BY <1>1, <1>3, <1>4

(* Each call of the limiter keeps the invariant.                           *)
LEMMA LimiterKept == LimiterInv /\ [LimiterNext]_limiterVars => LimiterInv'
<1> SUFFICES ASSUME LimiterInv, [LimiterNext]_limiterVars PROVE LimiterInv'
  OBVIOUS
<1> USE LimiterAssumption DEF LimiterAssumption
<1>t. /\ limiter_time \in Nat /\ requests \in Nat /\ window_seconds \in Nat
      /\ request_times \in [LimitedAgents -> SUBSET Requests]
      /\ granted \in [LimitedAgents -> SUBSET Requests]
      /\ Request \in Requests /\ Request.at = limiter_time
  BY DEF LimiterInv, LimiterTypeOK, Request, Requests
<1>o. \A a \in LimitedAgents : LimiterOf(a)
  BY DEF LimiterInv
<1>1. ASSUME UNCHANGED <<request_times, requests, granted>>,
             limiter_time' \in Nat, limiter_time' >= limiter_time
      PROVE  LimiterInv'
  <2>1. LimiterTypeOK'
    BY <1>1, <1>t DEF LimiterTypeOK
  <2>2. ASSUME NEW a \in LimitedAgents PROVE LimiterOf(a)'
    <3>1. \A r \in granted[a] : r.at \in Nat
      BY <1>t DEF Requests
    <3>2. Recent(granted[a])' \subseteq Recent(granted[a])
      BY <1>1, <1>t, <3>1 DEF Recent
    <3>3. \A r \in granted[a] : r.at <= limiter_time'
      BY <1>1, <1>t, <1>o, <3>1 DEF LimiterOf
    <3>4. \A t \in Nat : Window(granted[a], t)' = Window(granted[a], t)
      BY <1>1 DEF Window
    <3> QED  BY <1>1, <1>o, <3>2, <3>3, <3>4 DEF LimiterOf
  <2> QED  BY <2>1, <2>2 DEF LimiterInv
<1>2. ASSUME NEW a \in LimitedAgents, NEW S, NEW G, NEW k \in Nat,
             request_times' = [request_times EXCEPT ![a] = S],
             granted' = [granted EXCEPT ![a] = G],
             requests' = k, limiter_time' = limiter_time,
             S \subseteq Requests, G \subseteq Requests, IsFiniteSet(S), IsFiniteSet(G),
             \A r \in G : r.at <= limiter_time,
             Recent(G) \subseteq S,
             \A t \in Nat : Cardinality(Window(G, t)) <= limit_per_agent
      PROVE  LimiterInv'
  <2>1. LimiterTypeOK'
    BY <1>2, <1>t DEF LimiterTypeOK
  <2>2. ASSUME NEW b \in LimitedAgents PROVE LimiterOf(b)'
    <3>1. CASE b = a
      <4>1. request_times'[b] = S /\ granted'[b] = G
        BY <1>2, <1>t, <3>1
      <4>2. Recent(granted[b])' = Recent(G) /\ \A t : Window(granted[b], t)' = Window(G, t)
        BY <1>2, <4>1 DEF Recent, Window
      <4> QED  BY <1>2, <4>1, <4>2 DEF LimiterOf
    <3>2. CASE b # a
      <4>1. request_times'[b] = request_times[b] /\ granted'[b] = granted[b]
        BY <1>2, <1>t, <3>2
      <4>2. /\ Recent(granted[b])' = Recent(granted[b])
            /\ \A t : Window(granted[b], t)' = Window(granted[b], t)
        BY <1>2, <4>1 DEF Recent, Window
      <4> QED  BY <1>2, <1>o, <4>1, <4>2 DEF LimiterOf
    <3> QED  BY <3>1, <3>2
  <2> QED  BY <2>1, <2>2 DEF LimiterInv
<1>3. ASSUME LimiterTick PROVE LimiterInv'
  BY <1>1, <1>3, <1>t DEF LimiterTick
<1>4. ASSUME NEW a \in LimitedAgents, check_rate(a) PROVE LimiterInv'
  <2> DEFINE R == Recent(request_times[a])
  <2>1. /\ R \subseteq Requests /\ IsFiniteSet(R)
        /\ \A r \in granted[a] : r.at <= limiter_time
        /\ Recent(granted[a]) \subseteq R
    <3>1. R \subseteq request_times[a]
      BY DEF Recent
    <3>2. Recent(granted[a]) \subseteq R
      BY <1>o DEF LimiterOf, Recent
    <3> QED  BY <1>t, <1>o, <3>1, <3>2, FS_Subset DEF LimiterOf
  <2>2. CASE Cardinality(R) < limit_per_agent
    <3>1. /\ request_times' = [request_times EXCEPT ![a] = R \cup {Request}]
          /\ granted' = [granted EXCEPT ![a] = granted[a] \cup {Request}]
          /\ requests' = requests + 1 /\ limiter_time' = limiter_time
      BY <1>4, <2>2 DEF check_rate
    <3>2. \A t \in Nat : Cardinality(Window(granted[a] \cup {Request}, t)) <= limit_per_agent
      BY <2>2, GrantKeepsWindows
    <3>3. Recent(granted[a] \cup {Request}) \subseteq R \cup {Request}
      BY <2>1 DEF Recent
    <3>4. IsFiniteSet(R \cup {Request}) /\ IsFiniteSet(granted[a] \cup {Request})
      BY <1>o, <2>1, FS_AddElement DEF LimiterOf
    <3>5. /\ R \cup {Request} \subseteq Requests /\ granted[a] \cup {Request} \subseteq Requests
          /\ \A r \in granted[a] \cup {Request} : r.at <= limiter_time
      BY <1>t, <2>1
    <3>6. requests + 1 \in Nat
      BY <1>t
    <3> HIDE DEF R
    <3> QED  BY <1>2, <3>1, <3>2, <3>3, <3>4, <3>5, <3>6
  <2>3. CASE ~(Cardinality(R) < limit_per_agent)
    <3>1. /\ request_times' = [request_times EXCEPT ![a] = R]
          /\ granted' = granted
          /\ requests' = requests /\ limiter_time' = limiter_time
      BY <1>4, <2>3 DEF check_rate
    <3>2. granted' = [granted EXCEPT ![a] = granted[a]]
      BY <1>t, <3>1
    <3>3. /\ granted[a] \subseteq Requests /\ IsFiniteSet(granted[a])
          /\ \A t \in Nat : Cardinality(Window(granted[a], t)) <= limit_per_agent
      BY <1>t, <1>o DEF LimiterOf
    <3> HIDE DEF R
    <3> QED  BY <1>2, <1>t, <2>1, <3>1, <3>2, <3>3
  <2> QED  BY <2>2, <2>3
<1>5. ASSUME NEW a \in LimitedAgents, record_request(a) PROVE LimiterInv'
  <2>1. /\ request_times' = [request_times EXCEPT ![a] = request_times[a] \cup {Request}]
        /\ granted' = [granted EXCEPT ![a] = granted[a]]
        /\ requests' = requests + 1 /\ limiter_time' = limiter_time
    BY <1>5, <1>t DEF record_request
  <2>2. IsFiniteSet(request_times[a] \cup {Request})
    BY <1>o, FS_AddElement DEF LimiterOf
  <2>3. requests + 1 \in Nat /\ request_times[a] \cup {Request} \subseteq Requests
    BY <1>t
  <2>4. /\ granted[a] \subseteq Requests /\ IsFiniteSet(granted[a])
        /\ \A r \in granted[a] : r.at <= limiter_time
        /\ Recent(granted[a]) \subseteq request_times[a] \cup {Request}
        /\ \A t \in Nat : Cardinality(Window(granted[a], t)) <= limit_per_agent
    BY <1>t, <1>o DEF LimiterOf
  <2> QED  BY <1>2, <2>1, <2>2, <2>3, <2>4
<1>6. ASSUME NEW a \in LimitedAgents, reset_agent(a) PROVE LimiterInv'
  <2>1. /\ request_times' = [request_times EXCEPT ![a] = {}]
        /\ granted' = [granted EXCEPT ![a] = {}]
        /\ requests' = requests /\ limiter_time' = limiter_time
    BY <1>6 DEF reset_agent
  <2>2. Recent({}) = {} /\ \A t : Window({}, t) = {}
    BY DEF Recent, Window
  <2>3. \A t \in Nat : Cardinality(Window({}, t)) <= limit_per_agent
    BY <2>2, FS_EmptySet
  <2> QED  BY <1>2, <1>t, <2>1, <2>2, <2>3, FS_EmptySet
<1>7. ASSUME UNCHANGED <<request_times, requests, limiter_time, granted>> PROVE LimiterInv'
  BY <1>1, <1>7, <1>t
<1>8. ASSUME NEW a \in LimitedAgents, is_blocked(a) \/ \E d \in BlockTimes : block_agent(a, d)
      PROVE  LimiterInv'
  BY <1>7, <1>8 DEF is_blocked, block_agent
<1>9. CASE UNCHANGED limiterVars
  BY <1>7, <1>9 DEF limiterVars
<1> QED  BY <1>3, <1>4, <1>5, <1>6, <1>8, <1>9 DEF LimiterNext

(* The invariant bounds every window.                                      *)
LEMMA LimiterInvSuffices == LimiterInv => WindowBounded
<1> SUFFICES ASSUME LimiterInv, NEW a \in LimitedAgents, NEW t \in 1..LimiterMaxTime
             PROVE  Cardinality(Window(granted[a], t)) <= limit_per_agent
  BY DEF WindowBounded, Window
<1>1. t \in Nat
  BY LimiterAssumption DEF LimiterAssumption
<1> QED  BY <1>1 DEF LimiterInv, LimiterOf

-----------------------------------------------------------------------------
(* The pool of peers.  Only a peer something was counted of can be on the  *)
(* blacklist.                                                              *)
PeerStats == [delivered : Nat, failed : Nat, latency : Nat, samples : Nat]

StatsOK == \A p \in DOMAIN stats : stats[p] \in PeerStats

PoolBounded ==
    IsFiniteSet(DOMAIN connections) /\ Cardinality(DOMAIN connections) <= max_connections

BlacklistEarned ==
    \A p \in blacklist : /\ p \in DOMAIN stats
                         /\ stats[p].delivered + stats[p].failed > 0
                         /\ ~Less(Forgiven, total_score(stats[p]))

PoolInv == StatsOK /\ PoolBounded /\ BlacklistEarned

(* An empty pool.                                                          *)
LEMMA PoolInitially == PoolInit => PoolInv
<1> SUFFICES ASSUME PoolInit PROVE PoolInv
  OBVIOUS
<1>1. DOMAIN connections = {} /\ DOMAIN stats = {} /\ blacklist = {}
  BY DEF PoolInit
<1> QED  BY <1>1, FS_EmptySet, PeerPoolAssumption
         DEF PoolInv, StatsOK, PoolBounded, BlacklistEarned, PeerPoolAssumption

(* The latency score lies between 0 and 1.                                 *)
LEMMA LatencyScoreRange ==
    ASSUME NEW s \in PeerStats
    PROVE  /\ latency_score(s)[1] \in Nat /\ latency_score(s)[2] \in Nat
           /\ latency_score(s)[1] <= latency_score(s)[2]
<1>1. PICK l \in Nat, m \in Nat : l = s.latency /\ m = s.samples
  BY DEF PeerStats
<1>2. CASE l <= 100 * m
  <2>1. latency_score(s) = <<1, 1>>
    BY <1>1, <1>2 DEF latency_score, GOOD_LATENCY_MS
  <2> QED  BY <2>1
<1>3. CASE l > 100 * m /\ l >= 1000 * m
  <2>1. latency_score(s) = <<0, 1>>
    BY <1>1, <1>3 DEF latency_score, GOOD_LATENCY_MS, BAD_LATENCY_MS
  <2> QED  BY <2>1
<1>4. CASE l > 100 * m /\ l < 1000 * m
  <2>1. latency_score(s) = <<1000 * m - l, 900 * m>>
    BY <1>1, <1>4 DEF latency_score, GOOD_LATENCY_MS, BAD_LATENCY_MS
  <2>2. 1000 * m - l \in Nat /\ 900 * m \in Nat /\ 1000 * m - l <= 900 * m
    BY <1>4
  <2> QED  BY <2>1, <2>2
<1> QED  BY <1>2, <1>3, <1>4

(* Products in the order the scores use them.                              *)
LEMMA FailureArithmetic ==
    ASSUME NEW d \in Nat, NEW n \in Nat, NEW l \in Nat, NEW m \in Nat, l <= m,
           ~(4 * (n * m) < (7 * d * m + 3 * l * n) * 1)
    PROVE  ~(4 * ((n + 1) * m) < (7 * d * m + 3 * l * (n + 1)) * 1)
<1>1. (n + 1) * m = n * m + m /\ 3 * l * (n + 1) = 3 * l * n + 3 * l
  OBVIOUS
<1>2. n * m \in Nat /\ 7 * d * m \in Nat /\ 3 * l * n \in Nat
  OBVIOUS
<1>3. PICK x \in Nat, y \in Nat, z \in Nat : x = n * m /\ y = 7 * d * m /\ z = 3 * l * n
  BY <1>2
<1>4. ~(4 * x < y + z)
  BY <1>3
<1>5. ~(4 * (x + m) < y + (z + 3 * l))
  BY <1>4
<1> QED  BY <1>1, <1>3, <1>5

(* A failure does not raise the score of a peer.                           *)
LEMMA FailureLowers ==
    ASSUME NEW s \in PeerStats, s.delivered + s.failed > 0, ~Less(Forgiven, total_score(s))
    PROVE  ~Less(Forgiven, total_score([s EXCEPT !.failed = @ + 1]))
<1> DEFINE u == [s EXCEPT !.failed = @ + 1]
<1>1. /\ u.delivered = s.delivered /\ u.failed = s.failed + 1
      /\ u.latency = s.latency /\ u.samples = s.samples
      /\ s.delivered \in Nat /\ s.failed \in Nat
  BY DEF PeerStats
<1> HIDE DEF u
<1>2. latency_score(u) = latency_score(s)
  BY <1>1 DEF latency_score
<1>3. PICK l \in Nat, m \in Nat : l = latency_score(s)[1] /\ m = latency_score(s)[2] /\ l <= m
  BY LatencyScoreRange
<1>4. PICK d \in Nat, n \in Nat : d = s.delivered /\ n = s.delivered + s.failed /\ n > 0
  BY <1>1
<1>5. reliability(s) = <<d, n>>
  BY <1>4 DEF reliability
<1>6. u.delivered + u.failed = n + 1 /\ n + 1 # 0
  BY <1>1, <1>4
<1>7. reliability(u) = <<d, n + 1>>
  BY <1>1, <1>4, <1>6 DEF reliability
<1>8. total_score(s) = <<7 * d * m + 3 * l * n, n * m>>
  BY <1>3, <1>5 DEF total_score
<1>9. total_score(u) = <<7 * d * m + 3 * l * (n + 1), (n + 1) * m>>
  BY <1>2, <1>3, <1>7 DEF total_score
<1>10. ~(4 * (n * m) < (7 * d * m + 3 * l * n) * 1)
  BY <1>8 DEF Less, Forgiven
<1>11. ~(4 * ((n + 1) * m) < (7 * d * m + 3 * l * (n + 1)) * 1)
  BY <1>3, <1>10, FailureArithmetic
<1>12. ~Less(Forgiven, total_score(u))
  BY <1>9, <1>11 DEF Less, Forgiven
<1> QED  BY <1>12 DEF u

(* Putting one connection more or less.                                    *)
LEMMA ConnectionAdded ==
    ASSUME NEW f, IsFiniteSet(DOMAIN f), NEW p, NEW v, NEW m \in Nat,
           Cardinality(DOMAIN f) < m \/ (p \in DOMAIN f /\ Cardinality(DOMAIN f) <= m)
    PROVE  IsFiniteSet(DOMAIN With(f, p, v)) /\ Cardinality(DOMAIN With(f, p, v)) <= m
<1>1. DOMAIN With(f, p, v) = DOMAIN f \cup {p}
  BY DEF With
<1>2. Cardinality(DOMAIN f) \in Nat
  BY FS_CardinalityType
<1>3. /\ IsFiniteSet(DOMAIN f \cup {p})
      /\ Cardinality(DOMAIN f \cup {p})
           = IF p \in DOMAIN f THEN Cardinality(DOMAIN f) ELSE Cardinality(DOMAIN f) + 1
  BY FS_AddElement
<1> QED  BY <1>1, <1>2, <1>3

(* Dropping connections leaves no more of them.                            *)
LEMMA ConnectionsDropped ==
    ASSUME NEW f, IsFiniteSet(DOMAIN f), NEW S
    PROVE  /\ IsFiniteSet(DOMAIN Without(f, S))
           /\ Cardinality(DOMAIN Without(f, S)) <= Cardinality(DOMAIN f)
           /\ S \cap DOMAIN f # {} => Cardinality(DOMAIN Without(f, S)) < Cardinality(DOMAIN f)
           /\ Cardinality(DOMAIN Without(f, S)) \in Nat /\ Cardinality(DOMAIN f) \in Nat
<1>1. DOMAIN Without(f, S) = DOMAIN f \ S
  BY DEF Without
<1>2. DOMAIN f \ S \in SUBSET DOMAIN f
  OBVIOUS
<1>3. /\ IsFiniteSet(DOMAIN f \ S) /\ Cardinality(DOMAIN f \ S) <= Cardinality(DOMAIN f)
      /\ Cardinality(DOMAIN f) = Cardinality(DOMAIN f \ S) => DOMAIN f = DOMAIN f \ S
  BY <1>2, FS_Subset
<1>4. Cardinality(DOMAIN f \ S) \in Nat /\ Cardinality(DOMAIN f) \in Nat
  BY <1>3, FS_CardinalityType
<1>5. S \cap DOMAIN f # {} => DOMAIN f # DOMAIN f \ S
  OBVIOUS
<1> QED  BY <1>1, <1>3, <1>4, <1>5

(* Each call keeps the invariant.                                          *)
LEMMA PoolKept == PoolInv /\ [PoolNext]_poolVars => PoolInv'
<1> SUFFICES ASSUME PoolInv, [PoolNext]_poolVars PROVE PoolInv'
  OBVIOUS
<1>m. max_connections \in Nat /\ Latencies \subseteq Nat
  BY PeerPoolAssumption DEF PeerPoolAssumption
<1>f. IsFiniteSet(DOMAIN connections) /\ Cardinality(DOMAIN connections) <= max_connections
  BY DEF PoolInv, PoolBounded
<1>c. ASSUME UNCHANGED <<stats, blacklist>>, PoolBounded' PROVE PoolInv'
  BY <1>c DEF PoolInv, StatsOK, BlacklistEarned
<1>s. ASSUME NEW p, NEW u \in PeerStats, u.delivered + u.failed > 0,
             stats' = With(stats, p, u), connections' = connections,
             blacklist' \subseteq blacklist \cup {p},
             p \in blacklist' => ~Less(Forgiven, total_score(u))
      PROVE  PoolInv'
  <2>1. /\ DOMAIN stats' = DOMAIN stats \cup {p} /\ stats'[p] = u
        /\ \A x \in DOMAIN stats : x # p => stats'[x] = stats[x]
    BY <1>s DEF With
  <2>2. StatsOK'
    BY <2>1 DEF PoolInv, StatsOK
  <2>3. BlacklistEarned'
    <3> SUFFICES ASSUME NEW x \in blacklist'
                 PROVE  /\ x \in DOMAIN stats'
                        /\ stats'[x].delivered + stats'[x].failed > 0
                        /\ ~Less(Forgiven, total_score(stats'[x]))
      BY DEF BlacklistEarned, Less, Forgiven, total_score, reliability, latency_score
    <3>1. CASE x = p
      BY <1>s, <2>1, <3>1
    <3>2. CASE x # p
      BY <1>s, <2>1, <3>2 DEF PoolInv, BlacklistEarned
    <3> QED  BY <3>1, <3>2
  <2>4. PoolBounded'
    BY <1>s, <1>f DEF PoolBounded
  <2> QED  BY <2>2, <2>3, <2>4 DEF PoolInv
<1>n. \A p : Stats(p) \in PeerStats
  BY DEF PoolInv, StatsOK, Stats, NewStats, PeerStats
<1>1. ASSUME PoolTick PROVE PoolInv'
  BY <1>1, <1>c, <1>f DEF PoolTick, PoolBounded
<1>2. ASSUME maintain_connections PROVE PoolInv'
  <2>1. PICK S : connections' = Without(connections, S)
    BY <1>2 DEF maintain_connections
  <2>2. PoolBounded'
    BY <1>f, <1>m, <2>1, ConnectionsDropped DEF PoolBounded
  <2> QED  BY <1>2, <1>c, <2>2 DEF maintain_connections
<1>3. ASSUME NEW p \in PoolPeers, add_connection(p) PROVE PoolInv'
  <2>1. CASE Cardinality(DOMAIN connections) >= max_connections
    <3>1. PICK q \in evict_connection :
            connections' = With(Without(connections, {q}), p, pool_time)
      BY <1>3, <2>1 DEF add_connection
    <3>2. q \in DOMAIN connections
      BY <3>1 DEF evict_connection
    <3> DEFINE g == Without(connections, {q})
    <3>3. IsFiniteSet(DOMAIN g) /\ Cardinality(DOMAIN g) < max_connections
      <4>1. /\ IsFiniteSet(DOMAIN g) /\ Cardinality(DOMAIN g) < Cardinality(DOMAIN connections)
            /\ Cardinality(DOMAIN g) \in Nat /\ Cardinality(DOMAIN connections) \in Nat
        BY <1>f, <3>2, ConnectionsDropped
      <4> QED  BY <1>f, <1>m, <4>1
    <3> HIDE DEF g
    <3>4. /\ IsFiniteSet(DOMAIN With(g, p, pool_time))
          /\ Cardinality(DOMAIN With(g, p, pool_time)) <= max_connections
      BY <1>m, <3>3, ConnectionAdded
    <3>5. PoolBounded'
      BY <3>1, <3>4 DEF PoolBounded, g
    <3> QED  BY <1>3, <1>c, <3>5 DEF add_connection
  <2>2. CASE ~(Cardinality(DOMAIN connections) >= max_connections)
    <3>1. connections' = With(connections, p, pool_time)
      BY <1>3, <2>2 DEF add_connection
    <3>2. Cardinality(DOMAIN connections) < max_connections
      BY <1>f, <1>m, <2>2, FS_CardinalityType
    <3>3. PoolBounded'
      BY <1>f, <1>m, <3>1, <3>2, ConnectionAdded DEF PoolBounded
    <3> QED  BY <1>3, <1>c, <3>3 DEF add_connection
  <2> QED  BY <2>1, <2>2
<1>4. ASSUME NEW p \in PoolPeers, get_connection(p) PROVE PoolInv'
  <2>1. PoolBounded'
    BY <1>4, <1>f, <1>m, ConnectionAdded DEF PoolBounded, get_connection
  <2> QED  BY <1>4, <1>c, <2>1 DEF get_connection
<1>5. ASSUME NEW p \in PoolPeers, close_connection(p) PROVE PoolInv'
  <2>1. PoolBounded'
    BY <1>5, <1>f, <1>m, ConnectionsDropped DEF PoolBounded, close_connection
  <2> QED  BY <1>5, <1>c, <2>1 DEF close_connection
<1>6. ASSUME NEW p \in PoolPeers, record_message_failed(p) PROVE PoolInv'
  <2> DEFINE u == [Stats(p) EXCEPT !.failed = @ + 1]
  <2>1. u \in PeerStats /\ u.delivered + u.failed > 0
    BY <1>n DEF PeerStats
  <2>2. /\ stats' = With(stats, p, u) /\ connections' = connections
        /\ blacklist' = IF Less(total_score(u), BLACKLIST_THRESHOLD) THEN blacklist \cup {p}
                        ELSE blacklist
    BY <1>6 DEF record_message_failed
  <2>3. ASSUME p \in blacklist PROVE ~Less(Forgiven, total_score(u))
    <3>1. /\ Stats(p) = stats[p] /\ stats[p].delivered + stats[p].failed > 0
          /\ ~Less(Forgiven, total_score(stats[p]))
      BY <2>3 DEF PoolInv, BlacklistEarned, Stats
    <3> QED  BY <1>n, <3>1, FailureLowers
  <2>4. ASSUME Less(total_score(u), BLACKLIST_THRESHOLD)
        PROVE  ~Less(Forgiven, total_score(u))
    <3>1. PICK l \in Nat, m \in Nat :
            l = latency_score(u)[1] /\ m = latency_score(u)[2] /\ l <= m
      BY <2>1, LatencyScoreRange
    <3>2. PICK d \in Nat, n \in Nat : d = reliability(u)[1] /\ n = reliability(u)[2]
      <4>1. u.delivered \in Nat /\ u.delivered + u.failed \in Nat
        BY <2>1 DEF PeerStats
      <4>2. reliability(u) \in {<<1, 2>>, <<u.delivered, u.delivered + u.failed>>}
        BY DEF reliability
      <4> QED  BY <4>1, <4>2
    <3>3. 7 * d * m + 3 * l * n \in Nat /\ n * m \in Nat
      OBVIOUS
    <3>4. PICK x \in Nat, y \in Nat : x = 7 * d * m + 3 * l * n /\ y = n * m
      BY <3>3
    <3>5. total_score(u) = <<x, y>>
      BY <3>1, <3>2, <3>4 DEF total_score
    <3>6. x * 1 < 3 * y
      BY <2>4, <3>5 DEF Less, BLACKLIST_THRESHOLD
    <3>7. ~(4 * y < x * 1)
      BY <3>6
    <3> QED  BY <3>5, <3>7 DEF Less, Forgiven
  <2> HIDE DEF u
  <2> QED  BY <1>s, <2>1, <2>2, <2>3, <2>4
<1>7. ASSUME NEW p \in PoolPeers, NEW lat \in Latencies \cup {0}, record_message_delivered(p, lat)
      PROVE  PoolInv'
  <2> DEFINE u == [Stats(p) EXCEPT !.delivered = @ + 1, !.latency = @ + lat,
                                   !.samples = IF lat = 0 THEN @ ELSE @ + 1]
  <2>1. u \in PeerStats /\ u.delivered + u.failed > 0
    <3>1. PICK t \in PeerStats : t = Stats(p)
      BY <1>n
    <3>2. PICK k \in Nat : k = IF lat = 0 THEN t.samples ELSE t.samples + 1
      BY DEF PeerStats
    <3>3. PICK d \in Nat, l \in Nat : d = t.delivered + 1 /\ l = t.latency + lat /\ d > 0
      BY <1>m DEF PeerStats
    <3>4. u = [t EXCEPT !.delivered = d, !.latency = l, !.samples = k]
      BY <3>1, <3>2, <3>3
    <3>5. /\ u \in PeerStats /\ u.delivered = d /\ u.failed = t.failed /\ t.failed \in Nat
      BY <3>4 DEF PeerStats
    <3> HIDE DEF u
    <3> QED  BY <3>3, <3>5
  <2>2. /\ stats' = With(stats, p, u) /\ connections' = connections
        /\ blacklist' = IF Less(Forgiven, total_score(u)) THEN blacklist \ {p} ELSE blacklist
    BY <1>7 DEF record_message_delivered
  <2> HIDE DEF u
  <2> QED  BY <1>s, <2>1, <2>2
<1>8. CASE UNCHANGED poolVars
  BY <1>8, <1>c, <1>f DEF poolVars, PoolBounded
<1> QED  BY <1>1, <1>2, <1>3, <1>4, <1>5, <1>6, <1>7, <1>8 DEF PoolNext

(* PoolInv is what PoolSound promises, and more.                           *)
LEMMA PoolInvSuffices == PoolInv => PoolSound
  BY DEF PoolInv, PoolBounded, BlacklistEarned, PoolSound, get_score

-----------------------------------------------------------------------------
(* A set of naturals has a least member.                                   *)
LEMMA LeastNumber ==
    ASSUME NEW T \in SUBSET Nat, T # {}
    PROVE  \E m \in T : \A k \in T : m <= k
<1>1. PICK m \in T : \A k \in T : ~(<<k, m>> \in OpToRel(<, Nat))
  BY WFMin, NatLessThanWellFounded, Zenon
<1>2. OpToRel(<, Nat) = {ss \in Nat \X Nat : ss[1] < ss[2]}
  BY Zenon DEF OpToRel
<1>3. ASSUME NEW k \in T, k < m PROVE <<k, m>> \in {ss \in Nat \X Nat : ss[1] < ss[2]}
  BY <1>3
<1>4. \A k \in T : ~(k < m)
  BY <1>1, <1>2, <1>3, Zenon
<1> QED  BY <1>4

(* The smaller of two numbers.                                              *)
LEMMA MinOfTwo ==
    ASSUME NEW a \in Int, NEW b \in Int
    PROVE  Min({a, b}) = IF a <= b THEN a ELSE b
<1>1. PICK x \in {a, b} : \A y \in {a, b} : x =< y
  <2>1. CASE a <= b
    BY <2>1
  <2>2. CASE ~(a <= b)
    BY <2>2
  <2> QED  BY <2>1, <2>2
<1>2. Min({a, b}) \in {a, b} /\ \A y \in {a, b} : Min({a, b}) =< y
  BY <1>1 DEF Min
<1> QED  BY <1>2

(* The larger of two numbers.                                              *)
LEMMA MaxOfTwo ==
    ASSUME NEW a \in Int, NEW b \in Int
    PROVE  Max({a, b}) = IF a >= b THEN a ELSE b
<1>1. PICK x \in {a, b} : \A y \in {a, b} : x >= y
  <2>1. CASE a >= b
    BY <2>1
  <2>2. CASE ~(a >= b)
    BY <2>2
  <2> QED  BY <2>1, <2>2
<1>2. Max({a, b}) \in {a, b} /\ \A y \in {a, b} : Max({a, b}) >= y
  BY <1>1 DEF Max
<1> QED  BY <1>2

(* The gossip router.  A message that was handed out and is not remembered *)
(* any more is older than the time to live.                                *)
MeshOK(peers) == peers \subseteq neighbours /\ Cardinality(peers) <= D

OldWhenForgotten ==
    \A m \in Arriving : m \in given /\ m \notin seen_messages => gossip_time - m.at > SEEN_MSG_TTL

GossipInv ==
    /\ gossip_time \in Nat /\ IsFiniteSet(neighbours)
    /\ subscriptions \in [Topics -> SUBSET Handlers]
    /\ DOMAIN mesh = {t \in Topics : subscriptions[t] # {}}
    /\ \A t \in DOMAIN mesh : MeshOK(mesh[t])
    /\ \A t \in DOMAIN fanout : fanout[t] \subseteq neighbours
    /\ OldWhenForgotten

(* A router without neighbours.                                            *)
LEMMA GossipInitially == GossipInit => GossipInv
  BY FS_EmptySet DEF GossipInit, GossipInv, OldWhenForgotten

(* What is selected for a mesh is among the neighbours and at most D.      *)
LEMMA SelectedOK ==
    ASSUME GossipInv, NEW s \in select_peers_for_mesh
    PROVE  MeshOK(s) /\ IsFiniteSet(s)
<1>1. D \in Nat
  BY GossipAssumption DEF GossipAssumption
<1>2. Cardinality(neighbours) \in Nat
  BY FS_CardinalityType DEF GossipInv
<1>3. s \subseteq neighbours /\ Cardinality(s) = Min({D, Cardinality(neighbours)})
  BY DEF select_peers_for_mesh
<1>4. Min({D, Cardinality(neighbours)}) <= D
  <2>1. PICK a \in Int, b \in Int : a = D /\ b = Cardinality(neighbours)
    BY <1>1, <1>2
  <2>2. Min({a, b}) <= a
    BY MinOfTwo
  <2> QED  BY <2>1, <2>2
<1>5. IsFiniteSet(s)
  BY <1>3, FS_Subset DEF GossipInv
<1> QED  BY <1>3, <1>4, <1>5 DEF MeshOK

(* A heartbeat leaves no mesh larger than D.                               *)
LEMMA BalancedOK ==
    ASSUME GossipInv, NEW peers, MeshOK(peers), NEW q \in Balanced(peers), q \subseteq neighbours
    PROVE  MeshOK(q)
<1>1. D \in Nat
  BY GossipAssumption DEF GossipAssumption
<1>2. IsFiniteSet(peers) /\ Cardinality(peers) \in Nat
  BY FS_Subset, FS_CardinalityType DEF GossipInv, MeshOK
<1> DEFINE n == Cardinality(peers)
<1>3. CASE n < D_LOW
  <2>1. PICK s \in select_peers_for_mesh :
          \E more \in kSubset(Min({D - n, Cardinality(s \ peers)}), s \ peers) :
            q = peers \cup more
    BY <1>3 DEF Balanced
  <2>2. PICK more \in kSubset(Min({D - n, Cardinality(s \ peers)}), s \ peers) :
          q = peers \cup more
    BY <2>1
  <2>3. IsFiniteSet(s)
    BY SelectedOK
  <2>4. IsFiniteSet(s \ peers) /\ Cardinality(s \ peers) \in Nat
    BY <2>3, FS_Subset, FS_CardinalityType
  <2>5. /\ more \subseteq s \ peers /\ Cardinality(more) = Min({D - n, Cardinality(s \ peers)})
    BY <2>2 DEF kSubset
  <2>6. IsFiniteSet(more) /\ Cardinality(more) \in Nat
    BY <2>4, <2>5, FS_Subset, FS_CardinalityType
  <2>7. D - n \in Int
    BY <1>1, <1>2
  <2> HIDE DEF n
  <2>8. Cardinality(more) <= D - n
    <3>1. PICK a \in Int, b \in Int : a = D - n /\ b = Cardinality(s \ peers)
      BY <2>4, <2>7
    <3>2. Min({a, b}) <= a
      BY MinOfTwo
    <3> QED  BY <2>5, <3>1, <3>2
  <2>9. PICK c \in Nat : /\ c = Cardinality(peers \cap more)
                         /\ Cardinality(q) = Cardinality(peers) + Cardinality(more) - c
    <3>1. IsFiniteSet(peers \cap more)
      BY <1>2, FS_Subset
    <3>2. Cardinality(peers \cap more) \in Nat
      BY <3>1, FS_CardinalityType
    <3> QED  BY <1>2, <2>2, <2>6, <3>2, FS_Union
  <2>10. Cardinality(q) <= D
    BY <1>1, <1>2, <2>6, <2>8, <2>9 DEF n
  <2> QED  BY <2>10 DEF MeshOK
<1>4. CASE ~(n < D_LOW) /\ n > D_HIGH
  <2>1. q \in kSubset(D, peers)
    BY <1>4 DEF Balanced
  <2>2. Cardinality(q) = D
    BY <2>1 DEF kSubset
  <2> QED  BY <1>1, <2>2 DEF MeshOK
<1>5. CASE ~(n < D_LOW) /\ ~(n > D_HIGH)
  <2>1. q = peers
    BY <1>5 DEF Balanced
  <2> QED  BY <2>1
<1> QED  BY <1>3, <1>4, <1>5

(* Without a peer that left, a mesh is not larger.                         *)
LEMMA WithoutPeer ==
    ASSUME GossipInv, NEW peers, MeshOK(peers), NEW p
    PROVE  peers \ {p} \subseteq neighbours \ {p} /\ Cardinality(peers \ {p}) <= D
<1>1. IsFiniteSet(peers)
  BY FS_Subset DEF GossipInv, MeshOK
<1>2. peers \ {p} \in SUBSET peers
  OBVIOUS
<1>3. /\ Cardinality(peers \ {p}) <= Cardinality(peers)
      /\ Cardinality(peers \ {p}) \in Nat /\ Cardinality(peers) \in Nat
  BY <1>1, <1>2, FS_Subset, FS_CardinalityType
<1> QED  BY <1>3, GossipAssumption DEF MeshOK, GossipAssumption

(* Each call keeps the invariant.                                          *)
LEMMA GossipKept == GossipInv /\ [GossipNext]_gossipVars => GossipInv'
<1> SUFFICES ASSUME GossipInv, [GossipNext]_gossipVars PROVE GossipInv'
  OBVIOUS
<1>a. SEEN_MSG_TTL \in Nat /\ \A m \in Arriving : m.at \in Nat
  BY GossipAssumption DEF GossipAssumption
<1>1. ASSUME GossipTick PROVE GossipInv'
  <2>1. gossip_time' = gossip_time + 1 /\ gossip_time \in Nat
    BY <1>1 DEF GossipTick, GossipInv
  <2>2. OldWhenForgotten'
    BY <1>1, <1>a, <2>1 DEF GossipTick, GossipInv, OldWhenForgotten
  <2> QED  BY <1>1, <2>1, <2>2 DEF GossipTick, GossipInv, MeshOK
<1>2. ASSUME NEW p \in GossipPeers, add_peer(p) PROVE GossipInv'
  <2>1. IsFiniteSet(neighbours \cup {p})
    BY FS_AddElement DEF GossipInv
  <2> QED  BY <1>2, <2>1 DEF add_peer, GossipInv, MeshOK, OldWhenForgotten
<1>3. ASSUME NEW p \in GossipPeers, remove_peer(p) PROVE GossipInv'
  <2>1. /\ neighbours' = neighbours \ {p} /\ IsFiniteSet(neighbours \ {p})
        /\ DOMAIN mesh' = DOMAIN mesh /\ DOMAIN fanout' = DOMAIN fanout
        /\ \A t \in DOMAIN mesh : mesh'[t] = mesh[t] \ {p}
        /\ \A t \in DOMAIN fanout : fanout'[t] = fanout[t] \ {p}
    BY <1>3, FS_RemoveElement DEF remove_peer, GossipInv
  <2>2. ASSUME NEW t \in DOMAIN mesh' PROVE MeshOK(mesh[t])'
    <3>1. MeshOK(mesh[t])
      BY <2>1 DEF GossipInv
    <3>2. mesh[t] \ {p} \subseteq neighbours \ {p} /\ Cardinality(mesh[t] \ {p}) <= D
      BY <3>1, WithoutPeer
    <3> QED  BY <2>1, <2>2, <3>2 DEF MeshOK
  <2>3. \A t \in DOMAIN fanout' : fanout'[t] \subseteq neighbours'
    BY <2>1 DEF GossipInv
  <2> QED  BY <1>3, <2>1, <2>2, <2>3 DEF remove_peer, GossipInv, OldWhenForgotten
<1>4. ASSUME NEW t \in Topics, NEW h \in Handlers, subscribe(t, h) PROVE GossipInv'
  <2>1. /\ subscriptions' \in [Topics -> SUBSET Handlers]
        /\ subscriptions'[t] # {}
        /\ \A x \in Topics : x # t => subscriptions'[x] = subscriptions[x]
    BY <1>4 DEF subscribe, GossipInv
  <2>2. UNCHANGED <<gossip_time, neighbours, fanout, seen_messages, given>>
    BY <1>4 DEF subscribe
  <2>3. /\ DOMAIN mesh' = DOMAIN mesh \cup {t}
        /\ \A x \in DOMAIN mesh' : MeshOK(mesh'[x])
    <3>1. CASE t \in DOMAIN mesh
      BY <1>4, <3>1 DEF subscribe, GossipInv
    <3>2. CASE t \notin DOMAIN mesh
      <4>1. PICK s \in select_peers_for_mesh : mesh' = Entry(mesh, t, s)
        BY <1>4, <3>2 DEF subscribe
      <4>2. MeshOK(s)
        BY SelectedOK
      <4> QED  BY <4>1, <4>2 DEF Entry, GossipInv
    <3> QED  BY <3>1, <3>2
  <2>4. DOMAIN mesh' = {x \in Topics : subscriptions'[x] # {}}
    BY <2>1, <2>3 DEF GossipInv
  <2>5. \A x \in DOMAIN mesh' : MeshOK(mesh[x])'
    BY <2>2, <2>3 DEF MeshOK
  <2> QED  BY <2>1, <2>2, <2>4, <2>5 DEF GossipInv, OldWhenForgotten
<1>5. ASSUME NEW t \in Topics, NEW w \in SUBSET Handlers, unsubscribe(t, w) PROVE GossipInv'
  <2>1. /\ subscriptions' \in [Topics -> SUBSET Handlers]
        /\ subscriptions'[t] \subseteq subscriptions[t]
        /\ \A x \in Topics : x # t => subscriptions'[x] = subscriptions[x]
    BY <1>5 DEF unsubscribe, GossipInv
  <2>2. UNCHANGED <<gossip_time, neighbours, fanout, seen_messages, given>>
    BY <1>5 DEF unsubscribe
  <2>3. CASE subscriptions'[t] = {}
    <3>1. mesh' = [x \in DOMAIN mesh \ {t} |-> mesh[x]]
      BY <1>5, <2>3 DEF unsubscribe
    <3>2. DOMAIN mesh' = {x \in Topics : subscriptions'[x] # {}}
      BY <2>1, <2>3, <3>1 DEF GossipInv
    <3>3. \A x \in DOMAIN mesh' : MeshOK(mesh[x])'
      BY <2>2, <3>1 DEF GossipInv, MeshOK
    <3> QED  BY <2>1, <2>2, <3>2, <3>3 DEF GossipInv, OldWhenForgotten
  <2>4. CASE subscriptions'[t] # {}
    <3>1. mesh' = mesh
      BY <1>5, <2>4 DEF unsubscribe
    <3>2. DOMAIN mesh' = {x \in Topics : subscriptions'[x] # {}}
      BY <2>1, <2>4, <3>1 DEF GossipInv
    <3>3. \A x \in DOMAIN mesh' : MeshOK(mesh[x])'
      BY <2>2, <3>1 DEF GossipInv, MeshOK
    <3> QED  BY <2>1, <2>2, <3>2, <3>3 DEF GossipInv, OldWhenForgotten
  <2> QED  BY <2>3, <2>4
<1>6. ASSUME NEW m, seen_messages' = seen_messages \cup {m}, deliver_message(m),
             gossip_time' = gossip_time
      PROVE  OldWhenForgotten'
  BY <1>6 DEF GossipInv, OldWhenForgotten, deliver_message
<1>7. ASSUME NEW t \in Topics, publish(t) PROVE GossipInv'
  <2>1. OldWhenForgotten'
    BY <1>7, <1>6 DEF publish
  <2>2. \A x \in DOMAIN fanout' : fanout'[x] \subseteq neighbours
    <3>1. CASE t \in DOMAIN mesh \cup DOMAIN fanout
      BY <1>7, <3>1 DEF publish, GossipInv
    <3>2. CASE ~(t \in DOMAIN mesh \cup DOMAIN fanout)
      <4>1. PICK s \in select_peers_for_mesh : fanout' = Entry(fanout, t, s)
        BY <1>7, <3>2 DEF publish
      <4>2. s \subseteq neighbours
        BY SelectedOK DEF MeshOK
      <4> QED  BY <4>1, <4>2 DEF Entry, GossipInv
    <3> QED  BY <3>1, <3>2
  <2> QED  BY <1>7, <2>1, <2>2 DEF publish, GossipInv, MeshOK
<1>8. ASSUME NEW m \in Arriving, handle_message(m) PROVE GossipInv'
  <2>1. OldWhenForgotten'
    BY <1>8, <1>6 DEF handle_message
  <2> QED  BY <1>8, <2>1 DEF handle_message, GossipInv, MeshOK
<1>9. ASSUME heartbeat PROVE GossipInv'
  <2>1. /\ UNCHANGED <<gossip_time, neighbours, subscriptions, fanout, given>>
        /\ DOMAIN mesh' = DOMAIN mesh
        /\ \A t \in DOMAIN mesh : mesh'[t] \in Balanced(mesh[t]) /\ mesh'[t] \subseteq neighbours
        /\ seen_messages' = {m \in seen_messages : m.at >= gossip_time - SEEN_MSG_TTL}
    BY <1>9 DEF heartbeat
  <2>2. \A t \in DOMAIN mesh' : MeshOK(mesh[t])'
    BY <2>1, BalancedOK DEF GossipInv, MeshOK
  <2>3. OldWhenForgotten'
    <3> SUFFICES ASSUME NEW m \in Arriving, m \in given, m \notin seen_messages'
                 PROVE  gossip_time - m.at > SEEN_MSG_TTL
      BY <2>1 DEF OldWhenForgotten
    <3>1. CASE m \notin seen_messages
      BY <3>1 DEF GossipInv, OldWhenForgotten
    <3>2. CASE m \in seen_messages
      <4>1. ~(m.at >= gossip_time - SEEN_MSG_TTL)
        BY <2>1, <3>2
      <4>2. gossip_time \in Nat /\ m.at \in Nat
        BY <1>a DEF GossipInv
      <4> QED  BY <1>a, <4>1, <4>2
    <3> QED  BY <3>1, <3>2
  <2> QED  BY <2>1, <2>2, <2>3 DEF GossipInv
<1>10. CASE UNCHANGED gossipVars
  BY <1>10 DEF gossipVars, GossipInv, MeshOK, OldWhenForgotten
<1> QED  BY <1>1, <1>2, <1>3, <1>4, <1>5, <1>7, <1>8, <1>9, <1>10 DEF GossipNext

(* The meshes of GossipInv hold neighbours only, D at most.                *)
LEMMA GossipInvSuffices == GossipInv => RoutesCurrent
  BY DEF GossipInv, RoutesCurrent, MeshOK

(* What is handed out again is older than the time to live.                *)
LEMMA ForgottenIsOld ==
    GossipInv => [\A m \in Arriving :
                    /\ m \in given /\ m \notin seen_messages /\ m \in seen_messages'
                    => gossip_time - m.at > SEEN_MSG_TTL]_gossipVars
  BY DEF GossipInv, OldWhenForgotten

-----------------------------------------------------------------------------
(* The hybrid bus.  Whatever was used after a cached envelope came since   *)
(* that envelope was last delivered, and one that is gone from the cache   *)
(* had to go.                                                              *)
CacheRow == [at : Nat, used : Nat]

HybridTypeOK ==
    /\ adds \in Nat /\ hybrid_time \in Nat \ {0}
    /\ handled_at \in [Envelopes -> Nat]
    /\ since \in [Envelopes -> SUBSET Envelopes]
    /\ Cached(message_cache) \subseteq Envelopes

CachedOK(x) ==
    /\ message_cache[x] \in CacheRow
    /\ message_cache[x].used <= adds
    /\ message_cache[x].at = handled_at[x]
    /\ \A y \in Cached(message_cache) :
         message_cache[y].used > message_cache[x].used => y \in since[x]

Forgettable(x) ==
    \/ Cardinality(since[x]) >= cache_max_size
    \/ hybrid_time - handled_at[x] > ttl_seconds

GoneOK(x) == handled_at[x] > 0 => Forgettable(x)

HybridInv ==
    /\ HybridTypeOK
    /\ \A x \in Envelopes : IsFiniteSet(since[x])
    /\ \A x \in Cached(message_cache) : CachedOK(x)
    /\ \A x \in Envelopes \ Cached(message_cache) : GoneOK(x)

(* An empty cache, and nothing handled.                                    *)
LEMMA HybridInitially == HybridInit => HybridInv
<1> SUFFICES ASSUME HybridInit PROVE HybridInv
  OBVIOUS
<1>1. Cached(message_cache) = {}
  BY DEF HybridInit, Cached
<1>2. HybridTypeOK
  BY <1>1 DEF HybridInit, HybridTypeOK
<1>3. \A x \in Envelopes : IsFiniteSet(since[x]) /\ GoneOK(x)
  BY FS_EmptySet DEF HybridInit, GoneOK
<1> QED  BY <1>1, <1>2, <1>3 DEF HybridInv

(* An envelope that may be forgotten stays so while others arrive and time *)
(* passes.                                                                 *)
LEMMA ForgettableLater ==
    ASSUME HybridInv, NEW x \in Envelopes, Forgettable(x), handled_at'[x] = handled_at[x],
           hybrid_time' \in Nat, hybrid_time' >= hybrid_time,
           since[x] \subseteq since'[x], IsFiniteSet(since'[x])
    PROVE  Forgettable(x)'
<1> USE HybridAssumption DEF HybridAssumption
<1>1. since[x] \in SUBSET since'[x]
  OBVIOUS
<1>2. /\ Cardinality(since[x]) <= Cardinality(since'[x])
      /\ Cardinality(since[x]) \in Nat /\ Cardinality(since'[x]) \in Nat
  BY <1>1, FS_Subset, FS_CardinalityType
<1>3. hybrid_time \in Nat /\ handled_at[x] \in Nat
  BY DEF HybridInv, HybridTypeOK
<1>4. CASE Cardinality(since[x]) >= cache_max_size
  BY <1>2, <1>4 DEF Forgettable
<1>5. CASE hybrid_time - handled_at[x] > ttl_seconds
  BY <1>3, <1>5 DEF Forgettable
<1> QED  BY <1>4, <1>5 DEF Forgettable

(* A delivery keeps the invariant.                                         *)
LEMMA DeliveryKept ==
    ASSUME HybridInv, NEW e \in Envelopes, NEW t, deduplicated_handler(e, t)
    PROVE  HybridInv'
<1> USE HybridAssumption DEF HybridAssumption
<1>t. /\ adds \in Nat /\ hybrid_time \in Nat /\ hybrid_time > 0
      /\ handled_at \in [Envelopes -> Nat] /\ since \in [Envelopes -> SUBSET Envelopes]
      /\ Cached(message_cache) \subseteq Envelopes
  BY DEF HybridInv, HybridTypeOK
<1>1. /\ message_cache' = add(e) /\ adds' = adds + 1 /\ hybrid_time' = hybrid_time
      /\ handled_at' = IF e \in Cached(message_cache) THEN handled_at
                       ELSE [handled_at EXCEPT ![e] = hybrid_time]
      /\ since' = [x \in Envelopes |-> IF x = e THEN {} ELSE since[x] \cup {e}]
  BY DEF deduplicated_handler
<1>2. /\ since' \in [Envelopes -> SUBSET Envelopes]
      /\ since'[e] = {}
      /\ \A x \in Envelopes : x # e => since'[x] = since[x] \cup {e}
  BY <1>1, <1>t
<1>3. ASSUME NEW x \in Envelopes PROVE IsFiniteSet(since'[x])
  <2>1. IsFiniteSet(since[x]) /\ IsFiniteSet({})
    BY FS_EmptySet DEF HybridInv
  <2>2. IsFiniteSet(since[x] \cup {e})
    BY <2>1, FS_AddElement
  <2> QED  BY <1>2, <2>1, <2>2
<1>4. /\ handled_at' \in [Envelopes -> Nat]
      /\ \A x \in Envelopes : x # e => handled_at'[x] = handled_at[x]
  BY <1>1, <1>t
<1>5. PICK a \in Nat : /\ a = handled_at'[e]
                       /\ e \in Cached(message_cache) => a = message_cache[e].at
                       /\ e \notin Cached(message_cache) => a = hybrid_time
  <2>1. e \in Cached(message_cache) => message_cache[e].at = handled_at[e]
    BY DEF HybridInv, CachedOK
  <2> QED  BY <1>1, <1>t, <2>1
<1> DEFINE L == Touched(e, a)
<1>6. /\ DOMAIN L = Cached(message_cache) \cup {e}
      /\ L[e] = [at |-> a, used |-> adds + 1]
      /\ \A x \in Cached(message_cache) : x # e => L[x] = message_cache[x]
  BY DEF Touched
<1> HIDE DEF L
<1>7. ASSUME NEW x \in DOMAIN L
      PROVE  /\ L[x] \in CacheRow /\ L[x].used <= adds + 1 /\ L[x].at = handled_at'[x]
             /\ \A y \in DOMAIN L : L[y].used > L[x].used => y \in since'[x]
  <2>0. \A y \in Cached(message_cache) : /\ message_cache[y].used \in Nat
                                         /\ message_cache[y].used <= adds
    BY DEF HybridInv, CachedOK, CacheRow
  <2>1. CASE x = e
    <3>1. L[x] \in CacheRow /\ L[x].used = adds + 1 /\ L[x].at = handled_at'[x]
      BY <1>5, <1>6, <1>t, <2>1 DEF CacheRow
    <3>2. \A y \in DOMAIN L : ~(L[y].used > adds + 1)
      BY <1>6, <1>t, <2>0
    <3> QED  BY <1>t, <3>1, <3>2
  <2>2. CASE x # e
    <3>1. /\ x \in Cached(message_cache) /\ x \in Envelopes /\ L[x] = message_cache[x]
          /\ CachedOK(x)
      BY <1>6, <1>t, <2>2 DEF HybridInv
    <3>2. L[x] \in CacheRow /\ L[x].used <= adds + 1 /\ L[x].at = handled_at'[x]
      BY <1>4, <1>t, <2>0, <2>2, <3>1 DEF CachedOK
    <3>3. ASSUME NEW y \in DOMAIN L, L[y].used > L[x].used PROVE y \in since'[x]
      BY <1>2, <1>6, <2>2, <3>1, <3>3 DEF CachedOK
    <3> QED  BY <3>2, <3>3
  <2> QED  BY <2>1, <2>2
<1>8. ASSUME NEW K \in SUBSET DOMAIN L, message_cache' = [x \in K |-> L[x]],
             \A x \in DOMAIN L \ K : x # e /\ Cardinality(since'[x]) >= cache_max_size,
             e \in K
      PROVE  HybridInv'
  <2>1. Cached(message_cache)' = K
    BY <1>8 DEF Cached
  <2>2. HybridTypeOK'
    BY <1>1, <1>2, <1>4, <1>6, <1>8, <1>t, <2>1 DEF HybridTypeOK
  <2>3. ASSUME NEW x \in K PROVE CachedOK(x)'
    <3>1. message_cache'[x] = L[x] /\ \A y \in K : message_cache'[y] = L[y]
      BY <1>8
    <3> QED  BY <1>1, <1>7, <1>8, <2>1, <3>1 DEF CachedOK
  <2>4. ASSUME NEW x \in Envelopes, x \notin K PROVE GoneOK(x)'
    <3>1. CASE x \in DOMAIN L
      BY <1>8, <2>4, <3>1 DEF GoneOK, Forgettable
    <3>2. CASE x \notin DOMAIN L
      <4>1. x # e /\ x \notin Cached(message_cache)
        BY <1>6, <3>2
      <4>2. GoneOK(x)
        BY <4>1 DEF HybridInv
      <4>3. handled_at'[x] = handled_at[x] /\ since[x] \subseteq since'[x]
        BY <1>2, <1>4, <4>1
      <4>4. Forgettable(x) => Forgettable(x)'
        <5>1. hybrid_time' \in Nat /\ hybrid_time' >= hybrid_time
          BY <1>1, <1>t
        <5>2. IsFiniteSet(since'[x])
          BY <1>3
        <5> QED  BY <4>3, <5>1, <5>2, ForgettableLater
      <4> QED  BY <4>2, <4>3, <4>4 DEF GoneOK
    <3> QED  BY <3>1, <3>2
  <2> QED  BY <1>3, <2>1, <2>2, <2>3, <2>4 DEF HybridInv
<1>9. CASE e \in Cached(message_cache)
  <2>1. message_cache' = L
    BY <1>1, <1>5, <1>9 DEF add, L
  <2>2. L = [x \in DOMAIN L |-> L[x]]
    BY DEF L, Touched
  <2> QED  BY <1>6, <1>8, <2>1, <2>2
<1>10. CASE e \notin Cached(message_cache)
  <2> DEFINE newer(x) == {y \in DOMAIN L : L[y].used > L[x].used}
             K == {y \in DOMAIN L : Cardinality(newer(y)) < cache_max_size}
  <2>1. message_cache' = [x \in K |-> L[x]]
    BY <1>1, <1>5, <1>10 DEF add, Entered, Cached, L
  <2>2. newer(e) = {}
    <3>1. e \in DOMAIN L
      BY <1>6
    <3>2. \A y \in DOMAIN L : L[y].used \in Nat /\ L[y].used <= L[e].used
      BY <1>6, <1>7, <1>t DEF CacheRow
    <3>3. \A y \in DOMAIN L : ~(L[y].used > L[e].used)
      BY <3>1, <3>2
    <3> QED  BY <3>3
  <2>3. e \in K
    <3>1. Cardinality(newer(e)) < cache_max_size
      <4> HIDE DEF newer
      <4> QED  BY <2>2, FS_EmptySet
    <3> QED  BY <1>6, <3>1
  <2>4. ASSUME NEW x \in DOMAIN L \ K PROVE x # e /\ Cardinality(since'[x]) >= cache_max_size
    <3>1. x # e /\ x \in Envelopes
      BY <1>6, <1>t, <2>3
    <3>2. newer(x) \in SUBSET since'[x]
      BY <1>7
    <3>3. IsFiniteSet(since'[x])
      BY <1>3, <3>1
    <3>4. ~(Cardinality(newer(x)) < cache_max_size)
      OBVIOUS
    <3> HIDE DEF newer, K
    <3>5. /\ IsFiniteSet(newer(x)) /\ Cardinality(newer(x)) <= Cardinality(since'[x])
      BY <3>2, <3>3, FS_Subset
    <3>6. Cardinality(newer(x)) \in Nat /\ Cardinality(since'[x]) \in Nat
      BY <3>3, <3>5, FS_CardinalityType
    <3>7. Cardinality(since'[x]) >= cache_max_size
      BY <3>4, <3>5, <3>6
    <3> QED  BY <3>1, <3>7
  <2>5. K \in SUBSET DOMAIN L
    OBVIOUS
  <2> HIDE DEF newer, K
  <2> QED  BY <1>8, <2>1, <2>3, <2>4, <2>5
<1> QED  BY <1>9, <1>10

(* Each step keeps the invariant.                                          *)
LEMMA HybridKept == HybridInv /\ [HybridNext]_hybridVars => HybridInv'
<1> SUFFICES ASSUME HybridInv, [HybridNext]_hybridVars PROVE HybridInv'
  OBVIOUS
<1> USE HybridAssumption DEF HybridAssumption
<1>t. /\ adds \in Nat /\ hybrid_time \in Nat /\ hybrid_time > 0
      /\ handled_at \in [Envelopes -> Nat] /\ since \in [Envelopes -> SUBSET Envelopes]
      /\ Cached(message_cache) \subseteq Envelopes
  BY DEF HybridInv, HybridTypeOK
<1>1. ASSUME UNCHANGED <<adds, handled_at, since>>, hybrid_time' \in Nat,
             hybrid_time' >= hybrid_time,
             NEW K \in SUBSET Cached(message_cache),
             Cached(message_cache)' = K,
             \A x \in K : message_cache'[x] = message_cache[x],
             \A x \in Cached(message_cache) \ K : Forgettable(x)
      PROVE  HybridInv'
  <2>1. HybridTypeOK'
    BY <1>1, <1>t DEF HybridTypeOK
  <2>2. ASSUME NEW x \in K PROVE CachedOK(x)'
    <3>1. CachedOK(x)
      BY <1>1 DEF HybridInv
    <3> QED  BY <1>1, <2>2, <3>1 DEF CachedOK
  <2>3. ASSUME NEW x \in Envelopes \ K PROVE GoneOK(x)'
    <3>1. handled_at[x] > 0 => Forgettable(x)
      BY <1>1 DEF HybridInv, GoneOK
    <3>2. IsFiniteSet(since'[x]) /\ since[x] \subseteq since'[x]
      BY <1>1 DEF HybridInv
    <3>3. Forgettable(x) => Forgettable(x)'
      BY <1>1, <3>2, ForgettableLater
    <3> QED  BY <1>1, <3>1, <3>3 DEF GoneOK
  <2>4. \A x \in Envelopes : IsFiniteSet(since'[x])
    BY <1>1 DEF HybridInv
  <2> QED  BY <1>1, <2>1, <2>2, <2>3, <2>4 DEF HybridInv
<1>2. ASSUME UNCHANGED <<message_cache, adds, handled_at, since>>, hybrid_time' \in Nat,
             hybrid_time' >= hybrid_time
      PROVE  HybridInv'
  BY <1>1, <1>2 DEF Cached
<1>3. ASSUME HybridTick PROVE HybridInv'
  BY <1>2, <1>3, <1>t DEF HybridTick
<1>4. ASSUME subscribe_envelopes PROVE HybridInv'
  <2>1. UNCHANGED <<adds, handled_at, since, hybrid_time>>
    BY <1>4 DEF subscribe_envelopes
  <2>2. CASE message_cache' = message_cache
    BY <1>2, <1>t, <2>1, <2>2
  <2>3. CASE message_cache' = cleanup(message_cache)
    <3> DEFINE K == {y \in Cached(message_cache) :
                       message_cache[y].at >= hybrid_time - ttl_seconds}
    <3>1. Cached(message_cache)' = K /\ \A x \in K : message_cache'[x] = message_cache[x]
      BY <2>3 DEF cleanup, Cached
    <3>2. ASSUME NEW x \in Cached(message_cache) \ K PROVE Forgettable(x)
      <4>1. /\ message_cache[x].at = handled_at[x] /\ handled_at[x] \in Nat
            /\ ~(message_cache[x].at >= hybrid_time - ttl_seconds)
        BY <1>t DEF HybridInv, CachedOK
      <4>2. hybrid_time - handled_at[x] > ttl_seconds
        BY <1>t, <4>1
      <4> QED  BY <4>2 DEF Forgettable
    <3>3. K \in SUBSET Cached(message_cache)
      OBVIOUS
    <3>4. hybrid_time' \in Nat /\ hybrid_time' >= hybrid_time
      BY <1>t, <2>1
    <3> HIDE DEF K
    <3> QED  BY <1>1, <2>1, <3>1, <3>2, <3>3, <3>4
  <2> QED  BY <1>4, <2>2, <2>3 DEF subscribe_envelopes
<1>5. ASSUME NEW e \in Envelopes, publish_to_both(e) PROVE HybridInv'
  BY <1>2, <1>5, <1>t DEF publish_to_both
<1>6. ASSUME NEW e \in Envelopes, NEW t \in Transports, deduplicated_handler(e, t)
      PROVE  HybridInv'
  BY <1>6, DeliveryKept
<1>7. CASE UNCHANGED hybridVars
  BY <1>2, <1>7, <1>t DEF hybridVars
<1> QED  BY <1>3, <1>4, <1>5, <1>6, <1>7 DEF HybridNext

(* What is handled again was pushed out, or expired.                       *)
LEMMA HandledAgainForReason ==
    HybridInv => [\A e \in Envelopes :
                    /\ handled_at[e] > 0
                    /\ e \notin Cached(message_cache) /\ e \in Cached(message_cache')
                    => \/ Cardinality(since[e]) >= cache_max_size
                       \/ hybrid_time - handled_at[e] > ttl_seconds]_hybridVars
  BY DEF HybridInv, GoneOK, Forgettable

-----------------------------------------------------------------------------
(* Auctions.  By score, then reputation, then time, then place.            *)
Ahead(s, r, t, i, j) ==
    \/ s[i] > s[j]
    \/ s[i] = s[j] /\ r[i] > r[j]
    \/ /\ s[i] = s[j] /\ r[i] = r[j]
       /\ t[i] < t[j] \/ (t[i] = t[j] /\ i < j)

(* The comparison is transitive.                                           *)
LEMMA AheadTransitive ==
    ASSUME NEW s, NEW r, NEW t, NEW i \in Int, NEW j \in Int, NEW k \in Int,
           s[i] \in Int, s[j] \in Int, s[k] \in Int,
           r[i] \in Int, r[j] \in Int, r[k] \in Int,
           t[i] \in Int, t[j] \in Int, t[k] \in Int,
           Ahead(s, r, t, i, j), Ahead(s, r, t, j, k)
    PROVE  Ahead(s, r, t, i, k)
<1>1. \A s1, s2, s3, r1, r2, r3, t1, t2, t3 \in Int :
        /\ \/ s1 > s2
           \/ s1 = s2 /\ r1 > r2
           \/ s1 = s2 /\ r1 = r2 /\ (t1 < t2 \/ (t1 = t2 /\ i < j))
        /\ \/ s2 > s3
           \/ s2 = s3 /\ r2 > r3
           \/ s2 = s3 /\ r2 = r3 /\ (t2 < t3 \/ (t2 = t3 /\ j < k))
        => \/ s1 > s3
           \/ s1 = s3 /\ r1 > r3
           \/ s1 = s3 /\ r1 = r3 /\ (t1 < t3 \/ (t1 = t3 /\ i < k))
  OBVIOUS
<1> QED  BY <1>1 DEF Ahead

(* Of finitely many bids, one is ahead of all others.                      *)
LEMMA BestExists ==
    ASSUME NEW n \in Nat \ {0}, NEW s \in [1..n -> Int], NEW r \in [1..n -> Int],
           NEW t \in [1..n -> Int]
    PROVE  \E i \in 1..n : \A j \in (1..n) \ {i} : Ahead(s, r, t, i, j)
<1> DEFINE Best(i, k) == \A j \in (1..k) \ {i} : Ahead(s, r, t, i, j)
           bad == {k \in 1..n : ~\E i \in 1..k : Best(i, k)}
<1>1. ASSUME bad # {} PROVE FALSE
  <2>1. PICK m \in bad : \A k \in bad : m <= k
    <3>1. bad \in SUBSET Nat
      OBVIOUS
    <3> HIDE DEF bad
    <3> QED  BY <1>1, <3>1, LeastNumber
  <2>2. m \in 1..n /\ ~\E i \in 1..m : Best(i, m)
    BY <2>1
  <2>3. Best(1, 1) /\ 1 \in 1..1
    OBVIOUS
  <2>4. m # 1
    BY <2>2, <2>3
  <2>5. m - 1 \in 1..n /\ m - 1 \notin bad
    <3>1. m - 1 \in 1..n /\ ~(m <= m - 1)
      BY <2>2, <2>4
    <3>2. m - 1 \notin bad
      <4> HIDE DEF bad
      <4> QED  BY <2>1, <3>1
    <3> QED  BY <3>1, <3>2
  <2>6. PICK i \in 1..(m - 1) : Best(i, m - 1)
    BY <2>5
  <2>7. i \in 1..n /\ i \in 1..m /\ i # m /\ m \in 1..m
    BY <2>2, <2>6
  <2>8. CASE Ahead(s, r, t, i, m)
    <3>1. ASSUME NEW j \in (1..m) \ {i} PROVE Ahead(s, r, t, i, j)
      <4>1. CASE j = m
        BY <2>8, <4>1
      <4>2. CASE j # m
        <5>1. j \in (1..(m - 1)) \ {i}
          BY <2>2, <4>2
        <5> QED  BY <2>6, <5>1
      <4> QED  BY <4>1, <4>2
    <3> QED  BY <2>2, <2>7, <3>1
  <2>9. CASE ~Ahead(s, r, t, i, m)
    <3>1. /\ s[i] \in Int /\ r[i] \in Int /\ t[i] \in Int
          /\ s[m] \in Int /\ r[m] \in Int /\ t[m] \in Int
      BY <2>2, <2>7
    <3>2. Ahead(s, r, t, m, i)
      BY <2>2, <2>7, <2>9, <3>1 DEF Ahead
    <3>3. ASSUME NEW j \in (1..m) \ {m} PROVE Ahead(s, r, t, m, j)
      <4>1. CASE j = i
        BY <3>2, <4>1
      <4>2. CASE j # i
        <5>1. j \in (1..(m - 1)) \ {i} /\ j \in 1..n
          BY <2>2, <4>2
        <5>2. Ahead(s, r, t, i, j)
          BY <2>6, <5>1
        <5>3. s[j] \in Int /\ r[j] \in Int /\ t[j] \in Int
          BY <5>1
        <5>4. m \in Int /\ i \in Int /\ j \in Int
          BY <2>2, <2>7, <5>1
        <5> QED  BY <3>1, <3>2, <5>2, <5>3, <5>4, AheadTransitive
      <4> QED  BY <4>1, <4>2
    <3> QED  BY <2>2, <2>7, <3>3
  <2> QED  BY <2>8, <2>9
<1>2. n \in 1..n
  OBVIOUS
<1>3. n \notin bad
  BY <1>1
<1> QED  BY <1>2, <1>3

(* A bid as an auction keeps it: within the budget, and for a task that    *)
(* takes at most a week.                                                   *)
Bid(budget) == [agent_id : DOMAIN Submitters, cost : 2..budget, eta : 0..max_eta,
                reputation : 0..10, capabilities : Nat, timestamp : Nat]

(* The numbers of a bid.                                                   *)
LEMMA BidTyped ==
    ASSUME NEW B \in Nat, NEW b \in Bid(B)
    PROVE  /\ b.cost \in Int /\ 2 <= b.cost /\ b.cost <= B
           /\ b.eta \in Int /\ b.eta <= 1680
           /\ b.reputation \in Int /\ b.timestamp \in Int /\ b.capabilities \in Int
  BY DEF Bid, max_eta

(* select_winner counts ten capabilities at most.                          *)
CapsCounted(b) == IF b.capabilities <= 10 THEN b.capabilities ELSE 10

(* The score, once the budget is known to be positive.                     *)
LEMMA ScoreOf ==
    ASSUME NEW B \in Nat, B > 0, NEW b \in Bid(B)
    PROVE  score_bid(b, B) =
             40 * (B - b.cost) * 1680 * 10 + 30 * (1680 - b.eta) * B * 10
               + 20 * b.reputation * B * 1680
               + 10 * CapsCounted(b) * B * 1680
<1>1. /\ b.cost \in Int /\ b.eta \in Int /\ b.capabilities \in Int /\ b.cost <= B
      /\ b.eta <= 1680
  BY DEF Bid, max_eta
<1>2. Min({b.cost, B}) = b.cost
  <2>1. PICK x \in Int, y \in Int : x = b.cost /\ y = B
    BY <1>1
  <2>2. Min({x, y}) = IF x <= y THEN x ELSE y
    BY MinOfTwo
  <2> QED  BY <1>1, <2>1, <2>2
<1>3. Min({b.eta, max_eta}) = b.eta
  <2>1. PICK x \in Int, y \in Int : x = b.eta /\ y = max_eta
    BY <1>1 DEF max_eta
  <2>2. Min({x, y}) = IF x <= y THEN x ELSE y
    BY MinOfTwo
  <2> QED  BY <1>1, <2>1, <2>2 DEF max_eta
<1>4. Min({b.capabilities, 10}) = CapsCounted(b)
  <2>1. PICK x \in Int, y \in Int : x = b.capabilities /\ y = 10
    BY <1>1
  <2>2. Min({x, y}) = IF x <= y THEN x ELSE y
    BY MinOfTwo
  <2> QED  BY <2>1, <2>2 DEF CapsCounted
<1>5. Max({B, 1}) = B
  <2>1. PICK x \in Int, y \in Int : x = B /\ y = 1
    OBVIOUS
  <2>2. Max({x, y}) = IF x >= y THEN x ELSE y
    BY MaxOfTwo
  <2> QED  BY <2>1, <2>2
<1> QED  BY <1>2, <1>3, <1>4, <1>5 DEF score_bid, max_eta

(* More of a factor is more of the product.                                *)
LEMMA ProductGrows ==
    ASSUME NEW x \in Int, NEW y \in Int, NEW B \in Nat, B > 0
    PROVE  (x <= y => x * B <= y * B) /\ (x < y => x * B < y * B) /\ x * B \in Int
  OBVIOUS

(* A bid that is no worse in anything, and cheaper or faster, scores more. *)
LEMMA DominantScoresMore ==
    ASSUME NEW B \in Nat, NEW b \in Bid(B), NEW w \in Bid(B),
           b.cost <= w.cost, b.eta <= w.eta, b.reputation >= w.reputation,
           b.capabilities >= w.capabilities, b.cost < w.cost \/ b.eta < w.eta
    PROVE  score_bid(b, B) > score_bid(w, B)
<1>0. B > 0
  <2>1. b.cost \in Int /\ 2 <= b.cost /\ b.cost <= B
    BY DEF Bid
  <2> QED  BY <2>1
<1>1. /\ b.cost \in Int /\ w.cost \in Int
      /\ b.eta \in Int /\ w.eta \in Int
      /\ b.reputation \in Int /\ w.reputation \in Int
      /\ b.capabilities \in Int /\ w.capabilities \in Int
  BY DEF Bid
<1>2. CapsCounted(b) \in Int /\ CapsCounted(w) \in Int /\ CapsCounted(w) <= CapsCounted(b)
  BY <1>1 DEF CapsCounted
<1>3a. PICK eb \in Int, ew \in Int :
         eb = 1680 - b.eta /\ ew = 1680 - w.eta /\ ew <= eb /\ (b.cost < w.cost \/ ew < eb)
  BY <1>1, SMT
<1>3b. PICK rb \in Int, rw \in Int : rb = b.reputation /\ rw = w.reputation /\ rw <= rb
  BY <1>1, SMT
<1>3c. PICK cb \in Int, cw \in Int : cb = CapsCounted(b) /\ cw = CapsCounted(w) /\ cw <= cb
  BY <1>2, Zenon
<1>3. /\ eb = 1680 - b.eta /\ ew = 1680 - w.eta
      /\ rb = b.reputation /\ rw = w.reputation
      /\ cb = CapsCounted(b) /\ cw = CapsCounted(w)
      /\ ew <= eb /\ rw <= rb /\ cw <= cb
      /\ b.cost < w.cost \/ ew < eb
  BY <1>3a, <1>3b, <1>3c
<1>4. /\ eb * B \in Int /\ ew * B \in Int
      /\ ew * B <= eb * B /\ (ew < eb => ew * B < eb * B)
  BY <1>0, <1>3, ProductGrows
<1>5. rb * B \in Int /\ rw * B \in Int /\ rw * B <= rb * B
  BY <1>0, <1>3, ProductGrows
<1>6. cb * B \in Int /\ cw * B \in Int /\ cw * B <= cb * B
  BY <1>0, <1>3, ProductGrows
<1>x. PICK x \in Int, y \in Int, u \in Int, v \in Int, p \in Int, q \in Int :
        /\ x = eb * B /\ y = ew * B /\ u = rb * B /\ v = rw * B /\ p = cb * B /\ q = cw * B
        /\ y <= x /\ (ew < eb => y < x) /\ v <= u /\ q <= p
  BY <1>4, <1>5, <1>6, Zenon
<1>c. PICK c \in Int, d \in Int : c = B - b.cost /\ d = B - w.cost /\ d <= c
                                /\ (b.cost < w.cost => d < c)
  BY <1>1
<1>7. score_bid(b, B) = 40 * c * 1680 * 10 + 30 * eb * B * 10
                          + 20 * rb * B * 1680 + 10 * cb * B * 1680
  BY <1>0, <1>3, <1>c, ScoreOf, SMT
<1>8. score_bid(w, B) = 40 * d * 1680 * 10 + 30 * ew * B * 10
                          + 20 * rw * B * 1680 + 10 * cw * B * 1680
  BY <1>0, <1>3, <1>c, ScoreOf, SMT
<1>9. /\ 30 * eb * B = 30 * (eb * B) /\ 20 * rb * B = 20 * (rb * B) /\ 10 * cb * B = 10 * (cb * B)
      /\ 30 * ew * B = 30 * (ew * B) /\ 20 * rw * B = 20 * (rw * B) /\ 10 * cw * B = 10 * (cw * B)
  BY SMT
<1>10. score_bid(b, B) = 40 * c * 1680 * 10 + 30 * x * 10 + 20 * u * 1680 + 10 * p * 1680
  BY <1>7, <1>9, <1>x, SMT
<1>11. score_bid(w, B) = 40 * d * 1680 * 10 + 30 * y * 10 + 20 * v * 1680 + 10 * q * 1680
  BY <1>8, <1>9, <1>x, SMT
<1>12. d < c \/ y < x
  BY <1>3, <1>c, <1>x
<1> QED  BY <1>10, <1>11, <1>12, <1>c, <1>x, SMT

(* A score is a number.                                                    *)
LEMMA ScoreTyped ==
    ASSUME NEW B \in Nat, NEW b \in Bid(B)
    PROVE  score_bid(b, B) \in Int
<1>1. /\ b.cost \in Int /\ 2 <= b.cost /\ b.cost <= B /\ b.eta \in Int
      /\ b.reputation \in Int /\ b.capabilities \in Int
  BY BidTyped
<1>2. B > 0
  BY <1>1
<1>3. CapsCounted(b) \in Int
  BY <1>1 DEF CapsCounted
<1>4. PICK x \in Int, y \in Int, u \in Int, v \in Int :
        x = b.cost /\ y = b.eta /\ u = b.reputation /\ v = CapsCounted(b)
  BY <1>1, <1>3, Zenon
<1>5. 40 * (B - x) * 1680 * 10 + 30 * (1680 - y) * B * 10
        + 20 * u * B * 1680 + 10 * v * B * 1680 \in Int
  BY SMT
<1> QED  BY <1>2, <1>4, <1>5, ScoreOf, SMT

(* Scores and bids are numbers: one bid is the best.                       *)
Score(bs, B, i) == score_bid(bs[i], B)

Better(bs, B, i, j) ==
    \/ Score(bs, B, i) > Score(bs, B, j)
    \/ Score(bs, B, i) = Score(bs, B, j) /\ bs[i].reputation > bs[j].reputation
    \/ /\ Score(bs, B, i) = Score(bs, B, j) /\ bs[i].reputation = bs[j].reputation
       /\ bs[i].timestamp < bs[j].timestamp
            \/ (bs[i].timestamp = bs[j].timestamp /\ i < j)

(* select_winner is ahead of every other bid.                              *)
LEMMA WinnerIsBest ==
    ASSUME NEW B \in Nat, NEW bs \in Seq(Bid(B)), bs # <<>>
    PROVE  \E k \in DOMAIN bs : /\ select_winner(bs, B) = bs[k]
                                 /\ \A j \in DOMAIN bs \ {k} : Better(bs, B, k, j)
<1> DEFINE n == Len(bs)
<1>1. n \in Nat \ {0} /\ DOMAIN bs = 1..n /\ \A i \in 1..n : bs[i] \in Bid(B)
  OBVIOUS
<1> HIDE DEF n
<1>2. ASSUME NEW i \in 1..n
      PROVE  Score(bs, B, i) \in Int /\ bs[i].reputation \in Int /\ bs[i].timestamp \in Int
  <2>1. PICK b \in Bid(B) : b = bs[i]
    BY <1>1
  <2> QED  BY <2>1, BidTyped, ScoreTyped DEF Score
<1>3. PICK s \in [1..n -> Int], r \in [1..n -> Int], t \in [1..n -> Int] :
        \A i \in 1..n : s[i] = Score(bs, B, i) /\ r[i] = bs[i].reputation
                        /\ t[i] = bs[i].timestamp
  <2> DEFINE s0 == [i \in 1..n |-> Score(bs, B, i)]
             r0 == [i \in 1..n |-> bs[i].reputation]
             t0 == [i \in 1..n |-> bs[i].timestamp]
  <2>1. s0 \in [1..n -> Int] /\ r0 \in [1..n -> Int] /\ t0 \in [1..n -> Int]
    BY <1>2
  <2> QED  BY <2>1
<1>4. PICK i \in 1..n : \A j \in (1..n) \ {i} : Ahead(s, r, t, i, j)
  BY <1>1, <1>3, BestExists
<1>5. \A j \in DOMAIN bs \ {i} : Better(bs, B, i, j)
  BY <1>1, <1>3, <1>4 DEF Ahead, Better
<1> DEFINE k == CHOOSE i0 \in DOMAIN bs : \A j \in DOMAIN bs \ {i0} : Better(bs, B, i0, j)
<1>6. k \in DOMAIN bs /\ \A j \in DOMAIN bs \ {k} : Better(bs, B, k, j)
  BY <1>1, <1>5, Zenon
<1>7. select_winner(bs, B) = bs[k]
  BY Zenon DEF select_winner, Better, Score
<1> QED  BY <1>6, <1>7, Zenon

-----------------------------------------------------------------------------
(* What an auction and the winners it had always are.                      *)
AuctionRow(a) ==
    /\ a = [status |-> a.status, budget |-> a.budget, start_time |-> a.start_time,
            bids |-> a.bids, extensions |-> a.extensions]
    /\ a.status \in {"absent", "open", "closed", "timeout"}
    /\ a.budget \in Nat /\ a.bids \in Seq(Bid(a.budget))

WonFrom(W, a) ==
    \/ W = {}
    \/ /\ a.status \in {"closed", "timeout"} /\ a.bids # <<>>
       /\ W = {select_winner(a.bids, a.budget)}

AuctionInv ==
    /\ time_ns \in Nat
    /\ auctions = [n \in AuctionNeeds |-> auctions[n]] /\ won = [n \in AuctionNeeds |-> won[n]]
    /\ \A n \in AuctionNeeds : AuctionRow(auctions[n]) /\ WonFrom(won[n], auctions[n])

(* A task takes a week at most: what the score of a bid can tell apart.    *)
WithinMaxEta == \A p \in Payloads : 10 * p.complexity <= max_eta

(* No auction was started.                                                 *)
LEMMA AuctionInitially == AuctionInit => AuctionInv
<1> SUFFICES ASSUME AuctionInit PROVE AuctionInv
  OBVIOUS
<1>1. ASSUME NEW n \in AuctionNeeds
      PROVE  AuctionRow(auctions[n]) /\ WonFrom(won[n], auctions[n])
  <2>1. /\ auctions[n] = [status |-> "absent", budget |-> 0, start_time |-> 0,
                          bids |-> <<>>, extensions |-> 0]
        /\ won[n] = {}
    BY DEF AuctionInit
  <2>2. <<>> \in Seq(Bid(0))
    OBVIOUS
  <2> QED  BY <2>1, <2>2 DEF AuctionRow, WonFrom
<1> QED  BY <1>1 DEF AuctionInit, AuctionInv

(* What BidSubmitter prepares, once accepted, is a bid of the auction.     *)
LEMMA BidPrepared ==
    ASSUME NEW B \in Nat, NEW ag \in DOMAIN Submitters, NEW p \in Payloads, WithinMaxEta,
           create_bid(ag, p).cost <= B, time_ns \in Nat
    PROVE  BidRecord(create_bid(ag, p)) \in Bid(B)
<1> DEFINE caps == Submitters[ag].capabilities
           m == Cardinality(caps \cap p.requires)
<1>1. caps \cap p.requires \subseteq caps /\ IsFiniteSet(caps)
  BY AuctionAssumption DEF AuctionAssumption
<1>2. IsFiniteSet(caps \cap p.requires)
  BY <1>1, FS_Subset, Zenon
<1>3. m \in Nat /\ Cardinality(caps) \in Nat
  BY <1>1, <1>2, FS_CardinalityType, Zenon
<1>4. p.complexity \in Nat /\ 10 * p.complexity <= 1680
  BY AuctionAssumption DEF AuctionAssumption, WithinMaxEta, max_eta
<1>5. Submitters[ag].reputation \in 0..10
  BY AuctionAssumption DEF AuctionAssumption
<1>6. estimate_cost(p, caps) \in Int /\ 2 <= estimate_cost(p, caps)
  <2>1. PICK x \in Int, y \in Int : x = 10 * p.complexity - m /\ y = 2
    BY <1>3, <1>4
  <2>2. Max({x, y}) = IF x >= y THEN x ELSE y
    BY MaxOfTwo
  <2>3. estimate_cost(p, caps) = Max({x, y})
    BY <2>1, Zenon DEF estimate_cost
  <2> QED  BY <2>1, <2>2, <2>3
<1>7. estimate_eta(p, caps) \in 0..1680
  <2>1. PICK x \in Nat, y \in Nat : x = m /\ y = 5
    BY <1>3
  <2>2. Min({x, y}) = IF x <= y THEN x ELSE y
    BY MinOfTwo
  <2>3. PICK d \in 5..10 : d = 10 - Min({x, y})
    BY <2>1, <2>2
  <2>4. estimate_eta(p, caps) = p.complexity * d
    BY <2>1, <2>3, Zenon DEF estimate_eta
  <2>5. PICK c \in Nat : c = p.complexity /\ 10 * c <= 1680
    BY <1>4
  <2>6. c * d \in 0..1680
    BY <2>3, <2>5, SMT
  <2> QED  BY <2>4, <2>5, <2>6
<1>8. create_bid(ag, p).cost = estimate_cost(p, caps)
  BY DEF create_bid
<1>9. estimate_cost(p, caps) \in 2..B /\ estimate_eta(p, caps) \in 0..max_eta
  BY <1>6, <1>7, <1>8 DEF max_eta
<1>10. PICK e \in 2..B, f \in 0..max_eta, g \in 0..10, h \in Nat :
         /\ e = estimate_cost(p, caps) /\ f = estimate_eta(p, caps)
         /\ g = Submitters[ag].reputation /\ h = Cardinality(caps)
  BY <1>3, <1>5, <1>9, Zenon
<1>11. BidRecord(create_bid(ag, p)) = [agent_id |-> ag, cost |-> e, eta |-> f, reputation |-> g,
                                       capabilities |-> h, timestamp |-> time_ns]
  BY <1>10 DEF BidRecord, create_bid
<1> QED  BY <1>11 DEF Bid

(* An accepted bid comes last.                                             *)
LEMMA BidTaken ==
    ASSUME NEW a, AuctionRow(a), NEW bid, BidRecord(bid) \in Bid(a.budget)
    PROVE  AuctionRow(WithBid(a, bid)) /\ WithBid(a, bid).status = a.status
<1>1. PICK st, ex : WithBid(a, bid) = [status |-> a.status, budget |-> a.budget,
        start_time |-> st, bids |-> Append(a.bids, BidRecord(bid)), extensions |-> ex]
  <2>1. PICK x, y, z, q, e : a = [status |-> x, budget |-> y, start_time |-> z, bids |-> q,
                                  extensions |-> e]
    BY Zenon DEF AuctionRow
  <2>2. a.status = x /\ a.budget = y /\ a.start_time = z /\ a.bids = q /\ a.extensions = e
    BY <2>1
  <2>3. PICK st, ex, r : /\ st = IF Late(a) THEN a.start_time - 1 ELSE a.start_time
                         /\ ex = IF Late(a) THEN a.extensions + 1 ELSE a.extensions
                         /\ r = BidRecord(bid)
    OBVIOUS
  <2>4. WithBid(a, bid) =
          [a EXCEPT !.bids = Append(a.bids, r), !.start_time = st, !.extensions = ex]
    BY <2>3, Zenon DEF WithBid
  <2>5. WithBid(a, bid) = [status |-> x, budget |-> y, start_time |-> st, bids |-> Append(q, r),
                           extensions |-> ex]
    BY <2>1, <2>2, <2>4
  <2> QED  BY <2>2, <2>3, <2>5
<1>2. Append(a.bids, BidRecord(bid)) \in Seq(Bid(a.budget))
  <2>1. PICK S : S = Bid(a.budget)
    OBVIOUS
  <2>2. a.bids \in Seq(S) /\ BidRecord(bid) \in S
    BY <2>1 DEF AuctionRow
  <2>3. Append(a.bids, BidRecord(bid)) \in Seq(S)
    BY <2>2
  <2> QED  BY <2>1, <2>3
<1>3. /\ WithBid(a, bid).status = a.status /\ WithBid(a, bid).budget = a.budget
      /\ WithBid(a, bid).bids = Append(a.bids, BidRecord(bid))
      /\ WithBid(a, bid).start_time = st /\ WithBid(a, bid).extensions = ex
  BY <1>1
<1> QED  BY <1>1, <1>2, <1>3 DEF AuctionRow

(* A step of an auction keeps AuctionInv.                                  *)
LEMMA AuctionKept ==
    ASSUME WithinMaxEta, AuctionInv, [AuctionNext]_auctionVars
    PROVE  AuctionInv'
<1>t. time_ns \in Nat
  BY DEF AuctionInv
<1>o. ASSUME NEW n \in AuctionNeeds, NEW a, NEW W, AuctionRow(a), WonFrom(W, a),
             auctions' = [auctions EXCEPT ![n] = a], won' = [won EXCEPT ![n] = W],
             time_ns' = time_ns
      PROVE  AuctionInv'
  <2>1. ASSUME NEW k \in AuctionNeeds
        PROVE  AuctionRow(auctions'[k]) /\ WonFrom(won'[k], auctions'[k])
    <3>1. CASE k = n
      <4>1. auctions'[k] = a /\ won'[k] = W
        BY <1>o, <3>1 DEF AuctionInv
      <4> QED  BY <1>o, <4>1, Zenon
    <3>2. CASE k # n
      <4>1. auctions'[k] = auctions[k] /\ won'[k] = won[k]
        BY <1>o, <3>2 DEF AuctionInv
      <4> QED  BY <4>1, Zenon DEF AuctionInv
    <3> QED  BY <3>1, <3>2
  <2>2. /\ auctions' = [k \in AuctionNeeds |-> auctions'[k]]
        /\ won' = [k \in AuctionNeeds |-> won'[k]]
    BY <1>o DEF AuctionInv
  <2>3. ASSUME NEW k \in AuctionNeeds
        PROVE  (AuctionRow(auctions[k]) /\ WonFrom(won[k], auctions[k]))'
    BY <2>1 DEF AuctionRow, WonFrom
  <2> QED  BY <1>o, <1>t, <2>2, <2>3 DEF AuctionInv
<1>r. ASSUME NEW n \in AuctionNeeds
      PROVE  /\ AuctionRow(auctions[n]) /\ WonFrom(won[n], auctions[n])
             /\ won = [won EXCEPT ![n] = won[n]]
  BY DEF AuctionInv
<1>1. CASE AuctionTick
  <2>1. auctions' = auctions /\ won' = won /\ time_ns' \in Nat
    BY <1>1, <1>t DEF AuctionTick
  <2> QED  BY <2>1 DEF AuctionInv, AuctionRow, WonFrom
<1>2. ASSUME NEW n \in AuctionNeeds, NEW b \in Budgets, start_auction(n, b) PROVE AuctionInv'
  <2> DEFINE a == [status |-> "open", budget |-> b, start_time |-> time_ns, bids |-> <<>>,
                   extensions |-> 0]
  <2>1. b \in Nat /\ <<>> \in Seq(Bid(b))
    BY AuctionAssumption DEF AuctionAssumption
  <2>2. AuctionRow(a) /\ WonFrom({}, a)
    BY <2>1 DEF AuctionRow, WonFrom
  <2>3. /\ auctions' = [auctions EXCEPT ![n] = a] /\ won' = [won EXCEPT ![n] = {}]
        /\ time_ns' = time_ns
    BY <1>2 DEF start_auction
  <2> HIDE DEF a
  <2> QED  BY <1>o, <2>2, <2>3
<1>3. ASSUME NEW n \in AuctionNeeds, NEW ag \in DOMAIN Submitters, NEW p \in Payloads,
             take_bid(n, create_bid(ag, p))
      PROVE  AuctionInv'
  <2> DEFINE a == WithBid(auctions[n], create_bid(ag, p))
  <2>1. /\ auctions[n].status = "open" /\ create_bid(ag, p).cost <= auctions[n].budget
        /\ auctions' = [auctions EXCEPT ![n] = a] /\ won' = won /\ time_ns' = time_ns
    BY <1>3 DEF take_bid
  <2>2. won[n] = {}
    BY <1>r, <2>1 DEF WonFrom
  <2>3. auctions[n].budget \in Nat
    BY <1>r DEF AuctionRow
  <2>4. BidRecord(create_bid(ag, p)) \in Bid(auctions[n].budget)
    BY <1>t, <2>1, <2>3, BidPrepared
  <2>5. AuctionRow(a)
    BY <1>r, <2>4, BidTaken
  <2>6. won' = [won EXCEPT ![n] = {}] /\ WonFrom({}, a)
    BY <1>r, <2>1, <2>2, Zenon DEF WonFrom
  <2> HIDE DEF a
  <2> QED  BY <1>o, <2>1, <2>5, <2>6
<1>c. ASSUME NEW n \in AuctionNeeds, NEW st \in {"closed", "timeout"}, NEW a,
             a = [auctions[n] EXCEPT !.status = st]
      PROVE  /\ AuctionRow(a) /\ a.status = st /\ a.budget = auctions[n].budget
             /\ a.bids = auctions[n].bids
  <2>1. a = [status |-> st, budget |-> auctions[n].budget, start_time |-> auctions[n].start_time,
             bids |-> auctions[n].bids, extensions |-> auctions[n].extensions]
    <3>r. PICK old : old = auctions[n] /\ AuctionRow(old)
      BY <1>r
    <3>1. PICK x, y, z, q, e :
            old = [status |-> x, budget |-> y, start_time |-> z, bids |-> q, extensions |-> e]
      BY <3>r, Zenon DEF AuctionRow
    <3> QED  BY <1>c, <3>r, <3>1
  <2>2. /\ a.status = st /\ a.budget = auctions[n].budget /\ a.bids = auctions[n].bids
        /\ a.start_time = auctions[n].start_time /\ a.extensions = auctions[n].extensions
    BY <2>1
  <2>3. auctions[n].budget \in Nat /\ auctions[n].bids \in Seq(Bid(auctions[n].budget))
    BY <1>r DEF AuctionRow
  <2> QED  BY <2>1, <2>2, <2>3 DEF AuctionRow
<1>4. ASSUME NEW n \in AuctionNeeds, close_auction(n) PROVE AuctionInv'
  <2> DEFINE W == IF auctions[n].bids = <<>> THEN won[n]
                  ELSE won[n] \cup {select_winner(auctions[n].bids, auctions[n].budget)}
  <2>1. PICK a : a = [auctions[n] EXCEPT !.status = "closed"]
    OBVIOUS
  <2>2. AuctionRow(a) /\ a.status = "closed" /\ a.budget = auctions[n].budget
        /\ a.bids = auctions[n].bids
    BY <1>c, <2>1
  <2>3. /\ auctions' = [auctions EXCEPT ![n] = a] /\ won' = [won EXCEPT ![n] = W]
        /\ time_ns' = time_ns
    BY <1>4, <2>1 DEF close_auction
  <2>4. WonFrom(W, a)
    BY <1>r, <2>2 DEF WonFrom
  <2> HIDE DEF W
  <2> QED  BY <1>o, <2>2, <2>3, <2>4
<1>5. ASSUME NEW n \in AuctionNeeds, timeout_auction(n) PROVE AuctionInv'
  <2>1. PICK a : a = [auctions[n] EXCEPT !.status = "timeout"]
    OBVIOUS
  <2>2. AuctionRow(a) /\ a.status = "timeout" /\ a.budget = auctions[n].budget
        /\ a.bids = auctions[n].bids
    BY <1>c, <2>1
  <2>3. /\ auctions' = [auctions EXCEPT ![n] = a] /\ won' = [won EXCEPT ![n] = won[n]]
        /\ time_ns' = time_ns
    BY <1>5, <1>r, <2>1 DEF timeout_auction
  <2>4. WonFrom(won[n], a)
    BY <1>r, <2>2 DEF WonFrom
  <2> QED  BY <1>o, <2>2, <2>3, <2>4
<1>6. CASE UNCHANGED auctionVars
  BY <1>6 DEF auctionVars, AuctionInv, AuctionRow, WonFrom
<1> QED  BY <1>1, <1>2, <1>3, <1>4, <1>5, <1>6 DEF AuctionNext

(* The winner of an auction is its only one, and no bid beats it.          *)
LEMMA AuctionInvSuffices == AuctionInv => OneBestWinner
<1> SUFFICES ASSUME AuctionInv, NEW n \in AuctionNeeds
             PROVE  /\ Cardinality(won[n]) <= 1
                    /\ \A w \in won[n] : \A i \in DOMAIN auctions[n].bids :
                         LET b == auctions[n].bids[i]
                         IN  ~(/\ b.cost <= w.cost /\ b.eta <= w.eta
                               /\ b.reputation >= w.reputation
                               /\ b.capabilities >= w.capabilities
                               /\ b.cost < w.cost \/ b.eta < w.eta)
  BY DEF OneBestWinner
<1>1. CASE won[n] = {}
  BY <1>1, FS_EmptySet
<1>2. CASE won[n] # {}
  <2>1. PICK B, bs :
          /\ B \in Nat /\ bs \in Seq(Bid(B)) /\ auctions[n].bids = bs /\ bs # <<>>
          /\ won[n] = {select_winner(bs, B)}
    BY <1>2, Zenon DEF AuctionInv, AuctionRow, WonFrom
  <2>2. Cardinality(won[n]) = 1
    BY <2>1, FS_Singleton, Zenon
  <2>3. PICK k \in DOMAIN bs : /\ select_winner(bs, B) = bs[k]
                               /\ \A j \in DOMAIN bs \ {k} : Better(bs, B, k, j)
    BY <2>1, WinnerIsBest
  <2>4. ASSUME NEW i \in DOMAIN bs, NEW b, NEW w, b = bs[i], w = bs[k],
               b.cost <= w.cost, b.eta <= w.eta, b.reputation >= w.reputation,
               b.capabilities >= w.capabilities, b.cost < w.cost \/ b.eta < w.eta
        PROVE  FALSE
    <3>1. b \in Bid(B) /\ w \in Bid(B)
      BY <2>1, <2>3, <2>4
    <3>2. score_bid(b, B) > score_bid(w, B)
      BY <2>1, <2>4, <3>1, DominantScoresMore
    <3>3. score_bid(b, B) \in Int /\ score_bid(w, B) \in Int
      BY <2>1, <3>1, ScoreTyped
    <3>4. i # k
      BY <2>4, <3>2, <3>3
    <3>5. Better(bs, B, k, i)
      BY <2>3, <3>4
    <3> QED  BY <2>4, <3>2, <3>3, <3>5 DEF Better, Score
  <2> QED  BY <2>1, <2>2, <2>3, <2>4
<1> QED  BY <1>1, <1>2

-----------------------------------------------------------------------------
(* For any limits, peers and requests, however time, blocks, evictions and *)
(* heartbeats interleave, the rate limiter, the pool of peers and the      *)
(* meshes keep their limits (circuit_breaker.py 301-405,                   *)
(* connection_pool.py 82-243, gossipsub.py 118-174, 250-333).              *)
THEOREM LimitsAlwaysHold == Spec => []LimitsHold
<1>1. Init => LimiterInv /\ PoolInv /\ GossipInv
  BY LimiterInitially, PoolInitially, GossipInitially DEF Init
<1>2. LimiterInv /\ PoolInv /\ GossipInv /\ [Next]_vars => LimiterInv' /\ PoolInv' /\ GossipInv'
  BY LimiterKept, PoolKept, GossipKept, ServicesApart
<1>3. LimiterInv /\ PoolInv /\ GossipInv => LimitsHold
  BY LimiterInvSuffices, PoolInvSuffices, GossipInvSuffices DEF LimitsHold
<1> QED  BY <1>1, <1>2, <1>3, PTL DEF Spec

(* For any size and time to live of the caches, and any messages in any    *)
(* order, a subscriber of the hybrid bus or of the gossip router meets a   *)
(* message again only when the memory of what was seen had to forget it    *)
(* (hybrid_bus.py 40-79, 190-231, gossipsub.py 212-235, 326-333).          *)
THEOREM AlwaysDeliveredOnce == Spec => DeliveredOnce
<1>1. Init => HybridInv /\ GossipInv
  BY HybridInitially, GossipInitially DEF Init
<1>2. HybridInv /\ GossipInv /\ [Next]_vars => HybridInv' /\ GossipInv'
  BY HybridKept, GossipKept, ServicesApart
<1> QED  BY <1>1, <1>2, HandledAgainForReason, ForgottenIsOld, PTL
         DEF Spec, DeliveredOnce, HandledOnce, GossipedOnce

(* For any bidders and budgets, and tasks of a week at most, which is what *)
(* the score can tell apart: however often an auction is closed, timed out *)
(* or extended, it has one winner, and no bid was better than it           *)
(* (bidding.py 68-206, selection.py 25-125).                               *)
THEOREM BestAlwaysWins == ASSUME WithinMaxEta PROVE Spec => []OneBestWinner
<1>1. Init => AuctionInv
  BY AuctionInitially DEF Init
<1>2. AuctionInv /\ [Next]_vars => AuctionInv'
  BY AuctionKept, ServicesApart
<1> QED  BY <1>1, <1>2, AuctionInvSuffices, PTL DEF Spec
=============================================================================
