# Verification of agent-network

TLA+ modules that model the coordination core of agent-network (the Python
package under `src/`), TLC configurations that check them on small instances,
and TLAPS proofs of the results that matter most for every instance. Module,
action and field names follow the source; `PROJECT.json` maps every definition
to the lines it models.

## 1. The system: inventory

| Component | State it keeps | Operations | Talks to | What is hard |
|---|---|---|---|---|
| Bus (`bus.py`, `lamport.py`) | JetStream stream, connection pool and its lock, Lamport file | publish, subscribe (fetch, validate, gate, handle, ack), tick, observe | verb handlers | at-least-once delivery, a handler that raises ends the runner, pool at its limit, lamports lost in a crash |
| Hybrid bus (`hybrid_bus.py`) | cache of message ids | publish over two transports, deduplicate | bus, P2P | bounded size and age of the cache |
| Verb handlers (`handlers/`) | `_lease_registry`, `_ballot_registry` in memory | one per verb | plan store, consensus, leases, ledger | several awaits per handler, replays, state inferred from another table |
| Plan store (`plan_store.py`) | op log, `tasks`, `edges` in SQLite | `append_op`, `annotate_task` | handlers | order and ties of lamports, monotonicity |
| Consensus (`consensus/`) | etcd keys, quorum tracker, epoch (memory and SQLite) | `try_decide`, `record_attestation`, `advance_epoch` | ATTEST_PLAN, DECIDE, RECONCILE | races between nodes and verbs, retries, crashes, fencing, a pool that changes during a vote |
| Partition detection and merge (`monitoring/partition_detector.py`, `consensus/merge.py`) | last heartbeats, decisions per side | detect, heal, compare, reconcile | consensus | both sides must name the same winner |
| Leases (`leases/`, `daemons/lease_monitor.py`) | `leases` table, expectation dict, monitor thread | create, renew, heartbeat, delete, scavenge, monitor pass | HEARTBEAT handler, bus (RELEASE) | threads over two tables, check-then-act, stop that times out |
| Economy (`economics/`) | accounts, escrows, unbonding, bounties, supply | ledger, stake, slash, bounty and payout operations | challenges | one column for two purposes, a read outside the lock, a lock taken twice |
| Challenges (`challenges/`, `handlers/challenge.py`, `invalidate.py`, `agents/challenge_verifier.py`) | windows, queue, bonds, counters of the abuse detector | open, extend, challenge, queue, verify, escalate, settle, invalidate | ledger, slashing, payouts | two agents over one queue, a sliding hour, restarts, a lock taken twice |
| Auctions (`auction/`) | open auctions, bids | start, bid, close, time out, select | NEED | late bids, closing twice |
| Sharding (`sharding/`) | commitments, dependency graph, artifact escrow | commit, finalize, cascade, escrow, expire | COMMIT, FINALIZE | duplicate completions, nested cascades, expiry |
| Checkpoints and pruning (`checkpoint/`) | checkpoint files and cache, hot and cold tier, index | create, prove, load, delete, fast sync, prune | plan store | crashes between writes, odd Merkle levels |
| Plan CRDT, patches, versions (`plan/`) | documents, merged patches, snapshots | append, merge, sync, patch, record version, diff | UPDATE_PLAN | order of merges, ties, concurrent patches |
| P2P (`p2p/`) | peers, meshes, fanouts, seen messages, scores, blacklist | subscribe, publish, receive, heartbeat, connect, evict, rate | hybrid bus | memory that forgets, peers that leave, a full pool |
| Marketplace (`marketplace/`) | tasks and bids, manifests and index, proposals and votes, channels, circuit breaker, rate limiter | post, bid, accept, register, propose, vote, execute, pay, call | – | partial commits, duplicates, half-open circuits, sliding windows |
| Policy, routing, identity, CAS, sandbox, observability | rules, scores, keys, files, metrics | many, independent | – | arithmetic, cryptography and I/O |

What makes each modelled component correct:

* leases: nobody loses a lease that is not overdue, or twice, and an abandoned task always comes back;
* consensus: at most one proposal per need, and no plan ever records another; a
  quorum decision has the votes it needs; an old epoch cannot write; partitions that
  heal agree on the winner;
* plan store and handlers: the task table is a function of the log, replays do no
  harm, one worker works on a task, nothing is forgotten;
* sharding: nothing is final before what it depends on, a cascade leaves nobody behind,
  a shard is ready exactly when nothing blocks it, and no escrow waits for ever;
* economy: credits are neither created nor lost track of, and what is promised
  (escrows, unbonding) can be paid;
* challenges: limits hold, a verdict stands, and every challenge that can be judged is;
* plan copies: what replicas, patches, versions, checkpoints and cold storage give back
  is what was put in, whatever the order and whichever crash came in between;
* services: what counts, counts once; what is bounded stays bounded; what was accepted,
  promised or carried is what is in force.

Every place in the code where one of these can go wrong is listed under
"hazards" in `PROJECT.json`, at its line.

## 2. Modules and how they correspond to the code

### The coordination core

* **`Lease`** – `LeaseManager`, `HeartbeatProtocol`, `handle_heartbeat`, `LeaseMonitor`
  and `scavenge_expired`. `leases` is the table, `expect` the unlocked dict, `call`
  the call each event-loop thread is in, `mon` the position of each monitor thread
  in `check_expired_leases`. `create_lease` and `renew_lease` read the time before
  they take the lock and are two steps; lists that are read and then worked off are
  split per entry. `published` holds the RELEASE messages; `history` (a row as first
  inserted), `refreshed` (per thread, the entries of its list that were renewed or whose
  heartbeat came after the list was read) and `lateStop` (a `join` timed out) are history
  variables.
  `last_heartbeat` is not kept: it is written and never read.
* **`DecideOnce`** – the abstract promise of the consensus layer: a need gets at most
  one proposal, and only that one is acted upon.
* **`Consensus`** – `handle_attest_plan`, `handle_decide`, `handle_reconcile`,
  `QuorumTracker`, `EpochManager` and `RaftConsensusAdapter.try_decide`. Each node
  runs one handler at a time, split at awaits and around etcd calls. A DECIDE may come
  without a task id: then no STATE op is appended (`decide.py:87`), and the annotation,
  which carries proposal and epoch, is that of the need. `Crash` loses
  the tracker and the epoch that was not persisted. `Abstract` is the refinement
  mapping to `DecideOnce`: `chosen` is the proposal of the etcd key, `learned` what
  the nodes' plans record. The pool of verifiers is an environment that changes.
* **`TaskFlow`** – the runner of `subscribe_envelopes` with twelve verb handlers and the
  plan store. A handler is the list of ops it will append (`run.todo`) and what
  follows (`then`: acknowledge, look at the task for CLAIM_EXTENDED, or raise, as
  ATTEST does after its append and YIELD before its handler starts, since the policy
  check in front of it wants a field that no envelope has); `append_op` is one transaction on log and table. `Refuse` stands for
  the gates and for the validation at the top of the handlers. The decision store is
  the abstract one (`chosen`); every DECIDE here names its task. A restart empties the in-memory registries.
* **`Economy`** – `CreditLedger`, `StakeManager`, `SlashingRules.slash_verifiers` and
  `BountyManager`. What runs inside one `with self.lock` is one step. `slash_verifiers`
  is a step per verifier for the calculation (no lock) and one for the execution;
  `escrow_bounty` keeps the lock while it waits in `ledger.escrow`. Operations that
  raise change nothing and are not steps, except where a thread goes back to idle.
* **`CommitmentProtocol`** – the cross-shard commitments behind COMMIT. `stack` is the
  recursion of `_cascade_finalize`: each frame holds the commitment it is about and the
  rest of the list it read from `pending`; `rank` is the insertion order of that dict. A
  frame that meets an entry a deeper frame has deleted raises KeyError, which the COMMIT
  handler catches: the whole stack goes and `failed` remembers it. Calls are synchronous,
  so a call starts only when the stack is empty. Commitments are created before, and
  published in any order; the same one may be published again after `clear_need`.
* **`Sharding`** – the commitments and the dependency graph in one process, with a bound on
  the calls. The graph is the first part of the module: the edges, the counters
  `in_degree`, and FINALIZE, which asks the graph, appends two ops (the store's `append_op` never gives up the loop) and marks the
  shard complete. `irregular` records that an edge came twice or too late, or that a shard
  was completed twice. `topo_sort_shards` is the set the queue processes, which decides
  `detect_deadlock` and does not depend on the order of the queue.

### Challenges

* **`ChallengeIntake`** – `handle_challenge` with `ChallengeWindow`, `AbuseDetector`,
  `BondCalculator` and `ProofSchema`. The handler awaits nothing, so one call is one
  step; an early return keeps what had been changed by then. `extend_window` takes the
  window's lock and never gives it back (`get_window` asks for it again), after which
  no other call that needs the lock ends. A restart empties the abuse detector.
* **`ChallengeQueue`** – the queue's table, two `ChallengeVerifierAgent`s (processes of
  their own, one step per queue transaction), `ChallengeVerifier` over abstract
  evidence, `EscalationHandler`. Two agents may read the same head of the queue.
* **`Challenge`** – the two composed, with `OutcomeHandler` over stakes, bonds and the
  treasury, `handle_invalidate`, which slashes and pays challenger and honest verifiers
  and marks the task whether or not the slash raises, and `PayoutDistributor`. Who calls these is not in
  `src/`: the choice of an outcome is an environment.

### Services: independent components, one composition

`Services` composes thirteen components that share no state and never call each other.
A behaviour is one of a single service (`service`), with a bound on the calls of those
that have no bound of their own (`MaxCalls`); nothing is lost by this, since a property
about one of them cannot tell an interleaving with another.

* **`Market`**, **`AgentRegistry`**, **`Governance`**, **`PaymentChannels`**,
  **`CircuitBreaker`** (with the rate limiter of the same file) – `marketplace/`.
  `trial`, the calls that a half-open circuit let through, is history. The registry works on one
  connection: `tables` is what its own statements see, and what a failed INSERT leaves
  behind is committed by a later call or lost in a crash.
* **`Bus`** – `ConnectionPool` of `bus.py`, each publisher split at its awaits, the lock a
  queue of coroutines; and the Lamport clock: the counter, its file, batches and crashes
  (`heard` is history).
* **`HybridBus`** – the `MessageCache` (size, age, order of use) and the deduplicating
  handler, with transports that lose and repeat.
* **`Gossip`** – `GossipsubRouter`: subscriptions, meshes, fanouts, `seen_messages` and
  the heartbeat. Messages arrive in any order and repeatedly. `given` (what subscribers
  got) is a history variable. The second part is `ConnectionPool` and `PeerReputation` of
  `p2p/`: connections with eviction, timeout and rotation, scores as exact fractions, the
  blacklist.
* **`Auction`** – `AuctionManager`, `BidSubmitter`, `BidEvaluator`.
* **`ShardEscrow`** – `EscrowManager` and `EscrowMonitor` of `sharding/`.

### Copies and history of the plan

`PlanPlatform` composes five more in the same way. A sort is modelled by ranks: a member's
place is the number of members before it.

* **`PlanCRDT`** – `AutomergePlanStore` replicas and `SyncManager`. A document is its op
  list and the state last built from it; `replayed` says that it was rebuilt. The sort of
  a merge is by lamport and, since it is stable, by the place in own ops before the peer's.
* **`PlanHistory`** – `PatchValidator` (merge by lamport and actor, cycles rejected) and
  `VersionTracker`.
* **`Checkpoints`** – Merkle trees and proofs, files and cache, CHECKPOINT, fast sync. A
  hash is an injective constructor. A received checkpoint carries any root, which is
  stored unchecked, and no ops.
* **`TieredStorage`** – hot tier, cold files, index, `PruningManager`. A write that fails
  leaves the op file cut or as it was, a save of the index that fails leaves `index.json`
  as it was or cut and is forgotten, a stop may cut the file that is being written.
  History: `unsaved` (cold ops that the index on disk does not have), `hit` (ops lost by a
  stop, or by a failed rewrite when they were cold already) and `dropped` (taken out of
  the hot tier though their own write had failed).
* **`PartitionMerge`** – two sides, `PartitionDetector`, `merge_on_heal` and the epoch.

### Instances and proofs

`MCTaskFlow`, `MCSharding`, `MCChallenge`, `MCServices`, `MCPlanPlatform` are the
instances for TLC (`Lease` and `Consensus` need none: their `.cfg` gives their constants
values; `MCSharding` is the instance of `Sharding` and `Economy`); `LeaseProof`, `ConsensusProof`, `TaskFlowProof`, `CreditProof`,
`ShardingProof`, `ChallengeProof`, `ServicesProof`, `PlanPlatformProof` hold the theorems.

Definitions called `X_Something` before a definition `X` are faulty variants of `X`
(a dropped guard, an off-by-one, a missing update). No specification uses them:
they document, per property, a mistake in the code that the property would reveal.

## 3. What the runs check

Passing runs (bounds are the constants of the `.cfg`):

* `lease` – one lease, one caller, two monitor threads, ttl and interval 1, clock to 4,
  calls until 2. One lease is enough for the races, which are about one row; two
  threads are needed for the late `stop`. `NoPrematureRelease`: when a RELEASE
  is published, the row the lease has at that moment is past its ttl, or the heartbeat
  expected at that moment is late, unless the lease was renewed or its heartbeat came
  after the thread had read its list (`lease_renewed` shows that case). `AtMostOneRelease`: one announcement, unless a `join` timed out.
  `EveryLeaseEnds`: with the daemon up, rows and stale expectations go away although
  scans may die of a dict that changed size. `ReleaseDeletes`: an announced release is
  carried out even during `stop`.
* `consensus` – two nodes of which one counts votes, one need, two proposals, two voting
  verifiers of which one joins and leaves (k_plan is then 1 or 2), two epochs, one
  crash. `ImplementsDecideOnce` (refinement). `PlansAgree`: annotations agree with the key
  in the store in proposal and epoch, and states in proposal; the epoch matters when the
  winner is sent again under a newer one. `QuorumBacked`, `Fenced`,
  and `QuorumDecides`: a completed quorum decides, as long as nothing crashes and no
  epoch advances.
* `taskflow` – any three of fourteen envelopes, one crash. `LatestWins`: the table is the
  last-writer-wins view of the log. `RedeliveryIsHarmless`: an op that is in the log
  changes no row. `OneHolder`, and `EveryoneServed`: every envelope but ATTEST and
  YIELD, whose handlers raise each time, is acknowledged or terminated in the end.
* `sharding` – five commitments (a diamond with one edge short, and a rival for a key),
  three shards, six calls: enough for a cascade in a cascade with somebody listed behind
  it (four), and for a cycle with a neighbour completed twice (six). `FinalAfterDeps`: no
  commitment is final before its dependencies. `CascadeSettles`: between calls, a
  commitment that is not final waits for exactly what is missing. `ReadyWhenUnblocked`:
  counters and sets agree on a regular graph. `DeadlockDetected`: before any completion,
  `detect_deadlock` is true exactly when shards wait for each other (after a completion
  the sort lowers counters a second time and can miss the cycle). `NoEntryIntoCycle`.
  Beside them, in the same run since the two share nothing (`part` says which one a
  behaviour is about), the ledger: two accounts, one thread that slashes or escrows while
  every other operation runs, amounts 2 and 4, supply 6, one escrow, one unbonding, one
  bounty.
  `SupplyHolds`: no credits are created, unless a slash races with an unstake or another
  slash. `UnbondingBacked`. `EscrowStaysBacked`: only stake and slash can take the
  credits of an escrow.
* `challenge` – one task, one challenger with two payloads, two challenges in the queue
  (the judging of one raises, the other is borne out by its blob only), two agents, an
  hour of two ticks, limit 1, six intake and settlement calls. `RateLimitHolds`: no hour,
  wherever it starts, holds more recorded challenges than allowed, between restarts.
  `SettledStays`: the slower of two agents that hold the same challenge does not take
  the verdict of the faster one back. `EveryChallengeSettles`: neither a challenge whose
  judging raises nor a verdict that cannot be published stops the others, also when the
  window lock is gone for good.
* `services` – two or three agents, bids, voters, peers, envelopes of each, six to twelve
  calls, clocks to 1-6. `AcceptedIsAssigned` (market), `IndexWithinManifest` (partial
  commits of the registry), `ExecutedWasCarried` (governance), `PaymentsCountOnce`
  (channels), `LimitsHold` (sliding window, peer pool, meshes),
  `OneBestWinner` (auction), `SendsAfterHeard` (Lamport clock over crashes),
  `DeliveredOnce` (hybrid bus and gossip), `PublishEnds` (pool with a connection for
  everyone), `PendingSettles` (artifact escrow with its monitor). The pool of connections
  is checked with three publishers and three connections.
* `plan` – two replicas and five ops of different lamports, four patches of which two tie
  on the lamport and three close a cycle, three versions over two lamports, lists of 0 to
  6 ops, three ops to prune over ten steps, two sides with a timeout of 1.
  `MergedReplicasAgree`, `MergeIsDeterministic`, `DiffRebuilds`, `ProofsVerify`,
  `UnhitOpsReadable` (an op that no failure hit itself is found, also after failed saves
  of the index and restarts in the middle of a prune), `PartitionsAgree`. Replicas and versions are interchangeable, hence
  the symmetry; the run checks invariants only.

Runs that show a disagreement between the code and what the repository says of it
(details and quotations under "findings"):

* `lease_renewed` – a lease renewed after the monitor listed it is released all the same.
* `taskflow_lease` – CLAIM_EXTENDED gives a lease to a worker whose DECIDE was refused.
* `sharding_cascade` – a cascade that ends in a KeyError strands commitments.
* `bus_publish` – the same property as in `services`, with two publishers and one
  connection: the one that waits holds the lock that giving a connection back needs.
* `plan_converge` – the same property as in `plan`, with two ops of one lamport: replicas
  that merged each other's ops disagree.

### Seen while modelling, without a run of its own

The models contain these behaviours (or stop where they begin); the properties above are
stated so as to except them, and say so:

* `scavenge_expired` reads the list without the lock and deletes entry by entry: a lease
  renewed in between goes, though `leases/manager.py:269` says "atomically".
* Every YIELD of the bus raises in `@require_policy_validation`
  (`policy/enforcement.py:45-69` wants "operation", `envelope.py:39-51` never sets it), so
  that it ends the runner each time and is never acknowledged; `yield_handler.py:23` says
  that exceptions are caught "to prevent crashes". `EveryoneServed` excepts it.
* The call that makes a circuit half-open is not counted (`circuit_breaker.py:129-132`):
  one call more than `half_open_max_calls`, "Max calls to test in half-open state" (line
  53), is let through. No run claims the bound; `HalfOpenOneOver` proves that the excess
  is this one call.
* A prune takes as many ids out of the hot tier as it moved, from the front of the list
  (`pruning.py:352`): when a write failed, its op is in neither tier and a moved one stays
  hot. A save of the index that fails leaves `index.json` cut and is only logged
  (`pruning.py:295`): until the next prune saves it, a restart finds an empty index and
  none of the cold ops. `UnhitOpsReadable` excepts exactly these ops (`dropped`, `hit`).
* FINAL can be moved back by a later STATE op
  (`plan_store.py:154`; ARCHITECTURE.md:220 says it is immutable).
* Rewards of a slash are computed from a stake read without the lock (`slashing.py:311`);
  `unstake` takes credits that are in escrow (`stake.py:142`).
* Locks that are not reentrant are taken twice: `escrow_bounty` (`bounties.py:173`),
  `extend_window` (`window.py:198`), `_apply_delta` (`reputation.py:124`).
* The quorum tracker is lost in a restart (`quorum.py:58`); a decision stamped with epoch
  1 is fenced after the first RECONCILE (`attest_plan.py:125`); a redelivered NEED makes a
  second task (`need.py:27`); `clear_need` lets a commitment be published again
  (`commitment.py:360`); the set of invalidated tasks is lost in a restart (`payout.py:55`).
* Coroutines that are called and not awaited write nothing: `merge.py:140`,
  `update_plan.py:138`.
* Merged ops are kept under task and type (`patching.py:243`): of several LINK ops of one
  task, or several ops of another type, the last one stays, although lines 7 and 294 say
  that all are kept.
* The gate in front of the handlers asks the policy for the kind and the actor of an
  envelope, and `_extract_policy_input` passes neither (`policy/gates.py:221-231`), so
  that the policy shipped with the repository refuses every envelope. In `TaskFlow` the
  gate is a nondeterministic `Refuse`: the properties speak of a deployment whose policy
  lets envelopes through.
* Checkpoint files are sorted as strings (`checkpoint.py:305`); `verify_quorum` counts
  duplicates (`:86`); a root that comes with a CHECKPOINT is stored unchecked
  (`handlers/checkpoint.py:58`); views are stale after `load_from_data` (`automerge_store.py:264`).
* Only PENDING escrows expire, a READY one waits for ever (`escrow.py:285`); failures
  without a latency never lead to the blacklist (`peer_reputation.py:119`); a message id
  is cached before its handler runs (`hybrid_bus.py:208`); a late bid moves `start_time`
  back (`bidding.py:119`); a fanout chosen empty stays empty (`gossipsub.py:203`), and the
  branch for meshes beyond `D_HIGH` is never taken, as `RoutesCurrent` shows.

Deadlock is not checked: all these systems may rest (nobody calls, clocks and message
counts are bounded). That something must happen is said by the liveness properties.

### Bounds

`Horizon`/`MaxTime` and the other `…MaxTime` (clocks), the number of lease ids, `MaxEpoch`,
`MaxCrashes`, `MaxSent`, `MaxCalls`, `MaxLamport`, `MaxMessages`, `MaxSaved` and the supply
keep the instances finite. Each is a guard with a name. The shortest counterexample of
every faulty variant is inside them.

### Fairness

* `Lease`: time passes, a started call ends, a running monitor thread goes on (threads
  are scheduled). Nobody is obliged to start a call or the daemon, hence `<>[]running`
  in the liveness properties.
* `Consensus`: a started handler goes on; etcd and SQLite answer. No fairness for votes,
  deliveries, RECONCILE or crashes.
* `TaskFlow`: the runner goes on whenever it can; the process is restarted when it stops.
* `Challenge`: each agent goes on polling and working (`process_queue` is a loop that
  catches what a challenge raises). Nobody is obliged to challenge, enqueue or settle.
* `Services`: the event loop runs every coroutine that can run (one condition per
  publisher, one for `close_all`), time passes, a running escrow monitor comes round.
* `Economy`, `Sharding`, `PlanPlatform`: none; their properties are about safety.

## 4. What is proved

For every value of the constants that satisfies the named assumptions. Every invariant and
every action property that a passing run checks has its theorem.

* `LeaseProof`: `TypeCorrect`, `ReleaseNeverEarly`, `ReleasedAtMostOnce`. A list entry is
  acted on long after it was read, so the first property is not inductive. The invariant
  adds that every entry still to be worked off is overdue by the row or the expectation
  of this moment, or was refreshed since the list was read, or has no row any more
  (`ListsOverdue`: what is overdue stays so, since the clock only grows and every step
  that gives new time marks the lists), that ids in use were created once and do not come
  back (`NamesKnown`), and that a thread about to drop an expectation has announced the
  release (`DropsAnnounced`). For the second, `OnceInv`: unless a `join` timed out, one monitor
  thread is busy at a time, and a lease that was announced and is still held is the one
  that this thread is about to delete.
* `ConsensusProof`: `ConsensusTypeCorrect`, `PlansAlwaysAgree`, `AlwaysFenced`,
  `QuorumAlwaysBacked` and the refinement `ConsensusImplementsDecideOnce`. The invariant
  says that a handler past its transaction holds the proposal and the epoch of the key
  (`HandlersHonest`) and that the persisted epoch never exceeds the one in memory
  (`EpochsDurable`). For the quorum, a tracker counts only what was cast
  (`CountedWereCast`), and a handler on its way to decide for a quorum still has as many
  voters (`QuorumHolds`); this compares cardinalities, hence finite `Verifiers`.
* `TaskFlowProof`: `TaskFlowTypeCorrect`, `TasksAreLatest`, `AlwaysOneHolder`,
  `RedeliveryAlwaysHarmless`. The invariant adds that nobody else holds a lease on the
  task of a claim in progress (`ClaimUncontested`, true because the runner handles one
  envelope at a time) and that ops on their way are well formed (`TodoWellFormed`).
* `CreditProof`: `LedgerTyped`, `NoCreditsFromNothing`, `UnbondingAlwaysPaid`,
  `EscrowsStayPayable` about `Economy`; `PaymentsAlwaysCountOnce` about the channels;
  `ExecutedAlwaysCarried` about governance. A slash in progress has calculated rewards it
  has not paid: the invariant counts them as spent (`Credits + Pending <= supply`), except
  after a race, and `RowsOK` and `CallsOK` say that no column goes below zero on the way.
  The sums come from `SumFunctionOnSet`, of which the first part of the module shows that
  a change of one summand changes the sum by the difference.
* `ShardingProof`: `FinalAfterDepsHolds`, `CascadeSettlesHolds`, `ReadyHolds`,
  `NoEntryHolds`, `DeadlockAlwaysDetected`. During a recursion `pending` lags behind
  `finalized`. The invariant (`CommitInv`) says by how much: what is not final is still
  awaited, something is awaited always, and a dependency that is final but still awaited
  is on the list of some frame (`Awaited`), so that nothing lags when the stack is empty.
  For the graph it is `CounterExact`: the counter is the number of open dependencies. For
  the deadlock, the rounds of the sort grow until they stand still, after as many rounds
  as there are shards at most; what they leave out is a set of shards of which each waits
  for another, and no such set is ever entered by the sort.
* `ChallengeProof`: `SettledForEver`, `RateLimitAlwaysHolds`. Every writer of the queue's
  table either asks for the status or writes a settled one, so that it matters not how
  late an agent comes. For the limit (`RateInv`): what the detector remembers includes
  everything recorded in the last hour, and no hour, wherever it ends, holds too much;
  a new entry changes only the hours that end now or later.
* `ServicesProof`: `AlwaysSendsAfterHeard`, `AcceptedAlwaysAssigned`,
  `IndexAlwaysWithinManifest`, `HalfOpenOneOver`, `LimitsAlwaysHold`,
  `AlwaysDeliveredOnce`, `BestAlwaysWins`, `ServicesRunAlone`. A step of the composition
  is a step of one service and leaves the others alone (`ServicesApart`), so that what
  `CreditProof` says of the channels and of governance holds of the composition. The
  clock's invariant says that the file, not only the counter, is never behind what was
  heard; the registry's says of both the committed and the uncommitted tables that an
  agent without a manifest has no rows in the index; the breaker's says that its counter
  lags one call behind at most, so that the excess over the limit is never
  more than that call; the limiter's is the one of the challenges, per agent; the
  pool's says that every blacklisted peer earned it by its score; the gossip router's
  that what was forgotten is old; the cache's that what a subscriber handled is cached,
  or that enough newer entries or time went by to forget it. `BestAlwaysWins` has the
  premise `WithinMaxEta`, tasks of at most a week: beyond it the score of two estimates is
  the same, and the sort by score does not put the shorter one first.
* `PlanPlatformProof`: `PartitionsAlwaysAgree`, `UnhitAlwaysReadable`,
  `DiffAlwaysRebuilds`, `ReplicasAlwaysAgree`, `MergeAlwaysDeterministic`,
  `ProofsAlwaysVerify`.
  The rule of `merge.py` is a strict order only on decisions of different deciders; the
  invariant shows that no others are in conflict, since a side holds its own decision or
  one that the other side holds too (`OwnOrShared`), and that verdicts stay true of
  decisions that are never replaced (`VerdictsFollowRule`).
  Storage: every op added is hot, or indexed with a whole cold file, or was hit or dropped
  (`AddedReadable`), and what is indexed is in the index on disk or known to be `unsaved`
  (`IndexSaved`), so that a restart loses exactly what it marks as hit.
  Versions: the rows of a version that was recorded once are those of its state
  (`RowsFollow`).
  Replicas: a strict order gives each member of a finite set a rank of its own, so a
  sorted list depends on its members only (`InOrder`); every document that was rebuilt is
  the replay of its ops so sorted, as is every saved copy (`GoodDoc`). The premise is that no two
  ops have one lamport; `plan_converge` shows what happens otherwise.
  Patches: the same ranks, with the premise that no actor sends two patches of one
  `base_lamport` (the sort key is then a strict order); and each op of the merge keeps
  the links free of cycles (`NoCycle`).
  Checkpoints: the levels of the tree get shorter down to one hash; the index on the way
  up stays within its level; the parent of a hash is the hash of it and its sibling, on
  the side the proof says; so the chain of `verify_proof` is the path in the tree, which
  ends at the root (`ProofLeadsUp`). `CheckpointsInv` says that stored files have the root
  of their operations, or came without operations from another node.

Some of these rest on inductions over the length of a list, the rounds of a loop or the
size of a set. The library's induction theorems take the property as an operator, which
the provers cannot instantiate; the modules take a least counterexample instead (`WFMin`
on the naturals, from which `NatMin`, `LeastNumber`, `LeastSet` and `EveryRound` follow).
That a recursive function exists is shown in the same way, that it is the one TLA+'s
`CHOOSE` gives by the uniqueness of its values.

Only model-checked are the liveness properties, since fairness is out of the prover's
reach: `EveryLeaseEnds`, `ReleaseDeletes`, `QuorumDecides`, `EveryoneServed`,
`EveryChallengeSettles`, `PublishEnds`, `PendingSettles`.

## 5. Not modelled, and why

The components are listed with their status in `PROJECT.json`. Parts of modelled
components that are left out: Redis consensus, fence tokens and bootstrap quorums; payload
validation in detail; the edges of the plan (written, not read by any handler); audit
trails and statistics that nothing reads; `distribute_bounty`, which no reachable state
enables; `find_cycles` and the rollback log of the shard graph; suspicion scores, bond
multipliers and the daily limit of challenges; the HTTP layer, search and price trends of
the marketplace; compression of checkpoints; reads that change nothing.

Whole components: signing, hashing, DIDs and key files (cryptography); the content store,
sandbox, network transports and discovery (I/O and operating-system calls); policy
evaluation, reputation, selection and routing scores, shard hashing (arithmetic on one
input); metrics, tracing and start-up wiring.

## 6. Plan

Done: all modules of section 2 with their runs, and the proofs of section 4. Left:

1. The Redis adapter as a second implementation of `DecideOnce`, with bootstrap quorums.
2. Gas accounting of the policy gates, as a bounded resource of `TaskFlow`.
3. Proofs: the types of `Challenge`, of the remaining services and of `PlanPlatform` as
   theorems of their own, where the invariants of section 4 do not include them already.
