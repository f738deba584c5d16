CONSTANTS
  raise = raise
  k1 = k1
  k2 = k2
  o1 = o1
  reset = reset
  MarketTasks = {t1, t2}
  BidIds = {b1, b2, b3}
  Bidders = {g1, g2}
  Caps = {"x"}
  NoAgent = NoAgent
  RegAgents = {r1, r2}
  Manifests <- MCManifests
  Proposals = {raise, reset}
  Changes <- MCChanges
  Voters = {w1, w2}
  Weights = {1, 2}
  VotingPeriod = 1
  GovMaxTime = 2
  ChannelIds = {ch1, ch2}
  Senders = {s1, s2}
  NoSender = NoSender
  Deposits = {2, 3}
  Nonces = {1, 2, 3}
  Payable = {1, 2}
  failure_threshold = 2
  recovery_timeout = 2
  half_open_max_calls = 2
  BreakerMaxTime = 6
  MaxCalls <- MCMaxCalls
  LimitedAgents = {l1}
  limit_per_agent = 2
  window_seconds = 2
  BlockTimes = {1, 2}
  LimiterMaxTime = 4
  Publishers = {p1, p2}
  max_size = 1
  Closer = Closer
  Envelopes = {m1, m2, m3}
  Transports = {nats, p2p}
  cache_max_size = 2
  ttl_seconds = 1
  cleanup_interval = 2
  MaxSubscriptions = 2
  HybridMaxTime = 3
  GossipPeers <- MCGossipPeers
  Topics = {o1}
  Handlers = {f1}
  D = 1
  D_LOW = 1
  D_HIGH = 2
  HEARTBEAT_INTERVAL = 1
  SEEN_MSG_TTL = 1
  Arriving <- MCArriving
  Local = Local
  GossipMaxTime = 3
  PoolPeers = {q1, q2, q3}
  max_connections = 2
  target_peer_count = 1
  connection_timeout = 1
  Latencies = {2000}
  MaxMessages = 5
  PoolMaxTime = 2
  BATCH_SIZE = 3
  Remote = {1, 4}
  MaxLamport = 7
  AuctionNeeds = {n1}
  Submitters <- MCSubmitters
  Payloads <- MCPayloads
  Budgets = {9, 30}
  bid_window = 1
  AuctionMaxTime = 2
  EscrowIds = {e1, e2}
  EscrowShards = {h1, h2}
  Ttls = {0, 1}
  EscrowMaxTime = 1
SPECIFICATION Spec
PROPERTY PublishEnds
CHECK_DEADLOCK FALSE
