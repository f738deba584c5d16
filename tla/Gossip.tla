------------------------------- MODULE Gossip -------------------------------
(***************************************************************************)
(* GossipsubRouter of p2p/gossipsub.py: the mesh of each topic, the fanout *)
(* of the topics it publishes to without a subscription, and the messages  *)
(* it has seen.  Messages of other peers arrive in any order and as often  *)
(* as the network likes; sending is simulated in the code and left out.    *)
(*                                                                         *)
(* The connections of a node to its peers: ConnectionPool and the          *)
(* PeerReputation it asks (p2p/connection_pool.py, p2p/peer_reputation.py).*)
(* Scores are exact fractions; the code's floats round, which matters at a *)
(* threshold only.                                                         *)
(***************************************************************************)
EXTENDS Integers, FiniteSets, FiniteSetsExt

CONSTANTS
    GossipPeers, Topics, Handlers,
    D, D_LOW, D_HIGH,    \* mesh sizes: wanted, too small, too large
    HEARTBEAT_INTERVAL,
    SEEN_MSG_TTL,
    Arriving,            \* messages of others, [from, topic, at], at: when they were created
    Local,               \* the peer id of this node
    GossipMaxTime        \* bound on the clock

ASSUME GossipAssumption ==
    /\ {D, D_LOW, D_HIGH, HEARTBEAT_INTERVAL, SEEN_MSG_TTL, GossipMaxTime} \subseteq Nat
    /\ D_LOW <= D /\ D <= D_HIGH
    /\ Local \notin GossipPeers
    /\ Arriving \subseteq [from : GossipPeers, topic : Topics, at : Nat]

VARIABLES
    gossip_time,
    neighbours,      \* GossipsubRouter.peers
    scores,          \* peer_scores: messages delivered; nothing counts as invalid
    subscriptions,   \* the handlers of each topic
    mesh, fanout,    \* topic -> peers, for the topics that have an entry
    seen_messages,   \* as in Arriving
    last_beat,       \* last_heartbeat
    given            \* history: the messages handed to subscribers

gossipVars == <<gossip_time, neighbours, scores, subscriptions, mesh, fanout, seen_messages,
                last_beat, given>>

(* A dict of sets with an entry for t.                                     *)
Entry(dict, t, peers) == [x \in DOMAIN dict \cup {t} |-> IF x = t THEN peers ELSE dict[x]]

GossipInit ==
    /\ gossip_time = 1
    /\ neighbours = {}
    /\ scores = [p \in GossipPeers |-> 0]
    /\ subscriptions = [t \in Topics |-> {}]
    /\ mesh = [t \in {} |-> {}]
    /\ fanout = [t \in {} |-> {}]
    /\ seen_messages = {}
    /\ last_beat = 1
    /\ given = {}

GossipTick ==
    /\ gossip_time < GossipMaxTime
    /\ gossip_time' = gossip_time + 1
    /\ UNCHANGED <<neighbours, scores, subscriptions, mesh, fanout, seen_messages, last_beat, given>>

(* A peer that comes back starts again with a score of 0.                  *)
add_peer(p) ==
    /\ p \notin neighbours
    /\ neighbours' = neighbours \cup {p}
    /\ scores' = [scores EXCEPT ![p] = 0]
    /\ UNCHANGED <<gossip_time, subscriptions, mesh, fanout, seen_messages, last_beat, given>>

(* Faulty variant: a peer that left stays in the fanouts.                  *)
remove_peer_KeepFanout(p) ==
    /\ p \in neighbours
    /\ neighbours' = neighbours \ {p}
    /\ mesh' = [t \in DOMAIN mesh |-> mesh[t] \ {p}]
    /\ UNCHANGED <<gossip_time, scores, subscriptions, fanout, seen_messages, last_beat, given>>

remove_peer(p) ==
    /\ p \in neighbours
    /\ neighbours' = neighbours \ {p}
    /\ mesh' = [t \in DOMAIN mesh |-> mesh[t] \ {p}]
    /\ fanout' = [t \in DOMAIN fanout |-> fanout[t] \ {p}]
    /\ UNCHANGED <<gossip_time, scores, subscriptions, seen_messages, last_beat, given>>

(* The D best neighbours; which of several equal ones is open.             *)
select_peers_for_mesh ==
    {s \in SUBSET neighbours : /\ Cardinality(s) = Min({D, Cardinality(neighbours)})
                               /\ \A p \in s, q \in neighbours \ s : scores[p] >= scores[q]}

subscribe(t, h) ==
    /\ subscriptions' = [subscriptions EXCEPT ![t] = @ \cup {h}]
    /\ IF t \in DOMAIN mesh THEN UNCHANGED mesh
       ELSE \E s \in select_peers_for_mesh : mesh' = Entry(mesh, t, s)
    /\ UNCHANGED <<gossip_time, neighbours, scores, fanout, seen_messages, last_beat, given>>

(* Without a handler, all of them go.                                      *)
unsubscribe(t, which) ==
    /\ subscriptions' = [subscriptions EXCEPT ![t] = @ \ which]
    /\ mesh' = IF subscriptions'[t] = {} THEN [x \in DOMAIN mesh \ {t} |-> mesh[x]] ELSE mesh
    /\ UNCHANGED <<gossip_time, neighbours, scores, fanout, seen_messages, last_beat, given>>

Message(from, t) == [from |-> from, topic |-> t, at |-> gossip_time]

deliver_message(m) ==
    given' = IF subscriptions[m.topic] # {} THEN given \cup {m} ELSE given

(* Bound: one message per topic and unit of time.  A fanout is chosen at   *)
(* the first publication and kept, also when it is empty.                  *)
publish(t) ==
    LET m == Message(Local, t) IN
    /\ m \notin seen_messages
    /\ seen_messages' = seen_messages \cup {m}
    /\ IF t \in DOMAIN mesh \cup DOMAIN fanout THEN UNCHANGED fanout
       ELSE \E s \in select_peers_for_mesh : fanout' = Entry(fanout, t, s)
    /\ deliver_message(m)
    /\ UNCHANGED <<gossip_time, neighbours, scores, subscriptions, mesh, last_beat>>

handle_message(m) ==
    /\ m.at <= gossip_time
    /\ m \notin seen_messages
    /\ seen_messages' = seen_messages \cup {m}
    /\ scores' = [scores EXCEPT ![m.from] = @ + 1]
    /\ deliver_message(m)
    /\ UNCHANGED <<gossip_time, neighbours, subscriptions, mesh, fanout, last_beat>>

(* The meshes that may take the place of peers, for one topic.             *)
Balanced(peers) ==
    LET n == Cardinality(peers) IN
    IF n < D_LOW
    THEN UNION {{peers \cup more : more \in kSubset(Min({D - n, Cardinality(s \ peers)}), s \ peers)} :
                  s \in select_peers_for_mesh}
    ELSE IF n > D_HIGH
    THEN {s \in kSubset(D, peers) : \A p \in s, q \in peers \ s : scores[p] >= scores[q]}
    ELSE {peers}

(* Messages are forgotten by the time they were created, not received.     *)
heartbeat ==
    /\ gossip_time - last_beat >= HEARTBEAT_INTERVAL
    /\ last_beat' = gossip_time
    /\ mesh' \in {m \in [DOMAIN mesh -> SUBSET neighbours] :
                    \A t \in DOMAIN mesh : m[t] \in Balanced(mesh[t])}
    /\ seen_messages' = {m \in seen_messages : m.at >= gossip_time - SEEN_MSG_TTL}
    /\ UNCHANGED <<gossip_time, neighbours, scores, subscriptions, fanout, given>>

GossipNext ==
    \/ GossipTick \/ heartbeat
    \/ \E p \in GossipPeers : add_peer(p) \/ remove_peer(p)
    \/ \E t \in Topics : \/ publish(t) \/ unsubscribe(t, Handlers)
                         \/ \E h \in Handlers : subscribe(t, h) \/ unsubscribe(t, {h})
    \/ \E m \in Arriving : handle_message(m)

(* However peers, subscriptions and heartbeats come and go, no message is  *)
(* routed to a peer that left, no mesh grows beyond D, so that none is     *)
(* ever too large, and exactly the topics somebody listens to have a mesh  *)
(* (gossipsub.py 118-174, 250-333).                                        *)
RoutesCurrent ==
    /\ \A t \in DOMAIN mesh : mesh[t] \subseteq neighbours /\ Cardinality(mesh[t]) <= D
    /\ \A t \in DOMAIN fanout : fanout[t] \subseteq neighbours
    /\ DOMAIN mesh = {t \in Topics : subscriptions[t] # {}}

(* A message reaches the subscribers again only when it is older than the  *)
(* time to live (gossipsub.py 212-235, 326-333).                           *)
GossipedOnce ==
    [][\A m \in Arriving : /\ m \in given /\ m \notin seen_messages /\ m \in seen_messages'
                           => gossip_time - m.at > SEEN_MSG_TTL]_gossipVars
-----------------------------------------------------------------------------
CONSTANTS
    PoolPeers,
    max_connections, target_peer_count,
    connection_timeout,
    Latencies,         \* the latencies that may be measured, in ms
    MaxMessages,       \* bound on the messages of a peer
    PoolMaxTime        \* bound on the clock

ASSUME PeerPoolAssumption ==
    /\ {max_connections, target_peer_count, connection_timeout, MaxMessages, PoolMaxTime}
         \subseteq Nat
    /\ Latencies \subseteq Nat \ {0}

VARIABLES
    pool_time,
    connections,   \* peer -> last_activity
    stats,         \* PeerReputation.peers: peer -> what was counted
    blacklist

poolVars == <<pool_time, connections, stats, blacklist>>

GOOD_LATENCY_MS == 100
BAD_LATENCY_MS == 1000

NewStats == [delivered |-> 0, failed |-> 0, latency |-> 0, samples |-> 0]

Stats(p) == IF p \in DOMAIN stats THEN stats[p] ELSE NewStats

With(f, p, v) == [x \in DOMAIN f \cup {p} |-> IF x = p THEN v ELSE f[x]]

Without(f, ps) == [x \in DOMAIN f \ ps |-> f[x]]

PoolInit ==
    /\ pool_time = 0
    /\ connections = [p \in {} |-> 0]
    /\ stats = [p \in {} |-> NewStats]
    /\ blacklist = {}

PoolTick ==
    /\ pool_time < PoolMaxTime
    /\ pool_time' = pool_time + 1
    /\ UNCHANGED <<connections, stats, blacklist>>

-----------------------------------------------------------------------------
(* Ten times the score, a fraction <<numerator, denominator>>: 7 parts     *)
(* reliability, 3 parts latency.  Without messages the first is 1/2,       *)
(* without samples the second is full.                                     *)
reliability(s) ==
    IF s.delivered + s.failed = 0 THEN <<1, 2>> ELSE <<s.delivered, s.delivered + s.failed>>

latency_score(s) ==
    LET span == (BAD_LATENCY_MS - GOOD_LATENCY_MS) * s.samples IN
    IF s.latency <= GOOD_LATENCY_MS * s.samples THEN <<1, 1>>
    ELSE IF s.latency >= BAD_LATENCY_MS * s.samples THEN <<0, 1>>
    ELSE <<BAD_LATENCY_MS * s.samples - s.latency, span>>

total_score(s) ==
    LET r == reliability(s) l == latency_score(s)
    IN  <<7 * r[1] * l[2] + 3 * l[1] * r[2], r[2] * l[2]>>

(* A peer nothing was recorded of counts as neutral.                       *)
get_score(p) == IF p \in DOMAIN stats THEN total_score(stats[p]) ELSE <<5, 1>>

Less(x, y) == x[1] * y[2] < y[1] * x[2]

(* The thresholds 0.3, 0.3 + 0.1 and 0.5.                                  *)
BLACKLIST_THRESHOLD == <<3, 1>>
Forgiven == <<4, 1>>
Poor == <<5, 1>>

(* One message more than counted so far, for the bound.                    *)
Counted(p) == Stats(p).delivered + Stats(p).failed < MaxMessages

(* Faulty variant: a blacklisted peer is not looked at again.              *)
record_message_delivered_NoPardon(p, latency) ==
    /\ Counted(p)
    /\ stats' = With(stats, p, [Stats(p) EXCEPT !.delivered = @ + 1,
                                  !.latency = @ + latency,
                                  !.samples = IF latency = 0 THEN @ ELSE @ + 1])
    /\ UNCHANGED <<pool_time, connections, blacklist>>

(* latency 0: none was measured.                                           *)
record_message_delivered(p, latency) ==
    LET s == [Stats(p) EXCEPT !.delivered = @ + 1, !.latency = @ + latency,
                              !.samples = IF latency = 0 THEN @ ELSE @ + 1]
    IN  /\ Counted(p)
        /\ stats' = With(stats, p, s)
        /\ blacklist' = IF Less(Forgiven, total_score(s)) THEN blacklist \ {p} ELSE blacklist
        /\ UNCHANGED <<pool_time, connections>>

record_message_failed(p) ==
    LET s == [Stats(p) EXCEPT !.failed = @ + 1]
    IN  /\ Counted(p)
        /\ stats' = With(stats, p, s)
        /\ blacklist' = IF Less(total_score(s), BLACKLIST_THRESHOLD) THEN blacklist \cup {p}
                        ELSE blacklist
        /\ UNCHANGED <<pool_time, connections>>

(* Of several equal peers, the code takes the one it met first.            *)
get_worst_peer(peers) ==
    {p \in peers : \A q \in peers : ~Less(get_score(q), get_score(p))}

-----------------------------------------------------------------------------
(* The connections that may go to make room: the worst peer ever met, if   *)
(* it is connected, and otherwise one that is idle longest.                *)
evict_connection ==
    {p \in get_worst_peer(DOMAIN stats) : p \in DOMAIN connections}
    \cup (IF DOMAIN stats = {} \/ get_worst_peer(DOMAIN stats) \ DOMAIN connections # {}
          THEN {p \in DOMAIN connections :
                  \A q \in DOMAIN connections : connections[p] <= connections[q]}
          ELSE {})

add_connection(p) ==
    /\ p \notin DOMAIN connections
    /\ p \notin blacklist
    /\ IF Cardinality(DOMAIN connections) >= max_connections
       THEN \E q \in evict_connection : connections' = With(Without(connections, {q}), p, pool_time)
       ELSE connections' = With(connections, p, pool_time)
    /\ UNCHANGED <<pool_time, stats, blacklist>>

get_connection(p) ==
    /\ p \in DOMAIN connections
    /\ connections' = With(connections, p, pool_time)
    /\ UNCHANGED <<pool_time, stats, blacklist>>

close_connection(p) ==
    /\ p \in DOMAIN connections
    /\ connections' = Without(connections, {p})
    /\ UNCHANGED <<pool_time, stats, blacklist>>

(* Idle connections go, and then at most one of a poor peer.               *)
maintain_connections ==
    LET timed_out == {p \in DOMAIN connections : pool_time - connections[p] > connection_timeout}
        left == DOMAIN connections \ timed_out
        rotated == {p \in get_worst_peer(left) : Less(get_score(p), Poor)}
    IN  /\ IF Cardinality(left) > target_peer_count /\ rotated # {}
           THEN \E p \in rotated : connections' = Without(connections, timed_out \cup {p})
           ELSE connections' = Without(connections, timed_out)
        /\ UNCHANGED <<pool_time, stats, blacklist>>

PoolNext ==
    \/ PoolTick \/ maintain_connections
    \/ \E p \in PoolPeers :
         \/ add_connection(p) \/ get_connection(p) \/ close_connection(p)
         \/ record_message_failed(p)
         \/ \E latency \in Latencies \cup {0} : record_message_delivered(p, latency)

(* The pool never holds more connections than it may, whom it evicts for a *)
(* new one included; and whoever is on the blacklist deserves it: its      *)
(* score has not risen past the threshold for forgiveness since            *)
(* (connection_pool.py 82-117, 210-243, peer_reputation.py 80-162).        *)
PoolSound ==
    /\ Cardinality(DOMAIN connections) <= max_connections
    /\ \A p \in blacklist : ~Less(Forgiven, get_score(p))
=============================================================================
