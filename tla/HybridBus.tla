----------------------------- MODULE HybridBus ------------------------------
(***************************************************************************)
(* HybridBus publishes every envelope over P2P and NATS and keeps the ids  *)
(* it has seen in a MessageCache, so that a subscriber meets an envelope   *)
(* once.  Either transport may lose an envelope or deliver it again.  All  *)
(* subscriptions of a bus share the cache, and a handler that raises is    *)
(* not called again for the other copy.                                    *)
(***************************************************************************)
EXTENDS Integers, FiniteSets

CONSTANTS
    Envelopes,
    Transports,
    cache_max_size,
    ttl_seconds,
    cleanup_interval,
    MaxSubscriptions,
    HybridMaxTime

ASSUME HybridAssumption ==
    /\ cache_max_size \in Nat \ {0} /\ cleanup_interval \in Nat \ {0}
    /\ ttl_seconds \in Nat /\ MaxSubscriptions \in Nat /\ HybridMaxTime \in Nat \ {0}

VARIABLES
    message_cache,   \* MessageCache.cache: id -> [at, used], ordered by used
    adds,            \* calls of MessageCache.add so far, which number the uses
    copies,          \* what the transports may deliver, [envelope, transport]
    message_count,   \* the number of calls of subscribe_envelopes
    hybrid_time,     \* the clock
    handled_at,      \* history: when an envelope was last handled, 0 if never
    since            \* history: the other envelopes delivered since it last was

hybridVars == <<message_cache, adds, copies, message_count, hybrid_time, handled_at, since>>

Cached(cache) == DOMAIN cache

HybridInit ==
    /\ message_cache = [x \in {} |-> 0] /\ adds = 0
    /\ copies = {}
    /\ message_count = 0
    /\ hybrid_time = 1
    /\ handled_at = [e \in Envelopes |-> 0]
    /\ since = [e \in Envelopes |-> {}]

HybridTick ==
    /\ hybrid_time < HybridMaxTime
    /\ hybrid_time' = hybrid_time + 1
    /\ UNCHANGED <<message_cache, adds, copies, message_count, handled_at, since>>

Touched(e, at) ==
    [x \in Cached(message_cache) \cup {e} |->
       IF x = e THEN [at |-> at, used |-> adds + 1] ELSE message_cache[x]]

(* The cache once e is there: the max_size entries used last stay.         *)
Entered(e) ==
    LET longer == Touched(e, hybrid_time)
        newer(x) == {y \in Cached(longer) : longer[y].used > longer[x].used}
    IN  [x \in {y \in Cached(longer) : Cardinality(newer(y)) < cache_max_size} |-> longer[x]]

(* Faulty variant: a duplicate does not count as a use.                    *)
add_NoTouch(e) == IF e \in Cached(message_cache) THEN message_cache ELSE Entered(e)

(* A duplicate moves to the end and keeps its time.                        *)
add(e) ==
    IF e \in Cached(message_cache) THEN Touched(e, message_cache[e].at) ELSE Entered(e)

cleanup(cache) ==
    [x \in {y \in Cached(cache) : cache[y].at >= hybrid_time - ttl_seconds} |-> cache[x]]

(* Each transport takes the envelope or raises, which is caught.           *)
publish_to_both(e) ==
    /\ \E ok \in SUBSET Transports : copies' = copies \cup {<<e, t>> : t \in ok}
    /\ UNCHANGED <<message_cache, adds, message_count, hybrid_time, handled_at, since>>

(* Only every cleanup_interval-th subscription cleans the cache.           *)
subscribe_envelopes ==
    /\ message_count < MaxSubscriptions
    /\ message_count' = message_count + 1
    /\ message_cache' = IF message_count' % cleanup_interval = 0 THEN cleanup(message_cache)
                        ELSE message_cache
    /\ UNCHANGED <<adds, copies, hybrid_time, handled_at, since>>

(* A copy reaches a subscription.  The handler runs when its id is new.    *)
deduplicated_handler(e, t) ==
    /\ message_count > 0
    /\ <<e, t>> \in copies
    /\ message_cache' = add(e) /\ adds' = adds + 1
    /\ handled_at' = IF e \in Cached(message_cache) THEN handled_at
                     ELSE [handled_at EXCEPT ![e] = hybrid_time]
    /\ since' = [x \in Envelopes |-> IF x = e THEN {} ELSE since[x] \cup {e}]
    /\ UNCHANGED <<copies, message_count, hybrid_time>>

HybridNext ==
    \/ HybridTick \/ subscribe_envelopes
    \/ \E e \in Envelopes : publish_to_both(e) \/ \E t \in Transports : deduplicated_handler(e, t)

(* An envelope is handled a second time only when as many other envelopes  *)
(* as the cache holds came since it was last delivered, or when it is      *)
(* older than the time to live (hybrid_bus.py 40-79, 190-231).             *)
HandledOnce ==
    [][\A e \in Envelopes :
         /\ handled_at[e] > 0
         /\ e \notin Cached(message_cache) /\ e \in Cached(message_cache')
         => \/ Cardinality(since[e]) >= cache_max_size
            \/ hybrid_time - handled_at[e] > ttl_seconds]_hybridVars
=============================================================================
