-------------------------------- MODULE Bus ---------------------------------
(***************************************************************************)
(* The ConnectionPool of bus.py, used by the coroutines that publish.  Its *)
(* asyncio.Lock is taken in the order in which it was asked for and is not *)
(* reentrant; every await is a point where another coroutine runs.         *)
(*                                                                         *)
(* The Lamport clock of one node, its file, and crashes.  Ticks reach the  *)
(* file in batches, observed lamports at once.                             *)
(***************************************************************************)
EXTENDS Integers, Sequences, FiniteSets

CONSTANTS
    Publishers,
    max_size,
    Closer         \* the coroutine that calls close_all

ASSUME PoolAssumption == max_size \in Nat \ {0} /\ Closer \notin Publishers

VARIABLES
    lock,          \* the coroutines that asked for _lock; the first one holds it
    at,            \* at[c]: where coroutine c stands
    pool,          \* the number of idle connections in _pool
    in_use         \* the publishers whose connection is in _in_use

busVars == <<lock, at, pool, in_use>>

Coroutines == Publishers \cup {Closer}

BusInit ==
    /\ lock = <<>>
    /\ at = [c \in Coroutines |-> "idle"]
    /\ pool = 0
    /\ in_use = {}

Holds(c) == lock # <<>> /\ Head(lock) = c

(* publish_envelope: an envelope that the rule book or the preflight gate  *)
(* refuses raises before the pool is asked for a connection.               *)
publish_envelope(p) ==
    /\ at[p] = "idle"
    /\ at' = [at EXCEPT ![p] = "get"]
    /\ lock' = Append(lock, p)
    /\ UNCHANGED <<pool, in_use>>

(* get with the lock: an idle connection, a new one, or, at the limit, a   *)
(* sleep after which get is called again while the lock is still held.     *)
get(p) ==
    /\ at[p] = "get" /\ Holds(p)
    /\ \/ /\ pool > 0
          /\ pool' = pool - 1
          /\ in_use' = in_use \cup {p}
          /\ lock' = Tail(lock)
          /\ at' = [at EXCEPT ![p] = "publish"]
       \/ /\ pool = 0 /\ Cardinality(in_use) < max_size
          /\ at' = [at EXCEPT ![p] = "connect"]
          /\ UNCHANGED <<lock, pool, in_use>>
       \/ /\ pool = 0 /\ Cardinality(in_use) >= max_size
          /\ at' = [at EXCEPT ![p] = "retry"]
          /\ lock' = Append(lock, p)
          /\ UNCHANGED <<pool, in_use>>

(* connect returns or raises.                                              *)
connect(p) ==
    /\ at[p] = "connect"
    /\ lock' = Tail(lock)
    /\ \/ in_use' = in_use \cup {p} /\ at' = [at EXCEPT ![p] = "publish"]
       \/ at' = [at EXCEPT ![p] = "idle"] /\ UNCHANGED in_use
    /\ UNCHANGED pool

(* js.publish returns or raises; the connection is released in both cases. *)
publish_raw(p) ==
    /\ at[p] = "publish"
    /\ at' = [at EXCEPT ![p] = "release"]
    /\ lock' = Append(lock, p)
    /\ UNCHANGED <<pool, in_use>>

(* Faulty variant: the connection stays among the ones in use.             *)
release_Leaky(p) ==
    /\ at[p] = "release" /\ Holds(p)
    /\ pool' = pool
    /\ in_use' = in_use
    /\ lock' = Tail(lock)
    /\ at' = [at EXCEPT ![p] = "idle"]

(* A connection that close_all forgot is not put back.                     *)
release(p) ==
    /\ at[p] = "release" /\ Holds(p)
    /\ pool' = IF p \in in_use THEN pool + 1 ELSE pool
    /\ in_use' = in_use \ {p}
    /\ lock' = Tail(lock)
    /\ at' = [at EXCEPT ![p] = "idle"]

close_all ==
    \/ /\ at[Closer] = "idle"
       /\ at' = [at EXCEPT ![Closer] = "close"]
       /\ lock' = Append(lock, Closer)
       /\ UNCHANGED <<pool, in_use>>
    \/ /\ at[Closer] = "close" /\ Holds(Closer)
       /\ pool' = 0 /\ in_use' = {}
       /\ lock' = Tail(lock)
       /\ at' = [at EXCEPT ![Closer] = "idle"]

PublishStep(p) == get(p) \/ connect(p) \/ publish_raw(p) \/ release(p)
CloseStep == at[Closer] = "close" /\ close_all

BusNext == (\E p \in Publishers : publish_envelope(p) \/ PublishStep(p)) \/ close_all

(* A coroutine that asked for a connection is done in the end, with the    *)
(* message published or an exception raised (bus.py 63-142; bus.py:92,     *)
(* "Wait and retry if at limit").                                          *)
PublishEnds == \A p \in Publishers : at[p] = "get" ~> at[p] = "idle"
-----------------------------------------------------------------------------
CONSTANTS BATCH_SIZE, Remote, MaxLamport

ASSUME LamportAssumption ==
    BATCH_SIZE \in Nat \ {0} /\ Remote \subseteq Nat /\ MaxLamport \in Nat

VARIABLES
    counter,       \* Lamport.counter
    file,          \* the counter in lamport.json
    unwritten,     \* _ticks_since_write; the clock is dirty when it is not 0
    heard,         \* history: the largest lamport observed
    torn           \* history: a crash cut the file while it was written

lamportVars == <<counter, file, unwritten, heard, torn>>

LamportInit == counter = 0 /\ file = 0 /\ unwritten = 0 /\ heard = 0 /\ torn = FALSE

(* The file is written when the batch is full, or when BATCH_INTERVAL has  *)
(* passed since the last write.                                            *)
tick ==
    /\ counter < MaxLamport
    /\ counter' = counter + 1
    /\ \/ file' = counter' /\ unwritten' = 0
       \/ unwritten + 1 < BATCH_SIZE /\ unwritten' = unwritten + 1 /\ UNCHANGED file
    /\ UNCHANGED <<heard, torn>>

(* Faulty variant: what is observed is written with the next batch.        *)
observe_Batched(other) ==
    /\ counter < MaxLamport
    /\ counter' = (IF counter > other THEN counter ELSE other) + 1
    /\ heard' = IF other > heard THEN other ELSE heard
    /\ unwritten' = unwritten + 1
    /\ UNCHANGED <<file, torn>>

observe(other) ==
    /\ counter < MaxLamport
    /\ counter' = (IF counter > other THEN counter ELSE other) + 1
    /\ file' = counter' /\ unwritten' = 0
    /\ heard' = IF other > heard THEN other ELSE heard
    /\ UNCHANGED torn

flush ==
    /\ unwritten > 0
    /\ file' = counter /\ unwritten' = 0
    /\ UNCHANGED <<counter, heard, torn>>

(* The node starts again from its file.  A crash in the middle of a write  *)
(* leaves a file that _read takes for 0.                                   *)
LamportCrash(cut) ==
    /\ counter' = (IF cut THEN 0 ELSE file) /\ file' = counter'
    /\ unwritten' = 0
    /\ torn' = (torn \/ cut)
    /\ UNCHANGED heard

LamportNext ==
    \/ tick \/ flush
    \/ \E o \in Remote : observe(o)
    \/ \E cut \in BOOLEAN : LamportCrash(cut)

(* What a node sends after it has observed a lamport carries a larger one, *)
(* also when it crashed in between, as long as no crash cut the file       *)
(* (lamport.py 42-90).                                                     *)
SendsAfterHeard == [][~torn /\ tick => counter' > heard]_lamportVars
=============================================================================
