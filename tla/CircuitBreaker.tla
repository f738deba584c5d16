--------------------------- MODULE CircuitBreaker ---------------------------
(***************************************************************************)
(* CircuitBreaker and RateLimiter of marketplace/circuit_breaker.py.  In   *)
(* the closed state the breaker lets every call through, and failures and  *)
(* successes are counted.  The limiter has a sliding window per agent,     *)
(* with blocks for a time.                                                 *)
(***************************************************************************)
EXTENDS Integers, FiniteSets

CONSTANTS
    failure_threshold,
    recovery_timeout,
    half_open_max_calls,
    BreakerMaxTime        \* bound on the clock

ASSUME BreakerAssumption ==
    {failure_threshold, recovery_timeout, half_open_max_calls, BreakerMaxTime}
      \subseteq Nat

VARIABLES
    time,
    circuit,      \* [state, failure_count, trip_time, half_open_calls]
    trial         \* history: calls let through since the circuit was half open

breakerVars == <<time, circuit, trial>>

Closed == [state |-> "closed", failure_count |-> 0, trip_time |-> 0, half_open_calls |-> 0]

BreakerInit ==
    /\ time = 0
    /\ circuit = Closed
    /\ trial = 0

BreakerTick ==
    /\ time < BreakerMaxTime
    /\ time' = time + 1
    /\ UNCHANGED <<circuit, trial>>

Tripped(c) == [c EXCEPT !.state = "open", !.trip_time = time]

(* While the circuit is open a failure trips it again: the wait starts     *)
(* over.  Counting stops at the threshold: only a reset closes a circuit   *)
(* that reached it.                                                        *)
record_failure ==
    LET c == [circuit EXCEPT !.failure_count = IF @ < failure_threshold THEN @ + 1 ELSE @] IN
    /\ circuit' = IF circuit.state = "half_open" \/ c.failure_count >= failure_threshold
                  THEN Tripped(c) ELSE c
    /\ UNCHANGED <<time, trial>>

(* A success counts as one of the half-open calls.                         *)
record_success ==
    LET calls_made == circuit.half_open_calls + 1 IN
    /\ circuit' = CASE circuit.state = "half_open" ->
                         IF calls_made >= half_open_max_calls THEN Closed
                         ELSE [circuit EXCEPT !.half_open_calls = calls_made]
                    [] circuit.state = "closed" ->
                         [circuit EXCEPT !.failure_count = IF @ > 0 THEN @ - 1 ELSE 0]
                    [] circuit.state = "open" -> circuit
    /\ UNCHANGED <<time, trial>>

trigger_breaker == circuit' = Tripped(circuit) /\ UNCHANGED <<time, trial>>

reset_breaker == circuit' = Closed /\ UNCHANGED <<time, trial>>

TimedOut == circuit.state = "open" /\ time - circuit.trip_time >= recovery_timeout

HalfOpen == [circuit EXCEPT !.state = "half_open", !.half_open_calls = 0]

(* Asking for the state is enough to leave "open".                         *)
is_open ==
    /\ TimedOut
    /\ circuit' = HalfOpen
    /\ trial' = 0
    /\ UNCHANGED time

(* A call that is let through; the one that finds the time-out passed is   *)
(* not counted among the half-open calls.                                  *)
call_allowed ==
    /\ \/ TimedOut /\ circuit' = HalfOpen /\ trial' = 1
       \/ /\ circuit.state = "half_open" /\ circuit.half_open_calls < half_open_max_calls
          /\ circuit' = [circuit EXCEPT !.half_open_calls = @ + 1]
          /\ trial' = trial + 1
    /\ UNCHANGED time

BreakerNext ==
    \/ BreakerTick
    \/ record_failure \/ record_success
    \/ trigger_breaker \/ reset_breaker
    \/ is_open \/ call_allowed

-----------------------------------------------------------------------------
CONSTANTS
    LimitedAgents,
    limit_per_agent,
    window_seconds,
    BlockTimes,
    LimiterMaxTime     \* bound on the clock

ASSUME LimiterAssumption ==
    /\ {limit_per_agent, window_seconds, LimiterMaxTime} \subseteq Nat
    /\ BlockTimes \subseteq Nat

VARIABLES
    request_times,     \* RateLimiter.entries: agent -> [n, at], the n-th of all requests
    requests,          \* requests recorded so far
    blocked_until,     \* RateLimiter.blocked_agents; 0 stands for no entry
    limiter_time,
    granted            \* history: the requests granted since the last reset

limiterVars == <<request_times, requests, blocked_until, limiter_time, granted>>

LimiterInit ==
    /\ request_times = [a \in LimitedAgents |-> {}] /\ requests = 0
    /\ blocked_until = [a \in LimitedAgents |-> 0]
    /\ limiter_time = 1
    /\ granted = [a \in LimitedAgents |-> {}]

LimiterTick ==
    /\ limiter_time < LimiterMaxTime
    /\ limiter_time' = limiter_time + 1
    /\ UNCHANGED <<request_times, requests, blocked_until, granted>>

(* Faulty variant: the window is one second short.                         *)
Recent_Short(times) == {r \in times : r.at > limiter_time - window_seconds + 1}

Recent(times) == {r \in times : r.at > limiter_time - window_seconds}

Request == [n |-> requests + 1, at |-> limiter_time]

(* An agent whose block is over is unblocked by the question.              *)
check_rate(a) ==
    LET recent == Recent(request_times[a])
        ok == Cardinality(recent) < limit_per_agent
    IN  /\ limiter_time >= blocked_until[a]
        /\ blocked_until' = [blocked_until EXCEPT ![a] = 0]
        /\ request_times' = [request_times EXCEPT
                               ![a] = IF ok THEN recent \cup {Request} ELSE recent]
        /\ requests' = IF ok THEN requests + 1 ELSE requests
        /\ granted' = IF ok THEN [granted EXCEPT ![a] = @ \cup {Request}] ELSE granted
        /\ UNCHANGED limiter_time

record_request(a) ==
    /\ request_times' = [request_times EXCEPT ![a] = @ \cup {Request}]
    /\ requests' = requests + 1
    /\ UNCHANGED <<blocked_until, limiter_time, granted>>

reset_agent(a) ==
    /\ request_times' = [request_times EXCEPT ![a] = {}]
    /\ blocked_until' = [blocked_until EXCEPT ![a] = 0]
    /\ granted' = [granted EXCEPT ![a] = {}]
    /\ UNCHANGED <<requests, limiter_time>>

block_agent(a, duration) ==
    /\ blocked_until' = [blocked_until EXCEPT ![a] = limiter_time + duration]
    /\ UNCHANGED <<request_times, requests, limiter_time, granted>>

(* The question removes a block that is over.                              *)
is_blocked(a) ==
    /\ blocked_until[a] > 0 /\ limiter_time >= blocked_until[a]
    /\ blocked_until' = [blocked_until EXCEPT ![a] = 0]
    /\ UNCHANGED <<request_times, requests, limiter_time, granted>>

LimiterNext ==
    \/ LimiterTick
    \/ \E a \in LimitedAgents :
         \/ check_rate(a) \/ record_request(a) \/ reset_agent(a) \/ is_blocked(a)
         \/ \E d \in BlockTimes : block_agent(a, d)

(* No window of window_seconds holds more granted requests of an agent     *)
(* than the limit, wherever it starts.                                     *)
WindowBounded ==
    \A a \in LimitedAgents : \A t \in 1..LimiterMaxTime :
        Cardinality({r \in granted[a] : t - window_seconds < r.at /\ r.at <= t})
          <= limit_per_agent
=============================================================================
