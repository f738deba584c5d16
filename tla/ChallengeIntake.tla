-------------------------- MODULE ChallengeIntake ---------------------------
(***************************************************************************)
(* How a CHALLENGE is taken in: handlers/challenge.py with ChallengeWindow,*)
(* AbuseDetector, BondCalculator and ProofSchema.                          *)
(*                                                                         *)
(* handle_challenge awaits nothing, so that one call is one step; a call   *)
(* that returns early changes what it had changed by then.  AbuseDetector  *)
(* and the list of accepted challenges live in memory, windows and escrows *)
(* in databases.  Time is counted in ticks.                                *)
(***************************************************************************)
EXTENDS Integers, Sequences, SequencesExt, FiniteSets, FiniteSetsExt

CONSTANTS
    Challengers,
    Tasks,
    Payloads,                 \* the CHALLENGE payloads that are sent
    Duration,                 \* of a challenge window
    HOUR,
    MAX_CHALLENGES_PER_HOUR,
    InitialBalance,           \* of every challenger
    MaxTime,                  \* bound on the clock
    MaxCalls                  \* bound on the calls from outside

ASSUME IntakeAssumption ==
    /\ HOUR \in Nat \ {0} /\ Duration \in Nat \ {0}
    /\ MAX_CHALLENGES_PER_HOUR \in Nat \ {0}
    /\ {InitialBalance, MaxTime, MaxCalls} \subseteq Nat

VARIABLES
    now,
    windows,      \* table challenge_windows: a set of [task, opened, duration]
    windowLock,   \* ChallengeWindow.lock: "free", or kept by extend_window
    recent,       \* ChallengerStats.challenges_in_window of each challenger
    balance,      \* balance of each challenger in the ledger
    escrows,      \* the ledger's escrows: a set of [id, account, amount, released]
    accepted,     \* _challenge_queue
    uuids,        \* how many uuid4 were drawn
    loop,         \* the event loop that runs the handlers: "up" or "stuck"
    recorded,     \* history: when each challenger's challenges were recorded
    calls         \* how many calls from outside there were

intakeVars == <<now, windows, windowLock, recent, balance, escrows, accepted, uuids, loop,
                recorded, calls>>

IntakeInit ==
    /\ now = 0
    /\ windows = {}
    /\ windowLock = "free"
    /\ recent = [c \in Challengers |-> {}]
    /\ balance = [c \in Challengers |-> InitialBalance]
    /\ escrows = {}
    /\ accepted = <<>>
    /\ uuids = 0
    /\ loop = "up"
    /\ recorded = [c \in Challengers |-> {}]
    /\ calls = 0

Called == calls < MaxCalls /\ calls' = calls + 1

Tick ==
    /\ now < MaxTime
    /\ now' = now + 1
    /\ UNCHANGED <<windows, windowLock, recent, balance, escrows, accepted, uuids, loop,
                   recorded, calls>>

-----------------------------------------------------------------------------
(* ChallengeWindow.                                                        *)

(* INSERT OR REPLACE: a window that exists is opened afresh.               *)
create_window(t) ==
    /\ Called
    /\ windowLock = "free"
    /\ windows' = {w \in windows : w.task # t}
                    \cup {[task |-> t, opened |-> now, duration |-> Duration]}
    /\ UNCHANGED <<now, windowLock, recent, balance, escrows, accepted, uuids, loop, recorded>>

is_window_open(t) ==
    \E w \in windows : w.task = t /\ w.duration - (now - w.opened) > 0

(* extend_window holds the lock, which is not reentrant, when it calls     *)
(* get_window: it stays there, with the lock.                              *)
extend_window ==
    /\ Called
    /\ windowLock = "free"
    /\ windowLock' = "extend_window"
    /\ UNCHANGED <<now, windows, recent, balance, escrows, accepted, uuids, loop, recorded>>

close_window(t) ==
    /\ Called
    /\ windowLock = "free"
    /\ windows' = {w \in windows : w.task # t}
    /\ windows' # windows
    /\ UNCHANGED <<now, windowLock, recent, balance, escrows, accepted, uuids, loop, recorded>>

-----------------------------------------------------------------------------
(* BondCalculator and ProofSchema.                                         *)

BASE_BOND_AMOUNTS ==
    [SCHEMA_VIOLATION |-> 10, MISSING_CITATION |-> 25, SEMANTIC_CONTRADICTION |-> 50,
     OUTPUT_MISMATCH |-> 100, POLICY_BREACH |-> 75]

ComplexityLevel == [SIMPLE |-> 1, MODERATE |-> 2, COMPLEX |-> 5]

calculate_bond(p) == BASE_BOND_AMOUNTS[p.proof_type] * ComplexityLevel[p.complexity]

MAX_PROOF_SIZE_BYTES == 10240

MAX_GAS_ESTIMATE == 100000

validate(p) ==
    /\ p.size_bytes \in 1..MAX_PROOF_SIZE_BYTES
    /\ p.gas_estimate \in 0..MAX_GAS_ESTIMATE
    /\ p.hash_length = 64

(* A payload that names a task and an evidence hash, and a proof type and  *)
(* a complexity that exist.                                                *)
WellFormed(p) ==
    /\ p.task \in Tasks
    /\ p.hash_length > 0
    /\ p.proof_type \in DOMAIN BASE_BOND_AMOUNTS
    /\ p.complexity \in DOMAIN ComplexityLevel

-----------------------------------------------------------------------------
(* AbuseDetector.  The times of a list are numbered: two may be the same.  *)
LastHour(times) == {ts \in times : ts.at > now - HOUR}

(* Faulty variant: the limit is exceeded by one.                           *)
check_rate_limit_OffByOne(c) == Cardinality(LastHour(recent[c])) <= MAX_CHALLENGES_PER_HOUR

(* The limit per day is never met: recent holds the last hour only.        *)
check_rate_limit(c) == Cardinality(LastHour(recent[c])) < MAX_CHALLENGES_PER_HOUR

Timestamp(c) == [n |-> Cardinality(recorded[c]), at |-> now]

record_challenge(c) ==
    /\ recent' = [recent EXCEPT ![c] = LastHour(@ \cup {Timestamp(c)})]
    /\ recorded' = [recorded EXCEPT ![c] = @ \cup {Timestamp(c)}]

-----------------------------------------------------------------------------
(* The bond goes into an escrow of its own uuid, the challenge gets the    *)
(* next one.                                                               *)
Accept(c, p) ==
    /\ balance' = [balance EXCEPT ![c] = @ - calculate_bond(p)]
    /\ escrows' = escrows \cup {[id |-> uuids + 1, account |-> c,
                                 amount |-> calculate_bond(p), released |-> FALSE]}
    /\ accepted' = Append(accepted, [challenge_id |-> uuids + 2, escrow_id |-> uuids + 1,
                                     challenger |-> c, payload |-> p,
                                     bond |-> calculate_bond(p)])
    /\ uuids' = uuids + 2

(* The challenge counts against the limit before the window, the balance   *)
(* and the proof are looked at.  is_window_open needs the lock of the      *)
(* windows: while extend_window has it, the event loop waits in it.        *)
handle_challenge(c, p) ==
    /\ loop = "up"
    /\ Called
    /\ WellFormed(p)
    /\ check_rate_limit(c)
    /\ record_challenge(c)
    /\ loop' = IF windowLock = "free" THEN "up" ELSE "stuck"
    /\ IF windowLock = "free" /\ is_window_open(p.task)
          /\ balance[c] >= calculate_bond(p) /\ validate(p)
       THEN Accept(c, p)
       ELSE UNCHANGED <<balance, escrows, accepted, uuids>>
    /\ UNCHANGED <<now, windows, windowLock>>

(* The process starts again: what it kept in memory is gone.               *)
IntakeRestart ==
    /\ Called
    /\ windowLock' = "free"
    /\ loop' = "up"
    /\ recent' = [c \in Challengers |-> {}]
    /\ recorded' = [c \in Challengers |-> {}]
    /\ accepted' = <<>>
    /\ UNCHANGED <<now, windows, balance, escrows, uuids>>

IntakeNext ==
    \/ Tick
    \/ \E t \in Tasks : create_window(t) \/ close_window(t)
    \/ extend_window
    \/ \E c \in Challengers, p \in Payloads : handle_challenge(c, p)

-----------------------------------------------------------------------------
(* "Max 10 challenges per hour": between two restarts of the process, no   *)
(* hour, wherever it starts, holds more recorded challenges of one         *)
(* challenger than check_rate_limit allows (abuse_detection.py 89-122).    *)
RateLimitHolds ==
    \A c \in Challengers : \A t \in 0..MaxTime :
      Cardinality({ts \in recorded[c] : t - HOUR < ts.at /\ ts.at <= t})
        <= MAX_CHALLENGES_PER_HOUR
=============================================================================
