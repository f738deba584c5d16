--------------------------- MODULE ChallengeProof ---------------------------
(***************************************************************************)
(* Proofs about Challenge, for any challenges, agents, evidence and times. *)
(***************************************************************************)
EXTENDS Challenge, FiniteSetTheorems, TLAPS

(* What the proof needs to know of the table: every challenge has a row,   *)
(* or NoRow, and every row a status.                                       *)
RowsKept ==
    /\ DOMAIN rows = Challenges
    /\ \A c \in Challenges : "status" \in DOMAIN rows[c]

(* A step that leaves settled rows settled, and keeps the table a table.   *)
Respects == RowsKept' /\ \A c \in Challenges : Settled(c) => Settled(c)'

LEMMA RowsKeptInitially == Init => RowsKept
  BY DEF Init, QueueInit, RowsKept, NoRow

(* Who does not write the table respects it.                               *)
LEMMA TableUntouched == RowsKept /\ rows' = rows => Respects
  BY DEF RowsKept, Respects, Settled

(* Whatever another agent did since this one chose its job, what it writes *)
(* about it leaves a settled challenge settled.                            *)
LEMMA AgentsRespect ==
    ASSUME RowsKept, NEW a \in Agents, process_queue(a)
    PROVE  Respects
<1>1. CASE \E c \in Challenges : get_next_challenge(a, c)
  BY <1>1, TableUntouched DEF get_next_challenge
<1>2. CASE mark_verifying(a)
  BY <1>2 DEF mark_verifying, RowsKept, Respects, Settled
<1>3. CASE verify_challenge(a)
  <2>1. rows' = rows \/ rows' = [rows EXCEPT ![agents[a].job].status = "failed"]
    BY <1>3 DEF verify_challenge
  <2> QED  BY <2>1, TableUntouched DEF RowsKept, Respects, Settled
<1>4. CASE mark_verified(a)
  BY <1>4 DEF mark_verified, RowsKept, Respects, Settled
<1>5. CASE publish_verdict(a)
  BY <1>5, TableUntouched DEF publish_verdict
<1> QED  BY <1>1, <1>2, <1>3, <1>4, <1>5 DEF process_queue

(* Only a challenge that is not in the table is queued.                    *)
LEMMA EnqueueRespects ==
    ASSUME RowsKept, NEW i, NEW proof_type, NEW jitter, Enqueue(i, proof_type, jitter)
    PROVE  Respects
  BY DEF Enqueue, add_challenge, RowsKept, Respects, Settled

LEMMA StepsRespect == RowsKept /\ [Next]_vars => Respects
<1> SUFFICES ASSUME RowsKept, [Next]_vars PROVE Respects
  OBVIOUS
<1>1. CASE \E a \in Agents : process_queue(a)
  BY <1>1, AgentsRespect
<1>2. CASE QueueCall
  BY <1>2, TableUntouched DEF QueueCall, PutBlob, escalate_if_disagree, resolve_escalation
<1>3. CASE \E i \in DOMAIN accepted, proof_type \in TypesGiven, jitter \in {0, 1} :
             Enqueue(i, proof_type, jitter)
  BY <1>3, EnqueueRespects
<1>4. CASE UNCHANGED queueVars
  BY <1>4, TableUntouched DEF queueVars
<1>5. CASE \E c \in Challenges : \E r \in Record(c), read \in {stakes, WasStaked} :
             process_outcome(c, r, read)
  BY <1>5, <1>4 DEF process_outcome
<1>6. CASE \E t \in Tasks : \/ \E challenger \in Challengers : handle_invalidate(t, challenger)
                            \/ execute_payout(t)
  BY <1>6, <1>4 DEF handle_invalidate, execute_payout
<1>7. CASE Restart
  BY <1>7, <1>4 DEF Restart
<1>8. CASE UNCHANGED vars
  BY <1>8, <1>4 DEF vars
<1> QED  BY <1>1, <1>2, <1>3, <1>4, <1>5, <1>6, <1>7, <1>8 DEF Next

(* With any number of agents over one queue, a challenge that was verified *)
(* or failed never goes back (queue.py 177-248, challenge_verifier.py      *)
(* 111-181).                                                               *)
THEOREM SettledForEver == Spec => SettledStays
<1>1. RowsKept /\ [Next]_vars => RowsKept'
  BY StepsRespect DEF Respects
<1>2. RowsKept /\ [Next]_vars => [\A c \in Challenges : Settled(c) => Settled(c)']_queueVars
  BY StepsRespect DEF Respects
<1> QED  BY RowsKeptInitially, <1>1, <1>2, PTL DEF Spec, SettledStays

-----------------------------------------------------------------------------
(* The limit on challenges.  Those that were recorded in the hour before t.*)
Hour(times, t) == {ts \in times : t - HOUR < ts.at /\ ts.at <= t}

(* What is remembered of a challenger includes its last hour, and no hour  *)
(* so far was too full.                                                    *)
LimitedSoFar(c) ==
    /\ IsFiniteSet(recent[c]) /\ IsFiniteSet(recorded[c])
    /\ \A ts \in recorded[c] : ts.at \in Nat /\ ts.at <= now
    /\ LastHour(recorded[c]) \subseteq recent[c]
    /\ \A t \in Nat : Cardinality(Hour(recorded[c], t)) <= MAX_CHALLENGES_PER_HOUR

RateInv ==
    /\ now \in Nat
    /\ DOMAIN recent = Challengers /\ DOMAIN recorded = Challengers
    /\ \A c \in Challengers : LimitedSoFar(c)

(* Nothing was recorded at the start.                                      *)
LEMMA NothingRecorded ==
    ASSUME now \in Nat, recent = [c \in Challengers |-> {}],
           recorded = [c \in Challengers |-> {}]
    PROVE  RateInv
<1> SUFFICES ASSUME NEW c \in Challengers PROVE LimitedSoFar(c)
  BY DEF RateInv
<1>1. recent[c] = {} /\ recorded[c] = {}
  OBVIOUS
<1>2. LastHour({}) = {} /\ \A t : Hour({}, t) = {}
  BY DEF LastHour, Hour
<1> QED  BY <1>1, <1>2, FS_EmptySet, IntakeAssumption DEF LimitedSoFar, IntakeAssumption

(* A challenge that the limit lets pass leaves every hour within it: the   *)
(* hours that end before now do not hold it, and what is recorded of the   *)
(* others is what check_rate_limit counted.                                *)
LEMMA PassedKeepsHours ==
    ASSUME RateInv, NEW c \in Challengers, check_rate_limit(c), NEW t \in Nat, NEW new,
           new.at = now
    PROVE  Cardinality(Hour(recorded[c] \cup {new}, t)) <= MAX_CHALLENGES_PER_HOUR
<1>1. /\ LimitedSoFar(c) /\ now \in Nat /\ HOUR \in Nat /\ MAX_CHALLENGES_PER_HOUR \in Nat
      /\ Cardinality(LastHour(recent[c])) < MAX_CHALLENGES_PER_HOUR
  BY IntakeAssumption DEF RateInv, IntakeAssumption, check_rate_limit
<1>2. CASE t < now
  <2>1. Hour(recorded[c] \cup {new}, t) = Hour(recorded[c], t)
    BY <1>1, <1>2 DEF Hour
  <2> QED  BY <1>1, <2>1 DEF LimitedSoFar
<1>3. CASE t >= now
  <2> DEFINE R == LastHour(recent[c])
  <2>1. ASSUME NEW ts \in Hour(recorded[c] \cup {new}, t), ts # new PROVE ts \in R
    <3>1. ts \in recorded[c] /\ t - HOUR < ts.at /\ ts.at \in Nat
      BY <1>1, <2>1 DEF Hour, LimitedSoFar
    <3>2. ts \in LastHour(recorded[c])
      BY <1>1, <1>3, <3>1 DEF LastHour
    <3> QED  BY <1>1, <3>2 DEF LimitedSoFar, LastHour
  <2>2. Hour(recorded[c] \cup {new}, t) \in SUBSET (R \cup {new})
    BY <2>1
  <2>3. IsFiniteSet(R) /\ Cardinality(R) \in Nat
    <3>1. R \in SUBSET recent[c]
      BY DEF LastHour
    <3> QED  BY <1>1, <3>1, FS_Subset, FS_CardinalityType DEF LimitedSoFar
  <2>4. Cardinality(R) < MAX_CHALLENGES_PER_HOUR
    BY <1>1
  <2> HIDE DEF R
  <2>5. /\ IsFiniteSet(R \cup {new})
        /\ Cardinality(R \cup {new}) \in {Cardinality(R), Cardinality(R) + 1}
    BY <2>3, FS_AddElement
  <2>6. /\ Cardinality(Hour(recorded[c] \cup {new}, t)) <= Cardinality(R \cup {new})
        /\ Cardinality(Hour(recorded[c] \cup {new}, t)) \in Nat
    BY <2>2, <2>5, FS_Subset, FS_CardinalityType
  <2> QED  BY <1>1, <2>3, <2>4, <2>5, <2>6
<1> QED  BY <1>1, <1>2, <1>3

(* A challenge is recorded when the limit lets it pass.                    *)
LEMMA RecordedWithinLimit ==
    ASSUME RateInv, NEW c \in Challengers, check_rate_limit(c), record_challenge(c),
           UNCHANGED now
    PROVE  RateInv'
<1>1. PICK new : new = Timestamp(c)
  OBVIOUS
<1>2. new.at = now /\ now \in Nat
  BY <1>1 DEF Timestamp, RateInv
<1>3. /\ recent' = [recent EXCEPT ![c] = LastHour(recent[c] \cup {new})]
      /\ recorded' = [recorded EXCEPT ![c] = recorded[c] \cup {new}]
  BY <1>1 DEF record_challenge
<1>4. ASSUME NEW b \in Challengers PROVE LimitedSoFar(b)'
  <2>1. CASE b # c
    <3>1. recent'[b] = recent[b] /\ recorded'[b] = recorded[b]
      BY <1>3, <2>1 DEF RateInv
    <3>2. /\ LastHour(recorded[b])' = LastHour(recorded[b])
          /\ \A t : Hour(recorded[b], t)' = Hour(recorded[b], t)
      BY <3>1 DEF LastHour, Hour
    <3> QED  BY <3>1, <3>2 DEF RateInv, LimitedSoFar
  <2>2. CASE b = c
    <3> DEFINE S == recent[c] \cup {new}
               T == recorded[c] \cup {new}
    <3>1. recent'[b] = LastHour(S) /\ recorded'[b] = T
      BY <1>3, <2>2 DEF RateInv
    <3>2. /\ LastHour(recorded[b])' = LastHour(T)
          /\ \A t : Hour(recorded[b], t)' = Hour(T, t)
      BY <3>1 DEF LastHour, Hour
    <3>3. LimitedSoFar(c)
      BY DEF RateInv
    <3>4. LastHour(T) \subseteq LastHour(S)
      BY <3>3 DEF LimitedSoFar, LastHour
    <3>5. LastHour(S) \in SUBSET S /\ IsFiniteSet(S) /\ IsFiniteSet(T)
      BY <3>3, FS_AddElement DEF LimitedSoFar, LastHour
    <3>6. IsFiniteSet(LastHour(S))
      BY <3>5, FS_Subset
    <3>7. \A ts \in T : ts.at \in Nat /\ ts.at <= now
      BY <1>2, <3>3 DEF LimitedSoFar
    <3>8. \A t \in Nat : Cardinality(Hour(T, t)) <= MAX_CHALLENGES_PER_HOUR
      BY <1>2, PassedKeepsHours
    <3> HIDE DEF S, T
    <3> QED  BY <3>1, <3>2, <3>4, <3>5, <3>6, <3>7, <3>8 DEF LimitedSoFar
  <2> QED  BY <2>1, <2>2
<1> QED  BY <1>2, <1>3, <1>4 DEF RateInv

(* Time passes, or nothing that the limit is about changes.                *)
LEMMA LimitKeptInTime ==
    ASSUME RateInv, now' \in {now, now + 1}, UNCHANGED <<recent, recorded>>
    PROVE  RateInv'
<1>1. now \in Nat /\ now' \in Nat /\ now <= now' /\ HOUR \in Nat
  BY IntakeAssumption DEF RateInv, IntakeAssumption
<1>2. ASSUME NEW c \in Challengers PROVE LimitedSoFar(c)'
  <2>1. LimitedSoFar(c)
    BY DEF RateInv
  <2>2. LastHour(recorded[c])' \subseteq LastHour(recorded[c])
    BY <1>1, <2>1 DEF LimitedSoFar, LastHour
  <2>3. \A ts \in recorded[c] : ts.at \in Nat /\ ts.at <= now'
    BY <1>1, <2>1 DEF LimitedSoFar
  <2>4. \A t \in Nat : Hour(recorded[c], t)' = Hour(recorded[c], t)
    BY DEF Hour
  <2> QED  BY <2>1, <2>2, <2>3, <2>4 DEF LimitedSoFar
<1> QED  BY <1>1, <1>2 DEF RateInv

(* Every step of the challenges keeps RateInv.                             *)
LEMMA RateKept == RateInv /\ [Next]_vars => RateInv'
<1> SUFFICES ASSUME RateInv, [Next]_vars PROVE RateInv'
  OBVIOUS
<1>1. CASE UNCHANGED <<now, recent, recorded>>
  BY <1>1, LimitKeptInTime
<1>2. CASE IntakeNext
  <2>1. CASE Tick
    BY <2>1, LimitKeptInTime DEF Tick
  <2>2. CASE (\E t \in Tasks : create_window(t) \/ close_window(t)) \/ extend_window
    BY <1>1, <2>2 DEF create_window, close_window, extend_window
  <2>3. CASE \E c \in Challengers, p \in Payloads : handle_challenge(c, p)
    BY <2>3, RecordedWithinLimit DEF handle_challenge
  <2> QED  BY <1>2, <2>1, <2>2, <2>3 DEF IntakeNext
<1>3. CASE Restart
  <2>1. /\ now' \in Nat /\ recent' = [c \in Challengers |-> {}]
        /\ recorded' = [c \in Challengers |-> {}]
    BY <1>3 DEF Restart, IntakeRestart, RateInv
  <2>2. ASSUME NEW c \in Challengers PROVE LimitedSoFar(c)'
    <3>1. recent'[c] = {} /\ recorded'[c] = {}
      BY <2>1
    <3>2. LastHour(recorded[c])' = {} /\ \A t : Hour(recorded[c], t)' = {}
      BY <3>1 DEF LastHour, Hour
    <3> QED  BY <3>1, <3>2, FS_EmptySet, IntakeAssumption DEF LimitedSoFar, IntakeAssumption
  <2> QED  BY <2>1, <2>2 DEF RateInv
<1>4. CASE UNCHANGED intake
  BY <1>1, <1>4 DEF intake
<1>5. CASE UNCHANGED intakeVars
  BY <1>1, <1>5 DEF intakeVars
<1>6. CASE \E i \in DOMAIN accepted, proof_type \in TypesGiven, jitter \in {0, 1} :
             Enqueue(i, proof_type, jitter)
  BY <1>4, <1>6 DEF Enqueue
<1>7. CASE \E c \in Challenges : \E r \in Record(c), read \in {stakes, WasStaked} :
             process_outcome(c, r, read)
  BY <1>1, <1>7 DEF process_outcome
<1>8. CASE \E t \in Tasks : \/ \E challenger \in Challengers : handle_invalidate(t, challenger)
                            \/ execute_payout(t)
  BY <1>1, <1>4, <1>8 DEF handle_invalidate, execute_payout
<1>9. CASE UNCHANGED vars
  BY <1>5, <1>9 DEF vars
<1> QED  BY <1>2, <1>3, <1>4, <1>5, <1>6, <1>7, <1>8, <1>9 DEF Next

(* However long the process runs, however often it starts again and        *)
(* whatever is sent to it, no hour between two starts holds more recorded  *)
(* challenges of one challenger than the limit (abuse_detection.py 60-122).*)
THEOREM RateLimitAlwaysHolds == Spec => []RateLimitHolds
<1>1. Init => RateInv
  BY NothingRecorded DEF Init, IntakeInit
<1>2. RateInv => RateLimitHolds
  <2> SUFFICES ASSUME RateInv, NEW c \in Challengers, NEW t \in 0..MaxTime
               PROVE  Cardinality(Hour(recorded[c], t)) <= MAX_CHALLENGES_PER_HOUR
    BY DEF RateLimitHolds, Hour
  <2>1. t \in Nat
    BY IntakeAssumption DEF IntakeAssumption
  <2> QED  BY <2>1 DEF RateInv, LimitedSoFar
<1> QED  BY <1>1, <1>2, RateKept, PTL DEF Spec
=============================================================================
