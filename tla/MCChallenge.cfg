CONSTANTS
  Challengers = {c1}
  Tasks = {"t1"}
  Payloads <- MCPayloads
  Duration = 2
  HOUR = 2
  MAX_CHALLENGES_PER_HOUR = 1
  InitialBalance = 60
  MaxTime = 2
  MaxCalls = 6
  Challenges = {2, 4}
  Agents = {a1, a2}
  Inline <- MCInline
  Blob <- MCBlob
  TypesGiven = {"SCHEMA_VIOLATION", "NONE"}
  NoChallenge = 0
  Verifiers = {v1}
  InitialStake = 10
  T_CHALLENGE = 1
  CompletedAt = 0
SPECIFICATION Spec
INVARIANT RateLimitHolds
PROPERTIES SettledStays EveryChallengeSettles
CHECK_DEADLOCK FALSE
