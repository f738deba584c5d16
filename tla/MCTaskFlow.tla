----------------------------- MODULE MCTaskFlow -----------------------------
(* Two workers and a system sender over one known task and two made-up     *)
(* ones; the lamports make ops of different verbs tie and overtake.        *)
EXTENDS TaskFlow

CONSTANTS t1, n1, n2, w1, w2

Env(kind, sender, task, lamport) ==
    [kind |-> kind, sender |-> sender, task |-> task, lamport |-> lamport, patch |-> <<>>]

Set(state) == [type |-> "STATE", arg |-> state]

MCTraffic ==
    { Env("NEED", w1, n1, 2),
      Env("PROPOSE", w1, t1, 1),
      Env("PROPOSE_EXTENDED", w1, t1, 2),
      Env("CLAIM", w2, t1, 1),
      Env("CLAIM_EXTENDED", w1, t1, 1),
      Env("CLAIM_EXTENDED", w2, t1, 3),
      Env("COMMIT", w1, t1, 3),
      Env("ATTEST", w2, t1, 2),
      Env("DECIDE", w2, t1, 2),
      Env("FINALIZE", w2, t1, 4),
      Env("FINALIZE", w2, n1, 1),
      Env("YIELD", w1, t1, 1),
      Env("RELEASE", w1, t1, 4),
      [Env("UPDATE_PLAN", w1, t1, 3) EXCEPT
         !.patch = <<Set("VERIFIED"), [type |-> "LINK", arg |-> "none"], Set("DECIDED")>>] }

=============================================================================
