--------------------------- MODULE ChallengeQueue ---------------------------
(***************************************************************************)
(* The verification of challenges: ChallengeQueue, one table that the      *)
(* ChallengeVerifierAgents, processes of their own, poll; ChallengeVerifier*)
(* which judges a proof; EscalationHandler, which looks at the verdicts.   *)
(*                                                                         *)
(* Each queue method is one transaction; between two of them another agent *)
(* may run.  The gas a verification reports is left out: nothing reads it. *)
(***************************************************************************)
EXTENDS Integers, Sequences, FiniteSets, FiniteSetsExt

CONSTANTS
    Challenges,   \* challenge ids
    Agents,
    Inline,       \* Inline[c], the evidence that comes with the proof of c
    Blob,         \* Blob[c], what the evidence hash of c stands for
    TypesGiven,   \* the proof types that enqueued challenges name
    NoChallenge

(* No evidence that is a dict: what verify_proof raises on.                *)
Malformed == [malformed |-> TRUE]

ASSUME QueueAssumption ==
    /\ NoChallenge \notin Challenges
    /\ DOMAIN Inline = Challenges /\ DOMAIN Blob = Challenges

VARIABLES
    rows,         \* table challenge_queue
    entered,      \* how many rows were inserted, the order of queued_at_ns
    agents,       \* where each agent is in process_queue
    blobs,        \* the challenges whose evidence is in the CAS
    verdicts,     \* the CHALLENGE_VERDICTs published: [challenge, verifier, is_valid]
    escalations   \* EscalationHandler.escalations

queueVars == <<rows, entered, agents, blobs, verdicts, escalations>>

Status == {"absent", "queued", "verifying", "verified", "failed"}

NoRow == [status |-> "absent", proof_type |-> "NONE", priority |-> 0, jitter |-> 0, at |-> 0,
          is_valid |-> FALSE]

(* processed: the challenges an agent is done with.                        *)
Polling(processed) ==
    [pc |-> "poll", job |-> NoChallenge, is_valid |-> FALSE, processed |-> processed]

Done(a) == Polling(agents[a].processed \cup {agents[a].job})

Raised(a) == Polling(agents[a].processed)

QueueInit ==
    /\ rows = [c \in Challenges |-> NoRow]
    /\ entered = 0
    /\ agents = [a \in Agents |-> Polling({})]
    /\ blobs = {}
    /\ verdicts = {}
    /\ escalations = {}

-----------------------------------------------------------------------------
(* ChallengeVerifier: whether the evidence bears the challenge out.        *)

(* _check_type: the Python types a JSON type admits; a bool is an int, and *)
(* a type that is not known admits everything.                             *)
Admits(expected, actual) ==
    \/ expected \notin {"string", "number", "integer", "boolean", "object", "array"}
    \/ <<expected, actual>> \in
         {<<"string", "str">>, <<"number", "int">>, <<"number", "float">>, <<"number", "bool">>,
          <<"integer", "int">>, <<"integer", "bool">>, <<"boolean", "bool">>,
          <<"object", "dict">>, <<"array", "list">>}

verify_schema_violation(e) ==
    /\ DOMAIN e.expected_schema # {} /\ DOMAIN e.actual_output # {}
    /\ \E f \in e.violations \cap DOMAIN e.expected_schema :
         f \in DOMAIN e.actual_output => ~Admits(e.expected_schema[f], e.actual_output[f])

verify_missing_citation(e) == ~(e.required_citations \subseteq e.provided_citations)

(* A statement is the words and the key phrases it holds; one that holds   *)
(* " is not " holds " is " too.                                            *)
opposing_pairs == {<<"is", "is not">>, <<"true", "false">>, <<"yes", "no">>,
                   <<"correct", "incorrect">>, <<"valid", "invalid">>}

detect_simple_contradiction(s, t) ==
    /\ \E pair \in opposing_pairs :
         \/ pair[1] \in s.phrases /\ pair[2] \in t.phrases
         \/ pair[2] \in s.phrases /\ pair[1] \in t.phrases
    /\ Cardinality(s.words \cap t.words) >= 3

verify_semantic_contradiction(e) ==
    \E i, j \in DOMAIN e.statements :
      i < j /\ detect_simple_contradiction(e.statements[i], e.statements[j])

verify_output_mismatch(e) ==
    \E f \in e.mismatch_fields :
      \/ (f \in DOMAIN e.specified_output) # (f \in DOMAIN e.actual_output)
      \/ /\ f \in DOMAIN e.specified_output \cap DOMAIN e.actual_output
         /\ e.specified_output[f] # e.actual_output[f]

verify_policy_breach(e) == e.has_policy_rule /\ e.violation_details # {}

ProofTypes == {"SCHEMA_VIOLATION", "MISSING_CITATION", "SEMANTIC_CONTRADICTION",
               "OUTPUT_MISMATCH", "POLICY_BREACH"}

verify_proof(type, e) ==
    CASE type = "SCHEMA_VIOLATION"       -> verify_schema_violation(e)
      [] type = "MISSING_CITATION"       -> verify_missing_citation(e)
      [] type = "SEMANTIC_CONTRADICTION" -> verify_semantic_contradiction(e)
      [] type = "OUTPUT_MISMATCH"        -> verify_output_mismatch(e)
      [] type = "POLICY_BREACH"          -> verify_policy_breach(e)

-----------------------------------------------------------------------------
(* ChallengeQueue.                                                         *)

(* The priority is fixed here: the bond, and the time between two readings *)
(* of the clock, which is what is left of the age.                         *)
add_challenge(c, proof_type, bond_amount, jitter) ==
    /\ rows[c].status = "absent"
    /\ rows' = [rows EXCEPT ![c] = [status |-> "queued", proof_type |-> proof_type,
                                    priority |-> bond_amount, jitter |-> jitter,
                                    at |-> entered, is_valid |-> FALSE]]
    /\ entered' = entered + 1
    /\ UNCHANGED <<agents, blobs, verdicts, escalations>>

Before(r, s) ==
    \/ r.priority > s.priority
    \/ r.priority = s.priority /\ r.jitter > s.jitter
    \/ r.priority = s.priority /\ r.jitter = s.jitter /\ r.at < s.at

IsNext(c) ==
    /\ rows[c].status = "queued"
    /\ \A d \in Challenges \ {c} : rows[d].status = "queued" => Before(rows[c], rows[d])

Goto(a, pc) == agents' = [agents EXCEPT ![a].pc = pc]

(* Nothing queued, or a challenge it is done with: the agent sleeps, and   *)
(* polls again.                                                            *)
get_next_challenge(a, c) ==
    /\ agents[a].pc = "poll"
    /\ IsNext(c)
    /\ c \notin agents[a].processed
    /\ agents' = [agents EXCEPT ![a].pc = "mark", ![a].job = c]
    /\ UNCHANGED <<rows, entered, blobs, verdicts, escalations>>

(* Faulty variant: the status is not asked for.                            *)
mark_verifying_Always(a) ==
    /\ agents[a].pc = "mark"
    /\ rows' = [rows EXCEPT ![agents[a].job].status = "verifying"]
    /\ Goto(a, "verify")
    /\ UNCHANGED <<entered, blobs, verdicts, escalations>>

(* Faulty variant: the row is left as it is.                               *)
mark_verifying_Never(a) ==
    /\ agents[a].pc = "mark"
    /\ Goto(a, "verify")
    /\ UNCHANGED <<rows, entered, blobs, verdicts, escalations>>

(* Only a row that is queued is marked; the agent does not look at the     *)
(* answer and goes on in any case.                                         *)
mark_verifying(a) ==
    /\ agents[a].pc = "mark"
    /\ rows' = [rows EXCEPT ![agents[a].job].status = IF @ = "queued" THEN "verifying" ELSE @]
    /\ Goto(a, "verify")
    /\ UNCHANGED <<entered, blobs, verdicts, escalations>>

Evidence(c) == IF c \in blobs THEN Blob[c] ELSE Inline[c]

(* A proof type that does not exist fails the challenge.  An exception     *)
(* goes to the handler in process_queue, and the row stays "verifying".    *)
verify_challenge(a) ==
    LET c == agents[a].job IN
    /\ agents[a].pc = "verify"
    /\ IF rows[c].proof_type \notin ProofTypes
       THEN /\ rows' = [rows EXCEPT ![c].status = "failed"]
            /\ agents' = [agents EXCEPT ![a] = Done(a)]
       ELSE /\ agents' = [agents EXCEPT ![a] =
                            IF Evidence(c) = Malformed THEN Raised(a)
                            ELSE [@ EXCEPT !.pc = "verified",
                                    !.is_valid = verify_proof(rows[c].proof_type, Evidence(c))]]
            /\ UNCHANGED rows
    /\ UNCHANGED <<entered, blobs, verdicts, escalations>>

(* The row is overwritten, whatever its status.                            *)
mark_verified(a) ==
    LET c == agents[a].job IN
    /\ agents[a].pc = "verified"
    /\ rows' = [rows EXCEPT ![c].status = "verified", ![c].is_valid = agents[a].is_valid]
    /\ Goto(a, "publish")
    /\ UNCHANGED <<entered, blobs, verdicts, escalations>>

(* Publishing may fail: the exception is caught in process_queue.          *)
publish_verdict(a) ==
    /\ agents[a].pc = "publish"
    /\ \/ /\ verdicts' = verdicts \cup {[challenge |-> agents[a].job, verifier |-> a,
                                         is_valid |-> agents[a].is_valid]}
          /\ agents' = [agents EXCEPT ![a] = Done(a)]
       \/ /\ agents' = [agents EXCEPT ![a] = Raised(a)]
          /\ UNCHANGED verdicts
    /\ UNCHANGED <<rows, entered, blobs, escalations>>

process_queue(a) ==
    \/ \E c \in Challenges : get_next_challenge(a, c)
    \/ mark_verifying(a)
    \/ verify_challenge(a)
    \/ mark_verified(a)
    \/ publish_verdict(a)

(* The evidence of a challenge reaches the CAS.                            *)
PutBlob(c) ==
    /\ c \notin blobs
    /\ blobs' = blobs \cup {c}
    /\ UNCHANGED <<rows, entered, agents, verdicts, escalations>>

-----------------------------------------------------------------------------
(* EscalationHandler.  All agents state the same confidence, 0.9.          *)
check_escalation_needed(given, bond_amount) ==
    LET upheld == Cardinality({v \in given : v.is_valid})
        total == Cardinality(given)
    IN  CASE total = 0 -> "NONE"
          [] total > 0 /\ 10 * Min({upheld, total - upheld}) >= 3 * total -> "VERIFIER_CONSENSUS"
          [] total > 0 /\ 10 * Min({upheld, total - upheld}) < 3 * total ->
               IF bond_amount >= 500 THEN "GOVERNANCE_VOTE" ELSE "NONE"

escalate_if_disagree(c) ==
    LET given == {v \in verdicts : v.challenge = c}
        level == check_escalation_needed(given, rows[c].priority)
    IN
    /\ level # "NONE"
    /\ \A x \in escalations : x.challenge # c
    /\ escalations' = escalations \cup {[challenge |-> c, level |-> level, resolved |-> FALSE]}
    /\ UNCHANGED <<rows, entered, agents, blobs, verdicts>>

resolve_escalation(x) ==
    /\ x \in escalations /\ ~x.resolved
    /\ escalations' = (escalations \ {x}) \cup {[x EXCEPT !.resolved = TRUE]}
    /\ UNCHANGED <<rows, entered, agents, blobs, verdicts>>

QueueCall ==
    \/ \E c \in Challenges : PutBlob(c) \/ escalate_if_disagree(c)
    \/ \E x \in escalations : resolve_escalation(x)

-----------------------------------------------------------------------------
Settled(c) == rows[c].status \in {"verified", "failed"}

(* Two agents may hold the same challenge, and mark_verifying of the slow  *)
(* one may come after mark_verified of the fast one: a challenge that is   *)
(* settled still never goes back to an unsettled status (queue.py 177-248).*)
SettledStays == [][\A c \in Challenges : Settled(c) => Settled(c)']_queueVars

(* A challenge that can be judged is: neither a challenge whose            *)
(* verification raises nor a verdict that cannot be published stops the    *)
(* others (challenge_verifier.py 111-143).                                 *)
EveryChallengeSettles ==
    \A c \in Challenges :
      (rows[c].status = "queued" /\ Malformed \notin {Inline[c], Blob[c]}) ~> Settled(c)
=============================================================================
