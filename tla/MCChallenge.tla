---------------------------- MODULE MCChallenge -----------------------------
(***************************************************************************)
(* Small instance of Challenge: one task, one challenger, two agents.      *)
(* Judging the evidence that comes with challenge 2 raises, challenge 4 is *)
(* borne out by its blob only.                                             *)
(***************************************************************************)
EXTENDS Challenge

MCPayloads ==
    {[task |-> "t1", proof_type |-> "SCHEMA_VIOLATION", complexity |-> x, size_bytes |-> 10240,
      gas_estimate |-> 100000, hash_length |-> 64] : x \in {"SIMPLE", "COMPLEX"}}

MCInline == [c \in {2, 4} |->
    IF c = 2 THEN Malformed
    ELSE [expected_schema |-> [f |-> "integer"], actual_output |-> [f |-> "bool"],
          violations |-> {"f", "g"}]]

MCBlob == [c \in {2, 4} |->
    [expected_schema |-> [f |-> "integer"], actual_output |-> [g |-> "int"],
     violations |-> {"f"}]]
=============================================================================
