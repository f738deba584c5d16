--------------------------- MODULE MCServices -------------------------------
(* Small instance of Services.                                             *)
EXTENDS Services

CONSTANTS raise, reset, k1, k2, o1

(* reset proposes a value that was the default; raise changes two          *)
(* parameters.                                                             *)
MCChanges == [p \in {raise, reset} |->
    IF p = raise THEN [k_plan |-> 5, slashing_percentage |-> 100] ELSE [k_plan |-> 3]]

(* strong and weak differ in reputation only, skilled in its capabilities. *)
MCSubmitters == [a \in {"strong", "weak", "skilled"} |->
    [reputation |-> IF a = "strong" THEN 8 ELSE 5,
     capabilities |-> IF a = "skilled" THEN {"x", "y"} ELSE {}]]

MCPayloads == {[complexity |-> 1, requires |-> {"x"}], [complexity |-> 3, requires |-> {}]}

(* A manifest may list a capability twice.                                 *)
MCManifests == {<<"x">>, <<"y">>, <<"x", "y">>, <<"y", "y">>, <<"y", "x", "y">>}

(* A message of a moment ago, and one that is on its way for long.         *)
MCGossipPeers == {k1, k2}
MCArriving == {[from |-> k1, topic |-> o1, at |-> 2], [from |-> k2, topic |-> o1, at |-> 0]}

MCMaxCalls == [market |-> 6, registry |-> 6, governance |-> 8, channels |-> 7, breaker |-> 12, limiter |-> 8,
               auction |-> 6, lamport |-> 8, hybrid |-> 9, gossip |-> 6, peers |-> 6]
=============================================================================
