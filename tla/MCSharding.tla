----------------------------- MODULE MCSharding -----------------------------
(***************************************************************************)
(* Small instances of Sharding and Economy, which share no state: a        *)
(* behaviour is one of a single part, the other stays as it began.         *)
(***************************************************************************)
EXTENDS Sharding, Economy

CONSTANT Parts         \* the parts this instance is about

VARIABLE part          \* the part that this behaviour is about

PartInit == Init /\ EconomyInit /\ part \in Parts

PartNext ==
    /\ UNCHANGED part
    /\ \/ part = "sharding" /\ Next /\ UNCHANGED economyVars
       \/ part = "economy" /\ EconomyNext /\ UNCHANGED vars

PartSpec == PartInit /\ [][PartNext]_<<vars, economyVars, part>>

-----------------------------------------------------------------------------
(* left and right wait for base, both for base and left; rival claims the  *)
(* shard and need of left.                                                 *)
CONSTANTS base, left, right, both, rival

MCHashes == {base, left, right, both, rival}

MCShardOf == [h \in MCHashes |->
    CASE h = base -> 0 [] h \in {left, rival, both} -> 1 [] h = right -> 2]

MCNeedOf == [h \in MCHashes |-> IF h \in {right, both} THEN "n2" ELSE "n1"]

MCDeps == [h \in MCHashes |->
    CASE h \in {left, right} -> {base}
      [] h = both -> {base, left}
      [] h \in {base, rival} -> {}]
=============================================================================
