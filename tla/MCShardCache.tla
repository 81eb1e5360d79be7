---------------------------- MODULE MCShardCache ----------------------------
(* Two shards, a certificate in each and a second one in the first, so a  *)
(* one-entry cache evicts while a Store still holds the entry.            *)
EXTENDS ShardCache

CONSTANTS c1, c2, c3, shA, shB, u1, u2, u3

MCShardOf == [c \in {c1, c2, c3} |-> IF c = c2 THEN shB ELSE shA]
MCUrlOf   == [c \in {c1, c2, c3} |-> CASE c = c1 -> u1 [] c = c2 -> u2 [] OTHER -> u3]
=============================================================================
