----------------------------- MODULE MCBackends -----------------------------
(* Two dates and two issuers, so the mock inserts an issuer before another *)
(* and notBefore splits the dates; two serials, so a shard's slice holds   *)
(* more than one PEM; one log with two checkpoint values, so an upsert can *)
(* overwrite an earlier checkpoint.                                        *)
EXTENDS Backends

CONSTANTS s1, s2, l1
=============================================================================
