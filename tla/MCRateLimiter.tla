---------------------------- MODULE MCRateLimiter ----------------------------
(***************************************************************************)
(* Instances of RateLimiter for TLC: the two buckets of one client.        *)
(***************************************************************************)
EXTENDS RateLimiter

\* As the settings have it, more reads than writes.
Limits == [k \in Keys |-> IF k = "ip:read" THEN 2 ELSE 1]
=============================================================================
