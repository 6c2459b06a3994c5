----------------------------- MODULE MCRedisAsync -----------------------------
(* RedisAsync for TLC; the kinds of commands and the bounds are in the cfgs.    *)
EXTENDS RedisAsync, TLC

\* Channels are interchangeable (not used for liveness).
TopicSymmetry == Permutations(Topics)
=============================================================================
