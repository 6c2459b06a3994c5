----------------------------- MODULE MCTaskBase -----------------------------
(* TaskBase for TLC; every constant is in the cfg.                             *)
EXTENDS TaskBase
=============================================================================
