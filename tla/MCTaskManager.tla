---------------------------- MODULE MCTaskManager ----------------------------
(* TaskManager with two workers: TLC takes every constant from the cfg.       *)
EXTENDS TaskManager
=============================================================================
