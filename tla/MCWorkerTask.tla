---------------------------- MODULE MCWorkerTask ----------------------------
(* WorkerTask for TLC.  Addresses are interchangeable.                          *)
EXTENDS WorkerTask, TLC

AddrSymmetry == Permutations(Addrs)
=============================================================================
