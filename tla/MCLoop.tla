------------------------------- MODULE MCLoop -------------------------------
(* Loop for TLC; every constant is in the cfgs.                                *)
EXTENDS Loop
=============================================================================
