------------------------------- MODULE MCTcp -------------------------------
(* One client, which connects again, and two dispatchers; bytes of one bit, so that a
   message of three bytes is the longest that fits in a frame. *)
EXTENDS Tcp

SmallMessages == <<<<0, 1, 1>>, <<>>>>
=============================================================================
