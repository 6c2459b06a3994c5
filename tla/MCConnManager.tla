--------------------------- MODULE MCConnManager ---------------------------
(* Two pools, the second of which may find its own id in the memory it gets. *)
EXTENDS ConnManager

SmallJunk == {-1, 7}
=============================================================================
