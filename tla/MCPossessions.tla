--------------------------- MODULE MCPossessions ---------------------------
(* An account with one slot, what an ordinary player is entitled to. *)
EXTENDS Possessions, TLC
=============================================================================
