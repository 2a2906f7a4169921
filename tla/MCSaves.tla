------------------------------ MODULE MCSaves ------------------------------
(***************************************************************************)
(* Two deals of any kind, two steps of a write that fail, and two ends of   *)
(* the process, anywhere.                                                  *)
(***************************************************************************)
EXTENDS Saves, TLC
=============================================================================
