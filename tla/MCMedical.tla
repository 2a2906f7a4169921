----------------------------- MODULE MCMedical -----------------------------
(* Two players, two places out of treating range and within shooting range. *)
EXTENDS Medical

CONSTANTS ana, ben

MCPlaces == {0, 2}
MCDamages == {1, 2}
=============================================================================
