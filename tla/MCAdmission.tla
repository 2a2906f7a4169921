---------------------------- MODULE MCAdmission ----------------------------
(***************************************************************************)
(* Three connections for two seats: ann's, the one she dials when the      *)
(* first has hung, and bob's.  Bob is an admin.                            *)
(***************************************************************************)
EXTENDS Admission, TLC

CONSTANTS ann, bob, c1, c2, c3

MCOwner == [c \in Conns |-> IF c = c3 THEN bob ELSE ann]

\* Ann leaves the guild.
MCChanges == {<<ann, "out">>}
=============================================================================
