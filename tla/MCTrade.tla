------------------------------ MODULE MCTrade ------------------------------
(***************************************************************************)
(* Two accounts and three characters: ann plays ana or abe, bob plays ben. *)
(* Three places: 0 and 1 are within trading reach, 0 and 4 are beyond the  *)
(* distance at which the timer ends a trade.                               *)
(***************************************************************************)
EXTENDS Trade, TLC

CONSTANTS ann, bob, ana, abe, ben, chip

MCOwner == [c \in Chars |-> IF c = ben THEN bob ELSE ann]
MCSlotCount == ann :> 2 @@ bob :> 1
\* abe is a character from before the money migration, the others are migrated.
MCStart ==
  [c \in Chars |-> [money |-> IF c = abe THEN 0 ELSE 1,
                    items |-> chip :> IF c = ana THEN 1 ELSE 0,
                    revision |-> IF c = abe THEN 0 ELSE 1]]
MCPlaces == {0, 4}
MCNoSaves == {}
=============================================================================
