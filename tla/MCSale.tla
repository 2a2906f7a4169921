------------------------------- MODULE MCSale -------------------------------
(***************************************************************************)
(* Two accounts with one character each, standing together, two cars and   *)
(* an item they do not trade; ben's character predates the money migration *)
(* and has no money.  A save that claims to have none left makes a buyer   *)
(* who is short and a promise its owner can no longer keep.                *)
(***************************************************************************)
EXTENDS Sale, TLC

CONSTANTS ann, bob, ana, ben, chip, car1, car2, t1, t2

MCOwner == ana :> ann @@ ben :> bob
MCSlotCount == ann :> 1 @@ bob :> 1
MCStart ==
  [c \in Chars |-> IF c = ben THEN [money |-> 0, items |-> chip :> 1, revision |-> 0]
                   ELSE [money |-> 1, items |-> chip :> 1, revision |-> 1]]
MCPlaces == {0}
MCSaves == {[money |-> 0, items |-> chip :> 1]}
MCSymmetry == Permutations(Cars) \cup Permutations(Tokens)
=============================================================================
