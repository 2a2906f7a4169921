------------------------------ MODULE MCCalls ------------------------------
(***************************************************************************)
(* Three accounts with a character each, so that somebody can ring a       *)
(* person who is on a call; with two, whose characters can be retired,     *)
(* slots emptied and numbers blocked as well.                              *)
(***************************************************************************)
EXTENDS Calls, TLC

CONSTANTS ann, bob, cat, ana, ben, cyd

MCOwner == [c \in Chars |-> CASE c = ana -> ann [] c = ben -> bob [] c = cyd -> cat]
MCStartSlot ==
  [a \in Accounts |-> CASE a = ann -> ana [] a = bob -> ben [] a = cat -> cyd]
MCSlotCount == [a \in Accounts |-> 1]
MCBlockable == {<<ben, ana>>}

\* Everybody is alike: an account and its character change places together.
MCSymmetry ==
  {p @@ [c \in Chars |-> MCStartSlot[p[MCOwner[c]]]] : p \in Permutations(Accounts)}
=============================================================================
