----------------------------- MODULE MCMessages ----------------------------
(***************************************************************************)
(* Two accounts, one of them with two characters, so that a text can come  *)
(* for a character its player is not playing; threads of one text.         *)
(***************************************************************************)
EXTENDS Messages, TLC

CONSTANTS ann, bob, ana, ben, bea

MCOwner == [c \in Chars |-> IF c = ana THEN ann ELSE bob]
MCStartSlot == [a \in Accounts |-> IF a = ann THEN ana ELSE ben]

\* Ana texts Ben, whose player has a second character; Ana and that character
\* also text Ben with request ids.
MCBlocks == (Chars \X Chars) \ {<<ben, ana>>}
MCAsked == {<<ana, ben>>, <<bea, ben>>}
=============================================================================
