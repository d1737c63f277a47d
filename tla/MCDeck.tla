--------------------------------- MODULE MCDeck ---------------------------------
EXTENDS Deck

(* The last card starts in the Later pile, and needs something. *)
MCLast == {Cards}
=============================================================================
