--------------------------- MODULE MCMatchingBook ---------------------------
(* Small instances of the matching book for TLC. *)
EXTENDS MatchingBook

Ord(side, px, sz) == [side |-> side, px |-> px, sz |-> sz]
mc_Starts == {<<Ord("SEL", 2, 1), Ord("SEL", 3, 2), Ord("BUY", 1, 1)>>,
              <<Ord("BUY", 2, 2), Ord("BUY", 2, 1)>>}
=============================================================================
