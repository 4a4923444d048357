------------------------- MODULE MCProductStructure -------------------------
(* Placements over a turn and a swap, which do not commute.                *)
EXTENDS Occurrences

Turn == <<2, 3, 1>>
Swapped == <<2, 1, 3>>
MCPlaced == {Turn, Swapped}
MCFilePowers == {-1, 2}

(* Datums are told apart by their transforms alone: the turn comes first.  *)
TurnFirst == datums \in {<<>>, <<Turn>>, <<Turn, Swapped>>}
=============================================================================
