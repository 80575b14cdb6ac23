------------------------------ MODULE MCWorldMap ------------------------------
(***************************************************************************)
(* One tile for each way a tile is read: every type of extra data, known,  *)
(* skipped or neither, under a foreground that every build has; and tiles  *)
(* that have, want or refuse extra data for other reasons.                 *)
(***************************************************************************)
EXTENDS WorldMap

MCTile(fg, locked, extra, type, special) ==
    [foreground |-> fg, locked |-> locked, extra |-> extra, type |-> type, special |-> special]

ExtraTiles == {MCTile(0, FALSE, TRUE, t, FALSE) :
                  t \in Known \cup {5, 14, 35, 48, 55, 56, 63, 66, 75, 77}}
    \cup {MCTile(0, TRUE, TRUE, t, TRUE) : t \in {3, 9}}

MCTiles == ExtraTiles
    \cup {MCTile(0, TRUE, FALSE, 0, FALSE), MCTile(1, FALSE, FALSE, 3, FALSE),
          MCTile(1, TRUE, FALSE, 24, FALSE), MCTile(2, FALSE, FALSE, 0, FALSE),
          MCTile(2, FALSE, TRUE, 8, FALSE)}
=============================================================================
