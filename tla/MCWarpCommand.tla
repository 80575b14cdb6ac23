--------------------------- MODULE MCWarpCommand ---------------------------
(***************************************************************************)
(* Two net ids, so that one is reused; one tile, bare or full; an object   *)
(* whose id fits in 16 bits and one whose low 16 bits are the same.        *)
(***************************************************************************)
EXTENDS WarpCommand

MCGround == {NewTile, [foreground |-> Block, background |-> Block, extra |-> TRUE]}

\* Bound: warps are given where nothing was dropped, and nobody builds after one.
NoObjects == last_drop = 0 /\ drop_id = 0

MCNext ==
    \/ Moving /\ Meanwhile /\ (issued # 0 => NoObjects')
    \/ issued = 0 /\ Building /\ Meanwhile
    \/ \E arg \in Args : (NoObjects /\ Execute(arg)) \/ Refuse(arg)
    \/ ExitCommand
    \/ \E t \in waiting : Start(t)
    \/ \E t \in running : Join(t)

MCSpec == WarpInit /\ [][MCNext]_allvars
=============================================================================
