----------------------------- MODULE MCDeskSave -----------------------------
(* Two weeks, one block that can be moved, a few blocks to add.            *)
EXTENDS DeskSave

CONSTANTS m, a, p, q, x

TwoWeeks == {1, 2}
AllBlocks == {m, a, p, q, x}
=============================================================================
