------------------------- MODULE MCPullTransaction --------------------------
(* Small instances of PullTransaction: one text and one asset. *)
EXTENDS PullTransaction

CONSTANTS note, photo

MCPaths == {note, photo}
MCAssets == {photo}

=============================================================================
