------------------------------- MODULE MCAdopt -------------------------------
(* A small instance of Adopt: two markdown files and an asset that hold two *)
(* credentials, two of which may have the same contextual name.             *)
EXTENDS Adopt

CONSTANTS p1, p2, a, v, w

MCPaths == {p1, p2}
MCAssets == {a}
MCValues == {v, w}

=============================================================================
