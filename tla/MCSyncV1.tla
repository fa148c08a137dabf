----------------------------- MODULE MCSyncV1 -----------------------------
(* Instances of SyncV1. *)
EXTENDS SyncV1, TLC

CONSTANTS a, b, note, todo, d1, d2

MCClones == {a, b}
MCPaths == {note}
MCTwoPaths == {note, todo}
MCDatum == {d1}
MCData == {d1, d2}

\* Clones are alike, and so are contents.
MCSymmetry == Permutations(MCClones) \cup Permutations(MCData)

=============================================================================
