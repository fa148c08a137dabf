------------------------------- MODULE MCFiles -------------------------------
(* Small instances of Files.  The two protocols a behaviour does not explore   *)
(* rest in one fixed initial state.                                            *)
EXTENDS Files, TLC

CONSTANTS p, q, p1, p2, p3, p4, a, b, c

MCProcs == {p, q}
MCPaths == {p1, p2, p3, p4}
MCBlobs == {a, b, c}
MCDeclared == (p1 :> a) @@ (p2 :> a) @@ (p3 :> b) @@ (p4 :> c)
MCSecrets == {c}
MCKeepLists == {{}, {p1}, {p3}}
MCHoldings == {{}, {a}, MCBlobs}

AssetsRest == assetKind = "up" /\ kept = {} /\ local = MCDeclared /\ stored = MCBlobs
RestoreRests == kind = [r \in MCProcs |-> "clone1"] /\ defect = [r \in MCProcs |-> "none"]

\* The two are alike: it is enough to look at their kinds in one order.
KindOrder == <<"write", "create", "symlink", "remove", "unlink", "rmdir">>
PathKinds == \E i \in 1..6 : \E j \in i..6 : pathKind = (p :> KindOrder[i]) @@ (q :> KindOrder[j])
PathRests ==
    /\ os = "unix" /\ name = None
    /\ pathKind = [r \in MCProcs |-> "rmdir"]

MCInit ==
    /\ \/ part = "restore" /\ AssetsRest /\ PathRests
       \/ part = "assets" /\ RestoreRests /\ PathRests
       \/ part = "path" /\ RestoreRests /\ AssetsRest /\ PathKinds
    /\ FilesInit

MCSpec == MCInit /\ [][FilesNext]_parts /\ FilesFairness

=============================================================================
