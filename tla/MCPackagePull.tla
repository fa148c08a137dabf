---------------------------- MODULE MCPackagePull ----------------------------
(* Small instances of PackagePull: two companions, or one and a symlink. *)
EXTENDS PackagePull

CONSTANTS readme, tool

MCPaths == {readme, tool}

=============================================================================
