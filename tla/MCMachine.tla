------------------------------ MODULE MCMachine ------------------------------
(* Small instances of Machine.  The two protocols a behaviour does not explore *)
(* rest in one fixed initial state.                                            *)
EXTENDS Machine

CONSTANTS p, q, k, s1, s2, s3

MCProcs == {p, q}
MCUserKeys == {k}
MCSessions == {s1, s2, s3}

MCInit ==
    /\ MachineInit
    /\ part # "update" => os = "linux"
    /\ part # "mcp" => signed

MCSpec == MCInit /\ [][MachineNext]_parts /\ MachineFairness

=============================================================================
