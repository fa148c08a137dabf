---------------------------- MODULE AtomicStore -----------------------------
(***************************************************************************)
(* What an unforced pull promises about the clone (src/commands.rs, pull): *)
(* the files and the baseline change together, from one hosted snapshot to *)
(* a later one, and only while the files are exactly what the baseline     *)
(* says.  Everything else that happens to a file is the user's doing.      *)
(***************************************************************************)
EXTENDS Naturals

CONSTANTS Paths, HubData, UserData, Absent

VARIABLES remote, store, base

Snapshot == [seq : Nat, files : [Paths -> HubData \cup {Absent}]]

Init ==
    /\ remote \in [seq : {1}, files : [Paths -> HubData \cup {Absent}]]
    /\ base = remote
    /\ store = base.files

\* The hub publishes another snapshot.
Publish ==
    /\ remote'.seq = remote.seq + 1
    /\ remote'.files \in [Paths -> HubData \cup {Absent}]
    /\ UNCHANGED <<store, base>>

\* The user rewrites or deletes one file.
Edit(p) ==
    /\ \E d \in UserData \cup {Absent} : store' = [store EXCEPT ![p] = d]
    /\ UNCHANGED <<remote, base>>

\* A file is again what the baseline says.  The user may do this; so may the
\* recovery of an interrupted pull, to a file the user deleted which that pull
\* was deleting too: it cannot tell the two deletions apart.
Revert(p) ==
    /\ store' = [store EXCEPT ![p] = base.files[p]]
    /\ UNCHANGED <<remote, base>>

\* The clone moves to a snapshot the hub has published, all at once.
Pull ==
    /\ store = base.files
    /\ base'.seq \in base.seq + 1 .. remote.seq
    /\ base'.seq = remote.seq => base' = remote
    /\ store' = base'.files
    /\ UNCHANGED remote

Next ==
    \/ Publish
    \/ Pull
    \/ \E p \in Paths : Edit(p) \/ Revert(p)

Spec == Init /\ [][Next]_<<remote, store, base>>

=============================================================================
