------------------------------ MODULE SafePath ------------------------------
(* The file operations everything else is built on (safe_path.rs).  A file   *)
(* is written, created or removed, a symlink made or removed, an empty       *)
(* directory removed, under a name below a directory; the path to it is      *)
(* opened step by step, never through a link, and held.                      *)
(*                                                                           *)
(* Several commands and a person use the same name; an operation fails or is *)
(* killed at any step, and the power goes.  What is not durable may be lost. *)
EXTENDS Integers, FiniteSets, SequencesExt

CONSTANTS
    Procs,       \* commands; also the file that each of them writes
    User, None,
    MaxTroubles, \* failures, kills and power cuts
    MaxTouches   \* what the person does

\* What is assumed of them.
SafePathAssumption ==
    /\ IsFiniteSet(Procs) /\ None \notin Procs /\ User \notin Procs
    /\ (Procs \cup {None}) \cap {"file", "link", "empty", "full"} = {}
    /\ {MaxTroubles, MaxTouches} \subseteq Nat

\* A directory that may be there, one that may be made, and what a link leads to.
Outside == "elsewhere"
Dirs == {"old", "new", Outside}
Kinds == {"write", "create", "symlink", "remove", "unlink", "rmdir"}
Directories == {"empty", "full"}
Theirs == {None, "file", "link"} \cup Directories      \* what a person puts there
Regular == Procs \cup {"file"}

VARIABLES
    os,        \* the platform
    name,      \* what has the parent's name: a directory, "link", or None
    made,      \* the directories that exist
    fresh,     \* those whose own name is not durable
    log,       \* per directory, the entries its disk may come back with; the last is current
    kind,      \* what each command does
    pc, held, fate,
    temp,      \* does its temporary file have a name?
    data,      \* its file: "none", "part", "written", "synced", "torn"
    grave,     \* what it has moved aside to remove
    troubles, touches

cmd == <<pc, held, fate>>
disk == <<name, made, fresh>>
vars == <<os, disk, log, kind, cmd, temp, data, grave, troubles, touches>>

Leaf(p) == Last(log[held[p]]).is
Running(p) == pc[p] # "done"
Go(p, step) == pc' = [pc EXCEPT ![p] = step] /\ UNCHANGED <<held, fate>>
End(p, how) ==
    pc' = [pc EXCEPT ![p] = "done"] /\ fate' = [fate EXCEPT ![p] = how] /\ UNCHANGED held
Trouble == troubles < MaxTroubles /\ troubles' = troubles + 1
Still == UNCHANGED <<os, kind, touches>>
Hold(p, d, step) ==
    pc' = [pc EXCEPT ![p] = step] /\ held' = [held EXCEPT ![p] = d] /\ UNCHANGED fate

\* A change of the directory: durable at once on Windows (MOVEFILE_WRITE_THROUGH).
Put(p, e) ==
    LET entry == [is |-> e, by |-> p]
    IN log' = [log EXCEPT ![held[p]] =
                 IF os = "windows" THEN <<entry>> ELSE Append(@, entry)]

Init ==
    /\ os \in {"unix", "windows"}
    /\ kind \in [Procs -> Kinds]
    /\ made = {"old"} /\ fresh = {}
    /\ \E e \in Theirs :
         /\ log = [d \in Dirs |-> <<[is |-> IF d = "old" THEN e ELSE None, by |-> User]>>]
         /\ name \in (IF e = None THEN {"old", None} ELSE {"old"})
    /\ pc = [p \in Procs |-> "open"]
    /\ held = [p \in Procs |-> None]
    /\ fate = [p \in Procs |-> "none"]
    /\ temp = [p \in Procs |-> FALSE]
    /\ data = [p \in Procs |-> "none"]
    /\ grave = [p \in Procs |-> None]
    /\ troubles = 0 /\ touches = 0

----------------------------------------------------------------------------
(* The way to the parent: one held component at a time *)

Removes(p) == kind[p] \in {"remove", "unlink", "rmdir"}
Unsupported(p) == os = "windows" /\ kind[p] \in {"symlink", "unlink"}

OpenParent(p) ==
    /\ pc[p] \in {"open", "reopen"}
    /\ ~Unsupported(p)
    /\ name \in made
    /\ Hold(p, name, "look")
    /\ Still /\ UNCHANGED <<disk, log, temp, data, grave, troubles>>

\* Nothing is there: what was to be removed is absent, and a writer makes it.
ParentMissing(p) ==
    /\ pc[p] = "open"
    /\ ~Unsupported(p)
    /\ name = None
    /\ IF Removes(p) THEN End(p, "absent") ELSE Go(p, "make")
    /\ Still /\ UNCHANGED <<disk, log, temp, data, grave, troubles>>

\* Somebody else may have made it meanwhile.  Nothing makes its name durable.
MakeParent(p) ==
    /\ pc[p] = "make"
    /\ IF name = None /\ Dirs # made \cup {Outside}
         THEN \E d \in Dirs \ (made \cup {Outside}) :
                name' = d /\ made' = made \cup {d} /\ fresh' = fresh \cup {d}
         ELSE UNCHANGED disk
    /\ Go(p, "reopen")
    /\ Still /\ UNCHANGED <<log, temp, data, grave, troubles>>

\* A link, or nothing although it was just made; symlinks are not for Windows.
ParentRefused(p) ==
    /\ \/ pc[p] \in {"open", "reopen"} /\ (name = "link" \/ Unsupported(p))
       \/ pc[p] = "reopen" /\ name = None
    /\ End(p, "failed")
    /\ Still /\ UNCHANGED <<disk, log, temp, data, grave, troubles>>

----------------------------------------------------------------------------
(* The entry: looked at, and changed later *)

\* What each operation goes on with.
Suits(p, e) ==
    CASE kind[p] = "write" -> e \in Regular \cup {None}
      [] kind[p] = "create" -> e = None
      [] kind[p] = "symlink" -> TRUE
      [] kind[p] = "remove" -> e \in Regular
      [] kind[p] = "unlink" -> e = "link"
      [] kind[p] = "rmdir" -> e \in Directories

After(p) ==
    CASE kind[p] \in {"write", "create"} -> "stage"
      [] kind[p] = "symlink" -> "install"
      [] OTHER -> "detach"

LeafKind(p) ==
    /\ pc[p] = "look"
    /\ \/ Suits(p, Leaf(p)) /\ Go(p, After(p))
       \/ ~Suits(p, Leaf(p)) /\ End(p, IF Removes(p) /\ Leaf(p) = None THEN "absent" ELSE "failed")
    /\ Still /\ UNCHANGED <<disk, log, temp, data, grave, troubles>>

\* Mutant of Stage: the file is written and not made durable.
StageUnsynced(p) ==
    /\ \E step \in {<<"stage", "part", "fill">>, <<"fill", "written", "install">>} :
         /\ pc[p] = step[1]
         /\ data' = [data EXCEPT ![p] = step[2]]
         /\ Go(p, step[3])
    /\ temp' = [temp EXCEPT ![p] = TRUE]
    /\ Still /\ UNCHANGED <<disk, log, grave, troubles>>

\* The new file is written under a name of its own, and made durable.
Stage(p) ==
    /\ \E step \in {<<"stage", "part", "fill">>, <<"fill", "written", "flush">>,
                    <<"flush", "synced", "install">>} :
         /\ pc[p] = step[1]
         /\ data' = [data EXCEPT ![p] = step[2]]
         /\ Go(p, step[3])
    /\ temp' = [temp EXCEPT ![p] = TRUE]
    /\ Still /\ UNCHANGED <<disk, log, grave, troubles>>

StageFails(p) ==
    /\ pc[p] \in {"stage", "fill", "flush"}
    /\ Trouble
    /\ temp' = [temp EXCEPT ![p] = FALSE]
    /\ End(p, "failed")
    /\ Still /\ UNCHANGED <<disk, log, data, grave>>

\* May the file or link take the name now?  A write replaces whatever is no directory
\* (rename), a create and a symlink nothing at all (link, symlinkat, no-replace move).
Fits(p) == IF kind[p] = "write" THEN Leaf(p) \notin Directories ELSE Leaf(p) = None

Install(p) ==
    /\ pc[p] = "install"
    /\ Fits(p)
    /\ Put(p, IF kind[p] = "symlink" THEN "link" ELSE p)
    /\ IF kind[p] = "create" /\ os = "unix"
         THEN Go(p, "untemp") /\ UNCHANGED temp
         ELSE /\ temp' = [temp EXCEPT ![p] = FALSE]
              /\ IF os = "unix" THEN Go(p, "sync") ELSE End(p, "ok")
    /\ Still /\ UNCHANGED <<disk, data, grave, troubles>>

InstallFails(p) ==
    /\ pc[p] = "install"
    /\ \/ ~Fits(p) /\ UNCHANGED troubles
       \/ Fits(p) /\ Trouble
    /\ temp' = [temp EXCEPT ![p] = FALSE]
    /\ End(p, "failed")
    /\ Still /\ UNCHANGED <<disk, log, data, grave>>

\* A Unix create has linked its file to the name and drops the other one.
Untemp(p) ==
    /\ pc[p] = "untemp"
    /\ \/ temp' = [temp EXCEPT ![p] = FALSE] /\ Go(p, "sync") /\ UNCHANGED troubles
       \/ Trouble /\ End(p, "late") /\ UNCHANGED temp
    /\ Still /\ UNCHANGED <<disk, log, data, grave>>

SyncParent(p) ==
    /\ pc[p] = "sync"
    /\ \/ log' = [log EXCEPT ![held[p]] = <<Last(@)>>] /\ End(p, "ok") /\ UNCHANGED troubles
       \/ Trouble /\ End(p, "late") /\ UNCHANGED log
    /\ Still /\ UNCHANGED <<disk, temp, data, grave>>

----------------------------------------------------------------------------
(* Removal *)

\* Unix takes away what is there now: no directory for a file, none that is in use.
Removable(p) ==
    IF kind[p] = "rmdir" THEN Leaf(p) = "empty" ELSE Leaf(p) \notin Directories

Unlink(p) ==
    /\ pc[p] = "detach" /\ os = "unix"
    /\ \/ Leaf(p) = None /\ End(p, "absent") /\ UNCHANGED log
       \/ Leaf(p) # None /\ ~Removable(p) /\ End(p, "failed") /\ UNCHANGED log
       \/ Leaf(p) # None /\ Removable(p) /\ Put(p, None) /\ Go(p, "sync")
    /\ Still /\ UNCHANGED <<disk, temp, data, grave, troubles>>

\* Windows renames it to a tombstone, whatever it is by now, ...
MoveAside(p) ==
    /\ pc[p] = "detach" /\ os = "windows"
    /\ \/ Leaf(p) = None /\ End(p, "absent") /\ UNCHANGED <<log, grave>>
       \/ /\ Leaf(p) # None
          /\ Put(p, None)
          /\ grave' = [grave EXCEPT ![p] = Leaf(p)]
          /\ Go(p, "bury")
    /\ Still /\ UNCHANGED <<disk, temp, data, troubles>>

DetachFails(p) ==
    /\ pc[p] = "detach"
    /\ Trouble
    /\ End(p, "failed")
    /\ Still /\ UNCHANGED <<disk, log, temp, data, grave>>

\* ... and removes the tombstone if it can.
Buriable(p) == IF kind[p] = "rmdir" THEN grave[p] = "empty" ELSE grave[p] \notin Directories

Bury(p) ==
    /\ pc[p] = "bury"
    /\ \/ /\ Buriable(p)
          /\ grave' = [grave EXCEPT ![p] = None] /\ End(p, "ok") /\ UNCHANGED troubles
       \/ ~Buriable(p) /\ End(p, "late") /\ UNCHANGED <<grave, troubles>>
       \/ Buriable(p) /\ Trouble /\ End(p, "late") /\ UNCHANGED grave
    /\ Still /\ UNCHANGED <<disk, log, temp, data>>

----------------------------------------------------------------------------
(* The world *)

Kill(p) ==
    /\ Running(p)
    /\ Trouble
    /\ End(p, "killed")
    /\ Still /\ UNCHANGED <<disk, log, temp, data, grave>>

\* Each directory comes back with an entry it had since it was last synced, and a file
\* that was not synced with a part of its bytes.
PowerCut ==
    /\ Trouble
    /\ \E at \in [Dirs -> 1..(1 + MaxTouches + Cardinality(Procs))] :
         /\ \A d \in Dirs : at[d] <= Len(log[d])
         /\ log' = [d \in Dirs |-> <<log[d][at[d]]>>]
    /\ \E lost \in SUBSET fresh :
         /\ name' = IF name \in lost THEN None ELSE name
         /\ made' = made \ lost /\ fresh' = fresh \ lost
    /\ data' = [p \in Procs |-> IF data[p] \in {"part", "written"} THEN "torn" ELSE data[p]]
    /\ pc' = [p \in Procs |-> "done"]
    /\ fate' = [p \in Procs |-> IF Running(p) THEN "killed" ELSE fate[p]]
    /\ UNCHANGED <<os, kind, held, temp, grave, touches>>

Touched == touches < MaxTouches /\ touches' = touches + 1

\* A person puts another entry under the name, ...
Touch(e) ==
    /\ Touched
    /\ name \in made /\ Last(log[name]).is # e
    /\ log' = [log EXCEPT ![name] = Append(@, [is |-> e, by |-> User])]
    /\ UNCHANGED <<os, disk, kind, cmd, temp, data, grave, troubles>>

\* ... or another thing in the place of the parent, which Windows refuses while it is held.
Swap(other) ==
    /\ Touched
    /\ name # other
    /\ os = "windows" => \A p \in Procs : Running(p) => held[p] # name
    /\ name' = other
    /\ UNCHANGED <<os, made, fresh, log, kind, cmd, temp, data, grave, troubles>>

----------------------------------------------------------------------------

Step(p) ==
    \/ OpenParent(p) \/ ParentMissing(p) \/ MakeParent(p) \/ ParentRefused(p) \/ LeafKind(p)
    \/ Stage(p) \/ Install(p) \/ InstallFails(p) \/ Untemp(p) \/ SyncParent(p)
    \/ Unlink(p) \/ MoveAside(p) \/ Bury(p)

Next ==
    \/ \E p \in Procs : Step(p) \/ StageFails(p) \/ DetachFails(p) \/ Kill(p)
    \/ PowerCut
    \/ \E e \in Theirs : Touch(e)
    \/ \E other \in made \cup {"link", None} : Swap(other)

Spec == Init /\ [][Next]_vars

\* A running operation goes on.
FairSpec == Spec /\ \A p \in Procs : WF_vars(Step(p))

----------------------------------------------------------------------------
(* Properties *)

\* The types, and: a name is given only to a file that is whole and durable.
TypeOK ==
    /\ name \in made \cup {"link", None} /\ made \subseteq Dirs \ {Outside} /\ fresh \subseteq made
    /\ \A d \in Dirs : \A i \in DOMAIN log[d] :
         log[d][i] \in [is : Theirs \cup Procs, by : Procs \cup {User}]
    /\ held \in [Procs -> Dirs \cup {None}] /\ temp \in [Procs -> BOOLEAN]
    /\ grave \in [Procs -> Theirs \cup Procs]
    /\ \A p \in Procs : fate[p] = "none" <=> Running(p)

\* "A failed write leaves nothing": an operation that is refused, fails or succeeds leaves
\* no temporary file and no tombstone; only a kill, a failure after the effect, or what
\* Windows has moved aside and cannot remove does (safe_path.rs 813-872, 1333-1388).
NoDebris ==
    \A p \in Procs :
        /\ fate[p] \in {"ok", "absent", "failed"} => ~temp[p] /\ grave[p] = None
        /\ fate[p] = "late" => troubles > 0 \/ grave[p] # None

told == [p \in Procs |-> IF pc[p] \in {"untemp", "sync", "bury"} THEN "acted" ELSE fate[p]]
Content(e) == IF e \in Procs /\ data[e] \notin {"written", "synced"} THEN "torn" ELSE e
contents ==
    [d \in Dirs |-> [i \in DOMAIN log[d] |-> [is |-> Content(log[d][i].is), by |-> log[d][i].by]]]

AF == INSTANCE AtomicFile WITH log <- contents, fate <- told

\* An operation takes effect at once or not at all, through kills, failures, power cuts
\* and whatever others do to the name or its parent; nothing outside the directory that
\* was opened is touched, success means that the effect lasts, and a plain error that
\* there was none.
WritesAreAtomic == AF!Spec

\* "so keep the non-empty directory intact" (commands.rs:4260-4263): removing an empty
\* directory takes away none that has something in it, not even by putting it under another name.
FullDirsStay ==
    \A p \in Procs : kind[p] = "rmdir" /\ ~Running(p) => grave[p] # "full"

=============================================================================
