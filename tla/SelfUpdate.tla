---------------------------- MODULE SelfUpdate -----------------------------
(* The signed self-update (update.rs, signing.rs): commands that run at the *)
(* same time look once a day for a newer release and put it in the place of *)
(* the program they were started from.                                      *)
(*                                                                          *)
(* A file is a number; built[f] says which release it is and whether it is  *)
(* what it claims to be.  A running program keeps the file it was started   *)
(* from: Windows lets it be renamed and neither replaced nor removed.       *)
EXTENDS Integers, Sequences

CONSTANTS
    Procs,       \* commands that may run at the same time; a pid is used again
    Platforms,   \* those to explore, of "linux", "macos", "windows"
    None,
    Newest,      \* releases are 1..Newest
    MaxFiles, MaxTroubles, MaxDays      \* bounds

ASSUME SelfUpdateAssumption ==
    /\ Platforms \subseteq {"linux", "macos", "windows"}
    /\ None \notin Nat
    /\ Newest \in Nat \ {0}
    /\ {MaxFiles, MaxTroubles, MaxDays} \subseteq Nat

\* What a download turns out to be: what the publisher released; something not
\* signed by a pinned key; something signed, whose digest the origin does not know.
Kinds == {"genuine", "unsigned", "unvouched"}

Steps == {"off", "clean", "run", "recheck", "stamp", "fetch", "download", "verify",
          "write", "aside", "swap", "drop"}

VARIABLES
    os,        \* the platform
    latest,    \* the release the hub reports
    built,     \* the files made so far: release and kind, or "partial"
    exe,       \* the file under the program's name, or None
    aside,     \* <exe>.old.<pid>
    staged,    \* <exe>.new.<pid>
    checked,   \* is update-check stamped today?
    pc, image, want, got,      \* each command's step, its own file, its locals
    spent      \* bounded steps taken

names == <<exe, aside, staged>>
vars == <<os, latest, built, names, checked, pc, image, want, got, spent>>

Files == 1..Len(built)
VERSION(p) == built[image[p]].v
Locked(f) == \E p \in Procs : pc[p] # "off" /\ image[p] = f
Go(p, step) == pc' = [pc EXCEPT ![p] = step] /\ UNCHANGED <<image, want, got>>
Trouble == spent.kills + spent.failures < MaxTroubles
Spend(what) == spent' = [spent EXCEPT ![what] = @ + 1]
Put(where, p, f) == [where EXCEPT ![p] = f]

\* A command ends, and its locals with it.
Leave(p) ==
    /\ pc' = [pc EXCEPT ![p] = "off"]
    /\ image' = Put(image, p, 1) /\ want' = Put(want, p, 1) /\ got' = Put(got, p, "genuine")

Init ==
    /\ os \in Platforms
    /\ latest = 1
    /\ built = <<[v |-> 1, kind |-> "genuine"]>>
    /\ exe = 1
    /\ aside = [p \in Procs |-> None] /\ staged = [p \in Procs |-> None]
    /\ checked = FALSE
    /\ pc = [p \in Procs |-> "off"] /\ image = [p \in Procs |-> 1]
    /\ want = [p \in Procs |-> 1] /\ got = [p \in Procs |-> "genuine"]
    /\ spent = [kills |-> 0, failures |-> 0, days |-> 0, full |-> FALSE,
              stranded |-> FALSE]

\* A command starts from the file that has the program's name.
Launch(p) ==
    /\ pc[p] = "off"
    /\ exe # None
    /\ image' = Put(image, p, exe)
    /\ pc' = Put(pc, p, "clean")
    /\ UNCHANGED <<os, latest, built, names, checked, want, got, spent>>

\* What earlier swaps parked is removed, unless a program still runs from it.
CleanupStaleSwaps(p) ==
    /\ pc[p] = "clean"
    /\ aside' = [q \in Procs |-> IF os = "windows" /\ ~Locked(aside[q])
                                   THEN None ELSE aside[q]]
    /\ Go(p, "run")
    /\ UNCHANGED <<os, latest, built, exe, staged, checked, spent>>

\* Mutant of MaybeAutoUpdate: the day's slot is taken when the check is found due.
MaybeAutoUpdateStamps(p) ==
    /\ pc[p] = "run"
    /\ IF checked THEN Leave(p) ELSE Go(p, "recheck")
    /\ checked' = TRUE
    /\ UNCHANGED <<os, latest, built, names, spent>>

\* The hub client finds the daily check due and leaves it for the end of main.
MaybeAutoUpdate(p) ==
    /\ pc[p] = "run"
    /\ IF checked THEN Leave(p) ELSE Go(p, "recheck")
    /\ UNCHANGED <<os, latest, built, names, checked, spent>>

\* `sevra update`
CmdUpdate(p) ==
    /\ pc[p] = "run"
    /\ Go(p, "fetch")
    /\ UNCHANGED <<os, latest, built, names, checked, spent>>

\* Looks again whether the check is due ...
Recheck(p) ==
    /\ pc[p] = "recheck"
    /\ IF checked THEN Leave(p) ELSE Go(p, "stamp")
    /\ UNCHANGED <<os, latest, built, names, checked, spent>>

\* ... and takes the day's slot, which another command may have done meanwhile.
Stamp(p) ==
    /\ pc[p] = "stamp"
    /\ checked' = TRUE
    /\ Go(p, "fetch")
    /\ UNCHANGED <<os, latest, built, names, spent>>

FetchVersions(p) ==
    /\ pc[p] = "fetch"
    /\ IF VERSION(p) < latest
         THEN /\ want' = Put(want, p, latest) /\ pc' = Put(pc, p, "download")
              /\ UNCHANGED <<image, got>>
         ELSE Leave(p)
    /\ UNCHANGED <<os, latest, built, names, checked, spent>>

\* The asset for the release and its signature.
Download(p, kind) ==
    /\ pc[p] = "download"
    /\ kind # "genuine" => Trouble /\ Spend("failures")
    /\ kind = "genuine" => UNCHANGED spent
    /\ got' = Put(got, p, kind) /\ pc' = Put(pc, p, "verify")
    /\ UNCHANGED <<os, latest, built, names, checked, image, want>>

\* Mutant of Approved: the signature alone is taken for approval.
ApprovedSigned(kind) == kind # "unsigned"

\* Both roots of trust: a pinned key signed it, and the origin expects its digest.
Approved(kind) == kind # "unsigned" /\ kind # "unvouched"

\* Linux: the file this program was started from lost its name to another update;
\* current_exe names it "... (deleted)".
Displaced(p) == os = "linux" /\ image[p] # exe

\* What such a command writes and renames has names nobody looks at.
Astray(p) ==
    /\ pc[p] = "verify"
    /\ Approved(got[p]) /\ Displaced(p)
    /\ Leave(p)
    /\ UNCHANGED <<os, latest, built, names, checked, spent>>

\* Whatever lies under the staged name is removed; the file there is a new one.
WriteStaged(p) ==
    /\ pc[p] = "verify"
    /\ Approved(got[p]) /\ ~Displaced(p)
    /\ Len(built) < MaxFiles
    /\ built' = Append(built, [v |-> want[p], kind |-> "partial"])
    /\ staged' = Put(staged, p, Len(built'))
    /\ Go(p, "write")
    /\ UNCHANGED <<os, latest, exe, aside, checked, spent>>

Refuse(p) ==
    /\ pc[p] = "verify"
    /\ ~Approved(got[p]) \/ (Len(built) = MaxFiles /\ ~Displaced(p))
    /\ spent' = [spent EXCEPT !.full = @ \/ Approved(got[p])]
    /\ Leave(p)
    /\ UNCHANGED <<os, latest, built, names, checked>>

Written(p) ==
    /\ pc[p] = "write"
    /\ built' = [built EXCEPT ![staged[p]].kind = got[p]]
    /\ Go(p, IF os = "windows" THEN "aside" ELSE "swap")
    /\ UNCHANGED <<os, latest, names, checked, spent>>

\* The rename that puts the new file in place, whatever has the name by now.
Swap(p) ==
    /\ pc[p] = "swap"
    /\ os # "windows"
    /\ exe' = staged[p]
    /\ staged' = Put(staged, p, None)
    /\ Leave(p)
    /\ UNCHANGED <<os, latest, built, aside, checked, spent>>

\* Windows, first rename: the program's name is free until the second.
RenameAside(p) ==
    /\ pc[p] = "aside"
    /\ exe # None /\ ~Locked(aside[p])
    /\ aside' = Put(aside, p, exe)
    /\ exe' = None
    /\ Go(p, "swap")
    /\ UNCHANGED <<os, latest, built, staged, checked, spent>>

RenameAsideFails(p) ==
    /\ pc[p] = "aside"
    /\ exe = None \/ Locked(aside[p])
    /\ staged' = Put(staged, p, None)
    /\ Leave(p)
    /\ UNCHANGED <<os, latest, built, exe, aside, checked, spent>>

\* Windows, second rename: refused if another update has already filled the name
\* and its program runs.
Blocked == exe # None /\ Locked(exe)

RenameIn(p) ==
    /\ pc[p] = "swap"
    /\ os = "windows" /\ ~Blocked
    /\ exe' = staged[p]
    /\ staged' = Put(staged, p, None)
    /\ Go(p, "drop")
    /\ UNCHANGED <<os, latest, built, aside, checked, spent>>

\* Mutant of RollBack: the first rename is not undone.
RollBackNot(p) == UNCHANGED <<exe, aside>> /\ Spend("failures")

\* The original gets its name back, unless a clean-up has swept the parked file meanwhile
\* or this rename fails as well; nobody looks at its error.
RollBack(p) ==
    \/ /\ aside[p] # None
       /\ exe' = aside[p] /\ aside' = Put(aside, p, None)
       /\ Spend("failures")
    \/ /\ UNCHANGED <<exe, aside>>
       /\ spent' = [spent EXCEPT !.failures = @ + 1, !.stranded = @ \/ exe = None]

\* The second rename fails.
RenameInFails(p) ==
    /\ pc[p] = "swap"
    /\ os = "windows"
    /\ IF Blocked THEN UNCHANGED <<exe, aside, spent>> ELSE Trouble /\ RollBack(p)
    /\ staged' = Put(staged, p, None)
    /\ Leave(p)
    /\ UNCHANGED <<os, latest, built, checked>>

\* Usually the parked file is this very program: then it stays.
DropAside(p) ==
    /\ pc[p] = "drop"
    /\ aside' = IF Locked(aside[p]) THEN aside ELSE Put(aside, p, None)
    /\ Leave(p)
    /\ UNCHANGED <<os, latest, built, exe, staged, checked, spent>>

\* A request, a write or the one rename fails; the staged file is removed, unless it was
\* its mode that could not be set.
Fails(p) ==
    /\ pc[p] \in {"fetch", "download", "write", "swap"}
    /\ pc[p] = "swap" => os # "windows"
    /\ Trouble
    /\ Spend("failures")
    /\ staged' \in {staged, Put(staged, p, None)}
    /\ staged' = staged => staged[p] = None \/ (pc[p] = "write" /\ os # "windows")
    /\ Leave(p)
    /\ UNCHANGED <<os, latest, built, exe, aside, checked>>

Kill(p) ==
    /\ pc[p] # "off"
    /\ Trouble
    /\ Spend("kills")
    /\ Leave(p)
    /\ UNCHANGED <<os, latest, built, names, checked>>

Release ==
    /\ latest < Newest
    /\ latest' = latest + 1
    /\ UNCHANGED <<os, built, names, checked, pc, image, want, got, spent>>

\* A day passes since the last check.
NextDay ==
    /\ checked
    /\ spent.days < MaxDays \/ latest = Newest
    /\ spent' = [spent EXCEPT !.days = IF @ < MaxDays THEN @ + 1 ELSE @]
    /\ checked' = FALSE
    /\ UNCHANGED <<os, latest, built, names, pc, image, want, got>>

Command(p) ==
    \/ CleanupStaleSwaps(p) \/ MaybeAutoUpdate(p)
    \/ Recheck(p) \/ Stamp(p) \/ FetchVersions(p) \/ Download(p, "genuine")
    \/ Astray(p) \/ WriteStaged(p) \/ Refuse(p) \/ Written(p) \/ Swap(p)
    \/ RenameAside(p) \/ RenameAsideFails(p) \/ RenameIn(p) \/ DropAside(p)

Next ==
    \/ \E p \in Procs :
         \/ Launch(p) \/ Command(p) \/ CmdUpdate(p)
         \/ \E kind \in Kinds \ {"genuine"} : Download(p, kind)
         \/ RenameInFails(p) \/ Fails(p) \/ Kill(p)
    \/ Release \/ NextDay

Spec == Init /\ [][Next]_vars

\* Commands are run now and then, and a running one goes on; days pass.
FairSpec ==
    /\ Spec
    /\ \A p \in Procs : WF_vars(Launch(p) \/ Command(p) \/ RenameInFails(p))
    /\ WF_vars(NextDay)

----------------------------------------------------------------------------
(* What must hold *)

\* Every variable has its type; an unnamed program is a matter of Windows.
TypeOK ==
    /\ os \in Platforms /\ latest \in 1..Newest
    /\ \A f \in Files : built[f] \in [v : 1..Newest, kind : Kinds \cup {"partial"}]
    /\ exe \in Files \cup {None}
    /\ {aside[p] : p \in Procs} \cup {staged[p] : p \in Procs} \subseteq Files \cup {None}
    /\ checked \in BOOLEAN
    /\ pc \in [Procs -> Steps] /\ image \in [Procs -> Files]
    /\ want \in [Procs -> 1..Newest] /\ got \in [Procs -> Kinds]
    /\ spent \in [kills : Nat, failures : Nat, days : Nat, full : BOOLEAN,
                 stranded : BOOLEAN]
    /\ exe = None => os = "windows"

\* "a failed write can never leave a truncated CLI" (update.rs:290): whatever has, or
\* had, the program's name is a whole release with both approvals, whichever
\* command was killed where.
OnlyApproved ==
    \A f \in {exe} \cup {aside[p] : p \in Procs} : f # None => built[f].kind = "genuine"

\* "A failed second step rolls the original back, so an interrupted update never leaves a
\* missing binary" (update.rs:305-306): the program's name is free only between the two
\* renames, or for good if the command was killed there - or, against that comment, if its
\* second rename failed and there was no going back, because the rename back failed too
\* (its error is ignored, 313) or the start of a third command had swept what was parked.
\* Even then a parked copy is left to be put back by hand, and no clean-up takes the last.
LastCopySurvives ==
    exe = None =>
        /\ \E p \in Procs : aside[p] # None
        /\ spent.kills > 0 \/ spent.stranded \/ \E p \in Procs : pc[p] = "swap"

\* Commands that are used end up being the newest release, also when two of them
\* replaced it in the wrong order, unless a swap died half-way.
CatchesUp ==
    <>[](latest = Newest => \/ exe = None \/ spent.full
                            \/ built[exe].v = Newest)

=============================================================================
