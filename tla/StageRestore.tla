---------------------------- MODULE StageRestore ----------------------------
(* clone, export and package restore (commands.rs 4686-5687, package.rs     *)
(* 1998-2218, 2687-3282): a brain is materialized in a private directory    *)
(* next to its destination, checked there, and renamed into place.          *)
(*                                                                          *)
(* The commands run at the same time and name the same destination, a       *)
(* person may use that name too, and each command may fail or be killed.    *)
EXTENDS Integers, FiniteSets

CONSTANTS
    Procs,       \* one command each
    User, None,
    EarlyUse,    \* may a person work in a destination before its command has ended?
    MaxMishaps   \* failures, kills and failed clean-ups

\* clone and export of a v1 brain and of a v2 brain, and package restore.
Kinds == {"clone1", "export1", "clone2", "export2", "restore"}
V1 == {"clone1", "export1"}

\* Pieces of a directory: records and declared assets; the file that identifies the
\* checkout or lists the vault; the derived catalogs; the package's companions, its
\* vault names and receipt; dbmd's baseline under the final path; a person's work.
Pieces == {"records", "assets", "marker", "catalogs", "companions", "names", "receipt",
           "baseline", "work"}
Needs(kind) ==
    {"records", "assets", "marker"}
        \cup IF kind = "restore" THEN {"companions", "names", "receipt"} ELSE {}

\* What the hub serves may be wrong in a way the command has to notice.
Defects == {"none", "pack", "asset", "snapshot", "object", "closure"}
MayHave(kind) ==
    IF kind \in V1 THEN {"none", "pack", "asset"}
    ELSE IF kind = "restore" THEN {"none", "pack", "snapshot", "object", "closure"}
    ELSE {"none", "pack"}

Directory == [by : Procs \cup {User}, pieces : SUBSET Pieces]

ASSUME StageRestoreAssumption ==
    /\ User \notin Procs /\ None \notin Procs \cup {User} \cup Directory
    /\ EarlyUse \in BOOLEAN /\ MaxMishaps \in Nat

VARIABLES
    target,     \* the directory under the destination's name
    stage,      \* each command's private directory
    kind, defect, pc,
    fate,       \* how a command that has ended, ended
    recorded,   \* pieces the v1 installer can roll back
    mishaps

vars == <<target, stage, kind, defect, pc, fate, recorded, mishaps>>

Running(p) == pc[p] \notin {"off", "done"}
Go(p, step) == pc' = [pc EXCEPT ![p] = step] /\ UNCHANGED fate
End(p, how) == pc' = [pc EXCEPT ![p] = "done"] /\ fate' = [fate EXCEPT ![p] = how]
Mishap == mishaps < MaxMishaps /\ mishaps' = mishaps + 1
Piece(dir, piece) == [dir EXCEPT !.pieces = @ \cup {piece}]
Add(p, piece) == stage' = [stage EXCEPT ![p] = Piece(@, piece)]
NoStage(p) == stage' = [stage EXCEPT ![p] = None]

Init ==
    /\ target = None
    /\ stage = [p \in Procs |-> None]
    /\ kind \in [Procs -> Kinds]
    /\ defect \in {d \in [Procs -> Defects] : \A p \in Procs : d[p] \in MayHave(kind[p])}
    /\ pc = [p \in Procs |-> "off"]
    /\ fate = [p \in Procs |-> "none"]
    /\ recorded = [p \in Procs |-> {}]
    /\ mishaps = 0

\* The snapshot is fetched and checked, and the destination must not exist.
Begin(p) ==
    /\ pc[p] = "off"
    /\ target = None
    /\ Go(p, IF kind[p] \in {"clone2", "export2"} THEN "sync" ELSE "fetch")
    /\ UNCHANGED <<target, stage, kind, defect, recorded, mishaps>>

BeginRefused(p) ==
    /\ pc[p] = "off"
    /\ target # None
    /\ End(p, "failed")
    /\ UNCHANGED <<target, stage, kind, defect, recorded, mishaps>>

\* v1: the pack's digest, its paths and the downloaded assets; restore: what dbmd can do.
Fetch(p) ==
    /\ pc[p] = "fetch"
    /\ ~(kind[p] \in V1 /\ defect[p] \in {"pack", "asset"})
    /\ Go(p, "mkdir")
    /\ UNCHANGED <<target, stage, kind, defect, recorded, mishaps>>

FetchFails(p) ==
    /\ pc[p] = "fetch"
    /\ \/ kind[p] \in V1 /\ defect[p] \in {"pack", "asset"} /\ UNCHANGED mishaps
       \/ Mishap
    /\ End(p, "failed")
    /\ UNCHANGED <<target, stage, kind, defect, recorded>>

Empty(p) == [by |-> p, pieces |-> {}]

MakeStage(p) ==
    /\ pc[p] = "mkdir"
    /\ stage' = [stage EXCEPT ![p] = Empty(p)]
    /\ Go(p, IF kind[p] = "restore" THEN "sync" ELSE "records")
    /\ UNCHANGED <<target, kind, defect, recorded, mishaps>>

\* create_dir fails, before the directory exists or after (syncing its parent, opening it).
MakeStageFails(p) ==
    /\ pc[p] = "mkdir"
    /\ Mishap
    /\ stage' \in {stage, [stage EXCEPT ![p] = Empty(p)]}
    /\ End(p, "failed")
    /\ UNCHANGED <<target, kind, defect, recorded>>

----------------------------------------------------------------------------
(* v1: install_complete_export, then dbmd index rebuild *)

InstallNext == [records |-> "assets", assets |-> "marker", marker |-> "rebuild"]

Install(p) ==
    /\ pc[p] \in DOMAIN InstallNext /\ kind[p] \in V1
    /\ Add(p, pc[p])
    /\ recorded' = [recorded EXCEPT ![p] = @ \cup {pc[p]}]
    /\ Go(p, InstallNext[pc[p]])
    /\ UNCHANGED <<target, kind, defect, mishaps>>

\* A write fails, or what was written cannot be read back: what is recorded is rolled
\* back.  The stage is removed if that leaves it empty, and if this does not fail as well.
RollBack(p, left) ==
    \/ left = {} /\ NoStage(p) /\ End(p, "failed")
    \/ stage' = [stage EXCEPT ![p].pieces = left] /\ End(p, "uncleaned")

InstallFails(p) ==
    /\ pc[p] \in DOMAIN InstallNext /\ kind[p] \in V1
    /\ Mishap
    /\ \E written \in {{}, {pc[p]}} : RollBack(p, (stage[p].pieces \cup written) \ recorded[p])
    /\ UNCHANGED <<target, kind, defect, recorded>>

\* Without dbmd there are no catalogs.
Rebuild(p, dbmd) ==
    /\ pc[p] = "rebuild"
    /\ IF dbmd THEN Add(p, "catalogs") ELSE UNCHANGED stage
    /\ Go(p, "publish")
    /\ UNCHANGED <<target, kind, defect, recorded, mishaps>>

\* Mutant of RebuildFails: the stage is forgotten.
RebuildForgets(p) ==
    /\ pc[p] = "rebuild"
    /\ Mishap
    /\ End(p, "failed")
    /\ UNCHANGED <<target, stage, kind, defect, recorded>>

RebuildFails(p) ==
    /\ pc[p] = "rebuild"
    /\ Mishap
    /\ Go(p, "discard")
    /\ UNCHANGED <<target, stage, kind, defect, recorded>>

----------------------------------------------------------------------------
(* v2: dbmd sync materializes the signed brain itself *)

Materialized(p) == [by |-> p, pieces |-> {"records", "assets"}]

\* export and restore: in the stage.
SyncStage(p) ==
    /\ pc[p] = "sync" /\ kind[p] \in {"export2", "restore"}
    /\ defect[p] # "pack"
    /\ stage' = [stage EXCEPT ![p] = Materialized(p)]
    /\ Go(p, IF kind[p] = "restore" THEN "checkout" ELSE "vault")
    /\ UNCHANGED <<target, kind, defect, recorded, mishaps>>

\* clone: under its final name, which dbmd does not replace.
SyncTarget(p) ==
    /\ pc[p] = "sync" /\ kind[p] = "clone2"
    /\ defect[p] # "pack"
    /\ target = None
    /\ target' = Materialized(p)
    /\ Go(p, "checkout")
    /\ UNCHANGED <<stage, kind, defect, recorded, mishaps>>

SyncFails(p) ==
    /\ pc[p] = "sync"
    /\ \/ defect[p] = "pack" /\ UNCHANGED mishaps
       \/ kind[p] = "clone2" /\ target # None /\ UNCHANGED mishaps
       \/ Mishap
    /\ IF stage[p] = None THEN End(p, "failed") ELSE Go(p, "discard")
    /\ UNCHANGED <<target, stage, kind, defect, recorded>>

\* The file that says which brain this is a checkout of.
WriteCheckout(p) ==
    /\ pc[p] = "checkout"
    /\ IF kind[p] = "clone2"
         THEN target' = Piece(target, "marker") /\ UNCHANGED stage /\ End(p, "ok")
         ELSE Add(p, "marker") /\ UNCHANGED target /\ Go(p, "load")
    /\ UNCHANGED <<kind, defect, recorded, mishaps>>

\* A clone without it stays, and the command says so.
CheckoutFails(p) ==
    /\ pc[p] = "checkout"
    /\ Mishap
    /\ IF kind[p] = "clone2" THEN End(p, "unmarked") ELSE Go(p, "discard")
    /\ UNCHANGED <<target, stage, kind, defect, recorded>>

----------------------------------------------------------------------------
(* package restore: companions, vault names, receipt, verification *)

\* The snapshot record: its profile, its root, its closure and what it re-scans to.
LoadSnapshot(p) ==
    /\ pc[p] = "load"
    /\ Go(p, IF defect[p] = "snapshot" THEN "discard" ELSE "companions")
    /\ UNCHANGED <<target, stage, kind, defect, recorded, mishaps>>

\* Every object is checked against its digest before its file is created.
RestoreEntries(p) ==
    /\ pc[p] = "companions"
    /\ IF defect[p] = "object"
         THEN UNCHANGED stage /\ Go(p, "discard")
         ELSE Add(p, "companions") /\ Go(p, "vault")
    /\ UNCHANGED <<target, kind, defect, recorded, mishaps>>

\* The hub lists the names in the vault: the marker of an export, a file of a restore.
VaultNames(p) ==
    /\ pc[p] = "vault"
    /\ IF kind[p] = "restore"
         THEN Add(p, "names") /\ Go(p, "receipt")
         ELSE Add(p, "marker") /\ Go(p, "publish")
    /\ UNCHANGED <<target, kind, defect, recorded, mishaps>>

\* A refused or lost request ends the program where it stands, stage and all; so does the
\* marker of an export, whose write may have taken effect.
VaultNamesFails(p) ==
    /\ pc[p] = "vault"
    /\ Mishap
    /\ End(p, "failed")
    /\ UNCHANGED stage \/ (kind[p] = "export2" /\ Add(p, "marker"))
    /\ UNCHANGED <<target, kind, defect, recorded>>

WriteReceipt(p) ==
    /\ pc[p] = "receipt"
    /\ Add(p, "receipt")
    /\ Go(p, "verify")
    /\ UNCHANGED <<target, kind, defect, recorded, mishaps>>

\* Mutant of VerifySnapshot: its report is not looked at.
VerifyUnread(p) ==
    /\ pc[p] = "verify"
    /\ Go(p, "publish")
    /\ UNCHANGED <<target, stage, kind, defect, recorded, mishaps>>

\* The whole closure once more: dbmd's validation, objects, files, links, dependencies.
VerifySnapshot(p) ==
    /\ pc[p] = "verify"
    /\ Go(p, IF defect[p] = "closure" \/ ~(Needs("restore") \subseteq stage[p].pieces)
               THEN "discard" ELSE "publish")
    /\ UNCHANGED <<target, stage, kind, defect, recorded, mishaps>>

\* All else that fails in a restore, the file of the vault names included.
RestoreFails(p) ==
    /\ pc[p] \in {"load", "companions", "vault", "receipt", "verify"} /\ kind[p] = "restore"
    /\ Mishap
    /\ Go(p, "discard")
    /\ UNCHANGED <<target, stage, kind, defect, recorded>>

----------------------------------------------------------------------------
(* Publication *)

\* Mutant of Publish: it replaces.
PublishOver(p) ==
    /\ pc[p] = "publish"
    /\ target' = stage[p]
    /\ NoStage(p)
    /\ IF kind[p] = "restore" THEN Go(p, "relocate") ELSE End(p, "ok")
    /\ UNCHANGED <<kind, defect, recorded, mishaps>>

\* publish_dir_no_replace: one rename, refused if the name is taken.
Publish(p) ==
    /\ pc[p] = "publish"
    /\ target = None
    /\ target' = stage[p]
    /\ NoStage(p)
    /\ IF kind[p] = "restore" THEN Go(p, "relocate") ELSE End(p, "ok")
    /\ UNCHANGED <<kind, defect, recorded, mishaps>>

\* The name is taken, or the rename fails for another reason.
PublishFails(p) ==
    /\ pc[p] = "publish"
    /\ (target # None /\ UNCHANGED mishaps) \/ Mishap
    /\ Go(p, "discard")
    /\ UNCHANGED <<target, stage, kind, defect, recorded>>

\* The rename takes effect and syncing the parent fails: the command reports that the name
\* appeared, and that its stage, which is that directory, could not be removed.
PublishLate(p) ==
    /\ pc[p] = "publish"
    /\ target = None
    /\ Mishap
    /\ target' = stage[p]
    /\ NoStage(p)
    /\ End(p, "uncleaned")
    /\ UNCHANGED <<kind, defect, recorded>>

\* dbmd learns the final path of the checkout it materialized in the stage.
Relocate(p) ==
    /\ pc[p] = "relocate"
    /\ target' = Piece(target, "baseline")
    /\ End(p, "ok")
    /\ UNCHANGED <<stage, kind, defect, recorded, mishaps>>

\* Otherwise the directory is taken back, whatever it holds by now ...
RelocateFails(p) ==
    /\ pc[p] = "relocate"
    /\ Mishap
    /\ stage' = [stage EXCEPT ![p] = target]
    /\ target' = None
    /\ Go(p, "discard") \/ End(p, "uncleaned")
    /\ UNCHANGED <<kind, defect, recorded>>

\* ... or stays under its name, if that rename fails too.
TakeBackFails(p) ==
    /\ pc[p] = "relocate"
    /\ Mishap
    /\ End(p, "uncleaned")
    /\ UNCHANGED <<target, stage, kind, defect, recorded>>

\* discard_private_stage
Discard(p) ==
    /\ pc[p] = "discard"
    /\ NoStage(p)
    /\ End(p, "failed")
    /\ UNCHANGED <<target, kind, defect, recorded, mishaps>>

DiscardFails(p) ==
    /\ pc[p] = "discard"
    /\ Mishap
    /\ End(p, "uncleaned")
    /\ UNCHANGED <<target, stage, kind, defect, recorded>>

Kill(p) ==
    /\ Running(p)
    /\ Mishap
    /\ End(p, "killed")
    /\ UNCHANGED <<target, stage, kind, defect, recorded>>

\* A person makes a directory of that name, or works in the one that is there.
UserWork ==
    /\ target # None /\ target.by \in Procs => EarlyUse \/ ~Running(target.by)
    /\ target' = IF target = None THEN [by |-> User, pieces |-> {"work"}]
                                  ELSE Piece(target, "work")
    /\ target' # target
    /\ UNCHANGED <<stage, kind, defect, pc, fate, recorded, mishaps>>

Step(p) ==
    \/ Begin(p) \/ BeginRefused(p) \/ Fetch(p) \/ FetchFails(p) \/ MakeStage(p) \/ MakeStageFails(p)
    \/ Install(p) \/ InstallFails(p) \/ (\E dbmd \in BOOLEAN : Rebuild(p, dbmd)) \/ RebuildFails(p)
    \/ SyncStage(p) \/ SyncTarget(p) \/ SyncFails(p) \/ WriteCheckout(p) \/ CheckoutFails(p)
    \/ LoadSnapshot(p) \/ RestoreEntries(p) \/ VaultNames(p) \/ VaultNamesFails(p)
    \/ WriteReceipt(p) \/ VerifySnapshot(p) \/ RestoreFails(p)
    \/ Publish(p) \/ PublishFails(p) \/ PublishLate(p)
    \/ Relocate(p) \/ RelocateFails(p) \/ TakeBackFails(p)
    \/ Discard(p) \/ DiscardFails(p)

Next == UserWork \/ \E p \in Procs : Step(p) \/ Kill(p)

Spec == Init /\ [][Next]_vars

\* A command that was started goes on until it ends.
FairSpec == Spec /\ \A p \in Procs : WF_vars(Step(p))

----------------------------------------------------------------------------
(* Properties *)

Fates == {"none", "ok", "failed", "unmarked", "uncleaned", "killed"}

\* The types, and: a command that has not ended tells nothing.
TypeOK ==
    /\ target \in Directory \cup {None} /\ stage \in [Procs -> Directory \cup {None}]
    /\ kind \in [Procs -> Kinds] /\ defect \in [Procs -> Defects]
    /\ fate \in [Procs -> Fates] /\ recorded \in [Procs -> SUBSET Pieces]
    /\ mishaps \in 0..MaxMishaps
    /\ \A p \in Procs : fate[p] = "none" <=> pc[p] # "done"

\* A destination that a command made is complete and without a defect from the moment
\* its name exists (commands.rs 5349, 5635, package.rs 3221).  Only a v2 clone may be
\* there without its identity, while it is written or if that was cut short.
PublishedWhole ==
    target # None /\ target.by # User =>
        LET owner == target.by
        IN /\ defect[owner] = "none"
           /\ Needs(kind[owner]) \ target.pieces \subseteq
                IF kind[owner] = "clone2" /\ (pc[owner] = "checkout" \/ mishaps > 0)
                  THEN {"marker"} ELSE {}

\* What a plain failure may leave behind in a private directory: nothing but that
\* directory, if making it failed late (commands.rs 5283, 5588, package.rs 3093); the
\* materialized brain, if its vault could not be listed (5049, 5075, package.rs 3164).
Forgotten(k) ==
    {{}} \cup
    CASE k = "export2" -> {{"records", "assets"}, {"records", "assets", "marker"}}
      [] k = "restore" -> {{"records", "assets", "marker", "companions"}}
      [] OTHER -> {}

\* A command tells the truth: one that reports success has its own directory under
\* the name, of two commands at most one does; one that reports a plain failure has
\* nothing there, and no stage but those two.
ReportsTrue ==
    \A p \in Procs :
        /\ fate[p] = "ok" =>
             /\ target # None /\ target.by = p /\ Needs(kind[p]) \subseteq target.pieces
             /\ kind[p] = "restore" => "baseline" \in target.pieces
        /\ fate[p] = "failed" =>
             /\ target = None \/ target.by # p
             /\ stage[p] = None \/ stage[p].pieces \in Forgotten(kind[p])

\* No command removes or replaces what a person has put under the name.
WorkSurvives ==
    [][target # None /\ "work" \in target.pieces =>
         target' # None /\ target'.by = target.by /\ "work" \in target'.pieces]_vars

\* All commands come to an end, and without mishaps a sound brain arrives: if one of
\* them asked for one, somebody has the name - racing commands do not all give up.
SomebodyWins ==
    \A p \in Procs :
        /\ pc[p] = "done"
        /\ mishaps > 0 \/ target # None \/ defect[p] # "none"

=============================================================================
