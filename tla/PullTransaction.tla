--------------------------- MODULE PullTransaction ---------------------------
(***************************************************************************)
(* `sevra pull` of a v1 clone: the in-place replacement of a directory of  *)
(* files by a hosted snapshot, made durable by a journal, a directory of   *)
(* backups and a commit marker (src/commands.rs).                          *)
(*                                                                         *)
(* On disk (survives the process):                                         *)
(*   disk     the riding files of the clone                                *)
(*   base     .sevra-sync.json, written last: the commit marker            *)
(*   journal  .sevra-pull-journal.json                                     *)
(*   backups  the files of .sevra-pull-backup-<hex>/                       *)
(* In the process (lost by a crash): pc, after, force, seen, want, cur,    *)
(* todo, present, inst.  At most one command is past the store lock, so    *)
(* one program counter is enough; the user edits files beside it.          *)
(*                                                                         *)
(* A step that fails and merely ends the command (an error while undoing   *)
(* or cleaning up) leaves on disk what a kill at that point leaves, so     *)
(* Crash stands for it too.  The two places where the code reacts to an    *)
(* error are the faults of preparing and of installing.                    *)
(***************************************************************************)
EXTENDS Naturals, FiniteSets

CONSTANTS
    Paths,       \* riding paths of the store
    Assets,      \* those of them that are declared assets
    HubData,     \* contents the hub may hold
    UserData,    \* contents only the local user writes
    Absent,      \* "no file at this path"
    Sync,        \* the name of the baseline among the backups
    ForceFlags,  \* the values of --force that are tried
    RaceEdits,   \* may the user edit while a command is in flight?
    LateFaults,  \* may an error be reported after the baseline is replaced?
    MaxSeq, MaxEdits, MaxCrashes, MaxFaults   \* bounds of the exploration

Data == HubData \cup UserData \cup {Absent}

ASSUME PathsAssumption ==
    /\ IsFiniteSet(Paths)
    /\ Assets \subseteq Paths
    /\ Sync \notin Paths
ASSUME DataAssumption ==
    /\ HubData \cap UserData = {}
    /\ Absent \notin HubData \cup UserData
ASSUME FlagAssumption ==
    /\ ForceFlags \subseteq BOOLEAN
    /\ RaceEdits \in BOOLEAN
    /\ LateFaults \in BOOLEAN
ASSUME BoundAssumption ==
    /\ MaxSeq \in Nat
    /\ MaxEdits \in Nat
    /\ MaxCrashes \in Nat
    /\ MaxFaults \in Nat

Files == [Paths -> HubData \cup {Absent}]

\* .sevra-sync.json: the feed address of a snapshot and its per-path digests.
SyncBaseline == [seq : Nat, files : Files]

NoJournal == [phase |-> "none"]

PullJournal ==
    [phase   : {"preparing", "ready"},
     prev    : SyncBaseline,        \* previous_baseline_sha256
     next    : SyncBaseline,        \* next_baseline_sha256, and every new_sha256
     entries : SUBSET Paths,        \* the mutated paths besides the baseline
     old     : [Paths -> Data]]     \* old_sha256 of each entry

VARIABLES
    remote,      \* the hosted head (external)
    disk, base, journal, backups,
    pc,          \* what the command in flight does next
    after,       \* where recovery and cleanup lead: "check" or "idle"
    force, seen, want, cur, todo, present, inst,
    spent,       \* bounded steps taken: user edits, crashes, faults
    touched,     \* history: the paths the user ever edited
    marked       \* history: the journal's transaction wrote its commit marker

durable == <<disk, base, journal, backups>>
volatile == <<pc, after, force, seen, want, cur, todo, present, inst>>
history == <<touched, marked>>
vars == <<remote, durable, volatile, spent, history>>

Steps == {"idle", "recover", "undo", "cleanup", "check", "head", "fetch",
          "plan", "backup", "verify", "install", "capture", "rollback"}

----------------------------------------------------------------------------
(* Helpers *)

\* What the pull writes at a path; Absent is a removal.
New(p) == journal.next.files[p]

\* Mutant of BackupsOf: assets are not backed up.
BackupsOfTexts(j) == {p \in j.entries \ Assets : j.old[p] # Absent} \cup {Sync}

\* The backups a journal refers to: one per path that existed, and the baseline.
BackupsOf(j) == {p \in j.entries : j.old[p] # Absent} \cup {Sync}

\* The marker says the transaction happened.
Committed(j) == base = j.next /\ j.next # j.prev

\* A journal whose transaction is armed and has not happened.
Open(j) == j.phase = "ready" /\ ~Committed(j)

\* Recovery's preflight: paths that are neither as before nor as after.
Conflicts(j) == {p \in j.entries : disk[p] \notin {j.old[p], j.next.files[p]}}

\* Mutant of Divergent: files the baseline does not know are not looked at.
DivergentKnown == {p \in Paths : base.files[p] # Absent /\ disk[p] # base.files[p]}

Divergent == {p \in Paths : disk[p] # base.files[p]}

\* The mutations of a pull: every text is rewritten, an asset only if it
\* differs, and what the check saw but the snapshot lacks is removed.
Texts(f) == {p \in Paths \ Assets : f[p] # Absent}
PendingAssets(f) == {p \in Assets : f[p] # Absent /\ disk[p] # f[p]}
Removals(f) == {p \in seen : f[p] = Absent}
Mutations(f) == Texts(f) \cup PendingAssets(f) \cup Removals(f)

\* Texts are installed first, then assets, then removals.
NextUp(s) ==
    LET texts   == {p \in s : p \notin Assets /\ New(p) # Absent}
        written == {p \in s : New(p) # Absent}
    IN  IF texts # {} THEN texts ELSE IF written # {} THEN written ELSE s

\* The command ends; what it held in memory is gone.
Halt ==
    /\ pc' = "idle"
    /\ after' = "idle"
    /\ force' = FALSE
    /\ seen' = {}
    /\ want' = base
    /\ cur' = {}
    /\ todo' = {}
    /\ present' = {}
    /\ inst' = {}

Spend(what) == spent' = [spent EXCEPT ![what] = @ + 1]

----------------------------------------------------------------------------
(* A fresh clone, at the hosted head or behind it *)

Init ==
    /\ remote \in [seq : {1}, files : Files]
    /\ base = remote
    /\ disk = base.files
    /\ journal = NoJournal
    /\ backups = {}
    /\ pc = "idle"
    /\ after = "idle"
    /\ force = FALSE
    /\ seen = {}
    /\ want = base
    /\ cur = {}
    /\ todo = {}
    /\ present = {}
    /\ inst = {}
    /\ spent = [edits |-> 0, crashes |-> 0, faults |-> 0]
    /\ touched = {}
    /\ marked = FALSE

----------------------------------------------------------------------------
(* Start and recovery *)

\* `sevra pull` (or push, up to its own work) takes the store lock.
Begin(f) ==
    /\ pc = "idle"
    /\ pc' = "recover"
    /\ after' = "check"
    /\ force' = f
    /\ UNCHANGED <<remote, durable, seen, want, cur, todo, present, inst,
                   spent, history>>

RecoverNothing ==
    /\ pc = "recover"
    /\ journal = NoJournal
    /\ IF after = "check"
         THEN /\ pc' = "check"
              /\ UNCHANGED <<after, force, seen, want, cur, todo, present, inst>>
         ELSE Halt
    /\ UNCHANGED <<remote, durable, spent, history>>

\* Mutant of RecoverDiscard: an armed journal is dropped like a preparing one.
RecoverDiscardAny ==
    /\ pc = "recover"
    /\ journal.phase \in {"preparing", "ready"}
    /\ pc' = "cleanup"
    /\ UNCHANGED <<remote, durable, after, force, seen, want, cur, todo,
                   present, inst, spent, history>>

\* Mutant of RecoverDiscard: a half-prepared journal is left where it is.
RecoverDiscardCommitted ==
    /\ pc = "recover"
    /\ journal # NoJournal
    /\ journal.phase = "preparing" \/ Committed(journal)
    /\ IF journal.phase = "preparing" THEN Halt
         ELSE /\ pc' = "cleanup"
              /\ UNCHANGED <<after, force, seen, want, cur, todo, present, inst>>
    /\ UNCHANGED <<remote, durable, spent, history>>

\* Nothing had changed yet, or everything had: only the metadata goes.
RecoverDiscard ==
    /\ pc = "recover"
    /\ \/ journal.phase = "preparing"
       \/ journal.phase = "ready" /\ Committed(journal)
    /\ pc' = "cleanup"
    /\ UNCHANGED <<remote, durable, after, force, seen, want, cur, todo,
                   present, inst, spent, history>>

\* recover_ready_pull may undo only if every path is old or new and every
\* backup is still there, whatever the path holds now.
Undoable(j) ==
    /\ base = j.prev
    /\ Conflicts(j) = {}
    /\ BackupsOf(j) \subseteq backups

RecoverRefuse ==
    /\ pc = "recover"
    /\ journal.phase = "ready"
    /\ ~Committed(journal)
    /\ ~Undoable(journal)
    /\ Halt
    /\ UNCHANGED <<remote, durable, spent, history>>

\* Mutant of RecoverPreflight: an unarmed journal is undone too.
RecoverPreflightUnarmed ==
    /\ pc = "recover"
    /\ journal # NoJournal
    /\ pc' = "undo"
    /\ todo' = {p \in journal.entries : journal.old[p] # Absent \/ disk[p] # Absent}
    /\ present' = {p \in Paths : disk[p] # Absent}
    /\ UNCHANGED <<remote, durable, after, force, seen, want, cur, inst,
                   spent, history>>

RecoverPreflight ==
    /\ pc = "recover"
    /\ journal.phase = "ready"
    /\ ~Committed(journal)
    /\ Undoable(journal)
    /\ pc' = "undo"
    /\ todo' = {p \in journal.entries : journal.old[p] # Absent \/ disk[p] # Absent}
    /\ present' = {p \in Paths : disk[p] # Absent}
    /\ UNCHANGED <<remote, durable, after, force, seen, want, cur, inst,
                   spent, history>>

\* atomic_write where the preflight found a file, atomic_create where not.
UndoRestore(p) ==
    /\ pc = "undo"
    /\ p \in todo
    /\ journal.old[p] # Absent
    /\ p \in present \/ disk[p] = Absent
    /\ disk' = [disk EXCEPT ![p] = journal.old[p]]
    /\ todo' = todo \ {p}
    /\ UNCHANGED <<remote, base, journal, backups, pc, after, force, seen, want,
                   cur, present, inst, spent, history>>

UndoRestoreBlocked(p) ==
    /\ pc = "undo"
    /\ p \in todo
    /\ journal.old[p] # Absent
    /\ p \notin present
    /\ disk[p] # Absent
    /\ Halt
    /\ UNCHANGED <<remote, durable, spent, history>>

UndoRemove(p) ==
    /\ pc = "undo"
    /\ p \in todo
    /\ journal.old[p] = Absent
    /\ disk' = [disk EXCEPT ![p] = Absent]
    /\ todo' = todo \ {p}
    /\ UNCHANGED <<remote, base, journal, backups, pc, after, force, seen, want,
                   cur, present, inst, spent, history>>

\* Mutant of UndoDone: the metadata goes before every path is back.
UndoDoneEarly ==
    /\ pc = "undo"
    /\ pc' = "cleanup"
    /\ UNCHANGED <<remote, durable, after, force, seen, want, cur, todo,
                   present, inst, spent, history>>

UndoDone ==
    /\ pc = "undo"
    /\ todo = {}
    /\ pc' = "cleanup"
    /\ UNCHANGED <<remote, durable, after, force, seen, want, cur, todo,
                   present, inst, spent, history>>

\* cleanup_pull_transaction: the backups one by one, the journal last.
CleanBackup(b) ==
    /\ pc = "cleanup"
    /\ b \in backups
    /\ backups' = backups \ {b}
    /\ UNCHANGED <<remote, disk, base, journal, volatile, spent, history>>

CleanJournal ==
    /\ pc = "cleanup"
    /\ backups = {}
    /\ journal' = NoJournal
    /\ IF after = "check"
         THEN /\ pc' = "check"
              /\ UNCHANGED <<after, force, seen, want, cur, todo, present, inst>>
         ELSE Halt
    /\ UNCHANGED <<remote, disk, base, backups, spent, history>>

----------------------------------------------------------------------------
(* Deciding what to pull *)

\* Local divergence is named before the first request.
CheckRefuse ==
    /\ pc = "check"
    /\ ~force
    /\ Divergent # {}
    /\ Halt
    /\ UNCHANGED <<remote, durable, spent, history>>

CheckPass ==
    /\ pc = "check"
    /\ force \/ Divergent = {}
    /\ pc' = "head"
    /\ seen' = {p \in Paths : disk[p] # Absent}
    /\ UNCHANGED <<remote, durable, after, force, want, cur, todo, present, inst,
                   spent, history>>

HeadCurrent ==
    /\ pc = "head"
    /\ ~force
    /\ remote.seq = base.seq
    /\ Halt
    /\ UNCHANGED <<remote, durable, spent, history>>

HeadAdvanced ==
    /\ pc = "head"
    /\ force \/ remote.seq > base.seq
    /\ pc' = "fetch"
    /\ want' = remote
    /\ UNCHANGED <<remote, durable, after, force, seen, cur, todo, present, inst,
                   spent, history>>

\* The exact address that the head named is asked for, or nothing.
FetchStale ==
    /\ pc = "fetch"
    /\ remote # want
    /\ Halt
    /\ UNCHANGED <<remote, durable, spent, history>>

FetchOK ==
    /\ pc = "fetch"
    /\ remote = want
    /\ pc' = "plan"
    /\ UNCHANGED <<remote, durable, after, force, seen, want, cur, todo, present,
                   inst, spent, history>>

NetworkFails ==
    /\ pc \in {"head", "fetch"}
    /\ Halt
    /\ UNCHANGED <<remote, durable, spent, history>>

----------------------------------------------------------------------------
(* Preparing: the journal, the backups, then the journal again as Ready *)

\* A path to remove that is already gone has neither an old nor a new state.
PrepareInvalid ==
    /\ pc = "plan"
    /\ \E p \in Removals(want.files) : disk[p] = Absent
    /\ Halt
    /\ UNCHANGED <<remote, durable, spent, history>>

\* The bytes to back up are read here, whatever the check has seen.
PrepareJournal ==
    /\ pc = "plan"
    /\ \A p \in Removals(want.files) : disk[p] # Absent
    /\ journal' = [phase   |-> "preparing",
                   prev    |-> base,
                   next    |-> want,
                   entries |-> Mutations(want.files),
                   old     |-> disk]
    /\ pc' = "backup"
    /\ after' = "idle"
    /\ marked' = FALSE
    /\ UNCHANGED <<remote, disk, base, backups, force, seen, want, cur, todo,
                   present, inst, spent, touched>>

Backup(b) ==
    /\ pc = "backup"
    /\ b \in BackupsOf(journal) \ backups
    /\ backups' = backups \cup {b}
    /\ UNCHANGED <<remote, disk, base, journal, volatile, spent, history>>

Arm ==
    /\ pc = "backup"
    /\ BackupsOf(journal) \subseteq backups
    /\ journal' = [journal EXCEPT !.phase = "ready"]
    /\ pc' = "verify"
    /\ UNCHANGED <<remote, disk, base, backups, after, force, seen, want, cur,
                   todo, present, inst, spent, history>>

PrepareFault ==
    /\ pc = "backup"
    /\ spent.faults < MaxFaults
    /\ Spend("faults")
    /\ pc' = "cleanup"
    /\ UNCHANGED <<remote, durable, after, force, seen, want, cur, todo, present,
                   inst, history>>

\* Arming fails after its rename: the metadata of an armed journal is cleaned up.
ArmLateFault ==
    /\ pc = "backup"
    /\ BackupsOf(journal) \subseteq backups
    /\ spent.faults < MaxFaults
    /\ Spend("faults")
    /\ journal' = [journal EXCEPT !.phase = "ready"]
    /\ pc' = "cleanup"
    /\ UNCHANGED <<remote, disk, base, backups, after, force, seen, want, cur,
                   todo, present, inst, history>>

----------------------------------------------------------------------------
(* Installing *)

VerifyOK ==
    /\ pc = "verify"
    /\ \A p \in journal.entries : disk[p] = journal.old[p]
    /\ pc' = "install"
    /\ todo' = journal.entries
    /\ UNCHANGED <<remote, durable, after, force, seen, want, cur, present, inst,
                   spent, history>>

\* A file saved meanwhile has another fingerprint, though its bytes be the same.
VerifyChanged ==
    /\ pc = "verify"
    /\ RaceEdits \/ \E p \in journal.entries : disk[p] # journal.old[p]
    /\ pc' = "recover"
    /\ UNCHANGED <<remote, durable, after, force, seen, want, cur, todo, present,
                   inst, spent, history>>

\* atomic_create where the snapshot found nothing, a blind atomic_write else.
MayInstall(p) == journal.old[p] = Absent => disk[p] = Absent

InstallWrite(p) ==
    /\ pc = "install"
    /\ p \in NextUp(todo)
    /\ New(p) # Absent
    /\ MayInstall(p)
    /\ disk' = [disk EXCEPT ![p] = New(p)]
    /\ todo' = todo \ {p}
    /\ cur' = {p}
    /\ pc' = "capture"
    /\ UNCHANGED <<remote, base, journal, backups, after, force, seen, want,
                   present, inst, spent, history>>

InstallBlocked(p) ==
    /\ pc = "install"
    /\ p \in NextUp(todo)
    /\ New(p) # Absent
    /\ ~MayInstall(p)
    /\ pc' = "rollback"
    /\ UNCHANGED <<remote, durable, after, force, seen, want, cur, todo, present,
                   inst, spent, history>>

\* The installed bytes are read back, so that a rollback can tell them from a
\* later edit.  A text that changed meanwhile is left out of the rollback; an
\* asset that changed meanwhile is recorded as it is, and rolled back.
Capture(p) ==
    /\ pc = "capture"
    /\ p \in cur
    /\ cur' = {}
    /\ pc' = IF disk[p] = New(p) THEN "install" ELSE "rollback"
    /\ inst' = IF disk[p] = New(p) \/ (p \in Assets /\ disk[p] # Absent)
                 THEN inst \cup {<<p, disk[p]>>}
                 ELSE inst
    /\ UNCHANGED <<remote, durable, after, force, seen, want, todo, present,
                   spent, history>>

\* remove_regular, which is as blind as atomic_write.
Remove(p) ==
    /\ pc = "install"
    /\ p \in NextUp(todo)
    /\ New(p) = Absent
    /\ disk[p] # Absent
    /\ disk' = [disk EXCEPT ![p] = Absent]
    /\ inst' = inst \cup {<<p, Absent>>}
    /\ todo' = todo \ {p}
    /\ UNCHANGED <<remote, base, journal, backups, pc, after, force, seen, want,
                   cur, present, spent, history>>

RemoveBlocked(p) ==
    /\ pc = "install"
    /\ p \in NextUp(todo)
    /\ New(p) = Absent
    /\ disk[p] = Absent
    /\ pc' = "rollback"
    /\ UNCHANGED <<remote, durable, after, force, seen, want, cur, todo, present,
                   inst, spent, history>>

\* A write or a removal fails before it has any effect (the baseline's too).
InstallFault ==
    /\ pc = "install"
    /\ spent.faults < MaxFaults
    /\ Spend("faults")
    /\ pc' = "rollback"
    /\ UNCHANGED <<remote, durable, after, force, seen, want, cur, todo, present,
                   inst, history>>

\* A write or a removal fails after its effect (syncing the parent directory), and
\* the rollback does not know of it.
InstallLateFault(p) ==
    /\ pc = "install"
    /\ spent.faults < MaxFaults
    /\ p \in NextUp(todo)
    /\ IF New(p) = Absent THEN disk[p] # Absent ELSE MayInstall(p)
    /\ disk' = [disk EXCEPT ![p] = New(p)]
    /\ Spend("faults")
    /\ pc' = "rollback"
    /\ UNCHANGED <<remote, base, journal, backups, after, force, seen, want, cur,
                   todo, present, inst, history>>

\* Mutant of Commit: the marker is not the last write.
CommitEarly ==
    /\ pc = "install"
    /\ base' = journal.next
    /\ marked' = TRUE
    /\ inst' = {}
    /\ pc' = "cleanup"
    /\ UNCHANGED <<remote, disk, journal, backups, after, force, seen, want, cur,
                   todo, present, spent, touched>>

\* The last write: .sevra-sync.json.
Commit ==
    /\ pc = "install"
    /\ todo = {}
    /\ base' = journal.next
    /\ marked' = TRUE
    /\ inst' = {}
    /\ pc' = "cleanup"
    /\ UNCHANGED <<remote, disk, journal, backups, after, force, seen, want, cur,
                   todo, present, spent, touched>>

\* The same, when syncing the directory or reading the marker back fails.
CommitLateFault ==
    /\ LateFaults
    /\ pc = "install"
    /\ todo = {}
    /\ spent.faults < MaxFaults
    /\ base' = journal.next
    /\ marked' = TRUE
    /\ Spend("faults")
    /\ pc' = "rollback"
    /\ UNCHANGED <<remote, disk, journal, backups, after, force, seen, want, cur,
                   todo, present, inst, touched>>

----------------------------------------------------------------------------
(* Rollback in memory, then recovery from the journal *)

\* Only what is still as it was installed is put back; a save of the same bytes counts
\* as a change.
RollbackPath(p, d) ==
    /\ pc = "rollback"
    /\ <<p, d>> \in inst
    /\ inst' = inst \ {<<p, d>>}
    /\ \/ disk[p] = d /\ disk' = [disk EXCEPT ![p] = journal.old[p]]
       \/ (disk[p] # d \/ RaceEdits) /\ UNCHANGED disk
    /\ UNCHANGED <<remote, base, journal, backups, pc, after, force, seen, want,
                   cur, todo, present, spent, history>>

RollbackDone ==
    /\ pc = "rollback"
    /\ inst = {}
    /\ pc' = "recover"
    /\ UNCHANGED <<remote, durable, after, force, seen, want, cur, todo, present,
                   inst, spent, history>>

----------------------------------------------------------------------------
(* The rest of the world *)

\* The process dies: the lock goes with it, the files stay.
Crash ==
    /\ pc # "idle"
    /\ spent.crashes < MaxCrashes
    /\ Spend("crashes")
    /\ Halt
    /\ UNCHANGED <<remote, durable, history>>

\* The user rewrites or deletes a file.
Edit(p, d) ==
    /\ pc = "idle" \/ RaceEdits
    /\ spent.edits < MaxEdits
    /\ d # disk[p]
    /\ disk' = [disk EXCEPT ![p] = d]
    /\ Spend("edits")
    /\ touched' = touched \cup {p}
    /\ UNCHANGED <<remote, base, journal, backups, volatile, marked>>

\* Somebody else commits to the hub.
RemoteAdvance(f) ==
    /\ remote.seq < MaxSeq
    /\ remote' = [seq |-> remote.seq + 1, files |-> f]
    /\ UNCHANGED <<durable, volatile, spent, history>>

----------------------------------------------------------------------------

Recovery ==
    \/ RecoverNothing \/ RecoverDiscard \/ RecoverRefuse \/ RecoverPreflight
    \/ \E p \in Paths : UndoRestore(p) \/ UndoRestoreBlocked(p) \/ UndoRemove(p)
    \/ UndoDone
    \/ \E b \in Paths \cup {Sync} : CleanBackup(b)
    \/ CleanJournal

Deciding ==
    \/ CheckRefuse \/ CheckPass
    \/ HeadCurrent \/ HeadAdvanced
    \/ FetchStale \/ FetchOK

Preparing ==
    \/ PrepareInvalid \/ PrepareJournal
    \/ \E b \in Paths \cup {Sync} : Backup(b)
    \/ Arm

Installing ==
    \/ VerifyOK \/ VerifyChanged
    \/ \E p \in Paths :
         \/ InstallWrite(p) \/ InstallBlocked(p) \/ Capture(p)
         \/ Remove(p) \/ RemoveBlocked(p)
    \/ Commit
    \/ \E p \in Paths, d \in Data : RollbackPath(p, d)
    \/ RollbackDone

Faults ==
    \/ NetworkFails \/ PrepareFault \/ ArmLateFault \/ InstallFault \/ CommitLateFault
    \/ \E p \in Paths : InstallLateFault(p)

\* What the running command does when nothing goes wrong around it.
Command == Recovery \/ Deciding \/ Preparing \/ Installing

Next ==
    \/ \E f \in ForceFlags : Begin(f)
    \/ Command
    \/ Faults
    \/ Crash
    \/ \E p \in Paths, d \in UserData \cup {Absent} : Edit(p, d)
    \/ \E f \in Files : RemoteAdvance(f)

Spec == Init /\ [][Next]_vars

\* A command that runs takes its next step, and the user runs one again.  Faults,
\* crashes, edits and the hub's advances are never owed.
FairSpec ==
    /\ Spec
    /\ WF_vars(Command)
    /\ WF_vars(\E f \in ForceFlags : Begin(f))

----------------------------------------------------------------------------
(* What must hold *)

\* Every variable has its type, and the control variables agree with pc: an
\* installing or rolling-back command has an armed journal.
TypeOK ==
    /\ remote \in SyncBaseline
    /\ disk \in [Paths -> Data]
    /\ base \in SyncBaseline
    /\ journal \in PullJournal \cup {NoJournal}
    /\ backups \subseteq Paths \cup {Sync}
    /\ pc \in Steps
    /\ after \in {"check", "idle"}
    /\ force \in BOOLEAN
    /\ seen \subseteq Paths
    /\ want \in SyncBaseline
    /\ cur \subseteq Paths
    /\ todo \subseteq Paths
    /\ present \subseteq Paths
    /\ inst \subseteq Paths \X Data
    /\ spent \in [edits : Nat, crashes : Nat, faults : Nat]
    /\ touched \subseteq Paths
    /\ marked \in BOOLEAN
    /\ pc \in {"undo", "cleanup", "backup"} => journal # NoJournal
    /\ pc \in {"undo", "verify", "install", "capture", "rollback"}
          => journal.phase = "ready"

\* With no transaction under way, .sevra-sync.json tells the truth about the
\* clone: every file the user never edited is the one the baseline records, and
\* no file holds hosted bytes of another snapshot.  (Sequences of failed,
\* killed and recovered pulls never leave a mixture behind.)
BaselineDescribesStore ==
    journal = NoJournal =>
        \A p \in Paths :
            \/ disk[p] = base.files[p]
            \/ p \in touched /\ disk[p] \notin HubData

\* "A bounded journal and private backups become durable before the first riding
\* path changes" (CHANGELOG.md:391): as long as the commit marker is not written,
\* a file that is not as it was either was edited by the user or can be put back
\* from its backup by an armed journal.
BackedUpBeforeChanged ==
    (journal # NoJournal /\ ~marked) =>
        \A p \in journal.entries :
            \/ disk[p] = journal.old[p]
            \/ p \in touched
            \/ /\ journal.phase = "ready"
               /\ journal.old[p] # Absent => p \in backups

\* The paths a step takes the user's bytes from, without the user doing it.
LostWork ==
    IF spent'.edits # spent.edits
      THEN {}
      ELSE {p \in Paths : disk[p] \in UserData /\ disk'[p] # disk[p]}

\* Only a forced pull discards local work: neither an unforced pull nor any
\* recovery of an interrupted one destroys bytes the user wrote.
WorkSurvives == [][~force => LostWork = {}]_vars

\* A pull that wrote its commit marker is never undone: from then on its files
\* change by the user's hand only, until the journal is gone.
CommitIsFinal ==
    [][marked /\ journal # NoJournal
         => disk' = disk \/ spent'.edits # spent.edits]_vars

\* If the user kept away, an interrupted pull can always be recovered.
RecoverableUnlessEdited ==
    (pc = "idle" /\ touched = {} /\ journal # NoJournal)
        => journal.phase = "preparing" \/ Committed(journal) \/ Undoable(journal)

\* Rerunning gets rid of every journal, unless recovery refuses to go on because
\* the user changed a path or a backup is gone.
JournalResolves ==
    journal # NoJournal ~>
        \/ journal = NoJournal
        \/ /\ pc = "idle"
           /\ Open(journal)
           /\ ~Undoable(journal)

----------------------------------------------------------------------------
(* The abstract store that a pull implements *)

\* Until the marker is written, an installed file counts as what it replaced.
View ==
    [p \in Paths |->
        IF /\ journal.phase = "ready"
           /\ ~marked
           /\ p \in journal.entries
           /\ disk[p] = New(p)
          THEN journal.old[p]
          ELSE disk[p]]

Abstract == INSTANCE AtomicStore WITH store <- View

\* An unforced pull is atomic, whatever crashes, faults and recoveries it takes.
PullIsAtomic == Abstract!Spec

=============================================================================
