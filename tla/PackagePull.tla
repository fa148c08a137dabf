----------------------------- MODULE PackagePull -----------------------------
(***************************************************************************)
(* `sevra package pull` and `sevra package checkpoint` in one workspace    *)
(* (src/package.rs): companion files beside the brain are reconciled three *)
(* ways (applied receipt, signed snapshot, disk), changed under a journal  *)
(* with backups, rolled back or recovered, and captured into the next      *)
(* snapshot.                                                               *)
(*                                                                         *)
(* On disk: disk (the companions), snap (the snapshot record inside the    *)
(* brain), receipt (the applied receipt), journal, and the recovery        *)
(* directory: stage says that it exists, backups what it holds.  Outside:  *)
(* hosted (the brain's snapshot at the hub) and synced (dbmd's private     *)
(* baseline of it).  Both commands hold .sevra-package.lock, so one        *)
(* program counter is enough.                                              *)
(*                                                                         *)
(* A snapshot is the content of each companion, so equal contents are      *)
(* equal snapshot roots.  An error that only ends the command leaves what  *)
(* a kill leaves, and Crash stands for both.  What a command without a     *)
(* journal leaves in a recovery directory is never looked at again, and    *)
(* counts as gone.                                                         *)
(***************************************************************************)
EXTENDS Naturals, FiniteSets

CONSTANTS
    Paths,        \* coordinates of the companions
    HubData,      \* contents other workspaces may publish
    Links,        \* those of them that are symlinks
    UserData,     \* contents only the local user writes
    Absent,       \* "nothing at this coordinate"
    RaceEdits,    \* may the user edit while a command is in flight?
    TightEdits,   \* and even between the last check of a path and its write?
    LateFaults,   \* may a write fail after it took effect?
    MaxRemote, MaxEdits, MaxCrashes, MaxFaults, MaxCheckpoints   \* bounds

Data == HubData \cup UserData \cup {Absent}

ASSUME PackageAssumption ==
    /\ IsFiniteSet(Paths) /\ Paths # {}
    /\ Links \subseteq HubData
    /\ HubData \cap UserData = {}
    /\ Absent \notin HubData \cup UserData
    /\ {RaceEdits, TightEdits, LateFaults} \subseteq BOOLEAN
    /\ {MaxRemote, MaxEdits, MaxCrashes, MaxFaults, MaxCheckpoints} \subseteq Nat

\* The entries of a snapshot, and of the receipt made from one.
Snapshot == [Paths -> Data]

NoReceipt == [p \in {} |-> Absent]
NoJournal == [ops |-> {}]

PackagePullJournal == [prev : Snapshot, next : Snapshot, ops : SUBSET Paths]

VARIABLES
    hosted, synced, snap, receipt, disk, journal, stage, backups,
    pc,        \* what the command in flight does next
    after,     \* where cleanup leads: "sync" from recovery, else "idle"
    ops,       \* the operations of the plan being prepared
    todo,      \* operations still to back up, to apply or to roll back
    cur,       \* the path between its last check and its write
    spent,     \* bounded steps taken
    touched,   \* history: paths the user ever edited, and leftovers of the clone
    kept,      \* history: user contents some checkpoint has captured
    unseen,    \* history: paths others changed at the hub, not applied here yet
    halfway    \* history: the brain moved without its companions (now, or once)

brain == <<hosted, synced, snap>>
recovery == <<journal, stage, backups>>
durable == <<receipt, disk, recovery>>
volatile == <<pc, after, ops, todo, cur>>
history == <<touched, kept, unseen, halfway>>
vars == <<brain, durable, volatile, spent, history>>

Steps == {"idle", "recover", "rollback", "clean", "unlink", "sync", "plan",
          "backup", "apply", "write", "commit", "stage", "push"}

----------------------------------------------------------------------------
(* Helpers *)

Halt ==
    /\ pc' = "idle"
    /\ after' = "idle"
    /\ ops' = {}
    /\ todo' = {}
    /\ cur' = {}

Goto(step) == pc' = step /\ UNCHANGED <<after, ops, todo, cur>>

\* An installation that cannot go on rolls back every operation of its journal.
StartRollback ==
    /\ pc' = "rollback"
    /\ todo' = journal.ops
    /\ cur' = {}
    /\ UNCHANGED <<after, ops>>

Spend(what) == spent' = [spent EXCEPT ![what] = @ + 1]
Faultless == spent.faults + spent.late < MaxFaults

\* The three-way comparison: receipt, snapshot, disk.
Changed == {p \in Paths : receipt[p] # snap[p]}
Divergent == {p \in Changed : disk[p] \notin {snap[p], receipt[p]}}
Relinked == {p \in Changed : {receipt[p], snap[p]} \cap Links # {}}
Delta == {p \in Changed : disk[p] # snap[p]}

\* Both sides changed the snapshot record since dbmd's baseline.
Competing == hosted # synced /\ snap # synced /\ snap # hosted

\* History: a receipt is written; of what other workspaces changed it covers what
\* the record in the brain has and the companions have too.
Covers(done) ==
    LET applied == {p \in unseen :
            /\ hosted[p] = snap[p]
            /\ p \in done \/ disk[p] = snap[p] \/ receipt[p] = snap[p]}
    IN  /\ unseen' = unseen \ applied
        /\ halfway' = IF halfway = "now" THEN "no" ELSE halfway

----------------------------------------------------------------------------
(* A restored workspace with its receipt, or a Git clone without one *)

Init ==
    /\ hosted \in [Paths -> HubData \cup {Absent}]
    /\ synced = hosted
    /\ snap = hosted
    /\ \/ receipt = hosted /\ disk = hosted
       \/ receipt = NoReceipt /\ disk \in [Paths -> HubData \cup {Absent}]
    /\ journal = NoJournal
    /\ stage = FALSE
    /\ backups = {}
    /\ pc = "idle"
    /\ after = "idle"
    /\ ops = {}
    /\ todo = {}
    /\ cur = {}
    /\ spent = [remote |-> 0, edits |-> 0, crashes |-> 0, faults |-> 0, late |-> 0, checkpoints |-> 0]
    /\ touched = {}
    /\ kept = {}
    /\ unseen = {}
    /\ halfway = "no"

----------------------------------------------------------------------------
(* Package pull: lock, recovery *)

BeginPull ==
    /\ pc = "idle"
    /\ pc' = "recover"
    /\ after' = "sync"
    /\ UNCHANGED <<brain, durable, ops, todo, cur, spent, history>>

RecoverNothing ==
    /\ pc = "recover"
    /\ journal = NoJournal
    /\ Goto("sync")
    /\ UNCHANGED <<brain, durable, spent, history>>

\* Mutant of RecoverApplied: any journal is taken for one that was applied.
RecoverAppliedAny ==
    /\ pc = "recover"
    /\ journal # NoJournal
    /\ Goto("clean")
    /\ UNCHANGED <<brain, durable, spent, history>>

\* Mutant of RecoverApplied: the journal of an applied pull ends the command.
RecoverAppliedStops ==
    /\ pc = "recover"
    /\ journal # NoJournal
    /\ receipt = journal.next
    /\ Halt
    /\ UNCHANGED <<brain, durable, spent, history>>

\* The receipt advanced: the pull happened, only its journal is left.
RecoverApplied ==
    /\ pc = "recover"
    /\ journal # NoJournal
    /\ receipt = journal.next
    /\ Goto("clean")
    /\ UNCHANGED <<brain, durable, spent, history>>

RecoverRollback ==
    /\ pc = "recover"
    /\ journal # NoJournal
    /\ receipt = journal.prev
    /\ StartRollback
    /\ UNCHANGED <<brain, durable, spent, history>>

\* Mutant of Rollback: what the path holds now is not looked at.
RollbackBlindly(p) ==
    /\ pc = "rollback"
    /\ p \in todo
    /\ journal.prev[p] \in {Absent, disk[p]} \/ p \in backups
    /\ disk' = [disk EXCEPT ![p] = journal.prev[p]]
    /\ todo' = todo \ {p}
    /\ UNCHANGED <<brain, receipt, recovery, pc, after, ops, cur, spent, history>>

\* A path that is as the pull made it is put back; one that is already as before
\* is left.  (The check and the write are one step here: the window between them
\* is that of Check and Install, which are two.)
Rollback(p) ==
    /\ pc = "rollback"
    /\ p \in todo
    /\ disk[p] \in {journal.prev[p], journal.next[p]}
    /\ journal.prev[p] \in {Absent, disk[p]} \/ p \in backups
    /\ disk' = [disk EXCEPT ![p] = journal.prev[p]]
    /\ todo' = todo \ {p}
    /\ UNCHANGED <<brain, receipt, recovery, pc, after, ops, cur, spent, history>>

\* "package recovery refuses changed path", or its backup is missing.
RollbackRefuse(p) ==
    /\ pc = "rollback"
    /\ p \in todo
    /\ \/ disk[p] \notin {journal.prev[p], journal.next[p]}
       \/ journal.prev[p] \notin {Absent, disk[p]} /\ p \notin backups
    /\ Halt
    /\ UNCHANGED <<brain, durable, spent, history>>

RollbackDone ==
    /\ pc = "rollback"
    /\ todo = {}
    /\ receipt' = journal.prev
    /\ Goto("clean")
    /\ UNCHANGED <<brain, disk, recovery, spent, history>>

----------------------------------------------------------------------------
(* Cleanup: the backups, their directory, the journal last *)

\* "cannot reopen private stage": the directory went before the journal did.
CleanBlocked ==
    /\ pc = "clean"
    /\ ~stage
    /\ Halt
    /\ UNCHANGED <<brain, durable, spent, history>>

CleanBackup(p) ==
    /\ pc = "clean"
    /\ p \in backups
    /\ backups' = backups \ {p}
    /\ UNCHANGED <<brain, receipt, disk, journal, stage, volatile, spent, history>>

\* Mutant of CleanDir: the directory goes whatever it holds.
CleanDirEarly ==
    /\ pc = "clean"
    /\ stage
    /\ stage' = FALSE
    /\ Goto("unlink")
    /\ UNCHANGED <<brain, receipt, disk, journal, backups, spent, history>>

CleanDir ==
    /\ pc = "clean"
    /\ stage
    /\ backups = {}
    /\ stage' = FALSE
    /\ Goto("unlink")
    /\ UNCHANGED <<brain, receipt, disk, journal, backups, spent, history>>

CleanJournal ==
    /\ pc = "unlink"
    /\ journal' = NoJournal
    /\ IF after = "sync" THEN Goto("sync") ELSE Halt
    /\ UNCHANGED <<brain, receipt, disk, stage, backups, spent, history>>

----------------------------------------------------------------------------
(* Package pull: the brain, then the plan *)

\* dbmd's pull: the hosted record replaces one that has not changed locally.
BrainPull ==
    /\ pc = "sync"
    /\ ~Competing
    /\ snap' = IF hosted = synced THEN snap ELSE hosted
    /\ synced' = hosted
    /\ halfway' = CASE halfway # "no"     -> "stuck"
                    [] hosted # synced    -> "now"
                    [] OTHER              -> "no"
    /\ pc' = "plan"
    /\ after' = "idle"
    /\ UNCHANGED <<hosted, durable, ops, todo, cur, spent, touched, kept, unseen>>

BrainConflict ==
    /\ pc = "sync"
    /\ Competing
    /\ Halt
    /\ UNCHANGED <<brain, durable, spent, history>>

\* Without a receipt every signed companion must match before one is written.
AdoptRefuse ==
    /\ pc = "plan"
    /\ receipt = NoReceipt
    /\ \E p \in Paths : snap[p] \notin {Absent, disk[p]}
    /\ Halt
    /\ UNCHANGED <<brain, durable, spent, history>>

Adopt ==
    /\ pc = "plan"
    /\ receipt = NoReceipt
    /\ \A p \in Paths : snap[p] \in {Absent, disk[p]}
    /\ receipt' = snap
    /\ Covers(Paths)
    /\ touched' = touched \cup {p \in Paths : disk[p] # snap[p]}
    /\ UNCHANGED <<brain, disk, recovery, volatile, spent, kept>>

\* Local work at a changed coordinate, or a symlink on either side of a change,
\* stops the pull.
PlanRefuse ==
    /\ pc = "plan"
    /\ receipt # NoReceipt
    /\ Divergent # {} \/ Relinked # {}
    /\ Halt
    /\ UNCHANGED <<brain, durable, spent, history>>

\* Mutant of PlanNothing: the receipt advances although there is work to do.
PlanNothingEarly ==
    /\ pc = "plan"
    /\ receipt # NoReceipt
    /\ Divergent = {} /\ Relinked = {}
    /\ receipt' = snap
    /\ Covers({})
    /\ Halt
    /\ UNCHANGED <<brain, disk, recovery, spent, touched, kept>>

\* Nothing to write: only the receipt advances.
PlanNothing ==
    /\ pc = "plan"
    /\ receipt # NoReceipt
    /\ Divergent = {} /\ Relinked = {}
    /\ Delta = {}
    /\ receipt' = snap
    /\ Covers({})
    /\ Halt
    /\ UNCHANGED <<brain, disk, recovery, spent, touched, kept>>

PlanDelta ==
    /\ pc = "plan"
    /\ receipt # NoReceipt
    /\ Divergent = {} /\ Relinked = {}
    /\ Delta # {}
    /\ stage' = TRUE
    /\ backups' = {}
    /\ pc' = "backup"
    /\ ops' = Delta
    /\ todo' = {p \in Delta : receipt[p] # Absent}
    /\ UNCHANGED <<brain, receipt, disk, journal, after, cur, spent, history>>

----------------------------------------------------------------------------
(* Package pull: backups, journal, installation, receipt *)

Backup(p) ==
    /\ pc = "backup"
    /\ p \in todo
    /\ disk[p] = receipt[p]
    /\ backups' = backups \cup {p}
    /\ todo' = todo \ {p}
    /\ UNCHANGED <<brain, receipt, disk, journal, stage, pc, after, ops, cur,
                   spent, history>>

BackupChanged(p) ==
    /\ pc = "backup"
    /\ p \in todo
    /\ disk[p] # receipt[p]
    /\ stage' = FALSE
    /\ backups' = {}
    /\ Halt
    /\ UNCHANGED <<brain, receipt, disk, journal, spent, history>>

\* Mutant of WriteJournal: it does not wait for the backups.
WriteJournalEarly ==
    /\ pc = "backup"
    /\ journal' = [prev |-> receipt, next |-> snap, ops |-> ops]
    /\ pc' = "apply"
    /\ todo' = ops
    /\ UNCHANGED <<brain, receipt, disk, stage, backups, after, ops, cur, spent, history>>

WriteJournal ==
    /\ pc = "backup"
    /\ todo = {}
    /\ journal' = [prev |-> receipt, next |-> snap, ops |-> ops]
    /\ pc' = "apply"
    /\ todo' = ops
    /\ UNCHANGED <<brain, receipt, disk, stage, backups, after, ops, cur, spent, history>>

\* The old coordinate is checked again immediately before its replacement.
Check(p) ==
    /\ pc = "apply"
    /\ p \in todo
    /\ disk[p] = journal.prev[p]
    /\ pc' = "write"
    /\ cur' = {p}
    /\ UNCHANGED <<brain, durable, after, ops, todo, spent, history>>

CheckChanged(p) ==
    /\ pc = "apply"
    /\ p \in todo
    /\ disk[p] # journal.prev[p]
    /\ StartRollback
    /\ UNCHANGED <<brain, durable, spent, history>>

Install(p) ==
    /\ pc = "write"
    /\ p \in cur
    /\ disk' = [disk EXCEPT ![p] = journal.next[p]]
    /\ pc' = "apply"
    /\ todo' = todo \ {p}
    /\ cur' = {}
    /\ UNCHANGED <<brain, receipt, recovery, after, ops, spent, history>>

Verify ==
    /\ pc = "apply"
    /\ todo = {}
    /\ \A p \in journal.ops : disk[p] = journal.next[p]
    /\ Goto("commit")
    /\ UNCHANGED <<brain, durable, spent, history>>

VerifyChanged ==
    /\ pc = "apply"
    /\ todo = {}
    /\ \E p \in journal.ops : disk[p] # journal.next[p]
    /\ StartRollback
    /\ UNCHANGED <<brain, durable, spent, history>>

\* The applied receipt is the commit marker.  What was not to be changed was as the
\* record has it when the plan was made, whatever the user has done to it since.
Commit ==
    /\ pc = "commit"
    /\ receipt' = journal.next
    /\ Covers(Paths)
    /\ Goto("clean")
    /\ UNCHANGED <<brain, disk, recovery, spent, touched, kept>>

----------------------------------------------------------------------------
(* Package checkpoint: no recovery, no look at the receipt *)

BeginCheckpoint ==
    /\ pc = "idle"
    /\ spent.checkpoints < MaxCheckpoints
    /\ Spend("checkpoints")
    /\ Goto("stage")
    /\ UNCHANGED <<brain, durable, history>>

\* The companions as they are become the snapshot record of the local brain.
Stage ==
    /\ pc = "stage"
    /\ snap' = disk
    /\ kept' = kept \cup {<<p, disk[p]>> : p \in {q \in Paths : disk[q] \in UserData}}
    /\ Goto("push")
    /\ UNCHANGED <<hosted, synced, durable, spent, touched, unseen, halfway>>

\* dbmd's push: a record the hub has not seen change replaces the hosted one.
Publish ==
    /\ pc = "push"
    /\ hosted = synced
    /\ hosted' = snap
    /\ synced' = snap
    /\ Halt
    /\ UNCHANGED <<snap, durable, spent, history>>

\* "stops before overwriting anything": the record changed on both sides.
PublishConflict ==
    /\ pc = "push"
    /\ hosted # synced
    /\ Halt
    /\ UNCHANGED <<brain, durable, spent, history>>

----------------------------------------------------------------------------
(* Failures and the rest of the world *)

\* A request or a read fails before anything changed.
PullFails ==
    /\ pc \in {"sync", "plan", "backup"}
    /\ Faultless
    /\ Spend("faults")
    /\ stage' = (stage /\ journal # NoJournal)
    /\ backups' = IF journal = NoJournal THEN {} ELSE backups
    /\ Halt
    /\ UNCHANGED <<brain, receipt, disk, journal, history>>

\* An installation step fails and has changed nothing.
ApplyFails ==
    /\ pc \in {"apply", "write", "commit"}
    /\ Faultless
    /\ Spend("faults")
    /\ StartRollback
    /\ UNCHANGED <<brain, durable, history>>

\* A write is reported as failed after its rename.
InstallFailsLate(p) ==
    /\ LateFaults
    /\ pc = "write"
    /\ p \in cur
    /\ Faultless
    /\ Spend("late")
    /\ disk' = [disk EXCEPT ![p] = journal.next[p]]
    /\ StartRollback
    /\ UNCHANGED <<brain, receipt, recovery, history>>

CommitFailsLate ==
    /\ LateFaults
    /\ pc = "commit"
    /\ Faultless
    /\ Spend("late")
    /\ receipt' = journal.next
    /\ StartRollback
    /\ UNCHANGED <<brain, disk, recovery, history>>

Crash ==
    /\ pc # "idle"
    /\ spent.crashes < MaxCrashes
    /\ Spend("crashes")
    /\ stage' = (stage /\ journal # NoJournal)
    /\ backups' = IF journal = NoJournal THEN {} ELSE backups
    /\ Halt
    /\ UNCHANGED <<brain, receipt, disk, journal, history>>

\* The user rewrites or deletes a companion.
Edit(p, d) ==
    /\ pc = "idle" \/ RaceEdits
    /\ pc # "write" \/ TightEdits
    /\ spent.edits < MaxEdits
    /\ Spend("edits")
    /\ d # disk[p]
    /\ disk' = [disk EXCEPT ![p] = d]
    /\ touched' = touched \cup {p}
    /\ UNCHANGED <<brain, receipt, recovery, volatile, kept, unseen, halfway>>

\* Another workspace checkpoints a change of one companion, or takes it back.
RemoteCheckpoint(p, d) ==
    /\ spent.remote < MaxRemote
    /\ Spend("remote")
    /\ d # hosted[p]
    /\ hosted' = [hosted EXCEPT ![p] = d]
    /\ unseen' = IF d = disk[p] \/ (d = synced[p] /\ halfway = "no")
                 THEN unseen \ {p} ELSE unseen \cup {p}
    /\ UNCHANGED <<synced, snap, durable, volatile, touched, kept, halfway>>

----------------------------------------------------------------------------

Recovery ==
    \/ RecoverNothing \/ RecoverApplied \/ RecoverRollback
    \/ \E p \in Paths : Rollback(p) \/ RollbackRefuse(p)
    \/ RollbackDone

Cleanup ==
    \/ CleanBlocked
    \/ \E p \in Paths : CleanBackup(p)
    \/ CleanDir \/ CleanJournal

Planning ==
    \/ BrainPull \/ BrainConflict
    \/ AdoptRefuse \/ Adopt
    \/ PlanRefuse \/ PlanNothing \/ PlanDelta

Applying ==
    \/ \E p \in Paths :
         Backup(p) \/ BackupChanged(p) \/ Check(p) \/ CheckChanged(p) \/ Install(p)
    \/ WriteJournal \/ Verify \/ VerifyChanged \/ Commit

Checkpoint == Stage \/ Publish \/ PublishConflict

\* What the running command does when nothing goes wrong around it.
Command == Recovery \/ Cleanup \/ Planning \/ Applying \/ Checkpoint

Faults ==
    \/ PullFails \/ ApplyFails \/ CommitFailsLate
    \/ \E p \in Paths : InstallFailsLate(p)

World ==
    \/ Crash
    \/ \E p \in Paths, d \in UserData \cup {Absent} : Edit(p, d)
    \/ \E p \in Paths, d \in HubData \cup {Absent} : RemoteCheckpoint(p, d)

Next == BeginPull \/ BeginCheckpoint \/ Command \/ Faults \/ World

Spec == Init /\ [][Next]_vars

\* A command that runs takes its next step, and pulls are run again; the number
\* of checkpoints is bounded, so they cannot keep the pulls away.
FairSpec ==
    /\ Spec
    /\ WF_vars(Command)
    /\ WF_vars(BeginPull)

----------------------------------------------------------------------------
(* What must hold *)

\* Every variable has its type; a journal has operations and its receipt is one of
\* its two; who installs, rolls back or cleans up has a journal.
TypeOK ==
    /\ hosted \in Snapshot /\ synced \in Snapshot /\ snap \in Snapshot
    /\ receipt \in Snapshot \cup {NoReceipt}
    /\ disk \in [Paths -> Data]
    /\ journal \in PackagePullJournal \cup {NoJournal}
    /\ stage \in BOOLEAN /\ backups \subseteq Paths
    /\ pc \in Steps /\ after \in {"sync", "idle"}
    /\ ops \subseteq Paths /\ todo \subseteq Paths /\ cur \subseteq Paths
    /\ spent \in [remote : Nat, edits : Nat, crashes : Nat, faults : Nat, late : Nat, checkpoints : Nat]
    /\ touched \subseteq Paths /\ kept \subseteq Paths \X UserData
    /\ unseen \subseteq Paths /\ halfway \in {"no", "now", "stuck"}
    /\ ~stage => backups = {}
    /\ journal # NoJournal => journal.ops # {} /\ receipt \in {journal.prev, journal.next}
    /\ pc \in {"rollback", "clean", "unlink", "apply", "write", "commit"}
         => journal # NoJournal

\* With no journal left, the receipt tells the truth about the companions: one the
\* user never edited is as the receipt says.  Failed, killed, refused and recovered
\* pulls leave no mixture of two snapshots behind.
ReceiptDescribesCompanions ==
    (journal = NoJournal /\ receipt # NoReceipt /\ spent.late = 0) =>
        \A p \in Paths \ touched : disk[p] = receipt[p]

\* As long as the receipt has not advanced, whatever the pull did to a companion
\* the user left alone can be taken back: it is as before, or its backup is there.
RollbackPossible ==
    (journal # NoJournal /\ receipt = journal.prev) =>
        \A p \in journal.ops :
            \/ disk[p] = journal.prev[p]
            \/ p \in touched
            \/ disk[p] = journal.next[p] /\ (journal.prev[p] = Absent \/ p \in backups)

\* The companions a step takes unpublished bytes from without the user doing it.
LostWork ==
    IF spent'.edits # spent.edits
      THEN {}
      ELSE {p \in Paths : /\ disk[p] \in UserData
                          /\ <<p, disk[p]>> \notin kept
                          /\ disk'[p] # disk[p]}

\* "A concurrent local edit fails closed instead of being overwritten"
\* (CHANGELOG.md:68-69): no step of a pull, a rollback or a recovery destroys
\* bytes the user wrote that no checkpoint has captured.
WorkSurvives == [][LostWork = {}]_vars

\* A step of ours that replaces the hosted snapshot.
Overwritten ==
    IF spent'.remote # spent.remote
      THEN {}
      ELSE {p \in unseen : hosted'[p] # hosted[p]}

\* "If a checkpoint meets a competing edit, it stops before overwriting anything"
\* (README.md:217): what another workspace published and this one has not applied
\* is never replaced by what lies here.
CheckpointSparesOthers == [][Overwritten = {}]_vars

\* The same where it can be relied on: if every pull that brought news for the
\* brain went on to write its receipt.
CheckpointConflicts == [][halfway = "no" => Overwritten = {}]_vars

\* Recovery cannot get past this journal.
Stuck ==
    \/ ~stage
    \/ /\ receipt = journal.prev
       /\ \E p \in journal.ops :
            \/ disk[p] \notin {journal.prev[p], journal.next[p]}
            \/ journal.prev[p] \notin {Absent, disk[p]} /\ p \notin backups

\* Pulling again gets rid of every journal, unless recovery refuses to go on
\* because the user changed a path or its directory is gone.
JournalResolves ==
    journal # NoJournal ~> journal = NoJournal \/ (pc = "idle" /\ Stuck)

=============================================================================
