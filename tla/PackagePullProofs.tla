-------------------------- MODULE PackagePullProofs --------------------------
(***************************************************************************)
(* Theorems about PackagePull, for every workspace, every snapshot and     *)
(* every number of edits, crashes, errors and checkpoints.                 *)
(***************************************************************************)
EXTENDS PackagePull, TLAPS

----------------------------------------------------------------------------
(* The inductive invariant *)

\* Steps between the start of an installation and its receipt.
Installing == {"apply", "write", "commit"}

\* The companion at p is what the receipt of the running plan says, or the user's.
Before(p) == p \in touched \/ disk[p] = journal.prev[p]
After(p) == p \in touched \/ disk[p] = journal.next[p]

\* What pc says about the journal, the plan and the receipt.
Phases ==
    /\ pc \in {"sync", "plan", "backup"} => journal = NoJournal
    /\ pc = "backup" => stage /\ ops # {} /\ receipt # NoReceipt
    /\ pc \in Installing => receipt = journal.prev
    /\ pc = "rollback" => receipt = journal.prev \/ spent.late > 0

\* Only what differs between the two snapshots is to be changed, so that the receipt
\* tells which of them the companions are at.
Differ ==
    /\ pc = "backup" => \A p \in ops : receipt[p] # snap[p]
    /\ journal # NoJournal => \A p \in journal.ops : journal.prev[p] # journal.next[p]

\* A backup for everything that is going to be replaced.
BackedUp ==
    /\ pc = "backup" => \A p \in ops : receipt[p] = Absent \/ p \in backups \cup todo
    /\ pc \in Installing => \A p \in journal.ops : journal.prev[p] = Absent \/ p \in backups

\* How far the companions of the plan are.
Progress ==
    /\ pc = "backup" => \A p \in ops : p \in touched \/ disk[p] = receipt[p]
    /\ pc = "rollback" => \A p \in journal.ops \ todo : Before(p)
    /\ pc = "commit" => \A p \in journal.ops : After(p)
    /\ (pc \in {"clean", "unlink"} /\ receipt = journal.prev) =>
         \A p \in journal.ops : Before(p)

\* The other companions are what both snapshots say.
Bystanders ==
    spent.late = 0 =>
        /\ pc = "backup" =>
             \A p \in Paths \ ops : p \in touched \/ (disk[p] = snap[p] /\ disk[p] = receipt[p])
        /\ journal # NoJournal => \A p \in Paths \ journal.ops : Before(p) /\ After(p)

\* The receipt advanced: everything has been installed.
Applied ==
    (journal # NoJournal /\ receipt = journal.next /\ spent.late = 0) =>
        \A p \in journal.ops : After(p)

\* User contents of a snapshot have been through a checkpoint.
Captured(s) == \A p \in Paths : s[p] \in UserData => <<p, s[p]>> \in kept

SnapshotsCaptured ==
    /\ Captured(hosted) /\ Captured(synced) /\ Captured(snap)
    /\ receipt # NoReceipt => Captured(receipt)
    /\ journal # NoJournal => Captured(journal.prev) /\ Captured(journal.next)

\* The path about to be written is still as its check saw it.
Checked ==
    (pc = "write" /\ ~TightEdits) => \A p \in cur : disk[p] = journal.prev[p]

\* What others published and this workspace has not applied is seen by the next push;
\* unless a pull is between the two, and then the brain is what dbmd last saw.
Noticed ==
    /\ halfway = "no" => \A p \in unseen : hosted[p] # synced[p]
    /\ (halfway = "now" /\ pc \in {"plan", "backup"} \cup Installing) => snap = synced

IInv ==
    /\ TypeOK /\ Phases /\ Differ /\ BackedUp /\ Progress /\ Bystanders /\ Applied
    /\ ReceiptDescribesCompanions /\ RollbackPossible
    /\ SnapshotsCaptured /\ Checked /\ Noticed

----------------------------------------------------------------------------
(* Types *)

\* A journal that is there has the fields of one; none has no operations.
LEMMA JournalShape ==
    ASSUME TypeOK
    PROVE  /\ journal # NoJournal =>
                /\ journal \in PackagePullJournal
                /\ journal.prev \in Snapshot /\ journal.next \in Snapshot
                /\ journal.ops \subseteq Paths /\ journal.ops # {}
                /\ receipt \in {journal.prev, journal.next}
           /\ receipt # NoReceipt => receipt \in Snapshot
  BY DEF TypeOK, PackagePullJournal, NoJournal, Snapshot

\* The kinds of steps that are counted.
Counters == {"remote", "edits", "crashes", "faults", "late", "checkpoints"}

\* Counting a step changes one natural number.
LEMMA SpendType ==
    ASSUME TypeOK, NEW what \in Counters, Spend(what)
    PROVE  /\ spent' \in [remote : Nat, edits : Nat, crashes : Nat, faults : Nat,
                          late : Nat, checkpoints : Nat]
           /\ spent'[what] = spent[what] + 1
           /\ spent.late \in Nat /\ spent'.late >= spent.late
           /\ what # "late" => spent'.late = spent.late
  BY DEF TypeOK, Spend, Counters

\* A command that ends keeps the types, if what it leaves on disk has them.
LEMMA HaltType ==
    ASSUME TypeOK, Halt, UNCHANGED <<brain, receipt, disk, journal, history>>,
           stage' \in BOOLEAN, backups' \subseteq Paths, ~stage' => backups' = {},
           spent' \in [remote : Nat, edits : Nat, crashes : Nat, faults : Nat, late : Nat,
                       checkpoints : Nat]
    PROVE  TypeOK'
  BY DEF TypeOK, Halt, Steps, brain, history

\* A step that only moves the command keeps the types, if the journal it may need is there.
LEMMA MoveType ==
    ASSUME TypeOK, UNCHANGED <<brain, durable, history>>,
           pc' \in Steps, after' \in {"sync", "idle"},
           ops' \subseteq Paths, todo' \subseteq Paths, cur' \subseteq Paths,
           pc' \in {"rollback", "clean", "unlink", "apply", "write", "commit"}
             => journal # NoJournal,
           spent' \in [remote : Nat, edits : Nat, crashes : Nat, faults : Nat, late : Nat,
                       checkpoints : Nat]
    PROVE  TypeOK'
  BY DEF TypeOK, brain, durable, recovery, history

\* A restored workspace, or a clone, has the right types.
LEMMA TypeInit == Init => TypeOK
<1> SUFFICES ASSUME Init PROVE TypeOK
  OBVIOUS
<1>1. hosted \in Snapshot /\ disk \in [Paths -> Data]
  BY DEF Init, Snapshot, Data
<1>2. receipt \in Snapshot \cup {NoReceipt}
  BY <1>1 DEF Init
<1> QED BY <1>1, <1>2 DEF Init, TypeOK, NoJournal, Steps

\* Every step of the program and of the world keeps the types, given what pc says.
LEMMA TypeStep == TypeOK /\ Phases /\ [Next]_vars => TypeOK'
<1> SUFFICES ASSUME TypeOK, Phases, [Next]_vars PROVE TypeOK'
  OBVIOUS
<1> USE JournalShape
<1>1. CASE BeginPull
  BY <1>1, MoveType DEF BeginPull, TypeOK, Steps
<1>2. CASE BeginCheckpoint
  BY <1>2, SpendType, MoveType DEF BeginCheckpoint, Goto, TypeOK, Steps, Counters
<1>3. CASE Recovery
  <2>1. CASE RecoverNothing \/ RecoverApplied
    BY <2>1, MoveType DEF RecoverNothing, RecoverApplied, Goto, TypeOK, Steps
  <2>2. CASE RecoverRollback
    BY <2>2, MoveType DEF RecoverRollback, StartRollback, TypeOK, Steps
  <2>3. ASSUME NEW p \in Paths, Rollback(p) PROVE TypeOK'
    BY <2>3 DEF Rollback, TypeOK, Snapshot, brain, recovery, history
  <2>4. ASSUME NEW p \in Paths, RollbackRefuse(p) PROVE TypeOK'
    BY <2>4, HaltType DEF RollbackRefuse, TypeOK, durable, recovery
  <2>5. CASE RollbackDone
    BY <2>5 DEF RollbackDone, Goto, TypeOK, Steps, brain, recovery, history
  <2> QED BY <1>3, <2>1, <2>2, <2>3, <2>4, <2>5 DEF Recovery
<1>4. CASE Cleanup
  <2>1. CASE CleanBlocked
    BY <2>1, HaltType DEF CleanBlocked, TypeOK, durable, recovery
  <2>2. ASSUME NEW p \in Paths, CleanBackup(p) PROVE TypeOK'
    BY <2>2 DEF CleanBackup, TypeOK, brain, volatile, history
  <2>3. CASE CleanDir
    BY <2>3 DEF CleanDir, Goto, TypeOK, Steps, brain, history
  <2>4. CASE CleanJournal
    BY <2>4 DEF CleanJournal, Goto, Halt, TypeOK, Steps, NoJournal, brain, history
  <2> QED BY <1>4, <2>1, <2>2, <2>3, <2>4 DEF Cleanup
<1>5. CASE Planning
  <2>1. CASE BrainPull
    BY <2>1 DEF BrainPull, TypeOK, Steps, durable, recovery
  <2>2. CASE BrainConflict \/ AdoptRefuse \/ PlanRefuse
    BY <2>2, HaltType DEF BrainConflict, AdoptRefuse, PlanRefuse, TypeOK, durable, recovery
  <2>3. CASE Adopt
    BY <2>3 DEF Adopt, Covers, Phases, TypeOK, brain, recovery, volatile
  <2>4. CASE PlanNothing
    BY <2>4 DEF PlanNothing, Covers, Halt, Phases, TypeOK, Steps, brain, recovery
  <2>5. CASE PlanDelta
    BY <2>5 DEF PlanDelta, Delta, Changed, TypeOK, Steps, brain, history
  <2> QED BY <1>5, <2>1, <2>2, <2>3, <2>4, <2>5 DEF Planning
<1>6. CASE Applying
  <2>1. ASSUME NEW p \in Paths, Backup(p) PROVE TypeOK'
    BY <2>1 DEF Backup, Phases, TypeOK, brain, history
  <2>2. ASSUME NEW p \in Paths, BackupChanged(p) PROVE TypeOK'
    BY <2>2, HaltType DEF BackupChanged, TypeOK
  <2>3. ASSUME NEW p \in Paths, Check(p) PROVE TypeOK'
    BY <2>3, MoveType DEF Check, TypeOK, Steps
  <2>4. ASSUME NEW p \in Paths, CheckChanged(p) PROVE TypeOK'
    BY <2>4, MoveType DEF CheckChanged, StartRollback, TypeOK, Steps
  <2>5. ASSUME NEW p \in Paths, Install(p) PROVE TypeOK'
    BY <2>5 DEF Install, TypeOK, Snapshot, Steps, brain, recovery, history
  <2>6. CASE WriteJournal
    <3>1. journal' \in PackagePullJournal /\ receipt # NoReceipt /\ ops # {}
      BY <2>6 DEF WriteJournal, PackagePullJournal, Phases, TypeOK
    <3> QED BY <2>6, <3>1 DEF WriteJournal, TypeOK, Steps, NoJournal, PackagePullJournal,
                              brain, history
  <2>7. CASE Verify \/ VerifyChanged
    BY <2>7, MoveType DEF Verify, VerifyChanged, Goto, StartRollback, TypeOK, Steps
  <2>8. CASE Commit
    BY <2>8 DEF Commit, Covers, Goto, TypeOK, Steps, brain, recovery
  <2> QED BY <1>6, <2>1, <2>2, <2>3, <2>4, <2>5, <2>6, <2>7, <2>8 DEF Applying
<1>7. CASE Checkpoint
  <2>1. CASE Stage
    BY <2>1 DEF Stage, Goto, TypeOK, Snapshot, Steps, durable, recovery
  <2>2. CASE Publish
    BY <2>2 DEF Publish, Halt, TypeOK, Steps, durable, recovery, history
  <2>3. CASE PublishConflict
    BY <2>3, HaltType DEF PublishConflict, TypeOK, durable, recovery
  <2> QED BY <1>7, <2>1, <2>2, <2>3 DEF Checkpoint
<1>8. CASE Faults
  <2>1. CASE PullFails
    BY <2>1, SpendType, HaltType DEF PullFails, TypeOK, Counters
  <2>2. CASE ApplyFails
    BY <2>2, SpendType, MoveType DEF ApplyFails, StartRollback, TypeOK, Steps, Counters
  <2>3. ASSUME NEW p \in Paths, InstallFailsLate(p) PROVE TypeOK'
    BY <2>3, SpendType
       DEF InstallFailsLate, StartRollback, TypeOK, Snapshot, Steps, Counters, brain, recovery,
           history
  <2>4. CASE CommitFailsLate
    BY <2>4, SpendType
       DEF CommitFailsLate, StartRollback, TypeOK, Steps, Counters, brain, recovery, history
  <2> QED BY <1>8, <2>1, <2>2, <2>3, <2>4 DEF Faults
<1>9. CASE Crash
  BY <1>9, SpendType, HaltType DEF Crash, TypeOK, Counters
<1>10. ASSUME NEW p \in Paths, NEW d \in UserData \cup {Absent}, Edit(p, d) PROVE TypeOK'
  BY <1>10, SpendType DEF Edit, TypeOK, Data, Counters, brain, recovery, volatile
<1>11. ASSUME NEW p \in Paths, NEW d \in HubData \cup {Absent}, RemoteCheckpoint(p, d)
       PROVE TypeOK'
  BY <1>11, SpendType
     DEF RemoteCheckpoint, TypeOK, Snapshot, Data, Counters, durable, recovery, volatile
<1>12. CASE UNCHANGED vars
  BY <1>12 DEF vars, brain, durable, recovery, volatile, history, TypeOK
<1> QED
  BY <1>1, <1>2, <1>3, <1>4, <1>5, <1>6, <1>7, <1>8, <1>9, <1>10, <1>11, <1>12
     DEF Next, Command, World

----------------------------------------------------------------------------
(* The invariant is inductive *)

\* At rest everything is as the receipt says, or the clone has no receipt.
LEMMA InvInit == Init => IInv
<1> SUFFICES ASSUME Init PROVE IInv
  OBVIOUS
<1>1. TypeOK
  BY TypeInit
<1>2. Phases /\ Differ /\ BackedUp /\ Progress /\ Bystanders /\ Applied /\ Checked /\ Noticed
  BY DEF Init, Phases, Differ, BackedUp, Progress, Bystanders, Applied, Checked, Noticed,
         Installing
<1>3. ReceiptDescribesCompanions /\ RollbackPossible
  BY DEF Init, ReceiptDescribesCompanions, RollbackPossible
<1>4. SnapshotsCaptured
  BY PackageAssumption DEF Init, SnapshotsCaptured, Captured
<1> QED BY <1>1, <1>2, <1>3, <1>4 DEF IInv

\* The receipt of a journal tells whether the pull was applied.
LEMMA ReceiptTells ==
    ASSUME TypeOK, Differ, journal # NoJournal
    PROVE  journal.prev # journal.next
<1>1. PICK p \in journal.ops : TRUE
  BY JournalShape
<1> QED BY <1>1 DEF Differ

\* A receipt covers what the hub has, unless the hub has moved on since.
LEMMA CoversNoticed ==
    ASSUME Noticed, NEW done, Covers(done), UNCHANGED <<hosted, synced, snap>>,
           pc \in {"plan", "commit"},
           \A p \in unseen : p \in done \/ disk[p] = snap[p] \/ receipt[p] = snap[p]
    PROVE  halfway' = "no" => \A p \in unseen' : hosted'[p] # synced'[p]
  BY DEF Noticed, Covers, Installing

\* A step that leaves the disk and the histories alone and ends the command, possibly
\* clearing a recovery directory that no journal needs, keeps the invariant.
LEMMA InvHalt ==
    ASSUME IInv, TypeOK', Halt, UNCHANGED <<brain, receipt, disk, journal, history>>,
           spent'.late = spent.late, journal # NoJournal => backups' = backups
    PROVE  IInv'
<1> USE DEF IInv, Halt, brain, history
<1>1. Phases' /\ Differ' /\ BackedUp' /\ Progress' /\ Checked' /\ Noticed'
  BY DEF Phases, Differ, BackedUp, Progress, Checked, Noticed, Installing
<1>2. Bystanders' /\ Applied' /\ ReceiptDescribesCompanions' /\ RollbackPossible'
  BY DEF Bystanders, Applied, ReceiptDescribesCompanions, RollbackPossible, Before, After
<1>3. SnapshotsCaptured'
  BY DEF SnapshotsCaptured, Captured
<1> QED BY <1>1, <1>2, <1>3

\* Recovery: the receipt decides, and every companion is put back before it is.
LEMMA InvRecovery == IInv /\ TypeOK' /\ Recovery => IInv'
<1> SUFFICES ASSUME IInv, TypeOK', Recovery PROVE IInv'
  OBVIOUS
<1> USE JournalShape
    DEF IInv, Phases, Differ, BackedUp, Progress, Bystanders, Applied,
        ReceiptDescribesCompanions, RollbackPossible, SnapshotsCaptured, Captured, Checked,
        Noticed, Before, After, Installing
<1>1. CASE RecoverNothing
  BY <1>1 DEF RecoverNothing, Goto, brain, durable, recovery, history
<1>2. CASE RecoverApplied
  BY <1>2 DEF RecoverApplied, Goto, brain, durable, recovery, history
<1>3. CASE RecoverRollback
  BY <1>3 DEF RecoverRollback, StartRollback, brain, durable, recovery, history
<1>4. ASSUME NEW p \in Paths, Rollback(p) PROVE IInv'
  BY <1>4 DEF Rollback, TypeOK, brain, recovery, history
<1>5. ASSUME NEW p \in Paths, RollbackRefuse(p) PROVE IInv'
  BY <1>5, InvHalt DEF RollbackRefuse, durable, recovery
<1>6. CASE RollbackDone
  <2>1. journal # NoJournal /\ journal.prev # journal.next
    BY <1>6, ReceiptTells DEF RollbackDone, TypeOK
  <2>2. Phases' /\ Differ' /\ BackedUp' /\ Checked'
    BY <1>6, <2>1 DEF RollbackDone, Goto, brain, recovery, history
  <2>3. Progress'
    BY <1>6, <2>1 DEF RollbackDone, Goto, brain, recovery, history
  <2>4. Bystanders'
    BY <1>6, <2>1 DEF RollbackDone, Goto, brain, recovery, history
  <2>5. Applied'
    BY <1>6, <2>1 DEF RollbackDone, Goto, brain, recovery, history
  <2>6. ReceiptDescribesCompanions' /\ RollbackPossible'
    BY <1>6, <2>1 DEF RollbackDone, Goto, brain, recovery, history
  <2>7. SnapshotsCaptured'
    BY <1>6, <2>1 DEF RollbackDone, Goto, brain, recovery, history
  <2>8. Noticed'
    BY <1>6, <2>1 DEF RollbackDone, Goto, brain, recovery, history
  <2> QED BY <2>2, <2>3, <2>4, <2>5, <2>6, <2>7, <2>8
<1> QED BY <1>1, <1>2, <1>3, <1>4, <1>5, <1>6 DEF Recovery

\* Cleanup begins when nothing has to be taken back any more.
LEMMA InvCleanup == IInv /\ TypeOK' /\ Cleanup => IInv'
<1> SUFFICES ASSUME IInv, TypeOK', Cleanup PROVE IInv'
  OBVIOUS
<1> USE JournalShape
    DEF IInv, Phases, Differ, BackedUp, Progress, Bystanders, Applied,
        ReceiptDescribesCompanions, RollbackPossible, SnapshotsCaptured, Captured, Checked,
        Noticed, Before, After, Installing
<1>1. CASE CleanBlocked
  BY <1>1, InvHalt DEF CleanBlocked, durable, recovery
<1>2. ASSUME NEW p \in Paths, CleanBackup(p) PROVE IInv'
  BY <1>2 DEF CleanBackup, brain, volatile, history
<1>3. CASE CleanDir
  BY <1>3 DEF CleanDir, Goto, brain, history
<1>4. CASE CleanJournal
  BY <1>4 DEF CleanJournal, Goto, Halt, brain, history, TypeOK
<1> QED BY <1>1, <1>2, <1>3, <1>4 DEF Cleanup

\* Planning: the three-way comparison leaves nothing but what the receipt describes.
LEMMA InvPlanning == IInv /\ TypeOK' /\ Planning => IInv'
<1> SUFFICES ASSUME IInv, TypeOK', Planning PROVE IInv'
  OBVIOUS
<1> USE JournalShape
    DEF IInv, Phases, Differ, BackedUp, Progress, Bystanders, Applied,
        ReceiptDescribesCompanions, RollbackPossible, SnapshotsCaptured, Captured, Checked,
        Noticed, Before, After, Installing
<1>1. CASE BrainPull
  BY <1>1 DEF BrainPull, Competing, durable, recovery
<1>2. CASE BrainConflict \/ AdoptRefuse \/ PlanRefuse
  BY <1>2, InvHalt DEF BrainConflict, AdoptRefuse, PlanRefuse, durable, recovery
<1>3. CASE Adopt
  <2>1. Noticed'
    BY <1>3, CoversNoticed DEF Adopt, Covers, TypeOK, brain, volatile
  <2> QED BY <1>3, <2>1 DEF Adopt, brain, recovery, volatile
<1>4. CASE PlanNothing
  <2>1. \A p \in Paths : disk[p] = snap[p] \/ receipt[p] = snap[p]
    BY <1>4 DEF PlanNothing, Delta, Changed
  <2>2. Noticed'
    BY <1>4, <2>1, CoversNoticed DEF PlanNothing, Halt, TypeOK, brain
  <2> QED BY <1>4, <2>1, <2>2 DEF PlanNothing, Halt, brain, recovery
<1>5. CASE PlanDelta
  BY <1>5 DEF PlanDelta, Divergent, Delta, Changed, brain, history
<1> QED BY <1>1, <1>2, <1>3, <1>4, <1>5 DEF Planning

\* Installing: what is replaced is backed up, and the receipt follows the last write.
LEMMA InvApplying == IInv /\ TypeOK' /\ Applying => IInv'
<1> SUFFICES ASSUME IInv, TypeOK', Applying PROVE IInv'
  OBVIOUS
<1> USE JournalShape
    DEF IInv, Phases, Differ, BackedUp, Progress, Bystanders, Applied,
        ReceiptDescribesCompanions, RollbackPossible, SnapshotsCaptured, Captured, Checked,
        Noticed, Before, After, Installing
<1>1. ASSUME NEW p \in Paths, Backup(p) PROVE IInv'
  BY <1>1 DEF Backup, brain, history
<1>2. ASSUME NEW p \in Paths, BackupChanged(p) PROVE IInv'
  BY <1>2, InvHalt DEF BackupChanged
<1>3. ASSUME NEW p \in Paths, Check(p) PROVE IInv'
  BY <1>3 DEF Check, brain, durable, recovery, history
<1>4. ASSUME NEW p \in Paths, CheckChanged(p) PROVE IInv'
  BY <1>4 DEF CheckChanged, StartRollback, brain, durable, recovery, history
<1>5. ASSUME NEW p \in Paths, Install(p) PROVE IInv'
  BY <1>5 DEF Install, TypeOK, brain, recovery, history
<1>6. CASE WriteJournal
  BY <1>6 DEF WriteJournal, brain, history
<1>7. CASE Verify
  BY <1>7 DEF Verify, Goto, brain, durable, recovery, history
<1>8. CASE VerifyChanged
  BY <1>8 DEF VerifyChanged, StartRollback, brain, durable, recovery, history
<1>9. CASE Commit
  <2>1. journal # NoJournal /\ journal.prev # journal.next
    BY <1>9, ReceiptTells DEF Commit, TypeOK
  <2>2. Noticed'
    BY <1>9, CoversNoticed DEF Commit, Goto, TypeOK, brain
  <2>3. Phases' /\ Differ' /\ BackedUp' /\ Checked'
    BY <1>9, <2>1 DEF Commit, Goto, brain, recovery
  <2>4. Progress'
    BY <1>9, <2>1 DEF Commit, Goto, brain, recovery
  <2>5. Bystanders'
    BY <1>9, <2>1 DEF Commit, Goto, brain, recovery
  <2>6. Applied'
    BY <1>9, <2>1 DEF Commit, Goto, brain, recovery
  <2>7. ReceiptDescribesCompanions' /\ RollbackPossible'
    BY <1>9, <2>1 DEF Commit, Goto, brain, recovery
  <2>8. SnapshotsCaptured'
    BY <1>9, <2>1 DEF Commit, Goto, brain, recovery
  <2> QED BY <2>2, <2>3, <2>4, <2>5, <2>6, <2>7, <2>8
<1> QED BY <1>1, <1>2, <1>3, <1>4, <1>5, <1>6, <1>7, <1>8, <1>9 DEF Applying

\* A checkpoint captures user contents before they can get into a snapshot.
LEMMA InvCheckpoint == IInv /\ TypeOK' /\ (BeginCheckpoint \/ Checkpoint) => IInv'
<1> SUFFICES ASSUME IInv, TypeOK', BeginCheckpoint \/ Checkpoint PROVE IInv'
  OBVIOUS
<1> USE JournalShape
    DEF IInv, Phases, Differ, BackedUp, Progress, Bystanders, Applied,
        ReceiptDescribesCompanions, RollbackPossible, SnapshotsCaptured, Captured, Checked,
        Noticed, Before, After, Installing
<1>1. CASE BeginCheckpoint
  BY <1>1, SpendType DEF BeginCheckpoint, Goto, Counters, brain, durable, recovery, history
<1>2. CASE Stage
  BY <1>2 DEF Stage, Goto, durable, recovery
<1>3. CASE Publish
  BY <1>3 DEF Publish, Halt, durable, recovery, history
<1>4. CASE PublishConflict
  BY <1>4, InvHalt DEF PublishConflict, durable, recovery
<1> QED BY <1>1, <1>2, <1>3, <1>4 DEF Checkpoint

\* Errors before, during and after a write.
LEMMA InvFaults == IInv /\ TypeOK' /\ Faults => IInv'
<1> SUFFICES ASSUME IInv, TypeOK', Faults PROVE IInv'
  OBVIOUS
<1> USE JournalShape, SpendType
    DEF IInv, Phases, Differ, BackedUp, Progress, Bystanders, Applied,
        ReceiptDescribesCompanions, RollbackPossible, SnapshotsCaptured, Captured, Checked,
        Noticed, Before, After, Installing, Counters
<1>1. CASE PullFails
  BY <1>1, InvHalt DEF PullFails
<1>2. CASE ApplyFails
  BY <1>2 DEF ApplyFails, StartRollback, brain, durable, recovery, history
<1>3. ASSUME NEW p \in Paths, InstallFailsLate(p) PROVE IInv'
  BY <1>3 DEF InstallFailsLate, StartRollback, TypeOK, brain, recovery, history
<1>4. CASE CommitFailsLate
  <2>1. journal # NoJournal /\ journal.prev # journal.next /\ spent'.late > 0
    BY <1>4, ReceiptTells DEF CommitFailsLate, TypeOK
  <2>2. Phases' /\ Differ' /\ BackedUp' /\ Checked'
    BY <1>4, <2>1 DEF CommitFailsLate, StartRollback, brain, recovery, history
  <2>3. Progress'
    BY <1>4, <2>1 DEF CommitFailsLate, StartRollback, brain, recovery, history
  <2>4. Bystanders'
    BY <1>4, <2>1 DEF CommitFailsLate, StartRollback, brain, recovery, history
  <2>5. Applied'
    BY <1>4, <2>1 DEF CommitFailsLate, StartRollback, brain, recovery, history
  <2>6. ReceiptDescribesCompanions' /\ RollbackPossible'
    BY <1>4, <2>1 DEF CommitFailsLate, StartRollback, brain, recovery, history
  <2>7. SnapshotsCaptured'
    BY <1>4, <2>1 DEF CommitFailsLate, StartRollback, brain, recovery, history
  <2>8. Noticed'
    BY <1>4, <2>1 DEF CommitFailsLate, StartRollback, brain, recovery, history
  <2> QED BY <2>2, <2>3, <2>4, <2>5, <2>6, <2>7, <2>8
<1> QED BY <1>1, <1>2, <1>3, <1>4 DEF Faults

\* Kills, edits and other workspaces.
LEMMA InvWorld == IInv /\ TypeOK' /\ World => IInv'
<1> SUFFICES ASSUME IInv, TypeOK', World PROVE IInv'
  OBVIOUS
<1> USE JournalShape, SpendType
    DEF IInv, Phases, Differ, BackedUp, Progress, Bystanders, Applied,
        ReceiptDescribesCompanions, RollbackPossible, SnapshotsCaptured, Captured, Checked,
        Noticed, Before, After, Installing, Counters
<1>1. CASE Crash
  BY <1>1, InvHalt DEF Crash
<1>2. ASSUME NEW p \in Paths, NEW d \in UserData \cup {Absent}, Edit(p, d) PROVE IInv'
  BY <1>2 DEF Edit, TypeOK, brain, recovery, volatile
<1>3. ASSUME NEW p \in Paths, NEW d \in HubData \cup {Absent}, RemoteCheckpoint(p, d)
      PROVE IInv'
  BY <1>3, PackageAssumption DEF RemoteCheckpoint, TypeOK, Snapshot, durable, recovery, volatile
<1> QED BY <1>1, <1>2, <1>3 DEF World

\* Every step keeps the invariant.
LEMMA InvStep == IInv /\ [Next]_vars => IInv'
<1> SUFFICES ASSUME IInv, [Next]_vars PROVE IInv'
  OBVIOUS
<1>1. TypeOK'
  BY TypeStep DEF IInv
<1>2. CASE BeginPull
  BY <1>1, <1>2
     DEF BeginPull, brain, durable, recovery, history,
         IInv, Phases, Differ, BackedUp, Progress, Bystanders, Applied,
         ReceiptDescribesCompanions, RollbackPossible, SnapshotsCaptured, Captured, Checked,
         Noticed, Before, After, Installing
<1>3. CASE UNCHANGED vars
  BY <1>1, <1>3
     DEF vars, brain, durable, recovery, volatile, history,
         IInv, Phases, Differ, BackedUp, Progress, Bystanders, Applied,
         ReceiptDescribesCompanions, RollbackPossible, SnapshotsCaptured, Captured, Checked,
         Noticed, Before, After, Installing
<1> QED
  BY <1>1, <1>2, <1>3, InvRecovery, InvCleanup, InvPlanning, InvApplying, InvCheckpoint,
     InvFaults, InvWorld
     DEF Next, Command

----------------------------------------------------------------------------
(* The theorems *)

\* The inductive invariant holds of every workspace.
THEOREM Invariant == Spec => []IInv
  BY InvInit, InvStep, PTL DEF Spec

\* The type invariant; a journal always names one of its two receipts as the current
\* one, and nobody installs, rolls back or cleans up without a journal (2456-2481).
THEOREM TypeCorrect == Spec => []TypeOK
<1>1. IInv => TypeOK
  BY DEF IInv
<1> QED BY <1>1, Invariant, PTL

\* Without a journal the receipt tells the truth about every companion its user left
\* alone, whatever failed, was killed, was refused or was recovered (2596-2684).
THEOREM ReceiptsAreTrue == Spec => []ReceiptDescribesCompanions
<1>1. IInv => ReceiptDescribesCompanions
  BY DEF IInv
<1> QED BY <1>1, Invariant, PTL

\* Until the receipt has advanced, every companion is as before or its backup is there,
\* errors reported after their effect included (2401-2454, 2483-2528).
THEOREM RollbacksArePossible == Spec => []RollbackPossible
<1>1. IInv => RollbackPossible
  BY DEF IInv
<1> QED BY <1>1, Invariant, PTL

\* A step of the program takes no user contents from the disk that no checkpoint has.
LEMMA NothingLost == IInv /\ ~TightEdits /\ [Next]_vars => LostWork = {}
<1> SUFFICES ASSUME IInv, ~TightEdits, [Next]_vars,
                    NEW p \in Paths, disk[p] \in UserData, disk'[p] # disk[p],
                    spent'.edits = spent.edits
             PROVE  <<p, disk[p]>> \in kept
  BY DEF LostWork
<1> USE JournalShape DEF IInv
<1>1. ASSUME NEW q \in Paths, Rollback(q) PROVE <<p, disk[p]>> \in kept
  <2>1. p = q /\ disk[p] = journal.next[p] /\ journal # NoJournal
    BY <1>1 DEF Rollback, TypeOK
  <2> QED BY <2>1 DEF SnapshotsCaptured, Captured
<1>2. ASSUME NEW q \in Paths, Install(q) \/ InstallFailsLate(q) PROVE <<p, disk[p]>> \in kept
  <2>1. p = q /\ disk[p] = journal.prev[p] /\ journal # NoJournal
    BY <1>2 DEF Install, InstallFailsLate, Checked, TypeOK
  <2> QED BY <2>1 DEF SnapshotsCaptured, Captured
<1>3. ASSUME NEW q \in Paths, NEW d \in UserData \cup {Absent}, Edit(q, d) PROVE FALSE
  BY <1>3, SpendType DEF Edit, TypeOK, Counters
<1>4. CASE \/ BeginPull \/ BeginCheckpoint \/ Cleanup \/ Planning \/ Checkpoint
           \/ RecoverNothing \/ RecoverApplied \/ RecoverRollback \/ RollbackDone
           \/ \E q \in Paths : RollbackRefuse(q)
  BY <1>4
     DEF BeginPull, BeginCheckpoint, RecoverNothing, RecoverApplied, RecoverRollback,
         RollbackDone, RollbackRefuse, Cleanup, CleanBlocked, CleanBackup, CleanDir,
         CleanJournal, Planning, BrainPull, BrainConflict, AdoptRefuse, Adopt, PlanRefuse,
         PlanNothing, PlanDelta, Checkpoint, Stage, Publish, PublishConflict, durable
<1>5. CASE \/ \E q \in Paths : Backup(q) \/ BackupChanged(q) \/ Check(q) \/ CheckChanged(q)
           \/ WriteJournal \/ Verify \/ VerifyChanged \/ Commit
           \/ PullFails \/ ApplyFails \/ CommitFailsLate \/ Crash
           \/ \E q \in Paths, d \in HubData \cup {Absent} : RemoteCheckpoint(q, d)
           \/ UNCHANGED vars
  BY <1>5
     DEF Backup, BackupChanged, Check, CheckChanged, WriteJournal, Verify, VerifyChanged,
         Commit, PullFails, ApplyFails, CommitFailsLate, Crash, RemoteCheckpoint, vars, durable
<1> QED
  BY <1>1, <1>2, <1>3, <1>4, <1>5 DEF Next, Command, Recovery, Applying, Faults, World

\* No step of a pull, a rollback or a recovery destroys bytes the user wrote that no
\* checkpoint has captured, unless they are written between the last check of a path and
\* its replacement (2641-2656): "a concurrent local edit fails closed".
THEOREM PullsSpareWork ==
    ASSUME ~TightEdits
    PROVE  Spec => WorkSurvives
<1>1. IInv /\ [Next]_vars => [LostWork = {}]_vars
  BY NothingLost
<1> QED BY <1>1, Invariant, PTL DEF Spec, WorkSurvives

\* Only a checkpoint's publication replaces what is hosted, and then nobody else has
\* published anything this workspace has not applied.
LEMMA NothingOverwritten == IInv /\ [Next]_vars => (halfway = "no" => Overwritten = {})
<1> SUFFICES ASSUME IInv, [Next]_vars, halfway = "no", spent'.remote = spent.remote,
                    NEW p \in unseen, hosted'[p] # hosted[p]
             PROVE  FALSE
  BY DEF Overwritten
<1> USE DEF IInv
<1>1. CASE Publish
  BY <1>1 DEF Publish, Noticed
<1>2. ASSUME NEW q \in Paths, NEW d \in HubData \cup {Absent}, RemoteCheckpoint(q, d)
      PROVE FALSE
  BY <1>2, SpendType DEF RemoteCheckpoint, TypeOK, Counters
<1>3. CASE \/ BeginPull \/ BeginCheckpoint \/ Recovery \/ Cleanup \/ Stage \/ PublishConflict
           \/ BrainPull \/ BrainConflict \/ AdoptRefuse \/ Adopt \/ PlanRefuse
           \/ PlanNothing \/ PlanDelta
  BY <1>3
     DEF BeginPull, BeginCheckpoint, Recovery, RecoverNothing, RecoverApplied,
         RecoverRollback, Rollback, RollbackDone, RollbackRefuse, Cleanup, CleanBlocked,
         CleanBackup, CleanDir, CleanJournal, Stage, PublishConflict, BrainPull,
         BrainConflict, AdoptRefuse, Adopt, PlanRefuse, PlanNothing, PlanDelta, brain
<1>4. CASE \/ Applying \/ Faults \/ Crash
           \/ \E q \in Paths, d \in UserData \cup {Absent} : Edit(q, d)
           \/ UNCHANGED vars
  BY <1>4
     DEF Applying, Backup, BackupChanged, Check, CheckChanged, Install, WriteJournal, Verify,
         VerifyChanged, Commit, Faults, PullFails, ApplyFails, InstallFailsLate,
         CommitFailsLate, Crash, Edit, vars, brain
<1> QED BY <1>1, <1>2, <1>3, <1>4 DEF Next, Command, Planning, Checkpoint, World

\* A checkpoint overwrites nothing that another workspace published and this one has not
\* applied, as long as every pull that brought news for the brain wrote its receipt.
THEOREM CheckpointsNotice == Spec => CheckpointConflicts
<1>1. IInv /\ [Next]_vars => [halfway = "no" => Overwritten = {}]_vars
  BY NothingOverwritten
<1> QED BY <1>1, Invariant, PTL DEF Spec, CheckpointConflicts

=============================================================================
