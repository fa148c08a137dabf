----------------------- MODULE PullTransactionProofs ------------------------
(***************************************************************************)
(* Theorems about PullTransaction, for every store, every snapshot and     *)
(* every number of edits, crashes and faults; and, from Quiet on, what a   *)
(* pull promises when the user keeps their hands off the files of a        *)
(* running command: local work survives, a committed pull is final, and an *)
(* unforced pull is atomic.                                                *)
(***************************************************************************)
EXTENDS PullTransaction, TLAPS

----------------------------------------------------------------------------
(* The inductive invariant *)

\* The file at p is the user's own: never hosted bytes.
UserOwned(p) == p \in touched /\ disk[p] \notin HubData

\* The file at p is as the transaction found it, or the user's.
Untouched(p) == disk[p] = journal.old[p] \/ UserOwned(p)

\* The file at p is as the transaction leaves it, or the user's.
Installed(p) == disk[p] = New(p) \/ UserOwned(p)

\* What pc says about the journal.
Phases ==
    /\ pc \in {"check", "head", "fetch", "plan"} => journal = NoJournal
    /\ pc = "backup" => journal.phase = "preparing"
    /\ pc \in {"verify", "install", "capture"} => ~marked
    /\ journal.phase = "preparing" => ~marked
    /\ pc = "rollback" /\ ~LateFaults => ~marked
    /\ pc = "undo" => base = journal.prev
    /\ pc \in {"undo", "verify", "install", "capture", "rollback"}
         => BackupsOf(journal) \subseteq backups

\* What the transaction found is what the previous baseline says, or the user's.
OldIsPrevious ==
    (journal # NoJournal /\ ~LateFaults) =>
        \A p \in Paths :
            \/ journal.old[p] = journal.prev.files[p]
            \/ p \in touched /\ journal.old[p] \notin HubData

\* Before the marker: only mutated paths have changed, each from its backup.
Unmarked ==
    (journal # NoJournal /\ ~marked) =>
        /\ base = journal.prev
        /\ \A p \in Paths :
             \/ Untouched(p)
             \/ /\ p \in journal.entries
                /\ journal.phase = "ready"
                /\ journal.old[p] # Absent => p \in backups
        /\ pc = "cleanup" => \A p \in Paths : Untouched(p)

\* After the marker: everything is new, except where a forced pull of the head
\* the clone already had is being undone.
Marked ==
    (journal # NoJournal /\ marked) =>
        /\ base = journal.next
        /\ ~LateFaults =>
             \A p \in Paths :
                \/ Installed(p)
                \/ journal.prev = journal.next /\ Untouched(p)

\* Undo and install leave what is still to do in todo.
Progress ==
    /\ pc = "undo" => \A p \in journal.entries \ todo : Untouched(p)
    /\ pc \in {"head", "fetch", "plan"} =>
         \A p \in Paths \ seen : disk[p] = Absent \/ UserOwned(p)
    /\ pc \in {"backup", "verify", "install", "capture"} =>
         \A p \in Paths \ journal.entries : Installed(p)
    /\ pc \in {"install", "capture"} =>
         /\ todo \subseteq journal.entries
         /\ \A p \in journal.entries \ todo : Installed(p)

Described == ~LateFaults => BaselineDescribesStore

IInv ==
    /\ TypeOK
    /\ Phases
    /\ OldIsPrevious
    /\ Unmarked
    /\ Marked
    /\ Progress
    /\ Described

----------------------------------------------------------------------------
(* Types *)

\* A journal that is there has the fields of one; none has only its phase.
LEMMA JournalShape ==
    ASSUME TypeOK
    PROVE  /\ journal.phase \in {"none", "preparing", "ready"}
           /\ journal.phase = "none" <=> journal = NoJournal
           /\ journal # NoJournal =>
                /\ journal \in PullJournal
                /\ journal.prev \in SyncBaseline
                /\ journal.next \in SyncBaseline
                /\ journal.next.files \in Files
                /\ journal.entries \subseteq Paths
                /\ journal.old \in [Paths -> Data]
  BY DEF TypeOK, PullJournal, NoJournal, SyncBaseline

\* A halted command keeps every type.
LEMMA HaltType ==
    ASSUME TypeOK, Halt,
           UNCHANGED <<remote, disk, base, journal, backups, touched, marked>>,
           spent' \in [edits : Nat, crashes : Nat, faults : Nat]
    PROVE  TypeOK'
  BY DEF TypeOK, Halt, Steps

\* Counting a step keeps the counters natural numbers.
LEMMA SpendType ==
    ASSUME TypeOK, NEW what \in {"edits", "crashes", "faults"}, Spend(what)
    PROVE  spent' \in [edits : Nat, crashes : Nat, faults : Nat]
  BY DEF TypeOK, Spend

\* A step that keeps what is on disk and moves pc to a step that needs no journal,
\* or to one whose need is met, keeps every type.
LEMMA MoveType ==
    ASSUME TypeOK,
           UNCHANGED <<remote, disk, base, journal, backups, marked, touched>>,
           pc' \in Steps,
           pc' \in {"undo", "cleanup", "backup"} => journal # NoJournal,
           pc' \in {"undo", "verify", "install", "capture", "rollback"}
             => journal.phase = "ready",
           after' \in {"check", "idle"}, force' \in BOOLEAN,
           seen' \subseteq Paths, want' \in SyncBaseline,
           cur' \subseteq Paths, todo' \subseteq Paths, present' \subseteq Paths,
           inst' \subseteq Paths \X Data,
           spent' \in [edits : Nat, crashes : Nat, faults : Nat]
    PROVE  TypeOK'
  BY DEF TypeOK

\* A fresh clone has the right types.
LEMMA TypeInit == Init => TypeOK
<1> SUFFICES ASSUME Init PROVE TypeOK
  OBVIOUS
<1>1. remote \in SyncBaseline /\ remote.files \in Files
  BY DEF Init, SyncBaseline
<1>2. disk \in [Paths -> Data]
  BY <1>1 DEF Init, Files, Data
<1> QED BY <1>1, <1>2 DEF Init, TypeOK, NoJournal, Steps

\* Every step of the program, of the user and of the hub keeps the types.
LEMMA TypeStep == TypeOK /\ [Next]_vars => TypeOK'
<1> SUFFICES ASSUME TypeOK, [Next]_vars PROVE TypeOK'
  OBVIOUS
<1> USE JournalShape
<1>1. CASE \E f \in ForceFlags : Begin(f)
  BY <1>1, MoveType, FlagAssumption DEF Begin, TypeOK, Steps, durable, history
<1>2. CASE Recovery
  <2>1. CASE RecoverNothing \/ RecoverRefuse
    BY <2>1, MoveType, HaltType
       DEF RecoverNothing, RecoverRefuse, TypeOK, Steps, durable, history
  <2>2. CASE RecoverDiscard
    BY <2>2, MoveType DEF RecoverDiscard, TypeOK, Steps, durable, history
  <2>3. CASE RecoverPreflight
    BY <2>3, MoveType DEF RecoverPreflight, TypeOK, Steps, durable, history
  <2>4. ASSUME NEW p \in Paths, UndoRestore(p) \/ UndoRemove(p) PROVE TypeOK'
    BY <2>4 DEF UndoRestore, UndoRemove, TypeOK, Data, history
  <2>5. ASSUME NEW p \in Paths, UndoRestoreBlocked(p) PROVE TypeOK'
    BY <2>5, HaltType DEF UndoRestoreBlocked, TypeOK, durable, history
  <2>6. CASE UndoDone
    BY <2>6, MoveType DEF UndoDone, TypeOK, Steps, durable, history
  <2>7. ASSUME NEW b \in Paths \cup {Sync}, CleanBackup(b) PROVE TypeOK'
    BY <2>7 DEF CleanBackup, TypeOK, volatile, history
  <2>8. CASE CleanJournal
    BY <2>8 DEF CleanJournal, Halt, TypeOK, Steps, NoJournal, history
  <2> QED BY <1>2, <2>1, <2>2, <2>3, <2>4, <2>5, <2>6, <2>7, <2>8 DEF Recovery
<1>3. CASE Deciding
  <2>1. CASE CheckRefuse \/ HeadCurrent \/ FetchStale
    BY <2>1, HaltType
       DEF CheckRefuse, HeadCurrent, FetchStale, TypeOK, durable, history
  <2>2. CASE CheckPass \/ HeadAdvanced \/ FetchOK
    BY <2>2, MoveType
       DEF CheckPass, HeadAdvanced, FetchOK, TypeOK, Steps, durable, history
  <2> QED BY <1>3, <2>1, <2>2 DEF Deciding
<1>4. CASE Preparing
  <2>1. CASE PrepareInvalid
    BY <2>1, HaltType DEF PrepareInvalid, TypeOK, durable, history
  <2>2. CASE PrepareJournal
    <3>1. Mutations(want.files) \subseteq Paths
      BY PathsAssumption DEF Mutations, Texts, PendingAssets, Removals, TypeOK
    <3>2. journal' \in PullJournal
      BY <2>2, <3>1 DEF PrepareJournal, PullJournal, TypeOK
    <3> QED BY <2>2, <3>2 DEF PrepareJournal, TypeOK, Steps, PullJournal, NoJournal
  <2>3. ASSUME NEW b \in Paths \cup {Sync}, Backup(b) PROVE TypeOK'
    BY <2>3 DEF Backup, TypeOK, volatile, history
  <2>4. CASE Arm
    <3>1. journal' \in PullJournal /\ journal'.phase = "ready"
      BY <2>4 DEF Arm, PullJournal, TypeOK
    <3> QED BY <2>4, <3>1 DEF Arm, TypeOK, Steps, NoJournal, history
  <2> QED BY <1>4, <2>1, <2>2, <2>3, <2>4 DEF Preparing
<1>5. CASE Installing
  <2>1. CASE VerifyOK \/ VerifyChanged
    BY <2>1, MoveType DEF VerifyOK, VerifyChanged, TypeOK, Steps, durable, history
  <2>2. ASSUME NEW p \in Paths, InstallWrite(p) PROVE TypeOK'
    BY <2>2 DEF InstallWrite, New, TypeOK, Data, Files, Steps, history
  <2>3. ASSUME NEW p \in Paths, InstallBlocked(p) \/ RemoveBlocked(p) PROVE TypeOK'
    BY <2>3, MoveType DEF InstallBlocked, RemoveBlocked, TypeOK, Steps, durable, history
  <2>4. ASSUME NEW p \in Paths, Capture(p) PROVE TypeOK'
    BY <2>4, MoveType DEF Capture, TypeOK, Steps, durable, history
  <2>5. ASSUME NEW p \in Paths, Remove(p) PROVE TypeOK'
    BY <2>5 DEF Remove, TypeOK, Data, history
  <2>6. CASE Commit
    BY <2>6 DEF Commit, TypeOK, Steps, NoJournal
  <2>7. ASSUME NEW p \in Paths, NEW d \in Data, RollbackPath(p, d) PROVE TypeOK'
    BY <2>7 DEF RollbackPath, TypeOK, history
  <2>8. CASE RollbackDone
    BY <2>8, MoveType DEF RollbackDone, TypeOK, Steps, durable, history
  <2> QED BY <1>5, <2>1, <2>2, <2>3, <2>4, <2>5, <2>6, <2>7, <2>8 DEF Installing
<1>6. CASE Faults
  <2>1. CASE NetworkFails
    BY <2>1, HaltType DEF NetworkFails, TypeOK, durable, history
  <2>2. CASE PrepareFault \/ InstallFault
    BY <2>2, SpendType, MoveType
       DEF PrepareFault, InstallFault, TypeOK, Steps, durable, history
  <2>3. CASE CommitLateFault
    BY <2>3, SpendType DEF CommitLateFault, TypeOK, Steps
  <2>4. ASSUME NEW p \in Paths, InstallLateFault(p) PROVE TypeOK'
    BY <2>4, SpendType DEF InstallLateFault, New, TypeOK, Data, Files, Steps, history
  <2>5. CASE ArmLateFault
    <3>1. journal' \in PullJournal /\ journal'.phase = "ready"
      BY <2>5 DEF ArmLateFault, PullJournal, TypeOK
    <3> QED BY <2>5, <3>1, SpendType DEF ArmLateFault, TypeOK, Steps, NoJournal, history
  <2> QED BY <1>6, <2>1, <2>2, <2>3, <2>4, <2>5 DEF Faults
<1>7. CASE Crash
  BY <1>7, SpendType, HaltType DEF Crash, durable, history
<1>8. ASSUME NEW p \in Paths, NEW d \in UserData \cup {Absent}, Edit(p, d)
      PROVE TypeOK'
  BY <1>8, SpendType DEF Edit, TypeOK, Data, volatile
<1>9. ASSUME NEW f \in Files, RemoteAdvance(f) PROVE TypeOK'
  BY <1>9 DEF RemoteAdvance, TypeOK, SyncBaseline, durable, volatile, history
<1>10. CASE UNCHANGED vars
  BY <1>10 DEF vars, durable, volatile, history, TypeOK
<1> QED
  BY <1>1, <1>2, <1>3, <1>4, <1>5, <1>6, <1>7, <1>8, <1>9, <1>10 DEF Next, Command

\* The type invariant: whatever the program does, its variables keep their types.
THEOREM TypeCorrect == Spec => []TypeOK
  BY TypeInit, TypeStep, PTL DEF Spec

----------------------------------------------------------------------------
(* The invariant is inductive *)

\* A fresh clone has no transaction under way and is what its baseline says.
LEMMA InvInit == Init => IInv
  BY TypeInit
     DEF Init, IInv, Phases, OldIsPrevious, Unmarked, Marked, Progress, Described,
         BaselineDescribesStore, NoJournal

\* Taking the lock changes nothing the invariant speaks about.
LEMMA InvBegin == IInv /\ TypeOK' /\ (\E f \in ForceFlags : Begin(f)) => IInv'
  BY DEF Begin, durable, history,
         IInv, Phases, OldIsPrevious, Unmarked, Marked, Progress, Described,
         BaselineDescribesStore, Untouched, Installed, UserOwned, New, BackupsOf

\* Recovery: the marker decides; undoing puts every mutated path back before the
\* first backup goes, and the journal goes last.
LEMMA InvRecovery == IInv /\ TypeOK' /\ Recovery => IInv'
<1> SUFFICES ASSUME IInv, TypeOK', Recovery PROVE IInv'
  OBVIOUS
<1> USE JournalShape
    DEF IInv, Phases, OldIsPrevious, Unmarked, Marked, Progress, Described,
        BaselineDescribesStore, Untouched, Installed, UserOwned, New, BackupsOf
<1>1. CASE RecoverNothing
  BY <1>1 DEF RecoverNothing, Halt, durable, history, NoJournal
<1>2. CASE RecoverDiscard
  BY <1>2 DEF RecoverDiscard, Committed, durable, history, NoJournal
<1>3. CASE RecoverRefuse
  BY <1>3 DEF RecoverRefuse, Halt, durable, history, NoJournal
<1>4. CASE RecoverPreflight
  BY <1>4 DEF RecoverPreflight, Undoable, Conflicts, durable, history, TypeOK
<1>5. ASSUME NEW p \in Paths, UndoRestore(p) \/ UndoRemove(p) PROVE IInv'
  <2>1. /\ pc = "undo" /\ pc' = "undo"
        /\ disk' = [disk EXCEPT ![p] = journal.old[p]]
        /\ todo' = todo \ {p}
        /\ UNCHANGED <<base, journal, backups, touched, marked>>
    BY <1>5 DEF UndoRestore, UndoRemove, history
  <2>2. disk'[p] = journal.old[p] /\ \A q \in Paths \ {p} : disk'[q] = disk[q]
    BY <2>1 DEF TypeOK
  <2>3. journal # NoJournal /\ journal.phase = "ready"
    BY <2>1 DEF TypeOK, NoJournal
  <2>4. Phases' /\ OldIsPrevious' /\ Described'
    BY <2>1, <2>3
  <2>5. Unmarked'
    BY <2>1, <2>2, <2>3
  <2>6. Marked'
    BY <2>1, <2>2, <2>3 DEF TypeOK
  <2>7. Progress'
    BY <2>1, <2>2, <2>3
  <2> QED BY <2>4, <2>5, <2>6, <2>7
<1>6. ASSUME NEW p \in Paths, UndoRestoreBlocked(p) PROVE IInv'
  BY <1>6 DEF UndoRestoreBlocked, Halt, durable, history
<1>7. CASE UndoDone
  BY <1>7 DEF UndoDone, durable, history, NoJournal
<1>8. ASSUME NEW b \in Paths \cup {Sync}, CleanBackup(b) PROVE IInv'
  BY <1>8 DEF CleanBackup, volatile, history
<1>9. CASE CleanJournal
  BY <1>9 DEF CleanJournal, Halt, history, NoJournal
<1> QED
  BY <1>1, <1>2, <1>3, <1>4, <1>5, <1>6, <1>7, <1>8, <1>9 DEF Recovery

\* Deciding leaves the disk alone; what the check saw stays true of it, but for
\* the user's own edits.
LEMMA InvDeciding == IInv /\ TypeOK' /\ Deciding => IInv'
<1> SUFFICES ASSUME IInv, TypeOK', Deciding PROVE IInv'
  OBVIOUS
<1> USE JournalShape
    DEF IInv, Phases, OldIsPrevious, Unmarked, Marked, Progress, Described,
        BaselineDescribesStore, Untouched, Installed, UserOwned, New, BackupsOf
<1>1. CASE CheckRefuse \/ HeadCurrent \/ FetchStale
  BY <1>1 DEF CheckRefuse, HeadCurrent, FetchStale, Halt, durable, history, NoJournal
<1>2. CASE CheckPass
  BY <1>2 DEF CheckPass, durable, history, TypeOK, NoJournal
<1>3. CASE HeadAdvanced \/ FetchOK
  BY <1>3 DEF HeadAdvanced, FetchOK, durable, history, NoJournal
<1> QED BY <1>1, <1>2, <1>3 DEF Deciding

\* Preparing: what is not mutated is already as the snapshot has it.
LEMMA InvPreparing == IInv /\ TypeOK' /\ Preparing => IInv'
<1> SUFFICES ASSUME IInv, TypeOK', Preparing PROVE IInv'
  OBVIOUS
<1> USE JournalShape
    DEF IInv, Phases, OldIsPrevious, Unmarked, Marked, Progress, Described,
        BaselineDescribesStore, Untouched, Installed, UserOwned, New, BackupsOf
<1>1. CASE PrepareInvalid
  BY <1>1 DEF PrepareInvalid, Halt, durable, history, NoJournal
<1>2. CASE PrepareJournal
  BY <1>2 DEF PrepareJournal, Mutations, Texts, PendingAssets, Removals, TypeOK, NoJournal
<1>3. ASSUME NEW b \in Paths \cup {Sync}, Backup(b) PROVE IInv'
  BY <1>3 DEF Backup, volatile, history
<1>4. CASE Arm
  BY <1>4 DEF Arm, history, NoJournal, PullJournal
<1> QED BY <1>1, <1>2, <1>3, <1>4 DEF Preparing

\* Installing: every write is backed up, the marker is written when nothing is
\* left to do, and a rollback puts back what it found.
LEMMA InvInstalling == IInv /\ TypeOK' /\ Installing => IInv'
<1> SUFFICES ASSUME IInv, TypeOK', Installing PROVE IInv'
  OBVIOUS
<1> USE JournalShape
    DEF IInv, Phases, OldIsPrevious, Unmarked, Marked, Progress, Described,
        BaselineDescribesStore, Untouched, Installed, UserOwned, New, BackupsOf
<1>1. CASE VerifyOK \/ VerifyChanged
  BY <1>1 DEF VerifyOK, VerifyChanged, durable, history
<1>2. ASSUME NEW p \in Paths, InstallWrite(p) PROVE IInv'
  BY <1>2 DEF InstallWrite, NextUp, history, TypeOK
<1>3. ASSUME NEW p \in Paths, InstallBlocked(p) \/ RemoveBlocked(p) PROVE IInv'
  BY <1>3 DEF InstallBlocked, RemoveBlocked, durable, history
<1>4. ASSUME NEW p \in Paths, Capture(p) PROVE IInv'
  BY <1>4 DEF Capture, durable, history
<1>5. ASSUME NEW p \in Paths, Remove(p) PROVE IInv'
  BY <1>5 DEF Remove, NextUp, history, TypeOK
<1>6. CASE Commit
  BY <1>6 DEF Commit, TypeOK
<1>7. ASSUME NEW p \in Paths, NEW d \in Data, RollbackPath(p, d) PROVE IInv'
  BY <1>7 DEF RollbackPath, history, TypeOK
<1>8. CASE RollbackDone
  BY <1>8 DEF RollbackDone, durable, history
<1> QED BY <1>1, <1>2, <1>3, <1>4, <1>5, <1>6, <1>7, <1>8 DEF Installing

\* Faults: a preparation that fails has changed nothing, an installation that
\* fails is still armed.
LEMMA InvFaults == IInv /\ TypeOK' /\ Faults => IInv'
<1> SUFFICES ASSUME IInv, TypeOK', Faults PROVE IInv'
  OBVIOUS
<1> USE JournalShape
    DEF IInv, Phases, OldIsPrevious, Unmarked, Marked, Progress, Described,
        BaselineDescribesStore, Untouched, Installed, UserOwned, New, BackupsOf
<1>1. CASE NetworkFails
  BY <1>1 DEF NetworkFails, Halt, durable, history
<1>2. CASE PrepareFault \/ InstallFault
  BY <1>2 DEF PrepareFault, InstallFault, durable, history
<1>3. CASE CommitLateFault
  BY <1>3 DEF CommitLateFault, TypeOK
<1>4. ASSUME NEW p \in Paths, InstallLateFault(p) PROVE IInv'
  BY <1>4 DEF InstallLateFault, NextUp, history, TypeOK
<1>5. CASE ArmLateFault
  BY <1>5 DEF ArmLateFault, history, NoJournal, PullJournal
<1> QED BY <1>1, <1>2, <1>3, <1>4, <1>5 DEF Faults

\* The rest of the world: a crash forgets, an edit makes a path the user's.
LEMMA InvWorld ==
    ASSUME IInv, TypeOK',
           \/ Crash
           \/ \E p \in Paths, d \in UserData \cup {Absent} : Edit(p, d)
           \/ \E f \in Files : RemoteAdvance(f)
           \/ UNCHANGED vars
    PROVE  IInv'
<1> USE JournalShape
    DEF IInv, Phases, OldIsPrevious, Unmarked, Marked, Progress, Described,
        BaselineDescribesStore, Untouched, Installed, UserOwned, New, BackupsOf
<1>1. CASE Crash
  BY <1>1 DEF Crash, Halt, durable, history
<1>2. ASSUME NEW p \in Paths, NEW d \in UserData \cup {Absent}, Edit(p, d)
      PROVE IInv'
  BY <1>2, DataAssumption DEF Edit, volatile, TypeOK
<1>3. CASE (\E f \in Files : RemoteAdvance(f)) \/ UNCHANGED vars
  BY <1>3 DEF RemoteAdvance, vars, durable, volatile, history
<1> QED BY <1>1, <1>2, <1>3

\* Every step keeps the inductive invariant.
LEMMA InvStep == IInv /\ [Next]_vars => IInv'
<1> SUFFICES ASSUME IInv, [Next]_vars PROVE IInv'
  OBVIOUS
<1>1. TypeOK'
  BY TypeStep DEF IInv
<1> QED
  BY <1>1, InvBegin, InvRecovery, InvDeciding, InvPreparing, InvInstalling,
     InvFaults, InvWorld DEF Next, Command

\* The inductive invariant of the transaction: for every phase of a pull, a rollback
\* or a recovery, which paths may differ from the old state, and that exactly the
\* backups needed to put them back exist.
THEOREM Invariant == Spec => []IInv
  BY InvInit, InvStep, PTL DEF Spec

----------------------------------------------------------------------------
(* The properties *)

\* No riding path changes before its backup and the journal that names it are in
\* place, with or without races, late errors and forced pulls.
THEOREM BackupsComeFirst == Spec => []BackedUpBeforeChanged
<1>1. IInv => BackedUpBeforeChanged
  BY JournalShape DEF IInv, Unmarked, BackedUpBeforeChanged, Untouched, UserOwned
<1> QED BY <1>1, Invariant, PTL

\* If no error is reported after the baseline has been replaced, then with no
\* transaction under way the baseline describes the clone: pulls that failed, were
\* killed, raced with edits or were recovered leave no mixture of snapshots.
THEOREM NoMixture ==
    ASSUME ~LateFaults
    PROVE  Spec => []BaselineDescribesStore
<1>1. IInv => BaselineDescribesStore
  BY DEF IInv, Described
<1> QED BY <1>1, Invariant, PTL

----------------------------------------------------------------------------
(* Local work *)

\* An undo only meets the old or the new bytes, a rollback only what it installed,
\* an unforced installation no bytes of the user's.
Quiet ==
    /\ pc = "undo" =>
         \A p \in todo : p \in journal.entries /\ disk[p] \in {journal.old[p], New(p)}
    /\ pc \notin {"install", "capture", "rollback"} => inst = {}
    /\ \A p \in Paths, d \in Data : <<p, d>> \in inst =>
         p \in journal.entries /\ d = New(p)
    /\ pc = "capture" => \A p \in cur : disk[p] = New(p) /\ p \in journal.entries
    /\ (~force /\ pc \in {"head", "fetch", "plan", "backup", "verify", "install",
                          "capture"})
         => \A p \in Paths : disk[p] \notin UserData

\* Every step keeps the quiet invariant if no edit lands in a running command.
LEMMA QuietStep ==
    ASSUME ~RaceEdits, IInv, TypeOK', Quiet, [Next]_vars
    PROVE  Quiet'
<1> USE JournalShape, DataAssumption DEF Quiet
<1>1. CASE \E f \in ForceFlags : Begin(f)
  BY <1>1 DEF Begin, New, durable
<1>2. CASE Recovery
  <2>1. CASE RecoverNothing \/ RecoverRefuse \/ RecoverDiscard \/ UndoDone
    BY <2>1 DEF RecoverNothing, RecoverRefuse, RecoverDiscard, UndoDone, Halt, durable, New
  <2>2. CASE RecoverPreflight
    BY <2>2 DEF RecoverPreflight, Undoable, Conflicts, durable, New
  <2>3. ASSUME NEW p \in Paths, UndoRestore(p) \/ UndoRemove(p) PROVE Quiet'
    BY <2>3 DEF UndoRestore, UndoRemove, TypeOK, IInv, New
  <2>4. ASSUME NEW p \in Paths, UndoRestoreBlocked(p) PROVE Quiet'
    BY <2>4 DEF UndoRestoreBlocked, Halt
  <2>5. ASSUME NEW b \in Paths \cup {Sync}, CleanBackup(b) PROVE Quiet'
    BY <2>5 DEF CleanBackup, volatile
  <2>6. CASE CleanJournal
    BY <2>6 DEF CleanJournal, Halt
  <2> QED BY <1>2, <2>1, <2>2, <2>3, <2>4, <2>5, <2>6 DEF Recovery
<1>3. CASE Deciding
  BY <1>3 DEF Deciding, CheckRefuse, CheckPass, HeadCurrent, HeadAdvanced, FetchStale,
     FetchOK, Halt, durable, Divergent, TypeOK, IInv, SyncBaseline, Files
<1>4. CASE Preparing
  <2>1. CASE PrepareInvalid \/ PrepareJournal \/ Arm
    BY <2>1 DEF PrepareInvalid, PrepareJournal, Arm, Halt, durable
  <2>2. ASSUME NEW b \in Paths \cup {Sync}, Backup(b) PROVE Quiet'
    BY <2>2 DEF Backup, volatile
  <2> QED BY <1>4, <2>1, <2>2 DEF Preparing
<1>5. CASE Installing
  <2>1. CASE VerifyOK \/ VerifyChanged \/ Commit \/ RollbackDone
    BY <2>1 DEF VerifyOK, VerifyChanged, Commit, RollbackDone, durable, New
  <2>2. ASSUME NEW p \in Paths, InstallWrite(p) PROVE Quiet'
    BY <2>2 DEF InstallWrite, NextUp, New, TypeOK, IInv, Progress, Files
  <2>3. ASSUME NEW p \in Paths, InstallBlocked(p) \/ RemoveBlocked(p) PROVE Quiet'
    BY <2>3 DEF InstallBlocked, RemoveBlocked, durable, New
  <2>4. ASSUME NEW p \in Paths, Capture(p) PROVE Quiet'
    BY <2>4 DEF Capture, durable, New
  <2>5. ASSUME NEW p \in Paths, Remove(p) PROVE Quiet'
    BY <2>5 DEF Remove, NextUp, New, TypeOK, IInv, Progress
  <2>6. ASSUME NEW p \in Paths, NEW d \in Data, RollbackPath(p, d) PROVE Quiet'
    BY <2>6 DEF RollbackPath, New
  <2> QED BY <1>5, <2>1, <2>2, <2>3, <2>4, <2>5, <2>6 DEF Installing
<1>6. CASE Faults
  <2>1. CASE NetworkFails \/ PrepareFault \/ InstallFault \/ CommitLateFault
    BY <2>1 DEF NetworkFails, PrepareFault, InstallFault, CommitLateFault, Halt, durable, New
  <2>3. CASE ArmLateFault
    BY <2>3 DEF ArmLateFault
  <2>2. ASSUME NEW p \in Paths, InstallLateFault(p) PROVE Quiet'
    BY <2>2 DEF InstallLateFault, New
  <2> QED BY <1>6, <2>1, <2>2, <2>3 DEF Faults
<1>7. CASE Crash
  BY <1>7 DEF Crash, Halt
<1>8. ASSUME NEW p \in Paths, NEW d \in UserData \cup {Absent}, Edit(p, d) PROVE Quiet'
  BY <1>8 DEF Edit, volatile
<1>9. CASE (\E f \in Files : RemoteAdvance(f)) \/ UNCHANGED vars
  BY <1>9 DEF RemoteAdvance, vars, durable, volatile, New
<1> QED
  BY <1>1, <1>2, <1>3, <1>4, <1>5, <1>6, <1>7, <1>8, <1>9 DEF Next, Command

\* No step of an unforced command takes the user's bytes.
LEMMA WorkStep ==
    ASSUME IInv, TypeOK', Quiet, [Next]_vars, ~force
    PROVE  LostWork = {}
<1> USE JournalShape, DataAssumption
<1>1. CASE disk' = disk
  BY <1>1 DEF LostWork
<1>2. ASSUME NEW p \in Paths, UndoRestore(p) \/ UndoRemove(p) PROVE LostWork = {}
  BY <1>2 DEF UndoRestore, UndoRemove, LostWork, Quiet, IInv, TypeOK, New, Files
<1>3. ASSUME NEW p \in Paths, InstallWrite(p) \/ Remove(p) \/ InstallLateFault(p)
      PROVE LostWork = {}
  BY <1>3 DEF InstallWrite, Remove, InstallLateFault, LostWork, Quiet, IInv, TypeOK
<1>4. ASSUME NEW p \in Paths, NEW d \in Data, RollbackPath(p, d) PROVE LostWork = {}
  BY <1>4 DEF RollbackPath, LostWork, Quiet, IInv, TypeOK, New, Files
<1>5. ASSUME NEW p \in Paths, NEW d \in UserData \cup {Absent}, Edit(p, d)
      PROVE LostWork = {}
  BY <1>5 DEF Edit, Spend, LostWork, IInv, TypeOK
<1>6. \/ disk' = disk
      \/ \E p \in Paths : UndoRestore(p) \/ UndoRemove(p)
      \/ \E p \in Paths : InstallWrite(p) \/ Remove(p) \/ InstallLateFault(p)
      \/ \E p \in Paths, d \in Data : RollbackPath(p, d)
      \/ \E p \in Paths, d \in UserData \cup {Absent} : Edit(p, d)
  BY DEF Next, Command, Recovery, Deciding, Preparing, Installing, Faults, vars, durable,
     Begin, RecoverNothing, RecoverDiscard, RecoverRefuse, RecoverPreflight,
     UndoRestoreBlocked, UndoDone, CleanBackup, CleanJournal, CheckRefuse, CheckPass,
     HeadCurrent, HeadAdvanced, FetchStale, FetchOK, PrepareInvalid, PrepareJournal,
     Backup, Arm, VerifyOK, VerifyChanged, InstallBlocked, Capture, RemoveBlocked,
     Commit, RollbackDone, NetworkFails, PrepareFault, ArmLateFault, InstallFault,
     CommitLateFault, Crash, RemoteAdvance
<1> QED BY <1>1, <1>2, <1>3, <1>4, <1>5, <1>6

\* If no edit lands while a command runs, only a forced pull discards local work:
\* neither unforced pulls nor the recovery of interrupted pulls destroy bytes the
\* user wrote, whatever crashes and errors occur.
THEOREM OnlyForceDiscards ==
    ASSUME ~RaceEdits
    PROVE  Spec => WorkSurvives
<1>1. Init => Quiet
  BY DEF Init, Quiet
<1>2. IInv /\ Quiet /\ [Next]_vars => Quiet' /\ (~force => LostWork = {})
  BY TypeStep, QuietStep, WorkStep DEF IInv
<1>3. Spec => [](IInv /\ Quiet)
  BY <1>1, <1>2, InvInit, InvStep, PTL DEF Spec
<1>4. IInv /\ Quiet /\ [Next]_vars => [~force => LostWork = {}]_vars
  BY <1>2
<1> QED BY <1>3, <1>4, PTL DEF Spec, WorkSurvives

----------------------------------------------------------------------------
(* Committed pulls *)

\* An unforced pull moves to a later snapshot that the hub has published.
Forward ==
    /\ force = FALSE
    /\ pc \in {"fetch", "plan"} =>
         /\ base.seq < want.seq
         /\ want.seq <= remote.seq
         /\ want.seq = remote.seq => want = remote
    /\ journal # NoJournal =>
         /\ journal.prev.seq < journal.next.seq
         /\ journal.next.seq <= remote.seq
         /\ journal.next.seq = remote.seq => journal.next = remote

\* Without --force, every step keeps a pull pointed at a later snapshot of the hub.
LEMMA ForwardStep ==
    ASSUME ForceFlags = {FALSE}, IInv, TypeOK', Forward, [Next]_vars
    PROVE  Forward'
<1> USE JournalShape DEF Forward
<1>1. CASE \E f \in ForceFlags : Begin(f)
  BY <1>1 DEF Begin, durable
<1>2. CASE Recovery
  <2>1. CASE RecoverNothing \/ RecoverDiscard \/ RecoverRefuse \/ RecoverPreflight
             \/ UndoDone
    BY <2>1 DEF RecoverNothing, RecoverRefuse, RecoverDiscard, RecoverPreflight, UndoDone,
       Halt, durable
  <2>2. ASSUME NEW p \in Paths,
               UndoRestore(p) \/ UndoRemove(p) \/ UndoRestoreBlocked(p)
        PROVE Forward'
    BY <2>2 DEF UndoRestore, UndoRemove, UndoRestoreBlocked, Halt, durable
  <2>3. ASSUME NEW b \in Paths \cup {Sync}, CleanBackup(b) PROVE Forward'
    BY <2>3 DEF CleanBackup, volatile
  <2>4. CASE CleanJournal
    BY <2>4 DEF CleanJournal, Halt
  <2> QED BY <1>2, <2>1, <2>2, <2>3, <2>4 DEF Recovery
<1>3. CASE Deciding
  BY <1>3 DEF Deciding, CheckRefuse, CheckPass, HeadCurrent, HeadAdvanced, FetchStale,
     FetchOK, Halt, durable, IInv, TypeOK, SyncBaseline
<1>4. CASE Preparing
  <2>1. CASE PrepareInvalid \/ PrepareJournal
    BY <2>1 DEF PrepareInvalid, PrepareJournal, Halt, durable
  <2>2. CASE Arm
    BY <2>2 DEF Arm, IInv, TypeOK, PullJournal, NoJournal
  <2>3. ASSUME NEW b \in Paths \cup {Sync}, Backup(b) PROVE Forward'
    BY <2>3 DEF Backup, volatile
  <2> QED BY <1>4, <2>1, <2>2, <2>3 DEF Preparing
<1>5. CASE Installing \/ (Faults /\ ~ArmLateFault)
  BY <1>5 DEF Installing, VerifyOK, VerifyChanged, InstallWrite, InstallBlocked, Capture,
     Remove, RemoveBlocked, Commit, RollbackPath, RollbackDone, Faults, NetworkFails,
     PrepareFault, InstallFault, InstallLateFault, CommitLateFault, Halt, durable
<1>9. CASE ArmLateFault
  BY <1>9 DEF ArmLateFault, IInv, TypeOK, PullJournal, NoJournal
<1>6. CASE Crash
  BY <1>6 DEF Crash, Halt, durable
<1>7. ASSUME NEW p \in Paths, NEW d \in UserData \cup {Absent}, Edit(p, d)
      PROVE Forward'
  BY <1>7 DEF Edit, volatile
<1>8. CASE (\E f \in Files : RemoteAdvance(f)) \/ UNCHANGED vars
  BY <1>8 DEF RemoteAdvance, vars, durable, volatile, IInv, TypeOK, SyncBaseline
<1> QED
  BY <1>1, <1>2, <1>3, <1>4, <1>5, <1>6, <1>7, <1>8, <1>9 DEF Next, Command

\* While the marked journal is there, only the user changes a file.
FinalStep ==
    marked /\ journal # NoJournal => disk' = disk \/ spent'.edits # spent.edits

\* Once the marker is written, only the user changes files until the journal is gone.
LEMMA MarkedStep ==
    ASSUME ~LateFaults, IInv, Forward, [Next]_vars
    PROVE  FinalStep
<1> USE JournalShape
<1> SUFFICES ASSUME marked, journal # NoJournal
             PROVE  disk' = disk \/ spent'.edits # spent.edits
  BY DEF FinalStep
<1>1. pc \notin {"undo", "install", "capture", "rollback"}
  BY DEF IInv, Phases, Marked, Forward, TypeOK, SyncBaseline
<1>2. ASSUME NEW p \in Paths, NEW d \in UserData \cup {Absent}, Edit(p, d)
      PROVE  spent'.edits # spent.edits
  BY <1>2 DEF Edit, Spend, IInv, TypeOK
<1> QED
  BY <1>1, <1>2 DEF Next, Command, Recovery, Deciding, Preparing, Installing, Faults, vars,
     durable, Begin, RecoverNothing, RecoverDiscard, RecoverRefuse, RecoverPreflight,
     UndoRestore, UndoRemove, UndoRestoreBlocked, UndoDone, CleanBackup, CleanJournal,
     CheckRefuse, CheckPass, HeadCurrent, HeadAdvanced, FetchStale, FetchOK,
     PrepareInvalid, PrepareJournal, Backup, Arm, VerifyOK, VerifyChanged, InstallWrite,
     InstallBlocked, Capture, Remove, RemoveBlocked, Commit, RollbackPath, RollbackDone,
     NetworkFails, PrepareFault, ArmLateFault, InstallFault, InstallLateFault,
     CommitLateFault, Crash, RemoteAdvance

\* Without --force, pulls go forward in every reachable state.
LEMMA ForwardInvariant ==
    ASSUME ForceFlags = {FALSE}
    PROVE  Spec => [](IInv /\ Forward)
<1>1. Init => Forward
  BY DEF Init, Forward
<1>2. IInv /\ Forward /\ [Next]_vars => Forward'
  BY TypeStep, ForwardStep DEF IInv
<1> QED BY <1>1, <1>2, InvInit, InvStep, PTL DEF Spec

\* Without --force, and if no error is reported after the baseline is replaced, a
\* pull that wrote its commit marker is never undone, not even when the user
\* edits files while commands run.
THEOREM CommitsAreFinal ==
    ASSUME ForceFlags = {FALSE}, ~LateFaults
    PROVE  Spec => CommitIsFinal
<1>1. IInv /\ Forward /\ [Next]_vars => [FinalStep]_vars
  BY MarkedStep
<1>2. Spec => [][FinalStep]_vars
  BY <1>1, ForwardInvariant, PTL DEF Spec
<1> QED BY <1>2 DEF CommitIsFinal, FinalStep

----------------------------------------------------------------------------
(* Atomicity *)

\* With --force unused, no race and no late error, what the transaction found is
\* exactly the previous snapshot, and every path is old or new as todo says.
Exact ==
    /\ pc \in {"head", "fetch", "plan"} =>
         /\ disk = base.files
         /\ seen = {p \in Paths : disk[p] # Absent}
    /\ pc \in {"backup", "verify"} => disk = journal.old
    /\ journal # NoJournal => journal.old = journal.prev.files
    /\ pc \in {"backup", "verify", "install", "capture"} =>
         \A p \in Paths \ journal.entries : disk[p] = New(p)
    /\ pc \in {"install", "capture"} =>
         \A p \in Paths :
            IF p \in journal.entries \ todo
              THEN disk[p] = New(p)
              ELSE disk[p] = journal.old[p]
    /\ pc = "undo" =>
         \A p \in journal.entries \ todo : disk[p] = journal.old[p]
    /\ (pc = "cleanup" /\ journal.phase = "ready" /\ ~marked) =>
         \A p \in journal.entries : disk[p] = journal.old[p]

\* Every step keeps the clone exactly what its phase says, up to the user's edits.
LEMMA ExactStep ==
    ASSUME ~RaceEdits, ~LateFaults, ForceFlags = {FALSE},
           IInv, TypeOK', Quiet, Forward, Exact, [Next]_vars
    PROVE  Exact'
<1> USE JournalShape DEF Exact, New
<1>1. CASE \E f \in ForceFlags : Begin(f)
  BY <1>1 DEF Begin, durable, history
<1>2. CASE Recovery
  <2>1. CASE RecoverNothing \/ RecoverRefuse \/ UndoDone
    BY <2>1 DEF RecoverNothing, RecoverRefuse, UndoDone, Halt, durable, history
  <2>2. CASE RecoverDiscard
    BY <2>2 DEF RecoverDiscard, Committed, durable, history, IInv, Unmarked
  <2>3. CASE RecoverPreflight
    BY <2>3 DEF RecoverPreflight, durable, history
  <2>4. ASSUME NEW p \in Paths, UndoRestore(p) \/ UndoRemove(p) PROVE Exact'
    BY <2>4 DEF UndoRestore, UndoRemove, history, IInv, TypeOK, NoJournal
  <2>5. ASSUME NEW p \in Paths, UndoRestoreBlocked(p) PROVE Exact'
    BY <2>5 DEF UndoRestoreBlocked, Halt, durable
  <2>6. ASSUME NEW b \in Paths \cup {Sync}, CleanBackup(b) PROVE Exact'
    BY <2>6 DEF CleanBackup, volatile, history
  <2>7. CASE CleanJournal
    BY <2>7 DEF CleanJournal, Halt
  <2> QED BY <1>2, <2>1, <2>2, <2>3, <2>4, <2>5, <2>6, <2>7 DEF Recovery
<1>3. CASE Deciding
  <2>1. CASE CheckPass
    <3>1. disk = base.files
      BY <2>1 DEF CheckPass, Forward, Divergent, IInv, TypeOK, SyncBaseline, Files
    <3> QED BY <2>1, <3>1 DEF CheckPass, durable, history
  <2>2. CASE HeadAdvanced \/ FetchOK
    BY <2>2 DEF HeadAdvanced, FetchOK, durable, history
  <2>3. CASE CheckRefuse \/ HeadCurrent \/ FetchStale
    BY <2>3 DEF CheckRefuse, HeadCurrent, FetchStale, Halt, durable, history
  <2> QED BY <1>3, <2>1, <2>2, <2>3 DEF Deciding
<1>4. CASE Preparing
  <2>1. CASE PrepareInvalid
    BY <2>1 DEF PrepareInvalid, Halt, durable, history
  <2>2. CASE PrepareJournal
    BY <2>2 DEF PrepareJournal, Mutations, Texts, PendingAssets, Removals, IInv, TypeOK
  <2>3. ASSUME NEW b \in Paths \cup {Sync}, Backup(b) PROVE Exact'
    BY <2>3 DEF Backup, volatile, history
  <2>4. CASE Arm
    BY <2>4 DEF Arm, history, IInv, TypeOK, PullJournal, NoJournal
  <2> QED BY <1>4, <2>1, <2>2, <2>3, <2>4 DEF Preparing
<1>5. CASE Installing
  <2>1. CASE VerifyOK \/ VerifyChanged \/ RollbackDone
    BY <2>1 DEF VerifyOK, VerifyChanged, RollbackDone, durable, history
  <2>2. ASSUME NEW p \in Paths, InstallWrite(p) PROVE Exact'
    BY <2>2 DEF InstallWrite, NextUp, history, IInv, TypeOK, Progress
  <2>3. ASSUME NEW p \in Paths, InstallBlocked(p) \/ RemoveBlocked(p) PROVE Exact'
    BY <2>3 DEF InstallBlocked, RemoveBlocked, durable, history
  <2>4. ASSUME NEW p \in Paths, Capture(p) PROVE Exact'
    BY <2>4 DEF Capture, durable, history
  <2>5. ASSUME NEW p \in Paths, Remove(p) PROVE Exact'
    BY <2>5 DEF Remove, NextUp, history, IInv, TypeOK, Progress
  <2>6. CASE Commit
    BY <2>6 DEF Commit
  <2>7. ASSUME NEW p \in Paths, NEW d \in Data, RollbackPath(p, d) PROVE Exact'
    BY <2>7 DEF RollbackPath, history
  <2> QED BY <1>5, <2>1, <2>2, <2>3, <2>4, <2>5, <2>6, <2>7 DEF Installing
<1>6. CASE Faults
  <2>1. CASE NetworkFails
    BY <2>1 DEF NetworkFails, Halt, durable, history
  <2>2. CASE PrepareFault \/ InstallFault
    BY <2>2 DEF PrepareFault, InstallFault, durable, history, IInv, Phases
  <2>3. CASE CommitLateFault
    BY <2>3 DEF CommitLateFault
  <2>4. ASSUME NEW p \in Paths, InstallLateFault(p) PROVE Exact'
    BY <2>4 DEF InstallLateFault, history
  <2>5. CASE ArmLateFault
    BY <2>5 DEF ArmLateFault, history, IInv, TypeOK, PullJournal, NoJournal
  <2> QED BY <1>6, <2>1, <2>2, <2>3, <2>4, <2>5 DEF Faults
<1>7. CASE Crash
  BY <1>7 DEF Crash, Halt, durable, history
<1>8. ASSUME NEW p \in Paths, NEW d \in UserData \cup {Absent}, Edit(p, d) PROVE Exact'
  BY <1>8 DEF Edit, volatile
<1>9. CASE (\E f \in Files : RemoteAdvance(f)) \/ UNCHANGED vars
  BY <1>9 DEF RemoteAdvance, vars, durable, volatile, history
<1> QED
  BY <1>1, <1>2, <1>3, <1>4, <1>5, <1>6, <1>7, <1>8, <1>9 DEF Next, Command

\* The abstract store moves only at the marker, at the user's edits and at the hub.
LEMMA ViewStep ==
    ASSUME ~RaceEdits, ~LateFaults, ForceFlags = {FALSE},
           IInv, TypeOK', Quiet, Forward, Exact, [Next]_vars
    PROVE  [Abstract!Next]_<<remote, View, base>>
<1> USE JournalShape
<1>1. ASSUME UNCHANGED <<remote, base, disk, journal, marked>>
      PROVE  UNCHANGED <<remote, View, base>>
  BY <1>1 DEF View, New
<1>2. ASSUME NEW p \in Paths, UndoRestore(p) \/ UndoRemove(p)
      PROVE  UNCHANGED <<remote, View, base>>
  <2>1. /\ UNCHANGED <<remote, base, journal, marked>>
        /\ disk' = [disk EXCEPT ![p] = journal.old[p]]
        /\ pc = "undo" /\ p \in todo
    BY <1>2 DEF UndoRestore, UndoRemove, history
  <2>2. journal.phase = "ready" /\ ~marked
    BY <2>1 DEF IInv, TypeOK, Phases, Marked, Forward, NoJournal, SyncBaseline
  <2>3. p \in journal.entries /\ disk[p] \in {journal.old[p], New(p)}
    BY <2>1 DEF Quiet
  <2> QED BY <2>1, <2>2, <2>3 DEF View, New, IInv, TypeOK
<1>3. ASSUME NEW p \in Paths, InstallWrite(p) \/ InstallLateFault(p) \/ Remove(p)
      PROVE  UNCHANGED <<remote, View, base>>
  <2>1. /\ UNCHANGED <<remote, base, journal, marked>>
        /\ disk' = [disk EXCEPT ![p] = New(p)]
        /\ pc = "install" /\ p \in todo
    BY <1>3 DEF InstallWrite, InstallLateFault, Remove, NextUp, history
  <2>2. journal.phase = "ready" /\ ~marked /\ p \in journal.entries
    BY <2>1 DEF IInv, TypeOK, Phases, Progress
  <2>3. disk[p] = journal.old[p]
    BY <2>1 DEF Exact
  <2> QED BY <2>1, <2>2, <2>3 DEF View, New, IInv, TypeOK
<1>4. ASSUME NEW p \in Paths, NEW d \in Data, RollbackPath(p, d)
      PROVE  UNCHANGED <<remote, View, base>>
  <2>1. /\ UNCHANGED <<remote, base, journal, marked>>
        /\ \/ disk[p] = d /\ disk' = [disk EXCEPT ![p] = journal.old[p]]
           \/ UNCHANGED disk
        /\ pc = "rollback"
    BY <1>4 DEF RollbackPath, history
  <2>2. journal.phase = "ready" /\ ~marked
    BY <2>1 DEF IInv, TypeOK, Phases
  <2>3. p \in journal.entries /\ d = New(p)
    BY <1>4 DEF RollbackPath, Quiet
  <2> QED BY <2>1, <2>2, <2>3 DEF View, New, IInv, TypeOK
<1>5. CASE PrepareJournal
  BY <1>5 DEF PrepareJournal, View, IInv, Phases, NoJournal
<1>6. CASE Arm \/ ArmLateFault
  <2>1. /\ journal'.phase = "ready" /\ journal'.old = journal.old
        /\ journal'.entries = journal.entries /\ journal'.next = journal.next
        /\ journal.phase = "preparing"
    BY <1>6 DEF Arm, ArmLateFault, IInv, Phases, PullJournal, NoJournal
  <2>2. disk = journal.old
    BY <1>6 DEF Arm, ArmLateFault, Exact
  <2> QED BY <1>6, <2>1, <2>2 DEF Arm, ArmLateFault, history, View, New
<1>7. CASE CleanJournal
  BY <1>7 DEF CleanJournal, View, New, Exact, NoJournal, history
<1>8. CASE Commit
  <2>1. /\ journal.phase = "ready" /\ ~marked /\ marked'
        /\ base' = journal.next
        /\ UNCHANGED <<remote, disk, journal>>
    BY <1>8 DEF Commit, IInv, TypeOK, Phases
  <2>2. base = journal.prev
    BY <2>1 DEF IInv, Unmarked, NoJournal
  <2>3. \A p \in Paths : disk[p] = journal.next.files[p]
    BY <1>8 DEF Commit, Exact, New
  <2>4. View' = base'.files
    <3>1. journal.next.files \in Files
      BY <2>1 DEF IInv, NoJournal
    <3>2. View' = [p \in Paths |-> disk[p]]
      BY <2>1 DEF View
    <3> QED BY <2>1, <2>3, <3>1, <3>2 DEF Files
  <2>5. View = base.files
    <3>1. \A p \in Paths : p \notin journal.entries => disk[p] = journal.old[p]
      BY <1>8 DEF Commit, Exact
    <3>2. View = [p \in Paths |-> journal.old[p]]
      BY <2>1, <2>3, <3>1 DEF View, New
    <3>3. journal.old = base.files /\ journal.old \in [Paths -> Data]
      BY <2>1, <2>2 DEF Exact, NoJournal, IInv
    <3> QED BY <3>2, <3>3
  <2>6. /\ base'.seq \in base.seq + 1 .. remote.seq
        /\ base'.seq = remote.seq => base' = remote
    BY <2>1, <2>2 DEF Forward, NoJournal, IInv, TypeOK, SyncBaseline
  <2> QED BY <2>1, <2>4, <2>5, <2>6 DEF Abstract!Next, Abstract!Pull
<1>9. ASSUME NEW p \in Paths, NEW d \in UserData \cup {Absent}, Edit(p, d)
      PROVE  Abstract!Next \/ UNCHANGED <<remote, View, base>>
  <2>1. /\ UNCHANGED <<remote, base, journal, marked>>
        /\ disk' = [disk EXCEPT ![p] = d]
    BY <1>9 DEF Edit
  <2>2. \A q \in Paths \ {p} : View'[q] = View[q]
    BY <2>1 DEF View, New, IInv, TypeOK
  <2>3. View'[p] = d \/ View'[p] = base.files[p]
    BY <2>1 DEF View, New, IInv, TypeOK, Exact, Unmarked, NoJournal
  <2>4. View' = [View EXCEPT ![p] = View'[p]]
    BY <2>2 DEF View
  <2> QED BY <2>1, <2>3, <2>4 DEF Abstract!Next, Abstract!Edit, Abstract!Revert
<1>10. ASSUME NEW f \in Files, RemoteAdvance(f)
       PROVE  Abstract!Next
  BY <1>10 DEF RemoteAdvance, durable, history, View, New, Files, Abstract!Next,
     Abstract!Publish
<1>11. \/ UNCHANGED <<remote, base, disk, journal, marked>>
       \/ \E p \in Paths : UndoRestore(p) \/ UndoRemove(p)
       \/ \E p \in Paths : InstallWrite(p) \/ InstallLateFault(p) \/ Remove(p)
       \/ \E p \in Paths, d \in Data : RollbackPath(p, d)
       \/ PrepareJournal \/ Arm \/ ArmLateFault \/ CleanJournal \/ Commit
       \/ \E p \in Paths, d \in UserData \cup {Absent} : Edit(p, d)
       \/ \E f \in Files : RemoteAdvance(f)
  BY DEF Next, Command, Recovery, Deciding, Preparing, Installing, Faults, vars, durable,
     history, Begin, RecoverNothing, RecoverDiscard, RecoverRefuse, RecoverPreflight,
     UndoRestoreBlocked, UndoDone, CleanBackup, CheckRefuse, CheckPass,
     HeadCurrent, HeadAdvanced, FetchStale, FetchOK, PrepareInvalid,
     Backup, VerifyOK, VerifyChanged, InstallBlocked, Capture, RemoveBlocked,
     RollbackDone, NetworkFails, PrepareFault, InstallFault, CommitLateFault, Crash
<1> QED
  BY <1>1, <1>2, <1>3, <1>4, <1>5, <1>6, <1>7, <1>8, <1>9, <1>10, <1>11

\* An unforced pull implements the atomic store: the clone and its baseline move
\* together from one published snapshot to a later one, and only from a clone that
\* is exactly its baseline, whatever crashes, errors and recoveries happen.
THEOREM PullsAreAtomic ==
    ASSUME ~RaceEdits, ~LateFaults, ForceFlags = {FALSE}
    PROVE  Spec => PullIsAtomic
<1>1. Init => Quiet /\ Exact
  BY DEF Init, Quiet, Exact, NoJournal
<1>2. Init => Abstract!Init
  <2> SUFFICES ASSUME Init PROVE Abstract!Init
    OBVIOUS
  <2>1. View = disk
    BY TypeInit DEF Init, View, NoJournal, TypeOK
  <2> QED BY <2>1 DEF Init, Abstract!Init, Files
<1>3. IInv /\ Quiet /\ Forward /\ Exact /\ [Next]_vars
        => Quiet' /\ Exact' /\ [Abstract!Next]_<<remote, View, base>>
  BY TypeStep, QuietStep, ExactStep, ViewStep DEF IInv
<1>4. Spec => [](IInv /\ Quiet /\ Forward /\ Exact)
  BY <1>1, <1>3, ForwardInvariant, PTL DEF Spec
<1> QED BY <1>2, <1>3, <1>4, PTL DEF Spec, PullIsAtomic, Abstract!Spec

=============================================================================
