# Verification of the `sevra` command line

`sevra` is the command-line client of a hosted store of Markdown records (a *brain*).
It keeps a local directory in step with the hosted one, wraps the `dbmd` tool for
local validation, keeps secrets in a hosted vault and updates itself.  It is a
one-shot program: what makes it hard is not a long-running server but what is on
disk and on the hub when a command is killed, refused, retried, or overtaken by
an editor or by another machine.

This directory holds TLA+ modules that model those parts, TLC configurations that
check them on small instances, and TLAPS proofs of the theorems that matter most.
Every definition that stands for code is mapped to its lines in `PROJECT.json`.

## 1. Inventory

Sizes are lines of `src/src/*.rs`, tests excluded.

| Part | Where | State it keeps | Operations | What makes it hard |
|---|---|---|---|---|
| v1 pull transaction | `commands.rs` 3600-4590, 5689-6028 | the files of the clone, `.sevra-sync.json` (baseline), `.sevra-pull-journal.json`, `.sevra-pull-backup-*`, `.sevra-pull.lock` | pull, recovery, rollback, cleanup | kill at any step, errors before and after a rename, the user's editor, `--force` |
| v1 push | `commands.rs` 1883-2868 | the baseline; the hosted head and its sequence number | scan, upload, commit, baseline write | lost answers, two clones, kill between commit and baseline |
| clone / export / package restore | `commands.rs` 4686-5680, `package.rs` 2905-3282 | a private stage beside the destination | build, publish without replacement, discard | failure half way, a destination that appears meanwhile |
| package pull and checkpoint | `package.rs` 1680-2690, 3284-3451 | companion files, the applied receipt, the package journal and its backups, the snapshot inside the brain | reconcile, apply, roll back, recover, checkpoint | three-way comparison, kill at any step, editor |
| secrets adopt / quarantine | `commands.rs` 6436-8218, `local.rs` | the adopt journal, records, `.sevralocal`, the vault | plan, vault, rewrite, derive, finish | restart between vault write and file rewrite |
| asset transfer | `assets.rs` | the hub's set of stored hashes, staged files | plan, upload, confirm, restore | windows of 128, eight workers, retries, expired URLs |
| sign-in and sign-out | `commands.rs` 693-1354, `config.rs` | `~/.sevra/config.json`, the hub's sessions | login (key, browser, code), logout | lost answers, ten-session cap, kill between revoke and save |
| self-update | `update.rs`, `signing.rs` | the executable, its staged and parked copies, the daily stamp | check, download, verify, swap | two updaters, kill between two renames |
| hub client | `hub.rs` | none | request, retry, deadline, presigned transfer | an abandoned request may still commit |
| safe paths | `safe_path.rs` | temporary files and tombstones | atomic write / create, symlink, remove, lock, publish | an entry or its parent changed by others, kill or power cut between two system calls, Unix and Windows |
| store walk, scope, packs | `store.rs`, `local.rs` | none | walk, classify, pack | pure selection |
| secret scanner | `scan.rs` | none | scan | pure |
| MCP server | `mcp.rs` | a stdio session | read frame, answer | one request at a time |
| command line, output | `main.rs`, `output.rs`, `config.rs` | none | dispatch | - |
| queries, grants, publish | `commands.rs` 1356-1757, 2877-3330 | none | one request each | - |
| release controller, installers | `scripts/`, `install.sh`, `install.ps1` | git tags, drafts, files | release, install | partial releases |

**Interaction.** Commands are processes.  Push, pull and adopt of one clone exclude
one another through an OS lock on `.sevra-pull.lock` that dies with the process;
checkpoint and package pull exclude one another through `.sevra-package.lock`.  An
editor takes no lock.  Different clones meet only at the hub, whose sequence number
orders their commits.  The background thread of a request and the deferred updater
are the only concurrency inside a process.

**What must be right**, part by part: a pull is all or nothing and destroys no local
work unless forced; a push never overwrites a newer head unnoticed; a clone
directory appears complete or not at all; a package pull overwrites only what is
still as it applied it; a secret is in the vault before its literal leaves the file;
every declared asset is confirmed before it counts as uploaded; a saved credential is
live and a live session is known to somebody; there is always a runnable binary.

## 2. Modules

### 2.1 `PullTransaction`: the v1 pull

The in-place replacement of a clone by a hosted snapshot.  On disk: `disk` (the
riding files), `base` (`.sevra-sync.json`), `journal`, `backups`.  In the process, and
lost with it: `pc` and what the command has read so far.  Only one command is past the
store lock, so one program counter is enough.

| Code (`commands.rs`) | Actions |
|---|---|
| `pull`, `push` up to their own work | `Begin`, `CheckRefuse`, `CheckPass`, `HeadCurrent`, `HeadAdvanced`, `FetchOK`, `FetchStale`, `NetworkFails` |
| `prepare_pull_transaction`, `validate_pull_journal` | `PrepareJournal`, `PrepareInvalid`, `Backup`, `Arm`, `PrepareFault`, `ArmLateFault` |
| `verify_export_snapshot`, `install_complete_export` | `VerifyOK`, `VerifyChanged`, `InstallWrite`, `InstallBlocked`, `Capture`, `Remove`, `RemoveBlocked`, `Commit`, and the faults |
| `rollback_held_export` | `RollbackPath`, `RollbackDone` |
| `recover_pull_transaction`, `recover_ready_pull` | `RecoverNothing`, `RecoverDiscard`, `RecoverRefuse`, `RecoverPreflight`, `UndoRestore`, `UndoRestoreBlocked`, `UndoRemove`, `UndoDone` |
| `cleanup_pull_transaction` | `CleanBackup`, `CleanJournal` |
| the world | `Crash`, `Edit`, `RemoteAdvance` |

Abstractions.  A content is a model value; contents the hub may hold and contents only
the user writes are disjoint, which makes "local work" visible.  A digest is the
content; the baseline and the snapshot it describes are one record.  Where the code also
compares a file's fingerprint (3763-3764, 3820), a save of the same bytes counts as a
change: with edits inside a command (`RaceEdits`) verification may refuse and the rollback
may skip a path whose content is the same.  Permission bits,
created directories, `.sevra-new-*` staging files, size limits, `.sevralocal` and the
catalogs rebuilt after a commit are left out.  `prepare_restore`, the second read of
the destinations and the creation of the journal are one step: they change nothing
between them, and the journal records what that second read sees.  Undo, rollback and
backup steps take their paths in any order; the code's fixed order is one of them.  An
I/O error that only ends the command (while undoing or cleaning up) leaves on disk what
a kill leaves, so `Crash` stands for it.

`AtomicStore` is what an unforced pull promises: the files and the baseline move
together, from a clone that is exactly its baseline to a later published snapshot.
`PullIsAtomic` states that `PullTransaction` implements it, with `store` mapped to
`View`: before the marker is written, an installed file counts as what it replaced.

| Property | Says |
|---|---|
| `BaselineDescribesStore` | with no transaction under way, every file the user did not edit is what the baseline says |
| `BackedUpBeforeChanged` | until the marker is written, a changed file is the user's edit or can be put back from its backup by an armed journal |
| `WorkSurvives` | only a forced command destroys bytes the user wrote |
| `PullIsAtomic` | an unforced pull implements `AtomicStore` |
| `JournalResolves` | rerunning gets rid of every journal, unless recovery refuses because a path changed or a backup is gone |
| `RecoverableUnlessEdited` | if the user kept away, an interrupted pull can be recovered |

Runs use one text and one asset, two hosted contents, one user content and two hub
sequence numbers: enough for every combination of added, removed, rewritten and
unchanged paths of both kinds and for a head that moves between two requests.

| Run | Conditions | Result |
|---|---|---|
| `pull_unforced` | `FairSpec`: two edits between commands, two crashes anywhere, one I/O error | holds, 295k states |
| `pull_races` | two edits at any step, one crash, one I/O error that may come after the write or removal took effect, `--force` mixed in | holds, 6.0M states |
| `pull_bug_wedge` | two crashes, nothing else | `RecoverableUnlessEdited` fails |
| `pull_bug_overwrite` | one edit while a pull downloads | `WorkSurvives` fails |

Two crashes are needed: one to interrupt a pull, one to interrupt its recovery.  A
second edit adds the user who undoes an edit.  Fairness: a running command takes its
next step (it is a sequential program) and somebody runs the command again; nothing
is assumed of crashes, faults, edits or the hub.

The two violated properties are quoted from the repository's own documents and
messages; `PROJECT.json` ("findings") gives the lines of both sides.  Three more outcomes
are known from the same module and have no run of their own.  Writing the baseline may
fail after its rename (4561: the directory sync, or the read-back): the rollback then
restores the files and leaves the new baseline, so that the next recovery takes the pull
for committed, although the command said that all store changes were rolled back (4565);
`BaselineDescribesStore` fails with late faults.  `CommitIsFinal` (a pull that wrote its
marker is not undone) fails with `ForceFlags = {FALSE, TRUE}`: a forced pull of the head the clone already has
writes a baseline with the digest it already had, so a kill after it makes recovery
undo a complete pull (4293-4296).  And an asset edited between its installation and
its read-back is recorded as installed, so the rollback that its own edit causes
replaces the edit by the backup (4498).

**Proofs.**  `PullTransactionProofs` proves, for all finite sets of paths, all contents
and all bounds:
`TypeCorrect`; `Invariant` (the inductive invariant `IInv`); `BackupsComeFirst`;
and, if no error is reported after the marker is replaced, `NoMixture`
(`BaselineDescribesStore`).
Neither property is inductive: that a file may be put back depends on where the
command is.  `IInv` therefore says for every phase which paths may differ from their
old state and that exactly the backups needed for those exist.
From `Quiet` on the same module proves `OnlyForceDiscards` (no edits inside a running command),
`CommitsAreFinal` (`CommitIsFinal`; no `--force`, no late errors) and `PullsAreAtomic` (all three):
the refinement of `AtomicStore`, step by step.  The hypotheses are needed: each one
dropped is one of the outcomes above or a violation run.  `JournalResolves` is liveness and stays
with TLC.


### 2.2 `PackagePull`: package pull and checkpoint

One workspace: companion files beside a brain.  On disk `disk` (the companions), `snap`
(the snapshot record inside the brain), `receipt` (the applied receipt), `journal`, and
the recovery directory (`stage` says it exists, `backups` what it holds).  Outside,
`hosted` and `synced` are what the hub has and what `dbmd` last saw of it; `dbmd` itself
is external and modelled from how `package pull` and `checkpoint` call it.

| Code (`package.rs`) | Actions |
|---|---|
| `pull_command` | `BeginPull`, `BrainPull`, `BrainConflict`, `AdoptRefuse`, `Adopt`, `PullFails` |
| `recover_package_pull`, `rollback_package_journal` | `RecoverNothing`, `RecoverApplied`, `RecoverRollback`, `Rollback`, `RollbackRefuse`, `RollbackDone` |
| `cleanup_package_journal` | `CleanBlocked`, `CleanBackup`, `CleanDir`, `CleanJournal` |
| `apply_package_delta`, `prepare_package_backups` | `PlanRefuse`, `PlanNothing`, `PlanDelta`, `Backup`, `BackupChanged`, `WriteJournal`, `Check`, `CheckChanged`, `Install`, `Verify`, `VerifyChanged`, `Commit`, and the faults |
| `checkpoint_command`, `stage_snapshot` | `BeginCheckpoint`, `Stage`, `Publish`, `PublishConflict` |
| the world | `Crash`, `Edit`, `RemoteCheckpoint` |

Abstractions.  A snapshot is the content of each companion (mode included), and equal
contents are equal roots.  The content-addressed objects, dependencies, the profile,
secret scanning, vault names and verification after a pull change none of the state
above and are left out.  Capturing companions is one step.  The comparison and the
restoration of a path in a rollback are one step, while the last check and the
replacement during an installation are two: an edit between those two is allowed only
with `TightEdits`, which no run sets: `WorkSurvives` then fails, because the comparison at
2641 and the rename after it are separate calls and nothing can protect an edit that falls
between them.  Operations are taken in any order.

`touched`, `kept`, `unseen` and `halfway` are histories the properties speak about: the
paths the user edited, the user's contents a checkpoint has captured, what others
published and this workspace has not applied, and whether a pull ever moved the brain
and stopped before its receipt.

| Property | Says |
|---|---|
| `ReceiptDescribesCompanions` | with no journal left, every companion the user did not edit is what the receipt says |
| `RollbackPossible` | until the receipt advances, whatever a pull did can be taken back |
| `WorkSurvives` | no step destroys bytes the user wrote that no checkpoint captured |
| `CheckpointConflicts` | as long as pulls that brought news wrote their receipt, a checkpoint never overwrites what it has not applied |
| `JournalResolves` | pulling again gets rid of every journal, unless recovery refuses |
| `CheckpointSparesOthers` | a checkpoint never overwrites what it has not applied |

| Run | Conditions | Result |
|---|---|---|
| `pkg_pull` | `FairSpec`: an edit at any step, two crashes, an error, which may come after the write took effect, one checkpoint here and one elsewhere; one content is a symlink | holds, 719k states |
| `pkg_bug_checkpoint` | one edit, no failure | `CheckpointSparesOthers` fails |

Two companions are needed for a partly applied plan.  Fairness is that of
`PullTransaction`; the number of checkpoints is bounded, so they cannot keep pulls away
for ever.  `ReceiptDescribesCompanions` excludes errors after the rename of the receipt:
the receipt is replaced, the rollback starts, a kill stops it, and recovery believes the
pull happened.

One outcome has no run of its own.  Cleanup removes the recovery directory first and the
journal second (2391-2399): a kill between the two leaves a journal whose directory is
gone.  Recovery refuses it, so every later package pull stops there until somebody removes
the journal by hand (CHANGELOG.md:107 calls the journal recoverable, README.md:200-201
says an interrupted pull is rolled back).  `JournalResolves` therefore allows `Stuck`.

**Proofs** (`PackagePullProofs`), for all finite sets of companions, all contents and all
bounds: `TypeCorrect`, `ReceiptsAreTrue` (`ReceiptDescribesCompanions`),
`RollbacksArePossible` (`RollbackPossible`), `CheckpointsNotice` (`CheckpointConflicts`)
and, with `~TightEdits`, `PullsSpareWork` (`WorkSurvives`).  The invariant `IInv` says for
each phase of the journal which companions may already be as the pull wants them and
that the others are as the backups have them; that a journal's two receipts differ
wherever it touches a companion; and that what the snapshot record covers was applied or
noticed.  The last part is what `CheckpointsNotice` needs: `Commit` may advance the receipt
only together with the companions it speaks about.
### 2.3 `SyncV1`: several clones and the hub

Two clones of one brain, each with its riding files (`disk`), its baseline (`base`) and
at most one running command (`pc`; the store lock), and the hub, whose `feed` numbers
the hosted snapshots.  A snapshot is kept with the request that brought it, so that
properties can ask what the client had sent.  The hub is external: what it does with
`expected_head_seq` is taken from what the client relies on.

| Code | Actions |
|---|---|
| `push`, `commit_pack`, `ensure_push_ok` | `BeginPush`, `Retry`, `PushFails`, `WriteBaseline` |
| `pull`, `fetch_snapshot` | `BeginPull`, `HeadCurrent`, `HeadAdvanced`, `FetchStale`, `Fetch`, `Apply` |
| `clone_brain` | `BeginClone`, `HeadAdvanced`, `FetchStale`, `Fetch`, `Apply`, `CloneBlocked` |
| the hub | `HubCommit`, `HubRefuse`, `HubBusy`, `HubCommitAbandoned` |
| `run_with_hard_deadline`, kills, any other failure | `GiveUp` |
| the user | `Edit` |

Abstractions.  A push is read, scanned and sent in one step: what fails before the
request has changed nothing, and edits are allowed from there on.  A pull's replacement
of the files is one step, which `PullIsAtomic` justifies; edits inside it are
`PullTransaction`'s subject.  Every command that gives up while its request is open
leaves the request in `abandoned`, and the hub may execute it at any later time or
never: this is a deadline in `hub.rs`, a reset connection, or a kill.  A JSON push is
never sent twice, a pack's commit is retried when the hub says it is busy
(`PackRetries`; 1 stands for the code's 2).  The hub's shrink guard is a refusal that
may or may not come.  Withheld names, scopes, the secret scan and asset uploads are
left out.

| Property | Says |
|---|---|
| `BaselineIsHosted` | a baseline holds what the hub has under its sequence number |
| `NoSilentRevert` | a push from a clone with a baseline changes only paths its user edited since the clone held the hosted files |
| `WorkSurvives` | unforced commands destroy no bytes the hub never had, those saved during a push included |
| `CatchesUp` | a clone without local changes ends up at the head |
| `OnlyForceReverts` (no run) | the same as `NoSilentRevert` for every push without `--force` |

| Run | Conditions | Result |
|---|---|---|
| `sync_v1` | two clones, one path, two contents, three commits, one edit, one failure, `--force` mixed in | holds, 2.9M states |
| `sync_follow` | `FairSpec`: two commits, no `--force`, one pack retry, one edit, one failure | holds, 262k states |

Three commits are what it takes to see a revert: the clone's own, another clone's, and
the one that takes it back.  Files found in a directory that was never pushed are edits
too, and either clone may start with some.  Fairness: a running command goes on and
the hub answers (`WF`), and every clone is pulled now and then (`SF`, because a pull is
possible only while no other command of the clone runs).  Deadlock is not checked in
`sync_follow`: without `--force`, a user who has deleted every file of a clone is
refused by push (nothing to push) and by pull (local divergence).

A first push is outside `NoSilentRevert`: without a baseline it sends no expected
sequence (2605; the changelog, 387-388, says so of *later* pushes only).  A clone whose
first push was committed but whose answer was lost, or a second directory pushed to the
same brain, therefore replaces what others published meanwhile, and only the hub's shrink
guard, which counts files, stands in the way.  `OnlyForceReverts` fails for this reason
with one edit and one failure.

**Proofs.**  `SyncV1Proofs` proves `TypeCorrect`, `BaselinesAreHosted`,
`ChecksProtectOthers` (`NoSilentRevert`) and `UnforcedSparesWork` (`WorkSurvives`) for all
sets of clones, paths and contents and all bounds.  `NoSilentRevert` is not inductive: it
speaks of commits, while what goes wrong would go wrong in a clone or in a request long
before.  The invariant `IInv` says what a request may contain (`Cautious`: while the
snapshot it expects is the head, it differs from it only where its user edited), and the
same of a clone whose baseline is the head (`AtTheHead`).  A commit then makes both
claims vacuous for everybody else, because no expectation equals the new head.  The
remaining conjuncts carry this through a push: what was read is what lies there but for
later edits (`SentAsRead`), and an "ok" names the snapshot that was made (`Accepted`).
The hub's comparison (`Accepts`) is the one assumption about the hub that is used.
`CatchesUp` is liveness and stays with TLC.

### 2.4 `SelfUpdate`, `SignIn`, `McpServer`: what one machine does with the hub

Three protocols that share no state.  `Machine` composes them side by side; its variable `part` says which one a behaviour explores while the other two rest, so that
the state space is the sum of the three and not their product, and the fairness of each
is restated for its own part.

**`SelfUpdate`** (`update.rs`, `signing.rs`).  A file is a number; `built` says which
release it is and whether it is genuine, unsigned, signed but unknown to the origin, or
partial.  `exe`, `aside[p]` (`<exe>.old.<pid>`) and `staged[p]` (`<exe>.new.<pid>`) are
names, `checked` the day's stamp, `image[p]` the file a command runs from.

| Code | Actions |
|---|---|
| `main`, `cleanup_stale_swaps` | `Launch`, `CleanupStaleSwaps` |
| `maybe_auto_update`, `cmd_update`, `fetch_versions` | `MaybeAutoUpdate`, `CmdUpdate`, `Recheck`, `Stamp`, `FetchVersions` |
| `download_and_verify`, `signing.rs` | `Download`, `Approved`, `Refuse` |
| `download_verify_replace`: staging and the swap | `Astray`, `WriteStaged`, `Written`, `Swap` (Unix), `RenameAside`, `RenameAsideFails`, `RenameIn`, `RenameInFails` with `RollBack`, `DropAside` (Windows), `Fails` |
| the world | `Kill`, `Release`, `NextDay` |

On Windows a running program's file can be renamed and neither replaced nor removed
(`Locked`, `Blocked`); on Linux `current_exe`, read before staging, follows the replaced
file (`Displaced`), and such a command's update goes to names nobody looks at (`Astray`).
Signature and digest checks are what a download turns out to be.

**`SignIn`** (`commands.rs` 693-1354, `config.rs`).  `file` is `config.json`, `live` the
keys the hub accepts, `auth[p]` the authorization request of a command.

| Code | Actions |
|---|---|
| `login` with a key | `BeginKeyLogin`, `Probe` |
| browser login | `BeginLogin`, `StartFlow`, `NoBrowser`, `Callback`, `GiveUp` |
| code login, exchange | `Granted`, `Redelivered`, `Refused`, `Again`, `RequestLost`, `AnswerLost` |
| `revoke_displaced_session`, saving | `Displace`, `DisplaceNothing`, `DisplaceLost`, `Save`, `SaveFails` |
| `logout` | `BeginLogout`, `Revoke`, `RevokeLost`, `Remove`, `RemoveFails` |
| the world | `Crash`, `Decide` (the person in the browser), `Tamper` (another hub in the file) |

`lost` counts the moments at which file and hub may come apart: a lost answer that
minted a session, a kill or a failed write between revoking and saving, two commands at
once.  `SlotsAccounted` bounds the sessions nobody knows by that number, and says that
at rest without any such moment the account holds exactly the stored session.  One
outcome is not in conflict with it: a `--key` equal to the session this program stored
earlier is taken for a key of its own, revoked and then saved (779 against 703-704).

**`McpServer`** (`mcp.rs`, `hub.rs`).  `inbox` are the frames of the client (by kind),
`out` the answers, `worker[i]` the thread that carries the hub request of frame `i`.

| Code | Actions |
|---|---|
| `serve`, `handle_mcp_request` | `Eof`, `ReadHuge`, `ReadJunk`, `ReadSilent`, `HandleLocally`, `Call`, `Respond` |
| `try_hosted_brain_read` | `RespondPending`, `AskAgain` |
| `run_with_hard_deadline` | `Start`, `Tick`, `Abandon`, `Hand` |
| `with_connect_retries`, `request_inner_blocking`, `finish_response` | `Connect`, `ConnectFails`, `HubRefuses`, `HubAnswers`, `Break`, `Oversize` |
| the world | `Send`, `Hang`, `HubActs` |

A thread whose call was given up goes on, and what it asked for may still take effect.
Three things are as the code has them, though they are not pretty: a call, and a ping,
without an id is answered with id null; an unsigned server ends on `start_run`, because that path
`fail`s (hub.rs 576; mcp.rs 449-450 says tool errors never end the session); and an
answer over the limit ends the process from the thread (`Oversize`).

| Property | Says |
|---|---|
| `MachineTypeOK` | the types; no call outlives its deadline |
| `OnlyApproved` | whatever has or had the program's name is a whole release with both approvals |
| `LastCopySurvives` | the name is free only between the two Windows renames, after a kill there, or after a failed second rename that could not be undone; and a parked copy is left |
| `CatchesUp` | commands that are used end up being the newest release, whatever order two updaters had |
| `SlotsAccounted` | no session is lost track of without a mishap or a word to the user |
| `UserKeysSpared` | no key the user brought is revoked |
| `AnswersMatch` | each request has its own answer, in order, with its own outcome, late threads notwithstanding |
| `OneRunPerCall` | `start_run` starts at most one run, through all retries |
| `AllEnd` | sign-ins end, and every frame is dealt with, though the network never answers |

`LastCopySurvives` is weaker than update.rs 305-306 ("A failed second step rolls the
original back, so an interrupted update never leaves a missing binary") in three ways.

- A kill between the two renames leaves the program under its parked name only.
- The second rename fails and the rename that undoes the first fails too: its error is
  ignored (313), and the name stays free with nobody killed (`spent.stranded`).
- There is nothing to put back.  This needs three commands on Windows: `q` replaces the
  program `r` was started from, `r` parks `q`'s new program, which nobody runs yet, and a
  third command, started before all this, sweeps the parked copy while the name is free.
  If `r`'s second rename then fails, its rollback finds nothing (`spent.stranded` again).
  The proof showed this one; the run has two commands and never sees it.

What the property keeps is that nothing else frees the name, and that in all three cases
a copy that ran before is left under a parked name, which no later clean-up takes.

Run `machine` (1.03M states): two updaters on each platform with three releases, four
files and one kill or failure; two commands with two account slots, three logins and two
mishaps; a session of two frames with two faults, two connect attempts and three ticks.
Two updaters are needed for a swap in the wrong order, a third release for one of them to
be stale twice, and four files for `CatchesUp` to say something then: the first program,
the two that were swapped in the wrong order, and the update that repairs it (with fewer
`spent.full`, the bound's own mark, would excuse it); two frames for a late thread to meet a later call.  Fairness: commands are
run and go on, days pass, the server runs and time passes; nothing is assumed of people,
the network or the hub.

**Proofs.**  `MachineProofs` proves the seven invariants of the run for `MachineSpec`, for
any number of commands, files, releases, sessions and frames: `MachineTypeCorrect`,
`OnlyApprovedRuns`, `ACopySurvives`, `SessionsAreAccounted`, `BroughtKeysStay`,
`RequestsAreAnswered` and `RunsStartOnce`, all from `MachineInvariant`.  `PartsRun` reduces
the composition to its parts: each of them behaves by its own specification.

- *Self-update.*  A command that is about to rename has a staged file that was written to
  the end and approved (`Ready`).  On Windows the file a program runs from keeps a name
  (`Homed`), because it can be moved and not be replaced; without that, `LastCopySurvives`
  is not inductive.  `MachineSpec` has any number of commands, so the proof covers all three
  ways above.
- *Sign-in* (`SignInProofs`).  Counting the orphaned sessions alone is not inductive: a
  command may orphan one more when it saves, and pays nothing then.  It has paid when it
  began.  `Balanced` says that orphans and running commands together are at most `lost + 1`,
  and at most `lost` while some command is about to overwrite or remove a stored session
  that is live.  `Calm` says for behaviours without mishap that the stored session is live
  or about to be replaced by a live one, `KeysKnown` where each minted key is known.
- *MCP server.*  A thread belongs to a frame that was read and has had the hub start at
  most the run it was for, and reports success only after that (`ThreadsTrue`); a call that
  is waited for is hosted and has no answer yet (`Waited`).  So what a late thread hands
  over can only be the outcome of its own frame.

Beyond what the code fixes, the assumptions on the constants say that commands, sessions
and the user's keys are finitely many, and that keys differ from each other and from the
markers of the model.
### 2.5 `Adopt`: secrets adopt and quarantine

`secrets adopt` moves the credentials found in a store into the brain's vault.  `md` are
the markdown files (a version of the prose, the literals, the references), `asset`,
`declared`, `deriv` and `wrapper` the text assets, their manifest rows, their sanitized
derivatives and wrapper files, `scope` the exact entries of `.sevralocal`, `vault` the
hub's, `journal` the adopt journal.

| Code (`commands.rs`) | Actions |
|---|---|
| `secrets_adopt`: scan, journal | `Scan`, `Assigned`, `WriteAdoptJournal` |
| vault writes, name conflicts | `Rename`, `Post`, `PostConflict`, `VaultFails`, `PostLost`, `VaultDone` |
| comparison, rewriting | `Check`, `CheckChanged`, `CheckDone`, `Rewrite`, `WriteDone` |
| originals, derivatives | `KeepHomeRead`, `KeepHomeWrite`, `Derive`, `DeriveFails`, `EnsureWrapper`, `RecordWrapper`, `RefreshManifest`, `DeriveDone` |
| `finish_adopt_scope` | `FinishScopeRead`, `FinishScopeWrite`, `RemoveJournal` |
| `quarantine` | `QuarantineRead`, `QuarantineWrite` |
| the world | `Stop` (kill or failure), `EditMarkdown`, `EditAsset`, `SecretsSet` |

A file is its literals and references, so the scanner is exact; spans, encodings, review
output and the link closure of quarantine are left out.  A value's name is the one its
context suggests or one made of it and more and more of the value's hash, up to
`LastAttempt` (16 in the code, 1 in the run; the theorems hold for any); two values may
suggest the same.  Refusals no step of adoption can bring about are left out: a literal in a
control file or a file name (7293-7316), frontmatter without a shape (7340), immutable
hosted sources (7532-7551), wrappers made twice or lost (7001, 7020).  Each names its cause, and
a journal that meets one stays until the cause is gone.

| Property | Says |
|---|---|
| `TypeOK` | the types; no two values of a journal share a name |
| `ReferencesResolve` | every literal adopt replaced can be read back from the vault, unless a person replaced the item since |
| `EditsSurvive` | what people write while adopt talks to the hub is never overwritten |
| `UnquarantinedClean` | a file leaves `.sevralocal` only without credentials, unless one was put in after the scan |
| `OriginalsStayHome` | an original that has a derivative never rides |
| `JournalResolves` | running adopt again finishes every journal or names what is in its way |

Run `secrets` (1.0M states): two markdown files, one asset, two values, one edit or vault
write from outside, one stop.  Two files and two values give a file with both, both with
one, and names that collide; one stop gives every prefix.

Two windows are known, and kept out of the run by a constant.  All files are compared
first and written afterwards (7624-7647): with `TightEdits` an edit in between is
overwritten and `EditsSurvive` fails.  `quarantine` takes no store lock and rewrites the
whole of `.sevralocal` from what it read before its scan (8107 against 7144): with
`RaceScope` it undoes what adopt keeps home meanwhile, or the reverse, and
`OriginalsStayHome` and `UnquarantinedClean` fail.  And a run may be unable to finish
because the derivative's path is taken by other bytes (`Occupied`): it says so, and the
journal stays.

**Proofs** (`AdoptProofs`), for all stores, values, names and bounds: `TypeCorrect`,
`AdoptedValuesReadBack` (`ReferencesResolve`) without any condition, with `~RaceScope`
`OriginalsAreKeptHome` (`OriginalsStayHome`) and `OnlyCleanFilesRideAgain`
(`UnquarantinedClean`), and with `~TightEdits` `AdoptSparesEdits` (`EditsSurvive`).  The
conditions are the two windows above.  That a reference resolves is not inductive:
`IInv` adds that a name, once a value's, stays with that value in every journal that may
be read again, that a value leaves the list only when the vault has it, and that what a
resumed command rewrites is in the journal it resumes.
### 2.6 `StageRestore`, `AssetTransfer`, `SafePath`: files to a directory, bytes to the hub

`Files` composes the three side by side, and `MCFiles` gives them small sets, in the way of
`Machine` and `MCMachine`.

**`StageRestore`** (`commands.rs` 4686-5687, `package.rs` 1998-2218 and 2687-3282).  Clone
and export of both generations and package restore.  `target` is the directory under the
destination's name, `stage[p]` a command's private directory, `defect[p]` what is wrong
with what the hub serves.

| Code | Actions |
|---|---|
| `clone_brain`, `export`, fetching and checking | `Begin`, `BeginRefused`, `Fetch`, `FetchFails` |
| `install_complete_export` in a stage, catalogs | `MakeStage`, `MakeStageFails`, `Install`, `InstallFails`, `RollBack`, `Rebuild`, `RebuildFails` |
| v2: `dbmd` materializes | `SyncStage`, `SyncTarget`, `SyncFails`, `WriteCheckout`, `CheckoutFails` |
| package restore | `LoadSnapshot`, `RestoreEntries`, `VaultNames`, `VaultNamesFails`, `WriteReceipt`, `VerifySnapshot`, `RestoreFails`, `Relocate`, `RelocateFails`, `TakeBackFails` |
| `publish_dir_no_replace`, `discard_private_stage` | `Publish`, `PublishFails`, `PublishLate`, `Discard`, `DiscardFails` |
| the world | `Kill`, `UserWork` |

**`AssetTransfer`** (`assets.rs`).  `rows` is the manifest page or snapshot at hand,
`stage` the private copies, `window`, `remaining`, `landed` and `attempt` the transfer
window, `uploaded` and `present` the tallies of the report, `stored` and `head` what the
hub has.  The transfers of a window run in parallel threads that share nothing but the
counters: they are one step with any outcome.

| Code | Actions |
|---|---|
| the push gate, the missing list | `Scan`, `ListMissing`, `ListFails`, `PageDone` |
| staging, windows | `Stage`, `StageFails`, `CloseWindow`, `PlanUpload`, `Upload`, `Confirm`, `ConfirmFails` |
| retries | `PlanRetry`, `PlanFatal`, `Judge` |
| `prepare_restore`, installation | `Check`, `CheckFails`, `Pick`, `PlanDownload`, `Download`, `Commit` |
| the world | `Spoil` (a private copy is altered), `Edit`, `OtherPush`, `OtherUpload` |

**`SafePath`** (`safe_path.rs` 112-261, 627-913, 971-1039, 1331-1671).  One operation of
each command under one name.  `name` is what has the parent's name and `held` the
directory a command opened, which need not be the same any more.  `log[d]` holds the
entries the disk of directory `d` may come back with after a power cut: the last is the
current one, a sync of the directory drops the others.  `data[p]` is how far the bytes of
`p`'s file have come, `temp[p]` whether its temporary name exists, `grave[p]` what it has
renamed to a tombstone.

| Code | Actions |
|---|---|
| `open_root`, `open_parent_from`, `locked_parent` | `OpenParent`, `ParentMissing`, `MakeParent`, `ParentRefused` |
| `leaf_kind`, the look at the entry | `LeafKind` |
| `atomic_write_in_parent`, `atomic_write_impl`, `create_symlink` | `Stage`, `StageFails`, `Install`, `InstallFails`, `Untemp`, `SyncParent` |
| `remove_regular`, `remove_symlink_relative`, `remove_empty_dir` | Unix: `Unlink`, `SyncParent`; Windows: `MoveAside`, `Bury`; `DetachFails` |
| the world | `Kill`, `PowerCut`, `Touch` (the entry), `Swap` (the parent) |

Abstractions.  One parent component stands for the whole path, and writers make it if it
is missing (`create_parents`).  Temporary names and tombstones never collide.  Removing a
temporary file while giving up always succeeds; if it does not, what is left is what a
kill leaves.  Windows renames are durable (`MOVEFILE_WRITE_THROUGH`), and a sharing
violation is a failure like any other.  In `AssetTransfer` a file is "secret" when a scan
within its budgets finds something in its text: files over the limits (1099-1106), bytes
that are not UTF-8 (1120) and `--allow-secrets` (commands.rs 2554) are left out.  An
upload's private copy is taken as unaltered between staging and sending, where the code
does not hash it again (463-469); a download's is (`Spoil`).  `export --skip-assets` is
left out of `StageRestore`.

`SafePath` implements **`AtomicFile`**, which has none of this: an operation changes the
entry of one directory in one step (`Act`), if the old entry is one it may change
(`May`), and answers; "ok" says that the change lasts, a plain error that there was none.
`log` is mapped with every file whose bytes may be incomplete replaced by "torn", an entry
the abstract module does not have.

| Property | Says |
|---|---|
| `FilesTypeOK` | the types; a window never holds the same bytes twice |
| `PublishedWhole` | a destination is complete and sound from the moment its name exists; only a v2 clone may be there without its identity |
| `AnswersTrue` | a clone, export or restore: success means one's own directory under the name, plain failure means nothing under the name and no stage but the two the code forgets (`ReportsTrue`, `Forgotten`); an operation on a path leaves no temporary file or tombstone unless it was killed or failed after its effect (`NoDebris`) |
| `WorkSurvives` | no clone, export or restore removes or replaces what a person put under the name |
| `OnlyDeclaredBytesLeave` | only riding paths' bytes leave, under their own names, and no secret the gate could have seen |
| `TransfersExact` | every blob is counted once, a push leaves none behind it could have sent, and an export or pull that ends well has every declared byte in place |
| `WritesAreAtomic` | `SafePath` implements `AtomicFile` |
| `AllEnd` | all commands end, and racing ones do not all give up |
| `FullDirsStay` | `remove_empty_dir` takes away no directory that has something in it |

| Run | Conditions | Result |
|---|---|---|
| `files` | two commands of the five kinds with one name, two mishaps, a person; four rows of three blobs (one twice, one secret) in pages of three and windows of two, two faults, one edit; two operations of the six kinds on one path, one trouble, one touch of a person, both platforms | holds, 850k states |
| `path_bug_dir` | one operation, one touch, no trouble | `FullDirsStay` fails |

A page smaller than the manifest and a window smaller than a page make every loop turn;
two faults are one more than a retry absorbs.  Two operations are needed for a name that
changes between look and use by another command, one touch for a person's change, and one
trouble for each way to stop; a second one would meet an operation that has already
stopped.  Fairness: running commands go on.

`path_bug_dir`.  On Windows `remove_empty_dir` renames the directory before it asks for
its removal (1370, 1385).  If it is not empty the removal fails and the directory keeps
its hidden name, while the recovery of a pull, which gets this error, goes on as if it had
been left in place (commands.rs 4259-4263).

Outcomes a reader should know of.  The rows of a truncated page that are all skipped end
the loop, and the rows behind them are never seen (708-710, 802): `UploadComplete`
excludes it.  Failing asset commands leave their private copies to the next clean-up
(169).  `export` of a v2 brain and package restore leave their stage behind if the vault
listing fails (5049, package.rs 3164), and the export also if its marker cannot be written
(5074).  `create_dir` may fail after it made the directory (safe_path.rs 417-419), and its
callers then `fail` without removing it: an empty stage stays behind a plain failure.  The
rename that publishes may fail late in the same way (494): clone, export and restore then say that
the destination appeared before them and that their stage could not be removed, with the
complete directory in place (5330-5345).  The rename that takes a restore back may fail
too (package.rs 3265): the directory stays, and the message says that the rollback failed.  A restore whose relocation fails takes the published directory
back, with whatever a person put there in the meantime (package.rs 3253-3254): `WorkSurvives`
fails with `EarlyUse`, and is checked with people who wait for the command to end.  An
operation on a path whose last step fails reports an error with its effect in place
("late"; `PullTransaction`'s late errors come from here).  The name of a directory made on
the way is never synced, so a write that said "ok" may vanish with it in a power cut
(146-261): `AtomicFile` speaks of the entry in the directory that was opened.  A Unix
removal takes whatever file or link is there by now, a Windows one moves even another
directory aside before it finds out.

**Proofs.**  `FilesProofs` proves all the safety properties of the run for `FilesSpec`, for
any number of commands, paths and blobs and all page, window and retry limits:
`FilesTypeCorrect`, `DestinationsAreWhole`, `AnswersAreTrue`, `SecretsStayHome`,
`TransfersAreExact`, `OperationsAreAtomic` and, with `~EarlyUse`, `CommandsSpareWork`
(`WorkSurvives`), from `FilesInvariant`.

- *Clone, export and restore.*  The invariant follows a stage from `MakeStage` to `Publish`:
  what it holds at each step (`Gathered`), which defects have been noticed by then
  (`Sifted`), for the v2 kinds up to the vault exactly what it holds (`Exactly`), which is
  what a lost listing leaves behind, that it belongs to one command, and that the directory under the name is the
  one the command remembers as its own (`Owned`).
- *Asset transfer.*  For a push `UpWindow` says that the window holds one row of each blob
  and none that was counted before, that what is staged is the declared bytes of a path
  that may leave, and that what the window no longer owes is on the hub; `Gate` that every
  riding file nobody has changed since has passed the scan; `Covered` that an undisturbed
  page that was not cut off covers what the hub lacks.  For an export or a pull `Restoring`
  says that whatever is not in place is still to be fetched or staged.
- *Operations on a path* (`SafePathProofs`: `TypeCorrect`, `Invariant`,
  `FailuresLeaveNothing`, `OperationsAreAtomic`).  Each action of `SafePath` is mapped to
  `Act`, `Answer`, a person's or a power cut's step of `AtomicFile`, or to a stutter.  The
  invariant says of each operation which file is its own, how much of it is durable, and
  whether its effect is in the log, may be lost, or is not there, which is exactly what it
  may still answer.

The assumptions on the constants say that commands and paths are finitely many, that
commands, bytes and markers are different things, and that the limits are positive.
## 3. What is left

The model covers every part that keeps state two steps can disagree about.  Every
invariant and action property that a passing run checks, and both refinements, are proved
for all values of the constants, under the conditions named in their sections.

Model-checked only, and to stay so: `JournalResolves`, `CatchesUp` and `AllEnd` (liveness
under fairness, which needs ENABLED), and the four violation runs.

What could still be proved, most important first:

1. The conditions of `PullsAreAtomic`, one by one: which part of the refinement survives
   `--force`, and which survives edits inside a running command.
2. `AdoptSparesEdits` and `CommandsSpareWork` for everybody but the one who edits in the gap
   the hypothesis names, so that the hypothesis is about a path or a command and not about
   the whole behaviour.
3. `RecoverableUnlessEdited` of pull and package pull for every journal whose cleanup was
   not killed: what the violation run leaves of it.

## 4. What is not modelled

- `store.rs`, and the selection half of `local.rs`: which files ride and how they are
  packed is a pure function of the directory; the other modules take it as given.
- `scan.rs` and `spec/secret-patterns-v1.json`: regular expressions over text.
- `main.rs`, `output.rs`: arguments, dispatch, wording.
- Hosted queries, grants, publish, inbox, runs: one request each, no local state.
- `scripts/`, `install.sh`, `install.ps1`: shell programs around git, gh and curl.
- In `hub.rs`, which addresses a presigned transfer may reach: a pure check.
- In `safe_path.rs`, the store lock, listings, reads and restored permissions, which the
  other modules use through their effects.
- Text formats (JSON, Markdown, ZIP), cryptography and terminal output.

The hub, `dbmd` and people are modelled only from how the client uses or meets them, and
marked external in the map.
