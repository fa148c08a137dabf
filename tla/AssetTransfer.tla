---------------------------- MODULE AssetTransfer ----------------------------
(* Asset bytes to and from the hub (assets.rs): after a push, what the hub    *)
(* reports missing is staged privately, sent in windows and confirmed; for an *)
(* export or a pull every missing asset is downloaded into a private stage    *)
(* before the first file is written.                                          *)
(*                                                                            *)
(* One command runs while a person edits files, other clones push and upload, *)
(* requests fail, answers are lost and what the network serves is wrong.      *)
EXTENDS Integers, FiniteSets

CONSTANTS
    Paths,           \* the rows of the manifest
    Blobs,           \* contents, named by their SHA-256
    Declared,        \* the pushed manifest: [Paths -> Blobs]
    Secrets,         \* the blobs in which a scan finds a secret: text within its budgets
    KeepLists,       \* what .sevralocal may keep home
    Holdings,        \* what the hub may hold at first
    Other, None,     \* bytes no manifest names; no bytes
    PageSize,        \* rows of one answer of the hub's missing list
    WindowSize,      \* TRANSFER_WINDOW
    Attempts,        \* RESTORE_RETRY_BACKOFF and the first try
    MaxFaults, MaxEdits

\* What is assumed of them.
AssetTransferAssumption ==
    /\ Declared \in [Paths -> Blobs] /\ Secrets \subseteq Blobs
    /\ KeepLists \subseteq SUBSET Paths /\ Holdings \subseteq SUBSET Blobs
    /\ Other \notin Blobs /\ None \notin Blobs \cup {Other}
    /\ IsFiniteSet(Paths)
    /\ {PageSize, WindowSize, Attempts} \subseteq Nat \ {0}
    /\ MaxFaults \in Nat /\ MaxEdits \in Nat

Contents == Blobs \cup {Other}

VARIABLES
    kind,        \* "up": sync_after_push, "down": prepare_restore and its installation
    kept,        \* the paths .sevralocal keeps home
    local,       \* the files
    edited,      \* the paths the person has changed since the command began
    head,        \* the manifest the hub holds
    stored,      \* the blobs the hub has confirmed
    sent,        \* what was PUT: a blob's name, the bytes, the path they are from
    pc, fate,
    rows,        \* the declarations at hand: a page of the missing list, a snapshot
    truncated, progressed,
    todo,        \* rows not yet in a window
    window, remaining, landed, attempt,
    stage,       \* private copies in the temporary directory
    uploaded, present,  \* the tallies of the report
    faults, edits

hub == <<head, stored, sent>>
page == <<rows, truncated>>
work == <<window, remaining, landed, attempt>>
report == <<uploaded, present>>
files == <<kind, kept, local, edited>>
vars == <<files, hub, pc, fate, page, progressed, todo, work, stage, report, faults, edits>>

Riding == Paths \ kept
BlobsOf(paths) == {rows[p] : p \in paths}
Empty == [p \in Paths |-> None]
Go(step) == pc' = step /\ UNCHANGED fate
End(how) == pc' = "done" /\ fate' = how
Fault == faults < MaxFaults /\ faults' = faults + 1

Init ==
    /\ kind \in {"up", "down"} /\ kept \in KeepLists
    /\ local \in {f \in [Paths -> Contents] : \A p \in Paths : f[p] \in {Declared[p], Other}}
    /\ edited = {}
    /\ head = Declared
    /\ stored \in Holdings
    /\ sent = {}
    /\ pc = IF kind = "up" THEN "scan" ELSE "check"
    /\ fate = "none"
    /\ rows = Empty /\ truncated = FALSE /\ progressed = FALSE /\ todo = {}
    /\ window = {} /\ remaining = {} /\ landed = {} /\ attempt = 1
    /\ stage = Empty /\ uploaded = {} /\ present = {}
    /\ faults = 0 /\ edits = 0

----------------------------------------------------------------------------
(* Push: the secret gate, the missing list and private stages *)

\* The riding rows of the pushed manifest whose file holds the declared bytes.
Inspected == {p \in Riding : local[p] = Declared[p]}

\* scan_declared_asset_secrets, before anything is sent; a file that is missing or has
\* drifted is counted as not inspected.  (--allow-secrets leaves this step out.)
Scan ==
    /\ pc = "scan"
    /\ IF \E p \in Inspected : Declared[p] \in Secrets THEN End("refused") ELSE Go("list")
    /\ UNCHANGED <<files, hub, page, progressed, todo, work, stage, report, faults, edits>>

Missing == {p \in Paths : head[p] \notin stored}

\* missing_assets: one page of the rows whose bytes the hub lacks.
ListMissing ==
    /\ pc = "list"
    /\ IF Missing = {}
         THEN End("ok") /\ UNCHANGED <<page, progressed, todo>>
         ELSE \E listed \in SUBSET Missing :
                /\ listed = Missing \/ Cardinality(listed) = PageSize
                /\ Cardinality(listed) <= PageSize
                /\ rows' = [p \in Paths |-> IF p \in listed THEN head[p] ELSE None]
                /\ truncated' = (listed # Missing)
                /\ progressed' = FALSE
                /\ todo' = listed
                /\ Go("stage")
    /\ UNCHANGED <<files, hub, work, stage, report, faults, edits>>

ListFails ==
    /\ pc = "list"
    /\ Fault
    /\ End("failed")
    /\ UNCHANGED <<files, hub, page, progressed, todo, work, stage, report, edits>>

\* Mutant of Source: the keep list is consulted for one path of the blob only.
SourceAnyPath(blob) ==
    {p \in todo : rows[p] = blob /\ local[p] = blob /\ \E q \in todo \ kept : rows[q] = blob}

\* stage_asset_source: a private copy of a path's bytes, if they are the declared ones.
Source(blob) == {p \in todo : rows[p] = blob /\ p \notin kept /\ local[p] = blob}

\* One copy of every listed blob, from any riding path that holds it; without one the
\* rows are counted as kept home, missing or drifted, and skipped.
Stage(blob) ==
    /\ pc = "stage" /\ blob \in BlobsOf(todo)
    /\ Cardinality(window) < WindowSize
    /\ IF Source(blob) = {}
         THEN UNCHANGED <<window, stage>>
         ELSE \E p \in Source(blob) :
                window' = window \cup {p} /\ stage' = [stage EXCEPT ![p] = local[p]]
    /\ todo' = {p \in todo : rows[p] # blob}
    /\ UNCHANGED <<files, hub, pc, fate, page, progressed, remaining, landed, attempt, report,
                   faults, edits>>

\* No copy could be made of one that was there.
StageFails(blob) ==
    /\ pc = "stage" /\ blob \in BlobsOf(todo)
    /\ Cardinality(window) < WindowSize
    /\ Fault
    /\ todo' = {p \in todo : rows[p] # blob}
    /\ UNCHANGED <<files, hub, pc, fate, page, progressed, work, stage, report, edits>>

\* The window is full, or holds the last of the page.
CloseWindow ==
    /\ pc = "stage" /\ window # {}
    /\ Cardinality(window) = WindowSize \/ todo = {}
    /\ remaining' = window /\ attempt' = 1
    /\ Go("plan")
    /\ UNCHANGED <<files, hub, page, progressed, todo, window, landed, stage, report, faults, edits>>

\* Mutant of PageDone: a truncated list is always asked for again.
PageDoneAgain ==
    /\ pc = "stage" /\ window = {} /\ todo = {}
    /\ IF truncated THEN Go("list") ELSE End("ok")
    /\ UNCHANGED <<files, hub, page, progressed, todo, work, stage, report, faults, edits>>

\* A truncated list is asked for again, unless this page brought nothing new.
PageDone ==
    /\ pc = "stage" /\ window = {} /\ todo = {}
    /\ IF truncated /\ progressed THEN Go("list") ELSE End("ok")
    /\ UNCHANGED <<files, hub, page, progressed, todo, work, stage, report, faults, edits>>

----------------------------------------------------------------------------
(* A window: planned, transferred in parallel, confirmed; what failed is tried again *)

\* transfer_window_response fails in a way that may pass.
PlanRetry ==
    /\ pc = "plan"
    /\ Fault
    /\ IF attempt < Attempts
         THEN attempt' = attempt + 1 /\ UNCHANGED <<pc, fate, stage>>
         ELSE /\ End("failed") /\ UNCHANGED attempt
              /\ stage' = IF kind = "up" THEN stage ELSE Empty
    /\ UNCHANGED <<files, hub, page, progressed, todo, window, remaining, landed, report, edits>>

\* It is refused, or its items are not those that were asked for.  The program then ends
\* where it stands, its private copies with it, unless a download is merely refused.
PlanFatal ==
    /\ pc = "plan"
    /\ \/ Fault
       \/ kind = "down" /\ ~(BlobsOf(remaining) \subseteq stored) /\ UNCHANGED faults
    /\ End("failed")
    /\ IF kind = "up" THEN UNCHANGED stage ELSE stage' \in {stage, Empty}
    /\ UNCHANGED <<files, hub, page, progressed, todo, work, report, edits>>

\* plan_upload_window: what another clone has brought meanwhile needs no transfer.
PlanUpload ==
    /\ pc = "plan" /\ kind = "up"
    /\ LET already == {p \in remaining : rows[p] \in stored}
       IN /\ remaining' = remaining \ already
          /\ present' = present \cup BlobsOf(already)
          /\ progressed' = (progressed \/ already # {})
    /\ Go("transfer")
    /\ UNCHANGED <<files, hub, page, todo, window, landed, attempt, stage, uploaded, faults, edits>>

\* upload_capabilities: each PUT succeeds, fails, or arrives and seems to have failed.
Upload ==
    /\ pc = "transfer" /\ kind = "up"
    /\ \E arrived \in SUBSET remaining : \E well \in SUBSET arrived :
         /\ sent' = sent \cup {<<rows[p], stage[p], p>> : p \in arrived}
         /\ landed' = well
         /\ IF well = remaining THEN UNCHANGED faults ELSE Fault
         /\ Go(IF well = {} THEN "judge" ELSE "confirm")
    /\ UNCHANGED <<files, head, stored, page, progressed, todo, window, remaining, attempt, stage,
                   report, edits>>

\* confirm_upload_window: only what succeeded is confirmed, counted and done with.
Confirm ==
    /\ pc = "confirm"
    /\ stored' = stored \cup BlobsOf(landed)
    /\ uploaded' = uploaded \cup BlobsOf(landed)
    /\ progressed' = TRUE
    /\ remaining' = remaining \ landed /\ landed' = {}
    /\ Go("judge")
    /\ UNCHANGED <<files, head, sent, page, todo, window, attempt, stage, present, faults, edits>>

\* It fails, or its answer is lost: the command ends, and the next push asks the hub.
ConfirmFails ==
    /\ pc = "confirm"
    /\ Fault
    /\ stored' \in {stored, stored \cup BlobsOf(landed)}
    /\ End("failed")
    /\ UNCHANGED <<files, head, sent, page, progressed, todo, work, stage, report, edits>>

\* sync_staged_window and restore_download_window: done, once more with fresh
\* capabilities for what failed, or the end of the command.
Judge ==
    /\ pc = "judge"
    /\ IF remaining = {}
         THEN /\ window' = {} /\ UNCHANGED attempt
              /\ IF kind = "up" THEN stage' = Empty /\ Go("stage") ELSE UNCHANGED stage /\ Go("pick")
         ELSE IF attempt < Attempts
         THEN attempt' = attempt + 1 /\ Go("plan") /\ UNCHANGED <<window, stage>>
         ELSE /\ End("failed") /\ UNCHANGED <<window, attempt>>
              /\ stage' = IF kind = "up" THEN stage ELSE Empty
    /\ UNCHANGED <<files, hub, page, progressed, todo, remaining, landed, report, faults, edits>>

----------------------------------------------------------------------------
(* Export and pull: everything is staged before anything is written *)

\* prepare_restore: the riding rows of the snapshot whose file is not the declared one.
Check ==
    /\ pc = "check"
    /\ rows' = head
    /\ todo' = {p \in Riding : local[p] # head[p]}
    /\ Go("pick")
    /\ UNCHANGED <<files, hub, truncated, progressed, work, stage, report, faults, edits>>

\* parse_restore_manifest refuses a row, or a destination cannot be inspected.
CheckFails ==
    /\ pc = "check"
    /\ Fault
    /\ End("failed")
    /\ UNCHANGED <<files, hub, page, progressed, todo, work, stage, report, edits>>

\* Mutant of FitsWindow: equal rows share a window.
FitsWindowAny(paths) ==
    paths = todo \/ (paths \subseteq todo /\ Cardinality(paths) = WindowSize)

\* The next window: rows in order, of equal ones only the first.
FitsWindow(paths) ==
    /\ paths \subseteq todo /\ paths # {}
    /\ Cardinality(paths) = Cardinality(BlobsOf(paths))
    /\ Cardinality(paths) = WindowSize \/ BlobsOf(paths) = BlobsOf(todo)
    /\ Cardinality(paths) <= WindowSize

Pick ==
    /\ pc = "pick"
    /\ IF todo = {}
         THEN Go("commit") /\ UNCHANGED <<todo, window, remaining, attempt>>
         ELSE \E paths \in SUBSET todo :
                /\ FitsWindow(paths)
                /\ window' = paths /\ remaining' = paths /\ todo' = todo \ paths
                /\ attempt' = 1
                /\ Go("plan")
    /\ UNCHANGED <<files, hub, page, progressed, landed, stage, report, faults, edits>>

\* plan_download_window: one capability for every row.
PlanDownload ==
    /\ pc = "plan" /\ kind = "down"
    /\ BlobsOf(remaining) \subseteq stored
    /\ Go("transfer")
    /\ UNCHANGED <<files, hub, page, progressed, todo, work, stage, report, faults, edits>>

\* Mutant of Download: after an interruption the window is thought to be done.
DownloadOnce ==
    /\ pc = "transfer" /\ kind = "down"
    /\ \E got \in SUBSET remaining :
         /\ IF got = remaining THEN UNCHANGED faults ELSE Fault
         /\ stage' = [p \in Paths |-> IF p \in got THEN rows[p] ELSE stage[p]]
         /\ remaining' = {}
    /\ Go("judge")
    /\ UNCHANGED <<files, hub, page, progressed, todo, window, landed, attempt, report, edits>>

\* download_capabilities: what arrives is hashed, and wrong bytes end the command;
\* verified stages are kept, interrupted ones remain.
Download ==
    /\ pc = "transfer" /\ kind = "down"
    /\ \E got \in SUBSET remaining : \E wrong \in SUBSET got :
         LET bytes(p) == IF p \in wrong THEN Other ELSE rows[p]
             good == {p \in got : bytes(p) = rows[p]}
         IN /\ IF got = remaining /\ wrong = {} THEN UNCHANGED faults ELSE Fault
            /\ IF good # got
                 THEN stage' = Empty /\ End("failed") /\ UNCHANGED remaining
                 ELSE /\ stage' = [p \in Paths |-> IF p \in good THEN bytes(p) ELSE stage[p]]
                      /\ remaining' = remaining \ good
                      /\ Go("judge")
    /\ UNCHANGED <<files, hub, page, progressed, todo, window, landed, attempt, report, edits>>

\* PreparedAsset::write_to hashes each stage again while the installer copies it; a stage
\* that differs fails the installation, which restores what it had replaced.
Staged == {p \in Paths : stage[p] # None}

Intact(p) == stage[p] = rows[p]

Commit ==
    /\ pc = "commit"
    /\ IF \A p \in Staged : Intact(p)
         THEN /\ local' = [p \in Paths |-> IF p \in Staged THEN stage[p] ELSE local[p]]
              /\ stage' = Empty
              /\ End("ok")
         ELSE End("failed") /\ UNCHANGED <<local, stage>>
    /\ UNCHANGED <<kind, kept, edited, hub, page, progressed, todo, work, report, faults, edits>>

----------------------------------------------------------------------------
(* Everyone else *)

Running == pc # "done"

\* The bytes of a download's private copy change.  An upload's is taken to stay what it
\* was when it was hashed: it is not hashed again before it is sent.
Spoil(p) ==
    /\ kind = "down" /\ Running /\ stage[p] \notin {None, Other}
    /\ Fault
    /\ stage' = [stage EXCEPT ![p] = Other]
    /\ UNCHANGED <<files, hub, pc, fate, page, progressed, todo, work, report, edits>>

Edit(p, bytes) ==
    /\ Running /\ edits < MaxEdits /\ local[p] # bytes
    /\ local' = [local EXCEPT ![p] = bytes]
    /\ edited' = edited \cup {p}
    /\ edits' = edits + 1
    /\ UNCHANGED <<kind, kept, hub, pc, fate, page, progressed, todo, work, stage, report, faults>>

\* Another clone's push declares other bytes for a path.
OtherPush(p, blob) ==
    /\ Running /\ edits < MaxEdits /\ head[p] # blob
    /\ head' = [head EXCEPT ![p] = blob]
    /\ edits' = edits + 1
    /\ UNCHANGED <<files, stored, sent, pc, fate, page, progressed, todo, work, stage, report, faults>>

\* Another clone uploads a blob.
OtherUpload(blob) ==
    /\ Running /\ edits < MaxEdits /\ blob \notin stored
    /\ stored' = stored \cup {blob}
    /\ edits' = edits + 1
    /\ UNCHANGED <<files, head, sent, pc, fate, page, progressed, todo, work, stage, report, faults>>

Up ==
    \/ Scan \/ ListMissing \/ ListFails
    \/ (\E blob \in Blobs : Stage(blob) \/ StageFails(blob))
    \/ CloseWindow \/ PageDone \/ PlanUpload \/ Upload \/ Confirm \/ ConfirmFails
Down == Check \/ CheckFails \/ Pick \/ PlanDownload \/ Download \/ Commit
Step == Up \/ Down \/ PlanRetry \/ PlanFatal \/ Judge

Next ==
    \/ Step
    \/ \E p \in Paths : Spoil(p) \/ (\E b \in Contents : Edit(p, b)) \/ (\E b \in Blobs : OtherPush(p, b))
    \/ \E b \in Blobs : OtherUpload(b)

Spec == Init /\ [][Next]_vars

\* A command that was started goes on until it ends.
FairSpec == Spec /\ WF_vars(Step)

----------------------------------------------------------------------------
(* Properties *)

\* The types, and: a window never holds two rows of the same bytes, which the hub's
\* transfer contract refuses (assets.rs 1542), nor more than its bound.
TypeOK ==
    /\ kept \in SUBSET Paths /\ local \in [Paths -> Contents] /\ head \in [Paths -> Blobs]
    /\ stored \in SUBSET Blobs /\ rows \in [Paths -> Blobs \cup {None}]
    /\ stage \in [Paths -> Contents \cup {None}]
    /\ uploaded \in SUBSET Blobs /\ present \in SUBSET Blobs
    /\ attempt \in 1..Attempts /\ todo \in SUBSET Paths
    /\ remaining \subseteq window /\ landed \subseteq window /\ window \subseteq Paths
    /\ Cardinality(window) <= WindowSize
    /\ Cardinality(window) = Cardinality(BlobsOf(window))
    /\ fate = "none" <=> Running

\* Whatever a person edits and other clones push meanwhile, only a riding path's bytes
\* leave the machine, they are the bytes their name says, and they are no secret that the
\* gate could have seen (commands.rs 2549): it was not there to be read, or another clone
\* declared it afterwards.
OnlyDeclaredBytesLeave ==
    \A s \in sent :
        LET blob == s[1] bytes == s[2] path == s[3]
        IN /\ bytes = blob
           /\ path \notin kept
           /\ blob \in Secrets => path \in edited \/ blob # Declared[path]

\* Over all retries and windows every blob is counted once, as uploaded or as already
\* there, and what is counted is on the hub.
CountedOnce == uploaded \cap present = {} /\ uploaded \cup present \subseteq stored

\* A push that ends well, undisturbed, leaves no blob behind that a riding file holds -
\* unless all the rows of a truncated page were skipped: the rows behind that page were
\* never seen (assets.rs 708-710 takes every remaining row for skipped).
UploadComplete ==
    kind = "up" /\ fate = "ok" /\ faults = 0 /\ edits = 0 =>
        \A p \in Inspected : Declared[p] \in stored \/ (truncated /\ ~progressed)

\* An export or a pull that ends well has every declared byte in place, except where the
\* person edited meanwhile; interrupted, wrong and altered downloads never count.
RestoreExact ==
    kind = "down" /\ fate = "ok" => \A p \in Riding \ edited : local[p] = rows[p]

=============================================================================
