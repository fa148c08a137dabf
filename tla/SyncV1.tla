------------------------------- MODULE SyncV1 -------------------------------
(***************************************************************************)
(* `sevra push`, `pull` and `clone` of a v1 brain by several clones        *)
(* (src/commands.rs).  The clones meet at the hub only, whose feed numbers *)
(* the snapshots.  A push replaces the whole hosted store; what keeps it   *)
(* from replacing a snapshot its clone has not seen is the sequence number *)
(* of the clone's baseline, sent with the request.                         *)
(*                                                                         *)
(* One clone runs one command at a time (.sevra-pull.lock).  A request     *)
(* that its command no longer waits for (a deadline, a reset connection, a *)
(* kill) may still be executed by the hub.  That a pull replaces all files *)
(* and the baseline or nothing, and what an edit inside it may lose, is    *)
(* PullTransaction's subject: here it is one step, and the user edits      *)
(* beside pushes only.                                                     *)
(***************************************************************************)
EXTENDS Naturals, Sequences

CONSTANTS
    Clones,      \* the clones of one brain
    Paths,       \* riding paths; all of them texts
    Data,        \* contents of a file
    Absent,      \* "no file at this path"
    ForceFlags,  \* the values of --force that are tried
    PackRetries, \* how often a pack's commit is tried again; a JSON push never is
    MaxHead, MaxEdits, MaxFailures   \* bounds of the exploration

ASSUME AbsentAssumption == Absent \notin Data
ASSUME ForceAssumption == ForceFlags \subseteq BOOLEAN
ASSUME BoundsAssumption == PackRetries \in Nat /\ MaxHead \in Nat /\ MaxEdits \in Nat /\ MaxFailures \in Nat

Files == [Paths -> Data \cup {Absent}]
NoFiles == [p \in Paths |-> Absent]

\* .sevra-sync.json, if there is one: a sequence number and per-path digests.
SyncBaseline == [saved : BOOLEAN, seq : Nat, files : Files]
NoBaseline == [saved |-> FALSE, seq |-> 0, files |-> NoFiles]

\* A push request.  expected_head_seq is sent by a "checked" one only.  edited is
\* history: the paths the user changed since the clone held the hosted files.
Payload == [files : Files, kind : {"checked", "first", "forced"}, expected : Nat,
            edited : SUBSET Paths]
NoPayload == [files |-> NoFiles, kind |-> "first", expected |-> 0, edited |-> {}]

VARIABLES
    feed,        \* the hosted snapshots, each as the request that brought it
    abandoned,   \* requests nobody waits for, which the hub may still execute
    disk,        \* the riding files of each clone
    base,        \* .sevra-sync.json of each clone
    pc, force,
    payload,     \* what a push has read of its store and will send
    answer,      \* the hub's answer to it
    goal,        \* the snapshot a pull fetches, or the one a push has made
    retries,     \* retries a push has left
    edited,      \* history: paths edited since the clone last held the hosted files
    late,        \* history: paths edited since the running push read the store
    spent        \* bounded steps taken: user edits, failures

clone == <<disk, base>>
command == <<pc, force, payload, late, answer, goal, retries>>
vars == <<feed, abandoned, clone, command, edited, spent>>

Steps == {"idle", "wait", "head", "fetch", "apply"}

\* The hosted files after n commits.
Hosted(n) == IF n = 0 THEN NoFiles ELSE feed[n].files

HeadSeq == Len(feed)

Halt(c) ==
    /\ pc' = [pc EXCEPT ![c] = "idle"]
    /\ force' = [force EXCEPT ![c] = FALSE]
    /\ payload' = [payload EXCEPT ![c] = NoPayload]
    /\ answer' = [answer EXCEPT ![c] = "none"]
    /\ goal' = [goal EXCEPT ![c] = 0]
    /\ retries' = [retries EXCEPT ![c] = 0]
    /\ late' = [late EXCEPT ![c] = {}]

Goto(c, step) == pc' = [pc EXCEPT ![c] = step]

Spend(what) == spent' = [spent EXCEPT ![what] = @ + 1]

\* An empty brain, and directories that were never pushed; one without files does
\* not exist yet.
Init ==
    /\ feed = <<>>
    /\ abandoned = {}
    /\ disk \in [Clones -> Files]
    /\ base = [c \in Clones |-> NoBaseline]
    /\ pc = [c \in Clones |-> "idle"]
    /\ force = [c \in Clones |-> FALSE]
    /\ payload = [c \in Clones |-> NoPayload]
    /\ answer = [c \in Clones |-> "none"]
    /\ goal = [c \in Clones |-> 0]
    /\ retries = [c \in Clones |-> 0]
    /\ edited = [c \in Clones |-> {p \in Paths : disk[c][p] # Absent}]
    /\ late = [c \in Clones |-> {}]
    /\ spent = [edits |-> 0, failures |-> 0]

----------------------------------------------------------------------------
(* Push *)

\* Mutant of Request: the sequence expected is the head's, not the baseline's.
RequestOfHead(c, f) ==
    [files    |-> disk[c],
     kind     |-> IF f THEN "forced" ELSE IF base[c].saved THEN "checked" ELSE "first",
     expected |-> IF base[c].saved /\ ~f THEN HeadSeq ELSE 0,
     edited   |-> edited[c]]

\* A push carries the whole store and, unless it is forced or there is no baseline,
\* expected_head_seq.
Request(c, f) ==
    [files    |-> disk[c],
     kind     |-> IF f THEN "forced" ELSE IF base[c].saved THEN "checked" ELSE "first",
     expected |-> IF base[c].saved /\ ~f THEN base[c].seq ELSE 0,
     edited   |-> edited[c]]

\* The baseline is loaded, the store read and scanned, the brain's identity checked,
\* a large store uploaded as a pack, whose commit is tried again; then the request
\* goes out.  The user may edit from the moment the store is read, and a push that
\* fails before its request changes nothing.
BeginPush(c, f, r) ==
    /\ pc[c] = "idle"
    /\ disk[c] # NoFiles
    /\ Goto(c, "wait")
    /\ force' = [force EXCEPT ![c] = f]
    /\ retries' = [retries EXCEPT ![c] = r]
    /\ payload' = [payload EXCEPT ![c] = Request(c, f)]
    /\ UNCHANGED <<feed, abandoned, clone, late, answer, goal, edited, spent>>

\* Mutant of Retry: for ever.
RetryAlways(c) ==
    /\ pc[c] = "wait"
    /\ answer[c] = "busy"
    /\ retries' = [retries EXCEPT ![c] = IF @ = 0 THEN PackRetries + 1 ELSE @ - 1]
    /\ answer' = [answer EXCEPT ![c] = "none"]
    /\ UNCHANGED <<feed, abandoned, clone, pc, force, payload, late, goal,
                   edited, spent>>

\* Busy, and a pack is committed again.
Retry(c) ==
    /\ pc[c] = "wait"
    /\ answer[c] = "busy"
    /\ retries[c] > 0
    /\ retries' = [retries EXCEPT ![c] = @ - 1]
    /\ answer' = [answer EXCEPT ![c] = "none"]
    /\ UNCHANGED <<feed, abandoned, clone, pc, force, payload, late, goal,
                   edited, spent>>

PushFails(c) ==
    /\ pc[c] = "wait"
    /\ answer[c] = "refused" \/ (answer[c] = "busy" /\ retries[c] = 0)
    /\ Halt(c)
    /\ UNCHANGED <<feed, abandoned, clone, edited, spent>>

\* Mutant of WriteBaseline: the baseline is made of what lies there by now.
WriteBaselineOfDisk(c) ==
    /\ pc[c] = "wait"
    /\ answer[c] = "ok"
    /\ base' = [base EXCEPT ![c] = [saved |-> TRUE, seq |-> goal[c], files |-> disk[c]]]
    /\ Halt(c)
    /\ UNCHANGED <<feed, abandoned, disk, edited, spent>>

\* The baseline is made of what was sent, whatever lies there by now.
WriteBaseline(c) ==
    /\ pc[c] = "wait"
    /\ answer[c] = "ok"
    /\ base' = [base EXCEPT ![c] = [saved |-> TRUE, seq |-> goal[c], files |-> payload[c].files]]
    /\ Halt(c)
    /\ UNCHANGED <<feed, abandoned, disk, edited, spent>>

----------------------------------------------------------------------------
(* The hub (external) *)

\* An expected sequence is compared inside the write lease of the commit.
Accepts(q) == q.kind = "checked" => q.expected = HeadSeq

HubCommit(c) ==
    /\ pc[c] = "wait"
    /\ answer[c] = "none"
    /\ HeadSeq < MaxHead
    /\ Accepts(payload[c])
    /\ feed' = Append(feed, payload[c])
    /\ answer' = [answer EXCEPT ![c] = "ok"]
    /\ goal' = [goal EXCEPT ![c] = HeadSeq + 1]
    /\ edited' = [edited EXCEPT ![c] = late[c]]
    /\ UNCHANGED <<abandoned, clone, pc, force, payload, retries, late, spent>>

\* stale_baseline, shrink_refused or any other error: nothing is changed.
HubRefuse(c) ==
    /\ pc[c] = "wait"
    /\ answer[c] = "none"
    /\ answer' = [answer EXCEPT ![c] = "refused"]
    /\ UNCHANGED <<feed, abandoned, clone, pc, force, payload, late, goal,
                   retries, edited, spent>>

\* hub_scratch_exhausted: not committed, but worth another try.
HubBusy(c) ==
    /\ pc[c] = "wait"
    /\ answer[c] = "none"
    /\ answer' = [answer EXCEPT ![c] = "busy"]
    /\ UNCHANGED <<feed, abandoned, clone, pc, force, payload, late, goal,
                   retries, edited, spent>>

HubCommitAbandoned(q) ==
    /\ q \in abandoned
    /\ HeadSeq < MaxHead
    /\ Accepts(q)
    /\ feed' = Append(feed, q)
    /\ abandoned' = abandoned \ {q}
    /\ UNCHANGED <<clone, command, edited, spent>>

----------------------------------------------------------------------------
(* Pull *)

\* Local divergence refuses a pull before its first request, unless forced.
BeginPull(c, f) ==
    /\ pc[c] = "idle"
    /\ base[c].saved
    /\ f \/ disk[c] = base[c].files
    /\ Goto(c, "head")
    /\ force' = [force EXCEPT ![c] = f]
    /\ UNCHANGED <<feed, abandoned, clone, payload, late, answer, goal, retries,
                   edited, spent>>

\* Mutant of HeadCurrent: any head is current.
HeadCurrentAlways(c) ==
    /\ pc[c] = "head"
    /\ base[c].saved
    /\ ~force[c]
    /\ Halt(c)
    /\ UNCHANGED <<feed, abandoned, clone, edited, spent>>

\* Nothing new, or nothing hosted at all.
HeadCurrent(c) ==
    /\ pc[c] = "head"
    /\ base[c].saved
    /\ IF force[c] THEN HeadSeq = 0 ELSE HeadSeq = base[c].seq
    /\ Halt(c)
    /\ UNCHANGED <<feed, abandoned, clone, edited, spent>>

\* The head names the exact snapshot that is then asked for.
HeadAdvanced(c) ==
    /\ pc[c] = "head"
    /\ base[c].saved => IF force[c] THEN HeadSeq > 0 ELSE HeadSeq > base[c].seq
    /\ goal' = [goal EXCEPT ![c] = HeadSeq]
    /\ Goto(c, "fetch")
    /\ UNCHANGED <<feed, abandoned, clone, force, payload, late, answer,
                   retries, edited, spent>>

FetchStale(c) ==
    /\ pc[c] = "fetch"
    /\ HeadSeq # goal[c]
    /\ Halt(c)
    /\ UNCHANGED <<feed, abandoned, clone, edited, spent>>

Fetch(c) ==
    /\ pc[c] = "fetch"
    /\ HeadSeq = goal[c]
    /\ Goto(c, "apply")
    /\ UNCHANGED <<feed, abandoned, clone, force, payload, late, answer, goal,
                   retries, edited, spent>>

\* Mutant of Apply: the baseline gets the newest sequence number.
ApplyNewest(c) ==
    /\ pc[c] = "apply"
    /\ base[c].saved \/ disk[c] = NoFiles
    /\ disk' = [disk EXCEPT ![c] = Hosted(goal[c])]
    /\ base' = [base EXCEPT ![c] =
            [saved |-> TRUE, seq |-> HeadSeq, files |-> Hosted(goal[c])]]
    /\ edited' = [edited EXCEPT ![c] = {}]
    /\ Halt(c)
    /\ UNCHANGED <<feed, abandoned, spent>>

\* Files and baseline become those of the snapshot, in the clone (PullTransaction)
\* or in a directory that appears with them.
Apply(c) ==
    /\ pc[c] = "apply"
    /\ base[c].saved \/ disk[c] = NoFiles
    /\ disk' = [disk EXCEPT ![c] = Hosted(goal[c])]
    /\ base' = [base EXCEPT ![c] =
            [saved |-> TRUE, seq |-> goal[c], files |-> Hosted(goal[c])]]
    /\ edited' = [edited EXCEPT ![c] = {}]
    /\ Halt(c)
    /\ UNCHANGED <<feed, abandoned, spent>>

----------------------------------------------------------------------------
(* Clone *)

BeginClone(c) ==
    /\ pc[c] = "idle"
    /\ ~base[c].saved
    /\ disk[c] = NoFiles
    /\ Goto(c, "head")
    /\ UNCHANGED <<feed, abandoned, clone, force, payload, late, answer, goal,
                   retries, edited, spent>>

\* "clone destination appeared before atomic publish"
CloneBlocked(c) ==
    /\ pc[c] = "apply"
    /\ ~base[c].saved
    /\ disk[c] # NoFiles
    /\ Halt(c)
    /\ UNCHANGED <<feed, abandoned, clone, edited, spent>>

----------------------------------------------------------------------------
(* The rest of the world *)

\* The command fails or is killed: before its request, while the request may still
\* be executed, with the answer unread, before its baseline is written, or in a
\* pull that then takes everything back.
GiveUp(c) ==
    /\ pc[c] # "idle"
    /\ spent.failures < MaxFailures
    /\ Spend("failures")
    /\ abandoned' = IF pc[c] = "wait" /\ answer[c] = "none"
                      THEN abandoned \cup {payload[c]}
                      ELSE abandoned
    /\ Halt(c)
    /\ UNCHANGED <<feed, clone, edited>>

Edit(c, p, d) ==
    /\ pc[c] \in {"head", "fetch", "apply"} => ~base[c].saved
    /\ spent.edits < MaxEdits
    /\ d # disk[c][p]
    /\ disk' = [disk EXCEPT ![c][p] = d]
    /\ Spend("edits")
    /\ edited' = [edited EXCEPT ![c] = @ \cup {p}]
    /\ late' = IF pc[c] = "wait" THEN [late EXCEPT ![c] = @ \cup {p}] ELSE late
    /\ UNCHANGED <<feed, abandoned, base, pc, force, payload, answer, goal, retries>>

----------------------------------------------------------------------------

Push(c) ==
    Retry(c) \/ PushFails(c) \/ WriteBaseline(c)

PullOrClone(c) ==
    \/ HeadCurrent(c) \/ HeadAdvanced(c)
    \/ FetchStale(c) \/ Fetch(c) \/ Apply(c) \/ CloneBlocked(c)

Hub(c) == HubCommit(c) \/ HubRefuse(c) \/ HubBusy(c)

\* What a running command and the hub's answers do.
Command(c) == Push(c) \/ PullOrClone(c) \/ Hub(c)

User(c) ==
    \/ \E f \in ForceFlags, r \in {0, PackRetries} : BeginPush(c, f, r)
    \/ \E f \in ForceFlags : BeginPull(c, f)
    \/ BeginClone(c)
    \/ \E p \in Paths, d \in Data \cup {Absent} : Edit(c, p, d)

Next ==
    \/ \E c \in Clones : User(c) \/ Command(c) \/ GiveUp(c)
    \/ \E q \in abandoned : HubCommitAbandoned(q)

Spec == Init /\ [][Next]_vars

\* A running command goes on, the hub answers, and now and then every clone is
\* pulled.  Pushes, clones, edits, failures and abandoned requests are never owed.
FairSpec ==
    /\ Spec
    /\ \A c \in Clones : WF_vars(Command(c)) /\ SF_vars(BeginPull(c, FALSE))

----------------------------------------------------------------------------
(* What must hold *)

\* Every variable has its type; a command that records a push has been told where
\* in the feed it is, and nobody's request is both awaited and abandoned.
TypeOK ==
    /\ feed \in Seq(Payload)
    /\ abandoned \subseteq Payload
    /\ disk \in [Clones -> Files]
    /\ base \in [Clones -> SyncBaseline]
    /\ pc \in [Clones -> Steps]
    /\ force \in [Clones -> BOOLEAN]
    /\ payload \in [Clones -> Payload]
    /\ answer \in [Clones -> {"none", "ok", "busy", "refused"}]
    /\ goal \in [Clones -> Nat]
    /\ retries \in [Clones -> 0..PackRetries]
    /\ edited \in [Clones -> SUBSET Paths]
    /\ late \in [Clones -> SUBSET Paths]
    /\ spent \in [edits : Nat, failures : Nat]
    /\ \A c \in Clones : goal[c] \in 0..HeadSeq

\* "every successful push records the brain identity, feed address, pack digest, and
\* per-path digests in .sevra-sync.json" (CHANGELOG.md:382): whatever a baseline
\* says of a sequence number is what the hub has under it, edits made while the
\* push was running included.
BaselineIsHosted ==
    \A c \in Clones :
        base[c].saved => base[c].seq \in 0..HeadSeq /\ base[c].files = Hosted(base[c].seq)

\* The paths at which the n-th commit differs from the one before.
ChangedBy(n) == {p \in Paths : Hosted(n)[p] # Hosted(n - 1)[p]}

\* "Later JSON and pack pushes send the expected feed sequence; the hub [...] returns
\* typed stale_baseline before any durable mutation" (CHANGELOG.md:383-387): a push
\* from a clone with a baseline changes only paths its user edited since the clone
\* held the hosted files.  It never takes back what another clone has published.
NoSilentRevert ==
    \A n \in 1..HeadSeq : feed[n].kind = "checked" => ChangedBy(n) \subseteq feed[n].edited

\* "--force is the explicit overwrite-newer-hosted-state path" (CHANGELOG.md:387):
\* the same of every push that is not forced.
OnlyForceReverts ==
    \A n \in 1..HeadSeq : feed[n].kind # "forced" => ChangedBy(n) \subseteq feed[n].edited

\* Contents that would be lost with the file: no hosted snapshot has them there.
Unpublished(c) ==
    {p \in Paths : disk[c][p] # Absent /\ \A n \in 1..HeadSeq : Hosted(n)[p] # disk[c][p]}

\* "Refuses and names local divergence" (llms.txt:39): unless it is forced, no command
\* changes a file whose bytes the hub never had, those saved during a push included.
WorkSurvives ==
    [][\A c \in Clones :
          (~force[c] /\ spent'.edits = spent.edits)
              => \A p \in Unpublished(c) : disk'[c][p] = disk[c][p]]_vars

\* A clone that is at its baseline follows the hub: in the end it is refused for
\* local changes or holds the head.
CatchesUp ==
    \A c \in Clones :
        <>[](base[c].saved /\ disk[c] = base[c].files => base[c].seq = HeadSeq)

=============================================================================
