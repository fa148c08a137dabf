---------------------------- MODULE SyncV1Proofs ----------------------------
(***************************************************************************)
(* Theorems about SyncV1, for any number of clones, paths, contents,       *)
(* commits, edits and failures.                                            *)
(***************************************************************************)
EXTENDS SyncV1, TLAPS

----------------------------------------------------------------------------
(* The inductive invariant *)

\* A request with an expectation differs from the snapshot it expects only where the
\* user edited: while that snapshot is the head, nothing of others is at stake.
Cautious(q) ==
    q.kind = "checked" =>
        /\ q.expected \in 0..HeadSeq
        /\ q.expected = HeadSeq =>
             \A p \in Paths \ q.edited : q.files[p] = Hosted(q.expected)[p]

Requests ==
    /\ \A c \in Clones : pc[c] = "wait" => Cautious(payload[c])
    /\ \A q \in abandoned : Cautious(q)

\* A push that was told it is committed is in the feed where it was told.
Accepted ==
    \A c \in Clones :
        answer[c] = "ok" =>
            pc[c] = "wait" /\ goal[c] \in 1..HeadSeq /\ feed[goal[c]].files = payload[c].files

\* Since a push read the store, only the user has written to it.
SentAsRead ==
    \A c \in Clones :
        /\ late[c] \subseteq edited[c]
        /\ pc[c] # "wait" => late[c] = {}
        /\ pc[c] = "wait" => \A p \in Paths \ late[c] : disk[c][p] = payload[c].files[p]

\* A clone that holds the head differs from it only where its user edited.
AtTheHead ==
    \A c \in Clones :
        base[c].saved /\ base[c].seq = HeadSeq =>
            \A p \in Paths \ edited[c] : disk[c][p] = base[c].files[p]

\* An unforced pull runs only in a clone that is its baseline.
PullsAreClean ==
    \A c \in Clones :
        pc[c] \in {"head", "fetch", "apply"} /\ base[c].saved /\ ~force[c]
            => disk[c] = base[c].files

IInv ==
    TypeOK /\ BaselineIsHosted /\ NoSilentRevert /\ Requests /\ Accepted
    /\ SentAsRead /\ AtTheHead /\ PullsAreClean

----------------------------------------------------------------------------
(* The feed only grows *)

\* What a commit adds to the hosted snapshots, and that it changes no earlier one.
LEMMA FeedGrows ==
    ASSUME feed \in Seq(Payload), NEW q \in Payload, feed' = Append(feed, q)
    PROVE  /\ HeadSeq \in Nat
           /\ HeadSeq' = HeadSeq + 1
           /\ feed' \in Seq(Payload)
           /\ \A n \in 1..HeadSeq : feed'[n] = feed[n]
           /\ feed'[HeadSeq + 1] = q
           /\ \A n \in 0..HeadSeq : Hosted(n)' = Hosted(n)
           /\ Hosted(HeadSeq)' = q.files
PROOF
  <1>1. /\ HeadSeq \in Nat
        /\ HeadSeq' = HeadSeq + 1
        /\ feed' \in Seq(Payload)
        /\ \A n \in 1..HeadSeq : feed'[n] = feed[n]
        /\ feed'[HeadSeq + 1] = q
    BY DEF HeadSeq
  <1>2. ASSUME NEW n \in 0..HeadSeq
        PROVE  Hosted(n)' = Hosted(n)
    <2>1. CASE n = 0
      BY <2>1 DEF Hosted
    <2>2. CASE n # 0
      <3>1. n \in 1..HeadSeq
        BY <1>1, <2>2
      <3>. QED
        BY <1>1, <2>2, <3>1 DEF Hosted
    <2>. QED
      BY <2>1, <2>2
  <1>3. Hosted(HeadSeq)' = q.files
    BY <1>1 DEF Hosted
  <1>. QED
    BY <1>1, <1>2, <1>3

\* Whatever the feed holds are files.
LEMMA HostedFiles ==
    ASSUME feed \in Seq(Payload), NEW n \in 0..HeadSeq
    PROVE  Hosted(n) \in Files
PROOF
  <1>1. CASE n = 0
    BY <1>1 DEF Hosted, NoFiles, Files
  <1>2. CASE n # 0
    <2>1. n \in 1..Len(feed)
      BY <1>2 DEF HeadSeq
    <2>2. feed[n] \in Payload
      BY <2>1
    <2>. QED
      BY <1>2, <2>2 DEF Hosted, Payload
  <1>. QED
    BY <1>1, <1>2

----------------------------------------------------------------------------
(* Types *)

\* A command that ends leaves all its variables at rest.
LEMMA HaltTypes ==
    ASSUME TypeOK, NEW c \in Clones, Halt(c), UNCHANGED feed
    PROVE  /\ pc' \in [Clones -> Steps]
           /\ force' \in [Clones -> BOOLEAN]
           /\ payload' \in [Clones -> Payload]
           /\ answer' \in [Clones -> {"none", "ok", "busy", "refused"}]
           /\ goal' \in [Clones -> Nat]
           /\ retries' \in [Clones -> 0..PackRetries]
           /\ late' \in [Clones -> SUBSET Paths]
           /\ HeadSeq' = HeadSeq
           /\ \A x \in Clones : goal'[x] \in 0..HeadSeq'
PROOF
  <1>1. NoPayload \in Payload
    BY DEF NoPayload, Payload, NoFiles, Files
  <1>2. HeadSeq \in Nat /\ HeadSeq' = HeadSeq
    BY DEF HeadSeq, TypeOK
  <1>3. \A x \in Clones : goal'[x] \in 0..HeadSeq'
    BY <1>2 DEF TypeOK, Halt
  <1>. QED
    BY <1>1, <1>2, <1>3, BoundsAssumption DEF TypeOK, Halt, Steps

\* Counting a step keeps the counters natural numbers.
LEMMA SpendTypes ==
    ASSUME TypeOK, NEW what \in {"edits", "failures"}, Spend(what)
    PROVE  spent' \in [edits : Nat, failures : Nat]
PROOF
  <1>1. spent \in [edits : Nat, failures : Nat] /\ spent' = [spent EXCEPT ![what] = spent[what] + 1]
    BY DEF TypeOK, Spend
  <1>2. CASE what = "edits"
    BY <1>1, <1>2
  <1>3. CASE what = "failures"
    BY <1>1, <1>3
  <1>. QED
    BY <1>2, <1>3

\* What a push sends is a payload.
LEMMA RequestType ==
    ASSUME TypeOK, NEW c \in Clones, NEW f \in BOOLEAN
    PROVE  Request(c, f) \in Payload
PROOF
  <1>1. base[c].seq \in Nat /\ disk[c] \in Files /\ edited[c] \in SUBSET Paths
    BY DEF TypeOK, SyncBaseline
  <1>. QED
    BY <1>1 DEF Request, Payload

\* Init has the types.
LEMMA TypeInit == Init => TypeOK
PROOF
  <1>. SUFFICES ASSUME Init PROVE TypeOK
    OBVIOUS
  <1>1. NoPayload \in Payload /\ NoBaseline \in SyncBaseline
    BY DEF NoPayload, Payload, NoBaseline, SyncBaseline, NoFiles, Files
  <1>2. feed \in Seq(Payload) /\ HeadSeq = 0
    BY DEF Init, HeadSeq
  <1>. QED
    BY <1>1, <1>2, BoundsAssumption DEF Init, TypeOK, Steps

\* Every step keeps them.
LEMMA TypeStep == TypeOK /\ [Next]_vars => TypeOK'
PROOF
  <1>. SUFFICES ASSUME TypeOK, [Next]_vars PROVE TypeOK'
    OBVIOUS
  <1>. HeadSeq \in Nat
    BY DEF TypeOK, HeadSeq
  <1>1. ASSUME NEW c \in Clones, NEW f \in ForceFlags, NEW r \in {0, PackRetries}, BeginPush(c, f, r)
        PROVE  TypeOK'
    <2>1. Request(c, f) \in Payload
      BY RequestType, ForceAssumption
    <2>2. r \in 0..PackRetries /\ f \in BOOLEAN
      BY BoundsAssumption, ForceAssumption
    <2>. QED
      BY <1>1, <2>1, <2>2 DEF TypeOK, BeginPush, Goto, Steps, clone, HeadSeq
  <1>2. ASSUME NEW c \in Clones, Retry(c)
        PROVE  TypeOK'
    <2>1. retries[c] - 1 \in 0..PackRetries
      BY <1>2, BoundsAssumption DEF Retry, TypeOK
    <2>. QED
      BY <1>2, <2>1 DEF TypeOK, Retry, clone, HeadSeq
  <1>3. ASSUME NEW c \in Clones, Halt(c), UNCHANGED <<feed, edited>>,
               abandoned' \subseteq abandoned \cup {payload[c]},
               UNCHANGED clone, spent' \in [edits : Nat, failures : Nat]
        PROVE  TypeOK'
    <2>1. /\ feed' \in Seq(Payload) /\ edited' \in [Clones -> SUBSET Paths]
          /\ abandoned' \subseteq Payload
          /\ disk' \in [Clones -> Files] /\ base' \in [Clones -> SyncBaseline]
      BY <1>3 DEF TypeOK, clone
    <2>. QED
      BY <1>3, <2>1, HaltTypes DEF TypeOK
  <1>4. ASSUME NEW c \in Clones, WriteBaseline(c)
        PROVE  TypeOK'
    <2>1. [saved |-> TRUE, seq |-> goal[c], files |-> payload[c].files] \in SyncBaseline
      BY DEF TypeOK, SyncBaseline, Payload
    <2>2. base' \in [Clones -> SyncBaseline]
      BY <1>4, <2>1 DEF TypeOK, WriteBaseline
    <2>. QED
      BY <1>4, <2>2, HaltTypes DEF TypeOK, WriteBaseline
  <1>5. ASSUME NEW c \in Clones, HubCommit(c)
        PROVE  TypeOK'
    <2>1. payload[c] \in Payload
      BY DEF TypeOK
    <2>2. /\ feed' \in Seq(Payload)
          /\ HeadSeq' = HeadSeq + 1
      BY <1>5, <2>1, FeedGrows DEF TypeOK, HubCommit
    <2>3. /\ goal' \in [Clones -> Nat]
          /\ \A x \in Clones : goal'[x] \in 0..HeadSeq'
      BY <1>5, <2>2 DEF TypeOK, HubCommit
    <2>. QED
      BY <1>5, <2>2, <2>3 DEF TypeOK, HubCommit, clone
  <1>6. ASSUME NEW c \in Clones, HubRefuse(c) \/ HubBusy(c)
        PROVE  TypeOK'
    BY <1>6 DEF TypeOK, HubRefuse, HubBusy, clone, HeadSeq
  <1>7. ASSUME NEW q \in abandoned, HubCommitAbandoned(q)
        PROVE  TypeOK'
    <2>1. q \in Payload
      BY DEF TypeOK
    <2>2. /\ feed' \in Seq(Payload)
          /\ HeadSeq' = HeadSeq + 1
      BY <1>7, <2>1, FeedGrows DEF TypeOK, HubCommitAbandoned
    <2>3. \A x \in Clones : goal'[x] \in 0..HeadSeq'
      BY <1>7, <2>2 DEF TypeOK, HubCommitAbandoned, command
    <2>. QED
      BY <1>7, <2>2, <2>3 DEF TypeOK, HubCommitAbandoned, clone, command
  <1>8. ASSUME NEW c \in Clones, NEW f \in ForceFlags, BeginPull(c, f)
        PROVE  TypeOK'
    BY <1>8, ForceAssumption DEF TypeOK, BeginPull, Goto, Steps, clone, HeadSeq
  <1>9. ASSUME NEW c \in Clones, HeadAdvanced(c) \/ Fetch(c) \/ BeginClone(c)
        PROVE  TypeOK'
    <2>1. HeadSeq' = HeadSeq
      BY <1>9 DEF HeadAdvanced, Fetch, BeginClone, HeadSeq
    <2>2. CASE HeadAdvanced(c)
      BY <2>1, <2>2 DEF TypeOK, HeadAdvanced, Goto, Steps, clone
    <2>3. CASE Fetch(c) \/ BeginClone(c)
      BY <2>1, <2>3 DEF TypeOK, Fetch, BeginClone, Goto, Steps, clone
    <2>. QED
      BY <1>9, <2>2, <2>3
  <1>10. ASSUME NEW c \in Clones, Apply(c)
         PROVE  TypeOK'
    <2>1. Hosted(goal[c]) \in Files
      BY HostedFiles DEF TypeOK
    <2>2. [saved |-> TRUE, seq |-> goal[c], files |-> Hosted(goal[c])] \in SyncBaseline
      BY <2>1 DEF TypeOK, SyncBaseline
    <2>3. /\ disk' \in [Clones -> Files] /\ base' \in [Clones -> SyncBaseline]
          /\ edited' \in [Clones -> SUBSET Paths]
      BY <1>10, <2>1, <2>2 DEF TypeOK, Apply
    <2>4. Halt(c) /\ UNCHANGED <<feed, abandoned, spent>>
      BY <1>10 DEF Apply
    <2>. QED
      BY <2>3, <2>4, HaltTypes DEF TypeOK
  <1>11. ASSUME NEW c \in Clones, NEW p \in Paths, NEW d \in Data \cup {Absent}, Edit(c, p, d)
         PROVE  TypeOK'
    <2>1. [disk[c] EXCEPT ![p] = d] \in Files
      BY DEF TypeOK, Files
    <2>2. disk' \in [Clones -> Files]
      BY <1>11, <2>1 DEF TypeOK, Edit
    <2>3. spent' \in [edits : Nat, failures : Nat]
      BY <1>11, SpendTypes DEF Edit
    <2>4. /\ edited' \in [Clones -> SUBSET Paths]
          /\ late' \in [Clones -> SUBSET Paths]
      BY <1>11 DEF TypeOK, Edit
    <2>. QED
      BY <1>11, <2>2, <2>3, <2>4 DEF TypeOK, Edit, HeadSeq
  <1>12. ASSUME NEW c \in Clones, GiveUp(c)
         PROVE  TypeOK'
    <2>1. spent' \in [edits : Nat, failures : Nat]
      BY <1>12, SpendTypes DEF GiveUp
    <2>2. abandoned' \subseteq abandoned \cup {payload[c]}
      BY <1>12 DEF GiveUp
    <2>. QED
      BY <1>12, <2>1, <2>2, <1>3 DEF GiveUp
  <1>13. ASSUME NEW c \in Clones,
                PushFails(c) \/ HeadCurrent(c) \/ FetchStale(c) \/ CloneBlocked(c)
         PROVE  TypeOK'
    <2>1. /\ Halt(c)
          /\ UNCHANGED <<feed, edited, clone, spent, abandoned>>
      BY <1>13 DEF PushFails, HeadCurrent, FetchStale, CloneBlocked
    <2>. QED
      BY <2>1, <1>3 DEF TypeOK
  <1>14. CASE UNCHANGED vars
    BY <1>14 DEF TypeOK, vars, clone, command, HeadSeq
  <1>. QED
    BY <1>1, <1>2, <1>4, <1>5, <1>6, <1>7, <1>8, <1>9, <1>10, <1>11, <1>12, <1>13, <1>14
       DEF Next, User, Command, Push, PullOrClone, Hub

\* Every variable keeps its type, and no command is ever told of a snapshot the hub
\* does not have.
THEOREM TypeCorrect == Spec => []TypeOK
PROOF
  <1>. QED
    BY TypeInit, TypeStep, PTL DEF Spec

----------------------------------------------------------------------------
(* The invariant is inductive *)

\* A commit the hub accepts changes nothing of others, and leaves every request and
\* every baseline behind the head.
LEMMA CommitKeeps ==
    ASSUME IInv, NEW q \in Payload, Cautious(q), Accepts(q), feed' = Append(feed, q)
    PROVE  /\ NoSilentRevert'
           /\ \A r \in Payload : Cautious(r) => Cautious(r)'
           /\ UNCHANGED base => BaselineIsHosted' /\ AtTheHead'
           /\ \A c \in Clones : goal[c] \in 1..HeadSeq => feed'[goal[c]] = feed[goal[c]]
PROOF
  <1>1. /\ HeadSeq \in Nat
        /\ HeadSeq' = HeadSeq + 1
        /\ \A n \in 1..HeadSeq : feed'[n] = feed[n]
        /\ feed'[HeadSeq + 1] = q
        /\ \A n \in 0..HeadSeq : Hosted(n)' = Hosted(n)
        /\ Hosted(HeadSeq)' = q.files
    BY FeedGrows DEF IInv, TypeOK
  <1>2. NoSilentRevert'
    <2>. SUFFICES ASSUME NEW n \in 1..HeadSeq', feed'[n].kind = "checked",
                         NEW p \in Paths, Hosted(n)'[p] # Hosted(n - 1)'[p]
                  PROVE  p \in feed'[n].edited
      BY DEF NoSilentRevert, ChangedBy
    <2>1. n - 1 \in 0..HeadSeq
      BY <1>1
    <2>2. Hosted(n - 1)' = Hosted(n - 1)
      BY <1>1, <2>1
    <2>3. CASE n \in 1..HeadSeq
      <3>0. n \in 0..HeadSeq
        BY <1>1, <2>3
      <3>1. Hosted(n)' = Hosted(n)
        BY <1>1, <3>0
      <3>2. feed'[n] = feed[n]
        BY <1>1, <2>3
      <3>. QED
        BY <2>2, <2>3, <3>1, <3>2 DEF IInv, NoSilentRevert, ChangedBy
    <2>4. CASE n = HeadSeq'
      <3>1. n - 1 = HeadSeq
        BY <1>1, <2>4
      <3>2. feed'[n] = q
        BY <1>1, <2>4
      <3>3. Hosted(n)' = q.files
        BY <1>1, <2>4 DEF Hosted
      <3>4. q.kind = "checked" /\ q.expected = HeadSeq
        BY <3>2 DEF Accepts
      <3>5. \A x \in Paths \ q.edited : q.files[x] = Hosted(HeadSeq)[x]
        BY <3>4 DEF Cautious
      <3>. QED
        BY <2>2, <3>1, <3>2, <3>3, <3>5
    <2>5. n \in 1..HeadSeq \/ n = HeadSeq'
      BY <1>1
    <2>. QED
      BY <2>3, <2>4, <2>5
  <1>3. ASSUME NEW r \in Payload, Cautious(r)
        PROVE  Cautious(r)'
    BY <1>1, <1>3 DEF Cautious
  <1>4. ASSUME UNCHANGED base
        PROVE  BaselineIsHosted' /\ AtTheHead'
    <2>1. \A c \in Clones : base[c].saved => base[c].seq \in 0..HeadSeq
      BY DEF IInv, BaselineIsHosted
    <2>2. BaselineIsHosted'
      BY <1>1, <1>4, <2>1 DEF IInv, BaselineIsHosted
    <2>3. AtTheHead'
      BY <1>1, <1>4, <2>1 DEF AtTheHead
    <2>. QED
      BY <2>2, <2>3
  <1>5. \A c \in Clones : goal[c] \in 1..HeadSeq => feed'[goal[c]] = feed[goal[c]]
    BY <1>1
  <1>. QED
    BY <1>2, <1>3, <1>4, <1>5

\* As long as the feed stays, so does what is said of it.
LEMMA SameFeed ==
    ASSUME UNCHANGED feed
    PROVE  /\ HeadSeq' = HeadSeq
           /\ \A n : Hosted(n)' = Hosted(n)
           /\ NoSilentRevert => NoSilentRevert'
           /\ \A q : Cautious(q)' <=> Cautious(q)
           /\ UNCHANGED base /\ BaselineIsHosted => BaselineIsHosted'
PROOF
  <1>1. HeadSeq' = HeadSeq
    BY DEF HeadSeq
  <1>2. ASSUME NEW n PROVE Hosted(n)' = Hosted(n)
    BY DEF Hosted
  <1>3. NoSilentRevert => NoSilentRevert'
    BY <1>1 DEF NoSilentRevert, ChangedBy, Hosted
  <1>4. ASSUME NEW q PROVE Cautious(q)' <=> Cautious(q)
    BY <1>1 DEF Cautious, Hosted
  <1>5. UNCHANGED base /\ BaselineIsHosted => BaselineIsHosted'
    BY <1>1 DEF BaselineIsHosted, Hosted
  <1>. QED
    BY <1>1, <1>2, <1>3, <1>4, <1>5

LEMMA InvInit == Init => IInv
PROOF
  <1>. SUFFICES ASSUME Init PROVE IInv
    OBVIOUS
  <1>1. TypeOK /\ HeadSeq = 0
    BY TypeInit DEF Init, HeadSeq
  <1>2. \A c \in Clones : ~base[c].saved
    BY DEF Init, NoBaseline
  <1>. QED
    BY <1>1, <1>2 DEF IInv, Init, BaselineIsHosted, NoSilentRevert, Requests, Accepted,
                      SentAsRead, AtTheHead, PullsAreClean

\* A command that ends without having written anything: its request may stay behind.
LEMMA HaltKeeps ==
    ASSUME IInv, TypeOK', NEW c \in Clones, Halt(c), UNCHANGED <<feed, disk, base, edited>>,
           abandoned' \subseteq abandoned \cup (IF pc[c] = "wait" THEN {payload[c]} ELSE {})
    PROVE  IInv'
PROOF
  <1>1. HeadSeq' = HeadSeq /\ NoSilentRevert' /\ BaselineIsHosted'
    BY SameFeed DEF IInv
  <1>2. \A x \in Clones \ {c} :
            /\ pc'[x] = pc[x] /\ force'[x] = force[x] /\ payload'[x] = payload[x]
            /\ answer'[x] = answer[x] /\ goal'[x] = goal[x] /\ late'[x] = late[x]
    BY DEF Halt, IInv, TypeOK
  <1>3. pc'[c] = "idle" /\ answer'[c] = "none" /\ late'[c] = {}
    BY DEF Halt, IInv, TypeOK
  <1>4. Requests'
    BY <1>2, <1>3, SameFeed DEF IInv, Requests
  <1>5. Accepted'
    BY <1>1, <1>2, <1>3 DEF IInv, Accepted
  <1>6. SentAsRead'
    BY <1>2, <1>3 DEF IInv, SentAsRead
  <1>7. AtTheHead' /\ PullsAreClean'
    BY <1>1, <1>2, <1>3 DEF IInv, AtTheHead, PullsAreClean
  <1>. QED
    BY <1>1, <1>4, <1>5, <1>6, <1>7 DEF IInv

\* One step per action; what is not named there is not disturbed.
LEMMA InvStep == IInv /\ [Next]_vars => IInv'
PROOF
  <1>. SUFFICES ASSUME IInv, [Next]_vars PROVE IInv'
    OBVIOUS
  <1>. TypeOK'
    BY TypeStep DEF IInv
  <1>. HeadSeq \in Nat
    BY DEF IInv, TypeOK, HeadSeq
  <1>1. ASSUME NEW c \in Clones, NEW f \in ForceFlags, NEW r \in {0, PackRetries}, BeginPush(c, f, r)
        PROVE  IInv'
    <2>1. /\ pc[c] = "idle" /\ pc'[c] = "wait" /\ payload'[c] = Request(c, f)
          /\ \A x \in Clones \ {c} : /\ pc'[x] = pc[x] /\ payload'[x] = payload[x]
                                     /\ force'[x] = force[x]
          /\ UNCHANGED <<feed, abandoned, disk, base, late, answer, goal, edited>>
      BY <1>1 DEF BeginPush, Goto, clone, IInv, TypeOK
    <2>2. HeadSeq' = HeadSeq /\ NoSilentRevert' /\ BaselineIsHosted'
      BY <2>1, SameFeed DEF IInv
    <2>3. Cautious(Request(c, f))
      BY DEF Cautious, Request, IInv, AtTheHead, BaselineIsHosted
    <2>4. Requests'
      BY <2>1, <2>3, SameFeed DEF IInv, Requests
    <2>5. Accepted'
      BY <2>1, <2>2 DEF IInv, Accepted
    <2>6. SentAsRead'
      <3>1. late[c] = {} /\ payload'[c].files = disk[c]
        BY <2>1 DEF IInv, SentAsRead, Request
      <3>. QED
        BY <2>1, <3>1 DEF IInv, SentAsRead
    <2>7. AtTheHead' /\ PullsAreClean'
      BY <2>1, <2>2 DEF IInv, AtTheHead, PullsAreClean
    <2>. QED
      BY <2>2, <2>4, <2>5, <2>6, <2>7 DEF IInv
  <1>2. ASSUME NEW c \in Clones, Retry(c) \/ HubRefuse(c) \/ HubBusy(c)
        PROVE  IInv'
    <2>1. /\ answer'[c] # "ok" /\ \A x \in Clones \ {c} : answer'[x] = answer[x]
          /\ UNCHANGED <<feed, abandoned, disk, base, pc, force, payload, late, goal, edited>>
      BY <1>2 DEF Retry, HubRefuse, HubBusy, clone, IInv, TypeOK
    <2>2. HeadSeq' = HeadSeq /\ NoSilentRevert' /\ BaselineIsHosted'
      BY <2>1, SameFeed DEF IInv
    <2>3. Requests'
      BY <2>1, SameFeed DEF IInv, Requests
    <2>4. Accepted' /\ SentAsRead' /\ AtTheHead' /\ PullsAreClean'
      BY <2>1, <2>2 DEF IInv, Accepted, SentAsRead, AtTheHead, PullsAreClean
    <2>. QED
      BY <2>2, <2>3, <2>4 DEF IInv
  <1>3. ASSUME NEW c \in Clones,
               PushFails(c) \/ HeadCurrent(c) \/ FetchStale(c) \/ CloneBlocked(c) \/ GiveUp(c)
        PROVE  IInv'
    <2>1. /\ Halt(c) /\ UNCHANGED <<feed, disk, base, edited>>
          /\ abandoned' \subseteq abandoned \cup (IF pc[c] = "wait" THEN {payload[c]} ELSE {})
      BY <1>3 DEF PushFails, HeadCurrent, FetchStale, CloneBlocked, GiveUp, clone
    <2>. QED
      BY <2>1, HaltKeeps
  <1>4. ASSUME NEW c \in Clones, WriteBaseline(c)
        PROVE  IInv'
    <2>1. /\ pc[c] = "wait" /\ answer[c] = "ok"
          /\ base'[c] = [saved |-> TRUE, seq |-> goal[c], files |-> payload[c].files]
          /\ pc'[c] = "idle" /\ answer'[c] = "none" /\ late'[c] = {}
          /\ UNCHANGED <<feed, abandoned, disk, edited>>
      BY <1>4 DEF WriteBaseline, Halt, IInv, TypeOK
    <2>2. \A x \in Clones \ {c} :
            /\ pc'[x] = pc[x] /\ force'[x] = force[x] /\ payload'[x] = payload[x]
            /\ answer'[x] = answer[x] /\ goal'[x] = goal[x] /\ late'[x] = late[x]
            /\ base'[x] = base[x]
      BY <1>4 DEF WriteBaseline, Halt, IInv, TypeOK
    <2>3. HeadSeq' = HeadSeq /\ NoSilentRevert'
      BY <2>1, SameFeed DEF IInv
    <2>4. goal[c] \in 1..HeadSeq /\ Hosted(goal[c]) = payload[c].files
      BY <2>1 DEF IInv, Accepted, Hosted
    <2>5. BaselineIsHosted'
      BY <2>1, <2>2, <2>3, <2>4, SameFeed DEF IInv, BaselineIsHosted
    <2>6. Requests'
      BY <2>1, <2>2, SameFeed DEF IInv, Requests
    <2>7. Accepted' /\ SentAsRead' /\ PullsAreClean'
      BY <2>1, <2>2, <2>3 DEF IInv, Accepted, SentAsRead, PullsAreClean
    <2>8. AtTheHead'
      <3>1. \A p \in Paths \ edited[c] : disk[c][p] = payload[c].files[p]
        BY <2>1 DEF IInv, SentAsRead
      <3>. QED
        BY <2>1, <2>2, <2>3, <3>1 DEF IInv, AtTheHead
    <2>. QED
      BY <2>3, <2>5, <2>6, <2>7, <2>8 DEF IInv
  <1>5. ASSUME NEW c \in Clones, HubCommit(c)
        PROVE  IInv'
    <2>1. /\ pc[c] = "wait" /\ answer[c] = "none" /\ goal'[c] = HeadSeq + 1
          /\ edited'[c] = late[c] /\ Accepts(payload[c]) /\ feed' = Append(feed, payload[c])
          /\ UNCHANGED <<abandoned, disk, base, pc, force, payload, late>>
          /\ \A x \in Clones \ {c} : /\ answer'[x] = answer[x] /\ goal'[x] = goal[x]
                                     /\ edited'[x] = edited[x]
      BY <1>5 DEF HubCommit, clone, IInv, TypeOK
    <2>2. payload[c] \in Payload /\ Cautious(payload[c])
      BY <2>1 DEF IInv, TypeOK, Requests
    <2>3. NoSilentRevert' /\ BaselineIsHosted'
      BY <2>1, <2>2, CommitKeeps
    <2>4. Requests'
      <3>1. \A r \in Payload : Cautious(r) => Cautious(r)'
        BY <2>1, <2>2, CommitKeeps
      <3>. QED
        BY <2>1, <3>1 DEF IInv, TypeOK, Requests
    <2>5. HeadSeq' = HeadSeq + 1 /\ feed'[HeadSeq + 1] = payload[c]
      BY <2>1, <2>2, FeedGrows DEF IInv, TypeOK
    <2>6. Accepted'
      <3>1. \A x \in Clones : goal[x] \in 1..HeadSeq => feed'[goal[x]] = feed[goal[x]]
        BY <2>1, <2>2, CommitKeeps
      <3>2. ASSUME NEW x \in Clones, answer'[x] = "ok"
            PROVE  pc'[x] = "wait" /\ goal'[x] \in 1..HeadSeq' /\ feed'[goal'[x]].files = payload'[x].files
        <4>1. CASE x = c
          <5>1. goal'[x] = HeadSeq + 1 /\ goal'[x] \in 1..HeadSeq'
            BY <2>1, <2>5, <4>1
          <5>. QED
            BY <2>1, <2>5, <4>1, <5>1
        <4>2. CASE x # c
          <5>1. /\ pc[x] = "wait" /\ goal[x] \in 1..HeadSeq
                /\ feed[goal[x]].files = payload[x].files
            BY <2>1, <3>2, <4>2 DEF IInv, Accepted
          <5>2. goal'[x] = goal[x] /\ goal[x] \in 1..HeadSeq'
            BY <2>1, <2>5, <4>2, <5>1
          <5>3. feed'[goal[x]] = feed[goal[x]]
            BY <3>1, <5>1
          <5>. QED
            BY <2>1, <5>1, <5>2, <5>3
        <4>. QED
          BY <4>1, <4>2
      <3>. QED
        BY <3>2 DEF Accepted
    <2>7. SentAsRead' /\ PullsAreClean'
      BY <2>1 DEF IInv, SentAsRead, PullsAreClean
    <2>8. AtTheHead'
      BY <2>1, <2>5 DEF IInv, BaselineIsHosted, AtTheHead
    <2>. QED
      BY <2>3, <2>4, <2>6, <2>7, <2>8 DEF IInv
  <1>6. ASSUME NEW q \in abandoned, HubCommitAbandoned(q)
        PROVE  IInv'
    <2>1. /\ Accepts(q) /\ feed' = Append(feed, q) /\ abandoned' \subseteq abandoned
          /\ UNCHANGED <<disk, base, pc, force, payload, late, answer, goal, edited>>
      BY <1>6 DEF HubCommitAbandoned, clone, command
    <2>2. q \in Payload /\ Cautious(q)
      BY DEF IInv, TypeOK, Requests
    <2>3. NoSilentRevert' /\ BaselineIsHosted' /\ AtTheHead'
      BY <2>1, <2>2, CommitKeeps
    <2>4. Requests'
      <3>1. \A r \in Payload : Cautious(r) => Cautious(r)'
        BY <2>1, <2>2, CommitKeeps
      <3>. QED
        BY <2>1, <3>1 DEF IInv, TypeOK, Requests
    <2>5. Accepted'
      <3>1. \A x \in Clones : goal[x] \in 1..HeadSeq => feed'[goal[x]] = feed[goal[x]]
        BY <2>1, <2>2, CommitKeeps
      <3>2. HeadSeq' = HeadSeq + 1
        BY <2>1, <2>2, FeedGrows DEF IInv, TypeOK
      <3>3. ASSUME NEW x \in Clones, answer'[x] = "ok"
            PROVE  pc'[x] = "wait" /\ goal'[x] \in 1..HeadSeq' /\ feed'[goal'[x]].files = payload'[x].files
        <4>1. /\ pc[x] = "wait" /\ goal[x] \in 1..HeadSeq
              /\ feed[goal[x]].files = payload[x].files
          BY <2>1, <3>3 DEF IInv, Accepted
        <4>2. goal[x] \in 1..HeadSeq'
          BY <3>2, <4>1
        <4>3. feed'[goal[x]] = feed[goal[x]]
          BY <3>1, <4>1
        <4>. QED
          BY <2>1, <4>1, <4>2, <4>3
      <3>. QED
        BY <3>3 DEF Accepted
    <2>6. SentAsRead' /\ PullsAreClean'
      BY <2>1 DEF IInv, SentAsRead, PullsAreClean
    <2>. QED
      BY <2>3, <2>4, <2>5, <2>6 DEF IInv
  <1>7. ASSUME NEW c \in Clones,
               \/ \E f \in ForceFlags : BeginPull(c, f)
               \/ HeadAdvanced(c) \/ Fetch(c) \/ BeginClone(c)
        PROVE  IInv'
    <2>1. /\ pc[c] # "wait" /\ pc'[c] \in {"head", "fetch", "apply"}
          /\ \A x \in Clones \ {c} : /\ pc'[x] = pc[x] /\ goal'[x] = goal[x]
                                     /\ force'[x] = force[x]
          /\ UNCHANGED <<feed, abandoned, disk, base, payload, late, answer, edited>>
      BY <1>7 DEF BeginPull, HeadAdvanced, Fetch, BeginClone, Goto, clone, IInv, TypeOK
    <2>2. HeadSeq' = HeadSeq /\ NoSilentRevert' /\ BaselineIsHosted'
      BY <2>1, SameFeed DEF IInv
    <2>3. Requests'
      BY <2>1, SameFeed DEF IInv, Requests
    <2>4. Accepted' /\ SentAsRead' /\ AtTheHead'
      BY <2>1, <2>2 DEF IInv, Accepted, SentAsRead, AtTheHead
    <2>5. base[c].saved /\ ~force'[c] => disk[c] = base[c].files
      BY <1>7 DEF BeginPull, HeadAdvanced, Fetch, BeginClone, Goto, IInv, TypeOK, PullsAreClean
    <2>6. PullsAreClean'
      BY <2>1, <2>5 DEF IInv, PullsAreClean
    <2>. QED
      BY <2>2, <2>3, <2>4, <2>6 DEF IInv
  <1>8. ASSUME NEW c \in Clones, Apply(c)
        PROVE  IInv'
    <2>1. /\ pc[c] = "apply" /\ disk'[c] = Hosted(goal[c]) /\ edited'[c] = {}
          /\ base'[c] = [saved |-> TRUE, seq |-> goal[c], files |-> Hosted(goal[c])]
          /\ pc'[c] = "idle" /\ answer'[c] = "none" /\ late'[c] = {}
          /\ UNCHANGED <<feed, abandoned>>
      BY <1>8 DEF Apply, Halt, IInv, TypeOK
    <2>2. \A x \in Clones \ {c} :
            /\ pc'[x] = pc[x] /\ force'[x] = force[x] /\ payload'[x] = payload[x]
            /\ answer'[x] = answer[x] /\ goal'[x] = goal[x] /\ late'[x] = late[x]
            /\ base'[x] = base[x] /\ disk'[x] = disk[x] /\ edited'[x] = edited[x]
      BY <1>8 DEF Apply, Halt, IInv, TypeOK
    <2>3. HeadSeq' = HeadSeq /\ NoSilentRevert' /\ goal[c] \in 0..HeadSeq
      BY <2>1, SameFeed DEF IInv, TypeOK
    <2>4. BaselineIsHosted'
      BY <2>1, <2>2, <2>3, SameFeed DEF IInv, BaselineIsHosted
    <2>5. Requests'
      BY <2>1, <2>2, SameFeed DEF IInv, Requests
    <2>6. Accepted' /\ SentAsRead' /\ AtTheHead' /\ PullsAreClean'
      BY <2>1, <2>2, <2>3 DEF IInv, Accepted, SentAsRead, AtTheHead, PullsAreClean
    <2>. QED
      BY <2>3, <2>4, <2>5, <2>6 DEF IInv
  <1>9. ASSUME NEW c \in Clones, NEW p \in Paths, NEW d \in Data \cup {Absent}, Edit(c, p, d)
        PROVE  IInv'
    <2>1. /\ pc[c] \in {"head", "fetch", "apply"} => ~base[c].saved
          /\ \A x \in Paths \ {p} : disk'[c][x] = disk[c][x]
          /\ edited'[c] = edited[c] \cup {p}
          /\ late'[c] = IF pc[c] = "wait" THEN late[c] \cup {p} ELSE late[c]
          /\ UNCHANGED <<feed, abandoned, base, pc, force, payload, answer, goal>>
      BY <1>9 DEF Edit, IInv, TypeOK, Files
    <2>2. \A x \in Clones \ {c} :
            disk'[x] = disk[x] /\ edited'[x] = edited[x] /\ late'[x] = late[x]
      BY <1>9 DEF Edit, IInv, TypeOK
    <2>3. HeadSeq' = HeadSeq /\ NoSilentRevert' /\ BaselineIsHosted'
      BY <2>1, SameFeed DEF IInv
    <2>4. Requests'
      BY <2>1, SameFeed DEF IInv, Requests
    <2>5. Accepted' /\ PullsAreClean'
      BY <2>1, <2>2, <2>3 DEF IInv, Accepted, PullsAreClean
    <2>6. SentAsRead'
      BY <2>1, <2>2 DEF IInv, SentAsRead
    <2>7. AtTheHead'
      BY <2>1, <2>2, <2>3 DEF IInv, AtTheHead
    <2>. QED
      BY <2>3, <2>4, <2>5, <2>6, <2>7 DEF IInv
  <1>10. CASE UNCHANGED vars
    <2>1. UNCHANGED <<feed, abandoned, disk, base, pc, force, payload, late, answer, goal, edited>>
      BY <1>10 DEF vars, clone, command
    <2>2. HeadSeq' = HeadSeq /\ NoSilentRevert' /\ BaselineIsHosted'
      BY <2>1, SameFeed DEF IInv
    <2>3. Requests'
      BY <2>1, SameFeed DEF IInv, Requests
    <2>4. Accepted' /\ SentAsRead' /\ AtTheHead' /\ PullsAreClean'
      BY <2>1, <2>2 DEF IInv, Accepted, SentAsRead, AtTheHead, PullsAreClean
    <2>. QED
      BY <2>2, <2>3, <2>4 DEF IInv
  <1>. QED
    BY <1>1, <1>2, <1>3, <1>4, <1>5, <1>6, <1>7, <1>8, <1>9, <1>10
       DEF Next, User, Command, Push, PullOrClone, Hub

\* The inductive invariant: what requests, baselines and stores have to do with the feed.
THEOREM Invariant == Spec => []IInv
PROOF
  <1>. QED
    BY InvInit, InvStep, PTL DEF Spec

\* Whatever a baseline says of a sequence number is what the hub has under it, for any
\* number of clones, lost answers, kills and edits.
THEOREM BaselinesAreHosted == Spec => []BaselineIsHosted
PROOF
  <1>1. IInv => BaselineIsHosted
    BY DEF IInv
  <1>. QED
    BY <1>1, Invariant, PTL

\* A push from a clone with a baseline, executed whenever the hub likes, changes only
\* paths its user edited: the sequence check is enough to protect other clones' commits.
THEOREM ChecksProtectOthers == Spec => []NoSilentRevert
PROOF
  <1>1. IInv => NoSilentRevert
    BY DEF IInv
  <1>. QED
    BY <1>1, Invariant, PTL

\* One unforced step of a clone leaves the bytes the hub never had where they are.
SparesWork ==
    \A c \in Clones :
        (~force[c] /\ spent'.edits = spent.edits)
            => \A p \in Unpublished(c) : disk'[c][p] = disk[c][p]

\* No unforced command destroys bytes the hub never had.
THEOREM UnforcedSparesWork == Spec => WorkSurvives
PROOF
  <1>1. IInv /\ [Next]_vars => SparesWork
    <2>. SUFFICES ASSUME IInv, [Next]_vars, NEW c \in Clones, ~force[c],
                         spent'.edits = spent.edits, NEW p \in Unpublished(c)
                  PROVE  disk'[c][p] = disk[c][p]
      BY DEF SparesWork
    <2>1. CASE disk' = disk
      BY <2>1
    <2>2. ASSUME NEW x \in Clones, Apply(x)
          PROVE  disk'[c][p] = disk[c][p]
      <3>1. CASE x # c
        BY <2>2, <3>1 DEF Apply, IInv, TypeOK
      <3>2. CASE x = c /\ ~base[c].saved
        BY <2>2, <3>2 DEF Apply, Unpublished, NoFiles
      <3>3. CASE x = c /\ base[c].saved
        <4>1. disk[c] = Hosted(base[c].seq) /\ base[c].seq \in 0..HeadSeq
          BY <2>2, <3>3 DEF Apply, IInv, PullsAreClean, BaselineIsHosted
        <4>2. base[c].seq \notin 1..HeadSeq
          BY <4>1 DEF Unpublished
        <4>3. HeadSeq \in Nat
          BY DEF HeadSeq, IInv, TypeOK
        <4>4. base[c].seq = 0
          BY <4>1, <4>2, <4>3
        <4>. QED
          BY <4>1, <4>4 DEF Unpublished, Hosted, NoFiles
      <3>. QED
        BY <3>1, <3>2, <3>3
    <2>3. ASSUME NEW x \in Clones, NEW y \in Paths, NEW d \in Data \cup {Absent}, Edit(x, y, d)
          PROVE  FALSE
      <3>1. spent'.edits = spent.edits + 1 /\ spent.edits \in Nat
        BY <2>3 DEF Edit, Spend, IInv, TypeOK
      <3>. QED
        BY <3>1
    <2>4. \/ disk' = disk
          \/ \E x \in Clones : Apply(x)
          \/ \E x \in Clones, y \in Paths, d \in Data \cup {Absent} : Edit(x, y, d)
      BY DEF Next, User, Command, Push, PullOrClone, Hub, BeginPush, BeginPull, BeginClone,
             Retry, PushFails, WriteBaseline, HeadCurrent, HeadAdvanced, FetchStale, Fetch,
             CloneBlocked, HubCommit, HubRefuse, HubBusy, HubCommitAbandoned, GiveUp,
             clone, vars
    <2>. QED
      BY <2>1, <2>2, <2>3, <2>4
  <1>2. IInv /\ [Next]_vars => [SparesWork]_vars
    BY <1>1
  <1>. QED
    BY <1>2, Invariant, PTL DEF Spec, WorkSurvives, SparesWork

=============================================================================
