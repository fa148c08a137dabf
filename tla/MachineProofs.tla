---------------------------- MODULE MachineProofs ----------------------------
(* Proofs about the protocols of a machine: only whole and approved releases   *)
(* get the program's name and a copy of it is always left; every request of    *)
(* an MCP client is answered in its order and starts one run at most; and, by  *)
(* the theorems of SignInProofs, sessions are accounted for and the user's     *)
(* keys spared.                                                                *)
EXTENDS Machine, TLAPS

----------------------------------------------------------------------------
(* The self-update: what holds at every step *)

Build == [v : 1..Newest, kind : Kinds \cup {"partial"}]
Count == [kills : Nat, failures : Nat, days : Nat, full : BOOLEAN, stranded : BOOLEAN]

\* The types again, with the functions' domains.
Typed ==
    /\ os \in Platforms /\ latest \in 1..Newest
    /\ built \in Seq(Build) /\ 1 \in Files
    /\ exe \in Files \cup {None}
    /\ aside \in [Procs -> Files \cup {None}] /\ staged \in [Procs -> Files \cup {None}]
    /\ checked \in BOOLEAN
    /\ pc \in [Procs -> Steps] /\ image \in [Procs -> Files]
    /\ want \in [Procs -> 1..Newest] /\ got \in [Procs -> Kinds]
    /\ spent \in Count
    /\ exe = None => os = "windows"

\* What is about to get the program's name is whole and approved, and there.
Ready ==
    \A p \in Procs :
        /\ pc[p] \in {"write", "aside", "swap"} => staged[p] # None /\ Approved(got[p])
        /\ pc[p] \in {"aside", "swap"} => built[staged[p]].kind = "genuine"
        /\ pc[p] \in {"aside", "drop"} => os = "windows"

\* Windows: the file a program runs from keeps a name.
Homed ==
    os = "windows" =>
        \A p \in Procs : pc[p] # "off" => image[p] = exe \/ \E q \in Procs : aside[q] = image[p]

UpdateInv == Typed /\ OnlyApproved /\ Ready /\ Homed /\ LastCopySurvives

----------------------------------------------------------------------------
(* Typing *)

LEMMA TypeInit == Init => Typed
<1> SUFFICES ASSUME Init PROVE Typed
  OBVIOUS
<1>1. [v |-> 1, kind |-> "genuine"] \in Build
  BY SelfUpdateAssumption DEF Build, Kinds
<1>2. built \in Seq(Build) /\ Len(built) = 1
  BY <1>1 DEF Init
<1>3. 1 \in Files
  BY <1>2 DEF Files
<1>4. spent \in Count
  BY DEF Init, Count
<1> QED
  <2>1. 1 \in 1..Newest
    BY SelfUpdateAssumption
  <2>2. want \in [Procs -> 1..Newest] /\ latest \in 1..Newest
    BY <2>1 DEF Init
  <2>3. pc \in [Procs -> Steps] /\ got \in [Procs -> Kinds] /\ image \in [Procs -> Files]
    BY <1>3 DEF Init, Steps, Kinds
  <2>4. exe # None
    BY SelfUpdateAssumption DEF Init
  <2> QED
    BY <1>2, <1>3, <1>4, <2>2, <2>3, <2>4 DEF Init, Typed

LEMMA TypedIsTypeOK == Typed => TypeOK
<1> SUFFICES ASSUME Typed PROVE TypeOK
  OBVIOUS
<1>1. \A f \in Files : built[f] \in [v : 1..Newest, kind : Kinds \cup {"partial"}]
  <2>1. built \in [1..Len(built) -> Build]
    BY DEF Typed
  <2> QED
    BY <2>1 DEF Build, Files
<1>2. spent \in [kills : Nat, failures : Nat, days : Nat, full : BOOLEAN,
                stranded : BOOLEAN]
  BY DEF Typed, Count
<1> QED
  BY <1>1, <1>2 DEF Typed, TypeOK

LEMMA SameFiles == UNCHANGED built => Files' = Files
BY DEF Files

\* A file that is made is a new one, and the others stay what they are.
LEMMA NewFile ==
    ASSUME Typed, NEW b \in Build, built' = Append(built, b)
    PROVE  /\ built' \in Seq(Build) /\ Len(built') \in Files' /\ Files \subseteq Files'
           /\ \A f \in Files : built'[f] = built[f]
BY DEF Typed, Files

\* Writing it to the end changes what it is, and no other.
LEMMA WrittenFile ==
    ASSUME Typed, NEW f \in Files, NEW kind \in Kinds, built' = [built EXCEPT ![f].kind = kind]
    PROVE  /\ built' \in Seq(Build) /\ Files' = Files
           /\ built'[f].kind = kind
           /\ \A g \in Files \ {f} : built'[g] = built[g]
<1>1. built \in [1..Len(built) -> Build] /\ Len(built) \in Nat /\ f \in 1..Len(built)
  BY DEF Typed, Files
<1>2. built[f] \in Build
  BY <1>1
<1>3. [built[f] EXCEPT !.kind = kind] \in Build /\ [built[f] EXCEPT !.kind = kind].kind = kind
  BY <1>2 DEF Build
<1>4. built' = [built EXCEPT ![f] = [built[f] EXCEPT !.kind = kind]]
  OBVIOUS
<1>5. built' \in [1..Len(built) -> Build] /\ Len(built') = Len(built)
  BY <1>1, <1>3, <1>4
<1> QED
  BY <1>1, <1>3, <1>4, <1>5 DEF Files

LEMMA Spending ==
    ASSUME Typed
    PROVE  /\ Spend("kills") \/ Spend("failures") => spent' \in Count
           /\ Spend("kills") => spent'.kills = spent.kills + 1 /\ spent'.stranded = spent.stranded
           /\ Spend("failures") => spent'.kills = spent.kills /\ spent'.stranded = spent.stranded
           /\ \A bool \in BOOLEAN : [spent EXCEPT !.full = bool] \in Count
           /\ \A bool \in BOOLEAN : [spent EXCEPT !.failures = @ + 1, !.stranded = bool] \in Count
           /\ \A n \in Nat : [spent EXCEPT !.days = n] \in Count
<1>1. spent = [kills |-> spent.kills, failures |-> spent.failures, days |-> spent.days,
               full |-> spent.full, stranded |-> spent.stranded] /\ spent \in Count
  BY DEF Typed, Count
<1>2. spent.kills + 1 \in Nat /\ spent.failures + 1 \in Nat
  BY <1>1 DEF Count
<1> QED
  BY <1>1, <1>2 DEF Spend, Count

LEMMA Moving ==
    ASSUME Typed, NEW p \in Procs, Leave(p) \/ (\E step \in Steps : Go(p, step))
    PROVE  /\ pc' \in [Procs -> Steps] /\ image' \in [Procs -> Files]
           /\ want' \in [Procs -> 1..Newest] /\ got' \in [Procs -> Kinds]
<1>1. 1 \in 1..Newest /\ "off" \in Steps /\ "genuine" \in Kinds
  BY SelfUpdateAssumption DEF Steps, Kinds
<1> QED
  BY ZenonT(30), <1>1 DEF Typed, Leave, Go, Put

LEMMA TypeStep == Typed /\ Ready /\ [Next]_vars => Typed'
<1> SUFFICES ASSUME Typed, Ready, [Next]_vars PROVE Typed'
  OBVIOUS
<1> USE SelfUpdateAssumption, SameFiles DEF Typed, Steps, Kinds, Go, Leave, Put, names
<1>1. ASSUME NEW p \in Procs,
             Launch(p) \/ Command(p) \/ CmdUpdate(p) \/ (\E kind \in Kinds : Download(p, kind))
               \/ RenameInFails(p) \/ Fails(p) \/ Kill(p)
      PROVE  Typed'
  <2>1. CASE CleanupStaleSwaps(p)
    BY <2>1 DEF CleanupStaleSwaps
  <2>2. CASE MaybeAutoUpdate(p)
    <3>1. Leave(p) \/ (\E step \in Steps : Go(p, step))
      BY <2>2 DEF MaybeAutoUpdate
    <3> QED
      BY <2>2, <3>1, Moving DEF MaybeAutoUpdate
  <2>3. CASE CmdUpdate(p)
    BY <2>3 DEF CmdUpdate
  <2>4. CASE Recheck(p)
    <3>1. Leave(p) \/ (\E step \in Steps : Go(p, step))
      BY <2>4 DEF Recheck
    <3> QED
      BY <2>4, <3>1, Moving DEF Recheck
  <2>5. CASE Stamp(p)
    BY <2>5 DEF Stamp
  <2>6. CASE FetchVersions(p)
    <3>1. CASE VERSION(p) < latest
      <4>1. want' = Put(want, p, latest) /\ pc' = Put(pc, p, "download")
        BY <2>6, <3>1 DEF FetchVersions
      <4>2. want' \in [Procs -> 1..Newest]
        BY <4>1
      <4>3. pc' \in [Procs -> Steps]
        BY <4>1 DEF Steps
      <4> QED
        BY <2>6, <3>1, <4>2, <4>3 DEF FetchVersions
    <3>2. CASE ~(VERSION(p) < latest)
      BY <2>6, <3>2, Moving DEF FetchVersions
    <3> QED
      BY <3>1, <3>2
  <2>7. CASE Refuse(p)
    BY <2>7, Moving, Spending DEF Refuse, Approved
  <2>20. CASE Astray(p)
    BY <2>20, Moving DEF Astray
  <2>8. CASE Swap(p)
    BY <2>8 DEF Swap, Ready
  <2>9. CASE RenameAside(p)
    BY <2>9 DEF RenameAside, Ready
  <2>10. CASE RenameAsideFails(p)
    BY <2>10 DEF RenameAsideFails
  <2>11. CASE RenameIn(p)
    BY <2>11 DEF RenameIn, Blocked, Ready
  <2>12. CASE RenameInFails(p)
    <3>1. spent' \in Count
      BY <2>12, Spending DEF RenameInFails, RollBack
    <3>2. /\ exe' \in Files \cup {None} /\ (exe' = None => os = "windows")
          /\ aside' \in [Procs -> Files \cup {None}]
      BY <2>12 DEF RenameInFails, RollBack
    <3>3. staged' \in [Procs -> Files \cup {None}]
      BY <2>12 DEF RenameInFails
    <3> QED
      BY <2>12, <3>1, <3>2, <3>3, Moving DEF RenameInFails
  <2>13. CASE DropAside(p)
    BY <2>13 DEF DropAside
  <2>14. CASE Fails(p)
    <3>1. staged' \in [Procs -> Files \cup {None}]
      BY <2>14 DEF Fails
    <3>2. spent' \in Count
      BY <2>14, Spending DEF Fails
    <3> QED
      BY <2>14, <3>1, <3>2, Moving DEF Fails
  <2>15. CASE Kill(p)
    BY <2>15, Moving, Spending DEF Kill
  <2>16. CASE Launch(p)
    BY <2>16 DEF Launch
  <2>17. ASSUME NEW kind \in Kinds, Download(p, kind) PROVE Typed'
    BY <2>17, Spending DEF Download
  <2>18. CASE WriteStaged(p)
    BY <2>18, NewFile DEF WriteStaged, Build
  <2>19. CASE Written(p)
    BY <2>19, WrittenFile DEF Written, Ready
  <2> QED
    BY <1>1, <2>1, <2>2, <2>3, <2>4, <2>5, <2>6, <2>7, <2>8, <2>9, <2>10, <2>11, <2>12, <2>13,
       <2>14, <2>15, <2>16, <2>17, <2>18, <2>19, <2>20 DEF Command
<1>2. CASE Release
  BY <1>2 DEF Release
<1>3. CASE NextDay
  <2>1. PICK n \in Nat : spent' = [spent EXCEPT !.days = n]
    <3>1. spent.days \in Nat
      BY DEF Count
    <3>2. CASE spent.days < MaxDays
      <4>1. spent' = [spent EXCEPT !.days = spent.days + 1] /\ spent.days + 1 \in Nat
        BY <1>3, <3>1, <3>2 DEF NextDay
      <4> QED
        BY <4>1
    <3>3. CASE ~(spent.days < MaxDays)
      <4>1. spent' = [spent EXCEPT !.days = spent.days]
        BY <1>3, <3>3 DEF NextDay
      <4> QED
        BY <3>1, <4>1
    <3> QED
      BY <3>2, <3>3
  <2>2. spent' \in Count
    BY <2>1, Spending
  <2> QED
    BY <1>3, <2>2 DEF NextDay
<1>4. CASE UNCHANGED vars
  BY <1>4 DEF vars
<1> QED
  BY <1>1, <1>2, <1>3, <1>4 DEF Next

----------------------------------------------------------------------------
(* The invariant *)

LEMMA UpdateInit == Init => UpdateInv
<1> SUFFICES ASSUME Init PROVE UpdateInv
  OBVIOUS
<1>1. Typed
  BY TypeInit
<1>2. exe # None
  BY SelfUpdateAssumption DEF Init
<1> QED
  BY <1>1, <1>2 DEF Init, UpdateInv, OnlyApproved, Ready, Homed, LastCopySurvives

\* What has been approved as a whole stays so.
LEMMA GenuineStays ==
    ASSUME UpdateInv, [Next]_vars, NEW f \in Files, built[f].kind = "genuine"
    PROVE  f \in Files' /\ built'[f].kind = "genuine"
<1>1. CASE UNCHANGED built
  BY <1>1, SameFiles
<1>2. ASSUME NEW p \in Procs, WriteStaged(p)
      PROVE  f \in Files' /\ built'[f].kind = "genuine"
  <2>1. [v |-> want[p], kind |-> "partial"] \in Build
    BY DEF UpdateInv, Typed, Build
  <2> QED
    BY <1>2, <2>1, NewFile DEF UpdateInv, WriteStaged
<1>3. ASSUME NEW p \in Procs, Written(p)
      PROVE  f \in Files' /\ built'[f].kind = "genuine"
  <2>1. staged[p] \in Files /\ got[p] \in Kinds /\ got[p] = "genuine"
    BY <1>3 DEF UpdateInv, Written, Typed, Ready, Approved, Kinds
  <2> QED
    BY <1>3, <2>1, WrittenFile DEF UpdateInv, Written
<1> QED
  BY <1>1, <1>2, <1>3
     DEF Next, vars, Launch, Command, CleanupStaleSwaps, MaybeAutoUpdate, Recheck, Stamp,
         FetchVersions, Download, Astray, Refuse, Swap, RenameAside, RenameAsideFails, RenameIn, DropAside,
         CmdUpdate, RenameInFails, RollBack, Fails, Kill, Release, NextDay

\* A command that leaves the program and what is parked alone, and is not about to change
\* them.
LEMMA QuietStep ==
    ASSUME UpdateInv, Typed', NEW p \in Procs,
           UNCHANGED <<os, built, exe, aside>>,
           \A q \in Procs \ {p} : /\ pc'[q] = pc[q] /\ image'[q] = image[q]
                                  /\ staged'[q] = staged[q] /\ got'[q] = got[q],
           pc'[p] \notin {"write", "aside", "swap", "drop"},
           pc'[p] # "off" => pc[p] # "off" /\ image'[p] = image[p],
           pc[p] = "swap" => exe # None \/ spent'.kills > 0,
           spent.kills > 0 => spent'.kills > 0, spent.stranded => spent'.stranded
    PROVE  UpdateInv'
<1>1. Ready'
  BY DEF UpdateInv, Ready
<1>2. Homed'
  BY DEF UpdateInv, Homed
<1>3. OnlyApproved'
  BY DEF UpdateInv, OnlyApproved
<1>4. LastCopySurvives'
  BY DEF UpdateInv, LastCopySurvives
<1> QED
  BY <1>1, <1>2, <1>3, <1>4 DEF UpdateInv

LEMMA LeavingPc ==
    ASSUME Typed, NEW p \in Procs, Leave(p)
    PROVE  /\ pc'[p] = "off"
           /\ \A q \in Procs \ {p} : pc'[q] = pc[q] /\ image'[q] = image[q] /\ got'[q] = got[q]
BY DEF Typed, Leave, Put

LEMMA GoingPc ==
    ASSUME Typed, NEW p \in Procs, NEW step, Go(p, step)
    PROVE  /\ pc'[p] = step /\ UNCHANGED <<image, got>>
           /\ \A q \in Procs \ {p} : pc'[q] = pc[q]
BY DEF Typed, Go

\* Most steps are of that kind.
LEMMA QuietActions ==
    ASSUME UpdateInv, Typed', NEW p \in Procs,
           \/ MaybeAutoUpdate(p) \/ CmdUpdate(p) \/ Recheck(p) \/ Stamp(p) \/ FetchVersions(p)
           \/ Astray(p) \/ Refuse(p) \/ Fails(p) \/ Kill(p) \/ \E kind \in Kinds : Download(p, kind)
    PROVE  UpdateInv'
<1>1. Typed /\ Ready
  BY DEF UpdateInv
<1>2. /\ spent.kills \in Nat /\ spent.failures \in Nat
      /\ \A bool \in BOOLEAN : /\ [spent EXCEPT !.full = bool].kills = spent.kills
                              /\ [spent EXCEPT !.full = bool].stranded = spent.stranded
  BY <1>1 DEF Typed, Count
<1>3. /\ UNCHANGED <<os, built, exe, aside>>
      /\ \A q \in Procs \ {p} : staged'[q] = staged[q]
  BY <1>1 DEF MaybeAutoUpdate, CmdUpdate, Recheck, Stamp, FetchVersions, Astray, Refuse, Fails, Kill,
     Download, names, Typed, Put
<1>4. pc[p] = "swap" => exe # None \/ spent'.kills > 0
  <2>1. CASE Kill(p)
    <3>1. Spend("kills")
      BY <2>1 DEF Kill
    <3>2. spent'.kills = spent.kills + 1
      BY <1>1, <3>1, Spending
    <3> QED
      BY <1>2, <3>2
  <2>2. CASE Fails(p)
    BY <1>1, <2>2 DEF Fails, Typed
  <2>3. CASE ~Kill(p) /\ ~Fails(p)
    BY <2>3 DEF MaybeAutoUpdate, CmdUpdate, Recheck, Stamp, FetchVersions, Astray, Refuse,
         Download
  <2> QED
    BY <2>1, <2>2, <2>3
<1>5. spent'.kills >= spent.kills /\ spent'.stranded = spent.stranded
  <2>1. CASE Kill(p)
    <3>1. Spend("kills")
      BY <2>1 DEF Kill
    <3>2. spent'.kills = spent.kills + 1 /\ spent'.stranded = spent.stranded
      BY <1>1, <3>1, Spending
    <3> QED
      BY <1>2, <3>2
  <2>2. CASE Fails(p) \/ \E kind \in Kinds : Download(p, kind)
    <3>1. Spend("failures") \/ UNCHANGED spent
      BY <2>2 DEF Fails, Download
    <3>2. spent'.kills = spent.kills /\ spent'.stranded = spent.stranded
      BY <1>1, <3>1, Spending
    <3> QED
      BY <1>2, <3>2
  <2>3. CASE Refuse(p)
    <3>1. PICK bool \in BOOLEAN : spent' = [spent EXCEPT !.full = bool]
      BY <2>3 DEF Refuse
    <3> QED
      BY <1>2, <3>1
  <2>4. CASE UNCHANGED spent
    BY <1>2, <2>4
  <2> QED
    BY <2>1, <2>2, <2>3, <2>4 DEF MaybeAutoUpdate, CmdUpdate, Recheck, Stamp, FetchVersions,
       Astray
<1>6. Leave(p) \/ (pc[p] # "off" /\ UNCHANGED image)
  <2>1. MaybeAutoUpdate(p) => Leave(p) \/ (pc[p] # "off" /\ UNCHANGED image)
    BY DEF MaybeAutoUpdate, Go
  <2>2. Recheck(p) => Leave(p) \/ (pc[p] # "off" /\ UNCHANGED image)
    BY DEF Recheck, Go
  <2>3. FetchVersions(p) => Leave(p) \/ (pc[p] # "off" /\ UNCHANGED image)
    BY DEF FetchVersions
  <2>4. CmdUpdate(p) \/ Stamp(p) \/ (\E kind \in Kinds : Download(p, kind))
          => pc[p] # "off" /\ UNCHANGED image
    BY DEF CmdUpdate, Stamp, Download, Go
  <2>5. Astray(p) \/ Refuse(p) \/ Fails(p) \/ Kill(p) => Leave(p)
    BY DEF Astray, Refuse, Fails, Kill
  <2> QED
    BY <2>1, <2>2, <2>3, <2>4, <2>5
<1>7. /\ pc'[p] \in {"off", "recheck", "fetch", "stamp", "download", "verify"}
      /\ \A q \in Procs \ {p} : pc'[q] = pc[q]
  BY <1>1 DEF MaybeAutoUpdate, CmdUpdate, Recheck, Stamp, FetchVersions, Astray, Refuse, Fails, Kill,
     Download,
     Go, Leave, Put, Typed
<1>8. \A q \in Procs \ {p} : image'[q] = image[q] /\ got'[q] = got[q]
  BY <1>1 DEF MaybeAutoUpdate, CmdUpdate, Recheck, Stamp, FetchVersions, Astray, Refuse, Fails, Kill,
     Download,
     Go, Leave, Put, Typed
<1>9. pc'[p] # "off" => pc[p] # "off" /\ image'[p] = image[p]
  BY <1>1, <1>6, LeavingPc
<1> QED
  <2>1. /\ spent.kills > 0 => spent'.kills > 0
        /\ spent.stranded => spent'.stranded
    <3>1. spent'.kills \in Nat
      BY DEF Typed, Count
    <3> QED
      BY <1>2, <1>5, <3>1
  <2> QED
    BY <1>3, <1>4, <1>7, <1>8, <1>9, <2>1, QuietStep

LEMMA UpdateStep == UpdateInv /\ [Next]_vars => UpdateInv'
<1> SUFFICES ASSUME UpdateInv, [Next]_vars PROVE UpdateInv'
  OBVIOUS
<1>1. Typed'
  BY TypeStep DEF UpdateInv
<1>2. \A f \in Files : built[f].kind = "genuine" => built'[f].kind = "genuine"
  BY GenuineStays
<1> USE SelfUpdateAssumption
    DEF UpdateInv, Typed, Ready, Homed, OnlyApproved, LastCopySurvives, Locked, Kinds, Go, Leave,
        Put,
        names
<1>3. ASSUME NEW p \in Procs,
             Launch(p) \/ Command(p) \/ CmdUpdate(p) \/ (\E kind \in Kinds : Download(p, kind))
               \/ RenameInFails(p) \/ Fails(p) \/ Kill(p)
      PROVE  UpdateInv'
  <2>1. CASE CleanupStaleSwaps(p)
    <3>1. Ready'
      BY <1>1, <2>1 DEF CleanupStaleSwaps
    <3>2. Homed'
      BY <1>1, <2>1 DEF CleanupStaleSwaps
    <3>3. OnlyApproved'
      BY <1>1, <2>1 DEF CleanupStaleSwaps
    <3>4. LastCopySurvives'
      <4>1. SUFFICES ASSUME exe = None PROVE \E q \in Procs : aside'[q] # None
        BY <1>1, <2>1 DEF CleanupStaleSwaps
      <4>2. image[p] # None
        BY DEF Files
      <4>3. os = "windows" /\ pc[p] # "off"
        BY <2>1, <4>1 DEF CleanupStaleSwaps
      <4>4. PICK q \in Procs : aside[q] = image[p]
        BY <4>1, <4>2, <4>3
      <4> QED
        BY SMTT(30), <2>1, <4>2, <4>3, <4>4 DEF CleanupStaleSwaps
    <3> QED
      BY <1>1, <3>1, <3>2, <3>3, <3>4
  <2>2. CASE MaybeAutoUpdate(p)
    BY <1>1, <2>2, QuietActions
  <2>3. CASE CmdUpdate(p)
    BY <1>1, <2>3, QuietActions
  <2>4. CASE Recheck(p)
    BY <1>1, <2>4, QuietActions
  <2>5. CASE Stamp(p)
    BY <1>1, <2>5, QuietActions
  <2>6. CASE FetchVersions(p)
    BY <1>1, <2>6, QuietActions
  <2>7. CASE Refuse(p)
    BY <1>1, <2>7, QuietActions
  <2>20. CASE Astray(p)
    BY <1>1, <2>20, QuietActions
  <2>8. CASE Swap(p)
    BY <1>1, <2>8 DEF Swap
  <2>9. CASE RenameAside(p)
    BY <1>1, <2>9 DEF RenameAside
  <2>10. CASE RenameAsideFails(p)
    BY <1>1, <2>10 DEF RenameAsideFails
  <2>11. CASE RenameIn(p)
    <3>1. Ready'
      BY <1>1, <2>11 DEF RenameIn, Blocked
    <3>2. Homed'
      <4>1. SUFFICES ASSUME os = "windows", NEW q \in Procs, pc'[q] # "off"
                     PROVE  image'[q] = exe' \/ \E r \in Procs : aside'[r] = image'[q]
        BY <2>11 DEF RenameIn
      <4>2. pc[q] # "off" /\ image'[q] = image[q] /\ aside' = aside
        BY <2>11, <4>1 DEF RenameIn
      <4>3. image[q] # exe
        <5>1. image[q] # None
          BY DEF Files
        <5> QED
          BY <2>11, <4>2, <5>1 DEF RenameIn, Blocked
      <4> QED
        BY <4>1, <4>2, <4>3
    <3>3. OnlyApproved'
      BY <1>1, <2>11 DEF RenameIn, Blocked
    <3>4. LastCopySurvives'
      BY <1>1, <2>11 DEF RenameIn, Blocked
    <3> QED
      BY <1>1, <3>1, <3>2, <3>3, <3>4
  <2>12. CASE RenameInFails(p)
    <3> DEFINE Back == aside[p] # None /\ exe' = aside[p] /\ aside' = Put(aside, p, None)
    <3>1. staged' = Put(staged, p, None) /\ Leave(p) /\ UNCHANGED <<os, built>>
      BY <2>12 DEF RenameInFails
    <3>2. CASE Back /\ ~Blocked
      <4>1. Ready' /\ OnlyApproved' /\ LastCopySurvives'
        BY <1>1, <3>1, <3>2
      <4>2. Homed'
        BY <1>1, <3>1, <3>2 DEF Blocked
      <4> QED
        BY <1>1, <4>1, <4>2
    <3>3. CASE UNCHANGED <<exe, aside>>
      <4>1. Ready' /\ Homed' /\ OnlyApproved'
        BY <1>1, <3>1, <3>3
      <4>2. LastCopySurvives'
        <5>1. SUFFICES ASSUME exe = None PROVE spent'.stranded
          BY <3>3
        <5>2. ~Blocked
          BY <5>1 DEF Blocked
        <5>3. spent' = [spent EXCEPT !.failures = @ + 1, !.stranded = @ \/ exe = None]
          BY <2>12, <3>3, <5>1, <5>2 DEF RenameInFails, RollBack
        <5> QED
          BY <5>1, <5>3 DEF Count
      <4> QED
        BY <1>1, <4>1, <4>2
    <3> QED
      BY <2>12, <3>2, <3>3 DEF RenameInFails, RollBack
  <2>13. CASE DropAside(p)
    <3>1. Ready'
      BY <1>1, <2>13 DEF DropAside
    <3>2. Homed'
      BY <1>1, <2>13 DEF DropAside
    <3>3. OnlyApproved'
      BY <1>1, <2>13 DEF DropAside
    <3>4. LastCopySurvives'
      <4>1. SUFFICES ASSUME exe = None PROVE \E q \in Procs : aside'[q] # None
        BY <1>1, <2>13 DEF DropAside
      <4>2. image[p] # None
        BY DEF Files
      <4>3. os = "windows" /\ pc[p] # "off"
        BY <2>13, <4>1 DEF DropAside
      <4>4. PICK q \in Procs : aside[q] = image[p]
        BY <4>1, <4>2, <4>3
      <4> QED
        BY <2>13, <4>2, <4>3, <4>4 DEF DropAside
    <3> QED
      BY <1>1, <3>1, <3>2, <3>3, <3>4
  <2>14. CASE Fails(p)
    BY <1>1, <2>14, QuietActions
  <2>15. CASE Kill(p)
    BY <1>1, <2>15, QuietActions
  <2>16. CASE Launch(p)
    BY <1>1, <2>16 DEF Launch
  <2>17. ASSUME NEW kind \in Kinds, Download(p, kind) PROVE UpdateInv'
    BY SMTT(30), <1>1, <2>17, QuietActions
  <2>18. CASE WriteStaged(p)
    <3>1. Ready'
      <4>1. \A q \in Procs \ {p} : pc'[q] = pc[q] /\ staged'[q] = staged[q] /\ got'[q] = got[q]
        BY <2>18 DEF WriteStaged
      <4>2. pc'[p] = "write" /\ got'[p] = got[p] /\ Approved(got[p]) /\ UNCHANGED os
        BY <2>18 DEF WriteStaged
      <4>3. staged'[p] # None
        <5>1. staged'[p] = Len(built')
          BY <2>18 DEF WriteStaged
        <5> QED
          BY <1>1, <5>1
      <4>4. \A q \in Procs : staged[q] # None /\ built[staged[q]].kind = "genuine"
                             => built'[staged[q]].kind = "genuine"
        BY <1>2
      <4> QED
        BY <4>1, <4>2, <4>3, <4>4
    <3>2. Homed'
      BY <1>1, <2>18 DEF WriteStaged
    <3>3. OnlyApproved'
      <4>1. UNCHANGED <<exe, aside>>
        BY <2>18 DEF WriteStaged
      <4>2. \A f \in {exe} \cup {aside[q] : q \in Procs} : f # None => f \in Files
        OBVIOUS
      <4>3. exe' = exe /\ {aside'[q] : q \in Procs} = {aside[q] : q \in Procs}
        BY <4>1
      <4>4. \A f \in {exe} \cup {aside[q] : q \in Procs} : f # None => built'[f].kind = "genuine"
        BY <1>2, <4>2
      <4> QED
        BY <4>3, <4>4
    <3>4. LastCopySurvives'
      BY <1>1, <2>18 DEF WriteStaged
    <3> QED
      BY <1>1, <3>1, <3>2, <3>3, <3>4
  <2>19. CASE Written(p)
    BY <1>1, <1>2, <2>19, WrittenFile DEF Written, Approved
  <2> QED
    BY <1>3, <2>1, <2>2, <2>3, <2>4, <2>5, <2>6, <2>7, <2>8, <2>9, <2>10, <2>11, <2>12, <2>13,
       <2>14, <2>15, <2>16, <2>17, <2>18, <2>19, <2>20 DEF Command
<1>4. CASE Release
  BY <1>1, <1>4 DEF Release
<1>5. CASE NextDay
  BY <1>1, <1>5 DEF NextDay
<1>6. CASE UNCHANGED vars
  BY <1>1, <1>6 DEF vars
<1> QED
  BY SMTT(30), <1>3, <1>4, <1>5, <1>6 DEF Next

----------------------------------------------------------------------------
(* The MCP server: what holds at every step *)

\* What stdout carries, what a thread hands over, and where one is.
Answers == [id : Nat, what : {"parse", "result", "error"}, of : Nat]
Outcomes == {"none", "ok", "refused", "pending", "unreachable", "broken"}
Threads == {"none", "connect", "sent", "acted", "done"}

\* The types the steps need, and what a deadline is counted from.
SessionTypes ==
    /\ MCP!TypeOK /\ Len(inbox) <= MaxFrames
    /\ out \in Seq(Answers) /\ mcpSpent \in Nat /\ runs \in [MCP!Frames -> Nat]
    /\ mcpPc \in {"read", "wait", "closed"}
    /\ mcpPc = "read" => mcpSpent = 0

\* A call that is waited for is hosted and has no answer yet.
Waited ==
    /\ \A j \in 1..Len(out) : out[j].of \in 1..MCP!Cur
    /\ mcpPc = "wait" => /\ MCP!Cur >= 1 /\ MCP!Hosted(MCP!Kind(MCP!Cur))
                         /\ \A j \in 1..Len(out) : out[j].of < MCP!Cur

\* A thread belongs to a frame that was read; it has had the hub start at most the one
\* run it was for, and reports success only after that.
ThreadsTrue ==
    \A i \in MCP!Frames :
        /\ i >= next => worker[i] = "none" /\ runs[i] = 0
        /\ runs[i] = 0 \/ (runs[i] = 1 /\ worker[i] \in {"acted", "done"})
        /\ worker[i] # "done" => result[i] = "none"
        /\ i < next =>
             /\ result[i] = "pending" => MCP!Kind(i) = "read"
             /\ MCP!Kind(i) = "read" => runs[i] = 0
             /\ MCP!Kind(i) = "run" /\ (worker[i] = "acted" \/ result[i] = "ok") => runs[i] = 1

SessionInv == SessionTypes /\ Waited /\ ThreadsTrue /\ MCP!AnswersMatch /\ MCP!OneRunPerCall

----------------------------------------------------------------------------
(* One answer *)

LEMMA AnswerGrows ==
    ASSUME out \in Seq(Answers), NEW id \in Nat, NEW what \in {"parse", "result", "error"},
           NEW f \in Nat, MCP!Answer(id, what, f)
    PROVE  /\ out' \in Seq(Answers) /\ Len(out') \in Nat
           /\ \/ hup /\ mcpPc' = "closed" /\ exit' = "hup" /\ out' = out
              \/ /\ mcpPc' = "read" /\ exit' = exit /\ Len(out') = Len(out) + 1
                 /\ out'[Len(out) + 1] = [id |-> id, what |-> what, of |-> f]
                 /\ \A j \in 1..Len(out) : out'[j] = out[j]
<1>1. CASE hup
  BY <1>1 DEF MCP!Answer, MCP!Exit
<1>2. CASE ~hup
  <2>1. [id |-> id, what |-> what, of |-> f] \in Answers
    BY DEF Answers
  <2> QED
    BY <1>2, <2>1 DEF MCP!Answer, MCP!Go
<1> QED
  BY <1>1, <1>2

\* What an answer must be for the frame it is about.
Fits(id, f) ==
    /\ id \in {0, f} /\ (id = 0 <=> MCP!Kind(f) \in {"bytes", "junk", "huge", "orphan", "stray"})
    /\ MCP!Kind(f) \notin {"blank", "note"}

Answered(i) == \E j \in 1..Len(out) : out[j].of = i

\* Frames up to the one in hand are answered: so are they when its answer is given, or
\* nobody is there to read it.
LEMMA AnswerMatches ==
    ASSUME SessionTypes, MCP!AnswersMatch, NEW f \in 1..Len(inbox), inbox' = inbox, next' = f + 1,
           NEW id \in Nat, NEW what \in {"parse", "result", "error"}, MCP!Answer(id, what, f),
           Fits(id, f),
           \A j \in 1..Len(out) : out[j].of < f,
           \A i \in 1..(f - 1) : MCP!Kind(i) \in MCP!Requests => Answered(i)
    PROVE  MCP!AnswersMatch' /\ \A j \in 1..Len(out') : out'[j].of < next'
<1>1. /\ out \in Seq(Answers) /\ Len(out) \in Nat /\ f \in Nat /\ Len(inbox) \in Nat
  BY DEF SessionTypes, MCP!TypeOK
<1>2. /\ out' \in Seq(Answers) /\ Len(out') \in Nat
      /\ \/ hup /\ mcpPc' = "closed" /\ exit' = "hup" /\ out' = out
         \/ /\ mcpPc' = "read" /\ exit' = exit /\ Len(out') = Len(out) + 1
            /\ out'[Len(out) + 1] = [id |-> id, what |-> what, of |-> f]
            /\ \A j \in 1..Len(out) : out'[j] = out[j]
  BY <1>1, AnswerGrows
<1>3. \A j \in 1..Len(out) : out[j].of \in Nat
  <2>1. \A j \in 1..Len(out) : out[j] \in Answers
    BY <1>1
  <2> QED
    BY <2>1 DEF Answers
<1>4. \A j \in 1..Len(out') : out'[j].of < next' /\ out'[j].of \in Nat
  BY <1>1, <1>2, <1>3
<1>5. \A j \in 1..Len(out') :
        /\ out'[j].id \in {0, out'[j].of}
        /\ out'[j].id = 0 <=> inbox'[out'[j].of] \in {"bytes", "junk", "huge", "orphan", "stray"}
        /\ inbox'[out'[j].of] \notin {"blank", "note"}
  <2> SUFFICES ASSUME NEW j \in 1..Len(out')
               PROVE  LET id_ == out'[j].id
                          of_ == out'[j].of
                      IN  /\ id_ \in {0, of_} /\ inbox[of_] \notin {"blank", "note"}
                          /\ id_ = 0 <=>
                               inbox[of_] \in {"bytes", "junk", "huge", "orphan", "stray"}
    OBVIOUS
  <2>1. CASE j \in 1..Len(out) /\ out'[j] = out[j]
    BY <2>1 DEF MCP!AnswersMatch, MCP!Kind
  <2>2. CASE out'[j] = [id |-> id, what |-> what, of |-> f]
    BY <2>2 DEF Fits, MCP!Kind
  <2> QED
    BY <1>1, <1>2, <2>1, <2>2
<1>6. \A j \in 1..Len(out') : \A k \in 1..(j - 1) : out'[k].of < out'[j].of
  BY SMTT(30), <1>1, <1>2 DEF MCP!AnswersMatch
<1>7. ASSUME NEW i \in MCP!Done', MCP!Kind(i) \in MCP!Requests
      PROVE  \E j \in 1..Len(out') : out'[j].of = i
  <2>1. i \in 1..f /\ (i = f => mcpPc' = "read")
    BY <1>1, <1>2, <1>7 DEF MCP!Done, MCP!Cur
  <2>2. CASE i = f
    BY <1>1, <1>2, <2>1, <2>2
  <2>3. CASE i # f
    <3>1. PICK j \in 1..Len(out) : out[j].of = i
      BY <1>1, <1>7, <2>1, <2>3 DEF Answered
    <3> QED
      BY <1>1, <1>2, <3>1
  <2> QED
    BY <2>2, <2>3
<1> QED
  BY <1>4, <1>5, <1>6, <1>7 DEF MCP!AnswersMatch, MCP!Kind

----------------------------------------------------------------------------
(* The steps *)

LEMMA SessionInit == MCP!McpServerAssumption /\ MCP!Init => SessionInv
  BY DEF MCP!McpServerAssumption, MCP!Init, SessionInv, SessionTypes, MCP!TypeOK, Waited,
     ThreadsTrue, MCP!AnswersMatch,
     MCP!OneRunPerCall, MCP!Done, Answers

\* Nobody's step takes a frame back.
LEMMA InboxKept ==
    ASSUME MCP!McpServerAssumption, SessionTypes, [MCP!Next]_MCP!vars
    PROVE  /\ inbox' \in Seq(MCP!Kinds) /\ Len(inbox) \in Nat /\ Len(inbox') \in Nat
           /\ Len(inbox) <= Len(inbox')
           /\ Len(inbox') <= MaxFrames /\ \A i \in 1..Len(inbox) : inbox'[i] = inbox[i]
<1>1. inbox \in Seq(MCP!Kinds) /\ Len(inbox) \in Nat /\ Len(inbox) <= MaxFrames
  BY DEF SessionTypes, MCP!TypeOK
<1>2. CASE inbox' = inbox
  BY <1>1, <1>2
<1>3. ASSUME NEW kind \in MCP!Kinds, MCP!Send(kind)
      PROVE inbox' = Append(inbox, kind) /\ Len(inbox) < MaxFrames
  BY <1>3 DEF MCP!Send
<1>4. inbox' = inbox \/ \E kind \in MCP!Kinds : MCP!Send(kind)
  BY DEF MCP!Next, MCP!Serve, MCP!vars, MCP!client, MCP!Eof, MCP!ReadHuge, MCP!ReadJunk,
     MCP!ReadSilent, MCP!HandleLocally, MCP!Call, MCP!Respond,
     MCP!RespondPending, MCP!AskAgain, MCP!Tick, MCP!Abandon, MCP!Hang, MCP!Connect,
     MCP!ConnectFails, MCP!HubActs, MCP!HubAnswers, MCP!Break,
     MCP!Oversize, MCP!HubRefuses
<1>5. CASE \E kind \in MCP!Kinds : MCP!Send(kind)
  <2>1. PICK kind \in MCP!Kinds : MCP!Send(kind)
    BY <1>5
  <2> QED
    BY <1>1, <1>3, <2>1 DEF MCP!McpServerAssumption
<1> QED
  BY <1>2, <1>4, <1>5

LEMMA TypesStep ==
    MCP!McpServerAssumption /\ SessionTypes /\ Waited /\ ThreadsTrue
    /\ [MCP!Next]_MCP!vars => SessionTypes'
<1> SUFFICES ASSUME MCP!McpServerAssumption, SessionTypes, Waited, ThreadsTrue, [MCP!Next]_MCP!vars
             PROVE  SessionTypes'
  OBVIOUS
<1>1. /\ inbox' \in Seq(MCP!Kinds) /\ Len(inbox) \in Nat /\ Len(inbox') \in Nat
      /\ Len(inbox) <= Len(inbox')
      /\ Len(inbox') <= MaxFrames /\ \A i \in 1..Len(inbox) : inbox'[i] = inbox[i]
  BY InboxKept
<1>2. next \in 1..(Len(inbox) + 1) /\ next \in Nat
      /\ {Hard, Budget, Slack, ConnectAttempts} \subseteq Nat
  BY <1>1 DEF SessionTypes, MCP!TypeOK, MCP!McpServerAssumption
<1> USE DEF SessionTypes, MCP!TypeOK
<1>3. CASE UNCHANGED MCP!vars
  BY <1>3 DEF MCP!vars, MCP!client, MCP!threads, MCP!Limit, MCP!Kind, MCP!Cur
<1>4. ASSUME UNCHANGED <<out, next, mcpPc, exit, mcpSpent, MCP!threads, runs>> PROVE SessionTypes'
  <2>1. mcpPc' = "wait" => MCP!Limit' = MCP!Limit
    <3>1. ASSUME mcpPc' = "wait" PROVE MCP!Kind(MCP!Cur)' = MCP!Kind(MCP!Cur)
      <4>1. mcpPc = "wait" /\ MCP!Cur >= 1 /\ MCP!Cur \in 1..Len(inbox) /\ MCP!Cur' = MCP!Cur
        BY <1>1, <1>2, <1>4, <3>1 DEF MCP!Cur, Waited
      <4> QED
        BY <1>1, <4>1 DEF MCP!Kind
    <3> QED
      BY <3>1 DEF MCP!Limit
  <2> QED
    BY <1>1, <1>2, <1>4, <2>1 DEF MCP!threads
<1>5. ASSUME NEW kind \in MCP!Kinds, MCP!Send(kind) PROVE SessionTypes'
  BY <1>4, <1>5 DEF MCP!Send
<1>6. CASE MCP!Hang
  BY <1>4, <1>6 DEF MCP!Hang
<1>7. ASSUME NEW f \in 1..Len(inbox), NEW id \in Nat, NEW what \in {"parse", "result", "error"},
             MCP!Answer(id, what, f),
             next' = f + 1, UNCHANGED <<inbox, worker, tries, runs>>, mcpSpent' = 0,
             result' \in [MCP!Frames -> Outcomes], mcpPc # "closed"
      PROVE  SessionTypes'
  <2>1. out' \in Seq(Answers)
        /\ ((mcpPc' = "closed" /\ exit' = "hup") \/ (mcpPc' = "read" /\ exit' = exit))
    <3>1. out \in Seq(Answers) /\ f \in Nat
      BY <1>1
    <3> QED
      BY <1>7, <3>1, AnswerGrows
  <2> QED
    BY SMTT(30), <1>1, <1>2, <1>7, <2>1 DEF Outcomes
<1>8. CASE MCP!ReadJunk
  BY <1>2, <1>7, <1>8 DEF MCP!ReadJunk, MCP!Ready, MCP!threads, MCP!client, Outcomes
<1>9. CASE MCP!HandleLocally
  <2>1. MCP!Id(next) \in Nat
    BY <1>2 DEF MCP!Id
  <2> QED
    BY <1>2, <1>7, <1>9, <2>1 DEF MCP!HandleLocally, MCP!Ready, MCP!threads, MCP!client, Outcomes
<1>10. CASE MCP!Respond \/ MCP!RespondPending \/ MCP!Abandon
  <2>1. mcpPc = "wait" /\ MCP!Cur \in 1..Len(inbox) /\ next' = MCP!Cur + 1
        /\ MCP!Cur \in MCP!Frames /\ MCP!Id(MCP!Cur) \in Nat
    BY <1>1, <1>2, <1>10 DEF MCP!Respond, MCP!RespondPending, MCP!Abandon, Waited, MCP!Cur,
       MCP!Frames, MCP!Id, MCP!McpServerAssumption
  <2>2. result' \in [MCP!Frames -> Outcomes] /\ mcpSpent' = 0
        /\ UNCHANGED <<inbox, worker, tries, runs>>
    BY <1>10 DEF MCP!Respond, MCP!RespondPending, MCP!Abandon, MCP!threads, MCP!client, Outcomes
  <2>3. \E what \in {"result", "error"} : MCP!Answer(MCP!Id(MCP!Cur), what, MCP!Cur)
    BY <1>10 DEF MCP!Respond, MCP!RespondPending, MCP!Abandon
  <2> QED
    BY <1>7, <2>1, <2>2, <2>3
<1>11. CASE MCP!Eof \/ MCP!ReadSilent
  BY <1>1, <1>2, <1>11 DEF MCP!Eof, MCP!ReadSilent, MCP!Ready, MCP!Exit, MCP!threads, MCP!client
<1>12. CASE MCP!ReadHuge
  <2>1. [id |-> 0, what |-> "parse", of |-> next] \in Answers
    BY <1>2 DEF Answers
  <2> QED
    BY <1>1, <1>2, <1>12, <2>1 DEF MCP!ReadHuge, MCP!Ready, MCP!Exit, MCP!threads, MCP!client
<1>13. CASE MCP!Call
  <2>1. next \in MCP!Frames /\ mcpPc = "read" /\ mcpSpent = 0 /\ next' = next + 1
        /\ next <= Len(inbox)
        /\ UNCHANGED <<inbox, out, runs, mcpSpent>>
    BY <1>1, <1>2, <1>13 DEF MCP!Call, MCP!Ready, MCP!Frames, MCP!client, MCP!McpServerAssumption
  <2>2. worker' \in [MCP!Frames -> Threads] /\ tries' \in [MCP!Frames -> 0..ConnectAttempts]
        /\ result' \in [MCP!Frames -> Outcomes]
    <3>1. /\ worker \in [MCP!Frames -> Threads] /\ tries \in [MCP!Frames -> 0..ConnectAttempts]
          /\ result \in [MCP!Frames -> Outcomes] /\ {0, 1} \subseteq 0..ConnectAttempts
      BY <1>2 DEF MCP!McpServerAssumption, Threads, Outcomes
    <3>2. \/ MCP!Start(next)
          \/ UNCHANGED MCP!threads
      BY <1>13 DEF MCP!Call
    <3> QED
      BY <2>1, <3>1, <3>2 DEF MCP!Start, MCP!threads, Threads, Outcomes
  <2>3. (mcpPc' = "wait" /\ exit' = exit) \/ (mcpPc' = "closed" /\ exit' = "abort")
    BY <1>13 DEF MCP!Call, MCP!Exit, MCP!Go
  <2> QED
    BY SMTT(30), <1>1, <1>2, <2>1, <2>2, <2>3 DEF Threads, Outcomes, MCP!Limit
<1>14. CASE MCP!AskAgain
  <2>1. mcpPc = "wait" /\ MCP!Cur \in MCP!Frames /\ MCP!Cur < next /\ result[MCP!Cur] = "pending"
    BY <1>1, <1>2, <1>14 DEF MCP!AskAgain, Waited, MCP!Cur, MCP!Frames, MCP!McpServerAssumption
  <2>2. MCP!Kind(MCP!Cur) = "read"
    BY <2>1 DEF ThreadsTrue
  <2>3. worker' \in [MCP!Frames -> Threads] /\ tries' \in [MCP!Frames -> 0..ConnectAttempts]
        /\ result' \in [MCP!Frames -> Outcomes]
    BY <1>2, <1>14, <2>1 DEF MCP!AskAgain, MCP!Start, Threads, Outcomes, MCP!McpServerAssumption
  <2>4. UNCHANGED <<inbox, out, next, mcpPc, exit, runs>> /\ mcpSpent' = mcpSpent + 1
        /\ mcpSpent + 1 < Budget /\ MCP!Limit' = Budget + Slack
    BY <1>14, <2>2 DEF MCP!AskAgain, MCP!client, MCP!Limit, MCP!Kind, MCP!Cur
  <2> QED
    BY SMTT(30), <1>1, <1>2, <2>1, <2>3, <2>4 DEF Threads, Outcomes
<1>15. CASE MCP!Tick
  <2>1. MCP!Limit' = MCP!Limit /\ MCP!Limit \in Nat
    BY <1>2, <1>15 DEF MCP!Tick, MCP!client, MCP!Limit, MCP!Kind, MCP!Cur
  <2> QED
    BY <1>1, <1>2, <1>15, <2>1 DEF MCP!Tick, MCP!threads, MCP!client
<1>16. ASSUME NEW i \in MCP!Frames, UNCHANGED <<inbox, out, next, mcpPc, exit, mcpSpent>>,
              runs' \in [MCP!Frames -> Nat],
              worker' \in [MCP!Frames -> Threads], tries' \in [MCP!Frames -> 0..ConnectAttempts],
              result' \in [MCP!Frames -> Outcomes]
       PROVE  SessionTypes'
  <2>1. MCP!Limit' = MCP!Limit
    BY <1>16 DEF MCP!Limit, MCP!Kind, MCP!Cur
  <2> QED
    BY <1>1, <1>2, <1>16, <2>1 DEF Threads, Outcomes
<1>17. ASSUME NEW i \in MCP!Frames, MCP!Connect(i) PROVE SessionTypes'
  BY <1>16, <1>17 DEF MCP!Connect, MCP!client, Threads, Outcomes
<1>18. ASSUME NEW i \in MCP!Frames, MCP!HubActs(i) PROVE SessionTypes'
  <2>1. runs' \in [MCP!Frames -> Nat]
    BY <1>18 DEF MCP!HubActs
  <2> QED
    BY <1>16, <1>18, <2>1 DEF MCP!HubActs, MCP!client, Threads, Outcomes
<1>19. ASSUME NEW i \in MCP!Frames, NEW what \in Outcomes, MCP!Hand(i, what),
              UNCHANGED <<inbox, out, next, mcpPc, exit, mcpSpent, runs>>
       PROVE  SessionTypes'
  <2>1. /\ worker \in [MCP!Frames -> Threads] /\ tries \in [MCP!Frames -> 0..ConnectAttempts]
        /\ result \in [MCP!Frames -> Outcomes] /\ runs \in [MCP!Frames -> Nat]
        /\ 0 \in 0..ConnectAttempts
    BY <1>2 DEF Threads, Outcomes
  <2>2. /\ worker' \in [MCP!Frames -> Threads] /\ tries' \in [MCP!Frames -> 0..ConnectAttempts]
        /\ result' \in [MCP!Frames -> Outcomes] /\ runs' \in [MCP!Frames -> Nat]
    BY <1>19, <2>1 DEF MCP!Hand, Threads
  <2> QED
    BY <1>16, <1>19, <2>2
<1>20. ASSUME NEW i \in MCP!Frames, MCP!ConnectFails(i) PROVE SessionTypes'
  <2>1. CASE tries[i] < ConnectAttempts
    <3>1. tries' \in [MCP!Frames -> 0..ConnectAttempts]
      <4>1. tries[i] \in 0..ConnectAttempts /\ ConnectAttempts \in Nat
            /\ tries[i] + 1 \in 0..ConnectAttempts
        BY <1>2, <2>1
      <4> QED
        BY <1>20, <2>1, <4>1 DEF MCP!ConnectFails
    <3> QED
      BY <1>16, <1>20, <2>1, <3>1 DEF MCP!ConnectFails, MCP!client, Threads, Outcomes
  <2>2. CASE ~(tries[i] < ConnectAttempts)
    BY <1>19, <1>20, <2>2 DEF MCP!ConnectFails, MCP!client, Outcomes
  <2> QED
    BY <2>1, <2>2
<1>21. ASSUME NEW i \in MCP!Frames,
              MCP!HubAnswers(i) \/ MCP!Break(i) \/ MCP!HubRefuses(i, "refused")
              \/ MCP!HubRefuses(i, "pending")
       PROVE  SessionTypes'
  BY <1>19, <1>21 DEF MCP!HubAnswers, MCP!Break, MCP!HubRefuses, MCP!client, Outcomes
<1>22. ASSUME NEW i \in MCP!Frames, MCP!Oversize(i) PROVE SessionTypes'
  BY <1>1, <1>2, <1>22 DEF MCP!Oversize, MCP!Exit, MCP!client, MCP!threads
<1> QED
  BY <1>3, <1>5, <1>6, <1>8, <1>9, <1>10, <1>11, <1>12, <1>13, <1>14, <1>15, <1>17, <1>18, <1>20,
     <1>21, <1>22
  DEF MCP!Next, MCP!Serve

LEMMA ThreadsStep ==
    MCP!McpServerAssumption /\ SessionTypes /\ Waited /\ ThreadsTrue
    /\ [MCP!Next]_MCP!vars => ThreadsTrue'
<1> SUFFICES ASSUME MCP!McpServerAssumption, SessionTypes, Waited, ThreadsTrue, [MCP!Next]_MCP!vars
             PROVE  ThreadsTrue'
  OBVIOUS
<1>1. /\ inbox' \in Seq(MCP!Kinds) /\ Len(inbox) \in Nat /\ Len(inbox') \in Nat
      /\ Len(inbox) <= Len(inbox')
      /\ Len(inbox') <= MaxFrames /\ \A i \in 1..Len(inbox) : inbox'[i] = inbox[i]
  BY InboxKept
<1>2. /\ next \in 1..(Len(inbox) + 1) /\ next \in Nat /\ MCP!Frames \subseteq Nat \ {0}
      /\ worker \in [MCP!Frames -> Threads] /\ result \in [MCP!Frames -> Outcomes]
      /\ runs \in [MCP!Frames -> Nat]
      /\ tries \in [MCP!Frames -> 0..ConnectAttempts]
  BY <1>1 DEF SessionTypes, MCP!TypeOK, Threads, Outcomes, MCP!Frames, MCP!McpServerAssumption
<1>3. \A i \in MCP!Frames : i < next => MCP!Kind(i)' = MCP!Kind(i)
  <2>1. \A i \in MCP!Frames : i < next => i \in 1..Len(inbox)
    <3>1. /\ MCP!Frames \subseteq Nat \ {0} /\ Len(inbox) \in Nat
          /\ next \in Nat /\ next <= Len(inbox) + 1
      BY <1>1, <1>2
    <3> QED
      BY <3>1
  <2> QED
    BY <1>1, <2>1 DEF MCP!Kind
<1>4. ASSUME next' \in {next, next + 1}, UNCHANGED <<worker, runs>>,
             \A i \in MCP!Frames : result'[i] \in {result[i], "none"}
      PROVE  ThreadsTrue'
  <2> SUFFICES ASSUME NEW i \in MCP!Frames
               PROVE  /\ i >= next' => worker'[i] = "none" /\ runs'[i] = 0
                      /\ runs'[i] = 0 \/ (runs'[i] = 1 /\ worker'[i] \in {"acted", "done"})
                      /\ worker'[i] # "done" => result'[i] = "none"
                      /\ i < next' =>
                           /\ result'[i] = "pending" => MCP!Kind(i)' = "read"
                           /\ MCP!Kind(i)' = "read" => runs'[i] = 0
                           /\ MCP!Kind(i)' = "run" /\ (worker'[i] = "acted" \/ result'[i] = "ok") => runs'[i] = 1
    BY DEF ThreadsTrue
  <2>1. CASE i < next
    BY <1>2, <1>3, <1>4, <2>1 DEF ThreadsTrue
  <2>2. CASE i >= next
    <3>1. worker[i] = "none" /\ runs[i] = 0 /\ result[i] = "none"
      BY <2>2 DEF ThreadsTrue
    <3> QED
      BY <1>2, <1>4, <2>2, <3>1
  <2> QED
    BY <1>2, <2>1, <2>2
<1>5. CASE UNCHANGED MCP!vars
  BY <1>4, <1>5 DEF MCP!vars, MCP!threads
<1>6. ASSUME NEW kind \in MCP!Kinds, MCP!Send(kind) PROVE ThreadsTrue'
  BY <1>4, <1>6 DEF MCP!Send, MCP!threads
<1>7. CASE MCP!Hang \/ MCP!Eof \/ MCP!Tick \/ MCP!Abandon
  BY <1>4, <1>7 DEF MCP!Hang, MCP!Eof, MCP!Tick, MCP!Abandon, MCP!threads
<1>8. CASE MCP!ReadHuge \/ MCP!ReadJunk \/ MCP!ReadSilent \/ MCP!HandleLocally
  BY <1>4, <1>8 DEF MCP!ReadHuge, MCP!ReadJunk, MCP!ReadSilent, MCP!HandleLocally, MCP!threads
<1>9. CASE MCP!Respond \/ MCP!RespondPending
  BY <1>2, <1>4, <1>9 DEF MCP!Respond, MCP!RespondPending, MCP!threads
\* A step of one thread, of a frame that was read.
<1>10. ASSUME NEW i \in MCP!Frames, i < next', next' \in {next, next + 1}, i < next \/ i = next,
              \A d \in MCP!Frames \ {i} :
                worker'[d] = worker[d] /\ result'[d] = result[d] /\ runs'[d] = runs[d],
              runs'[i] = 0 \/ (runs'[i] = 1 /\ worker'[i] \in {"acted", "done"}),
              worker'[i] # "done" => result'[i] = "none",
              result'[i] = "pending" => MCP!Kind(i)' = "read",
              MCP!Kind(i)' = "read" => runs'[i] = 0,
              MCP!Kind(i)' = "run" /\ (worker'[i] = "acted" \/ result'[i] = "ok") => runs'[i] = 1,
              next' = next \/ i = next
       PROVE  ThreadsTrue'
  <2>1. ASSUME NEW d \in MCP!Frames \ {i}, d < next PROVE MCP!Kind(d)' = MCP!Kind(d)
    BY <1>3, <2>1
  <2> QED
    BY <1>2, <1>10, <2>1 DEF ThreadsTrue
<1>11. CASE MCP!Call
  <2>1. CASE UNCHANGED MCP!threads /\ next' = next + 1 /\ runs' = runs
    BY <1>4, <2>1 DEF MCP!threads
  <2>2. CASE MCP!Start(next) /\ next' = next + 1 /\ runs' = runs
    <3>1. next \in MCP!Frames /\ runs[next] = 0
      BY <1>1, <1>2, <1>11 DEF MCP!Call, MCP!Ready, MCP!Frames, ThreadsTrue, MCP!McpServerAssumption
    <3>2. worker'[next] = "connect" /\ result'[next] = "none" /\ runs'[next] = 0
          /\ \A d \in MCP!Frames \ {next} :
               worker'[d] = worker[d] /\ result'[d] = result[d] /\ runs'[d] = runs[d]
      BY <1>2, <2>2, <3>1 DEF MCP!Start
    <3> QED
      BY <1>2, <1>10, <2>2, <3>1, <3>2
  <2> QED
    BY <1>11, <2>1, <2>2 DEF MCP!Call
<1>12. CASE MCP!AskAgain
  <2>1. MCP!Cur \in MCP!Frames /\ MCP!Cur < next /\ result[MCP!Cur] = "pending"
        /\ MCP!Start(MCP!Cur) /\ next' = next /\ runs' = runs
    BY <1>1, <1>2, <1>12 DEF MCP!AskAgain, Waited, MCP!Cur, MCP!Frames, MCP!McpServerAssumption
  <2>2. runs[MCP!Cur] = 0
    BY <2>1 DEF ThreadsTrue
  <2>3. worker'[MCP!Cur] = "connect" /\ result'[MCP!Cur] = "none" /\ runs'[MCP!Cur] = 0
        /\ \A d \in MCP!Frames \ {MCP!Cur} :
             worker'[d] = worker[d] /\ result'[d] = result[d] /\ runs'[d] = runs[d]
    BY <1>2, <2>1, <2>2 DEF MCP!Start
  <2> QED
    BY <1>2, <1>10, <2>1, <2>3
<1>13. ASSUME NEW i \in MCP!Frames, worker[i] # "none" PROVE i < next /\ MCP!Kind(i)' = MCP!Kind(i)
  BY <1>2, <1>3, <1>13 DEF ThreadsTrue
<1>14. ASSUME NEW i \in MCP!Frames, MCP!Connect(i) PROVE ThreadsTrue'
  <2>1. worker[i] = "connect" /\ worker'[i] = "sent" /\ UNCHANGED <<next, result, runs>>
        /\ \A d \in MCP!Frames \ {i} : worker'[d] = worker[d]
    BY <1>2, <1>14 DEF MCP!Connect
  <2> QED
    BY <1>2, <1>10, <1>13, <2>1 DEF ThreadsTrue
<1>15. ASSUME NEW i \in MCP!Frames, NEW what \in Outcomes, MCP!Hand(i, what),
              worker[i] \in {"connect", "sent", "acted"},
              UNCHANGED <<next, runs>>, what = "pending" => MCP!Kind(i) = "read",
              what = "ok" => worker[i] = "acted"
       PROVE  ThreadsTrue'
  <2>1. worker'[i] = "done" /\ result'[i] = what
        /\ \A d \in MCP!Frames \ {i} : worker'[d] = worker[d] /\ result'[d] = result[d]
    BY <1>2, <1>15 DEF MCP!Hand
  <2> QED
    BY <1>2, <1>10, <1>13, <1>15, <2>1 DEF ThreadsTrue
<1>16. ASSUME NEW i \in MCP!Frames, MCP!ConnectFails(i) PROVE ThreadsTrue'
  <2>1. CASE tries[i] < ConnectAttempts
    BY <1>4, <1>16, <2>1 DEF MCP!ConnectFails
  <2>2. CASE ~(tries[i] < ConnectAttempts)
    BY <1>15, <1>16, <2>2 DEF MCP!ConnectFails, Outcomes
  <2> QED
    BY <2>1, <2>2
<1>17. ASSUME NEW i \in MCP!Frames, MCP!HubActs(i) PROVE ThreadsTrue'
  <2>1. /\ worker[i] = "sent" /\ worker'[i] = "acted" /\ UNCHANGED <<next, result>>
        /\ \A d \in MCP!Frames \ {i} : worker'[d] = worker[d] /\ runs'[d] = runs[d]
        /\ runs'[i] = IF MCP!Kind(i) = "run" THEN runs[i] + 1 ELSE runs[i]
    BY <1>2, <1>17 DEF MCP!HubActs
  <2>2. runs[i] = 0 /\ result[i] = "none" /\ i < next /\ MCP!Kind(i)' = MCP!Kind(i)
    BY <1>13, <2>1 DEF ThreadsTrue
  <2>3. runs'[i] = IF MCP!Kind(i)' = "run" THEN 1 ELSE 0
    BY <2>1, <2>2
  <2> QED
    BY <1>2, <1>10, <2>1, <2>2, <2>3
<1>18. ASSUME NEW i \in MCP!Frames,
              MCP!HubAnswers(i) \/ MCP!Break(i) \/ MCP!HubRefuses(i, "refused")
              \/ MCP!HubRefuses(i, "pending")
       PROVE  ThreadsTrue'
  BY <1>15, <1>18 DEF MCP!HubAnswers, MCP!Break, MCP!HubRefuses, Outcomes
<1>19. ASSUME NEW i \in MCP!Frames, MCP!Oversize(i) PROVE ThreadsTrue'
  BY <1>4, <1>19 DEF MCP!Oversize, MCP!threads
<1> QED
  BY <1>5, <1>6, <1>7, <1>8, <1>9, <1>11, <1>12, <1>14, <1>16, <1>17, <1>18, <1>19 DEF MCP!Next,
     MCP!Serve

LEMMA AnswersStep ==
    MCP!McpServerAssumption /\ SessionTypes /\ Waited /\ MCP!AnswersMatch
    /\ [MCP!Next]_MCP!vars => Waited' /\ MCP!AnswersMatch'
<1> SUFFICES ASSUME MCP!McpServerAssumption, SessionTypes, Waited, MCP!AnswersMatch,
                    [MCP!Next]_MCP!vars
             PROVE  Waited' /\ MCP!AnswersMatch'
  OBVIOUS
<1>1. /\ inbox' \in Seq(MCP!Kinds) /\ Len(inbox) \in Nat /\ Len(inbox') \in Nat
      /\ Len(inbox) <= Len(inbox')
      /\ Len(inbox') <= MaxFrames /\ \A i \in 1..Len(inbox) : inbox'[i] = inbox[i]
  BY InboxKept
<1>2. /\ next \in 1..(Len(inbox) + 1) /\ next \in Nat /\ out \in Seq(Answers) /\ Len(out) \in Nat
      /\ inbox \in Seq(MCP!Kinds) /\ mcpPc \in {"read", "wait", "closed"}
      /\ (exit # "none" <=> mcpPc = "closed")
  BY <1>1 DEF SessionTypes, MCP!TypeOK
<1>3. \A j \in 1..Len(out) : out[j].of \in 1..Len(inbox) /\ out[j].of < next
  BY <1>1, <1>2 DEF Waited, MCP!Cur
\* Nothing is said, and no frame is dealt with by it that needs an answer.
<1>4. ASSUME out' = out, next' \in {next, next + 1}, UNCHANGED signed,
             \A i \in MCP!Done' :
               i \in MCP!Done \/ (i \in 1..Len(inbox) /\ MCP!Kind(i) \notin MCP!Requests),
             mcpPc' = "wait" => \/ mcpPc = "wait" /\ next' = next
                                \/ next' = next + 1 /\ next <= Len(inbox) /\ MCP!Hosted(MCP!Kind(next))
      PROVE  Waited' /\ MCP!AnswersMatch'
  <2>1. \A j \in 1..Len(out) : MCP!Kind(out[j].of)' = MCP!Kind(out[j].of)
    BY <1>1, <1>3, <1>4 DEF MCP!Kind
  <2>2. \A i \in MCP!Done : i \in 1..Len(inbox)
    BY <1>1, <1>2 DEF MCP!Done
  <2>3. \A i \in 1..Len(inbox) : MCP!Kind(i)' = MCP!Kind(i)
    BY <1>1 DEF MCP!Kind
  <2>4. MCP!AnswersMatch'
    BY <1>4, <2>1, <2>2, <2>3 DEF MCP!AnswersMatch
  <2>5. \A j \in 1..Len(out') : out'[j].of \in 1..MCP!Cur'
    BY <1>1, <1>2, <1>3, <1>4 DEF MCP!Cur
  <2>6. ASSUME mcpPc' = "wait"
        PROVE MCP!Cur' >= 1 /\ MCP!Hosted(MCP!Kind(MCP!Cur))'
              /\ \A j \in 1..Len(out') : out'[j].of < MCP!Cur'
    <3>1. CASE mcpPc = "wait" /\ next' = next
      <4>1. MCP!Cur' = MCP!Cur /\ MCP!Cur \in 1..Len(inbox) /\ MCP!Hosted(MCP!Kind(MCP!Cur))
            /\ \A j \in 1..Len(out) : out[j].of < MCP!Cur
        BY <1>1, <1>2, <3>1 DEF Waited, MCP!Cur
      <4> QED
        BY <1>4, <2>3, <4>1 DEF MCP!Hosted
    <3>2. CASE next' = next + 1 /\ next <= Len(inbox) /\ MCP!Hosted(MCP!Kind(next))
      <4>1. MCP!Cur' = next /\ next \in 1..Len(inbox)
        BY <1>1, <1>2, <3>2 DEF MCP!Cur
      <4> QED
        BY <1>2, <1>3, <1>4, <2>3, <3>2, <4>1 DEF MCP!Hosted, MCP!Kind
    <3> QED
      BY <1>4, <2>6, <3>1, <3>2
  <2> QED
    BY <2>4, <2>5, <2>6 DEF Waited
<1>5. ASSUME UNCHANGED <<signed, out, next, mcpPc, exit>> PROVE Waited' /\ MCP!AnswersMatch'
  <2>1. MCP!Done' = MCP!Done
    BY <1>5 DEF MCP!Done, MCP!Cur
  <2> QED
    BY <1>4, <1>5, <2>1
<1>6. CASE UNCHANGED MCP!vars
  BY <1>5, <1>6 DEF MCP!vars
<1>7. ASSUME NEW kind \in MCP!Kinds, MCP!Send(kind) PROVE Waited' /\ MCP!AnswersMatch'
  BY <1>5, <1>7 DEF MCP!Send
<1>8. CASE MCP!Hang \/ MCP!Tick \/ MCP!AskAgain
  BY <1>5, <1>8 DEF MCP!Hang, MCP!Tick, MCP!AskAgain
<1>9. CASE MCP!Eof
  <2>1. out' = out /\ next' = next /\ mcpPc' = "closed" /\ mcpPc = "read" /\ signed' = signed
    BY <1>9 DEF MCP!Eof, MCP!Exit
  <2>2. \A i \in MCP!Done' : i \in MCP!Done
    BY <1>2, <2>1 DEF MCP!Done, MCP!Cur
  <2> QED
    BY <1>4, <2>1, <2>2
<1>10. CASE MCP!ReadSilent
  <2>1. out' = out /\ next' = next + 1 /\ mcpPc' = "read" /\ mcpPc = "read"
        /\ MCP!Kind(next) \notin MCP!Requests /\ signed' = signed
        /\ next \in 1..Len(inbox)
    BY <1>1, <1>2, <1>10 DEF MCP!ReadSilent, MCP!Ready, MCP!Requests
  <2>2. \A i \in MCP!Done' : i \in MCP!Done \/ (i \in 1..Len(inbox) /\ MCP!Kind(i) \notin MCP!Requests)
    BY <1>2, <2>1 DEF MCP!Done, MCP!Cur
  <2> QED
    BY <1>4, <2>1, <2>2
<1>11. CASE MCP!Call
  <2>1. out' = out /\ next' = next + 1 /\ mcpPc' \in {"wait", "closed"} /\ mcpPc = "read"
        /\ signed' = signed
        /\ next \in 1..Len(inbox) /\ MCP!Hosted(MCP!Kind(next)) /\ exit' # "eof"
    BY <1>1, <1>2, <1>11 DEF MCP!Call, MCP!Ready, MCP!Exit, MCP!Go
  <2>2. \A i \in MCP!Done' : i \in MCP!Done
    BY <1>2, <2>1 DEF MCP!Done, MCP!Cur
  <2> QED
    BY <1>1, <1>2, <1>4, <2>1, <2>2
<1>12. ASSUME NEW i \in MCP!Frames, MCP!Oversize(i) PROVE Waited' /\ MCP!AnswersMatch'
  <2>1. out' = out /\ next' = next /\ mcpPc' = "closed" /\ exit' # "eof" /\ signed' = signed
    BY <1>12 DEF MCP!Oversize, MCP!Exit
  <2>2. \A d \in MCP!Done' : d \in MCP!Done
    BY <1>2, <2>1 DEF MCP!Done, MCP!Cur
  <2> QED
    BY <1>4, <2>1, <2>2
<1>13. ASSUME NEW i \in MCP!Frames,
              MCP!Connect(i) \/ MCP!ConnectFails(i) \/ MCP!HubActs(i) \/ MCP!HubAnswers(i)
              \/ MCP!Break(i)
                                    \/ MCP!HubRefuses(i, "refused") \/ MCP!HubRefuses(i, "pending")
       PROVE  Waited' /\ MCP!AnswersMatch'
  BY <1>5, <1>13 DEF MCP!Connect, MCP!ConnectFails, MCP!HubActs, MCP!HubAnswers, MCP!Break,
     MCP!HubRefuses
\* The frame in hand is answered.
<1>14. ASSUME NEW f \in 1..Len(inbox), UNCHANGED <<signed, inbox>>, next' = f + 1,
              NEW id \in Nat, NEW what \in {"parse", "result", "error"}, MCP!Answer(id, what, f),
              Fits(id, f),
              \A j \in 1..Len(out) : out[j].of < f, \A i \in 1..(f - 1) : i \in MCP!Done
       PROVE  Waited' /\ MCP!AnswersMatch'
  <2>1. \A i \in 1..(f - 1) : MCP!Kind(i) \in MCP!Requests => Answered(i)
    BY <1>14 DEF MCP!AnswersMatch, Answered
  <2>2. MCP!AnswersMatch' /\ \A j \in 1..Len(out') : out'[j].of < next'
    BY <1>14, <2>1, AnswerMatches
  <2>3. mcpPc' # "wait" /\ out' \in Seq(Answers) /\ Len(out') \in Nat
        /\ \A j \in 1..Len(out') : out'[j].of >= 1
    <3>1. f \in Nat
      BY <1>1
    <3>2. /\ out' \in Seq(Answers) /\ Len(out') \in Nat
           /\ \/ hup /\ mcpPc' = "closed" /\ exit' = "hup" /\ out' = out
              \/ /\ mcpPc' = "read" /\ exit' = exit /\ Len(out') = Len(out) + 1
                 /\ out'[Len(out) + 1] = [id |-> id, what |-> what, of |-> f]
                 /\ \A j \in 1..Len(out) : out'[j] = out[j]
      BY <1>2, <1>14, <3>1, AnswerGrows
    <3>3. mcpPc' # "wait"
      BY <3>2
    <3>4. \A j \in 1..Len(out') : out'[j].of >= 1
      BY <1>2, <1>3, <1>14, <3>2
    <3> QED
      BY <3>2, <3>3, <3>4
  <2>4. \A j \in 1..Len(out') : out'[j] \in Answers
    BY <2>3
  <2>5. \A j \in 1..Len(out') : out'[j].of \in 1..MCP!Cur'
    BY <1>1, <1>14, <2>2, <2>3, <2>4 DEF MCP!Cur, Answers
  <2> QED
    BY <2>2, <2>3, <2>5 DEF Waited
<1>15. CASE MCP!ReadJunk
  <2>1. next \in 1..Len(inbox) /\ next' = next + 1 /\ UNCHANGED <<signed, inbox>>
        /\ MCP!Answer(0, "parse", next) /\ mcpPc = "read"
        /\ Fits(0, next)
    BY <1>1, <1>2, <1>15 DEF MCP!ReadJunk, MCP!Ready, MCP!client, Fits
  <2>2. \A i \in 1..(next - 1) : i \in MCP!Done
    BY <2>1 DEF MCP!Done
  <2> QED
    BY <1>3, <1>14, <2>1, <2>2
<1>16. CASE MCP!HandleLocally
  <2>1. next \in 1..Len(inbox) /\ next' = next + 1 /\ UNCHANGED <<signed, inbox>>
        /\ MCP!Answer(MCP!Id(next), "result", next) /\ mcpPc = "read"
        /\ MCP!Kind(next) \in MCP!Requests \cup {"stray"} /\ ~MCP!Hosted(MCP!Kind(next))
    BY <1>1, <1>2, <1>16 DEF MCP!HandleLocally, MCP!Ready, MCP!client
  <2>2. Fits(MCP!Id(next), next) /\ MCP!Id(next) \in Nat
    BY <1>2, <2>1 DEF Fits, MCP!Requests, MCP!Id, MCP!Hosted
  <2>3. \A i \in 1..(next - 1) : i \in MCP!Done
    BY <1>2, <2>1 DEF MCP!Done
  <2> QED
    BY <1>2, <1>3, <1>14, <2>1, <2>2, <2>3
<1>17. CASE MCP!Respond \/ MCP!RespondPending \/ MCP!Abandon
  <2>1. mcpPc = "wait" /\ MCP!Cur \in 1..Len(inbox) /\ next' = MCP!Cur + 1
        /\ UNCHANGED <<signed, inbox>>
        /\ MCP!Hosted(MCP!Kind(MCP!Cur)) /\ \A j \in 1..Len(out) : out[j].of < MCP!Cur
    BY <1>1, <1>2, <1>17 DEF MCP!Respond, MCP!RespondPending, MCP!Abandon, Waited, MCP!Cur,
       MCP!client
  <2>2. Fits(MCP!Id(MCP!Cur), MCP!Cur) /\ MCP!Id(MCP!Cur) \in Nat
    BY <1>1, <2>1 DEF Fits, MCP!Hosted, MCP!Id
  <2>3. \E what \in {"result", "error"} : MCP!Answer(MCP!Id(MCP!Cur), what, MCP!Cur)
    BY <1>17 DEF MCP!Respond, MCP!RespondPending, MCP!Abandon
  <2>4. \A i \in 1..(MCP!Cur - 1) : i \in MCP!Done
    BY <1>2, <2>1 DEF MCP!Done, MCP!Cur
  <2> QED
    BY <1>14, <2>1, <2>2, <2>3, <2>4
<1>18. CASE MCP!ReadHuge
  <2>1. /\ next \in 1..Len(inbox) /\ next' = next + 1 /\ UNCHANGED <<signed, inbox>>
        /\ mcpPc = "read" /\ MCP!Kind(next) = "huge"
        /\ mcpPc' = "closed" /\ exit' = "huge"
        /\ out' = IF hup THEN out ELSE Append(out, [id |-> 0, what |-> "parse", of |-> next])
    BY <1>1, <1>2, <1>18 DEF MCP!ReadHuge, MCP!Ready, MCP!client, MCP!Exit
  <2>2. CASE hup
    <3>1. \A i \in MCP!Done' : i \in MCP!Done
      BY <1>2, <2>1 DEF MCP!Done, MCP!Cur
    <3> QED
      BY <1>4, <2>1, <2>2, <3>1
  <2>3. CASE ~hup
    <3>1. /\ Len(out') = Len(out) + 1
          /\ out'[Len(out) + 1] = [id |-> 0, what |-> "parse", of |-> next]
          /\ \A j \in 1..Len(out) : out'[j] = out[j]
      BY <1>2, <2>1, <2>3
    <3>2. MCP!Done' = 1..(next - 1) /\ MCP!Done = 1..(next - 1)
      BY <1>2, <2>1 DEF MCP!Done, MCP!Cur
    <3>3. \A j \in 1..Len(out') : out'[j].of \in 1..MCP!Cur'
      BY <1>1, <1>2, <1>3, <2>1, <3>1 DEF MCP!Cur
    <3>4. MCP!AnswersMatch'
      <4>1. Len(out') \in Nat /\ next \in Nat /\ inbox[next] = "huge" /\ inbox' = inbox
        BY <1>1, <1>2, <2>1, <3>1 DEF MCP!Kind
      <4>2. \A j \in 1..Len(out') :
              /\ out'[j].id \in {0, out'[j].of}
              /\ out'[j].id = 0 <=> inbox[out'[j].of] \in {"bytes", "junk", "huge", "orphan", "stray"}
              /\ inbox[out'[j].of] \notin {"blank", "note"}
        BY <1>2, <3>1, <4>1 DEF MCP!AnswersMatch, MCP!Kind
      <4>3. \A j \in 1..Len(out') : \A k \in 1..(j - 1) : out'[k].of < out'[j].of
        <5>1. \A k \in 1..Len(out) : out'[k].of < next
          BY <1>3, <3>1
        <5>2. \A j \in 1..Len(out) : \A k \in 1..(j - 1) : out'[k].of < out'[j].of
          BY <1>2, <3>1 DEF MCP!AnswersMatch
        <5>3. out'[Len(out) + 1].of = next /\ Len(out') = Len(out) + 1 /\ Len(out) \in Nat
          BY <1>2, <3>1
        <5> QED
          BY <5>1, <5>2, <5>3
      <4>4. ASSUME NEW i \in MCP!Done', inbox[i] \in MCP!Requests
            PROVE  \E j \in 1..Len(out') : out'[j].of = i
        <5>1. PICK j \in 1..Len(out) : out[j].of = i
          BY <3>2, <4>4 DEF MCP!AnswersMatch, MCP!Kind
        <5> QED
          BY <1>2, <3>1, <5>1
      <4> QED
        BY <4>1, <4>2, <4>3, <4>4 DEF MCP!AnswersMatch, MCP!Kind
    <3> QED
      BY <2>1, <3>3, <3>4 DEF Waited
  <2> QED
    BY <2>2, <2>3
<1> QED
  BY <1>6, <1>7, <1>8, <1>9, <1>10, <1>11, <1>12, <1>13, <1>15, <1>16, <1>17, <1>18 DEF MCP!Next,
     MCP!Serve

LEMMA RunsStep ==
    /\ MCP!McpServerAssumption /\ SessionTypes /\ Waited /\ ThreadsTrue /\ ThreadsTrue'
    /\ MCP!OneRunPerCall
    /\ [MCP!Next]_MCP!vars
    => MCP!OneRunPerCall'
<1> SUFFICES ASSUME MCP!McpServerAssumption, SessionTypes, Waited, ThreadsTrue, ThreadsTrue',
                    MCP!OneRunPerCall, [MCP!Next]_MCP!vars
             PROVE  MCP!OneRunPerCall'
  OBVIOUS
<1>1. /\ inbox' \in Seq(MCP!Kinds) /\ Len(inbox) \in Nat /\ Len(inbox') \in Nat
      /\ Len(inbox) <= Len(inbox')
      /\ Len(inbox') <= MaxFrames /\ \A i \in 1..Len(inbox) : inbox'[i] = inbox[i]
  BY InboxKept
<1>2. /\ next \in 1..(Len(inbox) + 1) /\ next \in Nat /\ out \in Seq(Answers) /\ Len(out) \in Nat
      /\ inbox \in Seq(MCP!Kinds) /\ runs \in [MCP!Frames -> Nat] /\ MaxFrames \in Nat
  BY <1>1 DEF SessionTypes, MCP!TypeOK, MCP!McpServerAssumption
<1>3. \A j \in 1..Len(out) :
        out[j].of \in 1..Len(inbox) /\ out[j].of \in MCP!Frames
        /\ inbox'[out[j].of] = inbox[out[j].of]
  <2>1. Len(inbox) <= MaxFrames
    BY DEF SessionTypes
  <2>2. \A j \in 1..Len(out) : out[j].of \in 1..Len(inbox)
    BY <1>1, <1>2 DEF Waited, MCP!Cur
  <2> QED
    BY SMTT(30), <1>1, <1>2, <2>1, <2>2 DEF MCP!Frames
<1>4. \A i \in MCP!Frames : runs'[i] <= 1
  BY DEF ThreadsTrue
<1>5. ASSUME out' = out, \A i \in MCP!Frames : runs[i] = 1 => runs'[i] = 1 PROVE MCP!OneRunPerCall'
  BY <1>3, <1>4, <1>5 DEF MCP!OneRunPerCall, MCP!Kind
<1>6. ASSUME NEW f \in 1..Len(inbox), runs' = runs, inbox' = inbox, NEW id \in Nat,
             NEW what \in {"parse", "result", "error"}, MCP!Answer(id, what, f),
             what = "result" /\ MCP!Kind(f) = "run" => runs[f] = 1
      PROVE  MCP!OneRunPerCall'
  <2>1. f \in Nat
    BY <1>1
  <2>2. /\ out' \in Seq(Answers) /\ Len(out') \in Nat
        /\ \/ hup /\ mcpPc' = "closed" /\ exit' = "hup" /\ out' = out
           \/ /\ mcpPc' = "read" /\ exit' = exit /\ Len(out') = Len(out) + 1
              /\ out'[Len(out) + 1] = [id |-> id, what |-> what, of |-> f]
              /\ \A j \in 1..Len(out) : out'[j] = out[j]
    BY <1>2, <1>6, <2>1, AnswerGrows
  <2>3. CASE out' = out
    BY <1>5, <1>6, <2>3
  <2>4. CASE /\ Len(out') = Len(out) + 1 /\ \A j \in 1..Len(out) : out'[j] = out[j]
             /\ out'[Len(out) + 1] = [id |-> id, what |-> what, of |-> f]
    <3>1. ASSUME NEW j \in 1..Len(out'), inbox'[out'[j].of] = "run", out'[j].what = "result"
          PROVE  runs'[out'[j].of] = 1
      <4>1. CASE j = Len(out) + 1
        BY <1>6, <2>4, <3>1, <4>1 DEF MCP!Kind
      <4>2. CASE j \in 1..Len(out)
        <5>1. out'[j] = out[j] /\ inbox'[out[j].of] = inbox[out[j].of] /\ out[j].of \in MCP!Frames
          BY <1>3, <2>4, <4>2
        <5> QED
          BY <1>6, <3>1, <4>2, <5>1 DEF MCP!Kind, MCP!OneRunPerCall
      <4> QED
        BY <1>2, <2>4, <4>1, <4>2
    <3> QED
      BY <1>4, <3>1 DEF MCP!OneRunPerCall, MCP!Kind
  <2> QED
    BY <2>2, <2>3, <2>4
<1>7. CASE UNCHANGED MCP!vars \/ MCP!Hang \/ MCP!Eof \/ MCP!ReadSilent \/ MCP!Call \/ MCP!AskAgain
           \/ MCP!Tick
  BY <1>5, <1>7 DEF MCP!vars, MCP!Hang, MCP!Eof, MCP!ReadSilent, MCP!Call, MCP!AskAgain, MCP!Tick
<1>8. ASSUME NEW kind \in MCP!Kinds, MCP!Send(kind) PROVE MCP!OneRunPerCall'
  BY <1>5, <1>8 DEF MCP!Send
<1>9. ASSUME NEW i \in MCP!Frames,
             MCP!Connect(i) \/ MCP!ConnectFails(i) \/ MCP!HubAnswers(i) \/ MCP!Break(i)
             \/ MCP!Oversize(i)
                                   \/ MCP!HubRefuses(i, "refused") \/ MCP!HubRefuses(i, "pending")
      PROVE  MCP!OneRunPerCall'
  BY <1>5, <1>9 DEF MCP!Connect, MCP!ConnectFails, MCP!HubAnswers, MCP!Break, MCP!Oversize,
     MCP!HubRefuses
<1>10. ASSUME NEW i \in MCP!Frames, MCP!HubActs(i) PROVE MCP!OneRunPerCall'
  <2>1. worker[i] = "sent" /\ out' = out /\ \A d \in MCP!Frames \ {i} : runs'[d] = runs[d]
    BY <1>2, <1>10 DEF MCP!HubActs
  <2>2. runs[i] = 0
    BY <2>1 DEF ThreadsTrue
  <2> QED
    BY <1>5, <2>1, <2>2
<1>11. CASE MCP!ReadJunk
  <2>1. next \in 1..Len(inbox) /\ runs' = runs /\ inbox' = inbox /\ MCP!Answer(0, "parse", next)
    BY <1>1, <1>2, <1>11 DEF MCP!ReadJunk, MCP!Ready, MCP!client
  <2> QED
    BY <1>6, <2>1
<1>12. CASE MCP!HandleLocally
  <2>1. next \in 1..Len(inbox) /\ runs' = runs /\ inbox' = inbox
        /\ MCP!Answer(MCP!Id(next), "result", next) /\ MCP!Kind(next) # "run"
        /\ MCP!Id(next) \in Nat
    BY <1>1, <1>2, <1>12 DEF MCP!HandleLocally, MCP!Ready, MCP!client, MCP!Hosted, MCP!Id
  <2> QED
    BY <1>2, <1>6, <2>1
<1>13. CASE MCP!Respond \/ MCP!RespondPending \/ MCP!Abandon
  <2>1. mcpPc = "wait" /\ MCP!Cur \in 1..Len(inbox) /\ MCP!Cur \in MCP!Frames /\ MCP!Cur < next
        /\ runs' = runs /\ inbox' = inbox /\ MCP!Id(MCP!Cur) \in Nat
    BY <1>1, <1>2, <1>13 DEF MCP!Respond, MCP!RespondPending, MCP!Abandon, Waited, MCP!Cur,
       MCP!client, MCP!Frames, MCP!Id
  <2>2. \E what \in {"result", "error"} :
          MCP!Answer(MCP!Id(MCP!Cur), what, MCP!Cur) /\ (what = "result" => result[MCP!Cur] = "ok")
    BY <1>13 DEF MCP!Respond, MCP!RespondPending, MCP!Abandon
  <2>3. result[MCP!Cur] = "ok" /\ MCP!Kind(MCP!Cur) = "run" => runs[MCP!Cur] = 1
    BY <2>1 DEF ThreadsTrue
  <2> QED
    BY <1>6, <2>1, <2>2, <2>3
<1>14. CASE MCP!ReadHuge
  <2>1. CASE hup
    BY <1>5, <1>14, <2>1 DEF MCP!ReadHuge
  <2>2. CASE ~hup
    <3>1. /\ runs' = runs /\ Len(out') = Len(out) + 1 /\ out'[Len(out) + 1].what = "parse"
          /\ \A j \in 1..Len(out) : out'[j] = out[j]
      BY <1>2, <1>14, <2>2 DEF MCP!ReadHuge
    <3>2. ASSUME NEW j \in 1..Len(out'), inbox'[out'[j].of] = "run", out'[j].what = "result"
          PROVE  runs'[out'[j].of] = 1
      <4>1. j \in 1..Len(out)
        BY <1>2, <3>1, <3>2
      <4>2. out'[j] = out[j] /\ inbox'[out[j].of] = inbox[out[j].of] /\ out[j].of \in MCP!Frames
        BY <1>3, <3>1, <4>1
      <4> QED
        BY <3>1, <3>2, <4>1, <4>2 DEF MCP!Kind, MCP!OneRunPerCall
    <3> QED
      BY <1>4, <3>2 DEF MCP!OneRunPerCall, MCP!Kind
  <2> QED
    BY <2>1, <2>2
<1> QED
  BY <1>7, <1>8, <1>9, <1>10, <1>11, <1>12, <1>13, <1>14 DEF MCP!Next, MCP!Serve

----------------------------------------------------------------------------
(* What holds of the machine *)

\* Whatever a machine runs is a behaviour of each of its protocols.
LEMMA PartsRun == MachineSpec => Spec /\ SI!Spec /\ MCP!Spec
<1>1. MachineInit => Init /\ SI!Init /\ MCP!Init
  BY DEF MachineInit
<1>2. [MachineNext]_parts => [Next]_vars
  BY DEF MachineNext, parts, vars
<1>3. [MachineNext]_parts => [SI!Next]_SI!vars
  BY DEF MachineNext, parts, login, SI!vars, SI!cmd
<1>4. [MachineNext]_parts => [MCP!Next]_MCP!vars
  BY DEF MachineNext, parts, mcp, MCP!vars, MCP!client, MCP!threads
<1> QED
  BY <1>1, <1>2, <1>3, <1>4, PTL DEF MachineSpec, Spec, SI!Spec, MCP!Spec

\* The invariant of the update, the sign-ins and the MCP session together.
THEOREM MachineInvariant == MachineSpec => [](UpdateInv /\ SI!LoginInv /\ SessionInv)
<1>1. Spec => []UpdateInv
  <2>1. Init => UpdateInv
    BY UpdateInit
  <2>2. UpdateInv /\ [Next]_vars => UpdateInv'
    BY UpdateStep
  <2> QED
    BY <2>1, <2>2, PTL DEF Spec
<1>2. MCP!Spec => []SessionInv
  <2>1. MCP!Init => SessionInv
    BY MachineAssumption, SessionInit
  <2>2. SessionInv /\ [MCP!Next]_MCP!vars => SessionInv'
    BY MachineAssumption, TypesStep, ThreadsStep, AnswersStep, RunsStep DEF SessionInv
  <2> QED
    BY <2>1, <2>2, PTL DEF MCP!Spec
<1>3. SI!Spec => []SI!LoginInv
  BY MachineAssumption, SI!LoginInvariant
<1> QED
  BY <1>1, <1>2, <1>3, PartsRun, PTL

\* Every variable of the three protocols keeps its type, what is live was minted or is the
\* user's, no call of the MCP server lasts beyond its deadline (hub.rs 517), and only on
\* Windows is the program ever unnamed.
THEOREM MachineTypeCorrect == MachineSpec => []MachineTypeOK
<1>1. UpdateInv => TypeOK
  BY TypedIsTypeOK DEF UpdateInv
<1>2. UpdateInv /\ SI!LoginInv /\ SessionInv => MachineTypeOK
  BY <1>1 DEF MachineTypeOK, SI!LoginInv, SessionInv, SessionTypes
<1> QED
  BY <1>2, MachineInvariant, PTL

\* However many updates race and wherever they are killed, the program's name is only
\* ever given to a release that was written to the end and approved twice.
THEOREM OnlyApprovedRuns == MachineSpec => []OnlyApproved
<1>1. UpdateInv => OnlyApproved
  BY DEF UpdateInv
<1> QED
  BY <1>1, MachineInvariant, PTL

\* A copy of the program is always left, and its name is lost only by a kill between
\* the two renames, or by a second rename that fails and is not undone: because what was
\* parked has been swept, or because the rename back, whose error is ignored, fails as well.
THEOREM ACopySurvives == MachineSpec => []LastCopySurvives
<1>1. UpdateInv => LastCopySurvives
  BY DEF UpdateInv
<1> QED
  BY <1>1, MachineInvariant, PTL

\* However sign-ins and sign-outs overlap, fail and are killed, the account has at most one
\* session nobody can name for each mishap and each overlap; at rest and unharmed, what is
\* live is what the file names; and no logout claims a revocation that was not confirmed.
THEOREM SessionsAreAccounted == MachineSpec => []SlotsAccounted
<1>1. SI!Spec => []SI!SlotsAccounted
  BY MachineAssumption, SI!SlotsAreAccounted
<1> QED
  BY <1>1, PartsRun, PTL DEF SlotsAccounted

\* A key the user brought stays live whatever is signed in or out over it.
THEOREM BroughtKeysStay == MachineSpec => []UserKeysSpared
<1>1. SI!LoginInv => UserKeysSpared
  BY DEF SI!LoginInv, UserKeysSpared
<1> QED
  BY <1>1, MachineInvariant, PTL

\* Whatever the client sends and the network does, the answers are those of the requests,
\* in their order, one each, and none is missing when the server is done.
THEOREM RequestsAreAnswered == MachineSpec => []AnswersMatch
<1>1. SessionInv => AnswersMatch
  BY DEF SessionInv, AnswersMatch
<1> QED
  BY <1>1, MachineInvariant, PTL

\* However late, lost or repeated the requests to the hub are, a frame starts one run at
\* most, and one that was answered with success started one.
THEOREM RunsStartOnce == MachineSpec => []OneRunPerCall
<1>1. SessionInv => OneRunPerCall
  BY DEF SessionInv, OneRunPerCall
<1> QED
  BY <1>1, MachineInvariant, PTL

=============================================================================
