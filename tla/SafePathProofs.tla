--------------------------- MODULE SafePathProofs ---------------------------
(* Proofs about SafePath: its operations leave no debris, and implement the  *)
(* atomic file that the rest of the program takes them for.                  *)
EXTENDS SafePath, TLAPS

----------------------------------------------------------------------------
(* The inductive invariant *)

Steps == {"open", "make", "reopen", "look", "stage", "fill", "flush", "install", "untemp",
          "sync", "detach", "bury", "done"}
Acted == {"untemp", "sync", "bury"}
Fates == {"none", "ok", "absent", "failed", "late", "killed"}
Entry == [is : Theirs \cup Procs, by : Procs \cup {User}]

\* The types, with the functions' domains.
Typed ==
    /\ os \in {"unix", "windows"} /\ kind \in [Procs -> Kinds]
    /\ name \in made \cup {"link", None} /\ made \subseteq Dirs \ {Outside} /\ fresh \subseteq made
    /\ log \in [Dirs -> Seq(Entry)] /\ \A d \in Dirs : Len(log[d]) > 0
    /\ pc \in [Procs -> Steps] /\ fate \in [Procs -> Fates]
    /\ held \in [Procs -> Dirs \cup {None}] /\ temp \in [Procs -> BOOLEAN]
    /\ data \in [Procs -> {"none", "part", "written", "synced", "torn"}]
    /\ grave \in [Procs -> Theirs \cup Procs]
    /\ troubles \in Nat /\ touches \in Nat
    /\ \A p \in Procs : fate[p] = "none" <=> Running(p)

\* Which steps a command takes, and that it has opened a directory by then.
OnItsWay ==
    \A p \in Procs :
        /\ pc[p] \in {"stage", "fill", "flush"} => kind[p] \in {"write", "create"}
        /\ pc[p] = "install" => kind[p] \in {"write", "create", "symlink"}
        /\ pc[p] = "untemp" => kind[p] = "create"
        /\ pc[p] \in {"untemp", "sync"} => os = "unix"
        /\ pc[p] \in {"detach", "bury"} => Removes(p)
        /\ pc[p] = "bury" => os = "windows"
        /\ pc[p] \notin {"open", "make", "reopen", "done"} => held[p] \in Dirs \ {Outside}

\* A file that has a name is whole and durable, and it is its writer's.
Whole ==
    \A d \in Dirs : \A i \in 1..Len(log[d]) :
        log[d][i].is \in Procs => log[d][i].by = log[d][i].is /\ data[log[d][i].is] = "synced"

\* ... as is one that is about to be given its name.
Sound ==
    /\ Whole
    /\ \A p \in Procs : pc[p] = "install" /\ kind[p] # "symlink" => data[p] = "synced"

\* A command that has not acted has left no trace in any directory, and one that has
\* only where it acted; on Windows what others than the person do is durable at once.
Traced ==
    \A d \in Dirs : \A i \in 1..Len(log[d]) :
        /\ \A p \in Procs : log[d][i].by = p => ~Running(p) \/ (pc[p] \in Acted /\ d = held[p])
        /\ os = "windows" /\ i > 1 => log[d][i].by = User

\* What is lying about belongs to a command that is not done with it, or could not be.
Tidy ==
    \A p \in Procs :
        /\ temp[p] => pc[p] \in {"fill", "flush", "install", "untemp"} \/ fate[p] \in {"late", "killed"}
        /\ grave[p] # None => pc[p] = "bury" \/ fate[p] \in {"late", "killed"}
        /\ pc[p] = "bury" => grave[p] # None

IInv == Typed /\ OnItsWay /\ Sound /\ Traced /\ Tidy /\ NoDebris

----------------------------------------------------------------------------
(* What the steps do to the entries of a directory *)

\* Every entry there is now was there before, at the front if it is at the front no more
\* than then, or is the new one.
OldOr(d, i, e) ==
    \/ \E j \in 1..Len(log[d]) : log'[d][i] = log[d][j] /\ (i > 1 => j > 1)
    \/ log'[d][i] = e

\* The disk after a command has put an entry into the directory that it holds.
LEMMA PutLog ==
    ASSUME Typed, NEW p \in Procs, held[p] \in Dirs, NEW e \in Theirs \cup Procs, Put(p, e)
    PROVE  /\ log' \in [Dirs -> Seq(Entry)] /\ \A d \in Dirs : Len(log'[d]) > 0
           /\ \A d \in Dirs \ {held[p]} : log'[d] = log[d]
           /\ \A i \in 1..Len(log'[held[p]]) : OldOr(held[p], i, [is |-> e, by |-> p])
           /\ os = "windows" => Len(log'[held[p]]) = 1
<1> DEFINE entry == [is |-> e, by |-> p]
           old == log[held[p]]
           tail == IF os = "windows" THEN <<entry>> ELSE Append(old, entry)
<1>1. entry \in Entry /\ old \in Seq(Entry) /\ Len(old) > 0
  BY DEF Typed, Entry
<1>2. log' = [log EXCEPT ![held[p]] = tail]
  BY DEF Put
<1>3. tail \in Seq(Entry) /\ Len(tail) > 0 /\ (os = "windows" => Len(tail) = 1)
  BY <1>1
<1>4. \A i \in 1..Len(tail) : tail[i] = entry \/ (i \in 1..Len(old) /\ tail[i] = old[i])
  BY <1>1
<1>5. log'[held[p]] = tail /\ \A d \in Dirs \ {held[p]} : log'[d] = log[d]
  BY <1>2 DEF Typed
<1>6. log' \in [Dirs -> Seq(Entry)] /\ \A d \in Dirs : Len(log'[d]) > 0
  BY <1>2, <1>3, <1>5 DEF Typed
<1> QED
  BY <1>3, <1>4, <1>5, <1>6 DEF OldOr

\* ... after the person has touched the name.
LEMMA TouchLog ==
    ASSUME Typed, NEW e \in Theirs, Touch(e)
    PROVE  /\ name \in Dirs \ {Outside}
           /\ log' \in [Dirs -> Seq(Entry)] /\ \A d \in Dirs : Len(log'[d]) > 0
           /\ \A d \in Dirs \ {name} : log'[d] = log[d]
           /\ log'[name] = Append(log[name], [is |-> e, by |-> User])
           /\ \A i \in 1..Len(log'[name]) : OldOr(name, i, [is |-> e, by |-> User])
<1> DEFINE entry == [is |-> e, by |-> User]
           old == log[name]
<1>1. name \in Dirs \ {Outside}
  BY DEF Touch, Typed
<1>2. entry \in Entry /\ old \in Seq(Entry) /\ Len(old) > 0
  BY <1>1 DEF Typed, Entry
<1>3. Append(old, entry) \in Seq(Entry) /\ Len(Append(old, entry)) = Len(old) + 1
  BY <1>2
<1>4. \A i \in 1..Len(Append(old, entry)) :
        Append(old, entry)[i] = entry \/ (i \in 1..Len(old) /\ Append(old, entry)[i] = old[i])
  BY <1>2
<1>5. log' = [log EXCEPT ![name] = Append(old, entry)]
  BY DEF Touch
<1>6. log'[name] = Append(old, entry) /\ \A d \in Dirs \ {name} : log'[d] = log[d]
  BY <1>1, <1>5 DEF Typed
<1>7. log' \in [Dirs -> Seq(Entry)] /\ \A d \in Dirs : Len(log'[d]) > 0
  BY <1>2, <1>3, <1>5, <1>6 DEF Typed
<1> QED
  BY <1>1, <1>4, <1>6, <1>7 DEF OldOr

\* ... after a directory was made durable.
LEMMA SyncLog ==
    ASSUME Typed, NEW h \in Dirs, log' = [log EXCEPT ![h] = <<Last(@)>>]
    PROVE  /\ log' \in [Dirs -> Seq(Entry)] /\ \A d \in Dirs : Len(log'[d]) > 0
           /\ \A d \in Dirs \ {h} : log'[d] = log[d]
           /\ log'[h] = <<Last(log[h])>> /\ Len(log'[h]) = 1
           /\ \E j \in 1..Len(log[h]) : log'[h][1] = log[h][j]
<1>1. log[h] \in Seq(Entry) /\ Len(log[h]) > 0 /\ Len(log[h]) \in Nat
  BY DEF Typed
<1>2. Last(log[h]) = log[h][Len(log[h])] /\ Len(log[h]) \in 1..Len(log[h]) /\ Last(log[h]) \in Entry
  BY <1>1 DEF Last
<1>3. <<Last(log[h])>> \in Seq(Entry) /\ Len(<<Last(log[h])>>) = 1
  BY <1>2
<1>4. log'[h] = <<Last(log[h])>> /\ \A d \in Dirs \ {h} : log'[d] = log[d]
  BY DEF Typed
<1>5. log' \in [Dirs -> Seq(Entry)] /\ \A d \in Dirs : Len(log'[d]) > 0
  BY <1>3, <1>4 DEF Typed
<1> QED
  BY <1>2, <1>3, <1>4, <1>5

\* ... and after the power was gone.
LEMMA CutLog ==
    ASSUME Typed, PowerCut
    PROVE  /\ log' \in [Dirs -> Seq(Entry)]
           /\ \A d \in Dirs : /\ Len(log'[d]) = 1
                             /\ \E j \in 1..Len(log[d]) : log'[d] = <<log[d][j]>>
<1>1. PICK at \in [Dirs -> 1..(1 + MaxTouches + Cardinality(Procs))] :
        /\ \A d \in Dirs : at[d] <= Len(log[d])
        /\ log' = [d \in Dirs |-> <<log[d][at[d]]>>]
  BY DEF PowerCut
<1>2. ASSUME NEW d \in Dirs
      PROVE  at[d] \in 1..Len(log[d]) /\ log[d][at[d]] \in Entry
  <2>1. at[d] \in 1..(1 + MaxTouches + Cardinality(Procs)) /\ at[d] <= Len(log[d])
    BY <1>1
  <2>2. log[d] \in Seq(Entry) /\ Len(log[d]) \in Nat
    BY DEF Typed
  <2>3. at[d] \in 1..Len(log[d])
    BY <2>1, <2>2
  <2> QED
    BY <2>2, <2>3
<1>3. \A d \in Dirs : <<log[d][at[d]]>> \in Seq(Entry) /\ Len(<<log[d][at[d]]>>) = 1
  BY <1>2
<1> QED
  BY <1>1, <1>2, <1>3

\* The entry a command sees is one of the entries that may come back.
LEMMA LeafTyped ==
    ASSUME Typed, NEW p \in Procs, held[p] \in Dirs
    PROVE  /\ Leaf(p) \in Theirs \cup Procs
           /\ \E i \in 1..Len(log[held[p]]) : Leaf(p) = log[held[p]][i].is
<1>1. log[held[p]] \in Seq(Entry) /\ Len(log[held[p]]) > 0 /\ Len(log[held[p]]) \in Nat
  BY DEF Typed
<1>2. Len(log[held[p]]) \in 1..Len(log[held[p]]) /\ log[held[p]][Len(log[held[p]])] \in Entry
  BY <1>1
<1> QED
  BY <1>2 DEF Leaf, Last, Entry

----------------------------------------------------------------------------
(* Typing *)

LEMMA TypeInit == SafePathAssumption /\ Init => Typed
<1> SUFFICES ASSUME SafePathAssumption, Init PROVE Typed
  OBVIOUS
<1>1. \E e \in Theirs : log = [d \in Dirs |-> <<[is |-> IF d = "old" THEN e ELSE None, by |-> User]>>]
  BY DEF Init
<1>2. log \in [Dirs -> Seq(Entry)] /\ \A d \in Dirs : Len(log[d]) > 0
  BY <1>1 DEF Entry, Theirs
<1>3. name \in {"old", None}
  BY DEF Init
<1> QED
  BY <1>2, <1>3 DEF Init, Typed, Steps, Fates, Dirs, Outside, Running, Theirs

LEMMA TypeStep == SafePathAssumption /\ Typed /\ OnItsWay /\ [Next]_vars => Typed'
<1> SUFFICES ASSUME SafePathAssumption, Typed, OnItsWay, [Next]_vars PROVE Typed'
  OBVIOUS
<1> USE DEF SafePathAssumption, Typed, Steps, Fates, Running, Go, End, Hold, Still, Trouble, disk
<1>1. ASSUME NEW p \in Procs, Step(p) \/ StageFails(p) \/ DetachFails(p) \/ Kill(p)
      PROVE  Typed'
  <2>1. CASE OpenParent(p)
    BY <2>1 DEF OpenParent
  <2>2. CASE ParentMissing(p)
    BY <2>2 DEF ParentMissing
  <2>3. CASE MakeParent(p)
    BY <2>3 DEF MakeParent
  <2>4. CASE ParentRefused(p)
    BY <2>4 DEF ParentRefused
  <2>5. CASE LeafKind(p)
    BY <2>5 DEF LeafKind, After
  <2>6. CASE Stage(p)
    BY <2>6 DEF Stage
  <2>7. CASE Install(p)
    <3>1. held[p] \in Dirs
      BY <2>7 DEF OnItsWay, Install
    <3>2. /\ log' \in [Dirs -> Seq(Entry)] /\ \A d \in Dirs : Len(log'[d]) > 0
      BY <2>7, <3>1, PutLog DEF Install, Theirs
    <3> QED
      BY <2>7, <3>2 DEF Install
  <2>8. CASE InstallFails(p)
    BY <2>8 DEF InstallFails
  <2>9. CASE Untemp(p)
    <3>1. \/ temp' = [temp EXCEPT ![p] = FALSE] /\ Go(p, "sync") /\ UNCHANGED troubles
          \/ Trouble /\ End(p, "late") /\ UNCHANGED temp
      BY <2>9 DEF Untemp
    <3>2. troubles' \in Nat
      BY <3>1
    <3>4. temp' \in [Procs -> BOOLEAN]
      <4>1. temp' = temp \/ temp' = [temp EXCEPT ![p] = FALSE]
        BY <3>1
      <4> QED
        BY <4>1
    <3>3. /\ pc' \in [Procs -> Steps] /\ fate' \in [Procs -> Fates] /\ held' = held
          /\ \A q \in Procs : fate'[q] = "none" <=> pc'[q] # "done"
      BY <2>9, <3>1 DEF Untemp
    <3> QED
      BY <2>9, <3>2, <3>3, <3>4 DEF Untemp
  <2>10. CASE SyncParent(p)
    <3>1. held[p] \in Dirs
      BY <2>10 DEF OnItsWay, SyncParent
    <3>2. /\ log' \in [Dirs -> Seq(Entry)] /\ \A d \in Dirs : Len(log'[d]) > 0
      BY <2>10, <3>1, SyncLog DEF SyncParent
    <3>3. troubles' \in Nat
      BY <2>10 DEF SyncParent
    <3>4. /\ pc' \in [Procs -> Steps] /\ fate' \in [Procs -> Fates] /\ held' = held
          /\ \A q \in Procs : fate'[q] = "none" <=> pc'[q] # "done"
      BY <2>10 DEF SyncParent
    <3> QED
      BY <2>10, <3>2, <3>3, <3>4 DEF SyncParent
  <2>11. CASE Unlink(p)
    <3>1. held[p] \in Dirs
      BY <2>11 DEF OnItsWay, Unlink
    <3>2. /\ log' \in [Dirs -> Seq(Entry)] /\ \A d \in Dirs : Len(log'[d]) > 0
      BY <2>11, <3>1, PutLog DEF Unlink, Theirs
    <3> QED
      BY <2>11, <3>2 DEF Unlink
  <2>12. CASE MoveAside(p)
    <3>1. held[p] \in Dirs
      BY <2>12 DEF OnItsWay, MoveAside
    <3>2. /\ log' \in [Dirs -> Seq(Entry)] /\ \A d \in Dirs : Len(log'[d]) > 0
      BY <2>12, <3>1, PutLog DEF MoveAside, Theirs
    <3>3. Leaf(p) \in Theirs \cup Procs
      BY <3>1, LeafTyped
    <3>4. grave' \in [Procs -> Theirs \cup Procs]
      BY <2>12, <3>3 DEF MoveAside
    <3>5. /\ pc' \in [Procs -> Steps] /\ fate' \in [Procs -> Fates] /\ held' = held
          /\ \A q \in Procs : fate'[q] = "none" <=> pc'[q] # "done"
      <4>1. End(p, "absent") \/ Go(p, "bury")
        BY <2>12 DEF MoveAside
      <4>2. pc[p] # "done"
        BY <2>12 DEF MoveAside
      <4> QED
        BY <4>1, <4>2
    <3> QED
      BY <2>12, <3>2, <3>4, <3>5 DEF MoveAside
  <2>13. CASE Bury(p)
    <3>1. grave' \in [Procs -> Theirs \cup Procs] /\ troubles' \in Nat
      BY <2>13 DEF Bury, Theirs
    <3>2. /\ pc' \in [Procs -> Steps] /\ fate' \in [Procs -> Fates] /\ held' = held
          /\ \A q \in Procs : fate'[q] = "none" <=> pc'[q] # "done"
      BY <2>13 DEF Bury
    <3> QED
      BY <2>13, <3>1, <3>2 DEF Bury
  <2>14. CASE StageFails(p)
    BY <2>14 DEF StageFails
  <2>15. CASE DetachFails(p)
    BY <2>15 DEF DetachFails
  <2>16. CASE Kill(p)
    BY <2>16 DEF Kill
  <2> QED
    BY <1>1, <2>1, <2>2, <2>3, <2>4, <2>5, <2>6, <2>7, <2>8, <2>9, <2>10, <2>11, <2>12, <2>13, <2>14, <2>15, <2>16 DEF Step
<1>2. CASE PowerCut
  <2>1. log' \in [Dirs -> Seq(Entry)] /\ \A d \in Dirs : Len(log'[d]) > 0
    <3>1. log' \in [Dirs -> Seq(Entry)] /\ \A d \in Dirs : Len(log'[d]) = 1
      BY <1>2, CutLog
    <3>2. \A n : n = 1 => n > 0
      OBVIOUS
    <3> QED
      BY ONLY <3>1, <3>2
  <2> QED
    BY <1>2, <2>1 DEF PowerCut
<1>3. ASSUME NEW e \in Theirs, Touch(e) PROVE Typed'
  <2>1. log' \in [Dirs -> Seq(Entry)] /\ \A d \in Dirs : Len(log'[d]) > 0
    BY <1>3, TouchLog
  <2> QED
    BY <1>3, <2>1 DEF Touch, Touched, cmd
<1>4. ASSUME NEW other \in made \cup {"link", None}, Swap(other) PROVE Typed'
  BY <1>4 DEF Swap, Touched, cmd
<1>5. CASE UNCHANGED vars
  BY <1>5 DEF vars, cmd
<1> QED
  BY <1>1, <1>2, <1>3, <1>4, <1>5 DEF Next

----------------------------------------------------------------------------
(* The invariant *)

LEMMA InvInit == SafePathAssumption /\ Init => IInv
<1> SUFFICES ASSUME SafePathAssumption, Init PROVE IInv
  OBVIOUS
<1>1. Typed
  BY TypeInit
<1>2. PICK e \in Theirs :
        log = [d \in Dirs |-> <<[is |-> IF d = "old" THEN e ELSE None, by |-> User]>>]
  BY DEF Init
<1>3. \A d \in Dirs : Len(log[d]) = 1 /\ log[d][1].by = User /\ log[d][1].is \in Theirs
  BY <1>2 DEF Theirs
<1>4. Sound
  BY <1>3 DEF Init, Sound, Whole, SafePathAssumption, Theirs, Directories
<1>5. Traced
  BY <1>3 DEF Init, Traced, SafePathAssumption
<1> QED
  BY <1>1, <1>4, <1>5 DEF Init, IInv, OnItsWay, Tidy, NoDebris

\* The directories keep entries of before, and one of them may have a new one.
OneNew(where, new) ==
    \A d \in Dirs : \A i \in 1..Len(log'[d]) :
        \/ \E j \in 1..Len(log[d]) : log'[d][i] = log[d][j] /\ (i > 1 => j > 1)
        \/ d = where /\ log'[d][i] = new /\ (os = "windows" /\ i > 1 => new.by = User)

\* A command that has acted or is done stays so, and a durable file durable.
NoneUndone ==
    \A q \in Procs :
        /\ pc[q] = "done" => pc'[q] = "done"
        /\ pc[q] \in Acted => pc'[q] \in Acted \cup {"done"} /\ held'[q] = held[q]
        /\ data[q] = "synced" => data'[q] = "synced"

\* Such a new entry, of a command that acts in the directory that it holds or of the person,
\* keeps the traces true.
LEMMA TraceStep ==
    ASSUME Whole, Traced, UNCHANGED os, NEW where \in Dirs, NEW new, OneNew(where, new),
           new.is \in Procs => new.by = new.is /\ data[new.is] = "synced",
           \A q \in Procs : new.by = q => pc'[q] \in Acted \cup {"done"} /\ held'[q] = where,
           NoneUndone
    PROVE  Traced' /\ Whole'
<1>1. SUFFICES ASSUME NEW d \in Dirs, NEW i \in 1..Len(log'[d])
      PROVE  /\ \A q \in Procs : log'[d][i].by = q =>
                     pc'[q] = "done" \/ (pc'[q] \in Acted /\ d = held'[q])
             /\ os = "windows" /\ i > 1 => log'[d][i].by = User
             /\ log'[d][i].is \in Procs
                  => log'[d][i].by = log'[d][i].is /\ data'[log'[d][i].is] = "synced"
  BY DEF Traced, Whole, Running
<1>2. CASE \E j \in 1..Len(log[d]) : log'[d][i] = log[d][j] /\ (i > 1 => j > 1)
  <2>1. PICK j \in 1..Len(log[d]) : log'[d][i] = log[d][j] /\ (i > 1 => j > 1)
    BY <1>2
  <2>2. /\ \A q \in Procs : log[d][j].by = q => pc[q] = "done" \/ (pc[q] \in Acted /\ d = held[q])
        /\ os = "windows" /\ j > 1 => log[d][j].by = User
    BY DEF Traced, Running
  <2>3. log[d][j].is \in Procs => log[d][j].by = log[d][j].is /\ data[log[d][j].is] = "synced"
    BY DEF Whole
  <2> DEFINE old == log[d][j]
  <2>4. log'[d][i] = old
    BY <2>1
  <2> HIDE DEF old
  <2>5. \A q \in Procs : old.by = q => pc'[q] = "done" \/ (pc'[q] \in Acted /\ d = held'[q])
    BY <2>2 DEF old, NoneUndone
  <2>6. old.is \in Procs => old.by = old.is /\ data'[old.is] = "synced"
    BY <2>3 DEF old, NoneUndone
  <2>7. os = "windows" /\ i > 1 => old.by = User
    BY <2>1, <2>2 DEF old
  <2> QED
    BY <2>4, <2>5, <2>6, <2>7
<1>3. CASE d = where /\ log'[d][i] = new /\ (os = "windows" /\ i > 1 => new.by = User)
  <2>1. \A q \in Procs : new.by = q => pc'[q] = "done" \/ (pc'[q] \in Acted /\ d = held'[q])
    BY <1>3
  <2>2. new.is \in Procs => new.by = new.is /\ data'[new.is] = "synced"
    BY DEF NoneUndone
  <2> QED
    BY <1>3, <2>1, <2>2
<1> QED
  BY <1>2, <1>3 DEF OneNew

\* A command that acts leaves its trace in the directory it holds, and a file under the
\* name only if that is its own, whole one.
LEMMA ActTraced ==
    ASSUME SafePathAssumption, Typed, Sound, Traced, NEW p \in Procs, held[p] \in Dirs,
           NEW e \in Theirs \cup Procs, Put(p, e), UNCHANGED <<os, kind, data, held>>,
           e \in Procs => e = p /\ data[p] = "synced", Running(p), pc[p] \notin Acted,
           pc'[p] \in Acted \cup {"done"}, \A q \in Procs \ {p} : pc'[q] = pc[q]
    PROVE  Sound' /\ Traced'
<1> DEFINE entry == [is |-> e, by |-> p]
<1>1. OneNew(held[p], entry)
  <2> SUFFICES ASSUME NEW d \in Dirs, NEW i \in 1..Len(log'[d])
      PROVE  \/ \E j \in 1..Len(log[d]) : log'[d][i] = log[d][j] /\ (i > 1 => j > 1)
             \/ d = held[p] /\ log'[d][i] = entry /\ (os = "windows" /\ i > 1 => entry.by = User)
    BY DEF OneNew
  <2>1. CASE d = held[p]
    <3>1. OldOr(d, i, entry) /\ (os = "windows" => Len(log'[d]) = 1)
      BY <2>1, PutLog
    <3>2. os = "windows" => ~(i > 1)
      BY <3>1
    <3> QED
      BY <2>1, <3>1, <3>2 DEF OldOr
  <2>2. CASE d # held[p]
    <3>1. log'[d] = log[d]
      BY <2>2, PutLog
    <3> QED
      BY <3>1
  <2> QED
    BY <2>1, <2>2
<1>2. entry.is = e /\ entry.by = p
  OBVIOUS
<1> HIDE DEF entry
<1>3. NoneUndone
  BY DEF NoneUndone, Running
<1>4. \A q \in Procs : entry.by = q => pc'[q] \in Acted \cup {"done"} /\ held'[q] = held[p]
  BY <1>2
<1>5. Traced' /\ Whole'
  <2>1. entry.is \in Procs => entry.by = entry.is /\ data[entry.is] = "synced"
    BY <1>2
  <2>2. Whole
    BY DEF Sound
  <2> QED
    BY <1>1, <1>3, <1>4, <2>1, <2>2, TraceStep
<1>6. \A q \in Procs : pc'[q] = "install" => pc[q] = "install"
  BY DEF Acted
<1> QED
  BY <1>5, <1>6 DEF Sound

\* A step that changes no directory keeps the traces true.
LEMMA QuietTraced ==
    ASSUME Sound, Traced, UNCHANGED <<os, kind, log>>, NoneUndone,
           \A q \in Procs : pc'[q] = "install" /\ kind[q] # "symlink" => data'[q] = "synced"
    PROVE  Sound' /\ Traced'
<1>1. Whole'
  BY DEF Sound, Whole, NoneUndone
<1>2. Traced'
  BY DEF Traced, Running, NoneUndone
<1> QED
  BY <1>1, <1>2 DEF Sound

\* The step that gives the name to a file or a link.
LEMMA InstallTraced ==
    ASSUME SafePathAssumption, Typed, OnItsWay, Sound, Traced, NEW p \in Procs, Install(p)
    PROVE  Sound' /\ Traced'
<1> DEFINE e == IF kind[p] = "symlink" THEN "link" ELSE p
<1>1. /\ pc[p] = "install" /\ Put(p, e) /\ UNCHANGED <<os, kind, data>>
      /\ Go(p, "untemp") \/ Go(p, "sync") \/ End(p, "ok")
  BY DEF Install, Still
<1>2. e \in Theirs \cup Procs /\ (e \in Procs => e = p /\ data[p] = "synced")
  BY <1>1 DEF Theirs, SafePathAssumption, Sound
<1>3. held[p] \in Dirs /\ Running(p) /\ pc[p] \notin Acted
  BY <1>1 DEF OnItsWay, Running, Acted
<1>4. pc'[p] \in Acted \cup {"done"} /\ held' = held /\ \A q \in Procs \ {p} : pc'[q] = pc[q]
  BY <1>1 DEF Go, End, Typed, Acted
<1> HIDE DEF e
<1> QED
  BY <1>1, <1>2, <1>3, <1>4, ActTraced

\* The steps that take an entry away.
LEMMA DetachTraced ==
    ASSUME SafePathAssumption, Typed, OnItsWay, Sound, Traced, NEW p \in Procs,
           Unlink(p) \/ MoveAside(p)
    PROVE  Sound' /\ Traced'
<1>1. /\ pc[p] = "detach" /\ UNCHANGED <<os, kind, data>>
      /\ \/ UNCHANGED log /\ (End(p, "absent") \/ End(p, "failed"))
         \/ Put(p, None) /\ (Go(p, "sync") \/ Go(p, "bury"))
  BY DEF Unlink, MoveAside, Still
<1>2. held[p] \in Dirs /\ Running(p) /\ pc[p] \notin Acted
  BY <1>1 DEF OnItsWay, Running, Acted
<1>3. pc'[p] \in Acted \cup {"done"} /\ held' = held /\ \A q \in Procs \ {p} : pc'[q] = pc[q]
  BY <1>1 DEF Go, End, Typed, Acted
<1>4. CASE UNCHANGED log
  <2>1. \A q \in Procs : pc'[q] = "install" => pc[q] = "install"
    BY <1>3 DEF Acted
  <2>2. NoneUndone
    BY <1>1, <1>2, <1>3 DEF Running, NoneUndone
  <2>3. \A q \in Procs : pc'[q] = "install" /\ kind[q] # "symlink" => data'[q] = "synced"
    BY <1>1, <2>1 DEF Sound
  <2> QED
    BY <1>1, <1>4, <2>2, <2>3, QuietTraced
<1>5. CASE Put(p, None)
  <2>1. None \in Theirs \cup Procs /\ None \notin Procs
    BY DEF Theirs, SafePathAssumption
  <2> QED
    BY <1>1, <1>2, <1>3, <1>5, <2>1, ActTraced
<1> QED
  BY <1>1, <1>4, <1>5

\* The step that makes the directory durable.
LEMMA SyncTraced ==
    ASSUME SafePathAssumption, Typed, OnItsWay, Sound, Traced, NEW p \in Procs, SyncParent(p)
    PROVE  Sound' /\ Traced'
<1>1. /\ pc[p] = "sync" /\ UNCHANGED <<os, kind, data>> /\ (End(p, "ok") \/ End(p, "late"))
      /\ UNCHANGED log \/ log' = [log EXCEPT ![held[p]] = <<Last(@)>>]
  BY DEF SyncParent, Still
<1>2. pc'[p] = "done" /\ held' = held /\ (\A q \in Procs \ {p} : pc'[q] = pc[q]) /\ held[p] \in Dirs
  BY <1>1 DEF End, Typed, OnItsWay
<1>3. NoneUndone
  BY <1>1, <1>2 DEF NoneUndone
<1>4. \A q \in Procs : pc'[q] = "install" => pc[q] = "install"
  BY <1>2
<1>5. \A q \in Procs : pc'[q] = "install" /\ kind[q] # "symlink" => data'[q] = "synced"
  BY <1>1, <1>4 DEF Sound
<1>6. CASE UNCHANGED log
  BY <1>1, <1>3, <1>5, <1>6, QuietTraced
<1>7. CASE log' = [log EXCEPT ![held[p]] = <<Last(@)>>]
  <2> DEFINE none == [is |-> None, by |-> None]
  <2>1. OneNew(held[p], none)
    <3> SUFFICES ASSUME NEW d \in Dirs, NEW i \in 1..Len(log'[d])
        PROVE  \E j \in 1..Len(log[d]) : log'[d][i] = log[d][j] /\ (i > 1 => j > 1)
      BY DEF OneNew
    <3>1. CASE d = held[p]
      <4>1. Len(log'[d]) = 1 /\ \E j \in 1..Len(log[d]) : log'[d][1] = log[d][j]
        BY <1>2, <1>7, <3>1, SyncLog
      <4>2. i = 1
        BY <4>1
      <4> QED
        BY <4>1, <4>2
    <3>2. CASE d # held[p]
      <4>1. log'[d] = log[d]
        BY <1>2, <1>7, <3>2, SyncLog
      <4> QED
        BY <4>1
    <3> QED
      BY <3>1, <3>2
  <2>2. none.by \notin Procs /\ none.is \notin Procs
    BY DEF SafePathAssumption
  <2> HIDE DEF none
  <2>3. Traced' /\ Whole'
    <3>1. Whole
      BY DEF Sound
    <3> QED
      BY <1>1, <1>2, <1>3, <2>1, <2>2, <3>1, TraceStep
  <2> QED
    BY <1>1, <1>5, <2>3 DEF Sound
<1> QED
  BY <1>1, <1>6, <1>7

\* What the person puts there is no command's.
LEMMA TouchTraced ==
    ASSUME SafePathAssumption, Typed, Sound, Traced, NEW e \in Theirs, Touch(e)
    PROVE  Sound' /\ Traced'
<1> DEFINE entry == [is |-> e, by |-> User]
<1>1. UNCHANGED <<os, kind, pc, held, data>>
  BY DEF Touch, cmd
<1>2. OneNew(name, entry)
  <2> SUFFICES ASSUME NEW d \in Dirs, NEW i \in 1..Len(log'[d])
      PROVE  \/ \E j \in 1..Len(log[d]) : log'[d][i] = log[d][j] /\ (i > 1 => j > 1)
             \/ d = name /\ log'[d][i] = entry
    BY DEF OneNew
  <2>1. CASE d = name
    BY <2>1, TouchLog DEF OldOr
  <2>2. CASE d # name
    <3>1. log'[d] = log[d]
      BY <2>2, TouchLog
    <3> QED
      BY <3>1
  <2> QED
    BY <2>1, <2>2
<1>3. entry.by = User /\ User \notin Procs /\ entry.is \notin Procs /\ name \in Dirs
  BY TouchLog DEF SafePathAssumption, Theirs, Directories
<1> HIDE DEF entry
<1>4. NoneUndone
  BY <1>1 DEF NoneUndone
<1>5. Traced' /\ Whole'
  <2>1. Whole
    BY DEF Sound
  <2> QED
    BY <1>1, <1>2, <1>3, <1>4, <2>1, TraceStep
<1> QED
  BY <1>1, <1>5 DEF Sound

\* The step that looks at the entry, ...
LEMMA LookInv ==
    ASSUME SafePathAssumption, IInv, NEW p \in Procs, LeafKind(p)
    PROVE  (OnItsWay /\ Sound /\ Traced /\ Tidy /\ NoDebris)'
<1>1. /\ pc[p] = "look" /\ UNCHANGED <<os, kind, log, temp, data, grave, troubles, held>>
      /\ \/ Go(p, After(p))
         \/ End(p, "absent") \/ End(p, "failed")
  BY DEF LeafKind, Still, Go, End
<1>2. held[p] \in Dirs \ {Outside} /\ ~temp[p] /\ grave[p] = None /\ fate[p] = "none"
  BY <1>1 DEF IInv, OnItsWay, Tidy, Typed, Running
<1>3. After(p) \in {"stage", "install", "detach"}
  BY DEF After
<1>4. \A q \in Procs \ {p} : pc'[q] = pc[q] /\ fate'[q] = fate[q]
  BY <1>1 DEF IInv, Typed, Go, End
<1>5. \/ pc'[p] = After(p) /\ fate'[p] = "none"
      \/ pc'[p] = "done" /\ fate'[p] \in {"absent", "failed"}
  <2>1. CASE Go(p, After(p))
    <3>1. pc' = [pc EXCEPT ![p] = After(p)] /\ fate' = fate
      BY <2>1 DEF Go
    <3>2. pc \in [Procs -> Steps]
      BY DEF IInv, Typed
    <3> QED
      BY <1>2, <3>1, <3>2
  <2>2. CASE End(p, "absent") \/ End(p, "failed")
    BY <2>2 DEF IInv, Typed, End
  <2> QED
    BY <1>1, <2>1, <2>2
<1>6. OnItsWay'
  <2>1. After(p) = "stage" => kind[p] \in {"write", "create"}
    BY DEF After
  <2>2. After(p) = "install" => kind[p] = "symlink"
    BY DEF After
  <2>3. After(p) = "detach" => kind[p] \in {"remove", "unlink", "rmdir"}
    BY DEF After, IInv, Typed, Kinds
  <2> QED
    BY <1>1, <1>2, <1>3, <1>4, <1>5, <2>1, <2>2, <2>3 DEF IInv, OnItsWay, Removes
<1>7. Sound' /\ Traced'
  <2>1. NoneUndone
    BY <1>1, <1>4 DEF NoneUndone, Acted
  <2>2. \A q \in Procs : pc'[q] = "install" /\ kind[q] # "symlink" => data'[q] = "synced"
    <3> SUFFICES ASSUME NEW q \in Procs, pc'[q] = "install", kind[q] # "symlink"
                 PROVE  data'[q] = "synced"
      OBVIOUS
    <3>1. CASE q = p
      BY <3>1, <1>5 DEF After
    <3>2. CASE q # p
      BY <1>1, <1>4, <3>2 DEF IInv, Sound
    <3> QED
      BY <3>1, <3>2
  <2> QED
    BY <1>1, <2>1, <2>2, QuietTraced DEF IInv
<1>8. Tidy'
  BY <1>1, <1>2, <1>3, <1>4, <1>5 DEF IInv, Tidy
<1>9. NoDebris'
  BY <1>1, <1>2, <1>4, <1>5 DEF IInv, NoDebris
<1> QED
  BY <1>6, <1>7, <1>8, <1>9

\* ... those that write the new file, ...
LEMMA StageTraced ==
    ASSUME SafePathAssumption, Typed, OnItsWay, Sound, Traced, NEW p \in Procs, Stage(p)
    PROVE  Sound' /\ Traced'
<1>1. PICK step \in {<<"stage", "part", "fill">>, <<"fill", "written", "flush">>,
                    <<"flush", "synced", "install">>} :
        pc[p] = step[1] /\ data' = [data EXCEPT ![p] = step[2]] /\ Go(p, step[3])
  BY DEF Stage
<1>2. UNCHANGED <<os, kind, log, held>>
  BY <1>1 DEF Stage, Still, Go
<1>3. \A q \in Procs \ {p} : pc'[q] = pc[q] /\ data'[q] = data[q]
  BY <1>1 DEF Typed, Go
<1>4. pc[p] \in {"stage", "fill", "flush"} /\ (pc'[p] = "install" => data'[p] = "synced")
  BY <1>1 DEF Typed, Go
<1>5. pc'[p] \in {"fill", "flush", "install"}
  BY <1>1 DEF Typed, Go
<1>6. Traced'
  BY <1>2, <1>3, <1>4, <1>5 DEF Traced, Running, Acted
<1>7. \A d \in Dirs : \A i \in 1..Len(log[d]) : log[d][i].is # p
  BY <1>4 DEF Traced, Sound, Whole, Running, Acted
<1>8. Whole'
  BY <1>2, <1>3, <1>7 DEF Sound, Whole
<1>9. \A q \in Procs : pc'[q] = "install" /\ kind'[q] # "symlink" => data'[q] = "synced"
  BY <1>2, <1>3, <1>4 DEF Sound
<1> QED
  BY <1>6, <1>8, <1>9 DEF Sound

\* ... and the one that drops its other name.
LEMMA UntempTraced ==
    ASSUME Typed, OnItsWay, Sound, Traced, NEW p \in Procs, Untemp(p)
    PROVE  Sound' /\ Traced'
<1>1. /\ pc[p] = "untemp" /\ UNCHANGED <<os, kind, log, data, held>>
      /\ Go(p, "sync") \/ End(p, "late")
  BY DEF Untemp, Still, Go, End
<1>2. pc'[p] \in {"sync", "done"} /\ \A q \in Procs \ {p} : pc'[q] = pc[q]
  BY <1>1 DEF Typed, Go, End
<1>3. NoneUndone
  BY <1>1, <1>2 DEF NoneUndone, Acted
<1>4. \A q \in Procs : pc'[q] = "install" /\ kind[q] # "symlink" => data'[q] = "synced"
  BY <1>1, <1>2 DEF Sound
<1> QED
  BY <1>1, <1>3, <1>4, QuietTraced

LEMMA InvStep == SafePathAssumption /\ IInv /\ [Next]_vars => IInv'
<1> SUFFICES ASSUME SafePathAssumption, IInv, [Next]_vars PROVE IInv'
  OBVIOUS
<1>1. Typed'
  BY TypeStep DEF IInv
<1> USE DEF SafePathAssumption, IInv, Typed, OnItsWay, Sound, Whole, Traced, Tidy, NoDebris, Steps, Acted,
        Fates, Kinds, Running, Removes, Go, End, Hold, Still, Trouble, disk
<1>2. ASSUME NEW p \in Procs, Step(p) \/ StageFails(p) \/ DetachFails(p) \/ Kill(p)
      PROVE  IInv'
  <2>1. CASE OpenParent(p)
    BY <1>1, <2>1 DEF OpenParent
  <2>2. CASE ParentMissing(p)
    BY <1>1, <2>2 DEF ParentMissing
  <2>3. CASE MakeParent(p)
    BY <1>1, <2>3 DEF MakeParent
  <2>4. CASE ParentRefused(p)
    BY <1>1, <2>4 DEF ParentRefused
  <2>5. CASE LeafKind(p)
    BY ONLY <1>1, SafePathAssumption, IInv, <2>5, LookInv DEF IInv
  <2>6. CASE Stage(p)
    <3>1. OnItsWay'
      BY <1>1, <2>6 DEF Stage
    <3>2. Sound' /\ Traced'
      BY ONLY SafePathAssumption, IInv, <2>6, StageTraced DEF IInv
    <3>3. (Tidy /\ NoDebris)'
      BY <1>1, <2>6 DEF Stage
    <3> QED
      BY <1>1, <3>1, <3>2, <3>3
  <2>7. CASE Install(p)
    <3>1. OnItsWay'
      BY <1>1, <2>7 DEF Install
    <3>2. Sound' /\ Traced'
      BY ONLY SafePathAssumption, IInv, <2>7, InstallTraced DEF IInv
    <3>3. (Tidy /\ NoDebris)'
      BY <1>1, <2>7 DEF Install
    <3> QED
      BY <1>1, <3>1, <3>2, <3>3
  <2>8. CASE InstallFails(p)
    BY <1>1, <2>8 DEF InstallFails
  <2>9. CASE Untemp(p)
    <3>1. OnItsWay'
      BY <1>1, <2>9 DEF Untemp
    <3>2. Sound' /\ Traced'
      BY ONLY SafePathAssumption, IInv, <2>9, UntempTraced DEF IInv
    <3>3. (Tidy /\ NoDebris)'
      BY <1>1, <2>9 DEF Untemp
    <3> QED
      BY <1>1, <3>1, <3>2, <3>3
  <2>10. CASE SyncParent(p)
    <3>1. OnItsWay'
      BY <1>1, <2>10 DEF SyncParent
    <3>2. Sound' /\ Traced'
      BY ONLY SafePathAssumption, IInv, <2>10, SyncTraced DEF IInv
    <3>3. (Tidy /\ NoDebris)'
      BY <1>1, <2>10 DEF SyncParent
    <3> QED
      BY <1>1, <3>1, <3>2, <3>3
  <2>11. CASE Unlink(p)
    <3>1. OnItsWay'
      BY <1>1, <2>11 DEF Unlink
    <3>2. Sound' /\ Traced'
      BY ONLY SafePathAssumption, IInv, <2>11, DetachTraced DEF IInv
    <3>3. (Tidy /\ NoDebris)'
      BY <1>1, <2>11 DEF Unlink
    <3> QED
      BY <1>1, <3>1, <3>2, <3>3
  <2>12. CASE MoveAside(p)
    <3>1. OnItsWay'
      BY <1>1, <2>12 DEF MoveAside
    <3>2. Sound' /\ Traced'
      BY ONLY SafePathAssumption, IInv, <2>12, DetachTraced DEF IInv
    <3>3. (Tidy /\ NoDebris)'
      BY <1>1, <2>12 DEF MoveAside
    <3> QED
      BY <1>1, <3>1, <3>2, <3>3
  <2>13. CASE Bury(p)
    BY <1>1, <2>13 DEF Bury, Buriable
  <2>14. CASE StageFails(p)
    BY <1>1, <2>14 DEF StageFails
  <2>15. CASE DetachFails(p)
    BY <1>1, <2>15 DEF DetachFails
  <2>16. CASE Kill(p)
    BY <1>1, <2>16 DEF Kill
  <2> QED
    BY <1>2, <2>1, <2>2, <2>3, <2>4, <2>5, <2>6, <2>7, <2>8, <2>9, <2>10, <2>11, <2>12, <2>13, <2>14, <2>15, <2>16 DEF Step
<1>3. CASE PowerCut
  <2>1. OnItsWay'
    BY <1>1, <1>3 DEF PowerCut
  <2>2. Sound'
    BY <1>1, <1>3, CutLog DEF PowerCut
  <2>3. Traced'
    BY <1>1, <1>3, CutLog DEF PowerCut
  <2>4. (Tidy /\ NoDebris)'
    BY <1>1, <1>3 DEF PowerCut
  <2> QED
    BY <1>1, <2>1, <2>2, <2>3, <2>4
<1>4. ASSUME NEW e \in Theirs, Touch(e) PROVE IInv'
  <2>1. OnItsWay'
    BY <1>1, <1>4 DEF Touch, cmd
  <2>2. Sound' /\ Traced'
    BY ONLY SafePathAssumption, IInv, <1>4, TouchTraced DEF IInv
  <2>3. (Tidy /\ NoDebris)'
    BY <1>1, <1>4 DEF Touch, cmd
  <2> QED
    BY <1>1, <2>1, <2>2, <2>3
<1>5. ASSUME NEW other \in made \cup {"link", None}, Swap(other) PROVE IInv'
  BY <1>1, <1>5 DEF Swap, cmd
<1>6. CASE UNCHANGED vars
  BY <1>1, <1>6 DEF vars, cmd
<1> QED
  BY <1>2, <1>3, <1>4, <1>5, <1>6 DEF Next

\* The invariant of the file operations holds for any commands and any bounds.
THEOREM Invariant == ASSUME SafePathAssumption PROVE Spec => []IInv
<1>1. Init => IInv
  BY InvInit
<1>2. IInv /\ [Next]_vars => IInv'
  BY InvStep
<1> QED
  BY <1>1, <1>2, PTL DEF Spec

\* Every variable has its type: what lies on the way to a directory, the entries that its
\* disk may come back with, the steps of the commands and the answers they give.
THEOREM TypeCorrect == ASSUME SafePathAssumption PROVE Spec => []TypeOK
<1>1. IInv => TypeOK
  <2> SUFFICES ASSUME IInv PROVE TypeOK
    OBVIOUS
  <2>1. \A d \in Dirs : \A i \in DOMAIN log[d] : log[d][i] \in Entry
    BY DEF IInv, Typed
  <2> QED
    BY <2>1 DEF IInv, Typed, TypeOK, Entry
<1> QED
  BY <1>1, Invariant, PTL

\* An operation that is refused, fails or succeeds leaves no temporary file and no tombstone
\* beside the name (safe_path.rs: every early return removes what was staged).
THEOREM FailuresLeaveNothing == ASSUME SafePathAssumption PROVE Spec => []NoDebris
<1>1. IInv => NoDebris
  BY DEF IInv
<1> QED
  BY <1>1, Invariant, PTL

----------------------------------------------------------------------------
(* The atomic file *)

\* A name never has part of a file, so the disks come back with what the log says.
LEMMA Mapped == SafePathAssumption /\ Typed /\ Sound => contents = log
<1> SUFFICES ASSUME SafePathAssumption, Typed, Sound PROVE contents = log
  OBVIOUS
<1>1. SUFFICES ASSUME NEW d \in Dirs
               PROVE  [i \in DOMAIN log[d] |->
                         [is |-> Content(log[d][i].is), by |-> log[d][i].by]] = log[d]
  BY DEF contents, Typed
<1>2. log[d] \in Seq(Entry) /\ DOMAIN log[d] = 1..Len(log[d])
  BY DEF Typed
<1>3. ASSUME NEW i \in 1..Len(log[d])
      PROVE  [is |-> Content(log[d][i].is), by |-> log[d][i].by] = log[d][i]
  <2>1. log[d][i] \in Entry
    BY <1>2
  <2>2. Content(log[d][i].is) = log[d][i].is
    BY DEF Sound, Whole, Content
  <2> QED
    BY <2>1, <2>2 DEF Entry
<1> QED
  BY <1>2, <1>3

\* What the commands have told after a step of one of them.
LEMMA ToldEnd ==
    ASSUME Typed, NEW p \in Procs, NEW how, End(p, how)
    PROVE  told' = [told EXCEPT ![p] = how]
<1>1. pc' = [pc EXCEPT ![p] = "done"] /\ fate' = [fate EXCEPT ![p] = how]
  BY DEF End
<1>2. pc \in [Procs -> Steps] /\ fate \in [Procs -> Fates]
  BY DEF Typed
<1>3. told' = [q \in Procs |-> IF pc'[q] \in Acted THEN "acted" ELSE fate'[q]]
  BY DEF told, Acted
<1>4. told = [q \in Procs |-> IF pc[q] \in Acted THEN "acted" ELSE fate[q]]
  BY DEF told, Acted
<1> QED
  BY <1>1, <1>2, <1>3, <1>4 DEF Acted

LEMMA ToldGo ==
    ASSUME Typed, NEW p \in Procs, NEW step, pc' = [pc EXCEPT ![p] = step], UNCHANGED fate
    PROVE  told' = [told EXCEPT ![p] = IF step \in Acted THEN "acted" ELSE fate[p]]
<1>1. pc \in [Procs -> Steps] /\ fate \in [Procs -> Fates]
  BY DEF Typed
<1>2. told' = [q \in Procs |-> IF pc'[q] \in Acted THEN "acted" ELSE fate[q]]
  BY DEF told, Acted
<1>3. told = [q \in Procs |-> IF pc[q] \in Acted THEN "acted" ELSE fate[q]]
  BY DEF told, Acted
<1> QED
  BY <1>1, <1>2, <1>3

\* ... and before it.
LEMMA ToldNow ==
    ASSUME Typed, NEW p \in Procs
    PROVE  /\ told[p] = "none" <=> Running(p) /\ pc[p] \notin Acted
           /\ told[p] = "acted" <=> pc[p] \in Acted
           /\ ~Running(p) => told[p] = fate[p]
           /\ told = [told EXCEPT ![p] = told[p]]
<1>1. told = [q \in Procs |-> IF pc[q] \in Acted THEN "acted" ELSE fate[q]]
  BY DEF told, Acted
<1>2. fate[p] \in Fates /\ (fate[p] = "none" <=> Running(p))
  BY DEF Typed
<1> QED
  BY <1>1, <1>2 DEF Fates, Acted, Running

LEMMA AtomicInit == SafePathAssumption /\ Init => AF!Init
<1> SUFFICES ASSUME SafePathAssumption, Init PROVE AF!Init
  OBVIOUS
<1>1. contents = log
  BY InvInit, Mapped DEF IInv
<1>2. PICK e \in Theirs :
        log = [d \in Dirs |-> <<[is |-> IF d = "old" THEN e ELSE None, by |-> User]>>]
  BY DEF Init
<1>3. e \in AF!Entries \ Procs /\ None \in AF!Entries \ Procs
  BY DEF AF!Entries, AF!Directories, Theirs, Directories, SafePathAssumption
<1>4. \A d \in Dirs : \E f \in AF!Entries \ Procs : log[d] = <<[is |-> f, by |-> User]>>
  <2> TAKE d \in Dirs
  <2>1. log[d] = <<[is |-> IF d = "old" THEN e ELSE None, by |-> User]>>
    BY <1>2
  <2>2. CASE d = "old"
    BY <1>3, <2>1, <2>2
  <2>3. CASE d # "old"
    BY <1>3, <2>1, <2>3
  <2> QED
    BY <2>2, <2>3
<1>5. told = [p \in Procs |-> "none"]
  BY DEF told, Init
<1>6. DOMAIN log = Dirs
  BY <1>2
<1> QED
  BY <1>1, <1>4, <1>5, <1>6 DEF AF!Init, Init

\* The steps that change no directory, by what they say.
LEMMA SilentStep ==
    ASSUME Typed, contents = log, contents' = log', UNCHANGED <<os, kind, log>>, told' = told
    PROVE  UNCHANGED AF!vars
BY DEF AF!vars

LEMMA AnswerStep ==
    ASSUME contents = log, contents' = log', UNCHANGED <<os, kind, log>>, NEW p \in Procs, NEW how,
           told' = [told EXCEPT ![p] = how],
           \/ told[p] = "none" /\ how \in {"absent", "failed"}
           \/ told[p] = "acted" /\ how = "late"
    PROVE  AF!Answer(p)
BY DEF AF!Answer, AF!Say, AF!Asked

\* The step that takes effect: it turns the entry that is there now into what it may.
LEMMA ActStep ==
    ASSUME Typed, contents = log, contents' = log', UNCHANGED <<os, kind>>, NEW p \in Procs,
           held[p] \in Dirs \ {Outside}, told[p] = "none", NEW e \in AF!Entries, Put(p, e),
           AF!May(p, Leaf(p), e), NEW how, told' = [told EXCEPT ![p] = how],
           how = "acted" \/ (how = "ok" /\ AF!Durable(p))
    PROVE  AF!Act(p)
<1>1. AF!Leaf(held[p]) = Leaf(p)
  BY DEF AF!Leaf, AF!Last, Leaf, Last
<1>2. \E tail \in {<<[is |-> e, by |-> p]>>, Append(log[held[p]], [is |-> e, by |-> p])} :
        log' = [log EXCEPT ![held[p]] = tail]
  BY DEF Put
<1>3. \E d \in Dirs \ {Outside}, new \in AF!Entries :
         /\ AF!May(p, AF!Leaf(d), new)
         /\ LET entry == [is |-> new, by |-> p]
            IN \E tail \in {<<entry>>, Append(contents[d], entry)} :
                 contents' = [contents EXCEPT ![d] = tail]
  BY <1>1, <1>2
<1> QED
  BY <1>3 DEF AF!Act, AF!Say, AF!Asked

\* The steps of a command that act on the directory.
LEMMA InstallStep ==
    ASSUME SafePathAssumption, IInv, IInv', contents = log, contents' = log',
           NEW p \in Procs, Install(p)
    PROVE  AF!Act(p)
<1> DEFINE e == IF kind[p] = "symlink" THEN "link" ELSE p
           how == IF os = "unix" THEN "acted" ELSE "ok"
<1>1. /\ pc[p] = "install" /\ Fits(p) /\ Put(p, e) /\ UNCHANGED <<os, kind>>
      /\ \/ os = "unix" /\ Go(p, "untemp")
         \/ os = "unix" /\ Go(p, "sync")
         \/ os # "unix" /\ End(p, "ok")
  BY DEF Install, Still
<1>2. kind[p] \in {"write", "create", "symlink"} /\ held[p] \in Dirs \ {Outside}
  BY <1>1 DEF IInv, OnItsWay
<1>3. told[p] = "none" /\ fate[p] = "none"
  BY <1>1, ToldNow DEF IInv, Acted, Running, Typed
<1>4. e \in AF!Entries
  BY DEF AF!Entries
<1>5. AF!May(p, Leaf(p), e)
  BY <1>1, <1>2 DEF AF!May, Fits, AF!Directories, Directories
<1>6. told' = [told EXCEPT ![p] = how]
  <2>1. CASE os = "unix" /\ Go(p, "untemp")
    BY <2>1, ToldGo DEF IInv, Go, Acted
  <2>2. CASE os = "unix" /\ Go(p, "sync")
    BY <2>2, ToldGo DEF IInv, Go, Acted
  <2>3. CASE os # "unix" /\ End(p, "ok")
    BY <2>3, ToldEnd DEF IInv
  <2> QED
    BY <1>1, <2>1, <2>2, <2>3
<1>7. how = "ok" => AF!Durable(p)
  <2> SUFFICES ASSUME os # "unix", NEW d \in Dirs, NEW i \in 2..Len(log'[d])
               PROVE  log'[d][i].by # p
    BY DEF AF!Durable
  <2>1. os' = "windows" /\ Len(log'[d]) \in Nat
    BY <1>1 DEF IInv, Typed
  <2>2. i \in 1..Len(log'[d]) /\ i > 1
    BY <2>1
  <2>3. log'[d][i].by = User
    BY <2>1, <2>2 DEF IInv, Traced
  <2> QED
    BY <2>3 DEF SafePathAssumption
<1>8. how = "acted" \/ how = "ok"
  OBVIOUS
<1> HIDE DEF e, how
<1> QED
  BY <1>1, <1>2, <1>3, <1>4, <1>5, <1>6, <1>7, <1>8, ActStep DEF IInv

LEMMA RemoveStep ==
    ASSUME SafePathAssumption, IInv, contents = log, contents' = log',
           NEW p \in Procs, Unlink(p) \/ MoveAside(p)
    PROVE  AF!Act(p) \/ AF!Answer(p)
<1>1. /\ pc[p] = "detach" /\ UNCHANGED <<os, kind>>
      /\ \/ UNCHANGED log /\ End(p, "absent")
         \/ UNCHANGED log /\ End(p, "failed")
         \/ Leaf(p) # None /\ os = "unix" /\ Removable(p) /\ Put(p, None) /\ Go(p, "sync")
         \/ Leaf(p) # None /\ os = "windows" /\ Put(p, None) /\ Go(p, "bury")
  BY DEF Unlink, MoveAside, Still
<1>2. Removes(p) /\ held[p] \in Dirs \ {Outside}
  BY <1>1 DEF IInv, OnItsWay
<1>3. told[p] = "none" /\ fate[p] = "none"
  BY <1>1, ToldNow DEF IInv, Acted, Running, Typed
<1>4. CASE UNCHANGED log /\ (End(p, "absent") \/ End(p, "failed"))
  <2>1. PICK how \in {"absent", "failed"} : End(p, how)
    BY <1>4
  <2>2. told' = [told EXCEPT ![p] = how]
    BY <2>1, ToldEnd DEF IInv
  <2> QED
    BY <1>1, <1>3, <1>4, <2>2, AnswerStep
<1>5. CASE /\ Leaf(p) # None /\ Put(p, None)
           /\ \/ os = "unix" /\ Removable(p) /\ Go(p, "sync")
              \/ os = "windows" /\ Go(p, "bury")
  <2>1. told' = [told EXCEPT ![p] = "acted"]
    BY <1>5, ToldGo DEF IInv, Go, Acted
  <2>2. AF!May(p, Leaf(p), None) /\ None \in AF!Entries
    BY <1>2, <1>5 DEF AF!May, AF!Entries, Removes, Removable, AF!Directories, Directories
  <2> QED
    BY <1>1, <1>2, <1>3, <1>5, <2>1, <2>2, ActStep DEF IInv
<1> QED
  BY <1>1, <1>4, <1>5

\* Success is told when the directory is durable.
LEMMA SyncStep ==
    ASSUME SafePathAssumption, IInv, contents = log, contents' = log',
           NEW p \in Procs, SyncParent(p)
    PROVE  AF!Succeed(p) \/ AF!Answer(p)
<1>1. /\ pc[p] = "sync" /\ UNCHANGED <<os, kind>>
      /\ \/ log' = [log EXCEPT ![held[p]] = <<Last(@)>>] /\ End(p, "ok")
         \/ UNCHANGED log /\ End(p, "late")
  BY DEF SyncParent, Still
<1>2. told[p] = "acted" /\ held[p] \in Dirs
  BY <1>1, ToldNow DEF IInv, OnItsWay, Acted
<1>3. CASE UNCHANGED log /\ End(p, "late")
  <2>1. told' = [told EXCEPT ![p] = "late"]
    BY <1>3, ToldEnd DEF IInv
  <2> QED
    BY <1>1, <1>2, <1>3, <2>1, AnswerStep
<1>4. CASE log' = [log EXCEPT ![held[p]] = <<Last(@)>>] /\ End(p, "ok")
  <2>1. told' = [told EXCEPT ![p] = "ok"]
    BY <1>4, ToldEnd DEF IInv
  <2>2. /\ \A d \in Dirs \ {held[p]} : log'[d] = log[d]
        /\ log'[held[p]] = <<Last(log[held[p]])>> /\ Len(log'[held[p]]) = 1
        /\ log' \in [Dirs -> Seq(Entry)]
    BY <1>2, <1>4, SyncLog DEF IInv
  <2>3. AF!Durable(p)
    <3> SUFFICES ASSUME NEW d \in Dirs, NEW i \in 2..Len(log'[d])
                 PROVE  log'[d][i].by # p
      BY DEF AF!Durable
    <3>1. ASSUME d = held[p] PROVE FALSE
      <4>1. Len(log'[d]) = 1 /\ i \in 2..Len(log'[d])
        BY <2>2, <3>1
      <4>2. i \in 2..1
        BY <4>1
      <4> QED
        BY <4>2
    <3>2. i \in 1..Len(log[d]) /\ log'[d][i] = log[d][i]
      BY <2>2, <3>1 DEF IInv, Typed
    <3>3. log[d][i].by # p
      BY <1>1, <3>1, <3>2 DEF IInv, Traced, Running
    <3> QED
      BY <3>2, <3>3
  <2>4. log' = [d \in Dirs |-> IF d \in {held[p]} THEN <<Last(log[d])>> ELSE log[d]]
    BY <2>2
  <2>5. contents' = [d \in Dirs |-> IF d \in {held[p]} THEN <<AF!Last(contents[d])>> ELSE contents[d]]
    BY <2>4 DEF Last, AF!Last
  <2>6. {held[p]} \in SUBSET Dirs
    BY <1>2
  <2> QED
    BY <1>1, <1>2, <2>1, <2>3, <2>5, <2>6 DEF AF!Succeed, AF!Say, AF!Asked
<1> QED
  BY <1>1, <1>3, <1>4

LEMMA BuryStep ==
    ASSUME SafePathAssumption, IInv, contents = log, contents' = log',
           NEW p \in Procs, Bury(p)
    PROVE  AF!Succeed(p) \/ AF!Answer(p)
<1>1. /\ pc[p] = "bury" /\ UNCHANGED <<os, kind, log>>
      /\ End(p, "ok") \/ End(p, "late")
  BY DEF Bury, Still
<1>2. told[p] = "acted" /\ os = "windows"
  BY <1>1, ToldNow DEF IInv, OnItsWay, Acted
<1>3. CASE End(p, "late")
  <2>1. told' = [told EXCEPT ![p] = "late"]
    BY <1>3, ToldEnd DEF IInv
  <2> QED
    BY <1>1, <1>2, <2>1, AnswerStep
<1>4. CASE End(p, "ok")
  <2>1. told' = [told EXCEPT ![p] = "ok"]
    BY <1>4, ToldEnd DEF IInv
  <2>2. AF!Durable(p)
    <3> SUFFICES ASSUME NEW d \in Dirs, NEW i \in 2..Len(log[d])
                 PROVE  log[d][i].by # p
      BY <1>1 DEF AF!Durable
    <3>1. i \in 1..Len(log[d]) /\ i > 1
      BY DEF IInv, Typed
    <3>2. log[d][i].by = User
      BY <1>2, <3>1 DEF IInv, Traced
    <3> QED
      BY <3>2 DEF SafePathAssumption
  <2>3. contents' = [d \in Dirs |-> IF d \in {} THEN <<AF!Last(contents[d])>> ELSE contents[d]]
    BY <1>1 DEF IInv, Typed
  <2>4. {} \in SUBSET Dirs
    OBVIOUS
  <2> QED
    BY <1>1, <1>2, <2>1, <2>2, <2>3, <2>4 DEF AF!Succeed, AF!Say, AF!Asked
<1> QED
  BY <1>1, <1>3, <1>4

\* The power goes for the file as for the commands.
LEMMA CutStep ==
    ASSUME SafePathAssumption, IInv, contents = log, contents' = log', PowerCut
    PROVE  AF!PowerCut
<1>1. told' = [p \in Procs |-> IF told[p] \in {"none", "acted"} THEN "killed" ELSE told[p]]
  <2>1. /\ pc' = [p \in Procs |-> "done"]
        /\ fate' = [p \in Procs |-> IF Running(p) THEN "killed" ELSE fate[p]]
    BY DEF PowerCut
  <2>2. told' = [p \in Procs |-> IF Running(p) THEN "killed" ELSE fate[p]]
    BY <2>1 DEF told
  <2>3. ASSUME NEW p \in Procs
        PROVE  /\ told[p] \in {"none", "acted"} <=> Running(p)
               /\ ~Running(p) => told[p] = fate[p]
    <3>1. pc[p] \in Acted => Running(p)
      BY DEF Acted, Running
    <3> QED
      BY <3>1, ToldNow DEF IInv
  <2> QED
    BY <2>2, <2>3
<1>2. DOMAIN log' = Dirs /\ \A d \in Dirs : \E i \in 1..Len(log[d]) : log'[d] = <<log[d][i]>>
  BY CutLog DEF IInv
<1> QED
  BY <1>1, <1>2 DEF AF!PowerCut, AF!Asked, PowerCut

LEMMA PersonStep ==
    ASSUME SafePathAssumption, IInv, contents = log, contents' = log', NEW e \in Theirs, Touch(e)
    PROVE  AF!Person
<1>1. UNCHANGED <<os, kind>> /\ told' = told
  BY DEF Touch, cmd, told
<1>2. /\ name \in Dirs \ {Outside} /\ e \in AF!Entries \ Procs
      /\ log'[name] = Append(log[name], [is |-> e, by |-> User])
  BY TouchLog DEF IInv, AF!Entries, AF!Directories, Theirs, Directories, SafePathAssumption
<1>3. log' = [log EXCEPT ![name] = Append(@, [is |-> e, by |-> User])]
  BY DEF Touch
<1>4. log' # log
  <2>1. Len(log'[name]) = Len(log[name]) + 1 /\ Len(log[name]) \in Nat
    BY <1>2 DEF IInv, Typed
  <2> QED
    BY <2>1
<1> QED
  BY <1>1, <1>2, <1>3, <1>4 DEF AF!Person, AF!Asked

\* Every step is one of the atomic file, or does nothing to it.
LEMMA AtomicStep ==
    ASSUME SafePathAssumption, IInv, IInv', contents = log, contents' = log', [Next]_vars
    PROVE  [AF!Next]_(AF!vars)
<1> USE DEF IInv
<1>1. ASSUME NEW p \in Procs, Step(p) \/ StageFails(p) \/ DetachFails(p) \/ Kill(p)
      PROVE  [AF!Next]_(AF!vars)
  <2>1. CASE Install(p)
    BY <2>1, InstallStep DEF AF!Next
  <2>2. CASE Unlink(p) \/ MoveAside(p)
    BY <2>2, RemoveStep DEF AF!Next
  <2>3. CASE SyncParent(p)
    BY <2>3, SyncStep DEF AF!Next
  <2>4. CASE Bury(p)
    BY <2>4, BuryStep DEF AF!Next
  <2>5. CASE Kill(p)
    <3>1. Running(p) /\ UNCHANGED <<os, kind, log>> /\ End(p, "killed")
      BY <2>5 DEF Kill, Still
    <3>2. told' = [told EXCEPT ![p] = "killed"] /\ told[p] \in {"none", "acted"}
      BY <3>1, ToldEnd, ToldNow
    <3> QED
      BY <3>1, <3>2 DEF AF!Next, AF!Kill, AF!Say, AF!Asked
  <2>6. CASE Untemp(p)
    <3>1. /\ pc[p] = "untemp" /\ UNCHANGED <<os, kind, log>>
          /\ Go(p, "sync") \/ End(p, "late")
      BY <2>6 DEF Untemp, Still
    <3>2. told[p] = "acted" /\ told = [told EXCEPT ![p] = told[p]]
      BY <3>1, ToldNow DEF Acted
    <3>3. CASE Go(p, "sync")
      <4>1. told' = [told EXCEPT ![p] = "acted"]
        BY <3>3, ToldGo DEF Go, Acted
      <4> QED
        BY <3>1, <3>2, <4>1, SilentStep
    <3>4. CASE End(p, "late")
      <4>1. told' = [told EXCEPT ![p] = "late"]
        BY <3>4, ToldEnd
      <4> QED
        BY <3>1, <3>2, <4>1, AnswerStep DEF AF!Next
    <3> QED
      BY <3>1, <3>3, <3>4
  <2>7. CASE \/ ParentMissing(p) \/ ParentRefused(p) \/ LeafKind(p) \/ OpenParent(p) \/ MakeParent(p)
             \/ Stage(p) \/ StageFails(p) \/ InstallFails(p) \/ DetachFails(p)
    <3>1. /\ UNCHANGED <<os, kind, log>> /\ pc[p] \notin Acted \cup {"done"}
          /\ \/ End(p, "absent")
             \/ End(p, "failed")
             \/ \E step \in Steps \ (Acted \cup {"done"}) :
                  pc' = [pc EXCEPT ![p] = step] /\ UNCHANGED fate
      <4>1. CASE ParentMissing(p)
        BY <4>1 DEF ParentMissing, Still, Acted, Steps, Go
      <4>2. CASE ParentRefused(p)
        BY <4>2 DEF ParentRefused, Still, Acted
      <4>3. CASE LeafKind(p)
        <5>1. After(p) \in Steps \ (Acted \cup {"done"})
          BY DEF After, Acted, Steps
        <5> QED
          BY <4>3, <5>1 DEF LeafKind, Still, Acted, Go
      <4>4. CASE OpenParent(p) \/ MakeParent(p)
        BY <4>4 DEF OpenParent, MakeParent, Still, Acted, Steps, Go, Hold
      <4>5. CASE Stage(p)
        <5>1. PICK step \in {<<"stage", "part", "fill">>, <<"fill", "written", "flush">>,
                             <<"flush", "synced", "install">>} :
                pc[p] = step[1] /\ Go(p, step[3])
          BY <4>5 DEF Stage
        <5>2. step[1] \notin Acted \cup {"done"} /\ step[3] \in Steps \ (Acted \cup {"done"})
          BY <5>1 DEF Acted, Steps
        <5>3. pc' = [pc EXCEPT ![p] = step[3]] /\ UNCHANGED fate
          BY <5>1 DEF Go
        <5> HIDE DEF IInv
        <5> QED
          BY <4>5, <5>1, <5>2, <5>3 DEF Stage, Still
      <4>6. CASE StageFails(p) \/ InstallFails(p) \/ DetachFails(p)
        BY <4>6 DEF StageFails, InstallFails, DetachFails, Still, Acted
      <4> QED
        BY <2>7, <4>1, <4>2, <4>3, <4>4, <4>5, <4>6
    <3>2. /\ told[p] = "none" /\ fate[p] = "none" /\ told = [told EXCEPT ![p] = told[p]]
      BY <3>1, ToldNow DEF Running, Typed
    <3>3. CASE End(p, "absent") \/ End(p, "failed")
      <4>1. PICK how \in {"absent", "failed"} : End(p, how)
        BY <3>3
      <4>2. told' = [told EXCEPT ![p] = how]
        BY <4>1, ToldEnd
      <4> QED
        BY <3>1, <3>2, <4>2, AnswerStep DEF AF!Next
    <3>4. ASSUME NEW step \in Steps \ (Acted \cup {"done"}),
                 pc' = [pc EXCEPT ![p] = step] /\ UNCHANGED fate
          PROVE  UNCHANGED AF!vars
      <4>1. told' = [told EXCEPT ![p] = "none"]
        BY <3>2, <3>4, ToldGo
      <4> QED
        BY <3>1, <3>2, <4>1, SilentStep
    <3> QED
      BY <3>1, <3>3, <3>4
  <2> QED
    BY <1>1, <2>1, <2>2, <2>3, <2>4, <2>5, <2>6, <2>7 DEF Step
<1>2. CASE PowerCut
  BY <1>2, CutStep DEF AF!Next
<1>3. ASSUME NEW e \in Theirs, Touch(e) PROVE [AF!Next]_(AF!vars)
  BY <1>3, PersonStep DEF AF!Next
<1>4. ASSUME NEW other \in made \cup {"link", None}, Swap(other) PROVE UNCHANGED AF!vars
  <2>1. UNCHANGED <<os, kind, log>> /\ told' = told
    BY <1>4 DEF Swap, cmd, told
  <2> QED
    BY <2>1, SilentStep
<1>5. CASE UNCHANGED vars
  <2>1. UNCHANGED <<os, kind, log>> /\ told' = told
    BY <1>5 DEF vars, cmd, told
  <2> QED
    BY <2>1, SilentStep
<1> QED
  BY <1>1, <1>2, <1>3, <1>4, <1>5 DEF Next

\* Whatever fails, is killed, loses its power or meets a person's hands, a file operation
\* takes effect in one step or not at all, in the directory that was opened; success is told
\* of what lasts and a plain error of what never was: the operations of safe_path.rs
\* implement the atomic file.
THEOREM OperationsAreAtomic == ASSUME SafePathAssumption PROVE Spec => WritesAreAtomic
<1>1. Init => AF!Init
  BY AtomicInit
<1> DEFINE Same == contents = log
<1>2. IInv => Same
  BY Mapped DEF IInv
<1>3. IInv /\ IInv' /\ Same /\ Same' /\ [Next]_vars => [AF!Next]_(AF!vars)
  BY AtomicStep
<1> HIDE DEF Same
<1>4. Spec => []IInv
  BY Invariant
<1>5. Spec => []Same
  BY <1>2, <1>4, PTL
<1> QED
  BY <1>1, <1>3, <1>4, <1>5, PTL DEF Spec, WritesAreAtomic, AF!Spec

=============================================================================
