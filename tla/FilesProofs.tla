----------------------------- MODULE FilesProofs -----------------------------
(* Proofs about the ways files reach a directory: what stands under a new      *)
(* directory's name is whole and sound, the commands tell the truth about it   *)
(* and take no work away; only declared bytes leave the machine, all of them   *)
(* that may, and those restored are all in place; and, by the theorems of      *)
(* SafePathProofs, every operation on a path is atomic.                        *)
EXTENDS Files, FiniteSetTheorems, TLAPS

----------------------------------------------------------------------------
(* A whole brain into a new directory: what holds at every step *)

\* The steps of each kind of command.
Way(k) ==
    {"off", "done"} \cup
    CASE k \in V1 ->
           {"fetch", "mkdir", "records", "assets", "marker", "rebuild", "publish", "discard"}
      [] k = "clone2" -> {"sync", "checkout"}
      [] k = "export2" -> {"sync", "vault", "publish", "discard"}
      [] k = "restore" ->
           {"fetch", "mkdir", "sync", "checkout", "load", "companions", "vault", "receipt",
            "verify", "publish", "relocate", "discard"}

OnItsWay ==
    /\ DOMAIN pc = Procs
    /\ \A p \in Procs : pc[p] \in Way(kind[p])

\* A command that has come so far has noticed what could be wrong.
Sifted ==
    \A p \in Procs :
        /\ defect[p] \in MayHave(kind[p])
        /\ kind[p] \in V1 /\ pc[p] \in {"mkdir", "records", "assets", "marker", "rebuild", "publish"}
             => defect[p] = "none"
        /\ pc[p] \in {"checkout", "load", "companions", "vault", "receipt", "verify", "publish",
                      "relocate"} => defect[p] # "pack"
        /\ pc[p] \in {"companions", "vault", "receipt", "verify", "publish", "relocate"}
             => defect[p] # "snapshot"
        /\ pc[p] \in {"vault", "receipt", "verify", "publish", "relocate"} => defect[p] # "object"
        /\ pc[p] \in {"publish", "relocate"} => defect[p] # "closure"

\* What its private directory holds when it has come so far.
Gathered(p) ==
    CASE pc[p] = "assets" -> {"records"}
      [] pc[p] = "marker" -> {"records", "assets"}
      [] pc[p] \in {"rebuild", "publish"} -> Needs(kind[p])
      [] OTHER -> {}

\* Up to the vault it holds just that, where dbmd materialized the brain in it.
Exactly(p) ==
    {"records", "assets"}
        \cup (IF kind[p] = "export2" \/ pc[p] = "checkout" THEN {} ELSE {"marker"})
        \cup (IF kind[p] = "restore" /\ pc[p] = "vault" THEN {"companions"} ELSE {})

Building == {"records", "assets", "marker", "rebuild", "load", "companions", "vault", "receipt",
             "verify", "publish"}

Staged ==
    \A p \in Procs :
        /\ stage[p] # None => stage[p].by = p
        /\ pc[p] \in {"off", "fetch", "mkdir"} \/ kind[p] = "clone2" => stage[p] = None
        /\ pc[p] \in Building \/ (pc[p] = "checkout" /\ kind[p] = "restore")
             => stage[p] # None /\ Gathered(p) \subseteq stage[p].pieces
        /\ kind[p] \in {"export2", "restore"}
             /\ pc[p] \in {"checkout", "load", "companions", "vault"}
             => stage[p].pieces = Exactly(p)

\* The destination belongs to a command from the moment it makes it until it ends, and
\* for good if it ends well; it may be left there by one that was killed, or says so.
Holds(p) ==
    \/ pc[p] = "relocate"
    \/ pc[p] = "checkout" /\ kind[p] = "clone2"
    \/ fate[p] \in {"ok", "unmarked"}

Owned ==
    \A p \in Procs :
        /\ Holds(p) => target # None /\ target.by = p
        /\ target # None /\ target.by = p => Holds(p) \/ fate[p] \in {"killed", "uncleaned"}

RestoreInv == TypeOK /\ OnItsWay /\ Sifted /\ Staged /\ Owned /\ PublishedWhole /\ ReportsTrue

\* A person's work is neither in a private directory nor in one whose command still runs.
WorkApart ==
    /\ \A p \in Procs : stage[p] # None => "work" \notin stage[p].pieces
    /\ target # None /\ target.by \in Procs /\ Running(target.by) => "work" \notin target.pieces

----------------------------------------------------------------------------
(* Typing *)

LEMMA TypeInit == Init => TypeOK
BY StageRestoreAssumption DEF Init, TypeOK, Fates, Defects, MayHave, Running

\* A private directory stays one when it gets another piece.
LEMMA AddType ==
    ASSUME TypeOK, NEW p \in Procs, stage[p] # None, NEW piece \in Pieces, Add(p, piece)
    PROVE  stage' \in [Procs -> Directory \cup {None}]
BY DEF TypeOK, Add, Piece, Directory

\* It is then the one it was, with that piece besides.
LEMMA AddOne ==
    ASSUME TypeOK, NEW p \in Procs, stage[p] # None, NEW piece \in Pieces, Add(p, piece)
    PROVE  /\ stage'[p] # None /\ stage'[p].by = stage[p].by
           /\ stage'[p].pieces = stage[p].pieces \cup {piece}
           /\ \A q \in Procs \ {p} : stage'[q] = stage[q]
BY StageRestoreAssumption DEF TypeOK, Add, Piece, Directory

\* So it is with the destination.
LEMMA TargetPiece ==
    ASSUME TypeOK, target # None, NEW piece \in Pieces, target' = Piece(target, piece)
    PROVE  /\ target' \in Directory /\ target' # None /\ target'.by = target.by
           /\ target'.pieces = target.pieces \cup {piece}
BY StageRestoreAssumption DEF TypeOK, Piece, Directory

LEMMA Made ==
    ASSUME NEW p \in Procs, NEW pieces \in SUBSET Pieces
    PROVE  [by |-> p, pieces |-> pieces] \in Directory \ {None}
BY StageRestoreAssumption DEF Directory

LEMMA TypeStep == TypeOK /\ OnItsWay /\ Staged /\ Owned /\ [Next]_vars => (TypeOK /\ OnItsWay)'
<1> SUFFICES ASSUME TypeOK, OnItsWay, Staged, Owned, [Next]_vars PROVE (TypeOK /\ OnItsWay)'
  OBVIOUS
<1> USE StageRestoreAssumption
    DEF TypeOK, OnItsWay, Way, Kinds, V1, Owned, Holds, Fates, Directory, Pieces, Go, End, Mishap,
        Piece,
        Add, NoStage
<1>1. CASE UserWork
  BY <1>1 DEF UserWork
<1>2. ASSUME NEW p \in Procs, Step(p) \/ Kill(p)
      PROVE  (TypeOK /\ OnItsWay)'
  <2>1. CASE Begin(p)
    BY <2>1 DEF Begin
  <2>2. CASE BeginRefused(p)
    BY <2>2 DEF BeginRefused
  <2>3. CASE Fetch(p)
    BY <2>3 DEF Fetch
  <2>4. CASE FetchFails(p)
    BY <2>4 DEF FetchFails
  <2>5. CASE MakeStage(p) \/ MakeStageFails(p)
    BY <2>5 DEF MakeStage, MakeStageFails, Empty
  <2>6. CASE Install(p)
    <3>1. pc[p] \in {"records", "assets", "marker"} /\ kind[p] \in V1 /\ stage[p] # None
      BY <2>6 DEF Install, InstallNext, Staged, Building
    <3>2. stage' \in [Procs -> Directory \cup {None}]
      BY <2>6, <3>1, AddType DEF Install
    <3> QED
      BY <2>6, <3>1, <3>2 DEF Install, InstallNext
  <2>7. CASE InstallFails(p)
    BY <2>7 DEF InstallFails, InstallNext, RollBack, Staged, Building
  <2>8. CASE SyncStage(p)
    BY <2>8 DEF SyncStage, Materialized
  <2>9. CASE SyncTarget(p)
    BY <2>9 DEF SyncTarget, Materialized
  <2>10. CASE SyncFails(p)
    BY <2>10 DEF SyncFails, Staged
  <2>11. CASE WriteCheckout(p)
    BY SMTT(30), <2>11, AddType DEF WriteCheckout, Staged, Building
  <2>12. CASE CheckoutFails(p)
    BY <2>12 DEF CheckoutFails
  <2>13. CASE LoadSnapshot(p)
    BY <2>13 DEF LoadSnapshot
  <2>14. CASE RestoreEntries(p)
    BY <2>14, AddType DEF RestoreEntries, Staged, Building
  <2>15. CASE VaultNames(p)
    BY <2>15, AddType DEF VaultNames, Staged, Building
  <2>16. CASE VaultNamesFails(p)
    BY <2>16, AddType DEF VaultNamesFails, Staged, Building
  <2>17. CASE WriteReceipt(p)
    BY ZenonT(30), <2>17, AddType DEF WriteReceipt, Staged, Building
  <2>18. CASE VerifySnapshot(p)
    BY <2>18 DEF VerifySnapshot
  <2>19. CASE RestoreFails(p)
    BY <2>19 DEF RestoreFails
  <2>20. CASE Publish(p) \/ PublishLate(p)
    BY <2>20 DEF Publish, PublishLate
  <2>21. CASE PublishFails(p)
    BY <2>21 DEF PublishFails
  <2>22. CASE Relocate(p)
    BY <2>22 DEF Relocate
  <2>23. CASE RelocateFails(p) \/ TakeBackFails(p)
    BY <2>23 DEF RelocateFails, TakeBackFails
  <2>24. CASE Discard(p)
    BY <2>24 DEF Discard
  <2>25. CASE DiscardFails(p)
    BY <2>25 DEF DiscardFails
  <2>26. CASE RebuildFails(p)
    BY <2>26 DEF RebuildFails
  <2>27. CASE Kill(p)
    BY <2>27 DEF Kill, Running
  <2>28. ASSUME NEW dbmd \in BOOLEAN, Rebuild(p, dbmd) PROVE (TypeOK /\ OnItsWay)'
    BY <2>28, AddType DEF Rebuild, Staged, Building
  <2> QED
    BY SMTT(30), <1>2, <2>1, <2>2, <2>3, <2>4, <2>5, <2>6, <2>7, <2>8, <2>9, <2>10, <2>11, <2>12, <2>13,
       <2>14, <2>15, <2>16, <2>17, <2>18, <2>19, <2>20, <2>21, <2>22, <2>23, <2>24, <2>25, <2>26,
       <2>27, <2>28 DEF Step
<1>3. CASE UNCHANGED vars
  BY <1>3 DEF vars
<1> QED
  BY <1>1, <1>2, <1>3 DEF Next

----------------------------------------------------------------------------
(* The invariant *)

LEMMA RestoreInit == Init => RestoreInv
<1> SUFFICES ASSUME Init PROVE RestoreInv
  OBVIOUS
<1>1. TypeOK
  BY TypeInit
<1> QED
  BY <1>1, StageRestoreAssumption
     DEF Init, RestoreInv, OnItsWay, Way, V1, Sifted, Staged, Gathered, Exactly, Building, Owned, Holds,
         PublishedWhole, ReportsTrue

LEMMA RestoreStep == RestoreInv /\ [Next]_vars => RestoreInv'
<1> SUFFICES ASSUME RestoreInv, [Next]_vars PROVE RestoreInv'
  OBVIOUS
<1>1. (TypeOK /\ OnItsWay)'
  BY TypeStep DEF RestoreInv
<1> USE StageRestoreAssumption
    DEF RestoreInv, TypeOK, OnItsWay, Way, Kinds, V1, MayHave, Needs, Sifted, Staged, Gathered,
        Building, Owned, Holds,
        Exactly, PublishedWhole, ReportsTrue, Forgotten, Directory, Fates, Go, End, Mishap, NoStage
<1>2. CASE UserWork
  <2>1. CASE target = None
    BY <1>1, <1>2, <2>1 DEF UserWork
  <2>2. CASE target # None
    <3>1. target' # None /\ target'.by = target.by /\ target'.pieces = target.pieces \cup {"work"}
      BY <1>2, <2>2, TargetPiece DEF UserWork, Pieces
    <3> QED
      BY <1>1, <1>2, <2>2, <3>1 DEF UserWork
  <2> QED
    BY <2>1, <2>2
<1>3. ASSUME NEW p \in Procs, Step(p) \/ Kill(p)
      PROVE  RestoreInv'
  <2>1. CASE Begin(p)
    BY <1>1, <2>1 DEF Begin
  <2>2. CASE BeginRefused(p)
    BY <1>1, <2>2 DEF BeginRefused
  <2>3. CASE Fetch(p)
    BY <1>1, <2>3 DEF Fetch
  <2>4. CASE FetchFails(p)
    BY <1>1, <2>4 DEF FetchFails
  <2>5. CASE MakeStage(p)
    BY <1>1, <2>5 DEF MakeStage, Empty
  <2>29. CASE MakeStageFails(p)
    BY <1>1, <2>29 DEF MakeStageFails, Empty
  <2>6. CASE Install(p)
    <3>1. pc[p] \in {"records", "assets", "marker"} /\ kind[p] \in V1 /\ stage[p] # None
      BY <2>6 DEF Install, InstallNext
    <3>2. stage'[p] # None /\ stage'[p].by = stage[p].by
          /\ stage'[p].pieces = stage[p].pieces \cup {pc[p]}
          /\ \A q \in Procs \ {p} : stage'[q] = stage[q]
      BY <2>6, <3>1, AddOne DEF Install, Pieces
    <3> QED
      BY <1>1, <2>6, <3>1, <3>2 DEF Install, InstallNext
  <2>7. CASE InstallFails(p)
    BY <1>1, <2>7 DEF InstallFails, InstallNext, RollBack
  <2>8. CASE SyncStage(p)
    <3>1. /\ stage'[p] # None /\ stage'[p].by = p /\ stage'[p].pieces = {"records", "assets"}
          /\ \A q \in Procs \ {p} : stage'[q] = stage[q]
      BY <2>8, Made DEF SyncStage, Materialized, Pieces
    <3> QED
      BY <1>1, <2>8, <3>1 DEF SyncStage
  <2>9. CASE SyncTarget(p)
    <3>1. target' # None /\ target'.by = p /\ target'.pieces = {"records", "assets"}
      BY <2>9, Made DEF SyncTarget, Materialized, Pieces
    <3> QED
      BY <1>1, <2>9, <3>1 DEF SyncTarget
  <2>10. CASE SyncFails(p)
    BY <1>1, <2>10 DEF SyncFails
  <2>11. CASE WriteCheckout(p)
    <3>1. CASE kind[p] = "clone2"
      <4>1. target # None /\ target.by = p
        BY <2>11, <3>1 DEF WriteCheckout
      <4>2. target' # None /\ target'.by = p /\ target'.pieces = target.pieces \cup {"marker"}
        BY <2>11, <3>1, <4>1, TargetPiece DEF WriteCheckout, Pieces
      <4> QED
        BY <1>1, <2>11, <3>1, <4>1, <4>2 DEF WriteCheckout
    <3>2. CASE kind[p] # "clone2"
      <4>1. kind[p] = "restore" /\ stage[p] # None
        BY <2>11, <3>2 DEF WriteCheckout
      <4>2. stage'[p] # None /\ stage'[p].by = stage[p].by
          /\ stage'[p].pieces = stage[p].pieces \cup {"marker"}
          /\ \A q \in Procs \ {p} : stage'[q] = stage[q]
        BY <2>11, <3>2, <4>1, AddOne DEF WriteCheckout, Pieces
      <4> QED
        BY <1>1, <2>11, <3>2, <4>1, <4>2 DEF WriteCheckout
    <3> QED
      BY <3>1, <3>2
  <2>12. CASE CheckoutFails(p)
    BY <1>1, <2>12 DEF CheckoutFails
  <2>13. CASE LoadSnapshot(p)
    BY <1>1, <2>13 DEF LoadSnapshot
  <2>14. CASE RestoreEntries(p)
    <3>1. stage[p] # None
      BY <2>14 DEF RestoreEntries
    <3>2. CASE defect[p] # "object"
      <4>1. stage'[p] # None /\ stage'[p].by = stage[p].by
          /\ stage'[p].pieces = stage[p].pieces \cup {"companions"}
          /\ \A q \in Procs \ {p} : stage'[q] = stage[q]
        BY <2>14, <3>1, <3>2, AddOne DEF RestoreEntries, Pieces
      <4> QED
        BY <1>1, <2>14, <3>1, <3>2, <4>1 DEF RestoreEntries
    <3>3. CASE ~(defect[p] # "object")
      BY <1>1, <2>14, <3>3 DEF RestoreEntries
    <3> QED
      BY <3>2, <3>3
  <2>15. CASE VaultNames(p)
    <3>1. stage[p] # None
      BY <2>15 DEF VaultNames
    <3>2. CASE kind[p] = "restore"
      <4>1. stage'[p] # None /\ stage'[p].by = stage[p].by
          /\ stage'[p].pieces = stage[p].pieces \cup {"names"}
          /\ \A q \in Procs \ {p} : stage'[q] = stage[q]
        BY <2>15, <3>1, <3>2, AddOne DEF VaultNames, Pieces
      <4> QED
        BY <1>1, <2>15, <3>1, <3>2, <4>1 DEF VaultNames
    <3>3. CASE kind[p] # "restore"
      <4>1. stage'[p] # None /\ stage'[p].by = stage[p].by
          /\ stage'[p].pieces = stage[p].pieces \cup {"marker"}
          /\ \A q \in Procs \ {p} : stage'[q] = stage[q]
        BY <2>15, <3>1, <3>3, AddOne DEF VaultNames, Pieces
      <4> QED
        BY <1>1, <2>15, <3>1, <3>3, <4>1 DEF VaultNames
    <3> QED
      BY <3>2, <3>3
  <2>16. CASE VaultNamesFails(p)
    <3>1. stage[p] # None
      BY <2>16 DEF VaultNamesFails
    <3>2. CASE UNCHANGED stage
      BY <1>1, <2>16, <3>2 DEF VaultNamesFails
    <3>3. CASE kind[p] = "export2" /\ Add(p, "marker")
      <4>1. stage'[p] # None /\ stage'[p].by = stage[p].by
          /\ stage'[p].pieces = stage[p].pieces \cup {"marker"}
          /\ \A q \in Procs \ {p} : stage'[q] = stage[q]
        BY <3>1, <3>3, AddOne DEF Pieces
      <4> QED
        BY <1>1, <2>16, <3>1, <3>3, <4>1 DEF VaultNamesFails
    <3> QED
      BY <2>16, <3>2, <3>3 DEF VaultNamesFails
  <2>17. CASE WriteReceipt(p)
    <3>1. stage[p] # None
      BY <2>17 DEF WriteReceipt
    <3>2. stage'[p] # None /\ stage'[p].by = stage[p].by
          /\ stage'[p].pieces = stage[p].pieces \cup {"receipt"}
          /\ \A q \in Procs \ {p} : stage'[q] = stage[q]
      BY <2>17, <3>1, AddOne DEF WriteReceipt, Pieces
    <3> QED
      BY <1>1, <2>17, <3>1, <3>2 DEF WriteReceipt
  <2>18. CASE VerifySnapshot(p)
    BY <1>1, <2>18 DEF VerifySnapshot
  <2>19. CASE RestoreFails(p)
    BY <1>1, <2>19 DEF RestoreFails
  <2>20. CASE Publish(p)
    BY <1>1, <2>20 DEF Publish
  <2>30. CASE PublishLate(p)
    BY <1>1, <2>30 DEF PublishLate
  <2>21. CASE PublishFails(p)
    BY <1>1, <2>21 DEF PublishFails
  <2>22. CASE Relocate(p)
    <3>1. target # None /\ target.by = p
      BY <2>22 DEF Relocate
    <3>2. target' # None /\ target'.by = p /\ target'.pieces = target.pieces \cup {"baseline"}
      BY <2>22, <3>1, TargetPiece DEF Relocate, Pieces
    <3> QED
      BY <1>1, <2>22, <3>1, <3>2 DEF Relocate
  <2>23. CASE RelocateFails(p)
    BY <1>1, <2>23 DEF RelocateFails
  <2>31. CASE TakeBackFails(p)
    BY <1>1, <2>31 DEF TakeBackFails
  <2>24. CASE Discard(p)
    BY <1>1, <2>24 DEF Discard
  <2>25. CASE DiscardFails(p)
    BY <1>1, <2>25 DEF DiscardFails
  <2>26. CASE RebuildFails(p)
    BY <1>1, <2>26 DEF RebuildFails
  <2>27. CASE Kill(p)
    BY <1>1, <2>27 DEF Kill, Running
  <2>28. ASSUME NEW dbmd \in BOOLEAN, Rebuild(p, dbmd) PROVE RestoreInv'
    <3>1. stage[p] # None
      BY <2>28 DEF Rebuild
    <3>2. CASE dbmd
      <4>1. stage'[p] # None /\ stage'[p].by = stage[p].by
          /\ stage'[p].pieces = stage[p].pieces \cup {"catalogs"}
          /\ \A q \in Procs \ {p} : stage'[q] = stage[q]
        BY <2>28, <3>1, <3>2, AddOne DEF Rebuild, Pieces
      <4> QED
        BY <1>1, <2>28, <3>1, <3>2, <4>1 DEF Rebuild
    <3>3. CASE ~(dbmd)
      BY <1>1, <2>28, <3>3 DEF Rebuild
    <3> QED
      BY <3>2, <3>3
  <2> QED
    BY <1>3, <2>1, <2>2, <2>3, <2>4, <2>5, <2>6, <2>7, <2>8, <2>9, <2>10, <2>11, <2>12, <2>13,
       <2>14, <2>15, <2>16, <2>17, <2>18, <2>19, <2>20, <2>21, <2>22, <2>23, <2>24, <2>25, <2>26,
       <2>27, <2>28, <2>29, <2>30, <2>31 DEF Step
<1>4. CASE UNCHANGED vars
  BY <1>1, <1>4 DEF vars
<1> QED
  BY <1>2, <1>3, <1>4 DEF Next

----------------------------------------------------------------------------
(* A person's work *)

LEMMA ApartInit == Init => WorkApart
BY StageRestoreAssumption DEF Init, WorkApart

\* The private directories: nobody works in one.
LEMMA ApartStep ==
    ASSUME ~EarlyUse, RestoreInv, WorkApart, [Next]_vars
    PROVE  WorkApart'
<1>1. RestoreInv'
  BY RestoreStep
<1> USE StageRestoreAssumption
    DEF RestoreInv, TypeOK, OnItsWay, Way, Kinds, V1, Staged, Building, Owned, Holds, WorkApart,
        Directory, Running, Go, End, Mishap, NoStage
<1>2. CASE UserWork
  BY <1>1, <1>2 DEF UserWork, Piece
<1>3. ASSUME NEW p \in Procs, Step(p) \/ Kill(p)
      PROVE  WorkApart'
  <2>1. CASE Begin(p)
    BY <1>1, <2>1 DEF Begin
  <2>2. CASE BeginRefused(p)
    BY <1>1, <2>2 DEF BeginRefused
  <2>3. CASE Fetch(p)
    BY <1>1, <2>3 DEF Fetch
  <2>4. CASE FetchFails(p)
    BY <1>1, <2>4 DEF FetchFails
  <2>5. CASE MakeStage(p)
    BY <1>1, <2>5 DEF MakeStage, Empty
  <2>29. CASE MakeStageFails(p)
    BY <1>1, <2>29 DEF MakeStageFails, Empty
  <2>6. CASE Install(p)
    BY <1>1, <2>6 DEF Install, InstallNext, Add, Piece
  <2>7. CASE InstallFails(p)
    BY <1>1, <2>7 DEF InstallFails, InstallNext, RollBack
  <2>8. CASE SyncStage(p)
    BY <1>1, <2>8 DEF SyncStage, Materialized
  <2>9. CASE SyncTarget(p)
    BY <1>1, <2>9 DEF SyncTarget, Materialized
  <2>10. CASE SyncFails(p)
    BY <1>1, <2>10 DEF SyncFails
  <2>11. CASE WriteCheckout(p)
    BY <1>1, <2>11 DEF WriteCheckout, Add, Piece
  <2>12. CASE CheckoutFails(p)
    BY <1>1, <2>12 DEF CheckoutFails
  <2>13. CASE LoadSnapshot(p)
    BY <1>1, <2>13 DEF LoadSnapshot
  <2>14. CASE RestoreEntries(p)
    BY <1>1, <2>14 DEF RestoreEntries, Add, Piece
  <2>15. CASE VaultNames(p)
    BY <1>1, <2>15 DEF VaultNames, Add, Piece
  <2>16. CASE VaultNamesFails(p)
    BY <1>1, <2>16 DEF VaultNamesFails, Add, Piece
  <2>17. CASE WriteReceipt(p)
    BY <1>1, <2>17 DEF WriteReceipt, Add, Piece
  <2>18. CASE VerifySnapshot(p)
    BY <1>1, <2>18 DEF VerifySnapshot
  <2>19. CASE RestoreFails(p)
    BY <1>1, <2>19 DEF RestoreFails
  <2>20. CASE Publish(p)
    BY <1>1, <2>20 DEF Publish
  <2>30. CASE PublishLate(p)
    BY <1>1, <2>30 DEF PublishLate
  <2>21. CASE PublishFails(p)
    BY <1>1, <2>21 DEF PublishFails
  <2>22. CASE Relocate(p)
    BY <1>1, <2>22 DEF Relocate, Piece
  <2>23. CASE RelocateFails(p)
    BY <1>1, <2>23 DEF RelocateFails
  <2>31. CASE TakeBackFails(p)
    BY <1>1, <2>31 DEF TakeBackFails
  <2>24. CASE Discard(p)
    BY <1>1, <2>24 DEF Discard
  <2>25. CASE DiscardFails(p)
    BY <1>1, <2>25 DEF DiscardFails
  <2>26. CASE RebuildFails(p)
    BY <1>1, <2>26 DEF RebuildFails
  <2>27. CASE Kill(p)
    BY <1>1, <2>27 DEF Kill
  <2>28. ASSUME NEW dbmd \in BOOLEAN, Rebuild(p, dbmd) PROVE WorkApart'
    BY <1>1, <2>28 DEF Rebuild, Add, Piece
  <2> QED
    BY <1>3, <2>1, <2>2, <2>3, <2>4, <2>5, <2>6, <2>7, <2>8, <2>9, <2>10, <2>11, <2>12, <2>13,
       <2>14, <2>15, <2>16, <2>17, <2>18, <2>19, <2>20, <2>21, <2>22, <2>23, <2>24, <2>25, <2>26,
       <2>27, <2>28, <2>29, <2>30, <2>31 DEF Step
<1>4. CASE UNCHANGED vars
  BY <1>4 DEF vars
<1> QED
  BY <1>2, <1>3, <1>4 DEF Next

\* Only a relocation that fails takes a directory away, and nobody has worked in it yet.
LEMMA WorkKept ==
    ASSUME RestoreInv, WorkApart, [Next]_vars, target # None, "work" \in target.pieces
    PROVE  target' # None /\ target'.by = target.by /\ "work" \in target'.pieces
<1>1. \A piece \in Pieces : target' = Piece(target, piece) =>
         target' # None /\ target'.by = target.by /\ "work" \in target'.pieces
  BY TargetPiece DEF RestoreInv
<1>2. CASE UNCHANGED target
  BY <1>2
<1>3. CASE UserWork
  BY <1>1, <1>3 DEF UserWork, Pieces
<1>4. ASSUME NEW p \in Procs, Step(p) \/ Kill(p), target' # target
      PROVE  target' # None /\ target'.by = target.by /\ "work" \in target'.pieces
  <2>1. SyncTarget(p) \/ WriteCheckout(p) \/ Publish(p) \/ PublishLate(p) \/ Relocate(p)
          \/ RelocateFails(p)
    BY <1>4 DEF Step, Kill, Begin, BeginRefused, Fetch, FetchFails, MakeStage, MakeStageFails, Install,
       InstallFails, Rebuild, RebuildFails, SyncStage, SyncFails, CheckoutFails, LoadSnapshot,
       RestoreEntries, VaultNames, VaultNamesFails, WriteReceipt, VerifySnapshot, RestoreFails,
       PublishFails, TakeBackFails, Discard, DiscardFails
  <2>2. ~SyncTarget(p) /\ ~Publish(p) /\ ~PublishLate(p)
    BY DEF SyncTarget, Publish, PublishLate
  <2>3. ~RelocateFails(p)
    <3>1. SUFFICES ASSUME RelocateFails(p) PROVE FALSE
      OBVIOUS
    <3>2. pc[p] = "relocate" /\ target.by = p
      BY <3>1 DEF RelocateFails, RestoreInv, Owned, Holds
    <3> QED
      BY <3>2 DEF WorkApart, Running
  <2>4. CASE WriteCheckout(p) \/ Relocate(p)
    BY <1>1, <1>4, <2>4 DEF WriteCheckout, Relocate, Pieces
  <2> QED
    BY <2>1, <2>2, <2>3, <2>4
<1> QED
  BY <1>2, <1>3, <1>4 DEF Next, vars

----------------------------------------------------------------------------
(* Asset bytes to and from the hub: what holds at every step *)

\* The steps of a push, and of an export or a pull.
Loop == {"stage", "plan", "transfer", "confirm", "judge"}
UpSteps == {"scan", "list", "done"} \cup Loop
DownSteps == {"check", "pick", "plan", "transfer", "judge", "commit", "done"}

TransferTypes ==
    /\ AT!TypeOK
    /\ assetKind \in {"up", "down"} /\ assetPc \in (IF assetKind = "up" THEN UpSteps ELSE DownSteps)
    /\ edited \subseteq Paths /\ truncated \in BOOLEAN /\ progressed \in BOOLEAN
    /\ faults \in Nat /\ edits \in Nat

\* Which parts of a window are set when.
WindowSet ==
    /\ assetPc \in {"scan", "check", "list", "pick", "commit"} => window = {}
    /\ assetPc \in {"scan", "check", "commit", "list"} => todo = {}
    /\ assetPc \in {"stage", "plan", "transfer", "judge"} => landed = {}
    /\ assetPc = "confirm" => landed \subseteq remaining
    /\ todo \cap window = {}

\* A push has looked at every riding file that nobody has changed since.
Gate ==
    assetKind = "up" /\ assetPc # "scan" /\ assetFate # "refused" =>
        \A p \in AT!Riding \ edited : local[p] = Declared[p] => Declared[p] \notin Secrets

\* What a push has staged: the declared bytes of a path that may leave the machine.
MayLeave(p) ==
    /\ rows[p] \in Blobs /\ assetStage[p] = rows[p] /\ p \notin kept
    /\ rows[p] \in Secrets => p \in edited \/ rows[p] # Declared[p]

\* A push's page and window: one row of each blob, and none that was counted before.
InHand == IF assetPc = "stage" THEN todo \cup window ELSE todo \cup remaining
UpWindow ==
    assetKind = "up" =>
        /\ IsFiniteSet(AT!BlobsOf(window))
        /\ assetPc \in Loop =>
             /\ \A p \in window : MayLeave(p)
             /\ \A p \in todo : rows[p] \in Blobs
             /\ \A p, q \in window : rows[p] = rows[q] => p = q
             /\ \A p \in todo : \A q \in window : rows[p] # rows[q]
             /\ \A p \in InHand : rows[p] \notin uploaded \cup present
        /\ assetPc \in Loop \ {"stage"} => \A p \in window \ remaining : rows[p] \in stored

\* Undisturbed, a page that was not cut off covers what the hub lacks.
Covered ==
    assetKind = "up" /\ faults = 0 /\ edits = 0 =>
        /\ head = Declared
        /\ assetPc \in Loop /\ ~truncated =>
             \A p \in AT!Inspected :
                \/ Declared[p] \in stored
                \/ p \in todo /\ rows[p] = Declared[p]
                \/ \E q \in window : rows[q] = Declared[p]

\* What an export or a pull still lacks is in hand.
Restoring ==
    assetKind = "down" /\ assetPc \notin {"check", "done"} =>
        /\ rows \in [Paths -> Blobs]
        /\ \A p \in AT!Riding \ edited :
             local[p] = rows[p] \/ p \in todo \cup remaining \/ assetStage[p] # None

TransferInv ==
    /\ TransferTypes /\ WindowSet /\ Gate /\ UpWindow /\ Covered /\ Restoring
    /\ AT!OnlyDeclaredBytesLeave /\ AT!CountedOnce /\ AT!UploadComplete /\ AT!RestoreExact

----------------------------------------------------------------------------
(* Types *)

\* The transfers count with the same operators.
LEMMA SameCounts ==
    \A S : AT!Cardinality(S) = Cardinality(S) /\ (AT!IsFiniteSet(S) <=> IsFiniteSet(S))
<1>1. \A S : AT!Cardinality(S) = Cardinality(S)
  BY DEF Cardinality, AT!Cardinality
<1>2. \A S : AT!IsFiniteSet(S) <=> IsFiniteSet(S)
  BY DEF IsFiniteSet, AT!IsFiniteSet
<1> QED
  BY <1>1, <1>2

LEMMA TransferInit == AT!AssetTransferAssumption /\ AT!Init => TransferInv
<1> SUFFICES ASSUME AT!AssetTransferAssumption, AT!Init PROVE TransferInv
  OBVIOUS
<1>1. AT!BlobsOf(window) = {} /\ window = {} /\ todo = {} /\ assetPc \in {"scan", "check"}
  BY DEF AT!Init, AT!BlobsOf
<1>2. /\ Cardinality({}) = 0 /\ IsFiniteSet({})
      /\ AT!Empty \in [Paths -> Blobs \cup {None}]
      /\ AT!Empty \in [Paths -> AT!Contents \cup {None}]
  BY FS_EmptySet DEF AT!Empty
<1>3. assetKind \in {"up", "down"}
      /\ assetPc \in (IF assetKind = "up" THEN UpSteps ELSE DownSteps)
      /\ (assetFate = "none" <=> AT!Running)
  BY DEF AT!Init, UpSteps, DownSteps, AT!Running
<1>4. AT!TypeOK
  <2>1. /\ kept \in SUBSET Paths /\ local \in [Paths -> AT!Contents] /\ head \in [Paths -> Blobs]
        /\ stored \in SUBSET Blobs /\ uploaded = {} /\ present = {} /\ attempt = 1
        /\ remaining = {} /\ landed = {}
        /\ rows = AT!Empty /\ assetStage = AT!Empty
    BY DEF AT!Init, AT!AssetTransferAssumption
  <2> QED
    BY <1>1, <1>2, <1>3, <2>1, SameCounts DEF AT!AssetTransferAssumption, AT!TypeOK
<1>5. TransferTypes
  BY <1>3, <1>4 DEF AT!Init, TransferTypes
<1> QED
  BY <1>1, <1>2, <1>5 DEF AT!AssetTransferAssumption, AT!Init, TransferInv, WindowSet, Gate,
     UpWindow, Covered, Restoring,
     AT!OnlyDeclaredBytesLeave, AT!CountedOnce, AT!UploadComplete, AT!RestoreExact, Loop

\* One row more in the window of a push.
LEMMA StagedOneMore ==
    ASSUME AT!AssetTransferAssumption, TransferTypes, UpWindow, assetKind = "up", assetPc = "stage",
           NEW p \in todo, window' = window \cup {p}, rows' = rows, Cardinality(window) < WindowSize
    PROVE  /\ Cardinality(window') <= WindowSize
           /\ Cardinality(window') = Cardinality(AT!BlobsOf(window'))
           /\ IsFiniteSet(AT!BlobsOf(window'))
           /\ AT!BlobsOf(window)' = AT!BlobsOf(window')
<1>1. IsFiniteSet(window) /\ Cardinality(window) \in Nat /\ WindowSize \in Nat
  <2>1. IsFiniteSet(Paths) /\ window \subseteq Paths /\ WindowSize \in Nat
    BY SameCounts DEF TransferTypes, AT!TypeOK, AT!AssetTransferAssumption
  <2> QED
    BY <2>1, FS_Subset, FS_CardinalityType
<1>2. IsFiniteSet(AT!BlobsOf(window)) /\ Cardinality(window) = Cardinality(AT!BlobsOf(window))
  BY SameCounts DEF UpWindow, TransferTypes, AT!TypeOK
<1>3. p \notin window /\ rows[p] \notin AT!BlobsOf(window)
  BY DEF UpWindow, Loop, AT!BlobsOf
<1>4. AT!BlobsOf(window') = AT!BlobsOf(window) \cup {rows[p]}
  BY DEF AT!BlobsOf
<1>5. AT!BlobsOf(window)' = AT!BlobsOf(window')
  BY DEF AT!BlobsOf
<1>6. Cardinality(window') = Cardinality(window) + 1
  BY <1>1, <1>3, FS_AddElement
<1>7. IsFiniteSet(AT!BlobsOf(window'))
      /\ Cardinality(AT!BlobsOf(window')) = Cardinality(AT!BlobsOf(window)) + 1
  BY ZenonT(30), <1>2, <1>3, <1>4, FS_AddElement
<1> QED
  BY <1>1, <1>2, <1>5, <1>6, <1>7

LEMMA TypesStep ==
    AT!AssetTransferAssumption /\ TransferTypes /\ WindowSet /\ UpWindow /\ Restoring
    /\ [AT!Next]_AT!vars
    => TransferTypes' /\ WindowSet'
<1> SUFFICES ASSUME AT!AssetTransferAssumption, TransferTypes, WindowSet, UpWindow, Restoring,
                    [AT!Next]_AT!vars
             PROVE  TransferTypes' /\ WindowSet'
  OBVIOUS
<1> USE DEF TransferTypes, AT!TypeOK, WindowSet, UpSteps, DownSteps, Loop, AT!Running
<1>1. window' = window /\ rows' = rows => AT!BlobsOf(window)' = AT!BlobsOf(window)
  BY DEF AT!BlobsOf
<1>2. window' = {} =>
        AT!BlobsOf(window)' = {} /\ Cardinality(window') = 0 /\ Cardinality(AT!BlobsOf(window)') = 0
  BY FS_EmptySet DEF AT!BlobsOf
<1>3. WindowSize \in Nat \ {0} /\ Attempts \in Nat \ {0} /\ None \notin AT!Contents
  BY DEF AT!AssetTransferAssumption, AT!Contents
<1>4. CASE UNCHANGED AT!vars
  BY <1>1, <1>4 DEF AT!vars, AT!files, AT!hub, AT!page, AT!work, AT!report
<1>5. CASE AT!Scan
  BY <1>1, <1>5 DEF AT!Scan, AT!End, AT!Go, AT!files, AT!hub, AT!page, AT!work, AT!report
<1>6. CASE AT!ListMissing
  <2>1. CASE AT!Missing = {}
    BY <1>1, <1>6, <2>1 DEF AT!ListMissing, AT!End, AT!files, AT!hub, AT!page, AT!work, AT!report
  <2>2. CASE AT!Missing # {}
    <3>1. PICK listed \in SUBSET AT!Missing :
            /\ rows' = [p \in Paths |-> IF p \in listed THEN head[p] ELSE None]
            /\ truncated' = (listed # AT!Missing) /\ progressed' = FALSE /\ todo' = listed
            /\ AT!Go("stage")
      BY <1>6, <2>2 DEF AT!ListMissing
    <3>2. rows' \in [Paths -> Blobs \cup {None}] /\ todo' \subseteq Paths
      BY <3>1 DEF AT!Missing
    <3>3. window = {} /\ window' = {}
          /\ UNCHANGED <<AT!files, AT!hub, AT!work, assetStage, AT!report, faults, edits>>
          /\ assetPc = "list"
      BY <1>6 DEF AT!ListMissing, AT!work
    <3> QED
      BY <1>2, <3>1, <3>2, <3>3 DEF AT!Go, AT!files, AT!hub, AT!work, AT!report
  <2> QED
    BY <2>1, <2>2
<1>7. CASE AT!ListFails
  BY <1>1, <1>7 DEF AT!ListFails, AT!Fault, AT!End, AT!files, AT!hub, AT!page, AT!work, AT!report
<1>8. ASSUME NEW blob \in Blobs, AT!Stage(blob) PROVE TransferTypes' /\ WindowSet'
  <2>1. assetPc = "stage" /\ assetKind = "up" /\ rows' = rows /\ Cardinality(window) < WindowSize
        /\ todo' = {p \in todo : rows[p] # blob}
    BY <1>8, SameCounts DEF AT!Stage, AT!page
  <2>2. CASE AT!Source(blob) = {}
    BY <1>1, <1>8, <2>1, <2>2 DEF AT!Stage, AT!files, AT!hub, AT!page, AT!report
  <2>3. CASE AT!Source(blob) # {}
    <3>1. PICK p \in AT!Source(blob) :
            window' = window \cup {p} /\ assetStage' = [assetStage EXCEPT ![p] = local[p]]
      BY <1>8, <2>3 DEF AT!Stage
    <3>2. p \in todo /\ rows[p] = blob /\ p \in Paths
      BY <3>1 DEF AT!Source
    <3>3. /\ Cardinality(window') <= WindowSize
          /\ Cardinality(window') = Cardinality(AT!BlobsOf(window)')
      BY <2>1, <3>1, <3>2, StagedOneMore
    <3>4. assetStage' \in [Paths -> AT!Contents \cup {None}] /\ todo' \cap window' = {}
      BY <2>1, <3>1, <3>2
    <3> QED
      BY <1>8, <2>1, <3>1, <3>2, <3>3, <3>4, SameCounts
      DEF AT!Stage, AT!files, AT!hub, AT!page, AT!report
  <2> QED
    BY <2>2, <2>3
<1>9. ASSUME NEW blob \in Blobs, AT!StageFails(blob) PROVE TransferTypes' /\ WindowSet'
  BY <1>1, <1>9 DEF AT!StageFails, AT!Fault, AT!files, AT!hub, AT!page, AT!work, AT!report
<1>10. CASE AT!CloseWindow \/ AT!PageDone
  BY <1>1, <1>3, <1>10 DEF AT!CloseWindow, AT!PageDone, AT!Go, AT!End, AT!files, AT!hub, AT!page,
     AT!work, AT!report
<1>11. CASE AT!PlanRetry \/ AT!PlanFatal
  <2>1. AT!Empty \in [Paths -> AT!Contents \cup {None}]
    BY DEF AT!Empty
  <2>2. faults' \in Nat /\ assetStage' \in {assetStage, AT!Empty} /\ attempt' \in 1..Attempts
    BY <1>3, <1>11 DEF AT!PlanRetry, AT!PlanFatal, AT!Fault, AT!work
  <2>3. UNCHANGED <<AT!files, AT!hub, AT!page, progressed, todo, window, remaining, landed,
  AT!report, edits>>
    BY <1>11 DEF AT!PlanRetry, AT!PlanFatal, AT!work
  <2>4. (assetPc' = assetPc /\ assetFate' = assetFate) \/ (assetPc' = "done" /\ assetFate' = "failed")
    BY <1>11 DEF AT!PlanRetry, AT!PlanFatal, AT!End
  <2>5. assetPc = "plan"
    BY <1>11 DEF AT!PlanRetry, AT!PlanFatal
  <2> QED
    BY <1>1, <2>1, <2>2, <2>3, <2>4, <2>5 DEF AT!files, AT!hub, AT!page, AT!report
<1>12. CASE AT!PlanUpload
  <2>1. remaining' \subseteq remaining /\ present' \in SUBSET Blobs
    BY <1>12 DEF AT!PlanUpload, AT!BlobsOf
  <2> QED
    BY <1>1, <1>12, <2>1 DEF AT!PlanUpload, AT!Go, AT!files, AT!hub, AT!page
<1>13. CASE AT!Upload
  <2>1. PICK well \in SUBSET remaining :
          landed' = well
          /\ (IF well = remaining THEN UNCHANGED faults ELSE AT!Fault)
          /\ AT!Go(IF well = {} THEN "judge" ELSE "confirm")
    BY <1>13 DEF AT!Upload
  <2>2. faults' \in Nat
    BY <2>1 DEF AT!Fault
  <2> QED
    BY <1>1, <1>13, <2>1, <2>2 DEF AT!Upload, AT!Go, AT!files, AT!page, AT!report
<1>14. CASE AT!Confirm
  <2>1. AT!BlobsOf(landed) \subseteq Blobs
    BY <1>14 DEF AT!Confirm, AT!BlobsOf, UpWindow, MayLeave
  <2> QED
    BY <1>1, <1>14, <2>1 DEF AT!Confirm, AT!Go, AT!files, AT!page
<1>15. CASE AT!ConfirmFails
  <2>1. AT!BlobsOf(landed) \subseteq Blobs
    BY <1>15 DEF AT!ConfirmFails, AT!BlobsOf, UpWindow, MayLeave
  <2> QED
    BY <1>1, <1>15, <2>1 DEF AT!ConfirmFails, AT!Fault, AT!End, AT!files, AT!page, AT!work,
       AT!report
<1>16. CASE AT!Judge
  <2>1. AT!Empty \in [Paths -> AT!Contents \cup {None}]
    BY DEF AT!Empty
  <2>2. CASE remaining = {}
    <3>1. /\ assetPc = "judge" /\ window' = {} /\ assetFate' = assetFate /\ landed = {}
          /\ UNCHANGED <<AT!files, AT!hub, AT!page, progressed, todo, remaining, landed, attempt,
                         AT!report, faults, edits>>
      BY <1>16, <2>2 DEF AT!Judge, AT!Go
    <3>2. assetStage' \in [Paths -> AT!Contents \cup {None}]
          /\ assetPc' = IF assetKind = "up" THEN "stage" ELSE "pick"
      BY <1>16, <2>1, <2>2 DEF AT!Judge, AT!Go
    <3>3. assetKind' = assetKind /\ remaining' = {} /\ landed' = {}
          /\ Cardinality(window') = Cardinality(AT!BlobsOf(window)')
          /\ Cardinality(window') <= WindowSize
      BY <1>2, <1>3, <2>2, <3>1 DEF AT!files
    <3>4. CASE assetKind = "up"
      BY <3>1, <3>2, <3>3, <3>4, SameCounts DEF AT!files, AT!hub, AT!page, AT!report
    <3>5. CASE assetKind = "down"
      BY <3>1, <3>2, <3>3, <3>5, SameCounts DEF AT!files, AT!hub, AT!page, AT!report
    <3> QED
      BY <3>4, <3>5
  <2>3. CASE remaining # {}
    BY <1>1, <1>3, <1>16, <2>1, <2>3 DEF AT!Judge, AT!Go, AT!End, AT!files, AT!hub, AT!page,
       AT!report
  <2> QED
    BY <2>2, <2>3
<1>17. CASE AT!Check
  <2>1. rows' \in [Paths -> Blobs \cup {None}] /\ todo' \in SUBSET Paths /\ window' = {}
        /\ UNCHANGED <<remaining, landed>>
    BY <1>17 DEF AT!Check, AT!Riding, AT!work
  <2> QED
    BY <1>2, <1>17, <2>1 DEF AT!Check, AT!Go, AT!files, AT!hub, AT!work, AT!report
<1>18. CASE AT!CheckFails
  BY <1>1, <1>18 DEF AT!CheckFails, AT!Fault, AT!End, AT!files, AT!hub, AT!page, AT!work, AT!report
<1>19. CASE AT!Pick
  <2>1. CASE todo = {}
    BY <1>1, <1>19, <2>1 DEF AT!Pick, AT!Go, AT!files, AT!hub, AT!page, AT!report
  <2>2. CASE todo # {}
    <3>1. PICK paths \in SUBSET todo :
            /\ AT!FitsWindow(paths)
            /\ window' = paths /\ remaining' = paths /\ todo' = todo \ paths /\ attempt' = 1
            /\ AT!Go("plan")
      BY <1>19, <2>2 DEF AT!Pick
    <3>2. AT!BlobsOf(window)' = AT!BlobsOf(paths)
      BY <1>19, <3>1 DEF AT!Pick, AT!page, AT!BlobsOf
    <3> QED
      BY <1>3, <1>19, <3>1, <3>2 DEF AT!Pick, AT!FitsWindow, AT!Go, AT!files, AT!hub, AT!page,
         AT!report
  <2> QED
    BY <2>1, <2>2
<1>20. CASE AT!PlanDownload
  BY <1>1, <1>20 DEF AT!PlanDownload, AT!Go, AT!files, AT!hub, AT!page, AT!work, AT!report
<1>21. CASE AT!Download
  <2>1. AT!Empty \in [Paths -> AT!Contents \cup {None}]
    BY DEF AT!Empty
  <2>2. /\ faults' \in Nat /\ remaining' \subseteq remaining
        /\ assetStage' \in [Paths -> AT!Contents \cup {None}]
        /\ (assetPc' = "done" /\ assetFate' = "failed") \/ (assetPc' = "judge" /\ assetFate' = assetFate)
    BY <1>21, <2>1 DEF AT!Download, AT!Fault, AT!End, AT!Go, AT!Contents
  <2> QED
    BY <1>1, <1>21, <2>2 DEF AT!Download, AT!files, AT!hub, AT!page, AT!report
<1>22. CASE AT!Commit
  <2>1. local' \in [Paths -> AT!Contents] /\ assetStage' \in [Paths -> AT!Contents \cup {None}]
    BY <1>22 DEF AT!Commit, AT!Staged, AT!Empty
  <2>2. assetPc = "commit" /\ assetPc' = "done" /\ assetFate' # "none"
    BY <1>22 DEF AT!Commit, AT!End
  <2> QED
    BY <1>1, <1>22, <2>1, <2>2 DEF AT!Commit, AT!hub, AT!page, AT!work, AT!report
<1>23. ASSUME NEW p \in Paths, AT!Spoil(p) PROVE TransferTypes' /\ WindowSet'
  BY <1>1, <1>23 DEF AT!Spoil, AT!Fault, AT!Contents, AT!files, AT!hub, AT!page, AT!work, AT!report
<1>24. ASSUME NEW p \in Paths, NEW b \in AT!Contents, AT!Edit(p, b)
       PROVE TransferTypes' /\ WindowSet'
  BY <1>1, <1>24 DEF AT!Edit, AT!hub, AT!page, AT!work, AT!report
<1>25. ASSUME NEW p \in Paths, NEW b \in Blobs, AT!OtherPush(p, b)
       PROVE TransferTypes' /\ WindowSet'
  BY <1>1, <1>25 DEF AT!OtherPush, AT!files, AT!page, AT!work, AT!report
<1>26. ASSUME NEW b \in Blobs, AT!OtherUpload(b) PROVE TransferTypes' /\ WindowSet'
  BY <1>1, <1>26 DEF AT!OtherUpload, AT!files, AT!page, AT!work, AT!report
<1> QED
  BY <1>4, <1>5, <1>6, <1>7, <1>8, <1>9, <1>10, <1>11, <1>12, <1>13, <1>14, <1>15, <1>16, <1>17,
     <1>18, <1>19, <1>20,
     <1>21, <1>22, <1>23, <1>24, <1>25, <1>26
  DEF AT!Next, AT!Step, AT!Up, AT!Down

----------------------------------------------------------------------------
(* What leaves the machine *)

\* A file changes by hand, which is recorded, or at the end of a restore.
LEMMA LocalKept ==
    ASSUME AT!AssetTransferAssumption, TransferTypes, [AT!Next]_AT!vars
    PROVE  /\ UNCHANGED <<assetKind, kept>> /\ edited \subseteq edited'
           /\ \/ assetKind = "down" /\ assetPc = "commit" /\ assetPc' = "done"
              \/ \A p \in Paths \ edited' : local'[p] = local[p]
<1> USE DEF AT!files, AT!hub, AT!page, AT!work, AT!report
<1>1. ASSUME NEW p \in Paths, NEW b \in AT!Contents, AT!Edit(p, b)
      PROVE  UNCHANGED <<assetKind, kept>> /\ edited \subseteq edited'
             /\ \A q \in Paths \ edited' : local'[q] = local[q]
  BY <1>1 DEF AT!Edit, TransferTypes, AT!TypeOK
<1>2. CASE AT!Commit
  BY <1>2 DEF AT!Commit, AT!End, TransferTypes, UpSteps, Loop
<1>3. CASE UNCHANGED AT!files
  BY <1>3
<1>4. UNCHANGED AT!files \/ AT!Commit \/ \E p \in Paths, b \in AT!Contents : AT!Edit(p, b)
  BY DEF AT!Next, AT!Step, AT!Up, AT!Down, AT!vars, AT!Scan, AT!ListMissing, AT!ListFails,
     AT!Stage, AT!StageFails, AT!CloseWindow, AT!PageDone, AT!PlanRetry,
     AT!PlanFatal, AT!PlanUpload, AT!Upload, AT!Confirm, AT!ConfirmFails, AT!Judge, AT!Check,
     AT!CheckFails, AT!Pick, AT!PlanDownload, AT!Download,
     AT!Spoil, AT!OtherPush, AT!OtherUpload
<1> QED
  BY <1>1, <1>2, <1>3, <1>4

LEMMA GateStep ==
    AT!AssetTransferAssumption /\ TransferTypes /\ Gate /\ [AT!Next]_AT!vars => Gate'
<1> SUFFICES ASSUME AT!AssetTransferAssumption, TransferTypes, Gate, [AT!Next]_AT!vars PROVE Gate'
  OBVIOUS
<1>1. /\ UNCHANGED <<assetKind, kept>> /\ edited \subseteq edited'
      /\ \/ assetKind = "down" /\ assetPc = "commit" /\ assetPc' = "done"
         \/ \A p \in Paths \ edited' : local'[p] = local[p]
  BY LocalKept
<1>2. assetPc # "scan" /\ assetFate # "refused" => Gate'
  BY <1>1 DEF Gate, AT!Riding
<1>3. CASE assetPc = "scan"
  <2>1. CASE AT!Scan
    BY <1>1, <2>1 DEF AT!Scan, Gate, AT!Inspected, AT!End, AT!Riding, AT!files
  <2>2. CASE ~AT!Scan
    <3>1. assetPc' = "scan"
      BY <1>3, <2>2 DEF AT!Next, AT!Step, AT!Up, AT!Down, AT!vars, AT!ListMissing, AT!ListFails,
         AT!Stage, AT!StageFails, AT!CloseWindow, AT!PageDone, AT!PlanRetry,
         AT!PlanFatal, AT!PlanUpload, AT!Upload, AT!Confirm, AT!ConfirmFails, AT!Judge, AT!Check,
         AT!CheckFails, AT!Pick, AT!PlanDownload, AT!Download, AT!Commit,
         AT!Spoil, AT!Edit, AT!OtherPush, AT!OtherUpload
    <3> QED
      BY <3>1 DEF Gate
  <2> QED
    BY <2>1, <2>2
<1>4. CASE assetFate = "refused"
  <2>1. assetPc = "done"
    BY <1>4 DEF TransferTypes, AT!TypeOK, AT!Running
  <2>2. assetFate' = "refused"
    BY <1>4, <2>1 DEF AT!Next, AT!Step, AT!Up, AT!Down, AT!vars, AT!Scan, AT!ListMissing,
       AT!ListFails, AT!Stage, AT!StageFails, AT!CloseWindow, AT!PageDone,
       AT!PlanRetry, AT!PlanFatal, AT!PlanUpload, AT!Upload, AT!Confirm, AT!ConfirmFails, AT!Judge,
       AT!Check, AT!CheckFails, AT!Pick, AT!PlanDownload,
       AT!Download, AT!Commit, AT!Spoil, AT!Edit, AT!OtherPush, AT!OtherUpload, AT!Running
  <2> QED
    BY <2>2 DEF Gate
<1> QED
  BY <1>2, <1>3, <1>4

\* The rows of a window and what is staged for it are left alone, or there is no window.
LEMMA SentStep ==
    AT!AssetTransferAssumption /\ TransferTypes /\ UpWindow /\ AT!OnlyDeclaredBytesLeave
    /\ [AT!Next]_AT!vars
    => AT!OnlyDeclaredBytesLeave'
<1> SUFFICES ASSUME AT!AssetTransferAssumption, TransferTypes, UpWindow, AT!OnlyDeclaredBytesLeave,
                    [AT!Next]_AT!vars
             PROVE  AT!OnlyDeclaredBytesLeave'
  OBVIOUS
<1>1. UNCHANGED <<assetKind, kept>> /\ edited \subseteq edited'
  BY LocalKept
<1>2. CASE sent' = sent
  BY <1>1, <1>2 DEF AT!OnlyDeclaredBytesLeave
<1>3. CASE AT!Upload
  <2>1. PICK arrived \in SUBSET remaining :
          sent' = sent \cup {<<rows[p], assetStage[p], p>> : p \in arrived}
    BY <1>3 DEF AT!Upload
  <2>2. \A p \in arrived : MayLeave(p)
    BY <1>3, <2>1 DEF AT!Upload, UpWindow, TransferTypes, AT!TypeOK, Loop
  <2> QED
    BY <1>1, <2>1, <2>2 DEF AT!OnlyDeclaredBytesLeave, MayLeave
<1>4. sent' = sent \/ AT!Upload
  BY DEF AT!Next, AT!Step, AT!Up, AT!Down, AT!vars, AT!hub, AT!Scan, AT!ListMissing, AT!ListFails,
     AT!Stage, AT!StageFails, AT!CloseWindow, AT!PageDone, AT!PlanRetry,
     AT!PlanFatal, AT!PlanUpload, AT!Confirm, AT!ConfirmFails, AT!Judge, AT!Check, AT!CheckFails,
     AT!Pick, AT!PlanDownload, AT!Download, AT!Commit,
     AT!Spoil, AT!Edit, AT!OtherPush, AT!OtherUpload
<1> QED
  BY <1>2, <1>3, <1>4

LEMMA UpWindowStep ==
    /\ AT!AssetTransferAssumption /\ TransferTypes /\ WindowSet /\ Gate /\ UpWindow
    /\ AT!CountedOnce /\ [AT!Next]_AT!vars
    => UpWindow' /\ AT!CountedOnce'
<1> SUFFICES ASSUME AT!AssetTransferAssumption, TransferTypes, WindowSet, Gate, UpWindow,
                    AT!CountedOnce, [AT!Next]_AT!vars
             PROVE  UpWindow' /\ AT!CountedOnce'
  OBVIOUS
<1> USE DEF AT!files, AT!hub, AT!page, AT!work, AT!report
<1>1. UNCHANGED <<assetKind, kept>> /\ edited \subseteq edited'
  BY LocalKept
\* Nothing is staged, sent or counted; the window and the page are as they were or ended.
<1>2. ASSUME UNCHANGED <<rows, window, uploaded, present>>, stored \subseteq stored',
             assetPc' \notin Loop
               \/ (assetPc \in Loop /\ UNCHANGED <<todo, remaining>> /\ assetStage' = assetStage
                   /\ (assetPc' = "stage" <=> assetPc = "stage")),
             assetPc' \in Loop \/ assetPc' \notin Loop \ {"stage"}
      PROVE  UpWindow' /\ AT!CountedOnce'
  <2>1. AT!BlobsOf(window)' = AT!BlobsOf(window)
    BY <1>2 DEF AT!BlobsOf
  <2>2. AT!CountedOnce'
    BY <1>2 DEF AT!CountedOnce
  <2>3. CASE assetPc' \notin Loop
    BY <1>1, <2>1, <2>2, <2>3 DEF UpWindow
  <2>4. CASE assetPc' \in Loop
    <3>1. InHand' = InHand
      BY <1>2, <2>4 DEF InHand
    <3>2. \A p \in window : MayLeave(p) => MayLeave(p)'
      BY <1>1, <1>2, <2>4 DEF MayLeave
    <3> QED
      BY <1>1, <1>2, <2>1, <2>2, <2>4, <3>1, <3>2 DEF UpWindow
  <2> QED
    BY <2>3, <2>4
<1>3. CASE UNCHANGED AT!vars
  BY <1>2, <1>3 DEF AT!vars
<1>4. CASE AT!Scan \/ AT!ListFails
  BY <1>2, <1>4 DEF AT!Scan, AT!ListFails, AT!End, AT!Go, Loop
<1>5. CASE assetKind = "down"
  <2>1. UNCHANGED <<uploaded, present>> /\ stored \subseteq stored'
    BY <1>5 DEF AT!Next, AT!Step, AT!Up, AT!Down, AT!vars, AT!Scan, AT!ListMissing, AT!ListFails,
       AT!Stage, AT!StageFails, AT!CloseWindow, AT!PageDone, AT!PlanRetry,
       AT!PlanFatal, AT!PlanUpload, AT!Upload, AT!Confirm, AT!ConfirmFails, AT!Judge, AT!Check,
       AT!CheckFails, AT!Pick, AT!PlanDownload, AT!Download, AT!Commit,
       AT!Spoil, AT!Edit, AT!OtherPush, AT!OtherUpload, TransferTypes, DownSteps
  <2> QED
    BY <1>1, <1>5, <2>1 DEF UpWindow, AT!CountedOnce
<1>6. CASE AT!Check \/ AT!CheckFails \/ AT!Pick \/ AT!PlanDownload \/ AT!Download \/ AT!Commit
  <2>1. assetKind = "down"
    BY <1>6 DEF AT!Check, AT!CheckFails, AT!Pick, AT!PlanDownload, AT!Download, AT!Commit,
       TransferTypes, UpSteps, Loop
  <2> QED
    BY <1>5, <2>1
<1>7. ASSUME NEW p \in Paths, AT!Spoil(p) PROVE UpWindow' /\ AT!CountedOnce'
  BY <1>5, <1>7 DEF AT!Spoil
<1>8. ASSUME NEW p \in Paths, NEW b \in AT!Contents, AT!Edit(p, b)
      PROVE UpWindow' /\ AT!CountedOnce'
  BY <1>2, <1>8 DEF AT!Edit, Loop
<1>9. ASSUME NEW p \in Paths, NEW b \in Blobs, AT!OtherPush(p, b) PROVE UpWindow' /\ AT!CountedOnce'
  BY <1>2, <1>9 DEF AT!OtherPush, Loop
<1>10. ASSUME NEW b \in Blobs, AT!OtherUpload(b) PROVE UpWindow' /\ AT!CountedOnce'
  BY <1>2, <1>10 DEF AT!OtherUpload, Loop
<1>11. CASE AT!ListMissing
  <2>1. CASE AT!Missing = {}
    BY <1>2, <1>11, <2>1 DEF AT!ListMissing, AT!End, Loop
  <2>2. CASE AT!Missing # {}
    <3>1. PICK listed \in SUBSET AT!Missing :
            rows' = [p \in Paths |-> IF p \in listed THEN head[p] ELSE None]
            /\ todo' = listed /\ AT!Go("stage")
      BY <1>11, <2>2 DEF AT!ListMissing
    <3>2. window = {} /\ window' = {} /\ UNCHANGED <<AT!hub, uploaded, present>>
      BY <1>11 DEF AT!ListMissing, WindowSet
    <3>3. \A p \in todo' : rows'[p] \in Blobs /\ rows'[p] \notin uploaded \cup present
      BY <3>1 DEF AT!Missing, AT!CountedOnce, TransferTypes, AT!TypeOK
    <3>4. AT!BlobsOf(window)' = {} /\ IsFiniteSet({}) /\ InHand' = todo'
      BY <3>1, <3>2, FS_EmptySet DEF AT!BlobsOf, InHand, AT!Go
    <3> QED
      BY <3>1, <3>2, <3>3, <3>4 DEF UpWindow, AT!CountedOnce, AT!Go, Loop
  <2> QED
    BY <2>1, <2>2
<1>12. ASSUME NEW blob \in Blobs, AT!Stage(blob) \/ AT!StageFails(blob), assetKind = "up"
       PROVE UpWindow' /\ AT!CountedOnce'
  <2>1. /\ assetPc = "stage" /\ assetPc' = "stage"
        /\ todo' = {p \in todo : rows[p] # blob} /\ Cardinality(window) < WindowSize
        /\ UNCHANGED <<rows, AT!hub, uploaded, present, remaining>>
    BY <1>12, SameCounts DEF AT!Stage, AT!StageFails
  <2>2. /\ \A p \in window : MayLeave(p) /\ rows[p] \notin uploaded \cup present
        /\ \A p \in todo : rows[p] \in Blobs /\ rows[p] \notin uploaded \cup present
        /\ \A p, q \in window : rows[p] = rows[q] => p = q
        /\ \A p \in todo : \A q \in window : rows[p] # rows[q]
        /\ IsFiniteSet(AT!BlobsOf(window))
    BY <1>12, <2>1 DEF UpWindow, InHand, Loop
  <2>3. CASE UNCHANGED <<window, assetStage>>
    <3>1. AT!BlobsOf(window)' = AT!BlobsOf(window) /\ InHand' = todo' \cup window
      BY <2>1, <2>3 DEF AT!BlobsOf, InHand
    <3>2. \A p \in window : MayLeave(p)'
      BY <1>1, <2>1, <2>2, <2>3 DEF MayLeave
    <3> QED
      BY <2>1, <2>2, <2>3, <3>1, <3>2 DEF UpWindow, AT!CountedOnce
  <2>4. CASE AT!Stage(blob) /\ AT!Source(blob) # {}
    <3>1. PICK p \in AT!Source(blob) :
            window' = window \cup {p} /\ assetStage' = [assetStage EXCEPT ![p] = local[p]]
      BY <2>4 DEF AT!Stage
    <3>2. p \in todo /\ rows[p] = blob /\ p \notin kept /\ local[p] = blob /\ p \in Paths
      BY <3>1 DEF AT!Source, TransferTypes, AT!TypeOK
    <3>3. IsFiniteSet(AT!BlobsOf(window)')
      BY <1>12, <2>1, <3>1, <3>2, StagedOneMore
    <3>4. assetStage'[p] = blob /\ \A q \in window : assetStage'[q] = assetStage[q]
      <4>1. p \notin window
        BY <2>2, <3>2
      <4>2. assetStage \in [Paths -> AT!Contents \cup {None}] /\ window \subseteq Paths
        BY DEF TransferTypes, AT!TypeOK
      <4> QED
        BY <3>1, <3>2, <4>1, <4>2
    <3>5. MayLeave(p)'
      <4>1. assetFate # "refused"
        BY <2>1 DEF TransferTypes, AT!TypeOK, AT!Running
      <4>2. blob \in Secrets => p \in edited \/ blob # Declared[p]
        BY <1>12, <2>1, <3>2, <4>1 DEF Gate, AT!Riding
      <4> QED
        BY <1>1, <2>1, <3>2, <3>4, <4>2 DEF MayLeave
    <3>6. \A q \in window : MayLeave(q)'
      BY <1>1, <2>1, <2>2, <3>4 DEF MayLeave
    <3>7. InHand' = todo' \cup window'
      BY <2>1 DEF InHand
    <3> QED
      BY <2>1, <2>2, <3>1, <3>2, <3>3, <3>5, <3>6, <3>7 DEF UpWindow, AT!CountedOnce
  <2> QED
    BY <1>12, <2>3, <2>4 DEF AT!Stage, AT!StageFails
<1>13. CASE AT!CloseWindow /\ assetKind = "up"
  <2>1. /\ assetPc = "stage" /\ assetPc' = "plan" /\ remaining' = window
        /\ UNCHANGED <<rows, AT!hub, uploaded, present, todo, window, assetStage>>
    BY <1>13 DEF AT!CloseWindow, AT!Go
  <2>2. AT!BlobsOf(window)' = AT!BlobsOf(window) /\ InHand' = InHand
    BY <2>1 DEF AT!BlobsOf, InHand
  <2>3. \A p \in window : MayLeave(p) => MayLeave(p)'
    BY <1>1, <2>1 DEF MayLeave
  <2> QED
    BY <1>1, <2>1, <2>2, <2>3 DEF UpWindow, AT!CountedOnce, Loop
<1>14. CASE AT!PageDone
  BY <1>2, <1>14 DEF AT!PageDone, AT!Go, AT!End, Loop
<1>15. CASE (AT!PlanRetry \/ AT!PlanFatal) /\ assetKind = "up"
  BY <1>2, <1>15 DEF AT!PlanRetry, AT!PlanFatal, AT!End, Loop
<1>16. CASE AT!Upload
  BY <1>2, <1>16 DEF AT!Upload, AT!Go, Loop
<1>17. CASE AT!ConfirmFails
  BY <1>2, <1>17 DEF AT!ConfirmFails, AT!End, Loop
\* Some of the window is counted and done with.
<1>18. ASSUME assetKind = "up", assetPc \in {"plan", "confirm"},
              assetPc' \in {"transfer", "judge"}, NEW done \in SUBSET remaining,
              remaining' = remaining \ done, stored' \cup AT!BlobsOf(done) = stored',
              stored \subseteq stored',
              \/ uploaded' = uploaded \cup AT!BlobsOf(done) /\ present' = present
              \/ present' = present \cup AT!BlobsOf(done) /\ uploaded' = uploaded,
              UNCHANGED <<rows, window, todo, assetStage>>
       PROVE  UpWindow' /\ AT!CountedOnce'
  <2>1. /\ \A p \in window : MayLeave(p)
        /\ \A p \in todo \cup remaining : rows[p] \notin uploaded \cup present
        /\ \A p, q \in window : rows[p] = rows[q] => p = q
        /\ \A p \in todo : rows[p] \in Blobs
        /\ \A p \in todo : \A q \in window : rows[p] # rows[q]
        /\ \A p \in window \ remaining : rows[p] \in stored
        /\ IsFiniteSet(AT!BlobsOf(window))
    BY <1>18 DEF UpWindow, InHand, Loop
  <2>2. AT!BlobsOf(window)' = AT!BlobsOf(window) /\ InHand' = todo \cup (remaining \ done)
    BY <1>18 DEF AT!BlobsOf, InHand
  <2>3. \A p \in window : MayLeave(p)'
    BY <1>1, <1>18, <2>1 DEF MayLeave
  <2>4. remaining \subseteq window
    BY DEF TransferTypes, AT!TypeOK
  <2>5. AT!CountedOnce'
    BY <1>18, <2>1 DEF AT!CountedOnce, AT!BlobsOf
  <2>6. \A p \in InHand' : rows[p] \notin uploaded' \cup present'
    BY <1>18, <2>1, <2>2, <2>4 DEF AT!BlobsOf
  <2>7. \A p \in window \ remaining' : rows[p] \in stored'
    BY <1>18, <2>1 DEF AT!BlobsOf
  <2> QED
    BY <1>18, <2>1, <2>2, <2>3, <2>5, <2>6, <2>7 DEF UpWindow, Loop
<1>19. CASE AT!PlanUpload
  <2> DEFINE already == {p \in remaining : rows[p] \in stored}
  <2>1. /\ assetKind = "up" /\ assetPc = "plan" /\ assetPc' = "transfer"
        /\ already \in SUBSET remaining /\ remaining' = remaining \ already
        /\ present' = present \cup AT!BlobsOf(already)
        /\ UNCHANGED <<rows, window, todo, assetStage, uploaded, stored>>
    BY <1>19 DEF AT!PlanUpload, AT!Go
  <2>2. stored \cup AT!BlobsOf(already) = stored
    BY DEF AT!BlobsOf
  <2> HIDE DEF already
  <2> QED
    BY <1>18, <2>1, <2>2
<1>20. CASE AT!Confirm
  <2>1. assetKind = "up" /\ assetPc = "confirm" /\ assetPc' = "judge"
        /\ landed \in SUBSET remaining /\ remaining' = remaining \ landed
        /\ uploaded' = uploaded \cup AT!BlobsOf(landed) /\ stored' = stored \cup AT!BlobsOf(landed)
        /\ UNCHANGED <<rows, window, todo, assetStage, present>>
    BY <1>20 DEF AT!Confirm, AT!Go, TransferTypes, DownSteps, WindowSet
  <2> QED
    BY <1>18, <2>1
<1>21. CASE AT!Judge /\ assetKind = "up"
  <2>1. CASE remaining = {}
    <3>1. /\ assetPc = "judge" /\ assetPc' = "stage" /\ window' = {}
          /\ UNCHANGED <<rows, todo, AT!hub, uploaded, present, remaining>>
      BY <1>21, <2>1 DEF AT!Judge, AT!Go
    <3>2. AT!BlobsOf(window)' = {} /\ IsFiniteSet({}) /\ InHand' = todo
      BY <3>1, FS_EmptySet DEF AT!BlobsOf, InHand
    <3> QED
      BY <1>1, <2>1, <3>1, <3>2 DEF UpWindow, AT!CountedOnce, InHand, Loop
  <2>2. CASE remaining # {}
    BY <1>2, <1>21, <2>2 DEF AT!Judge, AT!Go, AT!End, Loop
  <2> QED
    BY <2>1, <2>2
<1> QED
  BY <1>3, <1>4, <1>5, <1>6, <1>7, <1>8, <1>9, <1>10, <1>11, <1>12, <1>13, <1>14, <1>15, <1>16,
     <1>17, <1>19, <1>20, <1>21
  DEF AT!Next, AT!Step, AT!Up, AT!Down, TransferTypes

----------------------------------------------------------------------------
(* What is there at the end *)

LEMMA DoneIsFinal == assetPc = "done" /\ [AT!Next]_AT!vars => UNCHANGED AT!vars
  BY DEF AT!Next, AT!Step, AT!Up, AT!Down, AT!Scan, AT!ListMissing, AT!ListFails, AT!Stage,
     AT!StageFails, AT!CloseWindow, AT!PageDone, AT!PlanRetry,
     AT!PlanFatal, AT!PlanUpload, AT!Upload, AT!Confirm, AT!ConfirmFails, AT!Judge, AT!Check,
     AT!CheckFails, AT!Pick, AT!PlanDownload, AT!Download, AT!Commit,
     AT!Spoil, AT!Edit, AT!OtherPush, AT!OtherUpload, AT!Running

LEMMA CoveredStep ==
    /\ AT!AssetTransferAssumption /\ TransferTypes /\ TransferTypes' /\ WindowSet /\ UpWindow
    /\ Covered /\ AT!UploadComplete
    /\ [AT!Next]_AT!vars
    => Covered' /\ AT!UploadComplete'
<1> SUFFICES ASSUME AT!AssetTransferAssumption, TransferTypes, TransferTypes', WindowSet, UpWindow,
                    Covered, AT!UploadComplete,
                    [AT!Next]_AT!vars
             PROVE  Covered' /\ AT!UploadComplete'
  OBVIOUS
<1> SUFFICES ASSUME assetKind = "up", faults' = 0, edits' = 0 PROVE Covered' /\ AT!UploadComplete'
  <2>1. assetKind' = assetKind
    BY LocalKept
  <2> QED
    BY <2>1 DEF Covered, AT!UploadComplete
<1> USE DEF AT!files, AT!hub, AT!page, AT!work, AT!report
<1>1. CASE UNCHANGED AT!vars
  BY <1>1 DEF AT!vars, Covered, AT!UploadComplete, AT!Inspected, AT!Riding
<1>2. CASE assetPc = "done"
  BY <1>1, <1>2, DoneIsFinal
<1>3. faults \in Nat /\ edits \in Nat /\ (assetFate = "none" <=> assetPc # "done")
  BY DEF TransferTypes, AT!TypeOK, AT!Running
<1>4. AT!Fault => FALSE
  BY <1>3 DEF AT!Fault
<1>5. ASSUME NEW p \in Paths,
             AT!Spoil(p) \/ (\E b \in AT!Contents : AT!Edit(p, b))
             \/ \E b \in Blobs : AT!OtherPush(p, b) PROVE FALSE
  BY <1>3, <1>4, <1>5 DEF AT!Spoil, AT!Edit, AT!OtherPush
<1>6. ASSUME NEW b \in Blobs, AT!OtherUpload(b) \/ AT!StageFails(b) PROVE FALSE
  BY <1>3, <1>4, <1>6 DEF AT!OtherUpload, AT!StageFails
<1>7. CASE AT!ListFails \/ AT!ConfirmFails \/ AT!PlanRetry \/ AT!PlanFatal \/ AT!CheckFails
  BY <1>4, <1>7 DEF AT!ListFails, AT!ConfirmFails, AT!PlanRetry, AT!PlanFatal, AT!CheckFails
<1>8. CASE AT!Check \/ AT!Pick \/ AT!PlanDownload \/ AT!Download \/ AT!Commit
  BY <1>8 DEF AT!Check, AT!Pick, AT!PlanDownload, AT!Download, AT!Commit, TransferTypes, UpSteps,
     Loop
<1>9. ASSUME UNCHANGED AT!files, head' = head, faults' = faults, edits' = edits, assetPc # "done"
      PROVE  /\ assetKind' = "up" /\ head = Declared /\ AT!Inspected' = AT!Inspected
             /\ assetPc \in Loop /\ ~truncated =>
                        \A p \in AT!Inspected :
                           \/ Declared[p] \in stored
                           \/ p \in todo /\ rows[p] = Declared[p]
                           \/ \E q \in window : rows[q] = Declared[p]
  BY <1>9 DEF Covered, AT!Inspected, AT!Riding
<1>10. CASE AT!Scan
  BY <1>9, <1>10 DEF AT!Scan, AT!End, AT!Go, Covered, AT!UploadComplete, Loop
<1>11. CASE AT!ListMissing
  <2>1. CASE AT!Missing = {}
    <3>1. \A p \in Paths : head[p] \in stored
      BY <2>1 DEF AT!Missing
    <3> QED
      BY <1>9, <1>11, <2>1, <3>1 DEF AT!ListMissing, AT!End, Covered, AT!UploadComplete,
         AT!Inspected, AT!Riding, Loop
  <2>2. CASE AT!Missing # {}
    <3>1. PICK listed \in SUBSET AT!Missing :
            /\ rows' = [p \in Paths |-> IF p \in listed THEN head[p] ELSE None]
            /\ todo' = listed /\ AT!Go("stage")
            /\ truncated' = (listed # AT!Missing)
      BY <1>11, <2>2 DEF AT!ListMissing
    <3>2. assetKind' = "up" /\ head' = Declared /\ head = Declared /\ AT!Inspected' = AT!Inspected
          /\ stored' = stored /\ assetFate' = "none"
      BY <1>3, <1>9, <1>11, <3>1 DEF AT!ListMissing, AT!Go
    <3>3. ASSUME ~truncated', NEW p \in AT!Inspected, Declared[p] \notin stored
          PROVE  p \in todo' /\ rows'[p] = Declared[p]
      BY <3>1, <3>2, <3>3 DEF AT!Missing, AT!Inspected, AT!Riding
    <3> QED
      BY <3>2, <3>3 DEF Covered, AT!UploadComplete
  <2> QED
    BY <2>1, <2>2
<1>12. ASSUME NEW blob \in Blobs, AT!Stage(blob) PROVE Covered' /\ AT!UploadComplete'
  <2>1. /\ assetPc = "stage" /\ assetPc' = assetPc
        /\ todo' = {p \in todo : rows[p] # blob} /\ window \subseteq window'
        /\ UNCHANGED <<AT!files, rows, truncated, head, stored, assetFate, faults, edits>>
    BY <1>12 DEF AT!Stage
  <2>2. assetFate' = "none" /\ assetKind' = "up" /\ head' = Declared /\ AT!Inspected' = AT!Inspected
    BY <1>3, <1>9, <2>1
  <2>3. ASSUME ~truncated, NEW p \in AT!Inspected, Declared[p] \notin stored
        PROVE  \/ p \in todo' /\ rows[p] = Declared[p]
               \/ \E q \in window' : rows[q] = Declared[p]
    <3>1. CASE p \in todo /\ rows[p] = blob /\ rows[p] = Declared[p]
      <4>1. p \in AT!Source(blob)
        BY <3>1 DEF AT!Source, AT!Inspected, AT!Riding
      <4>2. PICK q \in AT!Source(blob) : window' = window \cup {q}
        BY <1>12, <4>1 DEF AT!Stage
      <4> QED
        BY <3>1, <4>2 DEF AT!Source
    <3> QED
      BY <1>9, <2>1, <2>3, <3>1 DEF Loop
  <2> QED
    BY <2>1, <2>2, <2>3 DEF Covered, AT!UploadComplete
<1>13. CASE AT!CloseWindow
  <2>1. assetPc = "stage" /\ assetPc' = "plan" /\ assetFate' = assetFate
        /\ UNCHANGED <<AT!files, AT!hub, AT!page, todo, window, faults, edits>>
    BY <1>13 DEF AT!CloseWindow, AT!Go
  <2> QED
    BY <1>3, <1>9, <2>1 DEF Covered, AT!UploadComplete, Loop
<1>14. CASE AT!PageDone
  <2>1. /\ assetPc = "stage" /\ window = {} /\ todo = {}
        /\ UNCHANGED <<AT!files, AT!hub, AT!page, progressed, todo, window, faults, edits>>
        /\ IF truncated /\ progressed THEN AT!Go("list") ELSE AT!End("ok")
    BY <1>14 DEF AT!PageDone
  <2> QED
    BY <1>3, <1>9, <2>1 DEF AT!Go, AT!End, Covered, AT!UploadComplete, Loop
<1>15. CASE AT!PlanUpload \/ AT!Upload
  <2>1. assetPc \in Loop /\ assetPc' \in Loop /\ assetFate' = assetFate
        /\ UNCHANGED <<AT!files, head, stored, AT!page, todo, window, edits>> /\ faults' = faults
    BY <1>4, <1>15 DEF AT!PlanUpload, AT!Upload, AT!Go, Loop
  <2> QED
    BY <1>3, <1>9, <2>1 DEF Covered, AT!UploadComplete, Loop
<1>16. CASE AT!Confirm
  <2>1. /\ assetPc \in Loop /\ assetPc' \in Loop /\ assetFate' = assetFate
        /\ UNCHANGED <<AT!files, head, AT!page, todo, window, edits, faults>>
        /\ stored \subseteq stored'
    BY <1>16 DEF AT!Confirm, AT!Go, Loop
  <2> QED
    BY <1>3, <1>9, <2>1 DEF Covered, AT!UploadComplete, Loop
<1>17. CASE AT!Judge
  <2>1. /\ assetPc = "judge" /\ UNCHANGED <<AT!files, AT!hub, AT!page, todo, faults, edits>>
        /\ (assetPc' = "done" /\ assetFate' = "failed") \/ (assetPc' \in Loop /\ assetFate' = assetFate)
        /\ window' = window \/ (remaining = {} /\ window' = {})
    BY <1>17 DEF AT!Judge, AT!Go, AT!End, Loop
  <2>2. remaining = {} => \A q \in window : rows[q] \in stored
    BY <2>1 DEF UpWindow, Loop
  <2>3. ASSUME assetPc' \in Loop PROVE Covered' /\ AT!UploadComplete'
    BY <1>3, <1>9, <2>1, <2>2, <2>3 DEF Covered, AT!UploadComplete, Loop
  <2> QED
    BY <1>9, <2>1, <2>3 DEF Covered, AT!UploadComplete, Loop
<1> QED
  BY <1>1, <1>5, <1>6, <1>7, <1>8, <1>10, <1>11, <1>12, <1>13, <1>14, <1>15, <1>16,
     <1>17 DEF AT!Next, AT!Step, AT!Up, AT!Down

LEMMA RestoringStep ==
    /\ AT!AssetTransferAssumption /\ TransferTypes /\ WindowSet /\ Restoring /\ AT!RestoreExact
    /\ [AT!Next]_AT!vars
    => Restoring' /\ AT!RestoreExact'
<1> SUFFICES ASSUME AT!AssetTransferAssumption, TransferTypes, WindowSet, Restoring,
                    AT!RestoreExact, [AT!Next]_AT!vars
             PROVE  Restoring' /\ AT!RestoreExact'
  OBVIOUS
<1> SUFFICES ASSUME assetKind = "down" PROVE Restoring' /\ AT!RestoreExact'
  <2>1. assetKind' = assetKind
    BY LocalKept
  <2> QED
    BY <2>1 DEF Restoring, AT!RestoreExact
<1> USE DEF AT!files, AT!hub, AT!page, AT!work, AT!report
<1>1. CASE UNCHANGED AT!vars
  BY <1>1 DEF AT!vars, Restoring, AT!RestoreExact, AT!Riding
<1>2. CASE assetPc = "done"
  BY <1>1, <1>2, DoneIsFinal
<1>3. /\ assetFate = "none" <=> assetPc # "done"
      /\ assetPc \in DownSteps /\ assetStage \in [Paths -> AT!Contents \cup {None}]
      /\ todo \subseteq Paths /\ remaining \subseteq Paths
      /\ local \in [Paths -> AT!Contents] /\ None \notin AT!Contents
  BY DEF TransferTypes, AT!TypeOK, AT!Running, AT!AssetTransferAssumption, AT!Contents
<1>4. ASSUME assetPc' = "done", assetFate' # "ok" PROVE Restoring' /\ AT!RestoreExact'
  BY <1>4 DEF Restoring, AT!RestoreExact
\* What is still lacking is neither forgotten nor lost.
<1>5. ASSUME assetPc \notin {"check", "done"}, assetFate' = assetFate, UNCHANGED <<AT!files, rows>>,
             \A p \in Paths : p \in todo \cup remaining \/ assetStage[p] # None =>
                                 p \in todo' \cup remaining' \/ assetStage'[p] # None
      PROVE  Restoring' /\ AT!RestoreExact'
  BY <1>3, <1>5 DEF Restoring, AT!RestoreExact, AT!Riding
<1>6. CASE AT!Check
  <2>1. /\ rows' = head
        /\ todo' = {p \in AT!Riding : local[p] # head[p]} /\ assetFate' = assetFate /\ assetPc' = "pick" /\ UNCHANGED AT!files
        /\ assetPc = "check"
    BY <1>6 DEF AT!Check, AT!Go
  <2>2. head \in [Paths -> Blobs]
    BY DEF TransferTypes, AT!TypeOK
  <2> QED
    BY <1>3, <2>1, <2>2 DEF Restoring, AT!RestoreExact, AT!Riding
<1>7. CASE AT!CheckFails \/ AT!PlanFatal
  BY <1>4, <1>7 DEF AT!CheckFails, AT!PlanFatal, AT!End
<1>8. CASE AT!PlanRetry
  BY <1>4, <1>5, <1>8 DEF AT!PlanRetry, AT!End
<1>9. CASE AT!Pick
  <2>1. assetPc = "pick" /\ remaining = {} /\ assetFate' = assetFate
        /\ UNCHANGED <<AT!files, rows, assetStage>>
        /\ todo \subseteq todo' \cup remaining'
    BY <1>9 DEF AT!Pick, AT!Go, WindowSet, TransferTypes, AT!TypeOK
  <2> QED
    BY <1>5, <2>1
<1>10. CASE AT!PlanDownload
  BY <1>5, <1>10 DEF AT!PlanDownload, AT!Go
<1>11. CASE AT!Download
  <2>1. PICK got \in SUBSET remaining : \E wrong \in SUBSET got :
         LET bytes(p) == IF p \in wrong THEN User ELSE rows[p]
             good == {p \in got : bytes(p) = rows[p]}
         IN IF good # got
              THEN AT!End("failed")
              ELSE /\ assetStage' = [p \in Paths |-> IF p \in good THEN bytes(p) ELSE assetStage[p]]
                   /\ remaining' = remaining \ good /\ AT!Go("judge")
    BY <1>11 DEF AT!Download
  <2>2. CASE AT!End("failed")
    BY <1>4, <2>2 DEF AT!End
  <2>3. CASE /\ assetStage' = [p \in Paths |-> IF p \in got THEN rows[p] ELSE assetStage[p]]
             /\ remaining' = remaining \ got /\ AT!Go("judge")
    <3>1. \A p \in Paths : rows[p] # None
      BY <1>11 DEF AT!Download, Restoring, AT!AssetTransferAssumption
    <3> QED
      BY <1>5, <1>11, <2>3, <3>1 DEF AT!Download, AT!Go
  <2> QED
    BY <1>3, <2>1, <2>2, <2>3
<1>12. CASE AT!Judge
  BY <1>4, <1>5, <1>12 DEF AT!Judge, AT!Go, AT!End
<1>13. CASE AT!Commit
  <2>1. assetPc = "commit" /\ assetPc' = "done" /\ todo = {} /\ window = {} /\ remaining = {}
        /\ UNCHANGED <<kept, edited, rows>>
    BY <1>13 DEF AT!Commit, AT!End, WindowSet, TransferTypes, AT!TypeOK
  <2>2. CASE \A p \in AT!Staged : AT!Intact(p)
    <3>1. local' = [p \in Paths |-> IF p \in AT!Staged THEN assetStage[p] ELSE local[p]]
      BY <1>13, <2>2 DEF AT!Commit
    <3>2. \A p \in AT!Riding \ edited : local[p] = rows[p] \/ assetStage[p] # None
      BY <2>1 DEF Restoring
    <3> QED
      BY <2>1, <2>2, <3>1, <3>2 DEF Restoring, AT!RestoreExact, AT!Staged, AT!Intact, AT!Riding
  <2>3. CASE ~\A p \in AT!Staged : AT!Intact(p)
    BY <1>4, <1>13, <2>3 DEF AT!Commit, AT!End
  <2> QED
    BY <2>2, <2>3
<1>14. ASSUME NEW p \in Paths, AT!Spoil(p) PROVE Restoring' /\ AT!RestoreExact'
  <2>1. assetStage' = [assetStage EXCEPT ![p] = User] /\ User # None
        /\ UNCHANGED <<AT!files, AT!hub, assetPc, assetFate, AT!page, todo, AT!work>>
    BY <1>14 DEF AT!Spoil, AT!AssetTransferAssumption
  <2>2. \A q \in Paths : assetStage[q] # None => assetStage'[q] # None
    BY <1>3, <2>1
  <2> QED
    BY <1>1, <1>2, <1>3, <1>5, <2>1, <2>2 DEF Restoring, AT!RestoreExact, AT!Riding
<1>15. ASSUME NEW p \in Paths, NEW b \in AT!Contents, AT!Edit(p, b)
       PROVE Restoring' /\ AT!RestoreExact'
  <2>1. /\ local' = [local EXCEPT ![p] = b] /\ edited' = edited \cup {p} /\ assetPc # "done"
        /\ UNCHANGED <<kept, assetPc, assetFate, rows, todo, remaining, assetStage>>
    BY <1>15 DEF AT!Edit, AT!Running
  <2> QED
    BY <1>3, <2>1 DEF Restoring, AT!RestoreExact, AT!Riding
<1>16. ASSUME NEW p \in Paths, NEW b \in Blobs, AT!OtherPush(p, b)
       PROVE Restoring' /\ AT!RestoreExact'
  BY <1>3, <1>16 DEF AT!OtherPush, AT!Running, Restoring, AT!RestoreExact, AT!Riding
<1>17. ASSUME NEW b \in Blobs, AT!OtherUpload(b) PROVE Restoring' /\ AT!RestoreExact'
  BY <1>3, <1>17 DEF AT!OtherUpload, AT!Running, Restoring, AT!RestoreExact, AT!Riding
<1>18. ASSUME AT!Up PROVE FALSE
  BY <1>18 DEF AT!Up, AT!Scan, AT!ListMissing, AT!ListFails, AT!Stage, AT!StageFails,
     AT!CloseWindow, AT!PageDone, AT!PlanUpload, AT!Upload, AT!Confirm,
     AT!ConfirmFails, TransferTypes, DownSteps
<1> QED
  BY <1>1, <1>6, <1>7, <1>8, <1>9, <1>10, <1>11, <1>12, <1>13, <1>14, <1>15, <1>16, <1>17,
     <1>18 DEF AT!Next, AT!Step, AT!Down

----------------------------------------------------------------------------
(* What holds of the files *)

\* Whatever is done with files is a behaviour of each of the protocols.
LEMMA PartsRun == FilesSpec => Spec /\ AT!Spec /\ SP!Spec
<1>1. FilesInit => Init /\ AT!Init /\ SP!Init
  BY DEF FilesInit
<1>2. [FilesNext]_parts => [Next]_vars
  BY DEF FilesNext, parts, vars
<1>3. [FilesNext]_parts => [AT!Next]_AT!vars
  BY DEF FilesNext, parts, assets, AT!vars, AT!files, AT!hub, AT!page, AT!work, AT!report
<1>4. [FilesNext]_parts => [SP!Next]_SP!vars
  BY DEF FilesNext, parts, path, SP!vars, SP!disk, SP!cmd
<1> QED
  BY <1>1, <1>2, <1>3, <1>4, PTL DEF FilesSpec, Spec, AT!Spec, SP!Spec

\* The invariant of the restores, the transfers and the operations on a path together.
THEOREM FilesInvariant == FilesSpec => [](RestoreInv /\ TransferInv /\ SP!IInv)
<1>1. Spec => []RestoreInv
  <2>1. Init => RestoreInv
    BY RestoreInit
  <2>2. RestoreInv /\ [Next]_vars => RestoreInv'
    BY RestoreStep
  <2> QED
    BY <2>1, <2>2, PTL DEF Spec
<1>2. AT!Spec => []TransferInv
  <2>1. AT!Init => TransferInv
    BY FilesAssumption, TransferInit
  <2>2. TransferInv /\ [AT!Next]_AT!vars => TransferInv'
    BY FilesAssumption, TypesStep, GateStep, SentStep, UpWindowStep, CoveredStep, RestoringStep
    DEF TransferInv
  <2> QED
    BY <2>1, <2>2, PTL DEF AT!Spec
<1>3. SP!Spec => []SP!IInv
  BY FilesAssumption, SP!Invariant
<1> QED
  BY <1>1, <1>2, <1>3, PartsRun, PTL

\* Every variable of the three protocols keeps its type, and what it bounds: a window
\* never exceeds its size, and a command that has not ended tells nothing.
THEOREM FilesTypeCorrect == FilesSpec => []FilesTypeOK
<1>1. SP!Spec => []SP!TypeOK
  BY FilesAssumption, SP!TypeCorrect
<1>2. RestoreInv => TypeOK
  BY DEF RestoreInv
<1>3. TransferInv => AT!TypeOK
  BY DEF TransferInv, TransferTypes
<1> QED
  BY <1>1, <1>2, <1>3, FilesInvariant, PartsRun, PTL DEF FilesTypeOK

\* Whatever name a command has made is complete and without a defect from the first
\* moment on, however many commands race for it and wherever they are killed.
THEOREM DestinationsAreWhole == FilesSpec => []PublishedWhole
<1>1. RestoreInv => PublishedWhole
  BY DEF RestoreInv
<1> QED
  BY <1>1, FilesInvariant, PTL

\* Success is told only by the one command whose directory is there, complete; a plain
\* failure by none that has left something behind; and an operation on a path that fails
\* or ends leaves nothing of its own beside the name.
THEOREM AnswersAreTrue == FilesSpec => []AnswersTrue
<1>1. RestoreInv => ReportsTrue
  BY DEF RestoreInv
<1>2. SP!Spec => []SP!NoDebris
  BY FilesAssumption, SP!FailuresLeaveNothing
<1> QED
  BY <1>1, <1>2, FilesInvariant, PartsRun, PTL DEF AnswersTrue

\* Whatever is edited, lost or answered meanwhile, whatever a push sends is what its name
\* says, from a path that rides, and no secret that the gate could have seen.
THEOREM SecretsStayHome == FilesSpec => []OnlyDeclaredBytesLeave
<1>1. TransferInv => OnlyDeclaredBytesLeave
  BY DEF TransferInv, OnlyDeclaredBytesLeave
<1> QED
  BY <1>1, FilesInvariant, PTL

\* No blob is counted twice however it is paged, retried or already there; an undisturbed
\* push leaves none behind that it could have sent, and a restore that ends well has all.
THEOREM TransfersAreExact == FilesSpec => []TransfersExact
<1>1. TransferInv => TransfersExact
  BY DEF TransferInv, TransfersExact
<1> QED
  BY <1>1, FilesInvariant, PTL

\* If nobody works in a destination before its command has ended, no command ever takes
\* away or replaces a person's work there.
THEOREM CommandsSpareWork ==
    ASSUME ~EarlyUse
    PROVE  FilesSpec => WorkSurvives
<1>1. Init => WorkApart
  BY ApartInit
<1>2. RestoreInv /\ WorkApart /\ [Next]_vars => WorkApart'
  BY ApartStep
<1>3. RestoreInv /\ WorkApart /\ [Next]_vars =>
        (target # None /\ "work" \in target.pieces =>
           target' # None /\ target'.by = target.by /\ "work" \in target'.pieces)
  BY WorkKept
<1> QED
  BY <1>1, <1>2, <1>3, FilesInvariant, PartsRun, PTL DEF Spec, WorkSurvives

\* Every operation on a path implements the atomic file: it takes effect at once or not
\* at all, through kills, failures, power cuts and other people's changes.
THEOREM OperationsAreAtomic == FilesSpec => WritesAreAtomic
<1>1. SP!Spec => SP!WritesAreAtomic
  BY FilesAssumption, SP!OperationsAreAtomic
<1> QED
  BY <1>1, PartsRun, PTL DEF WritesAreAtomic

=============================================================================
