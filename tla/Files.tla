-------------------------------- MODULE Files --------------------------------
(* The ways files reach a directory besides a pull: a whole brain into a new   *)
(* directory, asset bytes to and from the hub, and the single operations on a  *)
(* path that all commands are built from.  They share no state here: a         *)
(* behaviour explores one of them, and the others rest in an initial state.    *)
EXTENDS StageRestore

CONSTANTS
    Paths, Blobs, Declared, Secrets, KeepLists, Holdings,    \* of AssetTransfer
    PageSize, WindowSize, Attempts, MaxFaults, MaxEdits,
    MaxTroubles, MaxTouches                                  \* of SafePath

VARIABLES
    part,        \* the protocol explored
    assetKind, kept, local, edited, head, stored, sent, assetPc, assetFate, rows, truncated,
    progressed, todo, window, remaining, landed, attempt, assetStage, uploaded, present,
    faults, edits,
    os, name, made, fresh, log, pathKind, pathPc, held, pathFate, temp, data, grave,
    troubles, touches

path ==
    <<os, name, made, fresh, log, pathKind, pathPc, held, pathFate, temp, data, grave, troubles,
      touches>>
assets ==
    <<assetKind, kept, local, edited, head, stored, sent, assetPc, assetFate, rows, truncated,
      progressed, todo, window, remaining, landed, attempt, assetStage, uploaded, present,
      faults, edits>>

AT == INSTANCE AssetTransfer WITH
    Other <- User,
    kind <- assetKind, pc <- assetPc, fate <- assetFate, stage <- assetStage

\* SafePath, with what is proved about it.
SP == INSTANCE SafePathProofs WITH
    kind <- pathKind, pc <- pathPc, fate <- pathFate

parts == <<part, vars, assets, path>>

ASSUME FilesAssumption == AT!AssetTransferAssumption /\ SP!SafePathAssumption

FilesInit ==
    /\ part \in {"restore", "assets", "path"}
    /\ Init /\ AT!Init /\ SP!Init

FilesNext ==
    \/ part = "restore" /\ Next /\ UNCHANGED <<part, assets, path>>
    \/ part = "assets" /\ AT!Next /\ UNCHANGED <<part, vars, path>>
    \/ part = "path" /\ SP!Next /\ UNCHANGED <<part, vars, assets>>

\* The fairness of each specification, where it is the one explored.
FilesFairness ==
    /\ \A r \in Procs :
         /\ WF_vars(part = "restore" /\ Step(r))
         /\ WF_path(part = "path" /\ SP!Step(r))
    /\ WF_assets(part = "assets" /\ AT!Step)

FilesSpec == FilesInit /\ [][FilesNext]_parts /\ FilesFairness

----------------------------------------------------------------------------

\* The type invariants of the three, with what they bound.
FilesTypeOK == TypeOK /\ AT!TypeOK /\ SP!TypeOK

\* A command, and each operation on a path, tells the truth about what it leaves behind
\* (commands.rs 5611-5650, safe_path.rs 813-872).
AnswersTrue == ReportsTrue /\ SP!NoDebris

\* Only riding paths' bytes leave the machine, under their own names, and no secret the
\* gate could have seen (assets.rs 1049-1130, 177-238).
OnlyDeclaredBytesLeave == AT!OnlyDeclaredBytesLeave

\* A push counts every blob once, and leaves none behind that it could have sent; an
\* export or a pull that ends well has every declared byte in place (assets.rs 447-800,
\* 1149-1482).
TransfersExact == AT!CountedOnce /\ AT!UploadComplete /\ AT!RestoreExact

\* Writes, creations and removals are single steps to everybody else, whatever fails,
\* races or loses power (safe_path.rs 756-913, 1503-1663).
WritesAreAtomic == SP!WritesAreAtomic

\* The commands end - retries and paging have a bound - and racing ones do not all give up
\* (commands.rs 5636, assets.rs 515-630, 797).
AllEnd ==
    <>[](CASE part = "restore" -> SomebodyWins
           [] part = "assets" -> assetPc = "done"
           [] part = "path" -> \A r \in Procs : ~SP!Running(r))

=============================================================================
