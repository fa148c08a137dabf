------------------------------- MODULE Adopt --------------------------------
(* secrets adopt and secrets quarantine (commands.rs 6436-8218, local.rs).  *)
(*                                                                          *)
(* adopt moves the credentials found in a store into the brain's vault: the *)
(* values first, then the markdown files are rewritten, then each text      *)
(* asset with credentials is kept home and a sanitized derivative put in    *)
(* its place.  A journal keyed by value lets an interrupted run be resumed. *)
(* quarantine only adds to .sevralocal, and takes no lock.                  *)
EXTENDS Integers, FiniteSets

CONSTANTS
    Paths,       \* markdown files
    Assets,      \* declared text assets
    Values,      \* credential values (their hashes)
    Base,        \* the name the context of every value suggests
    None,
    RaceEdits,   \* may files change while adopt runs?
    TightEdits,  \* and even between the last check of a file and its rewriting?
    RaceScope,   \* may quarantine run at the same time?
    LastAttempt,     \* names are tried from 0 on; the code's last attempt is 16
    MaxOutside, MaxStops     \* bounds

\* Every value can be stored under the suggested name, or under one made of it and
\* more and more of the value's hash (disambiguated_name).
Attempts == 0..LastAttempt
Names == {Base} \cup {<<Base, v, k>> : v \in Values, k \in Attempts \ {0}}
Candidate(v, attempt) == IF attempt = 0 THEN Base ELSE <<Base, v, attempt>>

Ref == Names \X Values     \* a reference and the literal it stands for

\* What the journal says of an asset: the bytes scanned, and is the wrapper written?
Kept == [rev : 0..MaxOutside, wrapper : BOOLEAN]

\* None is nothing else.
ASSUME AdoptAssumption ==
    /\ IsFiniteSet(Paths \cup Assets) /\ IsFiniteSet(Values)
    /\ Paths \cap Assets = {}
    /\ {RaceEdits, TightEdits, RaceScope} \subseteq BOOLEAN
    /\ {LastAttempt, MaxOutside, MaxStops} \subseteq Nat
    /\ None \notin Values /\ None \notin Names /\ None \notin Kept /\ \A refs \in SUBSET Ref : refs # None

VARIABLES
    md,        \* markdown: version of its prose, its literals, its references
    asset,     \* the bytes of the originals: a version, and its literals
    declared,  \* assets.jsonl: the version declared, and is it superseded?
    deriv,     \* the derivative of each version of an asset: its references, or None
    wrapper,   \* assets whose derivative has its wrapper file
    scope,     \* exact entries of .sevralocal
    vault,     \* the hub's vault
    journal,   \* the adopt journal on disk, or None
    pc, seen, jr, vals, todo, cur, attempt, myscope,    \* adopt's step and locals
    qpc, qscope, qmarks,                           \* quarantine's
    rotated,   \* vault items a person has replaced
    spent      \* bounded steps taken

files == <<md, asset, declared, deriv, wrapper>>
locals == <<seen, jr, vals, todo, cur, attempt, myscope>>
quarantine == <<qpc, qscope, qmarks>>
vars == <<files, scope, vault, journal, pc, locals, quarantine, rotated, spent>>

Markdown == [text : 0..MaxOutside, lits : SUBSET Values, refs : SUBSET Ref]
Bytes == [rev : 0..MaxOutside, lits : SUBSET Values]

AdoptJournal ==
    [mappings : [Values -> Names \cup {None}], paths : SUBSET Paths,
     assets : [Assets -> {None} \cup Kept]]
Fresh == [mappings |-> [v \in Values |-> None], paths |-> {},
          assets |-> [a \in Assets |-> None]]

Steps == {"idle", "journal", "vault", "check", "write", "keep", "kept", "derive", "wrap",
          "record", "refresh", "finish", "unkeep", "remove"}

Spend(what, max) == spent[what] < max /\ spent' = [spent EXCEPT ![what] = @ + 1]

\* Markdown files and assets of the scan that adopt has to work on.
ByPath == {p \in Paths : seen.md[p].lits # {}}
ByAsset == {a \in Assets : seen.asset[a].lits # {}}

----------------------------------------------------------------------------

\* What adopt holds in memory when it does not run.
Unseen == [md |-> [p \in Paths |-> [text |-> 0, lits |-> {}, refs |-> {}]],
           asset |-> [a \in Assets |-> [rev |-> 0, lits |-> {}]]]
Leave ==
    /\ pc' = "idle"
    /\ seen' = Unseen /\ jr' = Fresh /\ vals' = {} /\ todo' = {} /\ cur' = {}
    /\ attempt' = 0 /\ myscope' = {}

Init ==
    /\ md \in [Paths -> {f \in Markdown : f.text = 0 /\ f.refs = {} /\ f.lits # {}}]
    /\ asset \in [Assets -> {f \in Bytes : f.rev = 0}]
    /\ declared = [a \in Assets |-> [rev |-> 0, superseded |-> FALSE]]
    /\ deriv = [a \in Assets |-> [r \in 0..MaxOutside |-> None]]
    /\ wrapper = {}
    /\ scope = {}
    /\ vault = [n \in Names |-> None]
    /\ journal = None
    /\ pc = "idle" /\ seen = Unseen /\ jr = Fresh
    /\ vals = {} /\ todo = {} /\ cur = {} /\ attempt = 0 /\ myscope = {}
    /\ qpc = "idle" /\ qscope = {} /\ qmarks = {}
    /\ rotated = {}
    /\ spent = [outside |-> 0, stops |-> 0]

\* An asset with credentials whose bytes are not the declared ones, or not those an
\* earlier run recorded, is refused before anything is written.  (Further refusals: see
\* JournalResolves.)
Blocking(a) ==
    /\ asset[a].lits # {}
    /\ \/ asset[a].rev # declared[a].rev
       \/ journal # None /\ journal.assets[a] # None /\ journal.assets[a].rev # asset[a].rev
Refused == \E a \in Assets : Blocking(a)

\* Mutant of Assigned: every value gets the name its context suggests.
AssignedAlike(old, new) ==
    \A v \in Values : new[v] = IF old[v] = None /\ v \in vals' THEN Base ELSE old[v]

\* The names that the values found get in the journal: a value keeps the one it has,
\* and no two values share one.
Assigned(old, new) ==
    /\ \A v \in Values : old[v] # None => new[v] = old[v]
    /\ \A v \in Values : old[v] = None /\ v \in vals' =>
         \E k \in Attempts :
            /\ new[v] = Candidate(v, k)
            /\ \A j \in Attempts : j < k =>
                 \E w \in Values \ {v} : new[w] = Candidate(v, j)
    /\ \A v \in Values : old[v] = None /\ v \notin vals' => new[v] = None
    /\ \A v, w \in Values : v # w /\ new[v] # None => new[v] # new[w]

\* The whole store is scanned, kept-home files included, and the journal extended.
Scan ==
    /\ pc = "idle" /\ (RaceScope \/ qpc = "idle")
    /\ ~Refused
    /\ LET old == IF journal = None THEN Fresh ELSE journal
           hitPaths == {p \in Paths : md[p].lits # {}}
           hitAssets == {a \in Assets : asset[a].lits # {}}
       IN /\ vals' = UNION ({md[p].lits : p \in hitPaths} \cup {asset[a].lits : a \in hitAssets})
          /\ \E new \in [Values -> Names \cup {None}] :
               /\ Assigned(old.mappings, new)
               /\ jr' = [mappings |-> new,
                         paths |-> old.paths \cup hitPaths,
                         assets |-> [a \in Assets |->
                            IF a \in hitAssets
                              THEN [rev |-> asset[a].rev,
                                    wrapper |-> old.assets[a] # None /\ old.assets[a].wrapper]
                              ELSE old.assets[a]]]
    /\ seen' = [md |-> md, asset |-> asset]
    /\ todo' = {} /\ cur' = {} /\ attempt' = 0 /\ myscope' = {}
    /\ pc' = IF jr' = Fresh THEN "keep" ELSE "journal"
    /\ UNCHANGED <<files, scope, vault, journal, quarantine, rotated, spent>>

WriteAdoptJournal ==
    /\ pc = "journal"
    /\ journal' = jr
    /\ pc' = "vault"
    /\ UNCHANGED <<files, scope, vault, locals, quarantine, rotated, spent>>

----------------------------------------------------------------------------
(* Vault values first: commit_adopt_value *)

\* The name the next request for v uses; the journal's first, then those derived
\* from the value's hash.
NameOf(v) == IF attempt = 0 THEN jr.mappings[v] ELSE Candidate(v, attempt)
Taken(v) == \E w \in Values \ {v} : jr.mappings[w] = NameOf(v)

\* A new name is journaled before it is used.
Rename(v) ==
    /\ pc = "vault" /\ cur = {v}
    /\ ~Taken(v) /\ jr.mappings[v] # NameOf(v)
    /\ jr' = [jr EXCEPT !.mappings[v] = NameOf(v)]
    /\ journal' = jr'
    /\ UNCHANGED <<files, scope, vault, pc, seen, vals, todo, cur, attempt, myscope,
                   quarantine, rotated, spent>>

Posting(v) ==
    /\ pc = "vault" /\ v \in vals
    /\ cur \in {{}, {v}}
    /\ jr.mappings[v] = NameOf(v)

\* Mutant of Post: an item with the name is taken for one that holds the value.
PostAny(v) ==
    /\ Posting(v)
    /\ vault' = [vault EXCEPT ![NameOf(v)] = IF @ = None THEN v ELSE @]
    /\ vals' = vals \ {v} /\ cur' = {} /\ attempt' = 0
    /\ UNCHANGED <<files, scope, journal, pc, seen, jr, todo, myscope, quarantine, rotated,
                   spent>>

\* POST creates the item, or finds this very value under the name.
Post(v) ==
    /\ Posting(v)
    /\ vault[NameOf(v)] \in {None, v}
    /\ vault' = [vault EXCEPT ![NameOf(v)] = v]
    /\ vals' = vals \ {v} /\ cur' = {} /\ attempt' = 0
    /\ UNCHANGED <<files, scope, journal, pc, seen, jr, todo, myscope, quarantine, rotated,
                   spent>>

\* Another value has the name (vault_item_exists): it is left alone.
Conflict(v) == Posting(v) /\ vault[NameOf(v)] \notin {None, v}

PostConflict(v) ==
    /\ Conflict(v)
    /\ attempt + 1 \in Attempts
    /\ attempt' = attempt + 1
    /\ cur' = {v}
    /\ UNCHANGED <<files, scope, vault, journal, pc, seen, jr, vals, todo, myscope,
                   quarantine, rotated, spent>>

\* No name is left: the command fails.
Exhausted(v) == Conflict(v) /\ attempt + 1 \notin Attempts

VaultFails(v) ==
    /\ Exhausted(v)
    /\ Leave
    /\ UNCHANGED <<files, scope, vault, journal, quarantine, rotated, spent>>

\* The item is created and the answer lost: the command fails.
PostLost(v) ==
    /\ Posting(v)
    /\ vault[NameOf(v)] = None
    /\ Spend("stops", MaxStops)
    /\ vault' = [vault EXCEPT ![NameOf(v)] = v]
    /\ Leave
    /\ UNCHANGED <<files, scope, journal, quarantine, rotated>>

VaultDone ==
    /\ pc = "vault" /\ vals = {}
    /\ todo' = ByPath
    /\ pc' = "check"
    /\ UNCHANGED <<files, scope, vault, journal, seen, jr, vals, cur, attempt, myscope,
                   quarantine, rotated, spent>>

----------------------------------------------------------------------------
(* Then the markdown: every file is checked, then every file is rewritten *)

\* Mutant of Check: the file is not read again.
CheckNothing(p) ==
    /\ pc = "check" /\ p \in todo
    /\ todo' = todo \ {p}
    /\ UNCHANGED <<files, scope, vault, journal, pc, seen, jr, vals, cur, attempt, myscope,
                   quarantine, rotated, spent>>

Check(p) ==
    /\ pc = "check" /\ p \in todo
    /\ md[p] = seen.md[p]
    /\ todo' = todo \ {p}
    /\ UNCHANGED <<files, scope, vault, journal, pc, seen, jr, vals, cur, attempt, myscope,
                   quarantine, rotated, spent>>

\* "adopt stopped because ... changed after scanning"
CheckChanged(p) ==
    /\ pc = "check" /\ p \in todo
    /\ md[p] # seen.md[p]
    /\ Leave
    /\ UNCHANGED <<files, scope, vault, journal, quarantine, rotated, spent>>

CheckDone ==
    /\ pc = "check" /\ todo = {}
    /\ todo' = ByPath
    /\ pc' = "write"
    /\ UNCHANGED <<files, scope, vault, journal, seen, jr, vals, cur, attempt, myscope,
                   quarantine, rotated, spent>>

\* Every occurrence of a value becomes a reference to its item.
Redacted(lits) == {<<jr.mappings[v], v>> : v \in lits}

\* Mutant of Rewrite: the first occurrence only is replaced.
RewriteOne(p) ==
    /\ pc = "write" /\ p \in todo
    /\ \E v \in seen.md[p].lits :
         md' = [md EXCEPT ![p] = [text |-> seen.md[p].text, lits |-> seen.md[p].lits \ {v},
                                  refs |-> seen.md[p].refs \cup Redacted({v})]]
    /\ todo' = todo \ {p}
    /\ UNCHANGED <<asset, declared, deriv, wrapper, scope, vault, journal, pc, seen, jr, vals,
                   cur, attempt, myscope, quarantine, rotated, spent>>

Rewrite(p) ==
    /\ pc = "write" /\ p \in todo
    /\ md' = [md EXCEPT ![p] = [text |-> seen.md[p].text, lits |-> {},
                                refs |-> seen.md[p].refs \cup Redacted(seen.md[p].lits)]]
    /\ todo' = todo \ {p}
    /\ UNCHANGED <<asset, declared, deriv, wrapper, scope, vault, journal, pc, seen, jr, vals,
                   cur, attempt, myscope, quarantine, rotated, spent>>

WriteDone ==
    /\ pc = "write" /\ todo = {}
    /\ pc' = "keep"
    /\ UNCHANGED <<files, scope, vault, journal, locals, quarantine, rotated, spent>>

----------------------------------------------------------------------------
(* Then the assets: the originals stay home, derivatives take their place *)

JournaledAssets == {a \in Assets : jr.assets[a] # None}

\* .sevralocal is read ...
KeepHomeRead ==
    /\ pc = "keep"
    /\ myscope' = scope
    /\ pc' = "kept"
    /\ UNCHANGED <<files, scope, vault, journal, seen, jr, vals, todo, cur, attempt,
                   quarantine, rotated, spent>>

\* ... and replaced, if an original is missing from it.
KeepHomeWrite ==
    /\ pc = "kept"
    /\ scope' = IF JournaledAssets \subseteq myscope THEN scope ELSE myscope \cup JournaledAssets
    /\ todo' = ByAsset
    /\ pc' = "derive"
    /\ UNCHANGED <<files, vault, journal, seen, jr, vals, cur, attempt, myscope,
                   quarantine, rotated, spent>>

\* The derivative of the bytes scanned, and whether other bytes have its path.
Sanitized(a) == Redacted(seen.asset[a].lits)
Derivative(a) == deriv[a][seen.asset[a].rev]
Occupied(a) == pc = "derive" /\ a \in todo /\ Derivative(a) \notin {None, Sanitized(a)}

\* The derivative is created, or is there with the same bytes.
Derive(a) ==
    /\ pc = "derive" /\ a \in todo
    /\ ~Occupied(a)
    /\ deriv' = [deriv EXCEPT ![a][seen.asset[a].rev] = Sanitized(a)]
    /\ cur' = {a}
    /\ pc' = "wrap"
    /\ UNCHANGED <<md, asset, declared, wrapper, scope, vault, journal, seen, jr, vals, todo,
                   attempt, myscope, quarantine, rotated, spent>>

DeriveFails(a) ==
    /\ Occupied(a)
    /\ Leave
    /\ UNCHANGED <<files, scope, vault, journal, quarantine, rotated, spent>>

\* dbmd writes the wrapper, unless one that names the derivative is found.
EnsureWrapper(a) ==
    /\ pc = "wrap" /\ cur = {a}
    /\ wrapper' = wrapper \cup {a}
    /\ jr' = [jr EXCEPT !.assets[a].wrapper = TRUE]
    /\ pc' = "record"
    /\ UNCHANGED <<md, asset, declared, deriv, scope, vault, journal, seen, vals, todo, cur,
                   attempt, myscope, quarantine, rotated, spent>>

RecordWrapper ==
    /\ pc = "record"
    /\ journal' = jr
    /\ pc' = "refresh"
    /\ UNCHANGED <<files, scope, vault, locals, quarantine, rotated, spent>>

\* dbmd catalogs the derivative; the original becomes optional evidence.
RefreshManifest(a) ==
    /\ pc = "refresh" /\ cur = {a}
    /\ declared' = [declared EXCEPT ![a].superseded = TRUE]
    /\ todo' = todo \ {a} /\ cur' = {}
    /\ pc' = "derive"
    /\ UNCHANGED <<md, asset, deriv, wrapper, scope, vault, journal, seen, jr, vals, attempt,
                   myscope, quarantine, rotated, spent>>

DeriveDone ==
    /\ pc = "derive" /\ todo = {}
    /\ pc' = "finish"
    /\ UNCHANGED <<files, scope, vault, journal, locals, quarantine, rotated, spent>>

----------------------------------------------------------------------------
(* Last, the redacted files may ride again, and the journal goes *)

FinishScopeRead ==
    /\ pc = "finish"
    /\ myscope' = scope
    /\ pc' = "unkeep"
    /\ UNCHANGED <<files, scope, vault, journal, seen, jr, vals, todo, cur, attempt,
                   quarantine, rotated, spent>>

\* Mutants of FinishScopeWrite: the journaled originals are taken out too; nothing to take
\* out ends the run.
FinishScopeAll ==
    /\ pc = "unkeep"
    /\ scope' = myscope \ (jr.paths \cup JournaledAssets)
    /\ pc' = "remove"
    /\ UNCHANGED <<files, vault, journal, locals, quarantine, rotated, spent>>

FinishScopeEarly ==
    /\ pc = "unkeep"
    /\ scope' = IF myscope \cap jr.paths = {} THEN scope ELSE myscope \ jr.paths
    /\ IF myscope \cap jr.paths = {}
         THEN Leave
         ELSE pc' = "remove" /\ UNCHANGED locals
    /\ UNCHANGED <<files, vault, journal, quarantine, rotated, spent>>

FinishScopeWrite ==
    /\ pc = "unkeep"
    /\ scope' = IF myscope \cap jr.paths = {} THEN scope ELSE myscope \ jr.paths
    /\ pc' = "remove"
    /\ UNCHANGED <<files, vault, journal, locals, quarantine, rotated, spent>>

RemoveJournal ==
    /\ pc = "remove"
    /\ journal' = None
    /\ Leave
    /\ UNCHANGED <<files, scope, vault, quarantine, rotated, spent>>

\* adopt is killed, or fails, before its next step.
Stop ==
    /\ pc # "idle"
    /\ Spend("stops", MaxStops)
    /\ Leave
    /\ UNCHANGED <<files, scope, vault, journal, quarantine, rotated>>

----------------------------------------------------------------------------
(* secrets quarantine: read, scan, append; other people and tools *)

QuarantineRead ==
    /\ qpc = "idle"
    /\ RaceScope \/ pc = "idle"
    /\ LET hits == {p \in Paths : md[p].lits # {}} \cup {a \in Assets : asset[a].lits # {}}
       IN qmarks' = hits \ scope
    /\ qmarks' # {}
    /\ qscope' = scope
    /\ qpc' = "append"
    /\ UNCHANGED <<files, scope, vault, journal, pc, locals, rotated, spent>>

QuarantineWrite ==
    /\ qpc = "append"
    /\ scope' = qscope \cup qmarks
    /\ qpc' = "idle" /\ qscope' = {} /\ qmarks' = {}
    /\ UNCHANGED <<files, vault, journal, pc, locals, rotated, spent>>

MayEdit ==
    /\ RaceEdits \/ pc = "idle"
    /\ pc \in {"check", "write"} => TightEdits

EditMarkdown(p, lits) ==
    /\ MayEdit /\ Spend("outside", MaxOutside)
    /\ md' = [md EXCEPT ![p].text = @ + 1, ![p].lits = lits]
    /\ UNCHANGED <<asset, declared, deriv, wrapper, scope, vault, journal, pc, locals,
                   quarantine, rotated>>

\* An original is replaced, and declared again (dbmd assets refresh) or not.
EditAsset(a, lits, declare) ==
    /\ MayEdit /\ Spend("outside", MaxOutside)
    /\ asset' = [asset EXCEPT ![a] = [rev |-> @.rev + 1, lits |-> lits]]
    /\ declared' = IF declare THEN [declared EXCEPT ![a].rev = asset'[a].rev] ELSE declared
    /\ UNCHANGED <<md, deriv, wrapper, scope, vault, journal, pc, locals, quarantine, rotated>>

\* `secrets set` creates or replaces an item.
SecretsSet(n, v) ==
    /\ Spend("outside", MaxOutside)
    /\ vault[n] # v
    /\ rotated' = IF vault[n] = None THEN rotated ELSE rotated \cup {n}
    /\ vault' = [vault EXCEPT ![n] = v]
    /\ UNCHANGED <<files, scope, journal, pc, locals, quarantine>>

Adopts ==
    \/ Scan \/ WriteAdoptJournal
    \/ \E v \in Values : Rename(v) \/ Post(v) \/ PostConflict(v) \/ VaultFails(v)
    \/ VaultDone
    \/ \E p \in Paths : Check(p) \/ CheckChanged(p) \/ Rewrite(p)
    \/ CheckDone \/ WriteDone \/ KeepHomeRead \/ KeepHomeWrite
    \/ \E a \in Assets : Derive(a) \/ DeriveFails(a) \/ EnsureWrapper(a) \/ RefreshManifest(a)
    \/ RecordWrapper \/ DeriveDone \/ FinishScopeRead \/ FinishScopeWrite \/ RemoveJournal

Next ==
    \/ Adopts \/ Stop
    \/ \E v \in Values : PostLost(v)
    \/ QuarantineRead \/ QuarantineWrite
    \/ \E p \in Paths, lits \in SUBSET Values : EditMarkdown(p, lits)
    \/ \E a \in Assets, lits \in SUBSET Values, declare \in BOOLEAN : EditAsset(a, lits, declare)
    \/ \E n \in Names, v \in Values : SecretsSet(n, v)

Spec == Init /\ [][Next]_vars

\* A running command goes on, and an adopt that stopped is run again.
FairSpec == Spec /\ WF_vars(Adopts) /\ WF_vars(QuarantineWrite)

----------------------------------------------------------------------------
(* Properties *)

\* The state has its types, no two values of a journal share a name, and every
\* asset that is journaled with a wrapper has it (load_adopt_journal refuses others).
TypeOK ==
    /\ md \in [Paths -> Markdown] /\ asset \in [Assets -> Bytes]
    /\ declared \in [Assets -> [rev : 0..MaxOutside, superseded : BOOLEAN]]
    /\ wrapper \subseteq Assets /\ scope \subseteq Paths \cup Assets
    /\ vault \in [Names -> Values \cup {None}] /\ rotated \subseteq Names
    /\ pc \in Steps /\ qpc \in {"idle", "append"}
    /\ journal # None =>
         /\ journal \in AdoptJournal
         /\ \A v, w \in Values : journal.mappings[v] = journal.mappings[w] =>
              v = w \/ journal.mappings[v] = None
         /\ \A a \in Assets : journal.assets[a] # None /\ journal.assets[a].wrapper =>
              a \in wrapper

Derivatives(a) == UNION {deriv[a][r] : r \in {q \in 0..MaxOutside : deriv[a][q] # None}}
References == UNION ({md[p].refs : p \in Paths} \cup {Derivatives(a) : a \in Assets})

\* Every literal that adopt replaced can be read back: the item its reference
\* names holds it, unless a person has replaced the item since (commands.rs 6760-6819,
\* 7567-7603: the vault first, under names no other value has).
ReferencesResolve ==
    \A r \in References : vault[r[1]] = r[2] \/ r[1] \in rotated

\* What people write while adopt talks to the hub is never overwritten: a step that
\* is no edit changes only the literals of a file, into references (7611-7656).
EditsSurvive ==
    [][\A p \in Paths :
         md'[p] # md[p] =>
           \/ md'[p].text = md[p].text + 1
           \/ /\ md'[p].text = md[p].text
              /\ md[p].refs \subseteq md'[p].refs
              /\ md[p].lits \ md'[p].lits \subseteq {r[2] : r \in md'[p].refs}]_vars

\* A markdown file leaves .sevralocal only without credentials, unless somebody
\* has put one in after adopt scanned it (finish_adopt_scope, 7135).
UnquarantinedClean ==
    [][\A p \in Paths : p \in scope /\ p \notin scope' =>
         md[p].lits = {} \/ md[p].text # seen.md[p].text]_vars

\* An original with credentials that a derivative has superseded never rides: it
\* is kept home, at every step, and the derivative is there (7677-7797).
OriginalsStayHome ==
    \A a \in Assets : declared[a].superseded =>
        a \in scope /\ \E r \in 0..MaxOutside : deriv[a][r] # None

\* A journal left by a run that was stopped is finished by running adopt again,
\* or a run tells what is in its way: other bytes of an original, another
\* derivative at the path, no name left in the vault ("rerun to resume").  Stores in which
\* a run refuses for what no step of adoption brings about are not modelled: a literal in a
\* control file or a name (7293-7316), frontmatter without a shape (7340), immutable hosted
\* sources (7532-7551), wrappers made twice or lost (7001, 7020).
JournalResolves ==
    journal # None ~>
        \/ journal = None \/ Refused
        \/ \E a \in Assets : Occupied(a)
        \/ \E v \in Values : Exhausted(v)
=============================================================================
