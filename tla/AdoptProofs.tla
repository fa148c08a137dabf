---------------------------- MODULE AdoptProofs -----------------------------
(* Proofs about Adopt: what it replaced can be read back, the originals stay *)
(* home, nobody's edits are overwritten.                                     *)
EXTENDS Adopt, TLAPS

----------------------------------------------------------------------------
(* The inductive invariant *)

\* The credentials that the scan has found.
Found == UNION ({seen.md[p].lits : p \in Paths} \cup {seen.asset[a].lits : a \in Assets})

\* What load_adopt_journal takes for a journal.
GoodJournal(j) ==
    /\ j \in AdoptJournal
    /\ \A v, w \in Values : j.mappings[v] = j.mappings[w] => v = w \/ j.mappings[v] = None
    /\ \A a \in Assets : j.assets[a] # None /\ j.assets[a].wrapper => a \in wrapper

Journals == GoodJournal(jr) /\ (journal = None \/ GoodJournal(journal))

\* The types, with the functions' domains; what was scanned is no newer than what is there.
Typed ==
    /\ md \in [Paths -> Markdown] /\ asset \in [Assets -> Bytes]
    /\ declared \in [Assets -> [rev : 0..MaxOutside, superseded : BOOLEAN]]
    /\ deriv \in [Assets -> [0..MaxOutside -> {None} \cup SUBSET Ref]]
    /\ wrapper \subseteq Assets /\ scope \subseteq Paths \cup Assets
    /\ vault \in [Names -> Values \cup {None}] /\ rotated \subseteq Names
    /\ pc \in Steps /\ qpc \in {"idle", "append"}
    /\ seen \in [md : [Paths -> Markdown], asset : [Assets -> Bytes]]
    /\ vals \subseteq Values /\ attempt \in Attempts
    /\ myscope \subseteq Paths \cup Assets
    /\ qscope \subseteq Paths \cup Assets /\ qmarks \subseteq Paths \cup Assets
    /\ spent \in [outside : 0..MaxOutside, stops : 0..MaxStops]
    /\ \A p \in Paths : md[p].text <= spent.outside /\ seen.md[p].text <= md[p].text
    /\ \A a \in Assets : asset[a].rev <= spent.outside
    /\ Journals

\* What each step of adopt works on, and that the journal has an entry for it.
OnItsWay ==
    /\ pc \notin {"idle", "journal", "vault"} => vals = {}
    /\ pc = "journal" => cur = {}
    /\ pc = "vault" => cur = {} \/ \E v \in vals : cur = {v}
    /\ pc \in {"check", "write"} => todo \subseteq ByPath
    /\ pc \in {"derive", "wrap", "record", "refresh"} => todo \subseteq ByAsset
    /\ pc \in {"wrap", "record", "refresh"} => \E a \in todo : cur = {a} /\ Derivative(a) # None
    /\ \A v \in Found : jr.mappings[v] # None
    /\ \A a \in ByAsset : jr.assets[a] # None

\* The item that a reference names holds its literal, or a person has replaced it.
Reads(r) == vault[r[1]] = r[2] \/ r[1] \in rotated

\* Every value that was found and has left the queue reads back under its name, and so does
\* every reference that the scan has seen.
Resolved ==
    /\ pc = "journal" => vals = Found
    /\ pc # "journal" => \A v \in Found \ vals : Reads(<<jr.mappings[v], v>>)
    /\ \A p \in Paths : \A r \in seen.md[p].refs : Reads(r)
    /\ \A p \in Paths : \A r \in md[p].refs : Reads(r)
    /\ \A a \in Assets : \A q \in 0..MaxOutside :
         deriv[a][q] # None => \A r \in deriv[a][q] : Reads(r)

----------------------------------------------------------------------------
(* Typing *)

\* Every value starts with its first attempt.
LEMMA FirstAttempt == 0 \in Attempts
BY AdoptAssumption DEF Attempts

\* Names are names, and None is nothing else.
LEMMA NamesTyped ==
    /\ Base \in Names /\ None \notin Names /\ None \notin Values /\ None \notin Kept
    /\ \A refs \in SUBSET Ref : refs # None
    /\ MaxOutside \in Nat /\ MaxStops \in Nat /\ Paths \cap Assets = {}
    /\ \A v \in Values, k \in Attempts : Candidate(v, k) \in Names
BY AdoptAssumption DEF Names, Candidate, Attempts

LEMMA FreshGood == GoodJournal(Fresh)
<1>1. Fresh \in AdoptJournal
  BY DEF Fresh, AdoptJournal
<1> QED
  BY <1>1 DEF GoodJournal, Fresh

LEMMA UnseenTyped == Unseen \in [md : [Paths -> Markdown], asset : [Assets -> Bytes]]
BY NamesTyped DEF Unseen, Markdown, Bytes

\* The journal of a run stays a journal while wrappers are written.
LEMMA GoodStays ==
    ASSUME NEW j, GoodJournal(j), wrapper \subseteq wrapper', NEW k, k = j
    PROVE  /\ k \in AdoptJournal
           /\ \A v, w \in Values : k.mappings[v] = k.mappings[w] => v = w \/ k.mappings[v] = None
           /\ \A a \in Assets : k.assets[a] # None /\ k.assets[a].wrapper => a \in wrapper'
BY DEF GoodJournal

\* The journal with the name that a value gets.
LEMMA RenameGood ==
    ASSUME Typed, NEW v \in Values, ~Taken(v)
    PROVE  GoodJournal([jr EXCEPT !.mappings[v] = NameOf(v)])
<1> DEFINE j == [jr EXCEPT !.mappings[v] = NameOf(v)]
<1>1. /\ jr \in AdoptJournal
      /\ \A x, y \in Values : jr.mappings[x] = jr.mappings[y] => x = y \/ jr.mappings[x] = None
      /\ \A a \in Assets : jr.assets[a] # None /\ jr.assets[a].wrapper => a \in wrapper
  BY DEF Typed, Journals, GoodJournal
<1>2. NameOf(v) \in Names \cup {None}
  BY <1>1, NamesTyped DEF NameOf, Typed, AdoptJournal
<1>3. \A w \in Values \ {v} : jr.mappings[w] # NameOf(v)
  BY DEF Taken
<1>4. /\ j \in AdoptJournal /\ j.assets = jr.assets /\ j.mappings[v] = NameOf(v)
      /\ \A w \in Values \ {v} : j.mappings[w] = jr.mappings[w]
  BY <1>1, <1>2 DEF AdoptJournal
<1> HIDE DEF j
<1>5. \A x, y \in Values : j.mappings[x] = j.mappings[y] => x = y \/ j.mappings[x] = None
  BY <1>1, <1>3, <1>4
<1> QED
  BY <1>1, <1>4, <1>5 DEF GoodJournal, j

\* ... and with an asset whose wrapper is written.
LEMMA WrapGood ==
    ASSUME Typed, OnItsWay, NEW a \in Assets, EnsureWrapper(a)
    PROVE  /\ GoodJournal(jr)' /\ jr'.mappings = jr.mappings /\ jr'.assets[a] \in Kept
           /\ \A b \in Assets \ {a} : jr'.assets[b] = jr.assets[b]
<1>1. /\ jr \in AdoptJournal
      /\ \A x, y \in Values : jr.mappings[x] = jr.mappings[y] => x = y \/ jr.mappings[x] = None
      /\ \A b \in Assets : jr.assets[b] # None /\ jr.assets[b].wrapper => b \in wrapper
  BY DEF Typed, Journals, GoodJournal
<1>2. a \in ByAsset
  BY DEF OnItsWay, EnsureWrapper
<1>3. jr.assets[a] # None
  BY <1>2 DEF OnItsWay
<1>4. jr.assets[a] \in Kept
  BY <1>1, <1>3 DEF AdoptJournal
<1>5. jr' = [jr EXCEPT !.assets[a].wrapper = TRUE] /\ wrapper' = wrapper \cup {a}
  BY DEF EnsureWrapper
<1>6. [jr.assets[a] EXCEPT !.wrapper = TRUE] \in Kept
  BY <1>4 DEF Kept
<1>7. jr' = [jr EXCEPT !.assets = [jr.assets EXCEPT ![a] = [jr.assets[a] EXCEPT !.wrapper = TRUE]]]
  BY <1>5
<1>8. /\ jr' \in AdoptJournal /\ jr'.mappings = jr.mappings /\ jr'.assets[a] \in Kept
      /\ \A b \in Assets \ {a} : jr'.assets[b] = jr.assets[b]
  BY <1>1, <1>6, <1>7 DEF AdoptJournal
<1> QED
  BY <1>1, <1>5, <1>8 DEF GoodJournal

\* ... and the one that a scan begins with.
LEMMA ScanGood ==
    ASSUME Typed, Scan
    PROVE  /\ GoodJournal(jr)'
           /\ vals' \subseteq Values /\ vals' = Found'
           /\ \A v \in vals' : jr'.mappings[v] # None
           /\ \A a \in Assets : asset[a].lits # {} => jr'.assets[a] # None
           /\ jr' = Fresh => vals' = {}
           /\ jr'.paths \subseteq Paths
<1> DEFINE old == IF journal = None THEN Fresh ELSE journal
           hitPaths == {p \in Paths : md[p].lits # {}}
           hitAssets == {a \in Assets : asset[a].lits # {}}
<1>1. GoodJournal(old)
  BY FreshGood DEF Typed, Journals
<1>2. PICK new \in [Values -> Names \cup {None}] :
        /\ Assigned(old.mappings, new)
        /\ jr' = [mappings |-> new,
                  paths |-> old.paths \cup hitPaths,
                  assets |-> [a \in Assets |->
                     IF a \in hitAssets
                       THEN [rev |-> asset[a].rev,
                             wrapper |-> old.assets[a] # None /\ old.assets[a].wrapper]
                       ELSE old.assets[a]]]
  BY DEF Scan
<1>3. vals' = UNION ({md[p].lits : p \in hitPaths} \cup {asset[a].lits : a \in hitAssets})
  BY DEF Scan
<1> HIDE DEF old
<1>4. /\ old \in AdoptJournal
      /\ \A a \in Assets : old.assets[a] # None /\ old.assets[a].wrapper => a \in wrapper
  BY <1>1 DEF GoodJournal
<1>5. /\ old.paths \subseteq Paths
      /\ \A a \in Assets : old.assets[a] \in {None} \cup Kept
  BY <1>4 DEF AdoptJournal
<1>6. vals' \subseteq Values
  <2>1. (\A p \in Paths : md[p].lits \subseteq Values) /\ \A a \in Assets : asset[a].lits \subseteq Values
    BY DEF Typed, Markdown, Bytes
  <2> QED
    BY <1>3, <2>1
<1>7. vals' = Found'
  <2>1. seen'.md = md /\ seen'.asset = asset
    BY DEF Scan
  <2>2. Found' = UNION ({md[p].lits : p \in Paths} \cup {asset[a].lits : a \in Assets})
    BY <2>1 DEF Found
  <2> QED
    BY <1>3, <2>2
<1>8. \A a \in Assets : jr'.assets[a] =
         IF a \in hitAssets THEN [rev |-> asset[a].rev,
                                  wrapper |-> old.assets[a] # None /\ old.assets[a].wrapper]
                            ELSE old.assets[a]
  BY <1>2
<1>9. ASSUME NEW a \in Assets
      PROVE  /\ jr'.assets[a] \in {None} \cup Kept
             /\ jr'.assets[a] # None /\ jr'.assets[a].wrapper => a \in wrapper
             /\ a \in hitAssets => jr'.assets[a] # None
  <2>1. CASE a \in hitAssets
    <3>1. jr'.assets[a] = [rev |-> asset[a].rev,
                           wrapper |-> old.assets[a] # None /\ old.assets[a].wrapper]
      BY <1>8, <2>1
    <3>2. asset[a].rev \in 0..MaxOutside
      BY DEF Typed, Bytes
    <3>3. (old.assets[a] # None /\ old.assets[a].wrapper) \in BOOLEAN
      <4>1. old.assets[a] = None \/ old.assets[a].wrapper \in BOOLEAN
        BY <1>5 DEF Kept
      <4> QED
        BY <4>1
    <3>4. jr'.assets[a] \in Kept
      BY <3>1, <3>2, <3>3 DEF Kept
    <3>5. jr'.assets[a] # None
      BY <3>4, NamesTyped
    <3>6. jr'.assets[a].wrapper <=> (old.assets[a] # None /\ old.assets[a].wrapper)
      <4> DEFINE had == old.assets[a] # None /\ old.assets[a].wrapper
      <4>1. jr'.assets[a] = [rev |-> asset[a].rev, wrapper |-> had]
        BY <3>1
      <4> HIDE DEF had
      <4>2. jr'.assets[a].wrapper = had
        BY <4>1
      <4> QED
        BY <4>2, Zenon DEF had
    <3> QED
      BY <1>4, <3>4, <3>5, <3>6
  <2>2. CASE a \notin hitAssets
    BY <1>4, <1>5, <1>8, <2>2
  <2> QED
    BY <2>1, <2>2
<1>10. jr' \in AdoptJournal
  <2>1. [a \in Assets |-> jr'.assets[a]] \in [Assets -> {None} \cup Kept]
    BY <1>9
  <2>2. jr'.assets = [a \in Assets |-> jr'.assets[a]]
    BY <1>2
  <2>3. jr'.assets \in [Assets -> {None} \cup Kept]
    BY <2>1, <2>2
  <2>4. old.paths \cup hitPaths \in SUBSET Paths
    BY <1>5
  <2> QED
    BY <1>2, <2>3, <2>4 DEF AdoptJournal
<1>11. /\ \A v, w \in Values : jr'.mappings[v] = jr'.mappings[w] => v = w \/ jr'.mappings[v] = None
       /\ \A v \in vals' : jr'.mappings[v] # None
  <2>1. jr'.mappings = new
    BY <1>2
  <2>2. \A v, w \in Values : v # w /\ new[v] # None => new[v] # new[w]
    BY <1>2 DEF Assigned
  <2>3. ASSUME NEW v \in vals' PROVE new[v] # None
    <3>1. CASE old.mappings[v] # None
      BY <1>2, <1>6, <3>1 DEF Assigned
    <3>2. CASE old.mappings[v] = None
      <4>1. PICK k \in Attempts : new[v] = Candidate(v, k)
        BY <1>2, <1>6, <3>2 DEF Assigned
      <4> QED
        BY <1>6, <4>1, NamesTyped
    <3> QED
      BY <3>1, <3>2
  <2> QED
    BY <2>1, <2>2, <2>3
<1>12. jr' = Fresh => vals' = {}
  BY <1>6, <1>11 DEF Fresh
<1>13. UNCHANGED wrapper /\ jr'.paths \subseteq Paths
  BY <1>10 DEF Scan, files, AdoptJournal
<1> QED
  BY <1>6, <1>7, <1>9, <1>10, <1>11, <1>12, <1>13 DEF GoodJournal

\* Between two runs adopt holds nothing.
LEMMA LeaveTyped ==
    ASSUME Leave, UNCHANGED <<md, wrapper>>, md \in [Paths -> Markdown]
    PROVE  /\ pc' = "idle" /\ GoodJournal(jr)' /\ vals' = {} /\ attempt' = 0 /\ myscope' = {}
           /\ seen' \in [md : [Paths -> Markdown], asset : [Assets -> Bytes]]
           /\ \A p \in Paths : /\ seen'.md[p] = [text |-> 0, lits |-> {}, refs |-> {}]
                              /\ seen'.md[p].text <= md[p].text
           /\ \A a \in Assets : seen'.asset[a].lits = {}
           /\ Found' = {} /\ ByPath' = {} /\ ByAsset' = {}
<1>1. jr' = Fresh /\ seen' = Unseen
  BY DEF Leave
<1>2. GoodJournal(jr)'
  BY <1>1, FreshGood DEF GoodJournal
<1>3. /\ \A p \in Paths : seen'.md[p] = [text |-> 0, lits |-> {}, refs |-> {}]
      /\ \A a \in Assets : seen'.asset[a] = [rev |-> 0, lits |-> {}]
  BY <1>1 DEF Unseen
<1>4. Found' = {} /\ ByPath' = {} /\ ByAsset' = {}
  BY <1>3 DEF Found, ByPath, ByAsset
<1>5. \A p \in Paths : seen'.md[p].text <= md[p].text
  BY <1>3 DEF Markdown
<1> QED
  BY <1>1, <1>2, <1>3, <1>4, <1>5, UnseenTyped DEF Leave

LEMMA FoundIn == Typed => Found \subseteq Values
<1> SUFFICES ASSUME Typed PROVE Found \subseteq Values
  OBVIOUS
<1>1. /\ \A p \in Paths : seen.md[p].lits \subseteq Values
      /\ \A a \in Assets : seen.asset[a].lits \subseteq Values
  BY DEF Typed, Markdown, Bytes
<1> QED
  BY <1>1 DEF Found

\* The references of a set of values, and a derivative's, are references.
LEMMA RedactedTyped ==
    ASSUME Typed, OnItsWay, NEW lits \in SUBSET Found
    PROVE  /\ Redacted(lits) \in SUBSET Ref
           /\ \A r \in Redacted(lits) : \E v \in lits : r = <<jr.mappings[v], v>>
<1>1. jr.mappings \in [Values -> Names \cup {None}]
  BY DEF Typed, Journals, GoodJournal, AdoptJournal
<1>2. Found \subseteq Values
  BY FoundIn
<1>3. \A v \in lits : v \in Values /\ jr.mappings[v] \in Names
  BY <1>1, <1>2 DEF OnItsWay
<1> QED
  BY <1>3 DEF Redacted, Ref

LEMMA FoundHas ==
    /\ \A p \in Paths : seen.md[p].lits \in SUBSET Found
    /\ \A a \in Assets : seen.asset[a].lits \in SUBSET Found
BY DEF Found

LEMMA TypeInit == Init => Typed
<1> SUFFICES ASSUME Init PROVE Typed
  OBVIOUS
<1>1. \A p \in Paths : md[p].text = 0
  BY DEF Init
<1>2. md \in [Paths -> Markdown] /\ asset \in [Assets -> Bytes] /\ \A a \in Assets : asset[a].rev = 0
  BY DEF Init
<1>3. jr = Fresh /\ seen = Unseen
  BY DEF Init
<1>4. \A p \in Paths : seen.md[p].text = 0
  BY <1>3 DEF Unseen
<1>5. deriv \in [Assets -> [0..MaxOutside -> {None} \cup SUBSET Ref]]
  BY DEF Init
<1>6. declared \in [Assets -> [rev : 0..MaxOutside, superseded : BOOLEAN]]
  BY NamesTyped DEF Init
<1>7. spent \in [outside : 0..MaxOutside, stops : 0..MaxStops] /\ spent.outside = 0
  BY NamesTyped DEF Init
<1> QED
  BY <1>1, <1>2, <1>3, <1>4, <1>5, <1>6, <1>7, FreshGood, UnseenTyped, FirstAttempt
     DEF Init, Typed, Journals, Steps

\* The journals stay good.
LEMMA JournalsStep ==
    ASSUME Typed, OnItsWay, [Next]_vars
    PROVE  Journals'
<1>1. GoodJournal(jr) /\ (journal = None \/ GoodJournal(journal)) /\ md \in [Paths -> Markdown]
  BY DEF Typed, Journals
<1>2. ASSUME wrapper \subseteq wrapper', UNCHANGED journal
      PROVE  journal' = None \/ GoodJournal(journal)'
  BY <1>1, <1>2 DEF GoodJournal
<1>3. ASSUME Leave, UNCHANGED <<wrapper, journal>> PROVE Journals'
  <2>1. GoodJournal(jr)'
    BY <1>3, FreshGood DEF Leave, GoodJournal
  <2> QED
    BY <1>2, <1>3, <2>1 DEF Journals
<1>4. ASSUME UNCHANGED <<wrapper, jr, journal>> PROVE Journals'
  <2>1. GoodJournal(jr)'
    BY <1>1, <1>4 DEF GoodJournal
  <2> QED
    BY <1>2, <1>4, <2>1 DEF Journals
<1>5. ASSUME UNCHANGED <<wrapper, jr>>, journal' = jr PROVE Journals'
  BY <1>1, <1>5 DEF Journals, GoodJournal
<1>6. CASE Scan
  BY <1>2, <1>6, ScanGood DEF Journals, Scan, files
<1>7. CASE WriteAdoptJournal \/ RecordWrapper
  BY <1>5, <1>7 DEF WriteAdoptJournal, RecordWrapper, files, locals
<1>8. ASSUME NEW v \in Values, Rename(v) PROVE Journals'
  <2>1. /\ jr' = [jr EXCEPT !.mappings[v] = NameOf(v)] /\ journal' = jr' /\ UNCHANGED wrapper
        /\ ~Taken(v)
    BY <1>8 DEF Rename, files
  <2>2. GoodJournal([jr EXCEPT !.mappings[v] = NameOf(v)])
    BY <2>1, RenameGood
  <2>3. GoodJournal(jr)'
    BY <2>1, <2>2 DEF GoodJournal
  <2>4. GoodJournal(journal)'
    BY <2>1, <2>2 DEF GoodJournal
  <2> QED
    BY <2>3, <2>4 DEF Journals
<1>9. ASSUME NEW a \in Assets, EnsureWrapper(a) PROVE Journals'
  BY <1>2, <1>9, WrapGood DEF Journals, EnsureWrapper
<1>10. CASE RemoveJournal
  BY <1>10, FreshGood DEF RemoveJournal, files, Leave, Journals, GoodJournal
<1>11. CASE UNCHANGED <<wrapper, jr, journal>> \/ (Leave /\ UNCHANGED <<wrapper, journal>>)
  BY <1>3, <1>4, <1>11
<1>12. \/ UNCHANGED <<wrapper, jr, journal>> \/ (Leave /\ UNCHANGED <<wrapper, journal>>)
       \/ Scan \/ WriteAdoptJournal \/ RecordWrapper \/ RemoveJournal
       \/ \E v \in Values : Rename(v)
       \/ \E a \in Assets : EnsureWrapper(a)
  BY DEF Next, Adopts, Post, PostConflict, VaultFails, VaultDone, Check, CheckChanged, Rewrite,
     CheckDone, WriteDone, KeepHomeRead, KeepHomeWrite, Derive, DeriveFails, RefreshManifest,
     DeriveDone, FinishScopeRead, FinishScopeWrite, Stop, PostLost, QuarantineRead,
     QuarantineWrite, EditMarkdown, EditAsset, SecretsSet, files, locals, quarantine, vars
<1> QED
  BY <1>6, <1>7, <1>8, <1>9, <1>10, <1>11, <1>12

LEMMA TypeStep == Typed /\ OnItsWay /\ [Next]_vars => Typed'
<1> SUFFICES ASSUME Typed, OnItsWay, [Next]_vars PROVE Typed'
  OBVIOUS
<1>1. Journals'
  BY JournalsStep
<1>2. CASE Scan
  <2>1. seen' \in [md : [Paths -> Markdown], asset : [Assets -> Bytes]] /\ seen'.md = md
    BY <1>2 DEF Scan, Typed
  <2>2. vals' \subseteq Values
    BY <1>2, ScanGood
  <2> QED
    BY <1>1, <1>2, <2>1, <2>2, FirstAttempt DEF Scan, files, quarantine, Typed, Steps, Markdown
<1>3. CASE WriteAdoptJournal \/ VaultDone \/ CheckDone \/ WriteDone \/ KeepHomeRead \/ RecordWrapper
           \/ DeriveDone \/ FinishScopeRead
  BY <1>1, <1>3 DEF WriteAdoptJournal, VaultDone, CheckDone, WriteDone, KeepHomeRead, RecordWrapper,
     DeriveDone, FinishScopeRead, files, locals, quarantine, Typed, Steps
<1>4. CASE KeepHomeWrite \/ FinishScopeWrite
  BY <1>1, <1>4 DEF KeepHomeWrite, FinishScopeWrite, JournaledAssets, files, locals, quarantine,
     Typed, Steps
<1>5. ASSUME Leave, UNCHANGED <<files, scope, quarantine, rotated>>,
             vault' \in [Names -> Values \cup {None}],
             spent' \in [outside : 0..MaxOutside, stops : 0..MaxStops], spent'.outside = spent.outside
      PROVE  Typed'
  <2>1. /\ pc' = "idle" /\ vals' = {} /\ attempt' = 0 /\ myscope' = {}
        /\ seen' \in [md : [Paths -> Markdown], asset : [Assets -> Bytes]]
        /\ \A p \in Paths : seen'.md[p].text <= md[p].text
    BY <1>5, LeaveTyped DEF Typed, files
  <2> QED
    BY <1>1, <1>5, <2>1, FirstAttempt DEF files, quarantine, Typed, Steps
<1>6. CASE RemoveJournal
  <2>1. UNCHANGED <<spent, vault>> /\ Leave /\ UNCHANGED <<files, scope, quarantine, rotated>>
    BY <1>6 DEF RemoveJournal
  <2> QED
    BY <1>5, <2>1 DEF Typed
<1>7. ASSUME UNCHANGED <<files, scope, vault, quarantine, rotated, spent>>,
             \/ \E v \in Values : VaultFails(v)
             \/ \E p \in Paths : CheckChanged(p)
             \/ \E a \in Assets : DeriveFails(a)
      PROVE  Typed'
  <2>1. Leave
    BY <1>7 DEF VaultFails, CheckChanged, DeriveFails
  <2> QED
    BY <1>5, <1>7, <2>1 DEF Typed
<1>8. ASSUME Spend("stops", MaxStops)
      PROVE  spent' \in [outside : 0..MaxOutside, stops : 0..MaxStops] /\ spent'.outside = spent.outside
  <2>1. /\ spent \in [outside : 0..MaxOutside, stops : 0..MaxStops] /\ MaxStops \in Nat
        /\ spent.stops < MaxStops /\ spent' = [spent EXCEPT !.stops = spent.stops + 1]
    BY <1>8, NamesTyped DEF Spend, Typed
  <2>2. spent.stops + 1 \in 0..MaxStops
    BY <2>1
  <2> QED
    BY <2>1, <2>2
<1>9. CASE Stop
  <2>1. UNCHANGED vault /\ Leave /\ UNCHANGED <<files, scope, quarantine, rotated>> /\ Spend("stops", MaxStops)
    BY <1>9 DEF Stop
  <2> QED
    BY <1>5, <1>8, <2>1 DEF Typed
<1>10. ASSUME NEW v \in Values, PostLost(v) PROVE Typed'
  <2>1. Leave /\ UNCHANGED <<files, scope, quarantine, rotated>> /\ Spend("stops", MaxStops)
    BY <1>10 DEF PostLost
  <2>2. vault' \in [Names -> Values \cup {None}]
    BY <1>10 DEF PostLost, Typed
  <2> QED
    BY <1>5, <1>8, <2>1, <2>2
<1>11. ASSUME NEW v \in Values, Rename(v) \/ Post(v) \/ PostConflict(v) PROVE Typed'
  <2>1. CASE Rename(v)
    BY <1>1, <2>1 DEF Rename, files, quarantine, Typed
  <2>2. CASE Post(v)
    <3>1. vault' \in [Names -> Values \cup {None}]
      BY <2>2 DEF Post, Typed
    <3> QED
      BY <1>1, <2>2, <3>1, FirstAttempt DEF Post, files, quarantine, Typed
  <2>3. CASE PostConflict(v)
    BY <1>1, <2>3 DEF PostConflict, files, quarantine, Typed
  <2> QED
    BY <1>11, <2>1, <2>2, <2>3
<1>12. ASSUME NEW p \in Paths, Check(p) PROVE Typed'
  BY <1>1, <1>12 DEF Check, files, quarantine, Typed
<1>13. ASSUME NEW p \in Paths, Rewrite(p) PROVE Typed'
  <2>1. p \in ByPath /\ seen.md[p] \in Markdown
    BY <1>13 DEF Rewrite, OnItsWay, Typed
  <2>2. Redacted(seen.md[p].lits) \in SUBSET Ref
    BY RedactedTyped, FoundHas
  <2>3. [text |-> seen.md[p].text, lits |-> {},
         refs |-> seen.md[p].refs \cup Redacted(seen.md[p].lits)] \in Markdown
    BY <2>1, <2>2 DEF Markdown
  <2>4. md' \in [Paths -> Markdown] /\ md'[p].text = seen.md[p].text
        /\ \A q \in Paths \ {p} : md'[q] = md[q]
    BY <1>13, <2>3 DEF Rewrite, Typed
  <2>5. \A q \in Paths : md'[q].text <= spent.outside /\ seen.md[q].text <= md'[q].text
    <3> TAKE q \in Paths
    <3>1. /\ md[q].text \in Int /\ seen.md[q].text \in Int /\ spent.outside \in Int
          /\ md[q].text <= spent.outside /\ seen.md[q].text <= md[q].text
      BY DEF Typed, Markdown
    <3>2. md'[q].text = md[q].text \/ md'[q].text = seen.md[q].text
      BY <2>4
    <3> QED
      BY <3>1, <3>2
  <2> QED
    BY <1>1, <1>13, <2>4, <2>5 DEF Rewrite, quarantine, Typed
<1>14. ASSUME NEW a \in Assets, Derive(a) PROVE Typed'
  <2>1. Sanitized(a) \in SUBSET Ref
    BY RedactedTyped, FoundHas DEF Sanitized
  <2>2. seen.asset[a].rev \in 0..MaxOutside
    BY DEF Typed, Bytes
  <2>3. deriv' = [deriv EXCEPT ![a] = [deriv[a] EXCEPT ![seen.asset[a].rev] = Sanitized(a)]]
    BY <1>14 DEF Derive
  <2>4. [deriv[a] EXCEPT ![seen.asset[a].rev] = Sanitized(a)] \in [0..MaxOutside -> {None} \cup SUBSET Ref]
    BY <2>1, <2>2 DEF Typed
  <2>5. deriv' \in [Assets -> [0..MaxOutside -> {None} \cup SUBSET Ref]]
    BY <2>3, <2>4 DEF Typed
  <2> QED
    BY <1>1, <1>14, <2>5 DEF Derive, quarantine, Typed, Steps
<1>15. ASSUME NEW a \in Assets, EnsureWrapper(a) PROVE Typed'
  BY <1>1, <1>15 DEF EnsureWrapper, quarantine, Typed, Steps
<1>16. ASSUME NEW a \in Assets, RefreshManifest(a) PROVE Typed'
  <2>1. declared' \in [Assets -> [rev : 0..MaxOutside, superseded : BOOLEAN]]
    BY <1>16 DEF RefreshManifest, Typed
  <2> QED
    BY <1>1, <1>16, <2>1 DEF RefreshManifest, quarantine, Typed, Steps
<1>17. CASE QuarantineRead \/ QuarantineWrite
  BY <1>1, <1>17 DEF QuarantineRead, QuarantineWrite, files, locals, Typed
<1>18. ASSUME Spend("outside", MaxOutside)
       PROVE  /\ spent' \in [outside : 0..MaxOutside, stops : 0..MaxStops]
              /\ spent'.outside = spent.outside + 1 /\ spent.outside \in Nat /\ spent.outside < MaxOutside
  <2>1. /\ spent \in [outside : 0..MaxOutside, stops : 0..MaxStops] /\ MaxOutside \in Nat
        /\ spent.outside < MaxOutside /\ spent' = [spent EXCEPT !.outside = spent.outside + 1]
    BY <1>18, NamesTyped DEF Spend, Typed
  <2>2. spent.outside + 1 \in 0..MaxOutside /\ spent.outside \in Nat
    BY <2>1
  <2> QED
    BY <2>1, <2>2
<1>19. ASSUME NEW p \in Paths, NEW lits \in SUBSET Values, EditMarkdown(p, lits) PROVE Typed'
  <2>1. md' = [md EXCEPT ![p] = [md[p] EXCEPT !.text = md[p].text + 1, !.lits = lits]]
    BY <1>19 DEF EditMarkdown
  <2>2. md[p] \in Markdown /\ md[p].text <= spent.outside /\ seen.md[p].text <= md[p].text /\ seen.md[p] \in Markdown
    BY DEF Typed
  <2>3. /\ spent' \in [outside : 0..MaxOutside, stops : 0..MaxStops]
        /\ spent'.outside = spent.outside + 1 /\ spent.outside \in Nat /\ spent.outside < MaxOutside
    BY <1>18, <1>19 DEF EditMarkdown
  <2>4. [md[p] EXCEPT !.text = md[p].text + 1, !.lits = lits] \in Markdown
    <3>1. md[p].text \in Nat /\ MaxOutside \in Nat
      BY <2>2, NamesTyped DEF Markdown
    <3>2. md[p].text + 1 \in 0..MaxOutside
      BY <2>2, <2>3, <3>1
    <3> QED
      BY <2>2, <3>2 DEF Markdown
  <2>5. md' \in [Paths -> Markdown] /\ md'[p].text = md[p].text + 1 /\ \A q \in Paths \ {p} : md'[q] = md[q]
    BY <2>1, <2>2, <2>4 DEF Typed, Markdown
  <2>6. \A q \in Paths : md'[q].text <= spent'.outside /\ seen.md[q].text <= md'[q].text
    <3> TAKE q \in Paths
    <3>1. md[q].text \in Nat /\ seen.md[q].text \in Nat /\ seen.md[q].text <= md[q].text /\ md[q].text <= spent.outside
      BY DEF Typed, Markdown
    <3> QED
      BY <2>3, <2>5, <3>1
  <2>7. \A a \in Assets : asset[a].rev <= spent'.outside
    <3> TAKE a \in Assets
    <3>1. asset[a].rev \in Nat /\ asset[a].rev <= spent.outside
      BY DEF Typed, Bytes
    <3> QED
      BY <2>3, <3>1
  <2> QED
    BY <1>1, <1>19, <2>3, <2>5, <2>6, <2>7 DEF EditMarkdown, locals, quarantine, Typed
<1>20. ASSUME NEW a \in Assets, NEW lits \in SUBSET Values, NEW declare \in BOOLEAN,
              EditAsset(a, lits, declare)
       PROVE  Typed'
  <2>1. /\ spent' \in [outside : 0..MaxOutside, stops : 0..MaxStops]
        /\ spent'.outside = spent.outside + 1 /\ spent.outside \in Nat /\ spent.outside < MaxOutside
    BY <1>18, <1>20 DEF EditAsset
  <2>2. asset[a].rev \in Nat /\ asset[a].rev <= spent.outside
    BY DEF Typed, Bytes
  <2>3. [rev |-> asset[a].rev + 1, lits |-> lits] \in Bytes
    BY <2>1, <2>2, NamesTyped DEF Bytes
  <2>4. /\ asset' \in [Assets -> Bytes] /\ asset'[a].rev = asset[a].rev + 1
        /\ \A b \in Assets \ {a} : asset'[b] = asset[b]
    BY <1>20, <2>3 DEF EditAsset, Typed
  <2>5. asset'[a].rev \in 0..MaxOutside
    BY <2>4 DEF Bytes
  <2>6. declared' \in [Assets -> [rev : 0..MaxOutside, superseded : BOOLEAN]]
    <3>1. declared' = declared \/ declared' = [declared EXCEPT ![a] = [@ EXCEPT !.rev = asset'[a].rev]]
      BY <1>20 DEF EditAsset
    <3>2. [declared[a] EXCEPT !.rev = asset'[a].rev] \in [rev : 0..MaxOutside, superseded : BOOLEAN]
      <4>1. declared[a] \in [rev : 0..MaxOutside, superseded : BOOLEAN]
        BY DEF Typed
      <4> QED
        BY <2>5, <4>1
    <3> QED
      BY <3>1, <3>2 DEF Typed
  <2>7. \A b \in Assets : asset'[b].rev <= spent'.outside
    <3> TAKE b \in Assets
    <3>1. asset[b].rev \in Nat /\ asset[b].rev <= spent.outside
      BY DEF Typed, Bytes
    <3> QED
      BY <2>1, <2>4, <3>1
  <2>8. \A p \in Paths : md[p].text <= spent'.outside
    <3> TAKE p \in Paths
    <3>1. md[p].text \in Nat /\ md[p].text <= spent.outside
      BY DEF Typed, Markdown
    <3> QED
      BY <2>1, <3>1
  <2> QED
    BY <1>1, <1>20, <2>1, <2>4, <2>6, <2>7, <2>8 DEF EditAsset, locals, quarantine, Typed
<1>21. ASSUME NEW n \in Names, NEW v \in Values, SecretsSet(n, v) PROVE Typed'
  <2>1. /\ spent' \in [outside : 0..MaxOutside, stops : 0..MaxStops]
        /\ spent'.outside = spent.outside + 1 /\ spent.outside \in Nat /\ spent.outside < MaxOutside
    BY <1>18, <1>21 DEF SecretsSet
  <2>2. /\ \A b \in Assets : asset[b].rev <= spent'.outside
        /\ \A p \in Paths : md[p].text <= spent'.outside
    <3>1. /\ \A b \in Assets : asset[b].rev \in Nat /\ asset[b].rev <= spent.outside
          /\ \A p \in Paths : md[p].text \in Nat /\ md[p].text <= spent.outside
      BY DEF Typed, Bytes, Markdown
    <3> QED
      BY <2>1, <3>1
  <2>3. vault' \in [Names -> Values \cup {None}] /\ rotated' \subseteq Names
    BY <1>21 DEF SecretsSet, Typed
  <2> QED
    BY <1>1, <1>21, <2>1, <2>2, <2>3 DEF SecretsSet, files, locals, quarantine, Typed
<1>22. CASE UNCHANGED vars
  BY <1>1, <1>22 DEF vars, files, locals, quarantine, Typed
<1>23. /\ \A v \in Values : VaultFails(v) => UNCHANGED <<files, scope, vault, quarantine, rotated, spent>>
       /\ \A p \in Paths : CheckChanged(p) => UNCHANGED <<files, scope, vault, quarantine, rotated, spent>>
       /\ \A a \in Assets : DeriveFails(a) => UNCHANGED <<files, scope, vault, quarantine, rotated, spent>>
  BY DEF VaultFails, CheckChanged, DeriveFails
<1> QED
  BY <1>2, <1>3, <1>4, <1>6, <1>7, <1>9, <1>10, <1>11, <1>12, <1>13, <1>14, <1>15, <1>16, <1>17,
     <1>19, <1>20, <1>21, <1>22, <1>23 DEF Next, Adopts

----------------------------------------------------------------------------
(* What the steps of adopt work on *)

LEMMA WayInit == Init => OnItsWay
<1> SUFFICES ASSUME Init PROVE OnItsWay
  OBVIOUS
<1>1. seen = Unseen /\ pc = "idle"
  BY DEF Init
<1>2. Found = {} /\ ByAsset = {}
  BY <1>1 DEF Found, ByAsset, Unseen
<1> QED
  BY <1>1, <1>2 DEF OnItsWay

\* What only the working memory says is true as long as it stays.
LEMMA SameWay ==
    ASSUME OnItsWay, UNCHANGED <<pc, seen, jr, vals, todo, cur, deriv>>
    PROVE  OnItsWay'
BY DEF OnItsWay, Found, ByPath, ByAsset, Derivative

LEMMA WayStep == Typed /\ OnItsWay /\ [Next]_vars => OnItsWay'
<1> SUFFICES ASSUME Typed, OnItsWay, [Next]_vars PROVE OnItsWay'
  OBVIOUS
<1>1. CASE Scan
  <2>1. /\ vals' = Found' /\ (\A v \in vals' : jr'.mappings[v] # None)
        /\ \A a \in Assets : asset[a].lits # {} => jr'.assets[a] # None
        /\ jr' = Fresh => vals' = {}
    BY <1>1, ScanGood
  <2>2. seen'.asset = asset /\ pc' = IF jr' = Fresh THEN "keep" ELSE "journal"
    BY <1>1 DEF Scan
  <2>3. \A a \in ByAsset' : jr'.assets[a] # None
    BY <2>1, <2>2 DEF ByAsset
  <2>4. /\ \A v \in Found' : jr'.mappings[v] # None
        /\ pc' \in {"keep", "journal"} /\ (pc' = "keep" => vals' = {}) /\ cur' = {}
    BY <1>1, <2>1, <2>2 DEF Scan
  <2> QED
    BY <2>3, <2>4 DEF OnItsWay
<1>2. ASSUME Leave PROVE OnItsWay'
  <2>1. seen' = Unseen /\ pc' = "idle"
    BY <1>2 DEF Leave
  <2>2. Found' = {} /\ ByAsset' = {}
    BY <2>1 DEF Found, ByAsset, Unseen
  <2> QED
    BY <2>1, <2>2 DEF OnItsWay
<1>3. CASE \/ RemoveJournal \/ Stop
           \/ \E v \in Values : VaultFails(v) \/ PostLost(v)
           \/ \E p \in Paths : CheckChanged(p)
           \/ \E a \in Assets : DeriveFails(a)
  BY <1>2, <1>3 DEF RemoveJournal, Stop, VaultFails, PostLost, CheckChanged, DeriveFails
<1>4. CASE \/ WriteAdoptJournal \/ WriteDone \/ KeepHomeRead \/ RecordWrapper \/ DeriveDone
           \/ FinishScopeRead \/ FinishScopeWrite
  <2>1. /\ UNCHANGED <<seen, jr, vals, todo, cur, deriv>>
        /\ <<pc, pc'>> \in {<<"journal", "vault">>, <<"write", "keep">>, <<"keep", "kept">>,
             <<"record", "refresh">>, <<"derive", "finish">>, <<"finish", "unkeep">>,
             <<"unkeep", "remove">>}
    BY <1>4 DEF WriteAdoptJournal, WriteDone, KeepHomeRead, RecordWrapper, DeriveDone,
       FinishScopeRead, FinishScopeWrite, files, locals
  <2>2. Found' = Found /\ ByPath' = ByPath /\ ByAsset' = ByAsset
    BY <2>1 DEF Found, ByPath, ByAsset
  <2>3. \A a \in todo : Derivative(a)' = Derivative(a)
    BY <2>1 DEF Derivative
  <2> QED
    BY <2>1, <2>2, <2>3 DEF OnItsWay
<1>5. CASE VaultDone \/ CheckDone \/ KeepHomeWrite \/ \E p \in Paths : Check(p) \/ Rewrite(p)
  <2>1. UNCHANGED <<seen, jr, vals, deriv>> /\ pc' \in {"check", "write", "derive"} /\ vals = {}
    BY <1>5 DEF VaultDone, CheckDone, KeepHomeWrite, Check, Rewrite, files, OnItsWay
  <2>2. Found' = Found /\ ByPath' = ByPath /\ ByAsset' = ByAsset
    BY <2>1 DEF Found, ByPath, ByAsset
  <2>3. /\ pc' \in {"check", "write"} => todo' \subseteq ByPath
        /\ pc' = "derive" => todo' \subseteq ByAsset
    BY <1>5 DEF VaultDone, CheckDone, KeepHomeWrite, Check, Rewrite, OnItsWay
  <2> QED
    BY <2>1, <2>2, <2>3 DEF OnItsWay
<1>6. ASSUME NEW v \in Values, Rename(v) PROVE OnItsWay'
  <2>1. /\ UNCHANGED <<pc, seen, vals, todo, cur, deriv>> /\ pc = "vault"
        /\ jr' = [jr EXCEPT !.mappings[v] = NameOf(v)] /\ jr.mappings[v] # NameOf(v)
    BY <1>6 DEF Rename, files
  <2>2. NameOf(v) \in Names
    BY <2>1, NamesTyped DEF NameOf, Typed
  <2>3. /\ jr'.assets = jr.assets /\ jr'.mappings[v] = NameOf(v)
        /\ \A w \in Values \ {v} : jr'.mappings[w] = jr.mappings[w]
    BY <2>1 DEF Typed, Journals, GoodJournal, AdoptJournal
  <2>4. Found' = Found /\ ByPath' = ByPath /\ ByAsset' = ByAsset /\ Found \subseteq Values
    BY <2>1, FoundIn DEF Found, ByPath, ByAsset
  <2>5. \A w \in Found : jr'.mappings[w] # None
    BY <2>2, <2>3, <2>4, NamesTyped DEF OnItsWay
  <2> QED
    BY <2>1, <2>3, <2>4, <2>5 DEF OnItsWay
<1>7. ASSUME NEW v \in Values, Post(v) \/ PostConflict(v) PROVE OnItsWay'
  <2>1. /\ UNCHANGED <<pc, seen, jr, todo, deriv>> /\ pc = "vault"
        /\ cur' = {} \/ \E w \in vals' : cur' = {w}
    BY <1>7 DEF Post, PostConflict, Conflict, Posting, files
  <2>2. Found' = Found /\ ByPath' = ByPath /\ ByAsset' = ByAsset
    BY <2>1 DEF Found, ByPath, ByAsset
  <2> QED
    BY <2>1, <2>2 DEF OnItsWay
<1>8. ASSUME NEW a \in Assets, Derive(a) PROVE OnItsWay'
  <2>1. /\ UNCHANGED <<seen, jr, vals, todo>> /\ pc = "derive" /\ pc' = "wrap" /\ cur' = {a} /\ a \in todo
        /\ deriv' = [deriv EXCEPT ![a][seen.asset[a].rev] = Sanitized(a)]
    BY <1>8 DEF Derive
  <2>2. Sanitized(a) \in SUBSET Ref
    BY RedactedTyped, FoundHas DEF Sanitized
  <2>3. seen.asset[a].rev \in 0..MaxOutside
    BY DEF Typed, Bytes
  <2>4. deriv'[a][seen.asset[a].rev] = Sanitized(a)
    BY <2>1, <2>3 DEF Typed
  <2>5. Derivative(a)' # None
    BY <2>1, <2>2, <2>4, NamesTyped DEF Derivative
  <2>6. Found' = Found /\ ByPath' = ByPath /\ ByAsset' = ByAsset
    BY <2>1 DEF Found, ByPath, ByAsset
  <2> QED
    BY <2>1, <2>5, <2>6 DEF OnItsWay
<1>9. ASSUME NEW a \in Assets, EnsureWrapper(a) PROVE OnItsWay'
  <2>1. /\ UNCHANGED <<seen, vals, todo, cur, deriv>> /\ pc = "wrap" /\ pc' = "record"
    BY <1>9 DEF EnsureWrapper
  <2>2. /\ jr'.mappings = jr.mappings /\ jr'.assets[a] \in Kept
        /\ \A b \in Assets \ {a} : jr'.assets[b] = jr.assets[b]
    BY <1>9, WrapGood
  <2>3. Found' = Found /\ ByPath' = ByPath /\ ByAsset' = ByAsset /\ ByAsset \subseteq Assets
    BY <2>1 DEF Found, ByPath, ByAsset
  <2>4. \A b \in ByAsset : jr'.assets[b] # None
    BY <2>2, <2>3, NamesTyped DEF OnItsWay
  <2>5. \A b \in todo : Derivative(b)' = Derivative(b)
    BY <2>1 DEF Derivative
  <2> QED
    BY <2>1, <2>2, <2>3, <2>4, <2>5 DEF OnItsWay
<1>10. ASSUME NEW a \in Assets, RefreshManifest(a) PROVE OnItsWay'
  BY <1>10 DEF RefreshManifest, OnItsWay, Found, ByPath, ByAsset
<1>11. UNCHANGED <<pc, seen, jr, vals, todo, cur, deriv>> => OnItsWay'
  BY SameWay
<1>12. \/ Scan \/ RemoveJournal \/ Stop
       \/ \E v \in Values : VaultFails(v) \/ PostLost(v) \/ Rename(v) \/ Post(v) \/ PostConflict(v)
       \/ \E p \in Paths : CheckChanged(p) \/ Check(p) \/ Rewrite(p)
       \/ \E a \in Assets : DeriveFails(a) \/ Derive(a) \/ EnsureWrapper(a) \/ RefreshManifest(a)
       \/ WriteAdoptJournal \/ WriteDone \/ KeepHomeRead \/ RecordWrapper \/ DeriveDone
       \/ FinishScopeRead \/ FinishScopeWrite \/ VaultDone \/ CheckDone \/ KeepHomeWrite
       \/ UNCHANGED <<pc, seen, jr, vals, todo, cur, deriv>>
  BY DEF Next, Adopts, QuarantineRead, QuarantineWrite, EditMarkdown, EditAsset, SecretsSet,
     files, locals, vars
<1> QED
  BY <1>1, <1>3, <1>4, <1>5, <1>6, <1>7, <1>8, <1>9, <1>10, <1>11, <1>12

----------------------------------------------------------------------------
(* What was replaced can be read back *)

\* An item that holds a value holds it until a person replaces it.
LEMMA ReadsStay ==
    ASSUME Typed, OnItsWay, [Next]_vars
    PROVE  \A r \in Ref : Reads(r) => Reads(r)'
<1> SUFFICES ASSUME NEW r \in Ref, Reads(r) PROVE Reads(r)'
  OBVIOUS
<1>1. r[1] \in Names /\ r[2] \in Values /\ r[2] # None
  BY NamesTyped DEF Ref
<1>2. vault \in [Names -> Values \cup {None}]
  BY DEF Typed
<1>3. ASSUME NEW v \in Values, Post(v) \/ PostLost(v) PROVE Reads(r)'
  <2>1. /\ vault[NameOf(v)] \in {None, v} /\ vault' = [vault EXCEPT ![NameOf(v)] = v]
        /\ UNCHANGED rotated
    BY <1>3 DEF Post, PostLost
  <2> QED
    BY <1>1, <1>2, <2>1 DEF Reads
<1>4. ASSUME NEW n \in Names, NEW v \in Values, SecretsSet(n, v) PROVE Reads(r)'
  <2>1. /\ vault' = [vault EXCEPT ![n] = v]
        /\ rotated' = IF vault[n] = None THEN rotated ELSE rotated \cup {n}
    BY <1>4 DEF SecretsSet
  <2> QED
    BY <1>1, <1>2, <2>1 DEF Reads
<1>5. CASE UNCHANGED <<vault, rotated>>
  BY <1>5 DEF Reads
<1>6. \/ UNCHANGED <<vault, rotated>>
      \/ \E v \in Values : Post(v) \/ PostLost(v)
      \/ \E n \in Names, v \in Values : SecretsSet(n, v)
  BY DEF Next, Adopts, Scan, WriteAdoptJournal, Rename, PostConflict, VaultFails, VaultDone, Check,
     CheckChanged, Rewrite, CheckDone, WriteDone, KeepHomeRead, KeepHomeWrite, Derive, DeriveFails,
     EnsureWrapper, RefreshManifest, RecordWrapper, DeriveDone, FinishScopeRead, FinishScopeWrite,
     RemoveJournal, Stop, QuarantineRead, QuarantineWrite, EditMarkdown, EditAsset, vars
<1> QED
  BY <1>3, <1>4, <1>5, <1>6

LEMMA ResolvedInit == Init => Resolved
<1> SUFFICES ASSUME Init PROVE Resolved
  OBVIOUS
<1>1. seen = Unseen /\ pc = "idle"
  BY DEF Init
<1>2. Found = {} /\ \A p \in Paths : seen.md[p].refs = {}
  BY <1>1 DEF Found, Unseen
<1>3. (\A p \in Paths : md[p].refs = {}) /\ \A a \in Assets : \A q \in 0..MaxOutside : deriv[a][q] = None
  BY DEF Init
<1> QED
  BY <1>1, <1>2, <1>3 DEF Resolved

\* The values that have left the queue read back under their names.
LEMMA QueueStep ==
    ASSUME Typed, OnItsWay, Resolved, [Next]_vars
    PROVE  /\ pc' = "journal" => vals' = Found'
           /\ pc' # "journal" => \A v \in Found' \ vals' : Reads(<<jr.mappings[v], v>>)'
<1> DEFINE Goal == /\ pc' = "journal" => vals' = Found'
                   /\ pc' # "journal" => \A v \in Found' \ vals' : Reads(<<jr.mappings[v], v>>)'
<1>1. Found \subseteq Values /\ \A v \in Found : <<jr.mappings[v], v>> \in Ref
  <2>1. Found \subseteq Values
    BY FoundIn
  <2>2. jr.mappings \in [Values -> Names \cup {None}]
    BY DEF Typed, Journals, GoodJournal, AdoptJournal
  <2> QED
    BY <2>1, <2>2 DEF OnItsWay, Ref
<1>2. \A r \in Ref : Reads(r) => Reads(r)'
  BY ReadsStay
<1>3. CASE Scan
  BY <1>3, ScanGood
<1>4. CASE Leave
  <2>1. seen' = Unseen /\ pc' = "idle"
    BY <1>4 DEF Leave
  <2>2. Found' = {}
    BY <2>1 DEF Found, Unseen
  <2> QED
    BY <2>1, <2>2
<1>5. CASE UNCHANGED <<seen, vals>> /\ jr'.mappings = jr.mappings /\ (pc' = "journal" => pc = "journal")
  <2>1. Found' = Found
    BY <1>5 DEF Found
  <2>2. pc' = "journal" => vals' = Found'
    BY <1>5, <2>1 DEF Resolved
  <2>3. \A v \in Found \ vals : Reads(<<jr.mappings[v], v>>)
    BY DEF Resolved
  <2>4. ASSUME NEW v \in Found \ vals PROVE Reads(<<jr.mappings[v], v>>)'
    <3>1. Reads(<<jr.mappings[v], v>>)
      BY <2>3
    <3> QED
      BY <1>1, <1>2, <1>5, <3>1 DEF Reads
  <2> QED
    BY <1>5, <2>1, <2>2, <2>4
<1>6. ASSUME NEW v \in Values, Rename(v) PROVE Goal
  <2>1. /\ UNCHANGED <<pc, seen, vals>> /\ pc = "vault" /\ cur = {v}
        /\ jr' = [jr EXCEPT !.mappings[v] = NameOf(v)]
    BY <1>6 DEF Rename
  <2>2. v \in vals
    BY <2>1 DEF OnItsWay
  <2>3. \A w \in Values \ {v} : jr'.mappings[w] = jr.mappings[w]
    BY <2>1 DEF Typed, Journals, GoodJournal, AdoptJournal
  <2>4. Found' = Found
    BY <2>1 DEF Found
  <2>5. ASSUME NEW w \in Found \ vals PROVE Reads(<<jr.mappings[w], w>>)'
    <3>1. Reads(<<jr.mappings[w], w>>)
      BY <2>1 DEF Resolved
    <3>2. jr'.mappings[w] = jr.mappings[w]
      BY <1>1, <2>2, <2>3
    <3> QED
      BY <1>1, <1>2, <3>1, <3>2 DEF Reads
  <2> QED
    BY <2>1, <2>4, <2>5
<1>7. ASSUME NEW v \in Values, Post(v) PROVE Goal
  <2>1. /\ UNCHANGED <<pc, seen, jr>> /\ pc = "vault" /\ vals' = vals \ {v}
        /\ vault' = [vault EXCEPT ![NameOf(v)] = v] /\ jr.mappings[v] = NameOf(v)
    BY <1>7 DEF Post, Posting
  <2>2. Found' = Found
    BY <2>1 DEF Found
  <2>3. ASSUME NEW w \in Found \ vals' PROVE Reads(<<jr.mappings[w], w>>)'
    <3>1. CASE w = v
      <4>1. jr.mappings[v] \in Names
        BY <1>1, <3>1 DEF Ref
      <4> QED
        BY <2>1, <3>1, <4>1 DEF Reads, Typed
    <3>2. CASE w # v
      <4>1. Reads(<<jr.mappings[w], w>>)
        BY <2>1, <2>3, <3>2 DEF Resolved
      <4> QED
        BY <1>1, <1>2, <2>1, <4>1 DEF Reads
    <3> QED
      BY <3>1, <3>2
  <2> QED
    BY <2>1, <2>2, <2>3
<1>8. CASE WriteAdoptJournal
  <2>1. UNCHANGED <<seen, vals, jr>> /\ pc = "journal" /\ pc' = "vault"
    BY <1>8 DEF WriteAdoptJournal, locals
  <2>2. Found' = Found /\ vals = Found
    BY <2>1 DEF Found, Resolved
  <2> QED
    BY <2>1, <2>2
<1>9. ASSUME NEW a \in Assets, EnsureWrapper(a) PROVE Goal
  BY <1>5, <1>9, WrapGood DEF EnsureWrapper
<1>10. \/ Scan \/ Leave \/ WriteAdoptJournal
       \/ UNCHANGED <<seen, vals, jr>> /\ (pc' = "journal" => pc = "journal")
       \/ \E v \in Values : Rename(v) \/ Post(v)
       \/ \E a \in Assets : EnsureWrapper(a)
  BY DEF Next, Adopts, PostLost, PostConflict, VaultFails, VaultDone, Check, CheckChanged, Rewrite,
     CheckDone, WriteDone, KeepHomeRead, KeepHomeWrite, Derive, DeriveFails, RefreshManifest,
     RecordWrapper, DeriveDone, FinishScopeRead, FinishScopeWrite, RemoveJournal, Stop,
     QuarantineRead, QuarantineWrite, EditMarkdown, EditAsset, SecretsSet, vars, locals
<1> QED
  BY <1>3, <1>4, <1>5, <1>6, <1>7, <1>8, <1>9, <1>10

LEMMA ResolvedStep == Typed /\ OnItsWay /\ Resolved /\ [Next]_vars => Resolved'
<1> SUFFICES ASSUME Typed, OnItsWay, Resolved, [Next]_vars PROVE Resolved'
  OBVIOUS
<1>1. \A r \in Ref : Reads(r) => Reads(r)'
  BY ReadsStay
<1>2. /\ \A p \in Paths : md[p].refs \in SUBSET Ref /\ seen.md[p].refs \in SUBSET Ref
      /\ \A a \in Assets, q \in 0..MaxOutside : deriv[a][q] # None => deriv[a][q] \in SUBSET Ref
  <2>1. \A p \in Paths : md[p] \in Markdown /\ seen.md[p] \in Markdown
    BY DEF Typed
  <2>2. \A p \in Paths : md[p].refs \in SUBSET Ref /\ seen.md[p].refs \in SUBSET Ref
    BY <2>1 DEF Markdown
  <2>3. \A a \in Assets, q \in 0..MaxOutside : deriv[a][q] \in {None} \cup SUBSET Ref
    <3> TAKE a \in Assets, q \in 0..MaxOutside
    <3>1. deriv[a] \in [0..MaxOutside -> {None} \cup SUBSET Ref]
      BY DEF Typed
    <3> QED
      BY <3>1
  <2> QED
    BY <2>2, <2>3
<1>3. \A p \in Paths : /\ \A r \in md[p].refs : Reads(r)'
                       /\ \A r \in seen.md[p].refs : Reads(r)'
  BY <1>1, <1>2 DEF Resolved
<1>4. \A a \in Assets : \A q \in 0..MaxOutside : deriv[a][q] # None => \A r \in deriv[a][q] : Reads(r)'
  BY <1>1, <1>2 DEF Resolved
<1>5. vals = {} /\ pc # "journal" => \A lits \in SUBSET Found : \A r \in Redacted(lits) : Reads(r)'
  <2> SUFFICES ASSUME vals = {}, pc # "journal", NEW lits \in SUBSET Found, NEW r \in Redacted(lits)
               PROVE  Reads(r)'
    OBVIOUS
  <2>1. r \in Ref
    BY RedactedTyped
  <2>2. PICK v \in lits : r = <<jr.mappings[v], v>>
    BY RedactedTyped
  <2>3. Reads(r)
    BY <2>2 DEF Resolved
  <2> QED
    BY <1>1, <2>1, <2>3
<1>6. \A p \in Paths : \A r \in seen'.md[p].refs : Reads(r)'
  <2>1. CASE UNCHANGED seen
    BY <1>3, <2>1
  <2>2. CASE Scan
    <3>1. seen'.md = md
      BY <2>2 DEF Scan
    <3> QED
      BY <1>3, <3>1
  <2>3. CASE Leave
    BY <2>3 DEF Leave, Unseen
  <2>4. UNCHANGED seen \/ Scan \/ Leave
    BY DEF Next, Adopts, WriteAdoptJournal, Rename, Post, PostLost, PostConflict, VaultFails,
       VaultDone, Check, CheckChanged, Rewrite, CheckDone, WriteDone, KeepHomeRead, KeepHomeWrite,
       Derive, DeriveFails, EnsureWrapper, RefreshManifest, RecordWrapper, DeriveDone,
       FinishScopeRead, FinishScopeWrite, RemoveJournal, Stop, QuarantineRead, QuarantineWrite,
       EditMarkdown, EditAsset, SecretsSet, vars, locals
  <2> QED
    BY <2>1, <2>2, <2>3, <2>4
<1>7. \A p \in Paths : \A r \in md'[p].refs : Reads(r)'
  <2>1. CASE UNCHANGED md
    BY <1>3, <2>1
  <2>2. ASSUME NEW q \in Paths, NEW lits \in SUBSET Values, EditMarkdown(q, lits)
        PROVE  \A p \in Paths : \A r \in md'[p].refs : Reads(r)'
    <3>1. md' = [md EXCEPT ![q] = [md[q] EXCEPT !.text = md[q].text + 1, !.lits = lits]]
      BY <2>2 DEF EditMarkdown
    <3>2. md \in [Paths -> Markdown] /\ md[q] \in Markdown
      BY DEF Typed
    <3>3. \A p \in Paths : md'[p].refs = md[p].refs
      BY <3>1, <3>2 DEF Markdown
    <3> QED
      BY <1>3, <3>3
  <2>3. ASSUME NEW q \in Paths, Rewrite(q)
        PROVE  \A p \in Paths : \A r \in md'[p].refs : Reads(r)'
    <3>1. /\ pc = "write"
          /\ md' = [md EXCEPT ![q] = [text |-> seen.md[q].text, lits |-> {},
                                      refs |-> seen.md[q].refs \cup Redacted(seen.md[q].lits)]]
      BY <2>3 DEF Rewrite
    <3>2. /\ md'[q].refs = seen.md[q].refs \cup Redacted(seen.md[q].lits)
          /\ \A p \in Paths \ {q} : md'[p] = md[p]
      BY <3>1 DEF Typed
    <3>3. \A r \in Redacted(seen.md[q].lits) : Reads(r)'
      BY <1>5, <3>1, FoundHas DEF OnItsWay
    <3> QED
      BY <1>3, <3>2, <3>3
  <2>4. \/ UNCHANGED md
        \/ \E q \in Paths : Rewrite(q)
        \/ \E q \in Paths, lits \in SUBSET Values : EditMarkdown(q, lits)
    BY DEF Next, Adopts, Scan, WriteAdoptJournal, Rename, Post, PostLost, PostConflict, VaultFails,
       VaultDone, Check, CheckChanged, CheckDone, WriteDone, KeepHomeRead, KeepHomeWrite,
       Derive, DeriveFails, EnsureWrapper, RefreshManifest, RecordWrapper, DeriveDone,
       FinishScopeRead, FinishScopeWrite, RemoveJournal, Stop, QuarantineRead, QuarantineWrite,
       EditAsset, SecretsSet, vars, files
  <2> QED
    BY <2>1, <2>2, <2>3, <2>4
<1>8. \A a \in Assets : \A q \in 0..MaxOutside : deriv'[a][q] # None => \A r \in deriv'[a][q] : Reads(r)'
  <2>1. CASE UNCHANGED deriv
    BY <1>4, <2>1
  <2>2. ASSUME NEW b \in Assets, Derive(b)
        PROVE  \A a \in Assets : \A q \in 0..MaxOutside : deriv'[a][q] # None => \A r \in deriv'[a][q] : Reads(r)'
    <3>1. /\ pc = "derive"
          /\ deriv' = [deriv EXCEPT ![b] = [deriv[b] EXCEPT ![seen.asset[b].rev] = Sanitized(b)]]
      BY <2>2 DEF Derive
    <3>2. \A r \in Sanitized(b) : Reads(r)'
      BY <1>5, <3>1, FoundHas DEF Sanitized, OnItsWay
    <3>3. \A a \in Assets, q \in 0..MaxOutside : deriv'[a][q] \in {deriv[a][q], Sanitized(b)}
      BY <3>1 DEF Typed
    <3> QED
      BY <1>4, <3>2, <3>3
  <2>3. UNCHANGED deriv \/ \E b \in Assets : Derive(b)
    BY DEF Next, Adopts, Scan, WriteAdoptJournal, Rename, Post, PostLost, PostConflict, VaultFails,
       VaultDone, Check, CheckChanged, Rewrite, CheckDone, WriteDone, KeepHomeRead, KeepHomeWrite,
       DeriveFails, EnsureWrapper, RefreshManifest, RecordWrapper, DeriveDone,
       FinishScopeRead, FinishScopeWrite, RemoveJournal, Stop, QuarantineRead, QuarantineWrite,
       EditMarkdown, EditAsset, SecretsSet, vars, files
  <2> QED
    BY <2>1, <2>2, <2>3
<1> QED
  BY <1>6, <1>7, <1>8, QueueStep DEF Resolved

----------------------------------------------------------------------------
(* The files of the scan, and .sevralocal without quarantine *)

\* A file is as it was scanned until it is rewritten, without its literals, or edited.
Clean ==
    \A p \in Paths : md[p].text = seen.md[p].text =>
        \/ md[p].lits = {} \/ pc = "idle"
        \/ md[p] = seen.md[p] /\ (pc \in {"journal", "vault", "check"} \/ (pc = "write" /\ p \in todo))

LEMMA CleanStep == Typed /\ OnItsWay /\ Clean /\ [Next]_vars => Clean'
<1> SUFFICES ASSUME Typed, OnItsWay, Clean, [Next]_vars PROVE Clean'
  OBVIOUS
<1>1. CASE Scan
  <2>1. seen'.md = md /\ UNCHANGED md /\ pc' = IF jr' = Fresh THEN "keep" ELSE "journal"
    BY <1>1 DEF Scan, files
  <2>2. jr' = Fresh => \A p \in Paths : md[p].lits = {}
    <3>1. jr' = Fresh => Found' = {}
      BY <1>1, ScanGood
    <3> QED
      BY <2>1, <3>1 DEF Found
  <2> QED
    BY <2>1, <2>2 DEF Clean
<1>2. CASE Leave
  BY <1>2 DEF Leave, Clean
<1>3. ASSUME NEW p \in Paths, NEW lits \in SUBSET Values, EditMarkdown(p, lits) PROVE Clean'
  <2>1. /\ md' = [md EXCEPT ![p] = [md[p] EXCEPT !.text = md[p].text + 1, !.lits = lits]]
        /\ UNCHANGED <<pc, seen, todo>>
    BY <1>3 DEF EditMarkdown, locals
  <2>2. md[p] \in Markdown /\ md[p].text \in Nat /\ seen.md[p].text \in Nat /\ seen.md[p].text <= md[p].text
    BY DEF Typed, Markdown
  <2>3. md'[p].text = md[p].text + 1 /\ \A q \in Paths \ {p} : md'[q] = md[q]
    BY <2>1, <2>2 DEF Typed, Markdown
  <2>4. md'[p].text # seen.md[p].text
    BY <2>2, <2>3
  <2> QED
    BY <2>1, <2>3, <2>4 DEF Clean
<1>4. ASSUME NEW p \in Paths, Rewrite(p) PROVE Clean'
  <2>1. /\ UNCHANGED <<pc, seen>> /\ todo' = todo \ {p} /\ pc = "write"
        /\ md' = [md EXCEPT ![p] = [text |-> seen.md[p].text, lits |-> {},
                                    refs |-> seen.md[p].refs \cup Redacted(seen.md[p].lits)]]
    BY <1>4 DEF Rewrite
  <2>2. md'[p].lits = {} /\ \A q \in Paths \ {p} : md'[q] = md[q]
    BY <2>1 DEF Typed
  <2> QED
    BY <2>1, <2>2 DEF Clean
<1>5. CASE CheckDone
  <2>1. UNCHANGED <<md, seen>> /\ pc = "check" /\ pc' = "write" /\ todo' = ByPath
    BY <1>5 DEF CheckDone, files
  <2> QED
    BY <2>1 DEF Clean, ByPath
<1>6. CASE WriteDone
  <2>1. UNCHANGED <<md, seen>> /\ pc = "write" /\ pc' = "keep" /\ todo = {}
    BY <1>6 DEF WriteDone, files, locals
  <2> QED
    BY <2>1 DEF Clean
<1>7. CASE /\ UNCHANGED <<md, seen>>
           /\ \/ UNCHANGED <<pc, todo>>
              \/ pc \in {"journal", "vault", "check"} /\ pc' \in {"journal", "vault", "check"}
              \/ pc \notin {"idle", "journal", "vault", "check", "write"}
  BY <1>7 DEF Clean
<1>8. \/ Scan \/ Leave \/ CheckDone \/ WriteDone
      \/ \E p \in Paths, lits \in SUBSET Values : EditMarkdown(p, lits)
      \/ \E p \in Paths : Rewrite(p)
      \/ /\ UNCHANGED <<md, seen>>
         /\ \/ UNCHANGED <<pc, todo>>
            \/ pc \in {"journal", "vault", "check"} /\ pc' \in {"journal", "vault", "check"}
            \/ pc \notin {"idle", "journal", "vault", "check", "write"}
  BY DEF Next, Adopts, WriteAdoptJournal, Rename, Post, PostLost, PostConflict, VaultFails, VaultDone,
     Check, CheckChanged, KeepHomeRead, KeepHomeWrite, Derive, DeriveFails,
     EnsureWrapper, RefreshManifest, RecordWrapper, DeriveDone, FinishScopeRead, FinishScopeWrite,
     RemoveJournal, Stop, QuarantineRead, QuarantineWrite, EditAsset, SecretsSet, vars, files, locals,
     Posting, Conflict
<1> QED
  BY <1>1, <1>2, <1>3, <1>4, <1>5, <1>6, <1>7, <1>8

\* While quarantine keeps apart, what either has read of .sevralocal is what is there,
\* and the originals of the scan are in it before their derivatives are made.
Alone ==
    /\ qpc = "append" => pc = "idle" /\ qscope = scope
    /\ pc \in {"kept", "unkeep"} => myscope = scope
    /\ pc \in {"derive", "wrap", "record", "refresh"} => ByAsset \subseteq scope

\* No step takes an original out of .sevralocal, nor a file but one that the scan has seen.
LEMMA ScopeStep ==
    ASSUME ~RaceScope, Typed, OnItsWay, Alone, [Next]_vars
    PROVE  \/ scope \subseteq scope'
           \/ pc = "unkeep" /\ scope' = scope \ jr.paths /\ jr.paths \subseteq Paths
<1>1. CASE KeepHomeWrite
  BY <1>1 DEF KeepHomeWrite, Alone
<1>2. CASE FinishScopeWrite
  <2>1. jr.paths \subseteq Paths
    BY DEF Typed, Journals, GoodJournal, AdoptJournal
  <2> QED
    BY <1>2, <2>1 DEF FinishScopeWrite, Alone
<1>3. CASE QuarantineWrite
  BY <1>3 DEF QuarantineWrite, Alone
<1>4. UNCHANGED scope \/ KeepHomeWrite \/ FinishScopeWrite \/ QuarantineWrite
  BY DEF Next, Adopts, Scan, WriteAdoptJournal, Rename, Post, PostLost, PostConflict, VaultFails,
     VaultDone, Check, CheckChanged, Rewrite, CheckDone, WriteDone, KeepHomeRead, Derive, DeriveFails,
     EnsureWrapper, RefreshManifest, RecordWrapper, DeriveDone, FinishScopeRead,
     RemoveJournal, Stop, QuarantineRead, EditMarkdown, EditAsset, SecretsSet, vars
<1> QED
  BY <1>1, <1>2, <1>3, <1>4

LEMMA AloneStep ==
    ASSUME ~RaceScope, Typed, OnItsWay, Alone, [Next]_vars
    PROVE  Alone'
<1>1. scope \subseteq scope' \/ (pc = "unkeep" /\ scope' = scope \ jr.paths /\ jr.paths \subseteq Paths)
  BY ScopeStep
<1>2. CASE Scan
  <2>1. qpc = "idle" /\ UNCHANGED qpc /\ pc' \in {"keep", "journal"}
    BY <1>2 DEF Scan, quarantine
  <2> QED
    BY <2>1 DEF Alone
<1>3. CASE Leave /\ UNCHANGED <<scope, quarantine>> /\ pc # "idle"
  BY <1>3 DEF Leave, Alone, quarantine
<1>4. CASE KeepHomeRead \/ FinishScopeRead
  <2>1. UNCHANGED qpc /\ pc # "idle" /\ myscope' = scope' /\ pc' \in {"kept", "unkeep"}
    BY <1>4 DEF KeepHomeRead, FinishScopeRead, quarantine
  <2> QED
    BY <2>1 DEF Alone
<1>5. CASE KeepHomeWrite
  <2>1. /\ UNCHANGED <<qpc, seen, jr>> /\ pc = "kept" /\ pc' = "derive"
        /\ scope' = IF JournaledAssets \subseteq myscope THEN scope ELSE myscope \cup JournaledAssets
    BY <1>5 DEF KeepHomeWrite, quarantine
  <2>2. JournaledAssets \subseteq scope'
    BY <2>1 DEF Alone
  <2>3. ByAsset' = ByAsset /\ ByAsset \subseteq JournaledAssets
    BY <2>1 DEF ByAsset, JournaledAssets, OnItsWay
  <2> QED
    BY <2>1, <2>2, <2>3 DEF Alone
<1>6. CASE FinishScopeWrite
  <2>1. UNCHANGED qpc /\ pc = "unkeep" /\ pc' = "remove"
    BY <1>6 DEF FinishScopeWrite, quarantine
  <2> QED
    BY <2>1 DEF Alone
<1>7. CASE QuarantineRead
  <2>1. pc = "idle" /\ qscope' = scope /\ UNCHANGED <<scope, pc, seen, myscope>>
    BY <1>7 DEF QuarantineRead, locals
  <2> QED
    BY <2>1 DEF Alone
<1>8. CASE QuarantineWrite
  <2>1. qpc = "append" /\ qpc' = "idle" /\ UNCHANGED pc
    BY <1>8 DEF QuarantineWrite
  <2> QED
    BY <2>1 DEF Alone
<1>9. CASE /\ UNCHANGED <<scope, quarantine, seen, myscope>>
           /\ \/ UNCHANGED pc
              \/ /\ pc # "idle" /\ pc' \notin {"kept", "unkeep"}
                 /\ pc' \in {"derive", "wrap", "record", "refresh"} => pc \in {"derive", "wrap", "record", "refresh"}
  <2>1. ByAsset' = ByAsset
    BY <1>9 DEF ByAsset
  <2> QED
    BY <1>9, <2>1 DEF Alone, quarantine
<1>10. \/ Scan \/ KeepHomeRead \/ FinishScopeRead \/ KeepHomeWrite \/ FinishScopeWrite
       \/ QuarantineRead \/ QuarantineWrite
       \/ Leave /\ UNCHANGED <<scope, quarantine>> /\ pc # "idle"
       \/ /\ UNCHANGED <<scope, quarantine, seen, myscope>>
          /\ \/ UNCHANGED pc
             \/ /\ pc # "idle" /\ pc' \notin {"kept", "unkeep"}
                /\ pc' \in {"derive", "wrap", "record", "refresh"} => pc \in {"derive", "wrap", "record", "refresh"}
  BY DEF Next, Adopts, WriteAdoptJournal, Rename, Post, PostLost, PostConflict, VaultFails,
     VaultDone, Check, CheckChanged, Rewrite, CheckDone, WriteDone, Derive, DeriveFails,
     EnsureWrapper, RefreshManifest, RecordWrapper, DeriveDone,
     RemoveJournal, Stop, EditMarkdown, EditAsset, SecretsSet, vars, files, locals,
     Posting, Conflict, Exhausted, Occupied
<1> QED
  BY <1>2, <1>3, <1>4, <1>5, <1>6, <1>7, <1>8, <1>9, <1>10

LEMMA HomeStep ==
    ASSUME ~RaceScope, Typed, OnItsWay, Alone, OriginalsStayHome, [Next]_vars
    PROVE  OriginalsStayHome'
<1>1. \A a \in Assets : a \in scope => a \in scope'
  BY ScopeStep, NamesTyped
<1>2. \A a \in Assets, r \in 0..MaxOutside : deriv[a][r] # None => deriv'[a][r] # None
  <2>1. ASSUME NEW b \in Assets, Derive(b)
        PROVE  \A a \in Assets, r \in 0..MaxOutside : deriv[a][r] # None => deriv'[a][r] # None
    <3>1. deriv' = [deriv EXCEPT ![b] = [deriv[b] EXCEPT ![seen.asset[b].rev] = Sanitized(b)]]
      BY <2>1 DEF Derive
    <3>2. Sanitized(b) # None
      BY RedactedTyped, FoundHas, NamesTyped DEF Sanitized
    <3> QED
      BY <3>1, <3>2 DEF Typed
  <2>2. UNCHANGED deriv \/ \E b \in Assets : Derive(b)
    BY DEF Next, Adopts, Scan, WriteAdoptJournal, Rename, Post, PostLost, PostConflict, VaultFails,
       VaultDone, Check, CheckChanged, Rewrite, CheckDone, WriteDone, KeepHomeRead, KeepHomeWrite,
       DeriveFails, EnsureWrapper, RefreshManifest, RecordWrapper, DeriveDone,
       FinishScopeRead, FinishScopeWrite, RemoveJournal, Stop, QuarantineRead, QuarantineWrite,
       EditMarkdown, EditAsset, SecretsSet, vars, files
  <2> QED
    BY <2>1, <2>2
<1>3. \A a \in Assets : declared'[a].superseded =>
         declared[a].superseded \/ (a \in scope /\ \E r \in 0..MaxOutside : deriv[a][r] # None)
  <2>1. ASSUME NEW b \in Assets, RefreshManifest(b)
        PROVE  \A a \in Assets : declared'[a].superseded =>
                 declared[a].superseded \/ (a \in scope /\ \E r \in 0..MaxOutside : deriv[a][r] # None)
    <3>1. /\ pc = "refresh" /\ cur = {b}
          /\ declared' = [declared EXCEPT ![b] = [declared[b] EXCEPT !.superseded = TRUE]]
      BY <2>1 DEF RefreshManifest
    <3>2. b \in ByAsset /\ Derivative(b) # None
      BY <3>1 DEF OnItsWay
    <3>3. b \in scope /\ seen.asset[b].rev \in 0..MaxOutside
      BY <3>1, <3>2 DEF Alone, Typed, Bytes
    <3>4. \A a \in Assets \ {b} : declared'[a] = declared[a]
      BY <3>1 DEF Typed
    <3> QED
      BY <3>2, <3>3, <3>4 DEF Derivative
  <2>2. ASSUME NEW b \in Assets, NEW lits \in SUBSET Values, NEW declare \in BOOLEAN,
               EditAsset(b, lits, declare)
        PROVE  \A a \in Assets : declared'[a].superseded => declared[a].superseded
    <3>1. declared' = declared \/ declared' = [declared EXCEPT ![b] = [@ EXCEPT !.rev = asset'[b].rev]]
      BY <2>2 DEF EditAsset
    <3>2. declared \in [Assets -> [rev : 0..MaxOutside, superseded : BOOLEAN]]
      BY DEF Typed
    <3> QED
      BY <3>1, <3>2
  <2>3. \/ UNCHANGED declared
        \/ \E b \in Assets : RefreshManifest(b)
        \/ \E b \in Assets, lits \in SUBSET Values, declare \in BOOLEAN : EditAsset(b, lits, declare)
    BY DEF Next, Adopts, Scan, WriteAdoptJournal, Rename, Post, PostLost, PostConflict, VaultFails,
       VaultDone, Check, CheckChanged, Rewrite, CheckDone, WriteDone, KeepHomeRead, KeepHomeWrite,
       Derive, DeriveFails, EnsureWrapper, RecordWrapper, DeriveDone,
       FinishScopeRead, FinishScopeWrite, RemoveJournal, Stop, QuarantineRead, QuarantineWrite,
       EditMarkdown, SecretsSet, vars, files
  <2> QED
    BY <2>1, <2>2, <2>3
<1> QED
  BY <1>1, <1>2, <1>3 DEF OriginalsStayHome

\* With no edit between the comparison of a file and its rewriting, what was compared is
\* what is rewritten.
Unmoved ==
    /\ pc = "check" => \A p \in ByPath \ todo : md[p] = seen.md[p]
    /\ pc = "write" => \A p \in todo : md[p] = seen.md[p]

LEMMA UnmovedStep ==
    ASSUME ~TightEdits, Typed, OnItsWay, Unmoved, [Next]_vars
    PROVE  Unmoved'
<1>1. ASSUME NEW p \in Paths, NEW lits \in SUBSET Values, EditMarkdown(p, lits) PROVE Unmoved'
  BY <1>1 DEF EditMarkdown, MayEdit, Unmoved
<1>2. ASSUME NEW p \in Paths, Check(p) PROVE Unmoved'
  <2>1. /\ UNCHANGED <<md, seen, pc>> /\ pc = "check" /\ todo' = todo \ {p} /\ md[p] = seen.md[p]
    BY <1>2 DEF Check, files
  <2> QED
    BY <2>1 DEF Unmoved, ByPath
<1>3. CASE CheckDone
  <2>1. UNCHANGED <<md, seen>> /\ pc = "check" /\ pc' = "write" /\ todo' = ByPath /\ todo = {}
    BY <1>3 DEF CheckDone, files
  <2> QED
    BY <2>1 DEF Unmoved
<1>4. ASSUME NEW p \in Paths, Rewrite(p) PROVE Unmoved'
  <2>1. /\ UNCHANGED <<seen, pc>> /\ pc = "write" /\ todo' = todo \ {p} /\ \A q \in Paths \ {p} : md'[q] = md[q]
    BY <1>4 DEF Rewrite, Typed
  <2>2. todo \subseteq Paths
    BY <2>1 DEF OnItsWay, ByPath
  <2> QED
    BY <2>1, <2>2 DEF Unmoved
<1>5. CASE VaultDone
  <2>1. UNCHANGED <<md, seen>> /\ pc' = "check" /\ todo' = ByPath
    BY <1>5 DEF VaultDone, files
  <2> QED
    BY <2>1 DEF Unmoved, ByPath
<1>6. CASE UNCHANGED <<md, seen, pc, todo>> \/ pc' \notin {"check", "write"}
  BY <1>6 DEF Unmoved, ByPath
<1>7. \/ UNCHANGED <<md, seen, pc, todo>> \/ pc' \notin {"check", "write"}
      \/ VaultDone \/ CheckDone
      \/ \E p \in Paths : Check(p) \/ Rewrite(p)
      \/ \E p \in Paths, lits \in SUBSET Values : EditMarkdown(p, lits)
  BY DEF Next, Adopts, Scan, WriteAdoptJournal, Rename, Post, PostLost, PostConflict, VaultFails,
     CheckChanged, WriteDone, KeepHomeRead, KeepHomeWrite, Derive, DeriveFails,
     EnsureWrapper, RefreshManifest, RecordWrapper, DeriveDone, FinishScopeRead, FinishScopeWrite,
     RemoveJournal, Stop, QuarantineRead, QuarantineWrite, EditAsset, SecretsSet, vars, files, locals,
     Leave, Posting, Conflict
<1> QED
  BY <1>1, <1>2, <1>3, <1>4, <1>5, <1>6, <1>7

----------------------------------------------------------------------------
(* The theorems *)

IInv == Typed /\ OnItsWay /\ Resolved /\ Clean

\* The invariant of adopt holds for any files, values and bounds, whatever races with it.
THEOREM Invariant == Spec => []IInv
<1>1. Init => IInv
  <2>1. Init => Clean
    BY DEF Init, Clean
  <2> QED
    BY <2>1, TypeInit, WayInit, ResolvedInit DEF IInv
<1>2. IInv /\ [Next]_vars => IInv'
  BY TypeStep, WayStep, ResolvedStep, CleanStep DEF IInv
<1> QED
  BY <1>1, <1>2, PTL DEF Spec

\* Every variable has its type, no two values of a journal share a name, and the journal
\* tells of no wrapper that is not there (load_adopt_journal).
THEOREM TypeCorrect == Spec => []TypeOK
<1>1. IInv => TypeOK
  BY DEF IInv, Typed, Journals, GoodJournal, TypeOK
<1> QED
  BY <1>1, Invariant, PTL

\* Every literal that adopt has replaced, in markdown or in a derivative, reads back: the
\* item that its reference names holds it, or a person has replaced that item since.
THEOREM AdoptedValuesReadBack == Spec => []ReferencesResolve
<1>1. IInv => ReferencesResolve
  <2> SUFFICES ASSUME IInv, NEW r \in References PROVE Reads(r)
    BY DEF ReferencesResolve, Reads
  <2>1. CASE \E p \in Paths : r \in md[p].refs
    BY <2>1 DEF IInv, Resolved
  <2>2. CASE \E a \in Assets : r \in Derivatives(a)
    BY <2>2 DEF IInv, Resolved, Derivatives
  <2> QED
    BY <2>1, <2>2 DEF References
<1> QED
  BY <1>1, Invariant, PTL

\* Apart from quarantine, an original whose credentials a derivative has superseded is kept
\* home at every step, and the derivative is there.
THEOREM OriginalsAreKeptHome == ASSUME ~RaceScope PROVE Spec => []OriginalsStayHome
<1>1. Init => Alone /\ OriginalsStayHome
  BY DEF Init, Alone, OriginalsStayHome
<1>2. IInv /\ Alone /\ OriginalsStayHome /\ [Next]_vars => Alone' /\ OriginalsStayHome'
  BY AloneStep, HomeStep DEF IInv
<1> QED
  BY <1>1, <1>2, Invariant, PTL DEF Spec

\* Apart from quarantine, a markdown file leaves .sevralocal only without credentials, unless
\* it was edited after the scan.
THEOREM OnlyCleanFilesRideAgain == ASSUME ~RaceScope PROVE Spec => UnquarantinedClean
<1>1. Init => Alone
  BY DEF Init, Alone
<1>2. IInv /\ Alone /\ [Next]_vars => Alone'
  BY AloneStep DEF IInv
<1>3. IInv /\ Alone /\ [Next]_vars
        => [\A p \in Paths : p \in scope /\ p \notin scope' =>
              md[p].lits = {} \/ md[p].text # seen.md[p].text]_vars
  <2> SUFFICES ASSUME IInv, Alone, [Next]_vars, NEW p \in Paths, p \in scope, p \notin scope'
               PROVE  md[p].lits = {} \/ md[p].text # seen.md[p].text
    OBVIOUS
  <2>1. pc = "unkeep"
    BY ScopeStep DEF IInv
  <2> QED
    BY <2>1 DEF IInv, Clean
<1> QED
  BY <1>1, <1>2, <1>3, Invariant, PTL DEF Spec, UnquarantinedClean

\* With no edit between a file's last comparison and its rewriting, adopt overwrites nobody's
\* words: it takes literals out of a file only where it puts references to them.
THEOREM AdoptSparesEdits == ASSUME ~TightEdits PROVE Spec => EditsSurvive
<1> DEFINE Spared(p) ==
      \/ md'[p].text = md[p].text + 1
      \/ /\ md'[p].text = md[p].text
         /\ md[p].refs \subseteq md'[p].refs
         /\ md[p].lits \ md'[p].lits \subseteq {r[2] : r \in md'[p].refs}
<1>1. Init => Unmoved
  BY DEF Init, Unmoved
<1>2. IInv /\ Unmoved /\ [Next]_vars => Unmoved'
  BY UnmovedStep DEF IInv
<1>3. IInv /\ Unmoved /\ [Next]_vars => [\A p \in Paths : md'[p] # md[p] => Spared(p)]_vars
  <2> SUFFICES ASSUME IInv, Unmoved, [Next]_vars, NEW p \in Paths, md'[p] # md[p]
               PROVE  Spared(p)
    OBVIOUS
  <2>1. ASSUME NEW q \in Paths, NEW lits \in SUBSET Values, EditMarkdown(q, lits) PROVE Spared(p)
    <3>1. /\ md \in [Paths -> Markdown]
          /\ md' = [md EXCEPT ![q] = [md[q] EXCEPT !.text = md[q].text + 1, !.lits = lits]]
      BY <2>1 DEF EditMarkdown, IInv, Typed
    <3>2. p = q
      BY <3>1
    <3>3. md'[p].text = md[p].text + 1
      BY <3>1, <3>2 DEF Markdown
    <3> QED
      BY <3>3
  <2>2. ASSUME NEW q \in Paths, Rewrite(q) PROVE Spared(p)
    <3>1. /\ md \in [Paths -> Markdown] /\ pc = "write" /\ q \in todo
          /\ md' = [md EXCEPT ![q] = [text |-> seen.md[q].text, lits |-> {},
                                      refs |-> seen.md[q].refs \cup Redacted(seen.md[q].lits)]]
      BY <2>2 DEF Rewrite, IInv, Typed
    <3>2. p = q
      BY <3>1
    <3>3. md[p] = seen.md[p]
      BY <3>1, <3>2 DEF Unmoved
    <3>4. /\ md'[p].text = md[p].text
          /\ md'[p].lits = {} /\ md'[p].refs = md[p].refs \cup Redacted(md[p].lits)
      BY <3>1, <3>2, <3>3
    <3>5. \A v \in md[p].lits : \E r \in Redacted(md[p].lits) : r[2] = v
      <4> TAKE v \in md[p].lits
      <4>1. <<jr.mappings[v], v>> \in Redacted(md[p].lits)
        BY DEF Redacted
      <4>2. <<jr.mappings[v], v>>[2] = v
        OBVIOUS
      <4> QED
        BY <4>1, <4>2
    <3> QED
      BY <3>4, <3>5
  <2>3. \/ UNCHANGED md
        \/ \E q \in Paths : Rewrite(q)
        \/ \E q \in Paths, lits \in SUBSET Values : EditMarkdown(q, lits)
    BY DEF Next, Adopts, Scan, WriteAdoptJournal, Rename, Post, PostLost, PostConflict, VaultFails,
       VaultDone, Check, CheckChanged, CheckDone, WriteDone, KeepHomeRead, KeepHomeWrite,
       Derive, DeriveFails, EnsureWrapper, RefreshManifest, RecordWrapper, DeriveDone,
       FinishScopeRead, FinishScopeWrite, RemoveJournal, Stop, QuarantineRead, QuarantineWrite,
       EditAsset, SecretsSet, vars, files
  <2> QED
    BY <2>1, <2>2, <2>3
<1> QED
  BY <1>1, <1>2, <1>3, Invariant, PTL DEF Spec, EditsSurvive

=============================================================================
