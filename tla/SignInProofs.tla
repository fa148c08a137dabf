---------------------------- MODULE SignInProofs ----------------------------
(* Proofs about SignIn: sessions of the account are accounted for, no logout  *)
(* claims what it has not seen, and the user's own keys are never revoked.    *)
EXTENDS SignIn, FiniteSetTheorems, TLAPS

----------------------------------------------------------------------------
(* The inductive invariant *)

\* A command that holds what it will store, and one that is about to overwrite the file.
Holder(c) == pc[c] \in {"displace", "save"}
Armed == {c \in Procs : pc[c] \in {"save", "remove"}}
Busy == {c \in Procs : Running(c)}

\* Sessions were minted by the hub; the file says which keys are.
KeysKnown ==
    /\ file.key \in used \cup UserKeys \cup {NoKey}
    /\ file.own <=> file.key \in Sessions
    /\ \A c \in Procs :
         /\ auth[c] \in Sessions => auth[c] \in used
         /\ held[c] \in used \cup UserKeys \cup {NoKey}
         /\ pc[c] = "probe" => held[c] \in UserKeys
         /\ Holder(c) => held[c] # NoKey
         /\ Holder(c) /\ held[c] \in Sessions => auth[c] = held[c]

\* A command is about to overwrite a session that is live.
Exposed == Armed # {} /\ Stored \cap live # {}

\* The commands that overlap have been counted, and each can lose one session.
Balanced ==
    /\ OrphansAccounted
    /\ Busy # {} => Cardinality(Orphans) + Cardinality(Busy) <= lost + 1
    /\ Exposed => Cardinality(Orphans) + Cardinality(Busy) <= lost

\* Nothing has gone wrong and no two commands have met: the stored session is live, or
\* about to be replaced by one that is.
Calm ==
    lost = 0 =>
        /\ file.own => file.key \in live \/ Armed # {}
        /\ \A c \in Procs :
             /\ Holder(c) /\ held[c] \in Sessions => held[c] \in live /\ held[c] # file.key
             /\ pc[c] = "ask" => auth[c] \notin Sessions

LoginInv == TypeOK /\ KeysKnown /\ UserKeysSpared /\ LogoutTells /\ Balanced /\ Calm

----------------------------------------------------------------------------
(* Types and keys *)

LEMMA LoginTypeInit == SignInAssumption /\ Init => TypeOK
  BY DEF SignInAssumption, Init, TypeOK, NoFile, FileConfig, Keys, Steps

\* What going wrong counts, and ending a command leaves.
LEMMA MishapType ==
    ASSUME TypeOK, NEW n \in 0..1, Mishap(n)
    PROVE  /\ spent' \in [logins : Nat, mishaps : Nat] /\ lost' \in Nat /\ lost' = lost + n
           /\ spent'.logins = spent.logins
  BY DEF TypeOK, Mishap

LEMMA QuitType ==
    ASSUME TypeOK, NEW c \in Procs, Quit(c)
    PROVE  /\ auth' \in [Procs -> {"none", "pending", "approved", "denied"} \cup Sessions]
           /\ pc' \in [Procs -> Steps] /\ held' \in [Procs -> Keys \cup {NoKey}]
           /\ UNCHANGED <<browser, tries, sure>>
           /\ pc'[c] = "idle" /\ held'[c] = NoKey /\ auth'[c] = "none"
           /\ \A d \in Procs \ {c} : pc'[d] = pc[d] /\ held'[d] = held[d] /\ auth'[d] = auth[d]
  BY DEF TypeOK, Quit, Go, Steps

LEMMA AgainType ==
    ASSUME SignInAssumption, TypeOK, NEW c \in Procs, pc[c] = "ask",
           NEW a \in {"none", "pending", "approved", "denied"} \cup Sessions, Again(c, a)
    PROVE  /\ auth' \in [Procs -> {"none", "pending", "approved", "denied"} \cup Sessions]
           /\ pc' \in [Procs -> Steps] /\ held' \in [Procs -> Keys \cup {NoKey}]
           /\ tries' \in [Procs -> 0..(Attempts - 1)] /\ UNCHANGED <<browser, sure>>
           /\ \/ pc'[c] = "idle" /\ held'[c] = NoKey /\ auth'[c] = "none"
              \/ UNCHANGED <<pc, held>> /\ auth'[c] = a
           /\ \A d \in Procs \ {c} : pc'[d] = pc[d] /\ held'[d] = held[d] /\ auth'[d] = auth[d]
<1>1. CASE browser[c] /\ tries[c] + 1 = Attempts
  BY <1>1, QuitType DEF Again, TypeOK
<1>2. CASE ~(browser[c] /\ tries[c] + 1 = Attempts)
  <2>1. tries' = [tries EXCEPT ![c] = IF browser[c] THEN @ + 1 ELSE @]
    BY <1>2 DEF Again
  <2>2. (IF browser[c] THEN tries[c] + 1 ELSE tries[c]) \in 0..(Attempts - 1)
    BY <1>2 DEF TypeOK, SignInAssumption
  <2> QED
    BY <1>2, <2>1, <2>2 DEF Again, TypeOK
<1> QED
  BY <1>1, <1>2

LEMMA LoginTypeStep == SignInAssumption /\ TypeOK /\ [Next]_vars => TypeOK'
<1> SUFFICES ASSUME SignInAssumption, TypeOK, [Next]_vars PROVE TypeOK'
  OBVIOUS
<1>1. CASE UNCHANGED vars
  BY <1>1 DEF vars, cmd, TypeOK
<1>2. CASE Tamper
  <2>1. file' \in FileConfig
    BY <1>2 DEF Tamper, TypeOK, FileConfig
  <2>2. Mishap(0) /\ UNCHANGED <<live, used, auth, cmd>>
    BY <1>2 DEF Tamper
  <2> QED
    BY <2>1, <2>2, MishapType DEF cmd, TypeOK
<1>3. ASSUME NEW c \in Procs, NEW step \in Steps, Begin(c, step)
      PROVE  /\ spent' \in [logins : Nat, mishaps : Nat] /\ lost' \in Nat
             /\ pc' \in [Procs -> Steps] /\ sure' \in [Procs -> BOOLEAN]
             /\ tries' \in [Procs -> 0..(Attempts - 1)]
  <2>1. Cardinality(Others(c)) \in Nat
    BY FS_Subset, FS_CardinalityType DEF SignInAssumption, Others
  <2> QED
    BY <1>3, <2>1 DEF Begin, Go, TypeOK, SignInAssumption
<1>4. ASSUME NEW c \in Procs, NEW k \in UserKeys, BeginKeyLogin(c, k) PROVE TypeOK'
  BY <1>3, <1>4 DEF BeginKeyLogin, TypeOK, Keys, Steps
<1>5. ASSUME NEW c \in Procs, NEW b \in BOOLEAN, BeginLogin(c, b) PROVE TypeOK'
  BY <1>3, <1>5 DEF BeginLogin, TypeOK, Steps
<1>6. ASSUME NEW c \in Procs, BeginLogout(c) PROVE TypeOK'
  BY <1>3, <1>6 DEF BeginLogout, TypeOK, Steps
<1>7. ASSUME NEW c \in Procs, Probe(c) \/ StartFlow(c) \/ NoBrowser(c) \/ Callback(c) \/ GiveUp(c)
      PROVE  TypeOK'
  BY <1>7, QuitType DEF Probe, StartFlow, NoBrowser, Callback, GiveUp, Go, TypeOK, Steps
<1>8. ASSUME NEW c \in Procs, NEW s \in Sessions, Granted(c, s) PROVE TypeOK'
  BY <1>8 DEF Granted, Mints, Obtained, Go, TypeOK, Steps, Keys
<1>9. ASSUME NEW c \in Procs, Redelivered(c) \/ Refused(c) PROVE TypeOK'
  BY <1>9, QuitType DEF Redelivered, Refused, Obtained, Go, TypeOK, Steps, Keys
<1>10. ASSUME NEW c \in Procs, Displace(c) \/ DisplaceLost(c) PROVE TypeOK'
  BY <1>10, MishapType DEF Displace, DisplaceLost, RevokeStored, Go, TypeOK, Steps
<1>11. ASSUME NEW c \in Procs, Save(c) \/ SaveFails(c) PROVE TypeOK'
  <2>1. Entry(c) \in FileConfig
    BY DEF Entry, FileConfig, TypeOK, Keys
  <2> QED
    BY <1>11, <2>1, QuitType, MishapType DEF Save, SaveFails, TypeOK
<1>12. ASSUME NEW c \in Procs, Revoke(c) \/ RevokeLost(c) PROVE TypeOK'
  <2>1. file.key \in Keys \cup {NoKey} /\ file.own \in BOOLEAN /\ file.safe \in BOOLEAN
    BY DEF TypeOK, FileConfig
  <2> QED
    <3>1. sure' \in [Procs -> BOOLEAN]
      <4>1. (file.own => file.safe) \in BOOLEAN
        OBVIOUS
      <4> QED
        BY <1>12, <4>1 DEF Revoke, RevokeLost, TypeOK
    <3>2. /\ lost' \in Nat /\ spent' \in [logins : Nat, mishaps : Nat] /\ live' \subseteq live
      BY <1>12, MishapType DEF Revoke, RevokeLost, RevokeStored, TypeOK
    <3>3. pc' \in [Procs -> Steps] /\ held' \in [Procs -> Keys \cup {NoKey}]
      BY <1>12, <2>1 DEF Revoke, RevokeLost, Go, TypeOK, Steps
    <3> QED
      BY <1>12, <3>1, <3>2, <3>3 DEF Revoke, RevokeLost, TypeOK
<1>13. ASSUME NEW c \in Procs, Remove(c) \/ RemoveFails(c) \/ Crash(c) PROVE TypeOK'
  <2>1. NoFile \in FileConfig
    BY DEF NoFile, FileConfig
  <2> QED
    BY <1>13, <2>1, QuitType, MishapType DEF Remove, RemoveFails, Crash, TypeOK
<1>14. ASSUME NEW c \in Procs, RequestLost(c) PROVE TypeOK'
  <2>1. pc[c] = "ask" /\ Again(c, auth[c])
        /\ auth[c] \in {"none", "pending", "approved", "denied"} \cup Sessions
    BY <1>14 DEF RequestLost, TypeOK
  <2> QED
    <3>1. Mishap(0) /\ UNCHANGED <<file, live, used>>
      BY <1>14 DEF RequestLost
    <3>2. /\ auth' \in [Procs -> {"none", "pending", "approved", "denied"} \cup Sessions]
           /\ pc' \in [Procs -> Steps] /\ held' \in [Procs -> Keys \cup {NoKey}]
           /\ tries' \in [Procs -> 0..(Attempts - 1)] /\ UNCHANGED <<browser, sure>>
      BY <2>1, AgainType
    <3>3. lost' \in Nat /\ spent' \in [logins : Nat, mishaps : Nat]
      BY <3>1, MishapType
    <3> QED
      BY <3>1, <3>2, <3>3 DEF TypeOK
<1>15. ASSUME NEW c \in Procs, NEW s \in Sessions, AnswerLost(c, s) PROVE TypeOK'
  <2>1. pc[c] = "ask" /\ Mishap(1) /\ Again(c, s) /\ UNCHANGED file
    BY <1>15 DEF AnswerLost
  <2>2. used' \subseteq Sessions /\ live' \subseteq used' \cup UserKeys
    BY <1>15 DEF AnswerLost, Mints, TypeOK
  <2>3. /\ auth' \in [Procs -> {"none", "pending", "approved", "denied"} \cup Sessions]
         /\ pc' \in [Procs -> Steps] /\ held' \in [Procs -> Keys \cup {NoKey}]
         /\ tries' \in [Procs -> 0..(Attempts - 1)] /\ UNCHANGED <<browser, sure>>
    BY <2>1, AgainType
  <2>4. lost' \in Nat /\ spent' \in [logins : Nat, mishaps : Nat]
    BY <2>1, MishapType
  <2> QED
    BY <2>1, <2>2, <2>3, <2>4 DEF TypeOK
<1>16. ASSUME NEW c \in Procs, NEW answer \in {"approved", "denied"}, Decide(c, answer) PROVE TypeOK'
  BY <1>16 DEF Decide, cmd, TypeOK
<1> QED
  BY <1>1, <1>2, <1>4, <1>5, <1>6, <1>7, <1>8, <1>9, <1>10, <1>11, <1>12, <1>13, <1>14, <1>15, <1>16
  DEF Next, Command, Faults

----------------------------------------------------------------------------
(* Keys *)

LEMMA KeysInit == SignInAssumption /\ Init => KeysKnown /\ UserKeysSpared /\ LogoutTells
  BY DEF SignInAssumption, Init, NoFile, KeysKnown, Holder, UserKeysSpared, LogoutTells

Truths == KeysKnown /\ UserKeysSpared /\ LogoutTells

\* What the sign-in stores is its own exactly if the hub minted it.
LEMMA EntryKnown ==
    ASSUME SignInAssumption, TypeOK, KeysKnown, NEW c \in Procs, pc[c] = "save"
    PROVE  /\ Entry(c).key \in used \cup UserKeys /\ Entry(c).key = held[c]
           /\ Entry(c).own <=> held[c] \in Sessions
  BY DEF SignInAssumption, TypeOK, KeysKnown, Holder, Entry, Keys

LEMMA KeysStep == SignInAssumption /\ TypeOK /\ Truths /\ TypeOK' /\ [Next]_vars => Truths'
<1> SUFFICES ASSUME SignInAssumption, TypeOK, Truths, TypeOK', [Next]_vars PROVE Truths'
  OBVIOUS
<1> USE DEF Truths, KeysKnown, UserKeysSpared, LogoutTells, Holder, Open
<1>1. CASE UNCHANGED vars
  BY <1>1 DEF vars, cmd
<1>2. CASE Tamper
  <2>1. file'.key = file.key /\ file'.own = file.own
    BY <1>2 DEF Tamper, TypeOK, FileConfig
  <2> QED
    BY <1>2, <2>1 DEF Tamper, cmd
<1>3. ASSUME NEW c \in Procs, NEW k \in UserKeys, BeginKeyLogin(c, k) PROVE Truths'
  BY <1>3 DEF BeginKeyLogin, Begin, Go, TypeOK
<1>4. ASSUME NEW c \in Procs, NEW b \in BOOLEAN, BeginLogin(c, b) \/ BeginLogout(c) PROVE Truths'
  BY <1>4 DEF BeginLogin, BeginLogout, Begin, Go, TypeOK
<1>5. ASSUME NEW c \in Procs, Probe(c) PROVE Truths'
  BY <1>5, QuitType DEF Probe, Go, TypeOK, SignInAssumption
<1>6. ASSUME NEW c \in Procs, StartFlow(c) \/ NoBrowser(c) \/ Callback(c) PROVE Truths'
  BY <1>6 DEF StartFlow, NoBrowser, Callback, Go, TypeOK, SignInAssumption
<1>7. ASSUME NEW c \in Procs, GiveUp(c) \/ Refused(c) \/ RemoveFails(c) \/ Crash(c) PROVE Truths'
  BY <1>7, QuitType DEF GiveUp, Refused, RemoveFails, Crash, TypeOK, SignInAssumption
<1>8. ASSUME NEW c \in Procs, NEW s \in Sessions, Granted(c, s) PROVE Truths'
  BY <1>8 DEF Granted, Mints, Obtained, Go, TypeOK, SignInAssumption
<1>9. ASSUME NEW c \in Procs, Redelivered(c) PROVE Truths'
  BY <1>9 DEF Redelivered, Obtained, Go, TypeOK, SignInAssumption
<1>10. ASSUME NEW c \in Procs, Displace(c) \/ DisplaceLost(c) PROVE Truths'
  BY <1>10 DEF Displace, DisplaceLost, RevokeStored, Go, TypeOK, SignInAssumption
<1>11. ASSUME NEW c \in Procs, Save(c) \/ SaveFails(c) PROVE Truths'
  BY <1>11, EntryKnown, QuitType DEF Save, SaveFails, TypeOK, SignInAssumption
<1>12. ASSUME NEW c \in Procs, Revoke(c) \/ RevokeLost(c) PROVE Truths'
  BY <1>12 DEF Revoke, RevokeLost, RevokeStored, Go, TypeOK, SignInAssumption
<1>13. ASSUME NEW c \in Procs, Remove(c) PROVE Truths'
  BY <1>13, QuitType DEF Remove, NoFile, TypeOK, SignInAssumption
<1>14. ASSUME NEW c \in Procs, RequestLost(c) PROVE Truths'
  <2>1. pc[c] = "ask" /\ Again(c, auth[c])
        /\ auth[c] \in {"none", "pending", "approved", "denied"} \cup Sessions
    BY <1>14 DEF RequestLost, TypeOK
  <2> QED
    BY <1>14, <2>1, AgainType DEF RequestLost, SignInAssumption
<1>15. ASSUME NEW c \in Procs, NEW s \in Sessions, AnswerLost(c, s) PROVE Truths'
  <2>1. pc[c] = "ask" /\ Again(c, s)
    BY <1>15 DEF AnswerLost
  <2>2. /\ \/ pc'[c] = "idle" /\ held'[c] = NoKey /\ auth'[c] = "none"
           \/ UNCHANGED <<pc, held>> /\ auth'[c] = s
        /\ \A d \in Procs \ {c} : pc'[d] = pc[d] /\ held'[d] = held[d] /\ auth'[d] = auth[d]
        /\ UNCHANGED sure
    BY <2>1, AgainType
  <2> QED
    BY <1>15, <2>2 DEF AnswerLost, Mints, TypeOK, SignInAssumption
<1>16. ASSUME NEW c \in Procs, NEW answer \in {"approved", "denied"}, Decide(c, answer) PROVE Truths'
  BY <1>16 DEF Decide, cmd, TypeOK, SignInAssumption
<1> QED
  BY <1>1, <1>2, <1>3, <1>4, <1>5, <1>6, <1>7, <1>8, <1>9, <1>10, <1>11, <1>12, <1>13, <1>14,
     <1>15, <1>16
  DEF Next, Command, Faults

----------------------------------------------------------------------------
(* Counting *)

LEMMA Counts ==
    ASSUME SignInAssumption, TypeOK
    PROVE  /\ IsFiniteSet(Orphans) /\ Cardinality(Orphans) \in Nat
           /\ IsFiniteSet(Busy) /\ Cardinality(Busy) \in Nat /\ lost \in Nat
<1>1. IsFiniteSet(Orphans)
  BY FS_Subset DEF SignInAssumption, Orphans, Open
<1>2. IsFiniteSet(Busy)
  BY FS_Subset DEF SignInAssumption, Busy
<1> QED
  BY <1>1, <1>2, FS_CardinalityType DEF TypeOK

LEMMA CountsNext ==
    ASSUME SignInAssumption, TypeOK'
    PROVE  /\ IsFiniteSet(Orphans') /\ Cardinality(Orphans') \in Nat
           /\ IsFiniteSet(Busy') /\ Cardinality(Busy') \in Nat /\ lost' \in Nat
<1>1. IsFiniteSet(Orphans')
  BY FS_Subset DEF SignInAssumption, Orphans, Open
<1>2. IsFiniteSet(Busy')
  BY FS_Subset DEF SignInAssumption, Busy
<1> QED
  BY <1>1, <1>2, FS_CardinalityType DEF TypeOK

\* A set with at most one element more.
LEMMA AtMostOneMore ==
    ASSUME NEW S, NEW T, NEW x, IsFiniteSet(T), S \subseteq T \cup {x}
    PROVE  Cardinality(S) <= Cardinality(T) + 1
<1>1. IsFiniteSet(T \cup {x}) /\ Cardinality(T \cup {x}) <= Cardinality(T) + 1
  <2>1. Cardinality(T) \in Nat
    BY FS_CardinalityType
  <2> QED
    BY <2>1, FS_AddElement
<1>2. Cardinality(S) <= Cardinality(T \cup {x}) /\ IsFiniteSet(S)
  BY <1>1, FS_Subset
<1> QED
  BY <1>1, <1>2, FS_CardinalityType

\* Nobody is busy that was not, and no session is lost that is not paid for.
LEMMA PaidFor ==
    ASSUME SignInAssumption, TypeOK, TypeOK', Balanced, Exposed' => Exposed,
           Busy' \subseteq Busy, NEW x,
           \/ lost' >= lost /\ Orphans' \subseteq Orphans
           \/ lost' = lost + 1 /\ Orphans' \subseteq Orphans \cup {x}
    PROVE  Balanced'
<1>1. Cardinality(Busy') <= Cardinality(Busy) /\ (Busy' # {} => Busy # {})
  BY Counts, FS_Subset
<1>2. Cardinality(Orphans') - lost' <= Cardinality(Orphans) - lost
  <2>1. CASE lost' >= lost /\ Orphans' \subseteq Orphans
    <3>1. Cardinality(Orphans') <= Cardinality(Orphans)
      BY <2>1, Counts, FS_Subset
    <3> QED
      BY <2>1, <3>1, Counts, CountsNext
  <2>2. CASE lost' = lost + 1 /\ Orphans' \subseteq Orphans \cup {x}
    <3>1. Cardinality(Orphans') <= Cardinality(Orphans) + 1
      BY <2>2, Counts, AtMostOneMore
    <3> QED
      BY <2>2, <3>1, Counts, CountsNext
  <2> QED
    BY <2>1, <2>2
<1> QED
  BY <1>1, <1>2, Counts, CountsNext DEF Balanced, OrphansAccounted

\* A command gets ready to overwrite the file: what is there is revoked, or is counted.
LEMMA Arming ==
    ASSUME SignInAssumption, TypeOK, TypeOK', Balanced, Busy # {}, Busy' = Busy,
           Orphans' \subseteq Orphans, lost' >= lost, Exposed' => lost' = lost + 1
    PROVE  Balanced'
<1>1. Cardinality(Orphans') <= Cardinality(Orphans)
  BY Counts, FS_Subset
<1> QED
  BY <1>1, Counts, CountsNext DEF Balanced, OrphansAccounted

\* It overwrites the file and ends.
LEMMA Overwriting ==
    ASSUME SignInAssumption, TypeOK, TypeOK', Balanced, NEW c \in Busy, Busy' = Busy \ {c},
           NEW x, Orphans' \subseteq Orphans \cup {x}, ~Exposed => Orphans' \subseteq Orphans,
           lost' >= lost
    PROVE  Balanced'
<1>1. Cardinality(Busy') = Cardinality(Busy) - 1 /\ Busy # {}
  BY Counts, FS_RemoveElement
<1>2. Cardinality(Orphans') <= Cardinality(Orphans) + 1
  BY Counts, AtMostOneMore
<1>3. ~Exposed => Cardinality(Orphans') <= Cardinality(Orphans)
  BY Counts, FS_Subset
<1> QED
  BY <1>1, <1>2, <1>3, Counts, CountsNext DEF Balanced, OrphansAccounted

\* It begins beside others.
LEMMA Beginning ==
    ASSUME SignInAssumption, TypeOK, TypeOK', Balanced, NEW c \in Procs,
           Busy' = Busy \cup {c}, Orphans' = Orphans, Exposed' => Exposed,
           lost' = lost + Cardinality(Busy)
    PROVE  Balanced'
<1>1. Cardinality(Busy') <= Cardinality(Busy) + 1
  BY Counts, AtMostOneMore
<1>2. Exposed => Cardinality(Busy) >= 1
  <2>1. Exposed => Busy # {}
    BY DEF Exposed, Armed, Busy, Running
  <2> QED
    BY <2>1, Counts, FS_EmptySet
<1> QED
  BY <1>1, <1>2, Counts, CountsNext DEF Balanced, OrphansAccounted

LEMMA OrphanIs ==
    \A s : s \in Orphans <=>
        /\ s \in live /\ s \in Sessions /\ ~(file.own /\ s = file.key)
        /\ \A c \in Procs : Holder(c) => held[c] # s
  BY DEF Orphans, Open, Stored, Holder

LEMMA OrphanIsNext ==
    \A s : s \in Orphans' <=>
        /\ s \in live' /\ s \in Sessions /\ ~(file'.own /\ s = file'.key)
        /\ \A c \in Procs : Holder(c)' => held'[c] # s
  BY DEF Orphans, Open, Stored, Holder

\* Ending a command loses at most what it holds.
LEMMA QuitCounts ==
    ASSUME TypeOK, NEW c \in Procs, Quit(c), Running(c), UNCHANGED <<file, live>>
    PROVE  /\ Busy' \subseteq Busy /\ (Exposed' => Exposed)
           /\ Orphans' \subseteq Orphans \cup {held[c]}
           /\ ~Holder(c) => Orphans' \subseteq Orphans
<1> USE QuitType
<1>1. Busy' \subseteq Busy
  BY DEF Busy, Running
<1>2. Armed' \subseteq Armed
  BY DEF Armed
<1>3. Exposed' => Exposed
  BY <1>2 DEF Exposed, Stored
<1>4. \A d \in Procs \ {c} : Holder(d)' = Holder(d) /\ held'[d] = held[d]
  BY DEF Holder
<1> QED
  BY <1>1, <1>3, <1>4, OrphanIs, OrphanIsNext

\* A step of a running command that neither arms it nor lets go of anything.
LEMMA StepCounts ==
    ASSUME TypeOK, NEW c \in Procs, Running(c), Running(c)', UNCHANGED file,
           \A d \in Procs \ {c} : pc'[d] = pc[d] /\ held'[d] = held[d],
           c \in Armed' => c \in Armed,
           Holder(c) => Holder(c)' /\ held'[c] = held[c]
    PROVE  /\ Busy' = Busy
           /\ Stored \cap live' \subseteq Stored \cap live => (Exposed' => Exposed)
           /\ live' \subseteq live => Orphans' \subseteq Orphans
<1>1. Busy' = Busy
  BY DEF Busy, Running
<1>2. Armed' \subseteq Armed /\ Stored' = Stored
  BY DEF Armed, Stored
<1>3. \A d \in Procs \ {c} : Holder(d)' = Holder(d) /\ held'[d] = held[d]
  BY DEF Holder
<1>4. live' \subseteq live => Orphans' \subseteq Orphans
  BY <1>3, OrphanIs, OrphanIsNext
<1> QED
  BY <1>1, <1>2, <1>4 DEF Exposed

LEMMA BalanceInit == SignInAssumption /\ Init => Balanced /\ Calm
<1> SUFFICES ASSUME SignInAssumption, Init PROVE Balanced /\ Calm
  OBVIOUS
<1>1. Orphans = {}
  BY OrphanIs DEF SignInAssumption, Init
<1>2. Busy = {} /\ Armed = {}
  BY DEF Init, Busy, Running, Armed
<1> QED
  BY <1>1, <1>2, FS_EmptySet DEF Init, NoFile, Balanced, OrphansAccounted, Exposed, Calm, Holder

LEMMA BalanceStep ==
    SignInAssumption /\ TypeOK /\ Truths /\ Balanced /\ TypeOK' /\ [Next]_vars => Balanced'
<1> SUFFICES ASSUME SignInAssumption, TypeOK, Truths, Balanced, TypeOK', [Next]_vars
             PROVE  Balanced'
  OBVIOUS
<1>1. CASE UNCHANGED vars
  <2>1. UNCHANGED <<Busy, Orphans, Exposed, lost>>
    BY <1>1 DEF vars, cmd, Busy, Running, Orphans, Open, Stored, Exposed, Armed
  <2> QED
    BY <2>1 DEF Balanced, OrphansAccounted
<1>2. CASE Tamper
  <2>1. UNCHANGED <<live, pc, held>> /\ file'.key = file.key /\ file'.own = file.own /\ lost' = lost
    BY <1>2, MishapType DEF Tamper, cmd, TypeOK, FileConfig
  <2>2. UNCHANGED <<Busy, Orphans, Exposed>>
    BY <2>1 DEF Busy, Running, Orphans, Open, Stored, Exposed, Armed
  <2> QED
    BY <2>1, <2>2 DEF Balanced, OrphansAccounted
<1>3. ASSUME NEW c \in Procs, NEW step \in {"probe", "start", "revoke"}, Begin(c, step), UNCHANGED <<file, live>>,
             \A d \in Procs \ {c} : held'[d] = held[d]
      PROVE  Balanced'
  <2>1. /\ pc[c] = "idle" /\ pc'[c] = step /\ \A d \in Procs \ {c} : pc'[d] = pc[d]
        /\ lost' = lost + Cardinality(Others(c))
    BY <1>3 DEF Begin, Running, Go, TypeOK
  <2>2. Others(c) = Busy /\ Busy' = Busy \cup {c} /\ Armed' = Armed
    BY <2>1 DEF Others, Busy, Running, Armed
  <2>3. Orphans' = Orphans
    <3>1. \A d \in Procs : Holder(d)' = Holder(d) /\ (Holder(d) => held'[d] = held[d])
      BY <1>3, <2>1 DEF Holder
    <3> QED
      BY <1>3, <3>1, OrphanIs, OrphanIsNext
  <2>4. Exposed' => Exposed
    BY <1>3, <2>2 DEF Exposed, Stored
  <2> QED
    BY <2>1, <2>2, <2>3, <2>4, Beginning
<1>4. ASSUME NEW c \in Procs, NEW k \in UserKeys, BeginKeyLogin(c, k) PROVE Balanced'
  BY <1>3, <1>4 DEF BeginKeyLogin, TypeOK
<1>5. ASSUME NEW c \in Procs, NEW b \in BOOLEAN, BeginLogin(c, b) \/ BeginLogout(c) PROVE Balanced'
  BY <1>3, <1>5 DEF BeginLogin, BeginLogout, TypeOK
<1>6. ASSUME NEW c \in Procs, Running(c), Running(c)', UNCHANGED <<file, live>>,
             \A d \in Procs \ {c} : pc'[d] = pc[d] /\ held'[d] = held[d],
             c \in Armed' => c \in Armed, ~Holder(c), lost' >= lost
      PROVE  Balanced'
  BY <1>6, StepCounts, PaidFor
<1>7. ASSUME NEW c \in Procs, Quit(c), Running(c), UNCHANGED <<file, live>>,
             \/ lost' >= lost /\ ~Holder(c)
             \/ lost' = lost + 1
      PROVE  Balanced'
  BY <1>7, QuitCounts, PaidFor
<1>8. ASSUME NEW c \in Procs, Probe(c) PROVE Balanced'
  <2>1. CASE Quit(c)
    BY <1>7, <1>8, <2>1 DEF Probe, Running, Holder, TypeOK
  <2>2. CASE Go(c, "displace") /\ UNCHANGED <<held, auth, browser, tries, sure>>
    BY <1>6, <1>8, <2>2 DEF Probe, Go, Running, Holder, Armed, TypeOK
  <2> QED
    BY <1>8, <2>1, <2>2 DEF Probe
<1>9. ASSUME NEW c \in Procs, StartFlow(c) \/ NoBrowser(c) \/ Callback(c) PROVE Balanced'
  BY <1>6, <1>9 DEF StartFlow, NoBrowser, Callback, Go, Running, Holder, Armed, TypeOK
<1>10. ASSUME NEW c \in Procs, GiveUp(c) \/ Refused(c) PROVE Balanced'
  BY <1>7, <1>10 DEF GiveUp, Refused, Running, Holder, TypeOK
<1>11. ASSUME NEW c \in Procs, RemoveFails(c) \/ Crash(c) PROVE Balanced'
  BY <1>7, <1>11, MishapType DEF RemoveFails, Crash, Running, TypeOK
<1>12. ASSUME NEW c \in Procs, NEW s \in Sessions, Granted(c, s) PROVE Balanced'
  <2>1. /\ pc[c] = "ask" /\ pc'[c] = "displace" /\ held'[c] = s
        /\ \A d \in Procs \ {c} : pc'[d] = pc[d] /\ held'[d] = held[d]
        /\ UNCHANGED <<file, lost>> /\ live' = live \cup {s} /\ s \notin used
    BY <1>12 DEF Granted, Mints, Obtained, Go, TypeOK
  <2>2. Busy' = Busy /\ Armed' = Armed
    BY <2>1 DEF Busy, Running, Armed
  <2>3. Stored \cap live' = Stored \cap live /\ Stored' = Stored
    BY <2>1 DEF Stored, Truths, KeysKnown, SignInAssumption
  <2>4. Orphans' \subseteq Orphans
    <3>1. \A d \in Procs \ {c} : Holder(d)' = Holder(d)
      BY <2>1 DEF Holder
    <3> QED
      BY <2>1, <3>1, OrphanIs, OrphanIsNext DEF Holder
  <2> QED
    BY <2>1, <2>2, <2>3, <2>4, PaidFor DEF Exposed, TypeOK
<1>13. ASSUME NEW c \in Procs, Redelivered(c) PROVE Balanced'
  BY <1>6, <1>13 DEF Redelivered, Obtained, Go, Running, Holder, Armed, TypeOK
<1>14. ASSUME NEW c \in Procs, RequestLost(c) PROVE Balanced'
  <2>1. /\ pc[c] = "ask" /\ lost' = lost /\ UNCHANGED <<file, live>> /\ Again(c, auth[c])
    BY <1>14, MishapType DEF RequestLost, TypeOK
  <2>2. CASE Quit(c)
    BY <1>7, <2>1, <2>2 DEF Running, Holder, TypeOK
  <2>3. CASE UNCHANGED <<pc, held>>
    BY <1>6, <2>1, <2>3 DEF Running, Holder, Armed, TypeOK
  <2> QED
    BY <2>1, <2>2, <2>3 DEF Again
<1>15. ASSUME NEW c \in Procs, NEW s \in Sessions, AnswerLost(c, s) PROVE Balanced'
  <2>1. /\ pc[c] = "ask" /\ lost' = lost + 1 /\ UNCHANGED file /\ Again(c, s)
        /\ live' = live \cup {s} /\ s \notin used
    BY <1>15, MishapType DEF AnswerLost, Mints, TypeOK
  <2>2. /\ pc'[c] \in {"idle", "ask"}
        /\ \A d \in Procs \ {c} : pc'[d] = pc[d] /\ held'[d] = held[d]
    BY <2>1, AgainType
  <2>3. Busy' \subseteq Busy /\ Armed' \subseteq Armed
    BY <2>1, <2>2 DEF Busy, Running, Armed
  <2>4. Stored \cap live' = Stored \cap live /\ Stored' = Stored
    BY <2>1 DEF Stored, Truths, KeysKnown, SignInAssumption
  <2>5. Orphans' \subseteq Orphans \cup {s}
    <3>1. \A d \in Procs : Holder(d) => Holder(d)' /\ held'[d] = held[d]
      BY <2>1, <2>2 DEF Holder
    <3> QED
      BY <2>1, <3>1, OrphanIs, OrphanIsNext
  <2> QED
    BY <2>1, <2>3, <2>4, <2>5, PaidFor DEF Exposed
<1>16. ASSUME NEW c \in Procs, NEW step \in {"save", "remove"}, Running(c), Go(c, step), UNCHANGED file,
              Holder(c) => step = "save", \A d \in Procs : Holder(d) => held'[d] = held[d],
              live' \subseteq live, lost' >= lost, (Stored \cap live' # {} => lost' = lost + 1)
       PROVE  Balanced'
  <2>1. Busy' = Busy /\ Busy # {}
    BY <1>16 DEF Busy, Running, Go, TypeOK
  <2>2. Orphans' \subseteq Orphans
    <3>1. \A d \in Procs : Holder(d) => Holder(d)' /\ held'[d] = held[d]
      BY <1>16 DEF Holder, Go, TypeOK
    <3> QED
      BY <1>16, <3>1, OrphanIs, OrphanIsNext
  <2>3. Exposed' => lost' = lost + 1
    BY <1>16 DEF Exposed, Stored
  <2> QED
    BY <1>16, <2>1, <2>2, <2>3, Arming
<1>17. ASSUME NEW c \in Procs, Displace(c) \/ DisplaceLost(c) PROVE Balanced'
  <2>1. Running(c) /\ Go(c, "save") /\ UNCHANGED <<file, held>>
    BY <1>17 DEF Displace, DisplaceLost, Running
  <2>2. live' \subseteq live /\ lost' >= lost /\ (Stored \cap live' # {} => lost' = lost + 1)
    BY <1>17, MishapType DEF Displace, DisplaceLost, RevokeStored, Stored, TypeOK
  <2> QED
    BY <1>16, <2>1, <2>2
<1>18. ASSUME NEW c \in Procs, Revoke(c) \/ RevokeLost(c) PROVE Balanced'
  <2>1. Running(c) /\ Go(c, "remove") /\ UNCHANGED file /\ ~Holder(c) /\ \A d \in Procs \ {c} : held'[d] = held[d]
    BY <1>18 DEF Revoke, RevokeLost, Running, Holder, TypeOK
  <2>2. live' \subseteq live /\ lost' >= lost /\ (Stored \cap live' # {} => lost' = lost + 1)
    BY <1>18, MishapType DEF Revoke, RevokeLost, RevokeStored, Stored, TypeOK
  <2> QED
    BY <1>16, <2>1, <2>2
<1>19. ASSUME NEW c \in Procs, pc[c] \in {"save", "remove"}, Quit(c), UNCHANGED live, lost' >= lost,
              Holder(c) /\ held[c] \in Sessions => file'.own /\ file'.key = held[c]
       PROVE  Balanced'
  <2>1. c \in Busy /\ Busy' = Busy \ {c}
    BY <1>19, QuitType DEF Busy, Running
  <2>2. \A d \in Procs \ {c} : Holder(d)' = Holder(d) /\ held'[d] = held[d]
    BY <1>19, QuitType DEF Holder
  <2>3. Orphans' \subseteq Orphans \cup {file.key}
    BY <1>19, <2>2, OrphanIs, OrphanIsNext
  <2>4. ~Exposed => Orphans' \subseteq Orphans
    <3>1. ~Exposed => ~(file.own /\ file.key \in live)
      BY <1>19 DEF Exposed, Stored, Armed
    <3> QED
      BY <1>19, <2>2, <3>1, OrphanIs, OrphanIsNext
  <2> QED
    BY <1>19, <2>1, <2>3, <2>4, Overwriting
<1>20. ASSUME NEW c \in Procs, Save(c) PROVE Balanced'
  BY <1>19, <1>20, EntryKnown DEF Save, Truths, TypeOK
<1>21. ASSUME NEW c \in Procs, SaveFails(c) PROVE Balanced'
  <2>1. pc[c] = "save" /\ Quit(c) /\ UNCHANGED live /\ lost' = lost + 1 /\ file' \in {file, Entry(c)}
    BY <1>21, MishapType DEF SaveFails
  <2>2. CASE file' = file
    BY <1>7, <2>1, <2>2 DEF Running
  <2>3. CASE file' = Entry(c)
    BY <1>19, <2>1, <2>3, EntryKnown DEF Truths, TypeOK
  <2> QED
    BY <2>1, <2>2, <2>3
<1>22. ASSUME NEW c \in Procs, Remove(c) PROVE Balanced'
  BY <1>19, <1>22 DEF Remove, Holder, TypeOK
<1>23. ASSUME NEW c \in Procs, NEW answer \in {"approved", "denied"}, Decide(c, answer) PROVE Balanced'
  <2>1. UNCHANGED <<Busy, Orphans, Exposed, lost>>
    BY <1>23 DEF Decide, cmd, Busy, Running, Orphans, Open, Stored, Exposed, Armed
  <2> QED
    BY <2>1 DEF Balanced, OrphansAccounted
<1> QED
  BY <1>1, <1>2, <1>4, <1>5, <1>8, <1>9, <1>10, <1>11, <1>12, <1>13, <1>14, <1>15, <1>17, <1>18,
     <1>20, <1>21, <1>22, <1>23
  DEF Next, Command, Faults

----------------------------------------------------------------------------
(* Undisturbed *)

LEMMA NobodyElse ==
    ASSUME SignInAssumption, TypeOK, Balanced, lost = 0
    PROVE  \A c, d \in Procs : Running(c) /\ Running(d) => c = d
<1> SUFFICES ASSUME NEW c \in Procs, NEW d \in Procs, Running(c), Running(d), c # d
             PROVE  FALSE
  OBVIOUS
<1>1. {c, d} \subseteq Busy /\ Busy # {}
  BY DEF Busy
<1>2. Cardinality({c, d}) = 2
  <2>1. IsFiniteSet({c}) /\ Cardinality({c}) = 1
    BY FS_Singleton
  <2> QED
    BY <2>1, FS_AddElement, {c, d} = {c} \cup {d}
<1>3. Cardinality({c, d}) <= Cardinality(Busy)
  BY <1>1, Counts, FS_Subset
<1>4. Cardinality(Busy) <= 1
  BY <1>1, Counts DEF Balanced
<1> QED
  BY <1>2, <1>3, <1>4, Counts

LEMMA CalmStep ==
    SignInAssumption /\ TypeOK /\ Truths /\ Balanced /\ Calm /\ TypeOK' /\ [Next]_vars => Calm'
<1> SUFFICES ASSUME SignInAssumption, TypeOK, Truths, Balanced, Calm, TypeOK', [Next]_vars, lost' = 0
             PROVE  Calm'
  BY DEF Calm
<1> USE DEF Calm, Holder, Armed
<1>1. CASE UNCHANGED vars
  BY <1>1 DEF vars, cmd
<1>2. CASE Tamper
  <2>1. UNCHANGED <<live, pc, held, auth>> /\ file'.key = file.key /\ file'.own = file.own /\ lost' = lost
    BY <1>2, MishapType DEF Tamper, cmd, TypeOK, FileConfig
  <2> QED
    BY <2>1
<1>3. ASSUME NEW c \in Procs, NEW step \in {"probe", "start", "revoke"}, Begin(c, step),
             UNCHANGED <<file, live, auth>>, \A d \in Procs \ {c} : held'[d] = held[d]
      PROVE  Calm'
  <2>1. Cardinality(Others(c)) \in Nat
    BY FS_Subset, FS_CardinalityType DEF SignInAssumption, Others
  <2>2. lost = 0
    BY <1>3, <2>1 DEF Begin, TypeOK
  <2>3. pc[c] = "idle" /\ pc'[c] = step /\ \A d \in Procs \ {c} : pc'[d] = pc[d]
    BY <1>3 DEF Begin, Running, Go, TypeOK
  <2> QED
    BY <1>3, <2>2, <2>3
<1>4. ASSUME NEW c \in Procs, NEW k \in UserKeys, BeginKeyLogin(c, k) PROVE Calm'
  BY <1>3, <1>4 DEF BeginKeyLogin, TypeOK
<1>5. ASSUME NEW c \in Procs, NEW b \in BOOLEAN, BeginLogin(c, b) \/ BeginLogout(c) PROVE Calm'
  BY <1>3, <1>5 DEF BeginLogin, BeginLogout, TypeOK
<1>6. ASSUME NEW c \in Procs, DisplaceLost(c) \/ SaveFails(c) \/ RevokeLost(c) \/ RemoveFails(c) \/ Crash(c)
      PROVE  FALSE
  BY <1>6, MishapType DEF DisplaceLost, SaveFails, RevokeLost, RemoveFails, Crash, TypeOK
<1>7. ASSUME NEW c \in Procs, NEW s \in Sessions, AnswerLost(c, s) PROVE FALSE
  BY <1>7, MishapType DEF AnswerLost, TypeOK
<1>8. ASSUME NEW c \in Procs, Quit(c), c \notin Armed, UNCHANGED <<file, live, lost>> PROVE Calm'
  BY <1>8, QuitType DEF SignInAssumption
<1>9. ASSUME NEW c \in Procs, Probe(c) PROVE Calm'
  <2>1. CASE Quit(c)
    BY <1>8, <1>9, <2>1 DEF Probe
  <2>2. CASE Go(c, "displace") /\ UNCHANGED <<held, auth, browser, tries, sure>>
    BY <1>9, <2>2 DEF Probe, Go, TypeOK, Truths, KeysKnown, SignInAssumption
  <2> QED
    BY <1>9, <2>1, <2>2 DEF Probe
<1>10. ASSUME NEW c \in Procs, StartFlow(c) \/ NoBrowser(c) \/ Callback(c) PROVE Calm'
  BY <1>10 DEF StartFlow, NoBrowser, Callback, Go, TypeOK, SignInAssumption
<1>11. ASSUME NEW c \in Procs, GiveUp(c) \/ Refused(c) PROVE Calm'
  BY <1>8, <1>11 DEF GiveUp, Refused
<1>12. ASSUME NEW c \in Procs, NEW s \in Sessions, Granted(c, s) PROVE Calm'
  BY <1>12 DEF Granted, Mints, Obtained, Go, TypeOK, Truths, KeysKnown, SignInAssumption
<1>13. ASSUME NEW c \in Procs, Redelivered(c) PROVE FALSE
  BY <1>13 DEF Redelivered, Obtained
<1>14. ASSUME NEW c \in Procs, RequestLost(c) PROVE Calm'
  <2>1. /\ pc[c] = "ask" /\ lost' = lost /\ UNCHANGED <<file, live>> /\ Again(c, auth[c])
    BY <1>14, MishapType DEF RequestLost, TypeOK
  <2>2. CASE Quit(c)
    BY <1>8, <2>1, <2>2
  <2>3. CASE UNCHANGED <<pc, held>> /\ auth' = [auth EXCEPT ![c] = auth[c]]
    BY <2>1, <2>3 DEF TypeOK
  <2> QED
    BY <2>1, <2>2, <2>3 DEF Again
<1>15. ASSUME NEW c \in Procs, Displace(c) PROVE Calm'
  BY <1>15 DEF Displace, RevokeStored, Go, TypeOK
<1>16. ASSUME NEW c \in Procs, Revoke(c) PROVE Calm'
  BY <1>16 DEF Revoke, RevokeStored, Go, TypeOK
<1>17. ASSUME NEW c \in Procs, Save(c) \/ Remove(c) PROVE Calm'
  <2>1. /\ lost = 0 /\ UNCHANGED live /\ Quit(c) /\ pc[c] \in {"save", "remove"}
        /\ file'.own => file'.key \in live
    BY <1>17, EntryKnown DEF Save, Remove, NoFile, Truths
  <2>2. Running(c) /\ lost = 0
    BY <2>1 DEF Running
  <2>3. \A d \in Procs \ {c} : ~Running(d)
    BY <2>2, NobodyElse
  <2>4. \A d \in Procs : pc'[d] = "idle"
    <3>1. pc'[c] = "idle" /\ \A d \in Procs \ {c} : pc'[d] = pc[d]
      BY <2>1, QuitType
    <3> QED
      BY <2>3, <3>1 DEF Running
  <2> QED
    BY <2>1, <2>4
<1>18. ASSUME NEW c \in Procs, NEW answer \in {"approved", "denied"}, Decide(c, answer) PROVE Calm'
  BY <1>18 DEF Decide, cmd, TypeOK, SignInAssumption
<1> QED
  BY <1>1, <1>2, <1>4, <1>5, <1>6, <1>7, <1>9, <1>10, <1>11, <1>12, <1>13, <1>14, <1>15, <1>16,
     <1>17, <1>18
  DEF Next, Command, Faults

\* With the whole account at rest and nothing gone wrong, what is live is what is stored.
LEMMA RestsAccounted == SignInAssumption /\ LoginInv => AtRest
<1> SUFFICES ASSUME SignInAssumption, LoginInv, lost = 0, \A c \in Procs : ~Running(c)
             PROVE  Open = Stored
  BY DEF AtRest
<1>1. Orphans = {}
  <2>1. Cardinality(Orphans) = 0
    BY Counts DEF LoginInv, Balanced, OrphansAccounted
  <2> QED
    BY <2>1, Counts, FS_EmptySet DEF LoginInv
<1>2. Open \subseteq Stored
  BY <1>1 DEF Orphans, Running
<1>3. Stored \subseteq Open
  BY DEF Stored, Open, LoginInv, Calm, KeysKnown, Armed, Running
<1> QED
  BY <1>2, <1>3

\* What holds at every step of any number of sign-ins and sign-outs: which keys the file and
\* the commands name, what each overlap and mishap can have cost, and that the user's own
\* keys stay live.
THEOREM LoginInvariant == ASSUME SignInAssumption PROVE Spec => []LoginInv
<1>1. Init => LoginInv
  BY LoginTypeInit, KeysInit, BalanceInit DEF LoginInv, Truths
<1>2. LoginInv /\ [Next]_vars => LoginInv'
  BY LoginTypeStep, KeysStep, BalanceStep, CalmStep DEF LoginInv, Truths
<1> QED
  BY <1>1, <1>2, PTL DEF Spec

\* The account has at most one session nobody can name for each mishap and each overlap; at
\* rest and unharmed, what is live is what the file names; no logout claims too much.
THEOREM SlotsAreAccounted == ASSUME SignInAssumption PROVE Spec => []SlotsAccounted
<1>1. LoginInv => SlotsAccounted
  BY RestsAccounted DEF LoginInv, Balanced, SlotsAccounted
<1> QED
  BY <1>1, LoginInvariant, PTL

=============================================================================
