------------------------------- MODULE SignIn -------------------------------
(* Sign-in and sign-out of one machine: login, logout and the credential    *)
(* file ~/.sevra/config.json (commands.rs 693-1354, config.rs).             *)
(*                                                                          *)
(* A sign-in mints a session on the hub; the account has a bounded number   *)
(* of them.  The file names one key, with its key id if this program        *)
(* minted it (own).  Several commands may run at once on one machine.       *)
EXTENDS Integers, FiniteSets

CONSTANTS
    Procs,      \* commands that may run at the same time
    Sessions,   \* keys the hub may mint
    UserKeys,   \* keys the user brings
    NoKey,
    Slots,      \* sessions the account may hold
    Attempts,   \* requests of one exchange (commands.rs:1037)
    MaxLogins, MaxMishaps     \* bounds

\* What is assumed of them.
SignInAssumption ==
    /\ Sessions \cap UserKeys = {} /\ NoKey \notin Sessions \cup UserKeys
    /\ (Sessions \cup UserKeys) \cap {"none", "pending", "approved", "denied"} = {}
    /\ IsFiniteSet(Procs) /\ IsFiniteSet(Sessions) /\ IsFiniteSet(UserKeys)
    /\ {Slots, Attempts} \subseteq Nat \ {0}
    /\ {MaxLogins, MaxMishaps} \subseteq Nat

Keys == Sessions \cup UserKeys

\* What config.json says; "safe" is a hub and a key the client may be asked to use.
FileConfig == [key : Keys \cup {NoKey}, own : BOOLEAN, safe : BOOLEAN]
NoFile == [key |-> NoKey, own |-> FALSE, safe |-> TRUE]

Steps == {"idle", "probe", "start", "await", "ask", "displace", "save", "revoke", "remove"}

VARIABLES
    file,      \* the credential file
    live,      \* keys the hub accepts
    used,      \* sessions minted so far
    auth,      \* the hub's view of each command's authorization request
    pc, held, browser, tries, sure,   \* each command's step and locals
    spent,     \* sign-ins begun, things that went wrong
    lost       \* how often the file and the hub may have come apart

cmd == <<pc, held, browser, tries, sure>>
vars == <<file, live, used, auth, cmd, spent, lost>>

Running(p) == pc[p] # "idle"
Others(p) == {q \in Procs \ {p} : Running(q)}
Go(p, step) == pc' = [pc EXCEPT ![p] = step]
Quit(p) ==
    /\ Go(p, "idle")
    /\ held' = [held EXCEPT ![p] = NoKey]
    /\ auth' = [auth EXCEPT ![p] = "none"]
    /\ UNCHANGED <<browser, tries, sure>>

\* Something goes wrong; n = 1 if the file and the hub may come apart by it.
Mishap(n) ==
    /\ spent.mishaps < MaxMishaps
    /\ spent' = [spent EXCEPT !.mishaps = @ + 1]
    /\ lost' = lost + n

\* Sessions the account holds.
Open == live \cap Sessions

----------------------------------------------------------------------------

Init ==
    /\ file = NoFile
    /\ live = UserKeys
    /\ used = {}
    /\ auth = [p \in Procs |-> "none"]
    /\ pc = [p \in Procs |-> "idle"]
    /\ held = [p \in Procs |-> NoKey]
    /\ browser = [p \in Procs |-> FALSE]
    /\ tries = [p \in Procs |-> 0]
    /\ sure = [p \in Procs |-> TRUE]
    /\ spent = [logins |-> 0, mishaps |-> 0]
    /\ lost = 0

\* A command begins; it does not see what those that run already will store.
Begin(p, step) ==
    /\ ~Running(p)
    /\ spent.logins < MaxLogins
    /\ spent' = [spent EXCEPT !.logins = @ + 1]
    /\ lost' = lost + Cardinality(Others(p))
    /\ Go(p, step)
    /\ sure' = [sure EXCEPT ![p] = TRUE]
    /\ tries' = [tries EXCEPT ![p] = 0]

\* login --key, or SEVRA_API_KEY: a key the user brings, which is not the stored session.
BeginKeyLogin(p, k) ==
    /\ Begin(p, "probe")
    /\ held' = [held EXCEPT ![p] = k]
    /\ UNCHANGED <<file, live, used, auth, browser>>

\* The key is checked against /me before anything is touched.
Probe(p) ==
    /\ pc[p] = "probe"
    /\ IF held[p] \in live
         THEN Go(p, "displace") /\ UNCHANGED <<held, auth, browser, tries, sure>>
         ELSE Quit(p)
    /\ UNCHANGED <<file, live, used, spent, lost>>

BeginLogin(p, noBrowser) ==
    /\ Begin(p, "start")
    /\ browser' = [browser EXCEPT ![p] = ~noBrowser]
    /\ UNCHANGED <<file, live, used, auth, held>>

\* The hub opens an authorization request.
StartFlow(p) ==
    /\ pc[p] = "start"
    /\ auth' = [auth EXCEPT ![p] = "pending"]
    /\ Go(p, IF browser[p] THEN "await" ELSE "ask")
    /\ UNCHANGED <<file, live, used, held, browser, tries, sure, spent, lost>>

\* No listener, or no browser to open: the code flow takes over.
NoBrowser(p) ==
    /\ pc[p] = "start"
    /\ browser[p]
    /\ browser' = [browser EXCEPT ![p] = FALSE]
    /\ UNCHANGED <<file, live, used, auth, pc, held, tries, sure, spent, lost>>

\* The browser hands the code of an approved request to the listener.
Callback(p) ==
    /\ pc[p] = "await"
    /\ auth[p] \in {"approved", "denied"}
    /\ Go(p, "ask")
    /\ UNCHANGED <<file, live, used, auth, held, browser, tries, sure, spent, lost>>

\* The request cannot be opened, is denied or not recognized, or its window closes.
GiveUp(p) ==
    /\ pc[p] \in {"start", "await", "ask"}
    /\ Quit(p)
    /\ UNCHANGED <<file, live, used, spent, lost>>

----------------------------------------------------------------------------
(* The exchange (browser flow) and the poll (code flow) *)

\* The hub mints a session for an approved request while a slot is free.
Mints(p, s) ==
    /\ auth[p] = "approved"
    /\ Cardinality(Open) < Slots
    /\ s \in Sessions \ used
    /\ used' = used \cup {s}
    /\ live' = live \cup {s}

\* The answer with the new key arrives; the hub may also repeat an answer that was lost.
Obtained(p, s) ==
    /\ auth' = [auth EXCEPT ![p] = s]
    /\ held' = [held EXCEPT ![p] = s]
    /\ Go(p, "displace")
    /\ UNCHANGED <<file, browser, tries, sure, spent, lost>>

Granted(p, s) == pc[p] = "ask" /\ Mints(p, s) /\ Obtained(p, s)

Redelivered(p) ==
    /\ pc[p] = "ask"
    /\ auth[p] \in Sessions
    /\ Obtained(p, auth[p])
    /\ UNCHANGED <<live, used>>

\* "failed": the account has no slot left.
Refused(p) ==
    /\ pc[p] = "ask"
    /\ auth[p] = "approved"
    /\ Cardinality(Open) >= Slots
    /\ Quit(p)
    /\ UNCHANGED <<file, live, used, spent, lost>>

\* A request or its answer is lost, or the hub is busy: ask again.  The exchange
\* gives up after its last attempt, the poll only when its window closes.
Again(p, a) ==
    IF browser[p] /\ tries[p] + 1 = Attempts
      THEN Quit(p)
      ELSE /\ tries' = [tries EXCEPT ![p] = IF browser[p] THEN @ + 1 ELSE @]
           /\ auth' = [auth EXCEPT ![p] = a]
           /\ UNCHANGED <<pc, held, browser, sure>>

RequestLost(p) ==
    /\ pc[p] = "ask"
    /\ Mishap(0)
    /\ Again(p, auth[p])
    /\ UNCHANGED <<file, live, used>>

\* A session is minted and its key does not arrive.
AnswerLost(p, s) ==
    /\ pc[p] = "ask"
    /\ Mishap(1)
    /\ Mints(p, s)
    /\ Again(p, s)
    /\ UNCHANGED file

----------------------------------------------------------------------------
(* Storing what was obtained *)

\* Mutant of RevokeStored: whatever key is stored is revoked.
RevokeAny == live' = IF file.safe THEN live \ {file.key} ELSE live

\* What a revocation with the file's key does to the hub's sessions.
RevokeStored == live' = IF file.own /\ file.safe THEN live \ {file.key} ELSE live

\* Mutant of Displace: what is stored is simply overwritten.
DisplaceNothing(p) ==
    /\ pc[p] = "displace"
    /\ Go(p, "save")
    /\ UNCHANGED <<file, live, used, auth, held, browser, tries, sure, spent, lost>>

\* revoke_displaced_session: the result is not looked at.
Displace(p) ==
    /\ pc[p] = "displace"
    /\ RevokeStored
    /\ lost' = IF file.own /\ ~file.safe THEN lost + 1 ELSE lost
    /\ Go(p, "save")
    /\ UNCHANGED <<file, used, auth, held, browser, tries, sure, spent>>

DisplaceLost(p) ==
    /\ pc[p] = "displace"
    /\ file.own /\ file.safe
    /\ Mishap(1)
    /\ Go(p, "save")
    /\ UNCHANGED <<file, live, used, auth, held, browser, tries, sure>>

\* What login stores: the key, and its id if this program had it minted.
Entry(p) == [key |-> held[p], own |-> auth[p] = held[p], safe |-> TRUE]

Save(p) ==
    /\ pc[p] = "save"
    /\ file' = Entry(p)
    /\ Quit(p)
    /\ UNCHANGED <<live, used, spent, lost>>

\* The file cannot be written: the command fails, and what it holds is gone.
SaveFails(p) ==
    /\ pc[p] = "save"
    /\ Mishap(1)
    /\ file' \in {file, Entry(p)}
    /\ Quit(p)
    /\ UNCHANGED <<live, used>>

BeginLogout(p) ==
    /\ Begin(p, "revoke")
    /\ UNCHANGED <<file, live, used, auth, held, browser>>

\* logout revokes what it minted, and says so when it cannot confirm it.
Revoke(p) ==
    /\ pc[p] = "revoke"
    /\ RevokeStored
    /\ sure' = [sure EXCEPT ![p] = file.own => file.safe]
    /\ lost' = IF file.own /\ ~file.safe THEN lost + 1 ELSE lost
    /\ held' = [held EXCEPT ![p] = file.key]
    /\ Go(p, "remove")
    /\ UNCHANGED <<file, used, auth, browser, tries, spent>>

\* The request or its answer is lost.
RevokeLost(p) ==
    /\ pc[p] = "revoke"
    /\ file.own /\ file.safe
    /\ Mishap(1)
    /\ live' \in {live, live \ {file.key}}
    /\ sure' = [sure EXCEPT ![p] = FALSE]
    /\ held' = [held EXCEPT ![p] = file.key]
    /\ Go(p, "remove")
    /\ UNCHANGED <<file, used, auth, browser, tries>>

Remove(p) ==
    /\ pc[p] = "remove"
    /\ file' = NoFile
    /\ Quit(p)
    /\ UNCHANGED <<live, used, spent, lost>>

RemoveFails(p) ==
    /\ pc[p] = "remove"
    /\ Mishap(1)
    /\ Quit(p)
    /\ UNCHANGED <<file, live, used>>

----------------------------------------------------------------------------
(* The world *)

Crash(p) ==
    /\ Running(p)
    /\ Mishap(1)
    /\ Quit(p)
    /\ UNCHANGED <<file, live, used>>

\* The human decides in the browser or the dashboard.
Decide(p, answer) ==
    /\ auth[p] = "pending"
    /\ auth' = [auth EXCEPT ![p] = answer]
    /\ UNCHANGED <<file, live, used, cmd, spent, lost>>

\* The file is edited by hand: its hub or key is not one the client will use.
Tamper ==
    /\ file # NoFile /\ file.safe
    /\ Mishap(0)
    /\ file' = [file EXCEPT !.safe = FALSE]
    /\ UNCHANGED <<live, used, auth, cmd>>

Command(p) ==
    \/ Probe(p) \/ StartFlow(p) \/ NoBrowser(p) \/ Callback(p) \/ GiveUp(p)
    \/ (\E s \in Sessions : Granted(p, s)) \/ Redelivered(p) \/ Refused(p)
    \/ Displace(p) \/ Save(p) \/ Revoke(p) \/ Remove(p)

Faults(p) ==
    \/ RequestLost(p) \/ (\E s \in Sessions : AnswerLost(p, s)) \/ DisplaceLost(p) \/ SaveFails(p)
    \/ RevokeLost(p) \/ RemoveFails(p) \/ Crash(p)

Next ==
    \/ \E p \in Procs :
         \/ \E k \in UserKeys : BeginKeyLogin(p, k)
         \/ \E noBrowser \in BOOLEAN : BeginLogin(p, noBrowser)
         \/ BeginLogout(p)
         \/ Command(p) \/ Faults(p)
         \/ \E answer \in {"approved", "denied"} : Decide(p, answer)
    \/ Tamper

Spec == Init /\ [][Next]_vars

\* A running command takes its next step: every wait of the code has a deadline.
FairSpec == Spec /\ \A p \in Procs : WF_vars(Command(p))

----------------------------------------------------------------------------
(* What must hold *)

\* Every variable has its type, and whatever is live was minted or is the user's.
TypeOK ==
    /\ file \in FileConfig
    /\ used \subseteq Sessions /\ live \subseteq used \cup UserKeys
    /\ auth \in [Procs -> {"none", "pending", "approved", "denied"} \cup Sessions]
    /\ pc \in [Procs -> Steps] /\ held \in [Procs -> Keys \cup {NoKey}]
    /\ browser \in [Procs -> BOOLEAN] /\ tries \in [Procs -> 0..(Attempts - 1)]
    /\ sure \in [Procs -> BOOLEAN]
    /\ spent \in [logins : Nat, mishaps : Nat] /\ lost \in Nat

Stored == {k \in {file.key} : file.own}

\* Live sessions that neither the file nor a running command knows.
Orphans == Open \ (Stored \cup {held[p] : p \in {q \in Procs : pc[q] \in {"displace", "save"}}})

\* "without this the displaced session stays live on the account forever"
\* (commands.rs:699-704): signing in again and again uses up no slot; each session
\* nobody can revoke any more goes back to a lost message, a kill, a failed write or
\* two commands at the same time, one each.
OrphansAccounted == Cardinality(Orphans) <= lost

\* If nothing of the kind ever happened, then between commands the account holds
\* exactly the session the file names.
AtRest ==
    (lost = 0 /\ \A p \in Procs : ~Running(p)) => Open = Stored

\* "a user-supplied --key is never touched" (commands.rs:703-704): no login and no
\* logout revokes a key the user brought, whatever was stored before.
UserKeysSpared == UserKeys \subseteq live

\* "Never silently claim a clean logout" (commands.rs:1324): a logout that removes
\* the file without a warning has had the hub revoke the session it found there.
LogoutTells ==
    \A p \in Procs : pc[p] = "remove" /\ sure[p] => held[p] \notin Open

\* No session of the account is lost track of without a mishap, or a word to the user.
SlotsAccounted == OrphansAccounted /\ AtRest /\ LogoutTells

\* The sign-ins end: every loop of them has a bound or a deadline (commands.rs:970, 1037, 1182).
CommandsEnd == <>[](\A p \in Procs : ~Running(p))

=============================================================================
