----------------------------- MODULE AtomicFile -----------------------------
(* What the rest of the program takes safe_path.rs to promise: an operation *)
(* on a name in a directory takes effect in one step or not at all, and its *)
(* answer says which.  The power may go at any time and take back what has  *)
(* not been made durable yet; it never leaves part of a file.               *)
EXTENDS Integers, SequencesExt

CONSTANTS Procs, User, None, Dirs, Outside

Directories == {"empty", "full"}
Entries == {None, "file", "link"} \cup Directories \cup Procs

VARIABLES
    os, kind,   \* the platform; what each command is asked to do
    log,        \* per directory, what its disk may come back with: the last is the entry
    fate        \* "none", "acted" (in effect, not yet answered), or the answer

vars == <<os, kind, log, fate>>

Leaf(d) == Last(log[d]).is
Say(p, how) == fate' = [fate EXCEPT ![p] = how]
Asked == UNCHANGED <<os, kind>>

\* What a command may turn the old entry into.  Windows takes an entry away before it
\* finds out that it is another directory than it looked at.
May(p, old, new) ==
    \/ kind[p] = "write" /\ new = p /\ old \notin Directories
    \/ kind[p] = "create" /\ new = p /\ old = None
    \/ kind[p] = "symlink" /\ new = "link" /\ old = None
    \/ /\ kind[p] \in {"remove", "unlink", "rmdir"} /\ new = None /\ old # None
       /\ \/ os = "windows"
          \/ kind[p] = "rmdir" /\ old = "empty"
          \/ kind[p] # "rmdir" /\ old \notin Directories

Init ==
    /\ os \in {"unix", "windows"}
    /\ DOMAIN log = Dirs
    /\ \A d \in Dirs : \E e \in Entries \ Procs : log[d] = <<[is |-> e, by |-> User]>>
    /\ fate = [p \in Procs |-> "none"]

\* Nothing of p's is still at the mercy of the power.
Durable(p) == \A d \in Dirs : \A i \in 2..Len(log'[d]) : log'[d][i].by # p

\* The effect; the answer may come with it.
Act(p) ==
    /\ fate[p] = "none"
    /\ \/ Say(p, "acted")
       \/ Say(p, "ok") /\ Durable(p)
    /\ \E d \in Dirs \ {Outside}, new \in Entries :
         /\ May(p, Leaf(d), new)
         /\ LET entry == [is |-> new, by |-> p]
            IN \E tail \in {<<entry>>, Append(log[d], entry)} :
                 log' = [log EXCEPT ![d] = tail]
    /\ Asked

\* Success is told of an effect that lasts.
Succeed(p) ==
    /\ fate[p] = "acted"
    /\ Say(p, "ok") /\ Durable(p)
    /\ \E synced \in SUBSET Dirs :
         log' = [d \in Dirs |-> IF d \in synced THEN <<Last(log[d])>> ELSE log[d]]
    /\ Asked

\* A plain error and "nothing there" are told only if nothing was changed.
Answer(p) ==
    /\ \/ fate[p] = "none" /\ \E how \in {"absent", "failed"} : Say(p, how)
       \/ fate[p] = "acted" /\ Say(p, "late")
    /\ UNCHANGED log /\ Asked

Kill(p) == fate[p] \in {"none", "acted"} /\ Say(p, "killed") /\ UNCHANGED log /\ Asked

PowerCut ==
    /\ fate' = [p \in Procs |-> IF fate[p] \in {"none", "acted"} THEN "killed" ELSE fate[p]]
    /\ DOMAIN log' = Dirs
    /\ \A d \in Dirs : \E i \in 1..Len(log[d]) : log'[d] = <<log[d][i]>>
    /\ Asked

Person ==
    /\ UNCHANGED fate /\ Asked
    /\ log' # log
    /\ \E d \in Dirs \ {Outside}, e \in Entries \ Procs :
         log' = [log EXCEPT ![d] = Append(@, [is |-> e, by |-> User])]

Next ==
    \/ \E p \in Procs : Act(p) \/ Succeed(p) \/ Answer(p) \/ Kill(p)
    \/ PowerCut \/ Person

Spec == Init /\ [][Next]_vars

=============================================================================
