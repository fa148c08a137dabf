------------------------------ MODULE McpServer ------------------------------
(* sevra mcp (mcp.rs): one process answers the JSON-RPC frames of a client,   *)
(* one at a time; each hub request (hub.rs) runs on a thread of its own that   *)
(* the server stops waiting for at a deadline, and that goes on without it.    *)
(*                                                                             *)
(* The client sends ahead, closes its ends and misuses the protocol; requests  *)
(* do not connect, break, are answered late, not at all, or beyond the limit.  *)
EXTENDS Integers, Sequences

CONSTANTS
    MaxFrames,     \* frames of a session
    Attempts,      \* CONNECT_ATTEMPTS
    Hard,          \* DEFAULT_REQUEST_HARD_TIMEOUT, in ticks
    Budget,        \* HOSTED_BRAIN_READ_TIMEOUT
    Slack,         \* REQUEST_HARD_TIMEOUT_SLACK
    MaxFaults

\* What is assumed of them.
McpServerAssumption ==
    /\ {MaxFrames, MaxFaults} \subseteq Nat /\ {Attempts, Hard, Budget, Slack} \subseteq Nat \ {0}

\* Frames: an empty line; bytes that are no text; text that is no JSON; a line beyond the
\* limit; a notification; a request answered without the hub (ping, a bad call); calls of
\* list_brains, of secrets_status, of a hosted read and of start_run; a call of list_brains
\* and a ping without an id.
Kinds == {"blank", "bytes", "junk", "huge", "note", "plain", "list", "secrets", "read", "run",
          "orphan", "stray"}
Requests == {"plain", "list", "secrets", "read", "run"}
Frames == 1..MaxFrames

VARIABLES
    signed,      \* does the server have a credential?
    inbox, eof,  \* what the client has sent, and whether it will send more
    hup,         \* the client reads no more
    out,         \* what it was sent: an id (0: null), what it is, and the frame it is about
    next,        \* the next frame
    pc, exit,
    spent,       \* ticks since the call began
    worker, tries,  \* the threads of the hub requests
    result,      \* what each has handed over
    runs,        \* how often the hub has started a run for a frame
    faults

client == <<inbox, eof, hup>>
threads == <<worker, tries, result>>
vars == <<signed, client, out, next, pc, exit, spent, threads, runs, faults>>

Cur == next - 1
Kind(i) == inbox[i]
Fault == faults < MaxFaults /\ faults' = faults + 1
Exit(how) == pc' = "closed" /\ exit' = how
Go(step) == pc' = step /\ UNCHANGED exit

Init ==
    /\ signed \in BOOLEAN
    /\ inbox = <<>> /\ eof = FALSE /\ hup = FALSE /\ out = <<>>
    /\ next = 1 /\ pc = "read" /\ exit = "none" /\ spent = 0
    /\ worker = [i \in Frames |-> "none"] /\ tries = [i \in Frames |-> 0]
    /\ result = [i \in Frames |-> "none"]
    /\ runs = [i \in Frames |-> 0]
    /\ faults = 0

----------------------------------------------------------------------------
(* The client *)

Send(kind) ==
    /\ Len(inbox) < MaxFrames /\ ~eof
    /\ inbox' = Append(inbox, kind)
    /\ UNCHANGED <<signed, eof, hup, out, next, pc, exit, spent, threads, runs, faults>>

Hang ==
    /\ \/ ~eof /\ eof' = TRUE /\ UNCHANGED hup
       \/ ~hup /\ hup' = TRUE /\ UNCHANGED eof
    /\ UNCHANGED <<signed, inbox, out, next, pc, exit, spent, threads, runs, faults>>

----------------------------------------------------------------------------
(* The server *)

\* One line, flushed; the session ends if nobody reads it.
Answer(id, what, of) ==
    IF hup THEN Exit("hup") /\ UNCHANGED out
           ELSE Go("read") /\ out' = Append(out, [id |-> id, what |-> what, of |-> of])

Ready == pc = "read" /\ next <= Len(inbox)

Eof ==
    /\ pc = "read" /\ next > Len(inbox) /\ eof
    /\ Exit("eof")
    /\ UNCHANGED <<signed, client, out, next, spent, threads, runs, faults>>

\* read_frame: an oversized line is answered and ends the session.
ReadHuge ==
    /\ Ready /\ Kind(next) = "huge"
    /\ Exit("huge")
    /\ out' = IF hup THEN out ELSE Append(out, [id |-> 0, what |-> "parse", of |-> next])
    /\ next' = next + 1
    /\ UNCHANGED <<signed, client, spent, threads, runs, faults>>

\* handle_line: what is no message is answered, without an id.
ReadJunk ==
    /\ Ready /\ Kind(next) \in {"bytes", "junk"}
    /\ Answer(0, "parse", next)
    /\ next' = next + 1
    /\ UNCHANGED <<signed, client, spent, threads, runs, faults>>

\* Empty lines and notifications are not.
ReadSilent ==
    /\ Ready /\ Kind(next) \in {"blank", "note"}
    /\ next' = next + 1
    /\ UNCHANGED <<signed, client, out, pc, exit, spent, threads, runs, faults>>

Hosted(kind) == kind \in {"list", "read", "run", "orphan"} \/ (kind = "secrets" /\ signed)

Id(i) == IF Kind(i) \in {"orphan", "stray"} THEN 0 ELSE i

\* handle_mcp_request, call_tool: what needs no hub is answered, with an id or without.
HandleLocally ==
    /\ Ready /\ Kind(next) \in Requests \cup {"stray"} /\ ~Hosted(Kind(next))
    /\ Answer(Id(next), "result", next)
    /\ next' = next + 1
    /\ UNCHANGED <<signed, client, spent, threads, runs, faults>>

Start(i) ==
    /\ worker' = [worker EXCEPT ![i] = "connect"]
    /\ tries' = [tries EXCEPT ![i] = 1]
    /\ result' = [result EXCEPT ![i] = "none"]

\* request_inner: the thread is started.  A call that needs a credential and finds none
\* ends the program.
Call ==
    /\ Ready /\ Hosted(Kind(next))
    /\ next' = next + 1
    /\ IF Kind(next) = "run" /\ ~signed
         THEN Exit("abort") /\ UNCHANGED <<spent, threads>>
         ELSE Go("wait") /\ Start(next) /\ UNCHANGED spent
    /\ UNCHANGED <<signed, client, out, runs, faults>>

Limit == IF Kind(Cur) = "read" THEN Budget + Slack ELSE Hard

\* ApiClient: what the hub said, or that it could not be reached.
Respond ==
    /\ pc = "wait" /\ result[Cur] \notin {"none", "pending"}
    /\ Answer(Id(Cur), IF result[Cur] = "ok" THEN "result" ELSE "error", Cur)
    /\ result' = [result EXCEPT ![Cur] = "none"] /\ spent' = 0
    /\ UNCHANGED <<signed, client, next, worker, tries, runs, faults>>

\* try_hosted_brain_read: not yet prepared, and too little is left to wait for it...
RespondPending ==
    /\ pc = "wait" /\ result[Cur] = "pending" /\ spent + 1 >= Budget
    /\ Answer(Id(Cur), "error", Cur)
    /\ result' = [result EXCEPT ![Cur] = "none"] /\ spent' = 0
    /\ UNCHANGED <<signed, client, next, worker, tries, runs, faults>>

\* Mutant of AskAgain: the delay is not held against the budget.
AskAgainAlways ==
    /\ pc = "wait" /\ result[Cur] = "pending" /\ Kind(Cur) = "read"
    /\ spent' = spent + 1
    /\ Start(Cur)
    /\ UNCHANGED <<signed, client, out, next, pc, exit, runs, faults>>

\* ...or it is asked again, after a delay, within what is left.
AskAgain ==
    /\ pc = "wait" /\ result[Cur] = "pending" /\ spent + 1 < Budget
    /\ spent' = spent + 1
    /\ Start(Cur)
    /\ UNCHANGED <<signed, client, out, next, pc, exit, runs, faults>>

\* run_with_hard_deadline: time passes, and at the deadline the thread is left to itself.
Tick ==
    /\ pc = "wait" /\ result[Cur] = "none" /\ spent < Limit
    /\ spent' = spent + 1
    /\ UNCHANGED <<signed, client, out, next, pc, exit, threads, runs, faults>>

\* Mutants of Abandon: the deadline is not enforced; what another thread has handed over
\* is taken for the answer.
AbandonNever == FALSE /\ UNCHANGED vars

AbandonShared ==
    /\ pc = "wait" /\ result[Cur] = "none" /\ (spent = Limit \/ \E i \in Frames : result[i] = "ok")
    /\ IF \E i \in Frames : result[i] = "ok"
         THEN Answer(Id(Cur), "result", CHOOSE i \in Frames : result[i] = "ok")
         ELSE Answer(Id(Cur), "error", Cur)
    /\ spent' = 0
    /\ UNCHANGED <<signed, client, next, threads, runs, faults>>

Abandon ==
    /\ pc = "wait" /\ result[Cur] = "none" /\ spent = Limit
    /\ Answer(Id(Cur), "error", Cur)
    /\ spent' = 0
    /\ UNCHANGED <<signed, client, next, threads, runs, faults>>

----------------------------------------------------------------------------
(* The threads and the hub.  They end with the process. *)

Alive == pc # "closed"
Hand(i, what) ==
    /\ worker' = [worker EXCEPT ![i] = "done"]
    /\ result' = [result EXCEPT ![i] = what]
    /\ tries' = [tries EXCEPT ![i] = 0]

Connect(i) ==
    /\ Alive /\ worker[i] = "connect"
    /\ worker' = [worker EXCEPT ![i] = "sent"]
    /\ UNCHANGED <<signed, client, out, next, pc, exit, spent, tries, result, runs, faults>>

\* with_connect_retries: only what has not reached the hub is sent again.
ConnectFails(i) ==
    /\ Alive /\ worker[i] = "connect"
    /\ Fault
    /\ IF tries[i] < Attempts
         THEN tries' = [tries EXCEPT ![i] = @ + 1] /\ UNCHANGED <<worker, result>>
         ELSE Hand(i, "unreachable")
    /\ UNCHANGED <<signed, client, out, next, pc, exit, spent, runs>>

\* The hub does what it was asked to do.
HubActs(i) ==
    /\ worker[i] = "sent"
    /\ worker' = [worker EXCEPT ![i] = "acted"]
    /\ runs' = IF Kind(i) = "run" THEN [runs EXCEPT ![i] = @ + 1] ELSE runs
    /\ UNCHANGED <<signed, client, out, next, pc, exit, spent, tries, result, faults>>

\* It refuses, or the checkpoint that a hosted read needs is still being prepared.
HubRefuses(i, what) ==
    /\ Alive /\ worker[i] = "sent"
    /\ what = "pending" => Kind(i) = "read"
    /\ Hand(i, what)
    /\ UNCHANGED <<signed, client, out, next, pc, exit, spent, runs, faults>>

HubAnswers(i) ==
    /\ Alive /\ worker[i] = "acted"
    /\ Hand(i, "ok")
    /\ UNCHANGED <<signed, client, out, next, pc, exit, spent, runs, faults>>

\* Mutant of Break: that is tried again as well.
BreakAgain(i) ==
    /\ Alive /\ worker[i] \in {"sent", "acted"}
    /\ Fault
    /\ IF tries[i] < Attempts
         THEN /\ tries' = [tries EXCEPT ![i] = @ + 1]
              /\ worker' = [worker EXCEPT ![i] = "connect"] /\ UNCHANGED result
         ELSE Hand(i, "broken")
    /\ UNCHANGED <<signed, client, out, next, pc, exit, spent, runs>>

\* The connection breaks after the request was sent.
Break(i) ==
    /\ Alive /\ worker[i] \in {"sent", "acted"}
    /\ Fault
    /\ Hand(i, "broken")
    /\ UNCHANGED <<signed, client, out, next, pc, exit, spent, runs>>

\* finish_response: an answer beyond the limit ends the program, from whatever thread.
Oversize(i) ==
    /\ Alive /\ worker[i] \in {"sent", "acted"}
    /\ Fault
    /\ Exit("abort")
    /\ UNCHANGED <<signed, client, out, next, spent, threads, runs>>

Serve ==
    \/ Eof \/ ReadHuge \/ ReadJunk \/ ReadSilent \/ HandleLocally \/ Call
    \/ Respond \/ RespondPending \/ AskAgain \/ Tick \/ Abandon

Next ==
    \/ Serve \/ Hang
    \/ \E kind \in Kinds : Send(kind)
    \/ \E i \in Frames :
         \/ Connect(i) \/ ConnectFails(i) \/ HubActs(i) \/ HubAnswers(i) \/ Break(i) \/ Oversize(i)
         \/ HubRefuses(i, "refused") \/ HubRefuses(i, "pending")

Spec == Init /\ [][Next]_vars

\* The server runs and time passes; nothing is assumed of the network and the hub.
FairSpec == Spec /\ WF_vars(Serve)

----------------------------------------------------------------------------
(* Properties *)

\* The types, and: no call lasts longer than its deadline, however often a hosted read
\* is asked again and whatever its threads do (hub.rs 517).
TypeOK ==
    /\ inbox \in Seq(Kinds) /\ next \in 1..(Len(inbox) + 1)
    /\ worker \in [Frames -> {"none", "connect", "sent", "acted", "done"}]
    /\ result \in [Frames -> {"none", "ok", "refused", "pending", "unreachable", "broken"}]
    /\ tries \in [Frames -> 0..Attempts]
    /\ exit # "none" <=> pc = "closed"
    /\ pc = "wait" => spent <= Limit

\* Frames that were dealt with.
Done == {i \in 1..(next - 1) : pc = "read" \/ (pc = "closed" /\ exit = "eof") \/ i < Cur}

\* Every request gets one answer, in the order of the requests, with its own id and with
\* the outcome of its own hub request: a thread that was given up never speaks for a
\* later call.  What needs no answer gets none - but for a call or a ping without an id,
\* which the code answers like any other.
AnswersMatch ==
    /\ \A j \in 1..Len(out) :
         /\ out[j].id \in {0, out[j].of}
         /\ out[j].id = 0 <=> Kind(out[j].of) \in {"bytes", "junk", "huge", "orphan", "stray"}
         /\ Kind(out[j].of) \notin {"blank", "note"}
         /\ \A k \in 1..(j - 1) : out[k].of < out[j].of
    /\ \A i \in Done : Kind(i) \in Requests => \E j \in 1..Len(out) : out[j].of = i

\* A run costs credits: a start_run frame starts at most one, through all retries, and an
\* answer with a result means that it did start.
OneRunPerCall ==
    /\ \A i \in Frames : runs[i] <= 1
    /\ \A j \in 1..Len(out) :
         Kind(out[j].of) = "run" /\ out[j].what = "result" => runs[out[j].of] = 1

\* Every frame is dealt with or the session is over, though no hub request need ever
\* come to an end.
EveryFrameHandled == <>[](\A i \in 1..Len(inbox) : i \in Done \/ pc = "closed")

=============================================================================
