------------------------------- MODULE Machine -------------------------------
(* The three protocols one machine runs with the hub and the release server:  *)
(* the self-update, sign-in and sign-out, and the MCP server.  They share no   *)
(* state, so a behaviour explores one of them, and the others rest in an       *)
(* initial state.                                                              *)
EXTENDS SelfUpdate

CONSTANTS
    Sessions, UserKeys, Slots, ExchangeAttempts, MaxLogins, MaxMishaps,   \* of SignIn
    MaxFrames, ConnectAttempts, Hard, Budget, Slack, MaxFaults            \* of McpServer

VARIABLES
    part,        \* the protocol explored
    file, live, used, auth, loginPc, held, browser, loginTries, sure, loginSpent, lost,
    signed, inbox, eof, hup, out, next, mcpPc, exit, mcpSpent, worker, tries, result, runs,
    faults

login ==
    <<file, live, used, auth, loginPc, held, browser, loginTries, sure, loginSpent, lost>>
mcp ==
    <<signed, inbox, eof, hup, out, next, mcpPc, exit, mcpSpent, worker, tries, result, runs,
      faults>>

\* SignIn, with what is proved about it.
SI == INSTANCE SignInProofs WITH
    NoKey <- None, Attempts <- ExchangeAttempts,
    pc <- loginPc, tries <- loginTries, spent <- loginSpent

MCP == INSTANCE McpServer WITH
    Attempts <- ConnectAttempts, pc <- mcpPc, spent <- mcpSpent

parts == <<part, vars, login, mcp>>

ASSUME MachineAssumption == SI!SignInAssumption /\ MCP!McpServerAssumption

MachineInit ==
    /\ part \in {"update", "login", "mcp"}
    /\ Init /\ SI!Init /\ MCP!Init

MachineNext ==
    \/ part = "update" /\ Next /\ UNCHANGED <<part, login, mcp>>
    \/ part = "login" /\ SI!Next /\ UNCHANGED <<part, vars, mcp>>
    \/ part = "mcp" /\ MCP!Next /\ UNCHANGED <<part, vars, login>>

\* The fairness of each specification, where it is the one explored.
MachineFairness ==
    /\ \A c \in Procs :
         /\ WF_vars(part = "update" /\ (Launch(c) \/ Command(c) \/ RenameInFails(c)))
         /\ WF_login(part = "login" /\ SI!Command(c))
    /\ WF_vars(part = "update" /\ NextDay)
    /\ WF_mcp(part = "mcp" /\ MCP!Serve)

MachineSpec == MachineInit /\ [][MachineNext]_parts /\ MachineFairness

----------------------------------------------------------------------------

\* The type invariants of the three, with what they bound.
MachineTypeOK == TypeOK /\ SI!TypeOK /\ MCP!TypeOK

\* No session of the account is lost track of without a mishap, or a word to the user.
SlotsAccounted == SI!SlotsAccounted

\* No login and no logout revokes a key the user brought (commands.rs:703-704).
UserKeysSpared == SI!UserKeysSpared

\* Every request on stdin has its own answer on stdout, in the same order (mcp.rs 475-545).
AnswersMatch == MCP!AnswersMatch

\* A start_run frame starts at most one run (mcp.rs 277-300, hub.rs 423-450).
OneRunPerCall == MCP!OneRunPerCall

\* A login or logout ends, and the MCP server deals with every frame, whatever the
\* network does: every wait of the code has a deadline (commands.rs:970, 1037, 1182, hub.rs:592).
AllEnd == SI!CommandsEnd /\ MCP!EveryFrameHandled

=============================================================================
