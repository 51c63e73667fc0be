------------------------------- MODULE McpManager -------------------------------
(***************************************************************************)
(* The MCP server manager (runtime/src/mcp_stdio.rs) and the server        *)
(* processes it talks to over pipes.  The manager does one operation at a  *)
(* time: its callers hold a mutex around it.  What runs beside it are the  *)
(* processes, which may answer well, answer badly, stay silent or exit.    *)
(*                                                                         *)
(* A step of the manager is what it does between two awaits on a process.  *)
(* Request ids are abstracted to whether a process still owes an answer:   *)
(* the next frame read from one that does is not the answer to the next    *)
(* request.                                                                *)
(***************************************************************************)
EXTENDS Integers, FiniteSets

CONSTANTS
    Servers,      \* stdio servers, in the order of their names
    Names,        \* qualified tool names
    Offers,       \* the tool names each server may list
    NoServer,     \* absence of a server
    Slots,        \* numbers that tell processes of one server apart, reused
    MaxPages      \* bound: pages of one listing

ASSUME McpAssumption ==
    /\ Servers \subseteq Nat
    /\ NoServer \notin Servers
    /\ Offers \in [Servers -> SUBSET Names]
    /\ Slots \subseteq Nat \ {0}
    /\ MaxPages \in Nat \ {0}

VARIABLES
    process,      \* ManagedMcpServer::process: the slot of the child, 0 for none
    initialized,  \* ManagedMcpServer::initialized
    route,        \* tool_index: the server a qualified name goes to
    op,           \* the operation under way
    report,       \* what the last operation reported, if it was a best-effort discovery
    live,         \* the server processes that run
    greeted,      \* history: those that answered their initialize
    owing,        \* those with a request they have not answered
    listed        \* history: the names of each server's last finished listing

held  == <<process, initialized>>
procs == <<live, greeted, owing>>
mcpVars  == <<held, route, op, report, procs, listed>>

Pid == Servers \X Slots
Proc(s) == <<s, process[s]>>

Discoveries == {"discover", "best_effort"}
Retried     == Discoveries \cup {"list", "read"}
Kinds       == Retried \cup {"call", "shutdown"}

\* Where an operation is: in ensure_server_ready, about to send initialize or
\* waiting for it, about to send its own request or waiting for that, or
\* taking the servers down.
Waiting == {"greeting", "waiting"}
OpPc    == {"ensure", "spawn", "greet", "request", "shut"} \cup Waiting

NoOp == [kind |-> "none", pc |-> "idle", s |-> NoServer, todo |-> {}, tries |-> 0,
         inits |-> 0, page |-> 0, found |-> {}, sent |-> 0, good |-> {}, bad |-> {}]

OpType ==
    [kind : Kinds \cup {"none"}, pc : OpPc \cup {"idle"}, s : Servers \cup {NoServer},
     todo : SUBSET Servers, tries : {0, 1}, inits : {0, 1}, page : Nat,
     found : SUBSET Names, sent : Nat, good : SUBSET Names, bad : SUBSET Servers]

NoReport == [tools |-> {}, working |-> {}, failed |-> {}]

McpTypeOK ==
    /\ process \in [Servers -> Slots \cup {0}]
    /\ initialized \in [Servers -> BOOLEAN]
    /\ route \in [Names -> Servers \cup {NoServer}]
    /\ op \in OpType
    /\ report \in [tools : SUBSET Names, working : SUBSET Servers, failed : SUBSET Servers]
    /\ live \subseteq Pid /\ greeted \subseteq Pid /\ owing \subseteq Pid
    /\ listed \in [Servers -> SUBSET Names]

McpInit ==
    /\ process = [s \in Servers |-> 0]
    /\ initialized = [s \in Servers |-> FALSE]
    /\ route = [n \in Names |-> NoServer]
    /\ op = NoOp
    /\ report = NoReport
    /\ live = {} /\ greeted = {} /\ owing = {}
    /\ listed = [s \in Servers |-> {}]

First(todo) == CHOOSE s \in todo : \A t \in todo : s <= t

-----------------------------------------------------------------------------
(***************************************************************************)
(* The processes.                                                          *)
(***************************************************************************)

\* A server process may exit at any time.
Exit(p) ==
    /\ p \in live
    /\ live' = live \ {p}
    /\ UNCHANGED <<held, route, op, report, greeted, owing, listed>>

\* What is left of the processes once p is killed and waited for.
Killed(p) ==
    /\ live' = live \ {p}
    /\ greeted' = greeted \ {p}
    /\ owing' = owing \ {p}

\* Broken variant: the process is taken out and not killed.
ResetKeepsProcess(s) ==
    /\ process' = [process EXCEPT ![s] = 0]
    /\ initialized' = [initialized EXCEPT ![s] = FALSE]
    /\ UNCHANGED procs

\* reset_server: the process, if there is one, is taken out and killed.
Reset(s) ==
    /\ process' = [process EXCEPT ![s] = 0]
    /\ initialized' = [initialized EXCEPT ![s] = FALSE]
    /\ Killed(Proc(s))

-----------------------------------------------------------------------------
(***************************************************************************)
(* Operations and how they end.                                            *)
(***************************************************************************)

\* discover_tools and its best-effort form go through the servers in order;
\* list_resources and read_resource name a server of the manager.
Begin(kind) ==
    /\ op.kind = "none"
    /\ \/ /\ kind \in Discoveries
          /\ Servers # {}
          /\ op' = [NoOp EXCEPT !.kind = kind, !.pc = "ensure", !.todo = Servers \ {First(Servers)},
                                !.s = First(Servers)]
       \/ /\ kind \in {"list", "read"}
          /\ \E s \in Servers : op' = [NoOp EXCEPT !.kind = kind, !.pc = "ensure", !.s = s]
       \/ /\ kind = "shutdown"
          /\ op' = [NoOp EXCEPT !.kind = kind, !.pc = "shut", !.todo = Servers]
    /\ report' = NoReport
    /\ UNCHANGED <<held, route, procs, listed>>

\* call_tool: a name without a route is an unknown tool and nothing is done.
BeginCall(n) ==
    /\ op.kind = "none"
    /\ route[n] # NoServer
    /\ op' = [NoOp EXCEPT !.kind = "call", !.pc = "ensure", !.s = route[n]]
    /\ report' = NoReport
    /\ UNCHANGED <<held, route, procs, listed>>

\* On to the next server of a discovery.
NextServer(done) ==
    [done EXCEPT !.s = First(done.todo), !.todo = done.todo \ {First(done.todo)},
                 !.pc = "ensure", !.tries = 0, !.inits = 0, !.page = 0, !.found = {}]

\* The loop over the servers goes on, or ends with its report.
Continue(done) ==
    IF done.todo # {} THEN op' = NextServer(done) /\ UNCHANGED report
    ELSE /\ op' = NoOp
         /\ report' = IF done.kind = "best_effort"
                      THEN [tools |-> done.good, working |-> Servers \ done.bad,
                            failed |-> done.bad]
                      ELSE report

Cleared(s) == [n \in Names |-> IF route[n] = s THEN NoServer ELSE route[n]]

\* Broken variant: the old routes are cleared after the new ones are in.
RoutesClearedLast(s, found) == [n \in Names |-> IF route[n] = s THEN NoServer
                                                ELSE IF n \in found THEN s ELSE route[n]]

\* The routes after the listing of a server.
Rerouted(s, found) == [n \in Names |-> IF n \in found THEN s ELSE Cleared(s)[n]]

\* A listing has reached its last page.
Listed(s, found) ==
    /\ route' = Rerouted(s, found)
    /\ listed' = [listed EXCEPT ![s] = found]
    /\ Continue([op EXCEPT !.good = @ \cup found])

\* The operation on the server fails: a strict discovery ends there, with the
\* routes as they are; a best-effort one clears the server's routes, notes
\* the failure and goes on.
Surface(s) ==
    IF op.kind = "best_effort"
    THEN /\ route' = Cleared(s)
         /\ Continue([op EXCEPT !.bad = @ \cup {s}])
         /\ UNCHANGED listed
    ELSE op' = NoOp /\ UNCHANGED <<route, report, listed>>

Errors == {"Io", "Transport", "Timeout", "InvalidResponse", "JsonRpc"}

IsRetryable(error) == error \in {"Transport", "Timeout"}

\* Broken variant: a process that timed out is kept.
ShouldResetUnlessLate(error) == error \in {"Transport", "InvalidResponse"}

ShouldReset(error) == error \in {"Transport", "Timeout", "InvalidResponse"}

\* The process stays; a JSON-RPC error was an answer.
Kept(s, error) ==
    /\ owing' = IF error = "JsonRpc" THEN owing \ {Proc(s)} ELSE owing
    /\ UNCHANGED <<held, live, greeted>>

\* Broken variant: a retry is not counted.
RetryUncounted ==
    /\ op' = [op EXCEPT !.pc = "ensure", !.inits = 0, !.page = 0, !.found = {}]
    /\ UNCHANGED <<route, report, listed>>

\* The loop around an operation starts over.
Retry ==
    /\ op' = [op EXCEPT !.pc = "ensure", !.tries = @ + 1, !.inits = 0, !.page = 0, !.found = {}]
    /\ UNCHANGED <<route, report, listed>>

\* Broken variants: a call is retried like the rest; one more retry is allowed.
AfterErrorRetryingCalls(s, error) ==
    /\ IF ShouldReset(error) THEN Reset(s) ELSE Kept(s, error)
    /\ IF IsRetryable(error) /\ op.tries = 0 THEN Retry ELSE Surface(s)

AfterErrorOnceMore(s, error) ==
    /\ IF ShouldReset(error) THEN Reset(s) ELSE Kept(s, error)
    /\ IF IsRetryable(error) /\ op.kind \in Retried /\ op.tries <= 1 THEN Retry ELSE Surface(s)

\* The loops around the operations: a retryable first failure resets the
\* server and starts over; any other resets if it must and is returned.  A
\* call is never retried.
AfterError(s, error) ==
    /\ IF ShouldReset(error) THEN Reset(s) ELSE Kept(s, error)
    /\ IF IsRetryable(error) /\ op.kind \in Retried /\ op.tries = 0 THEN Retry ELSE Surface(s)

-----------------------------------------------------------------------------
(***************************************************************************)
(* ensure_server_ready.                                                    *)
(***************************************************************************)

\* A process found to have exited is dropped first.
EnsureReady(s) ==
    /\ op.pc = "ensure" /\ op.s = s
    /\ IF process[s] # 0 /\ Proc(s) \notin live THEN Reset(s) ELSE UNCHANGED <<held, procs>>
    /\ op' = [op EXCEPT !.pc = "spawn"]
    /\ UNCHANGED <<route, report, listed>>

\* The loop: a process is there, greeted or not.
HasProcess(s) ==
    /\ op.pc = "spawn" /\ op.s = s
    /\ process[s] # 0
    /\ op' = [op EXCEPT !.pc = IF initialized[s] THEN "request" ELSE "greet"]
    /\ UNCHANGED <<held, route, report, procs, listed>>

\* Or one is spawned, in a slot no running process has.
Spawn(s) ==
    /\ op.pc = "spawn" /\ op.s = s
    /\ process[s] = 0
    /\ \E n \in Slots :
          /\ <<s, n>> \notin live
          /\ process' = [process EXCEPT ![s] = n]
          /\ live' = live \cup {<<s, n>>}
          /\ greeted' = greeted \ {<<s, n>>}
          /\ owing' = owing \ {<<s, n>>}
    \* the flag is cleared, and a process that was not greeted is greeted
    /\ initialized' = [initialized EXCEPT ![s] = FALSE]
    /\ op' = [op EXCEPT !.pc = "greet"]
    /\ UNCHANGED <<route, report, listed>>

SpawnFails(s) ==
    /\ op.pc = "spawn" /\ op.s = s
    /\ process[s] = 0
    /\ AfterError(s, "Io")

\* A request is written to the process.
Send(s, from, to) ==
    /\ op.pc = from /\ op.s = s
    /\ op' = [op EXCEPT !.pc = to, !.sent = IF op.kind = "call" /\ from = "request"
                                           THEN @ + 1 ELSE @]
    /\ owing' = owing \cup {Proc(s)}
    /\ UNCHANGED <<held, route, report, live, greeted, listed>>

SendInitialize(s) == Send(s, "greet", "greeting")

\* The answer to initialize is a result.
Greeted(s) ==
    /\ op.pc = "greeting" /\ op.s = s
    /\ Proc(s) \in live
    /\ initialized' = [initialized EXCEPT ![s] = TRUE]
    /\ owing' = owing \ {Proc(s)}
    /\ greeted' = greeted \cup {Proc(s)}
    /\ op' = [op EXCEPT !.pc = "request"]
    /\ UNCHANGED <<process, route, report, live, listed>>

\* What reading an answer may end in: the process is gone or its pipe closed,
\* it is silent until the timeout, what it sends is no answer to the request
\* or has no result, or it answers with an error.
ReadErrors(s) ==
    IF Proc(s) \in live THEN Errors \ {"Io"} ELSE {"Transport"}

\* initialize fails: the first retryable failure starts another process.
GreetingFails(s) ==
    /\ op.pc = "greeting" /\ op.s = s
    /\ \E error \in ReadErrors(s) :
         \/ /\ IsRetryable(error) /\ op.inits = 0
            /\ Reset(s)
            /\ op' = [op EXCEPT !.pc = "spawn", !.inits = 1]
            /\ UNCHANGED <<route, report, listed>>
         \/ /\ ~(IsRetryable(error) /\ op.inits = 0)
            /\ AfterError(s, error)

-----------------------------------------------------------------------------
(***************************************************************************)
(* The operations' own requests.                                           *)
(***************************************************************************)

SendRequest(s) == Send(s, "request", "waiting")

\* A page of a listing; names other than tools are not told apart.
Page(s) ==
    /\ op.pc = "waiting" /\ op.s = s
    /\ op.kind \in Discoveries \cup {"list"}
    /\ Proc(s) \in live
    /\ op.page + 1 < MaxPages
    /\ \E names \in SUBSET (IF op.kind = "list" THEN {} ELSE Offers[s]) :
          op' = [op EXCEPT !.pc = "request", !.page = @ + 1, !.found = @ \cup names]
    /\ owing' = owing \ {Proc(s)}
    /\ UNCHANGED <<held, route, report, live, greeted, listed>>

\* The answer that ends the operation on this server: the last page, the
\* resource, or what the tool returned, an error of the tool's included.
AnswerEnds(s) ==
    /\ op.pc = "waiting" /\ op.s = s
    /\ Proc(s) \in live
    /\ owing' = owing \ {Proc(s)}
    /\ \/ /\ op.kind \in Discoveries
          /\ \E names \in SUBSET Offers[s] : Listed(s, op.found \cup names)
       \/ /\ op.kind \in {"list", "read", "call"}
          /\ op' = NoOp
          /\ UNCHANGED <<route, report, listed>>
    /\ UNCHANGED <<held, live, greeted>>

\* A JSON-RPC error answers a call; for the others it is a failure.
AskFails(s) ==
    /\ op.pc = "waiting" /\ op.s = s
    /\ \E error \in ReadErrors(s) \ (IF op.kind = "call" THEN {"JsonRpc"} ELSE {}) :
          AfterError(s, error)

\* shutdown: one server after the other.  Killing a child of one's own is taken
\* to succeed, here and in reset_server, which looks at no error.
Shutdown(s) ==
    /\ op.pc = "shut" /\ op.todo # {} /\ s = First(op.todo)
    /\ Reset(s)
    /\ op' = IF op.todo = {s} THEN NoOp ELSE [op EXCEPT !.todo = @ \ {s}]
    /\ UNCHANGED <<route, report, listed>>

\* A child that cannot be looked at, or not waited for once it is killed, ends
\* the shutdown: it is still held, and so are those after it.
ShutdownFails(s) ==
    /\ op.pc = "shut" /\ op.todo # {} /\ s = First(op.todo)
    /\ process[s] # 0
    /\ live' \in {live, live \ {Proc(s)}}
    /\ op' = NoOp
    /\ UNCHANGED <<held, route, report, greeted, owing, listed>>

-----------------------------------------------------------------------------

ManagerStep(s) ==
    \/ EnsureReady(s) \/ HasProcess(s) \/ Spawn(s) \/ SpawnFails(s)
    \/ SendInitialize(s) \/ Greeted(s) \/ GreetingFails(s)
    \/ SendRequest(s) \/ Page(s) \/ AnswerEnds(s) \/ AskFails(s)
    \/ Shutdown(s) \/ ShutdownFails(s)

McpNext ==
    \/ \E kind \in Kinds : Begin(kind)
    \/ \E n \in Names : BeginCall(n)
    \/ \E s \in Servers : ManagerStep(s)
    \/ \E p \in live : Exit(p)

McpSpec == McpInit /\ [][McpNext]_mcpVars

(***************************************************************************)
(* Fairness: the runtime that blocks on an operation polls it to its next  *)
(* await, and a read from a silent process ends with the timeout.  Nothing *)
(* is asked of the server processes.                                       *)
(***************************************************************************)
McpFairness == WF_mcpVars(\E s \in Servers : ManagerStep(s))
=============================================================================
