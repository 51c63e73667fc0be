----------------------------- MODULE McpProperties -----------------------------
(***************************************************************************)
(* What the MCP manager owes its callers and its server processes.         *)
(***************************************************************************)
EXTENDS McpManager

\* The state of a server's link, told from the processes and not from the
\* flags of the manager.  "spoiled", a process that owes an answer nobody
\* waits for, is no state of a link.
LinkOf(s) ==
    IF process[s] = 0 THEN "down"
    ELSE IF op.s = s /\ op.pc = "greeting" THEN "greeting"
    ELSE IF op.s = s /\ op.pc = "waiting" THEN "asked"
    ELSE IF Proc(s) \in owing THEN "spoiled"
    ELSE IF Proc(s) \in greeted THEN "ready"
    ELSE "fresh"

Link == INSTANCE McpLink WITH link <- [s \in Servers |-> LinkOf(s)]

\* The manager keeps what McpLink promises: whatever the processes do, none is
\* asked before it answered its own initialize, and one that timed out, or was
\* read out of step, is dropped and not asked again (mcp_stdio.rs:986-1139).
ImplementsLink == Link!Spec

\* Every server process that runs is one the manager holds, so that a reset
\* and a shutdown leave none behind (reset_server, mcp_stdio.rs:986-998).
NoOrphanProcess == \A p \in live : process[p[1]] = p[2]

\* A tool call, which need not be idempotent, is sent at most once, whatever
\* is restarted and retried on the way to it (call_tool, mcp_stdio.rs:624-674).
CallSentOnce == op.kind = "call" => op.sent <= 1

\* A name is routed to a server whose last finished listing has it, however
\* listings fail in between (mcp_stdio.rs:540-580, 736-739).
RoutesAreListed ==
    \A n \in Names : route[n] # NoServer => n \in listed[route[n]]

\* Every tool a report offers to the model is routed when the report is made,
\* and to a server the report calls working (mcp_stdio.rs:555-622).
ReportedToolsAreRouted ==
    [][report' # report =>
        \A n \in report'.tools : route'[n] \in report'.working]_mcpVars

\* Every operation comes to an end, with servers that are silent, that exit
\* and that answer out of turn, if their listings do.
EveryOperationEnds == op.kind # "none" ~> op.kind = "none"
=============================================================================
