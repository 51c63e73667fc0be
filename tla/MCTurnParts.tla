------------------------------ MODULE MCTurnParts ------------------------------
(***************************************************************************)
(* What a turn is made of, in parts that share no state: the loop itself,  *)
(* one request to the model server, the MCP servers behind its tools, and  *)
(* the sub-agents it starts.  A behaviour is one of one part; the others   *)
(* rest.                                                                   *)
(***************************************************************************)
EXTENDS TurnLoop, ModelStream, McpProperties, Agents, TLC

VARIABLE part

\* Two MCP servers whose names normalise alike share a tool name.
TwoOffers == 1 :> {"own", "shared"} @@ 2 :> {"shared"}

partVars == <<part, vars, streamVars, mcpVars, agentVars>>

\* Of a part that rests there is one initial state.
PartsInit ==
    /\ part \in {"loop", "stream", "mcp", "agents"}
    /\ Init /\ StreamInit /\ McpInit /\ AgentInit
    /\ part # "loop" => caller = "repl"
    /\ part # "stream" => reader = "agent"

PartsNext ==
    \/ part = "loop"   /\ Next       /\ UNCHANGED <<part, streamVars, mcpVars, agentVars>>
    \/ part = "stream" /\ StreamNext /\ UNCHANGED <<part, vars, mcpVars, agentVars>>
    \/ part = "mcp"    /\ McpNext    /\ UNCHANGED <<part, vars, streamVars, agentVars>>
    \/ part = "agents" /\ AgentNext  /\ UNCHANGED <<part, vars, streamVars, mcpVars>>

\* While a part rests it has no fair step to take.
PartsSpec == PartsInit /\ [][PartsNext]_partVars /\ McpFairness /\ AgentFairness
=============================================================================
