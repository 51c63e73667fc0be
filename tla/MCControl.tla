-------------------------------- MODULE MCControl --------------------------------
(***************************************************************************)
(* The parts of the system that share no state with one another: workers,  *)
(* plan mode, plugins, teams, the files of the REPL, the permission        *)
(* policy, the host agent's models, and the extensions of the dashboard.   *)
(* A behaviour is one of one of them; the others rest.                     *)
(***************************************************************************)
EXTENDS WorkerProperties, PlanMode, Plugins, TeamTasks, ReplSession,
        PermissionDecision, ModelSwap, Extensions, TLC

VARIABLE part

\* One extension depends on the other.
FirstNeedsRest ==
    LET first == CHOOSE e \in Exts : TRUE
    IN [e \in Exts |-> IF e = first THEN Exts \ {first} ELSE {}]

\* Requests are interchangeable, and so are calls of the tool.
Symmetry == Permutations(Threads) \cup Permutations(Tools)

Parts == {"workers", "plan", "plugins", "teams", "repl", "policy", "swap", "extensions"}

controlVars == <<part, vars, planVars, pluginVars, teamVars, replVars, decisionVars, swapVars,
                 extVars>>

\* Of a part that rests there is one initial state.  The program first comes
\* with one version of its plugins: versions differ by nothing but being others.
ControlInit ==
    /\ part \in Parts
    /\ Init /\ PlanInit /\ PluginInit /\ TeamInit /\ ReplInit /\ DecisionInit
    /\ SwapInit /\ ExtInit
    /\ part # "plan" => settings = "unset"
    /\ bundle = [b \in BundledPlugins |-> CHOOSE v \in Versions : TRUE]
    /\ part # "swap" => setup = "compose" /\ env = (CHOOSE m \in Models : TRUE)
                       /\ \A m \in Models : gguf[m] = "whole"
    /\ part # "extensions" => /\ dir = [e \in Exts |-> "none"]
                              /\ composeFlags = {}

ControlNext ==
    \/ /\ part = "workers" /\ Next
       /\ UNCHANGED <<part, planVars, pluginVars, teamVars, replVars, decisionVars, swapVars, extVars>>
    \/ /\ part = "plan" /\ PlanNext
       /\ UNCHANGED <<part, vars, pluginVars, teamVars, replVars, decisionVars, swapVars, extVars>>
    \/ /\ part = "plugins" /\ PluginNext
       /\ UNCHANGED <<part, vars, planVars, teamVars, replVars, decisionVars, swapVars, extVars>>
    \/ /\ part = "teams" /\ TeamNext
       /\ UNCHANGED <<part, vars, planVars, pluginVars, replVars, decisionVars, swapVars, extVars>>
    \/ /\ part = "repl" /\ ReplNext
       /\ UNCHANGED <<part, vars, planVars, pluginVars, teamVars, decisionVars, swapVars, extVars>>
    \/ /\ part = "policy" /\ DecisionNext
       /\ UNCHANGED <<part, vars, planVars, pluginVars, teamVars, replVars, swapVars, extVars>>
    \/ /\ part = "swap" /\ SwapNext
       /\ UNCHANGED <<part, vars, planVars, pluginVars, teamVars, replVars, decisionVars, extVars>>
    \/ /\ part = "extensions" /\ ExtNext
       /\ UNCHANGED <<part, vars, planVars, pluginVars, teamVars, replVars, decisionVars, swapVars>>

ControlSpec == ControlInit /\ [][ControlNext]_controlVars
=============================================================================
