-------------------------- MODULE PermissionDecision ---------------------------
(***************************************************************************)
(* One call meets the permission policy: every combination of the rules    *)
(* that match it, the override of the hook, the active mode and the mode   *)
(* its tool requires, and the decision (permissions.rs:195-312).           *)
(***************************************************************************)
EXTENDS Permissions

VARIABLES decision

decisionVars == decision

\* The modes the tool specifications require.
Requirements == {"read-only", "workspace-write", "danger-full-access"}

Undecided == [outcome |-> "undecided"]

DecisionInit == decision = Undecided

Decide(rules, override, mode, required) ==
    /\ decision = Undecided
    /\ decision' = [rules |-> rules, override |-> override, mode |-> mode, required |-> required,
                    outcome |-> Authorize(rules, override, mode, required)]

DecisionNext ==
    \E rules \in Matches, override \in Overrides, mode \in Modes, required \in Requirements :
        Decide(rules, override, mode, required)

DecisionSpec == DecisionInit /\ [][DecisionNext]_decisionVars

\* A call that a deny rule or a hook refuses is refused, and one that an ask
\* rule or a hook wants asked is never run without asking, in any mode and
\* whatever the other rules say (permissions.rs:202-277).
RefusedOrAskedIsNotRun ==
    decision.outcome = "allow" =>
        /\ ~decision.rules.deny /\ ~decision.rules.ask
        /\ decision.override \notin {"deny", "ask"}

\* A more permissive mode never refuses what a stricter one allows, nor asks
\* about it (permissions.rs:279-303).  "prompt" is the fourth of the derived
\* order, so it counts as more permissive than danger-full-access.
MoreModeAllowsMore ==
    decision.outcome = "allow" =>
        \A m \in Modes : AtLeast(m, decision.mode) =>
            Authorize(decision.rules, decision.override, m, decision.required) = "allow"

\* agent_bridge.rs:72, where `default` becomes the mode "prompt", and
\* docs/permissions-guide.md:18, where it "Prompts user": without a rule or a
\* hook, a command is put to the user.
DefaultModePrompts ==
    /\ decision # Undecided
    /\ decision.override = "none" /\ decision.rules = NoRules
    /\ decision.mode = ParseMode("default") /\ decision.required = "danger-full-access"
    => decision.outcome = "prompt"
=============================================================================
