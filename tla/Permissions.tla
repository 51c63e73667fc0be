------------------------------ MODULE Permissions ------------------------------
(***************************************************************************)
(* The permission policy every tool call passes through                    *)
(* (runtime/src/permissions.rs): deny rules, then the override a           *)
(* PreToolUse hook may carry, then ask rules, then allow rules and the     *)
(* comparison of the active mode with the mode the tool requires.          *)
(*                                                                         *)
(* Rule matching on names and inputs is abstracted to which of the three   *)
(* rule lists has a rule that matches the call.                            *)
(***************************************************************************)
EXTENDS Naturals

\* The derived Ord of PermissionMode: the order of declaration.
Modes == {"read-only", "workspace-write", "danger-full-access", "prompt", "allow"}

Rank(mode) ==
    CASE mode = "read-only"          -> 0
      [] mode = "workspace-write"    -> 1
      [] mode = "danger-full-access" -> 2
      [] mode = "prompt"             -> 3
      [] mode = "allow"              -> 4

AtLeast(mode, required) == Rank(mode) >= Rank(required)

\* Which lists of the policy hold a rule that matches the call.
Matches == [deny : BOOLEAN, ask : BOOLEAN, allow : BOOLEAN]

NoRules == [deny |-> FALSE, ask |-> FALSE, allow |-> FALSE]

\* The override of PermissionContext; "none" when no hook spoke.
Overrides == {"none", "allow", "deny", "ask"}

\* What the policy does with a call: "prompt" is prompt_or_deny.
Verdicts == {"allow", "prompt", "deny"}

-----------------------------------------------------------------------------

\* Broken variant: a mode grants its own level only.
GrantedAtLevel(rules, mode, required) ==
    rules.allow \/ mode = "allow" \/ mode = required

\* The condition that appears twice: under a hook's Allow and without one.
Granted(rules, mode, required) ==
    rules.allow \/ mode = "allow" \/ AtLeast(mode, required)

\* The two escalations that are put to the user rather than refused.
MayEscalate(mode, required) ==
    \/ mode = "prompt"
    \/ mode = "workspace-write" /\ required = "danger-full-access"

\* Without a decisive override: ask rules, then allow rules and the mode.
ByRulesAndMode(rules, mode, required) ==
    IF rules.ask THEN "prompt"
    ELSE IF Granted(rules, mode, required) THEN "allow"
    ELSE IF MayEscalate(mode, required) THEN "prompt"
    ELSE "deny"

\* Broken variant: a hook's Allow is final.
HookAllowIsFinal(rules, mode, required) == "allow"

\* A hook's Allow that neither meets an ask rule nor is granted falls
\* through to the evaluation without an override.
UnderHookAllow(rules, mode, required) ==
    IF rules.ask THEN "prompt"
    ELSE IF Granted(rules, mode, required) THEN "allow"
    ELSE ByRulesAndMode(rules, mode, required)

Authorize(rules, override, mode, required) ==
    IF rules.deny THEN "deny"
    ELSE IF override = "deny" THEN "deny"
    ELSE IF override = "ask" THEN "prompt"
    ELSE IF override = "allow" THEN UnderHookAllow(rules, mode, required)
    ELSE ByRulesAndMode(rules, mode, required)

\* The labels parse_permission_mode knows, one of each kind; every other
\* label is the last one's.
ParseMode(label) ==
    CASE label = "full_auto"    -> "danger-full-access"
      [] label = "accept_edits" -> "workspace-write"
      [] label = "plan"         -> "read-only"
      [] OTHER                  -> "prompt"

Labels == {"full_auto", "accept_edits", "plan", "default"}
=============================================================================
