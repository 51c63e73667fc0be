-------------------------------- MODULE PlanMode --------------------------------
(***************************************************************************)
(* EnterPlanMode, ExitPlanMode and Config (tools/src/lib.rs) on the two    *)
(* files they share: settings.local.json and tool-state/plan-mode.json.    *)
(*                                                                         *)
(* The tools take no lock.  A step is one access to a file; calls of       *)
(* several turns or sub-agents in one worktree may overlap, and the        *)
(* process may be killed between two accesses or inside a write, which     *)
(* truncates before it writes.                                             *)
(***************************************************************************)
EXTENDS FiniteSets

CONSTANTS
    Callers,    \* threads that may call the tools
    LocalModes  \* what permissions.defaultMode may be set to, "plan" among them

ASSUME PlanAssumption == {"plan", "default"} \subseteq LocalModes

VARIABLES
    settings,   \* settings.local.json, told by its permissions.defaultMode
    plan_state, \* plan-mode.json, told by its previous_local_mode
    call,       \* the call each thread is in
    overlapped, \* history: two calls were under way at once
    overrides,  \* history: what plan mode stands for, if EnterPlanMode set it
    crashed     \* history: the process was killed

planVars == <<settings, plan_state, call, overlapped, overrides, crashed>>

\* "unset": the document has no such key, as has an empty or a missing file.
Documents == LocalModes \cup {"unset", "torn"}

\* "none": no state file, or an empty one.
PlanStates == LocalModes \cup {"unset", "none", "torn"}

NoCall == [op |-> "none", pc |-> "idle", read |-> "unset", write |-> "unset"]

PlanTypeOK ==
    /\ settings \in Documents
    /\ plan_state \in PlanStates
    /\ call \in [Callers -> [op : {"none", "enter", "exit", "config"},
                             pc : {"idle", "settings", "state", "clear", "save", "write",
                                   "cleanup"},
                             read : Documents, write : Documents]]
    /\ overlapped \in BOOLEAN /\ crashed \in BOOLEAN
    /\ overrides \in Documents \cup {"none"}

PlanInit ==
    /\ settings \in {"unset", "plan", "default"}
    /\ plan_state = "none"
    /\ call = [c \in Callers |-> NoCall]
    /\ overlapped = FALSE /\ crashed = FALSE
    /\ overrides = "none"

Idle(c) == call[c].pc = "idle"

Goes(c, pc) == call' = [call EXCEPT ![c].pc = pc]
Returns(c)  == call' = [call EXCEPT ![c] = NoCall]

-----------------------------------------------------------------------------

\* A call begins.  Config may set the mode or another key of the document.
BeginPlanCall(c, op, value) ==
    /\ Idle(c)
    /\ call' = [call EXCEPT ![c] = [NoCall EXCEPT !.op = op, !.pc = "settings", !.write = value]]
    /\ overlapped' = (overlapped \/ \E d \in Callers : ~Idle(d))
    /\ UNCHANGED <<settings, plan_state, overrides, crashed>>

\* read_json_object: a document that does not parse ends the call.
ReadSettings(c) ==
    /\ call[c].pc = "settings"
    /\ \/ settings = "torn" /\ Returns(c)
       \/ /\ settings # "torn"
          /\ call' = [call EXCEPT
                        ![c].read = settings,
                        ![c].pc = IF call[c].op = "config" THEN "write" ELSE "state",
                        \* another key was set: the mode is written as it was read
                        ![c].write = IF call[c].op = "config" /\ @ = "unset"
                                     THEN settings ELSE @]
    /\ UNCHANGED <<settings, plan_state, overlapped, overrides, crashed>>

\* execute_enter_plan_mode after its reads: in plan mode there is nothing to
\* do; a state that is left from before is cleared first.
EnterReadsState(c) ==
    /\ call[c].op = "enter" /\ call[c].pc = "state"
    /\ \/ plan_state = "torn" /\ Returns(c)
       \/ plan_state # "torn" /\ call[c].read = "plan" /\ Returns(c)
       \/ plan_state \notin {"torn", "none"} /\ call[c].read # "plan" /\ Goes(c, "clear")
       \/ plan_state = "none" /\ call[c].read # "plan" /\ Goes(c, "save")
    /\ UNCHANGED <<settings, plan_state, overlapped, overrides, crashed>>

EnterClears(c) ==
    /\ call[c].op = "enter" /\ call[c].pc = "clear"
    /\ plan_state' = "none"
    /\ Goes(c, "save")
    /\ UNCHANGED <<settings, overlapped, overrides, crashed>>

EnterSaves(c) ==
    /\ call[c].op = "enter" /\ call[c].pc = "save"
    /\ plan_state' = call[c].read
    /\ call' = [call EXCEPT ![c].pc = "write", ![c].write = "plan"]
    /\ UNCHANGED <<settings, overlapped, overrides, crashed>>

\* Broken variant: the state is cleared before the settings are written.
ExitReadsStateAndClears(c) ==
    /\ call[c].op = "exit" /\ call[c].pc = "state"
    /\ \/ plan_state \in {"torn", "none"} /\ Returns(c) /\ UNCHANGED plan_state
       \/ /\ plan_state \notin {"torn", "none"}
          /\ plan_state' = "none"
          /\ IF call[c].read = "plan"
             THEN call' = [call EXCEPT ![c].pc = "write", ![c].write = plan_state]
             ELSE Returns(c)
    /\ UNCHANGED <<settings, overlapped, overrides, crashed>>

\* execute_exit_plan_mode after its reads: without a state nothing is done,
\* and a state whose plan mode is over is only cleared.
ExitReadsState(c) ==
    /\ call[c].op = "exit" /\ call[c].pc = "state"
    /\ \/ plan_state \in {"torn", "none"} /\ Returns(c)
       \/ /\ plan_state \notin {"torn", "none"}
          /\ IF call[c].read = "plan"
             THEN call' = [call EXCEPT ![c].pc = "write", ![c].write = plan_state]
             ELSE Goes(c, "cleanup")
    /\ UNCHANGED <<settings, plan_state, overlapped, overrides, crashed>>

\* write_json_object, with the document as it was read but for the one key.
\* A write that leaves plan mode where it is does not end an override.
WriteSettings(c) ==
    /\ call[c].pc = "write"
    /\ settings' = call[c].write
    /\ overrides' = IF call[c].op = "enter" THEN settings
                    ELSE IF call[c].write = "plan" THEN overrides
                    ELSE "none"
    /\ IF call[c].op = "exit" THEN Goes(c, "cleanup") ELSE Returns(c)
    /\ UNCHANGED <<plan_state, overlapped, crashed>>

ExitCleansUp(c) ==
    /\ call[c].op = "exit" /\ call[c].pc = "cleanup"
    /\ plan_state' = "none"
    /\ Returns(c)
    /\ UNCHANGED <<settings, overlapped, overrides, crashed>>

\* Bound: once.  If a write was under way the file is cut short, or empty.
PlanKilled ==
    /\ ~crashed /\ crashed' = TRUE
    /\ \/ UNCHANGED <<settings, plan_state, overrides>>
       \/ /\ \E c \in Callers : call[c].pc = "write"
          /\ settings' \in {"torn", "unset"}
          /\ overrides' = "none"
          /\ UNCHANGED plan_state
       \/ /\ \E c \in Callers : call[c].op = "enter" /\ call[c].pc = "save"
          /\ plan_state' \in {"torn", "none"}
          /\ UNCHANGED <<settings, overrides>>
    /\ call' = [c \in Callers |-> NoCall]
    /\ UNCHANGED overlapped

-----------------------------------------------------------------------------

PlanNext ==
    \/ \E c \in Callers :
          \/ BeginPlanCall(c, "enter", "unset") \/ BeginPlanCall(c, "exit", "unset")
          \/ \E value \in LocalModes \cup {"unset"} : BeginPlanCall(c, "config", value)
          \/ ReadSettings(c) \/ EnterReadsState(c) \/ EnterClears(c) \/ EnterSaves(c)
          \/ ExitReadsState(c) \/ WriteSettings(c) \/ ExitCleansUp(c)
    \/ PlanKilled

PlanSpec == PlanInit /\ [][PlanNext]_planVars

-----------------------------------------------------------------------------

\* A plan mode that EnterPlanMode set can be left again: whenever its calls do
\* not overlap, and wherever the process is killed, the state file says which
\* mode it stands for (execute_enter_plan_mode, execute_exit_plan_mode).
PlanIsReversible ==
    ~overlapped /\ overrides # "none" => settings = "plan" /\ plan_state = overrides
=============================================================================
