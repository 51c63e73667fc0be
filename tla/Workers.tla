--------------------------------- MODULE Workers --------------------------------
(***************************************************************************)
(* The worker registry (runtime/src/worker_boot.rs) and the recovery of    *)
(* failed workers (runtime/src/recovery_recipes.rs).                       *)
(*                                                                         *)
(* A coding worker is a program in a terminal.  The registry knows of it   *)
(* only what clients feed it: snapshots of its screen.  Any snapshot may   *)
(* come at any time, since snapshots are taken by one client while another *)
(* acts and may be old, or repeated, when they are handed in.  Every       *)
(* operation holds the registry's lock from its first read to its last     *)
(* write, so that each is one step.                                        *)
(***************************************************************************)
EXTENDS Naturals

CONSTANTS
    WorkerIds,     \* the ids the registry may still hand out
    Prompts,       \* task prompts
    None,          \* absence: no prompt, no error, no worker
    Raised,        \* the scenarios that others than workers raise
    MaxAttempts,   \* bound: prompts sent to one worker between two restarts
    MaxEscalations \* bound: escalations of one scenario counted

ASSUME WorkersAssumption ==
    /\ None \notin Prompts
    /\ Raised \subseteq {"StaleBranch", "CompileRedCrossCrate", "PartialPluginStartup"}
    /\ MaxAttempts \in Nat /\ MaxEscalations \in Nat

VARIABLES
    worker,    \* WorkerRegistryInner::workers
    lost,      \* history: misdeliveries found, of each worker since it booted
    attempts,  \* RecoveryContext::attempts
    outcome    \* history: recipes run for each scenario, and escalations beyond

vars == <<worker, lost, attempts, outcome>>

Statuses == {"Spawning", "TrustRequired", "ReadyForPrompt", "Running", "Finished", "Failed"}

\* WorkerFailureKind; nothing in the repository raises Protocol.
FailureKinds == {"TrustGate", "PromptDelivery", "Protocol", "Provider"}

Worker ==
    [status : Statuses, auto_resolve : BOOLEAN, cleared : BOOLEAN, auto_recover : BOOLEAN,
     tried : Nat, in_flight : BOOLEAN, last : Prompts \cup {None},
     replay : Prompts \cup {None}, error : FailureKinds \cup {None}]

ASSUME NoneIsNoWorker == None \notin Worker

Scenarios ==
    {"TrustPromptUnresolved", "PromptMisdelivery", "StaleBranch", "CompileRedCrossCrate",
     "McpHandshakeFailure", "PartialPluginStartup", "ProviderFailure"}

TypeOK ==
    /\ worker \in [WorkerIds -> Worker \cup {None}]
    /\ lost \in [WorkerIds -> Nat]
    /\ attempts \in [Scenarios -> Nat]
    /\ outcome \in [Scenarios -> [run : Nat, escalated : Nat]]

Init ==
    /\ worker = [w \in WorkerIds |-> None]
    /\ lost = [w \in WorkerIds |-> 0]
    /\ attempts = [f \in Scenarios |-> 0]
    /\ outcome = [f \in Scenarios |-> [run |-> 0, escalated |-> 0]]

Known(w) == worker[w] # None

Becomes(w, record) == worker' = [worker EXCEPT ![w] = record]

-----------------------------------------------------------------------------
(***************************************************************************)
(* Operations of clients.                                                  *)
(***************************************************************************)

\* create: the trust gate is resolved by itself for allowlisted directories.
Create(w, auto_resolve, auto_recover) ==
    /\ ~Known(w)
    /\ Becomes(w, [status |-> "Spawning", auto_resolve |-> auto_resolve, cleared |-> FALSE,
                   auto_recover |-> auto_recover, tried |-> 0, in_flight |-> FALSE,
                   last |-> None, replay |-> None, error |-> None])
    /\ UNCHANGED <<lost, attempts, outcome>>

ResolveTrust(w) ==
    /\ Known(w) /\ worker[w].status = "TrustRequired"
    /\ Becomes(w, [worker[w] EXCEPT !.cleared = TRUE, !.error = None, !.status = "Spawning"])
    /\ UNCHANGED <<lost, attempts, outcome>>

\* Broken variant: the replay is not used up.
SendPromptKeepingReplay(w, prompt) ==
    /\ Known(w) /\ worker[w].status = "ReadyForPrompt"
    /\ worker[w].tried < MaxAttempts
    /\ LET next == IF prompt # None THEN prompt ELSE worker[w].replay IN
         /\ next # None
         /\ Becomes(w, [worker[w] EXCEPT !.tried = @ + 1, !.in_flight = TRUE, !.last = next,
                                         !.error = None, !.status = "Running"])
    /\ UNCHANGED <<lost, attempts, outcome>>

\* send_prompt: the client's prompt or else the armed replay.
SendPrompt(w, prompt) ==
    /\ Known(w) /\ worker[w].status = "ReadyForPrompt"
    /\ worker[w].tried < MaxAttempts
    /\ LET next == IF prompt # None THEN prompt ELSE worker[w].replay IN
         /\ next # None
         /\ Becomes(w, [worker[w] EXCEPT !.tried = @ + 1, !.in_flight = TRUE, !.last = next,
                                         !.replay = None, !.error = None, !.status = "Running"])
    /\ UNCHANGED <<lost, attempts, outcome>>

Restart(w) ==
    /\ Known(w)
    /\ Becomes(w, [worker[w] EXCEPT !.status = "Spawning", !.cleared = FALSE, !.last = None,
                                    !.replay = None, !.error = None, !.tried = 0,
                                    !.in_flight = FALSE])
    /\ lost' = [lost EXCEPT ![w] = 0]
    /\ UNCHANGED <<attempts, outcome>>

\* terminate asks for no status, and leaves an armed replay and an error.
Terminate(w) ==
    /\ Known(w)
    /\ Becomes(w, [worker[w] EXCEPT !.status = "Finished", !.in_flight = FALSE])
    /\ UNCHANGED <<lost, attempts, outcome>>

\* observe_completion, for any status: degraded is a finish of "error", or of
\* "unknown" without a token.
ObserveCompletion(w, degraded) ==
    /\ Known(w)
    /\ Becomes(w, [worker[w] EXCEPT !.status = IF degraded THEN "Failed" ELSE "Finished",
                                    !.error = IF degraded THEN "Provider" ELSE None,
                                    !.in_flight = FALSE])
    /\ UNCHANGED <<lost, attempts, outcome>>

-----------------------------------------------------------------------------
(***************************************************************************)
(* observe.                                                                *)
(***************************************************************************)

\* The cues a screen may show, together or alone: a trust prompt, a shell
\* that was given a prompt, activity, an input line.
Screens ==
    [trust : BOOLEAN, shell_got : Prompts \cup {None}, active : BOOLEAN, ready : BOOLEAN]

\* A trust prompt that is not resolved: on an allowlisted directory it is
\* resolved at once and the rest of the screen is read, else it blocks.
TrustGate(w, screen) == ~worker[w].cleared /\ screen.trust

ObserveTrustPrompt(w, screen) ==
    /\ Known(w) /\ TrustGate(w, screen) /\ ~worker[w].auto_resolve
    /\ Becomes(w, [worker[w] EXCEPT !.status = "TrustRequired", !.error = "TrustGate"])
    /\ UNCHANGED <<lost, attempts, outcome>>

PastTrust(w, screen) ==
    IF TrustGate(w, screen)
    THEN [worker[w] EXCEPT !.cleared = TRUE, !.error = None, !.status = "Spawning"]
    ELSE worker[w]

MayRead(w, screen) == Known(w) /\ (TrustGate(w, screen) => worker[w].auto_resolve)

\* Broken variant: a prompt the worker is already working on is relevant too.
MisdeliveredWhenever(w, screen) ==
    worker[w].last # None /\ screen.shell_got = worker[w].last

Misdelivered(w, screen) ==
    worker[w].in_flight /\ worker[w].last # None /\ screen.shell_got = worker[w].last

\* The prompt in flight landed in a shell: it is armed for a replay if the
\* worker was created so, else the worker has failed.
ObserveMisdelivery(w, screen) ==
    /\ MayRead(w, screen) /\ Misdelivered(w, screen)
    /\ LET past == [PastTrust(w, screen) EXCEPT !.error = "PromptDelivery", !.in_flight = FALSE]
       IN  Becomes(w, IF past.auto_recover
                      THEN [past EXCEPT !.replay = past.last, !.status = "ReadyForPrompt"]
                      ELSE [past EXCEPT !.status = "Failed"])
    /\ lost' = [lost EXCEPT ![w] = @ + 1]
    /\ UNCHANGED <<attempts, outcome>>

AfterActivity(record, screen) ==
    IF screen.active /\ record.in_flight
    THEN [record EXCEPT !.in_flight = FALSE, !.status = "Running", !.error = None]
    ELSE record

\* Broken variant: the input line is shown, the prompt is still in flight.
AfterInputLineInFlight(record, screen) ==
    IF screen.ready /\ record.status # "ReadyForPrompt"
    THEN [record EXCEPT !.status = "ReadyForPrompt",
                        !.error = IF @ = "TrustGate" THEN None ELSE @]
    ELSE record

AfterInputLine(record, screen) ==
    IF screen.ready /\ record.status # "ReadyForPrompt"
    THEN [record EXCEPT !.status = "ReadyForPrompt", !.in_flight = FALSE,
                        !.error = IF @ = "TrustGate" THEN None ELSE @]
    ELSE record

ObserveCues(w, screen) ==
    /\ MayRead(w, screen) /\ ~Misdelivered(w, screen)
    /\ Becomes(w, AfterInputLine(AfterActivity(PastTrust(w, screen), screen), screen))
    /\ UNCHANGED <<lost, attempts, outcome>>

-----------------------------------------------------------------------------
(***************************************************************************)
(* Recovery: a failure becomes a scenario, whose recipe is tried once.     *)
(***************************************************************************)

\* FailureScenario::from_worker_failure_kind.
ScenarioOf(kind) ==
    CASE kind = "TrustGate"      -> "TrustPromptUnresolved"
      [] kind = "PromptDelivery" -> "PromptMisdelivery"
      [] kind = "Protocol"       -> "McpHandshakeFailure"
      [] kind = "Provider"       -> "ProviderFailure"

\* recipe_for: how many steps, and how many attempts before escalation.
Steps(scenario) == IF scenario \in {"StaleBranch", "PartialPluginStartup"} THEN 2 ELSE 1

RecipeAttempts == 1

\* The step that fails, counted from 0; beyond the last one none does.  A
\* recovery whose first step fails is escalated at once.
ResultOf(scenario, fail_at) ==
    IF fail_at >= Steps(scenario) THEN "Recovered"
    ELSE IF fail_at = 0 THEN "EscalationRequired"
    ELSE "PartialRecovery"

\* Broken variant: only a full recovery counts as an attempt.
CountedIfRecovered(scenario, result) ==
    attempts' = IF result = "Recovered" THEN [attempts EXCEPT ![scenario] = @ + 1] ELSE attempts

Counted(scenario, result) == attempts' = [attempts EXCEPT ![scenario] = @ + 1]

\* attempt_recovery.
AttemptRecovery(scenario, fail_at) ==
    \/ /\ attempts[scenario] >= RecipeAttempts
       /\ outcome[scenario].escalated < MaxEscalations
       /\ outcome' = [outcome EXCEPT ![scenario].escalated = @ + 1]
       /\ UNCHANGED attempts
    \/ /\ attempts[scenario] < RecipeAttempts
       /\ Counted(scenario, ResultOf(scenario, fail_at))
       /\ outcome' = [outcome EXCEPT ![scenario].run = @ + 1]

\* A supervisor takes a worker's failure to its scenario; the recipe's steps
\* are only named by the code, and carried out by whoever asked.
Recover(w, fail_at) ==
    /\ Known(w) /\ worker[w].error # None
    /\ AttemptRecovery(ScenarioOf(worker[w].error), fail_at)
    /\ UNCHANGED <<worker, lost>>

RecoverOther(scenario, fail_at) ==
    /\ AttemptRecovery(scenario, fail_at)
    /\ UNCHANGED <<worker, lost>>

-----------------------------------------------------------------------------

Client(w) ==
    \/ \E auto_resolve, auto_recover \in BOOLEAN : Create(w, auto_resolve, auto_recover)
    \/ ResolveTrust(w) \/ Restart(w) \/ Terminate(w)
    \/ \E prompt \in Prompts \cup {None} : SendPrompt(w, prompt)
    \/ \E degraded \in BOOLEAN : ObserveCompletion(w, degraded)
    \/ \E screen \in Screens : \/ ObserveTrustPrompt(w, screen)
                               \/ ObserveMisdelivery(w, screen)
                               \/ ObserveCues(w, screen)

Next ==
    \/ \E w \in WorkerIds : Client(w)
    \/ \E fail_at \in 0..2 : \/ \E w \in WorkerIds : Recover(w, fail_at)
                             \/ \E scenario \in Raised : RecoverOther(scenario, fail_at)

Spec == Init /\ [][Next]_vars
=============================================================================
