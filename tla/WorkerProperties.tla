---------------------------- MODULE WorkerProperties ----------------------------
(***************************************************************************)
(* What the worker registry owes its clients.                              *)
(***************************************************************************)
EXTENDS Workers

\* No worker takes a second prompt while one is in flight, in whatever order
\* trust prompts, old screens and completions are reported: a worker with a
\* prompt in flight is not ready for one (worker_boot.rs:211-418).
NoPromptOverAnother ==
    \A w \in WorkerIds : Known(w) /\ worker[w].in_flight =>
        /\ worker[w].status \in {"Running", "TrustRequired", "Spawning"}
        /\ worker[w].last # None

\* What a worker may replay is the prompt that was lost last: it is the last
\* one sent, it is not in flight, and the worker was created to replay it.
ReplayIsOfLostPrompt ==
    \A w \in WorkerIds : Known(w) /\ worker[w].replay # None =>
        /\ worker[w].replay = worker[w].last
        /\ ~worker[w].in_flight
        /\ worker[w].auto_recover
        /\ lost[w] > 0

\* A dispatch is found misdelivered at most once, however often the screen
\* that shows it is handed in (worker_boot.rs:252-318).
OneLossPerDispatch ==
    \A w \in WorkerIds : Known(w) =>
        lost[w] + (IF worker[w].in_flight THEN 1 ELSE 0) <= worker[w].tried

\* "enforces one automatic recovery attempt before escalation"
\* (recovery_recipes.rs:5-9): a scenario's recipe is tried once, whatever came
\* of it, and only then is a human asked because of too many attempts.
OneRecoveryBeforeEscalation ==
    \A f \in Scenarios :
        /\ outcome[f].run <= 1
        /\ outcome[f].escalated > 0 => outcome[f].run = 1
=============================================================================
