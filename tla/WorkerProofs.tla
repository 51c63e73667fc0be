------------------------------ MODULE WorkerProofs ------------------------------
(***************************************************************************)
(* The worker registry and its recovery, for any workers, prompts and      *)
(* bounds.  Every step of a client changes the record of one worker; what  *)
(* it makes of the record is stated in lemmas, and the invariants are of   *)
(* one worker each.                                                        *)
(***************************************************************************)
EXTENDS WorkerProperties, TLAPS

USE WorkersAssumption, NoneIsNoWorker

-----------------------------------------------------------------------------
(***************************************************************************)
(* The records observe makes.                                              *)
(***************************************************************************)

\* A worker the registry knows has a well-formed record.
LEMMA KnownRecord ==
    ASSUME TypeOK, NEW w \in WorkerIds, Known(w)
    PROVE  worker[w] \in Worker
BY DEF TypeOK, Known

\* Reading past a trust prompt changes the gate, the error and the status.
LEMMA PastTrustRecord ==
    ASSUME TypeOK, NEW w \in WorkerIds, Known(w), NEW screen \in Screens
    PROVE  LET past == PastTrust(w, screen) IN
           /\ past \in Worker
           /\ past.tried = worker[w].tried /\ past.in_flight = worker[w].in_flight
           /\ past.last = worker[w].last /\ past.replay = worker[w].replay
           /\ past.auto_recover = worker[w].auto_recover
           /\ past.status \in {"Spawning", worker[w].status}
<1> DEFINE resolved == [worker[w] EXCEPT !.cleared = TRUE, !.error = None,
                                         !.status = "Spawning"]
<1>1. worker[w] \in Worker
  BY KnownRecord
<1>2. /\ resolved \in Worker
      /\ resolved.tried = worker[w].tried /\ resolved.in_flight = worker[w].in_flight
      /\ resolved.last = worker[w].last /\ resolved.replay = worker[w].replay
      /\ resolved.auto_recover = worker[w].auto_recover /\ resolved.status = "Spawning"
  BY <1>1 DEF Worker, Statuses
<1>3. PastTrust(w, screen) = resolved \/ PastTrust(w, screen) = worker[w]
  BY DEF PastTrust
<1> HIDE DEF resolved
<1> QED  BY <1>1, <1>2, <1>3

\* Neither activity nor an input line puts a prompt in flight; a record with
\* one in flight after them was not made ready.
LEMMA CuesRecord ==
    ASSUME NEW record \in Worker, NEW screen \in Screens
    PROVE  LET seen == AfterInputLine(AfterActivity(record, screen), screen) IN
           /\ seen \in Worker
           /\ seen.tried = record.tried /\ seen.last = record.last
           /\ seen.replay = record.replay /\ seen.auto_recover = record.auto_recover
           /\ seen.in_flight => record.in_flight /\ seen.status = record.status
<1>1. LET seen == AfterActivity(record, screen) IN
      /\ seen \in Worker
      /\ seen.tried = record.tried /\ seen.last = record.last
      /\ seen.replay = record.replay /\ seen.auto_recover = record.auto_recover
      /\ seen.in_flight => record.in_flight /\ seen.status = record.status
  BY DEF AfterActivity, Worker, Statuses
<1>2. ASSUME NEW r \in Worker
      PROVE  LET seen == AfterInputLine(r, screen) IN
             /\ seen \in Worker
             /\ seen.tried = r.tried /\ seen.last = r.last
             /\ seen.replay = r.replay /\ seen.auto_recover = r.auto_recover
             /\ seen.in_flight => r.in_flight /\ seen.status = r.status
  <2> DEFINE error == IF r.error = "TrustGate" THEN None ELSE r.error
             ready == [r EXCEPT !.status = "ReadyForPrompt", !.in_flight = FALSE,
                                !.error = error]
  <2>1. error \in FailureKinds \cup {None}
    BY DEF Worker
  <2>2. AfterInputLine(r, screen) = ready \/ AfterInputLine(r, screen) = r
    BY DEF AfterInputLine, Worker
  <2> HIDE DEF error
  <2>3. /\ ready \in Worker /\ ~ready.in_flight
        /\ ready.tried = r.tried /\ ready.last = r.last
        /\ ready.replay = r.replay /\ ready.auto_recover = r.auto_recover
    BY <2>1 DEF Worker, Statuses
  <2> HIDE DEF ready
  <2> QED  BY <2>2, <2>3
<1> QED  BY <1>1, <1>2

-----------------------------------------------------------------------------
(***************************************************************************)
(* One worker.                                                             *)
(***************************************************************************)

\* What holds of one record, with the misdeliveries counted for it.
Sound(record, n) ==
    /\ record.in_flight => /\ record.status \in {"Running", "TrustRequired", "Spawning"}
                           /\ record.last # None
    /\ record.replay # None => /\ record.replay = record.last /\ ~record.in_flight
                               /\ record.auto_recover /\ n > 0
    /\ n + (IF record.in_flight THEN 1 ELSE 0) <= record.tried

\* A record stays sound when its prompt is no longer in flight.
LEMMA LandedIsSound ==
    ASSUME NEW r \in Worker, NEW n \in Nat, Sound(r, n),
           NEW landed \in Worker, ~landed.in_flight, landed.tried = r.tried,
           landed.last = r.last, landed.replay = r.replay,
           landed.auto_recover = r.auto_recover
    PROVE  Sound(landed, n)
<1>1. r.tried \in Nat
  BY DEF Worker
<1> QED  BY <1>1 DEF Sound

WorkersSound == \A w \in WorkerIds : Known(w) => Sound(worker[w], lost[w])

\* A worker that is not known yet has lost nothing.
NoneLostBefore == \A w \in WorkerIds : ~Known(w) => lost[w] = 0

\* A recipe's attempts are its runs, of which there is one at most.
AttemptsAreRuns ==
    \A f \in Scenarios :
        /\ attempts[f] = outcome[f].run
        /\ outcome[f].run <= 1
        /\ outcome[f].escalated > 0 => outcome[f].run = 1

WorkersInv == TypeOK /\ WorkersSound /\ NoneLostBefore /\ AttemptsAreRuns

\* A step of a client leaves one worker with a sound record.
LEMMA OneRecord ==
    ASSUME WorkersInv, NEW w \in WorkerIds, NEW record \in Worker, NEW n \in Nat,
           Sound(record, n), Becomes(w, record), lost' = [lost EXCEPT ![w] = n],
           UNCHANGED <<attempts, outcome>>
    PROVE  WorkersInv'
<1>1. worker' \in [WorkerIds -> Worker \cup {None}] /\ worker'[w] = record
  BY DEF WorkersInv, TypeOK, Becomes
<1>2. lost' \in [WorkerIds -> Nat] /\ lost'[w] = n
  BY DEF WorkersInv, TypeOK
<1>3. \A v \in WorkerIds \ {w} : worker'[v] = worker[v] /\ lost'[v] = lost[v]
  BY DEF WorkersInv, TypeOK, Becomes
<1>4. TypeOK'
  BY <1>1, <1>2 DEF WorkersInv, TypeOK
<1>5. (WorkersSound /\ NoneLostBefore)'
  BY <1>1, <1>2, <1>3 DEF WorkersInv, WorkersSound, NoneLostBefore, Known
<1>6. AttemptsAreRuns'
  BY DEF WorkersInv, AttemptsAreRuns
<1> QED  BY <1>4, <1>5, <1>6 DEF WorkersInv

-----------------------------------------------------------------------------
(***************************************************************************)
(* Every step.                                                             *)
(***************************************************************************)

LEMMA WorkersInvInit == Init => WorkersInv
BY DEF Init, WorkersInv, TypeOK, WorkersSound, NoneLostBefore, Known, AttemptsAreRuns

\* The operations of clients but observe.
LEMMA OperationKeepsInv ==
    ASSUME WorkersInv, NEW w \in WorkerIds,
           \/ \E auto_resolve, auto_recover \in BOOLEAN : Create(w, auto_resolve, auto_recover)
           \/ ResolveTrust(w) \/ Restart(w) \/ Terminate(w)
           \/ \E prompt \in Prompts \cup {None} : SendPrompt(w, prompt)
           \/ \E degraded \in BOOLEAN : ObserveCompletion(w, degraded)
    PROVE  WorkersInv'
<1> USE DEF WorkersInv
<1>1. lost \in [WorkerIds -> Nat] /\ lost = [lost EXCEPT ![w] = lost[w]]
  BY DEF TypeOK
<1>2. Known(w) => worker[w] \in Worker /\ Sound(worker[w], lost[w])
  BY KnownRecord DEF WorkersSound
<1>3. ASSUME NEW auto_resolve \in BOOLEAN, NEW auto_recover \in BOOLEAN,
             Create(w, auto_resolve, auto_recover)
      PROVE  WorkersInv'
  <2> DEFINE record == [status |-> "Spawning", auto_resolve |-> auto_resolve, cleared |-> FALSE,
                        auto_recover |-> auto_recover, tried |-> 0, in_flight |-> FALSE,
                        last |-> None, replay |-> None, error |-> None]
  <2>1. record \in Worker
    BY DEF Worker, Statuses
  <2>2. Sound(record, 0) /\ lost[w] = 0
    BY <1>3 DEF Sound, Create, NoneLostBefore
  <2> QED  BY <1>1, <1>3, <2>1, <2>2, OneRecord DEF Create
<1>4. CASE ResolveTrust(w)
  <2> DEFINE record == [worker[w] EXCEPT !.cleared = TRUE, !.error = None, !.status = "Spawning"]
  <2>1. record \in Worker /\ Sound(record, lost[w])
    BY <1>2, <1>4 DEF ResolveTrust, Sound, Worker, Statuses
  <2> QED  BY <1>1, <1>4, <2>1, OneRecord DEF ResolveTrust
<1>5. CASE Restart(w)
  <2> DEFINE record == [worker[w] EXCEPT !.status = "Spawning", !.cleared = FALSE,
                                         !.last = None, !.replay = None, !.error = None,
                                         !.tried = 0, !.in_flight = FALSE]
  <2>1. record \in Worker /\ record.tried = 0 /\ ~record.in_flight /\ record.replay = None
    BY <1>2, <1>5 DEF Restart, Worker, Statuses
  <2>2. Sound(record, 0)
    BY <2>1 DEF Sound
  <2> QED  BY <1>5, <2>1, <2>2, OneRecord DEF Restart
<1>6. CASE Terminate(w)
  <2> DEFINE record == [worker[w] EXCEPT !.status = "Finished", !.in_flight = FALSE]
  <2>1. /\ record \in Worker /\ ~record.in_flight /\ record.tried = worker[w].tried
        /\ record.last = worker[w].last /\ record.replay = worker[w].replay
        /\ record.auto_recover = worker[w].auto_recover
    BY <1>2, <1>6 DEF Terminate, Worker, Statuses
  <2>2. Sound(record, lost[w])
    BY <1>1, <1>2, <1>6, <2>1, LandedIsSound DEF Terminate
  <2> QED  BY <1>1, <1>6, <2>1, <2>2, OneRecord DEF Terminate
<1>7. ASSUME NEW prompt \in Prompts \cup {None}, SendPrompt(w, prompt)
      PROVE  WorkersInv'
  <2> DEFINE next   == IF prompt # None THEN prompt ELSE worker[w].replay
             record == [worker[w] EXCEPT !.tried = @ + 1, !.in_flight = TRUE, !.last = next,
                                         !.replay = None, !.error = None, !.status = "Running"]
  \* a ready worker has nothing in flight, so the count has room for this one
  <2>1. ~worker[w].in_flight /\ next # None
    BY <1>2, <1>7 DEF SendPrompt, Sound
  <2>2. worker[w].tried \in Nat /\ next \in Prompts \cup {None}
    BY <1>2, <1>7 DEF SendPrompt, Worker
  <2> HIDE DEF next
  <2>3. /\ record \in Worker /\ record.status = "Running" /\ record.last = next
        /\ record.replay = None /\ record.tried = worker[w].tried + 1
    <3> DEFINE tried == worker[w].tried + 1
    <3>1. tried \in Nat
      BY <2>2
    <3>2. record = [worker[w] EXCEPT !.tried = tried, !.in_flight = TRUE, !.last = next,
                                     !.replay = None, !.error = None, !.status = "Running"]
      BY <1>2, <1>7 DEF SendPrompt, Worker
    <3> HIDE DEF tried
    <3>3. worker[w] \in Worker
      BY <1>2, <1>7 DEF SendPrompt
    <3>4. record \in Worker
      BY <2>2, <3>1, <3>2, <3>3 DEF Worker, Statuses
    <3>5. record.status = "Running" /\ record.last = next
          /\ record.replay = None /\ record.tried = tried
      BY <3>2, <3>3 DEF Worker
    <3> QED  BY <3>4, <3>5 DEF tried
  <2>4. lost[w] \in Nat /\ lost[w] <= worker[w].tried
    <3>1. lost[w] \in Nat /\ Sound(worker[w], lost[w])
      BY <1>1, <1>2, <1>7 DEF SendPrompt
    <3>2. lost[w] + 0 <= worker[w].tried
      BY <2>1, <3>1 DEF Sound
    <3> QED  BY <2>2, <3>1, <3>2
  <2>5. Becomes(w, record) /\ UNCHANGED <<lost, attempts, outcome>>
    BY <1>7 DEF SendPrompt, next
  <2> HIDE DEF record
  <2>6. Sound(record, lost[w])
    BY <2>1, <2>2, <2>3, <2>4 DEF Sound
  <2> QED  BY <1>1, <2>3, <2>5, <2>6, OneRecord
<1>8. ASSUME NEW degraded \in BOOLEAN, ObserveCompletion(w, degraded)
      PROVE  WorkersInv'
  <2> DEFINE record == [worker[w] EXCEPT !.status = IF degraded THEN "Failed" ELSE "Finished",
                                         !.error = IF degraded THEN "Provider" ELSE None,
                                         !.in_flight = FALSE]
  <2>1. /\ record \in Worker /\ ~record.in_flight /\ record.tried = worker[w].tried
        /\ record.last = worker[w].last /\ record.replay = worker[w].replay
        /\ record.auto_recover = worker[w].auto_recover
    BY <1>2, <1>8 DEF ObserveCompletion, Worker, Statuses, FailureKinds
  <2>2. Sound(record, lost[w])
    BY <1>1, <1>2, <1>8, <2>1, LandedIsSound DEF ObserveCompletion
  <2> QED  BY <1>1, <1>8, <2>1, <2>2, OneRecord DEF ObserveCompletion
<1> QED  BY <1>3, <1>4, <1>5, <1>6, <1>7, <1>8

\* observe, whatever the screen shows and however old it is.
LEMMA ObserveKeepsInv ==
    ASSUME WorkersInv, NEW w \in WorkerIds, NEW screen \in Screens,
           \/ ObserveTrustPrompt(w, screen)
           \/ ObserveMisdelivery(w, screen)
           \/ ObserveCues(w, screen)
    PROVE  WorkersInv'
<1> USE DEF WorkersInv
<1>1. lost \in [WorkerIds -> Nat] /\ lost = [lost EXCEPT ![w] = lost[w]]
  BY DEF TypeOK
<1>2. Known(w) /\ worker[w] \in Worker /\ Sound(worker[w], lost[w])
  BY KnownRecord DEF WorkersSound, ObserveTrustPrompt, ObserveMisdelivery, ObserveCues, MayRead
<1>3. CASE ObserveTrustPrompt(w, screen)
  <2> DEFINE record == [worker[w] EXCEPT !.status = "TrustRequired", !.error = "TrustGate"]
  <2>1. record \in Worker /\ Sound(record, lost[w])
    BY <1>2, <1>3 DEF Sound, Worker, Statuses, FailureKinds
  <2> QED  BY <1>1, <1>3, <2>1, OneRecord DEF ObserveTrustPrompt
<1>4. CASE ObserveMisdelivery(w, screen)
  <2> DEFINE past   == [PastTrust(w, screen) EXCEPT !.error = "PromptDelivery",
                                                    !.in_flight = FALSE]
             record == IF past.auto_recover
                       THEN [past EXCEPT !.replay = past.last, !.status = "ReadyForPrompt"]
                       ELSE [past EXCEPT !.status = "Failed"]
  <2>1. /\ past \in Worker /\ ~past.in_flight
        /\ past.tried = worker[w].tried /\ past.last = worker[w].last
        /\ past.replay = worker[w].replay
    BY <1>2, PastTrustRecord DEF Worker, FailureKinds
  <2>2. record \in Worker /\ record.tried = worker[w].tried /\ ~record.in_flight
    BY <2>1 DEF Worker, Statuses
  \* the prompt was in flight: its loss takes the place it had in the count
  <2>3. worker[w].in_flight
    BY <1>4 DEF ObserveMisdelivery, Misdelivered
  <2>4. Sound(record, lost[w] + 1)
    BY <1>1, <1>2, <2>1, <2>2, <2>3 DEF Sound, Worker
  <2>5. Becomes(w, record) /\ lost' = [lost EXCEPT ![w] = lost[w] + 1] /\ lost[w] + 1 \in Nat
    BY <1>1, <1>4 DEF ObserveMisdelivery
  <2> QED  BY <1>4, <2>2, <2>4, <2>5, OneRecord DEF ObserveMisdelivery
<1>5. CASE ObserveCues(w, screen)
  <2> DEFINE past   == PastTrust(w, screen)
             record == AfterInputLine(AfterActivity(past, screen), screen)
  <2>1. /\ past \in Worker
        /\ past.tried = worker[w].tried /\ past.in_flight = worker[w].in_flight
        /\ past.last = worker[w].last /\ past.replay = worker[w].replay
        /\ past.auto_recover = worker[w].auto_recover
        /\ past.status \in {"Spawning", worker[w].status}
    BY <1>2, PastTrustRecord
  <2>2. Sound(past, lost[w])
    BY <1>2, <2>1 DEF Sound
  <2>3. /\ record \in Worker
        /\ record.tried = past.tried /\ record.last = past.last
        /\ record.replay = past.replay /\ record.auto_recover = past.auto_recover
        /\ record.in_flight => past.in_flight /\ record.status = past.status
    BY <2>1, CuesRecord
  <2>4. Sound(record, lost[w])
    BY <1>1, <2>1, <2>2, <2>3 DEF Sound, Worker
  <2> QED  BY <1>1, <1>5, <2>3, <2>4, OneRecord DEF ObserveCues
<1> QED  BY <1>3, <1>4, <1>5

\* An attempt is counted whatever comes of it; only then there is escalation.
LEMMA RecoveryKeepsInv ==
    ASSUME WorkersInv, NEW f \in Scenarios, NEW fail_at \in 0..2,
           AttemptRecovery(f, fail_at), UNCHANGED <<worker, lost>>
    PROVE  WorkersInv'
<1> USE DEF WorkersInv
<1>1. /\ attempts[f] = outcome[f].run /\ outcome[f].run \in Nat
      /\ outcome[f].escalated \in Nat /\ outcome[f] \in [run : Nat, escalated : Nat]
  BY DEF AttemptsAreRuns, TypeOK
<1>2. CASE attempts[f] >= RecipeAttempts
           /\ outcome' = [outcome EXCEPT ![f].escalated = @ + 1] /\ UNCHANGED attempts
  <2>1. outcome'[f] = [outcome[f] EXCEPT !.escalated = @ + 1]
    BY <1>2 DEF TypeOK
  <2>2. outcome[f].run = 1
    BY <1>1, <1>2 DEF AttemptsAreRuns, RecipeAttempts
  <2>3. AttemptsAreRuns' /\ TypeOK'
    BY <1>1, <1>2, <2>1, <2>2 DEF AttemptsAreRuns, TypeOK
  <2> QED  BY <2>3 DEF WorkersSound, NoneLostBefore, Known
<1>3. CASE attempts[f] < RecipeAttempts /\ attempts' = [attempts EXCEPT ![f] = @ + 1]
           /\ outcome' = [outcome EXCEPT ![f].run = @ + 1]
  <2>1. /\ outcome'[f] = [outcome[f] EXCEPT !.run = @ + 1]
        /\ attempts'[f] = attempts[f] + 1
    BY <1>3 DEF TypeOK
  <2>2. outcome[f].run = 0
    BY <1>1, <1>3 DEF RecipeAttempts
  <2>3. AttemptsAreRuns' /\ TypeOK'
    BY <1>1, <1>3, <2>1, <2>2 DEF AttemptsAreRuns, TypeOK
  <2> QED  BY <2>3 DEF WorkersSound, NoneLostBefore, Known
<1> QED  BY <1>2, <1>3 DEF AttemptRecovery, Counted

LEMMA WorkersInvNext == WorkersInv /\ [Next]_vars => WorkersInv'
<1> SUFFICES ASSUME WorkersInv, [Next]_vars PROVE WorkersInv'
  OBVIOUS
<1>1. ASSUME NEW w \in WorkerIds, Client(w) PROVE WorkersInv'
  BY <1>1, OperationKeepsInv, ObserveKeepsInv DEF Client
<1>2. ASSUME NEW w \in WorkerIds, NEW fail_at \in 0..2, Recover(w, fail_at)
      PROVE  WorkersInv'
  <2>1. ScenarioOf(worker[w].error) \in Scenarios
    BY <1>2, KnownRecord DEF Recover, WorkersInv, Worker, FailureKinds, ScenarioOf, Scenarios
  <2> QED  BY <1>2, <2>1, RecoveryKeepsInv DEF Recover
<1>3. ASSUME NEW f \in Raised, NEW fail_at \in 0..2, RecoverOther(f, fail_at)
      PROVE  WorkersInv'
  <2>1. f \in Scenarios
    BY DEF Scenarios
  <2> QED  BY <1>3, <2>1, RecoveryKeepsInv DEF RecoverOther
<1>4. CASE UNCHANGED vars
  BY <1>4 DEF vars, WorkersInv, TypeOK, WorkersSound, NoneLostBefore, AttemptsAreRuns, Known
<1> QED  BY <1>1, <1>2, <1>3, <1>4 DEF Next

LEMMA WorkersInvHolds == Spec => []WorkersInv
BY WorkersInvInit, WorkersInvNext, PTL DEF Spec

-----------------------------------------------------------------------------

\* No prompt is dispatched over one in flight, in whatever order trust
\* prompts, old screens, completions and restarts come (worker_boot.rs).
THEOREM NoneOverAnother == Spec => []NoPromptOverAnother
<1>1. WorkersInv => NoPromptOverAnother
  BY DEF WorkersInv, WorkersSound, Sound, NoPromptOverAnother
<1> QED  BY <1>1, WorkersInvHolds, PTL

\* An armed replay is the prompt that was lost last, of a worker created to
\* replay it (observe, send_prompt, restart).
THEOREM ReplaysAreOfLostPrompts == Spec => []ReplayIsOfLostPrompt
<1>1. WorkersInv => ReplayIsOfLostPrompt
  BY DEF WorkersInv, WorkersSound, Sound, ReplayIsOfLostPrompt
<1> QED  BY <1>1, WorkersInvHolds, PTL

\* No dispatch is found misdelivered twice, however often a screen that shows
\* it is handed in (prompt_misdelivery_is_relevant).
THEOREM EachDispatchLostOnce == Spec => []OneLossPerDispatch
<1>1. WorkersInv => OneLossPerDispatch
  BY DEF WorkersInv, WorkersSound, Sound, OneLossPerDispatch
<1> QED  BY <1>1, WorkersInvHolds, PTL

\* One automatic recovery of each scenario comes before its escalation, and
\* no second one after it (attempt_recovery).
THEOREM RecoveryIsTriedOnce == Spec => []OneRecoveryBeforeEscalation
<1>1. WorkersInv => OneRecoveryBeforeEscalation
  BY DEF WorkersInv, AttemptsAreRuns, OneRecoveryBeforeEscalation
<1> QED  BY <1>1, WorkersInvHolds, PTL

\* Types hold for any workers, prompts and bounds.
THEOREM WorkerTypes == Spec => []TypeOK
<1>1. WorkersInv => TypeOK
  BY DEF WorkersInv
<1> QED  BY <1>1, WorkersInvHolds, PTL
=============================================================================
