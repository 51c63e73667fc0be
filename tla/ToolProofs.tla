------------------------------- MODULE ToolProofs -------------------------------
(***************************************************************************)
(* The tools that keep state, for any callers, agents, tasks and teams:    *)
(* plan mode, the files of sub-agents, and teams with their tasks; the     *)
(* host agent's models, and the extensions, for any of them.               *)
(***************************************************************************)
EXTENDS PlanMode, Agents, TeamTasks, ModelSwap, Extensions, TLAPS

USE PlanAssumption, TeamAssumption, SwapAssumption, ExtAssumption

-----------------------------------------------------------------------------
(***************************************************************************)
(* Plan mode.                                                              *)
(***************************************************************************)

Calls ==
    [op : {"none", "enter", "exit", "config"},
     pc : {"idle", "settings", "state", "clear", "save", "write", "cleanup"},
     read : Documents, write : Documents]

\* Which call is where, and what it is about to write.
CallForm(c) ==
    /\ call[c].pc # "idle" => call[c].op # "none"
    /\ call[c].pc = "state" => call[c].op \in {"enter", "exit"}
    /\ call[c].pc \in {"clear", "save"} => call[c].op = "enter" /\ call[c].read # "plan"
    /\ call[c].pc = "write" /\ call[c].op = "enter" => call[c].write = "plan"
    /\ call[c].pc = "write" /\ call[c].op = "exit" => call[c].write # "plan"
    /\ call[c].pc = "cleanup" => call[c].op = "exit"

\* What a call knows of the files is true, if no other call is under way.
CallIsCurrent(c) ==
    /\ call[c].pc \in {"state", "clear", "save"} => settings = call[c].read
    /\ call[c].pc = "write" /\ call[c].op = "enter" => plan_state = settings
    /\ call[c].pc = "cleanup" => overrides = "none"

Reversible == overrides # "none" => settings = "plan" /\ plan_state = overrides

PlanInv ==
    /\ PlanTypeOK
    /\ plan_state # "plan"
    /\ \A c \in Callers : CallForm(c)
    /\ ~overlapped =>
          /\ Reversible
          /\ \A c, d \in Callers : ~Idle(c) /\ ~Idle(d) => c = d
          /\ \A c \in Callers : CallIsCurrent(c)

\* A call under way takes a step: what others know of the files matters only
\* if calls have overlapped.
LEMMA OneCallSteps ==
    ASSUME PlanInv, NEW c \in Callers, ~Idle(c), NEW r \in Calls,
           call' = [call EXCEPT ![c] = r], PlanTypeOK', (plan_state # "plan")',
           UNCHANGED overlapped, CallForm(c)',
           ~overlapped => (Reversible /\ CallIsCurrent(c))'
    PROVE  PlanInv'
<1>1. /\ \A d \in Callers \ {c} : call'[d] = call[d]
      /\ call \in [Callers -> Calls]
  BY DEF PlanInv, PlanTypeOK, Calls
<1>2. \A d \in Callers \ {c} : CallForm(d)'
  BY <1>1 DEF PlanInv, CallForm
<1>3. ASSUME ~overlapped
      PROVE  /\ \A d \in Callers \ {c} : Idle(d) /\ Idle(d)' /\ CallIsCurrent(d)'
             /\ \A d, e \in Callers : (~Idle(d) /\ ~Idle(e))' => d = e
  BY <1>1, <1>3 DEF PlanInv, Idle, CallIsCurrent
<1> QED  BY <1>2, <1>3 DEF PlanInv

LEMMA PlanInvInit == PlanInit => PlanInv
<1> SUFFICES ASSUME PlanInit PROVE PlanInv
  OBVIOUS
<1>1. PlanTypeOK /\ plan_state # "plan"
  BY DEF PlanInit, PlanTypeOK, Documents, PlanStates, NoCall
<1>2. \A c \in Callers : call[c].pc = "idle"
  BY DEF PlanInit, NoCall
<1> QED  BY <1>1, <1>2 DEF PlanInit, PlanInv, CallForm, CallIsCurrent, Reversible, Idle

\* The calls as they are written down when they move on or return.
LEMMA CallRecords ==
    ASSUME PlanTypeOK, NEW c \in Callers
    PROVE  /\ NoCall \in Calls /\ call[c] \in Calls
           /\ \A pc \in {"idle", "settings", "state", "clear", "save", "write", "cleanup"} :
                 Goes(c, pc) <=> call' = [call EXCEPT ![c] = [call[c] EXCEPT !.pc = pc]]
BY DEF PlanTypeOK, NoCall, Calls, Documents, Goes

LEMMA PlanCallKeepsInv ==
    ASSUME PlanInv, NEW c \in Callers,
           \/ ReadSettings(c) \/ EnterReadsState(c) \/ EnterClears(c) \/ EnterSaves(c)
           \/ ExitReadsState(c) \/ WriteSettings(c) \/ ExitCleansUp(c)
    PROVE  PlanInv'
<1>1. /\ PlanTypeOK /\ plan_state # "plan" /\ CallForm(c)
      /\ ~overlapped => Reversible /\ CallIsCurrent(c)
  BY DEF PlanInv
<1>2. /\ call \in [Callers -> Calls] /\ call[c] \in Calls /\ NoCall \in Calls
      /\ ~Idle(c)
  BY CallRecords, <1>1 DEF PlanTypeOK, Calls, Idle, ReadSettings, EnterReadsState, EnterClears,
     EnterSaves, ExitReadsState, WriteSettings, ExitCleansUp
\* it is enough to say what becomes of the files and of this call
<1>3. ASSUME NEW r \in Calls, call' = [call EXCEPT ![c] = r],
             settings' \in Documents, plan_state' \in PlanStates \ {"plan"},
             overrides' \in Documents \cup {"none"}, UNCHANGED <<overlapped, crashed>>,
             CallForm(c)', ~overlapped => (Reversible /\ CallIsCurrent(c))'
      PROVE  PlanInv'
  <2>1. call' \in [Callers -> Calls]
    BY <1>2, <1>3
  <2>2. PlanTypeOK'
    BY <1>1, <1>3, <2>1 DEF PlanTypeOK, Calls
  <2> QED  BY <1>2, <1>3, <2>2, OneCallSteps
<1>4. /\ settings \in Documents /\ plan_state \in PlanStates /\ overrides \in Documents \cup {"none"}
  BY <1>1 DEF PlanTypeOK
<1>5. CASE /\ Returns(c)
           /\ UNCHANGED <<settings, overlapped, overrides, crashed>>
           /\ \/ UNCHANGED plan_state
              \/ plan_state' = "none" /\ (~overlapped => overrides = "none")
  <2>1. call' = [call EXCEPT ![c] = NoCall] /\ call'[c] = NoCall
    BY <1>2, <1>5 DEF Returns
  <2>2. CallForm(c)' /\ CallIsCurrent(c)'
    BY <2>1 DEF CallForm, CallIsCurrent, NoCall
  <2>3. plan_state' \in PlanStates \ {"plan"}
    BY <1>1, <1>4, <1>5 DEF PlanStates
  <2>4. ~overlapped => Reversible'
    BY <1>1, <1>5 DEF Reversible
  <2> QED  BY <1>2, <1>3, <1>4, <1>5, <2>1, <2>2, <2>3, <2>4
<1>6. CASE ReadSettings(c)
  <2>1. CASE settings = "torn" /\ Returns(c)
    BY <1>5, <1>6, <2>1 DEF ReadSettings
  <2>2. CASE settings # "torn"
    <3> DEFINE write == IF call[c].op = "config" /\ call[c].write = "unset" THEN settings
                        ELSE call[c].write
               pc == IF call[c].op = "config" THEN "write" ELSE "state"
               r == [op |-> call[c].op, pc |-> pc, read |-> settings, write |-> write]
    <3>1. r \in Calls
      BY <1>2, <1>4 DEF Calls
    <3>2. call' = [call EXCEPT ![c] = r]
      BY <1>2, <1>6, <2>2 DEF ReadSettings, Calls
    <3>3. call'[c] = r
      BY <1>2, <3>2
    <3>4. call[c].op \in {"enter", "exit", "config"}
      BY <1>1, <1>2, <1>6 DEF CallForm, Calls, ReadSettings
    <3>5. CallForm(c)' /\ CallIsCurrent(c)'
      BY <1>6, <3>3, <3>4 DEF CallForm, CallIsCurrent, ReadSettings
    <3>6. ~overlapped => (Reversible /\ CallIsCurrent(c))'
      BY <1>1, <1>6, <3>5 DEF Reversible, ReadSettings
    <3>7. /\ settings' \in Documents /\ plan_state' \in PlanStates \ {"plan"}
          /\ overrides' \in Documents \cup {"none"} /\ UNCHANGED <<overlapped, crashed>>
      BY <1>1, <1>4, <1>6 DEF ReadSettings
    <3> HIDE DEF r
    <3> QED  BY <1>3, <3>1, <3>2, <3>5, <3>6, <3>7
  <2> QED  BY <1>6, <2>1, <2>2 DEF ReadSettings
\* a call that only moves on, to a place where what it knows is still true
<1>7. ASSUME NEW pc \in {"clear", "save", "cleanup"}, Goes(c, pc),
             UNCHANGED <<settings, plan_state, overlapped, overrides, crashed>>,
             pc = "cleanup" => call[c].op = "exit" /\ (~overlapped => overrides = "none"),
             pc # "cleanup" => /\ call[c].op = "enter" /\ call[c].read # "plan"
                               /\ call[c].pc = "state"
      PROVE  PlanInv'
  <2> DEFINE r == [call[c] EXCEPT !.pc = pc]
  <2>1. call' = [call EXCEPT ![c] = r] /\ r \in Calls
    BY <1>1, <1>2, <1>7, CallRecords DEF Calls
  <2>2. /\ call'[c].pc = pc /\ call'[c].op = call[c].op /\ call'[c].read = call[c].read
    BY <1>2, <2>1 DEF Calls
  <2>3. CallForm(c)'
    BY <1>7, <2>2 DEF CallForm
  <2>4. ~overlapped => (Reversible /\ CallIsCurrent(c))'
    BY <1>1, <1>7, <2>2 DEF CallIsCurrent, Reversible
  <2> QED  BY <1>1, <1>3, <1>4, <1>7, <2>1, <2>3, <2>4
<1>8. CASE EnterReadsState(c)
  BY <1>5, <1>7, <1>8 DEF EnterReadsState
<1>9. CASE EnterClears(c)
  <2> DEFINE r == [call[c] EXCEPT !.pc = "save"]
  <2>1. call' = [call EXCEPT ![c] = r] /\ r \in Calls
    BY <1>1, <1>2, <1>9, CallRecords DEF Calls, EnterClears
  <2>2. call'[c].pc = "save" /\ call'[c].op = call[c].op /\ call'[c].read = call[c].read
    BY <1>2, <2>1 DEF Calls
  <2>3. CallForm(c)'
    BY <1>1, <1>9, <2>2 DEF CallForm, EnterClears
  <2>4. ~overlapped => (Reversible /\ CallIsCurrent(c))'
    BY <1>1, <1>9, <2>2 DEF CallForm, CallIsCurrent, Reversible, EnterClears
  <2>5. plan_state' \in PlanStates \ {"plan"}
    BY <1>9 DEF EnterClears, PlanStates
  <2> QED  BY <1>3, <1>4, <1>9, <2>1, <2>3, <2>4, <2>5 DEF EnterClears
<1>10. CASE EnterSaves(c)
  <2> DEFINE r == [call[c] EXCEPT !.pc = "write", !.write = "plan"]
  <2>1. call' = [call EXCEPT ![c] = r] /\ r \in Calls
    BY <1>2, <1>10 DEF Calls, EnterSaves, Documents
  <2>2. call'[c].pc = "write" /\ call'[c].op = "enter" /\ call'[c].write = "plan"
    BY <1>2, <1>10, <2>1 DEF Calls, EnterSaves
  <2>3. CallForm(c)'
    BY <2>2 DEF CallForm
  <2>4. ~overlapped => (Reversible /\ CallIsCurrent(c))'
    BY <1>1, <1>10, <2>2 DEF CallForm, CallIsCurrent, Reversible, EnterSaves
  <2>5. plan_state' \in PlanStates \ {"plan"}
    BY <1>1, <1>2, <1>10 DEF CallForm, EnterSaves, PlanStates, Documents, Calls
  <2> QED  BY <1>3, <1>4, <1>10, <2>1, <2>3, <2>4, <2>5 DEF EnterSaves
<1>11. CASE ExitReadsState(c)
  <2>1. CASE plan_state \in {"torn", "none"}
    BY <1>5, <1>11, <2>1 DEF ExitReadsState
  <2>2. CASE plan_state \notin {"torn", "none"} /\ call[c].read # "plan"
    BY <1>1, <1>7, <1>11, <2>2 DEF ExitReadsState, CallIsCurrent, Reversible
  <2>3. CASE plan_state \notin {"torn", "none"} /\ call[c].read = "plan"
    <3> DEFINE r == [call[c] EXCEPT !.pc = "write", !.write = plan_state]
    <3>1. call' = [call EXCEPT ![c] = r] /\ r \in Calls
      BY <1>2, <1>4, <1>11, <2>3 DEF Calls, ExitReadsState, PlanStates, Documents
    <3>2. call'[c].pc = "write" /\ call'[c].op = "exit" /\ call'[c].write = plan_state
      BY <1>2, <1>11, <3>1 DEF Calls, ExitReadsState
    <3>3. CallForm(c)' /\ CallIsCurrent(c)'
      BY <1>1, <3>2 DEF CallForm, CallIsCurrent
    <3>4. ~overlapped => Reversible'
      BY <1>1, <1>11 DEF Reversible, ExitReadsState
    <3> QED  BY <1>1, <1>3, <1>4, <1>11, <3>1, <3>3, <3>4 DEF ExitReadsState
  <2> QED  BY <2>1, <2>2, <2>3
<1>12. CASE WriteSettings(c)
  <2> DEFINE r == IF call[c].op = "exit" THEN [call[c] EXCEPT !.pc = "cleanup"] ELSE NoCall
  <2>1. call' = [call EXCEPT ![c] = r] /\ r \in Calls
    BY <1>1, <1>2, <1>12, CallRecords DEF Calls, WriteSettings, Returns
  <2>2. \/ call'[c].pc = "cleanup" /\ call'[c].op = "exit" /\ call[c].op = "exit"
        \/ call'[c].pc = "idle"
    BY <1>2, <2>1 DEF Calls, NoCall
  <2>3. settings' = call[c].write /\ settings' \in Documents
    BY <1>2, <1>12 DEF Calls, WriteSettings
  <2>4. overrides' \in Documents \cup {"none"}
    BY <1>4, <1>12 DEF WriteSettings
  \* what EnterPlanMode overrides is what it saved; ExitPlanMode ends it
  <2>5. ~overlapped => (Reversible /\ CallIsCurrent(c))'
    BY <1>1, <1>12, <2>2, <2>3 DEF CallForm, CallIsCurrent, Reversible, WriteSettings
  <2>6. CallForm(c)'
    BY <2>2 DEF CallForm
  <2> QED  BY <1>1, <1>3, <1>4, <1>12, <2>1, <2>3, <2>4, <2>5, <2>6 DEF WriteSettings
<1>13. CASE ExitCleansUp(c)
  BY <1>1, <1>5, <1>13 DEF ExitCleansUp, CallIsCurrent
<1> QED  BY <1>6, <1>8, <1>9, <1>10, <1>11, <1>12, <1>13

\* A call that begins knows nothing yet.
LEMMA BeginKeepsInv ==
    ASSUME PlanInv, NEW c \in Callers, NEW op \in {"enter", "exit", "config"},
           NEW value \in LocalModes \cup {"unset"}, BeginPlanCall(c, op, value)
    PROVE  PlanInv'
<1> DEFINE r == [NoCall EXCEPT !.op = op, !.pc = "settings", !.write = value]
<1>1. call \in [Callers -> Calls] /\ PlanTypeOK
  BY DEF PlanInv, PlanTypeOK, Calls
<1>2. r \in Calls /\ r.op = op /\ r.pc = "settings" /\ r.write = value
  <2>1. NoCall \in Calls
    BY <1>1, CallRecords
  <2> QED  BY <2>1 DEF Calls, Documents
<1>3. call' = [call EXCEPT ![c] = r]
  BY DEF BeginPlanCall
<1> HIDE DEF r
<1>4. /\ call' \in [Callers -> Calls] /\ call'[c] = r
      /\ \A d \in Callers \ {c} : call'[d] = call[d]
  BY <1>1, <1>2, <1>3
<1>5. PlanTypeOK'
  BY <1>1, <1>4 DEF PlanTypeOK, Calls, BeginPlanCall
<1>6. \A d \in Callers : CallForm(d)'
  BY <1>2, <1>4 DEF PlanInv, CallForm
<1>7. ASSUME ~overlapped' PROVE \A d \in Callers : Idle(d)
  BY <1>7 DEF BeginPlanCall
<1>8. ASSUME ~overlapped'
      PROVE  /\ \A d \in Callers : CallIsCurrent(d)'
             /\ \A d, e \in Callers : (~Idle(d) /\ ~Idle(e))' => d = e
             /\ Reversible'
  BY <1>2, <1>4, <1>7, <1>8 DEF PlanInv, Idle, CallIsCurrent, BeginPlanCall, Reversible
<1> QED  BY <1>5, <1>6, <1>8 DEF PlanInv, BeginPlanCall

\* Whatever a kill leaves of a file that is written, nothing was overridden
\* whose state it spoils.
LEMMA KillKeepsInv == ASSUME PlanInv, PlanKilled PROVE PlanInv'
<1>1. call' = [c \in Callers |-> NoCall] /\ \A c \in Callers : call'[c].pc = "idle"
  BY DEF PlanKilled, NoCall
<1>2. PlanTypeOK'
  BY <1>1 DEF PlanInv, PlanTypeOK, PlanKilled, NoCall, Documents, PlanStates
<1>3. (plan_state # "plan")'
  BY DEF PlanInv, PlanKilled
<1>4. ~overlapped => Reversible'
  <2>1. CASE \E c \in Callers : call[c].op = "enter" /\ call[c].pc = "save"
    BY <2>1 DEF PlanInv, PlanKilled, Reversible, CallForm, CallIsCurrent
  <2>2. CASE overrides' = "none" \/ UNCHANGED <<settings, plan_state, overrides>>
    BY <2>2 DEF PlanInv, Reversible
  <2> QED  BY <2>1, <2>2 DEF PlanKilled
<1> QED  BY <1>1, <1>2, <1>3, <1>4 DEF PlanInv, PlanKilled, CallForm, CallIsCurrent, Idle

LEMMA PlanInvNext == PlanInv /\ [PlanNext]_planVars => PlanInv'
<1> SUFFICES ASSUME PlanInv, [PlanNext]_planVars PROVE PlanInv'
  OBVIOUS
<1>1. CASE UNCHANGED planVars
  BY <1>1 DEF planVars, PlanInv, PlanTypeOK, CallForm, CallIsCurrent, Idle, Reversible
<1>2. ASSUME NEW c \in Callers, NEW op \in {"enter", "exit"}, BeginPlanCall(c, op, "unset")
      PROVE  PlanInv'
  BY <1>2, BeginKeepsInv
<1>3. ASSUME NEW c \in Callers, NEW value \in LocalModes \cup {"unset"},
             BeginPlanCall(c, "config", value)
      PROVE  PlanInv'
  BY <1>3, BeginKeepsInv
<1> QED  BY <1>1, <1>2, <1>3, PlanCallKeepsInv, KillKeepsInv DEF PlanNext

\* Plan mode can be left again, for any threads and modes
\* (execute_enter_plan_mode, execute_exit_plan_mode).
THEOREM PlanCanBeLeft == PlanSpec => []PlanIsReversible
<1>1. PlanInv => PlanIsReversible
  BY DEF PlanInv, PlanIsReversible, Reversible
<1> QED  BY <1>1, PlanInvInit, PlanInvNext, PTL DEF PlanSpec

-----------------------------------------------------------------------------
(***************************************************************************)
(* Sub-agents.                                                             *)
(***************************************************************************)

Terminal == {"completed", "failed"}

LastSection(a) == sections[a][Len(sections[a])]

\* Once the section is written the manifest may be; it tells no end before
\* the thread has gone.
AgentsInv ==
    /\ agent \in [AgentIds -> AgentPc]
    /\ manifest \in [AgentIds -> {"none", "running", "torn"} \cup Terminal]
    /\ sections \in [AgentIds -> Seq(Terminal)]
    /\ \A a \in AgentIds :
          /\ agent[a] \in Terminal => sections[a] # <<>> /\ LastSection(a) = agent[a]
          /\ manifest[a] \in Terminal =>
                agent[a] = "ended" /\ sections[a] # <<>> /\ LastSection(a) = manifest[a]

LEMMA AgentsInvInit == AgentInit => AgentsInv
BY DEF AgentInit, AgentsInv, AgentPc, Terminal

\* A step of one agent that leaves the sections alone.
LEMMA ManifestStep ==
    ASSUME AgentsInv, NEW a \in AgentIds, NEW from, NEW to \in AgentPc \ {"none"},
           AgentGoes(a, from, to), from # "ended", UNCHANGED sections,
           to \in Terminal => sections[a] # <<>> /\ LastSection(a) = to,
           NEW status \in {"none", "running", "torn"} \cup Terminal,
           manifest' = [manifest EXCEPT ![a] = status],
           status \in Terminal => /\ to = "ended" /\ sections[a] # <<>>
                                  /\ LastSection(a) = status
    PROVE  AgentsInv'
BY DEF AgentsInv, AgentGoes, LastSection, Terminal

\* The section appended is the last one.
LEMMA SectionStep ==
    ASSUME AgentsInv, NEW a \in AgentIds, NEW from, NEW to \in Terminal,
           AgentGoes(a, from, to), from # "ended",
           sections' = [sections EXCEPT ![a] = Append(@, to)], UNCHANGED manifest
    PROVE  AgentsInv'
<1>1. sections[a] \in Seq(Terminal) /\ sections' \in [AgentIds -> Seq(Terminal)]
  BY DEF AgentsInv
<1>2. sections'[a] = Append(sections[a], to) /\ sections'[a] # <<>>
      /\ sections'[a][Len(sections'[a])] = to
  <2>1. sections'[a] = Append(sections[a], to)
    BY <1>1 DEF AgentsInv
  <2>2. \A q \in Seq(Terminal) : /\ Len(Append(q, to)) = Len(q) + 1
                                /\ Append(q, to)[Len(q) + 1] = to
                                /\ Append(q, to) # <<>>
    OBVIOUS
  <2> QED  BY <1>1, <2>1, <2>2
<1>3. \A b \in AgentIds \ {a} : sections'[b] = sections[b] /\ agent'[b] = agent[b]
  BY DEF AgentsInv, AgentGoes
<1>4. agent' \in [AgentIds -> AgentPc] /\ agent'[a] = to /\ agent[a] # "ended"
  BY DEF AgentsInv, AgentGoes, AgentPc, Terminal
<1> QED  BY <1>1, <1>2, <1>3, <1>4 DEF AgentsInv, LastSection

LEMMA AgentsInvNext == AgentsInv /\ [AgentNext]_agentVars => AgentsInv'
<1> SUFFICES ASSUME AgentsInv, [AgentNext]_agentVars PROVE AgentsInv'
  OBVIOUS
<1> USE DEF AgentPc, Terminal
<1>1. CASE UNCHANGED agentVars
  BY <1>1 DEF agentVars, AgentsInv, LastSection
<1>2. ASSUME NEW a \in AgentIds, NEW from, NEW to \in AgentPc \ (Terminal \cup {"none"}),
             AgentGoes(a, from, to), from # "ended", UNCHANGED sections,
             UNCHANGED manifest \/ CutShort(a)
      PROVE  AgentsInv'
  <2>1. manifest[a] \notin Terminal /\ manifest[a] \in {"none", "running", "torn"}
    BY <1>2 DEF AgentsInv, AgentGoes
  <2>2. \E status \in {"none", "running", "torn"} : manifest' = [manifest EXCEPT ![a] = status]
    BY <1>2, <2>1 DEF CutShort, AgentsInv
  <2> QED  BY <1>2, <2>2, ManifestStep
<1>3. ASSUME NEW a \in AgentIds, CreateAgent(a) PROVE AgentsInv'
  BY <1>2, <1>3 DEF CreateAgent
<1>4. ASSUME NEW a \in AgentIds, WriteManifest(a) PROVE AgentsInv'
  <2>1. /\ AgentGoes(a, "created", "spawning") /\ UNCHANGED sections
        /\ manifest' = [manifest EXCEPT ![a] = "running"]
    BY <1>4 DEF WriteManifest, Manifest
  <2>2. "spawning" \in AgentPc \ {"none"} /\ "spawning" \notin Terminal
        /\ "running" \notin Terminal
    OBVIOUS
  <2> QED  BY <2>1, <2>2, ManifestStep
<1>5. ASSUME NEW a \in AgentIds, ManifestFails(a) PROVE AgentsInv'
  BY <1>2, <1>5 DEF ManifestFails
<1>6. ASSUME NEW a \in AgentIds, SpawnAgent(a) PROVE AgentsInv'
  BY <1>2, <1>6 DEF SpawnAgent
<1>7. ASSUME NEW a \in AgentIds, TurnEnds(a) PROVE AgentsInv'
  BY <1>2, <1>7 DEF TurnEnds
<1>8. ASSUME NEW a \in AgentIds, RecordSection(a) PROVE AgentsInv'
  <2>1. CASE /\ AgentGoes(a, "completing", "completed") /\ UNCHANGED manifest
             /\ sections' = [sections EXCEPT ![a] = Append(@, "completed")]
    BY <2>1, SectionStep
  <2>2. CASE /\ AgentGoes(a, "failing", "failed") /\ UNCHANGED manifest
             /\ sections' = [sections EXCEPT ![a] = Append(@, "failed")]
    BY <2>2, SectionStep
  <2>3. PICK r \in Ends : /\ AgentGoes(a, r[1], r[2]) /\ UNCHANGED manifest
                           /\ sections' = [sections EXCEPT ![a] = Append(@, r[2])]
    BY <1>8 DEF RecordSection
  <2>4. CASE r = <<"completing", "completed">>
    BY <2>1, <2>3, <2>4
  <2>5. CASE r = <<"failing", "failed">>
    BY <2>2, <2>3, <2>5
  <2> QED  BY <2>4, <2>5 DEF Ends
<1>9. ASSUME NEW a \in AgentIds, RecordManifest(a) PROVE AgentsInv'
  <2>1. ASSUME NEW end \in Terminal, AgentGoes(a, end, "ended"), Manifest(a, end),
               UNCHANGED sections
        PROVE  AgentsInv'
    <3>1. sections[a] # <<>> /\ LastSection(a) = end
      BY <2>1 DEF AgentsInv, AgentGoes
    <3> QED  BY <2>1, <3>1, ManifestStep DEF Manifest
  <2> QED  BY <1>9, <2>1 DEF RecordManifest, Ends
<1>10. ASSUME NEW a \in AgentIds, RecordFails(a) PROVE AgentsInv'
  BY <1>2, <1>10 DEF RecordFails
<1>11. CASE AgentsExit
  BY <1>11 DEF AgentsExit, CutShort, AgentsInv, LastSection
<1> QED  BY <1>1, <1>3, <1>4, <1>5, <1>6, <1>7, <1>8, <1>9, <1>10, <1>11
         DEF AgentNext, AgentStep

\* Whatever fails and wherever the process is killed, a manifest that tells
\* the end of an agent agrees with the agent's output file
\* (persist_agent_terminal_state).
THEOREM ManifestsAgree == AgentSpec => []EndIsWritten
<1>1. AgentsInv => EndIsWritten
  BY DEF AgentsInv, EndIsWritten, Terminal, LastSection
<1> QED  BY <1>1, AgentsInvInit, AgentsInvNext, PTL DEF AgentSpec

-----------------------------------------------------------------------------
(***************************************************************************)
(* Teams and tasks.                                                        *)
(***************************************************************************)

\* A TeamCreate under way assigns tasks the team has.
JoinsItsTasks ==
    \A u \in Turns : joining[u].todo # {} =>
        /\ joining[u].team \in TeamIds /\ team[joining[u].team] # NoTeam
        /\ joining[u].todo \subseteq team[joining[u].team].tasks

TeamInv == TeamTypeOK /\ JoinsItsTasks /\ TeamOfTaskListsIt

LEMMA TeamInvInit == TeamInit => TeamInv
BY DEF TeamInit, TeamInv, TeamTypeOK, JoinsItsTasks, TeamOfTaskListsIt, Joined

\* One record of a task changes, and stays in a team that lists the task.
LEMMA TaskStep ==
    ASSUME TeamInv, NEW t \in TaskIds, NEW r \in Task, task' = [task EXCEPT ![t] = r],
           UNCHANGED team, r.team # NoTeam => team[r.team] # NoTeam /\ t \in team[r.team].tasks
    PROVE  TeamOfTaskListsIt' /\ task' \in [TaskIds -> Task \cup {NoTeam}]
BY DEF TeamInv, TeamTypeOK, TeamOfTaskListsIt

LEMMA TeamInvNext == TeamInv /\ [TeamNext]_teamVars => TeamInv'
<1> SUFFICES ASSUME TeamInv, [TeamNext]_teamVars PROVE TeamInv'
  OBVIOUS
<1>1. CASE UNCHANGED teamVars
  BY <1>1 DEF teamVars, TeamInv, TeamTypeOK, JoinsItsTasks, TeamOfTaskListsIt
<1>2. ASSUME NEW t \in TaskIds, CreateTask(t) PROVE TeamInv'
  <2> DEFINE r == [status |-> "created", team |-> NoTeam]
  <2>1. r \in Task
    BY DEF Task
  <2> QED  BY <1>2, <2>1, TaskStep DEF CreateTask, TeamInv, TeamTypeOK, JoinsItsTasks
<1>3. ASSUME NEW t \in TaskIds, StopTask(t) PROVE TeamInv'
  <2> DEFINE r == [task[t] EXCEPT !.status = "stopped"]
  <2>1. task[t] \in Task
    BY <1>3 DEF StopTask, TeamInv, TeamTypeOK
  <2>2. r \in Task /\ r.team = task[t].team
    BY <2>1 DEF Task
  <2>3. r.team # NoTeam => team[r.team] # NoTeam /\ t \in team[r.team].tasks
    BY <1>3, <2>2 DEF StopTask, TeamInv, TeamOfTaskListsIt
  <2>4. task' = [task EXCEPT ![t] = r] /\ UNCHANGED <<team, joining>>
    BY <1>3 DEF StopTask
  <2> HIDE DEF r
  <2> QED  BY <2>2, <2>3, <2>4, TaskStep DEF TeamInv, TeamTypeOK, JoinsItsTasks
<1>4. ASSUME NEW u \in Turns, NEW g \in TeamIds, NEW ids \in SUBSET TaskIds,
             CreateTeam(u, g, ids)
      PROVE  TeamInv'
  <2> DEFINE new == [tasks |-> ids, status |-> "created"]
  <2>1. new \in Team /\ new # NoTeam /\ new.tasks = ids
    BY DEF Team
  <2>2. /\ team' \in [TeamIds -> Team \cup {NoTeam}] /\ team'[g] = new
        /\ \A h \in TeamIds \ {g} : team'[h] = team[h]
    BY <1>4, <2>1 DEF CreateTeam, TeamInv, TeamTypeOK
  <2>3. joining' \in [Turns -> [team : TeamIds \cup {NoTeam}, todo : SUBSET TaskIds]]
    BY <1>4 DEF CreateTeam, TeamInv, TeamTypeOK, Joined
  <2>4. /\ \A v \in Turns \ {u} : joining'[v] = joining[v]
        /\ joining'[u].todo # {} => joining'[u].team = g /\ joining'[u].todo = ids
    BY <1>4 DEF CreateTeam, TeamInv, TeamTypeOK, Joined
  \* a team id that was free is in no task and in no other creation
  <2>5. JoinsItsTasks'
    BY <1>4, <2>1, <2>2, <2>4 DEF CreateTeam, TeamInv, JoinsItsTasks
  <2>6. TeamOfTaskListsIt'
    BY <1>4, <2>2 DEF CreateTeam, TeamInv, TeamOfTaskListsIt, TeamTypeOK, Task
  <2> QED  BY <1>4, <2>2, <2>3, <2>5, <2>6 DEF CreateTeam, TeamInv, TeamTypeOK
<1>5. ASSUME NEW u \in Turns, NEW t \in TaskIds, AssignTeam(u, t) PROVE TeamInv'
  <2>1. /\ joining' \in [Turns -> [team : TeamIds \cup {NoTeam}, todo : SUBSET TaskIds]]
        /\ \A v \in Turns : joining'[v].todo # {} =>
              /\ joining'[v].team = joining[v].team
              /\ joining'[v].todo \subseteq joining[v].todo
    <3> DEFINE left == [joining[u] EXCEPT !.todo = joining[u].todo \ {t}]
    <3>1. joining[u] \in [team : TeamIds \cup {NoTeam}, todo : SUBSET TaskIds]
      BY DEF TeamInv, TeamTypeOK
    <3>2. CASE joining[u].todo = {t}
      BY <1>5, <3>2 DEF AssignTeam, TeamInv, TeamTypeOK, Joined
    <3>3. CASE joining[u].todo # {t}
      <4>1. /\ left \in [team : TeamIds \cup {NoTeam}, todo : SUBSET TaskIds]
            /\ left.team = joining[u].team /\ left.todo \subseteq joining[u].todo
        BY <3>1, <3>3
      <4>2. joining' = [joining EXCEPT ![u] = left]
        BY <1>5, <3>3 DEF AssignTeam
      <4> HIDE DEF left
      <4> QED  BY <4>1, <4>2 DEF TeamInv, TeamTypeOK
    <3> QED  BY <3>2, <3>3
  <2>2. JoinsItsTasks'
    BY <1>5, <2>1 DEF AssignTeam, TeamInv, JoinsItsTasks
  <2>3. /\ joining[u].team \in TeamIds /\ team[joining[u].team] # NoTeam
        /\ t \in team[joining[u].team].tasks
    BY <1>5 DEF AssignTeam, TeamInv, JoinsItsTasks
  <2>4. CASE task[t] = NoTeam
    BY <1>5, <2>1, <2>2, <2>4 DEF AssignTeam, TeamInv, TeamTypeOK, TeamOfTaskListsIt
  <2>5. CASE task[t] # NoTeam
    <3> DEFINE r == [task[t] EXCEPT !.team = joining[u].team]
    <3>1. r \in Task /\ r.team = joining[u].team
      BY <2>3, <2>5 DEF TeamInv, TeamTypeOK, Task
    <3>2. task' = [task EXCEPT ![t] = r] /\ UNCHANGED team
      BY <1>5, <2>5 DEF AssignTeam
    <3> HIDE DEF r
    <3> QED  BY <2>1, <2>2, <2>3, <3>1, <3>2, TaskStep DEF TeamInv, TeamTypeOK
  <2> QED  BY <2>4, <2>5
<1>6. ASSUME NEW g \in TeamIds, DeleteTeam(g) PROVE TeamInv'
  <2> DEFINE r == [team[g] EXCEPT !.status = "deleted"]
  <2>1. team[g] \in Team /\ r \in Team /\ r # NoTeam /\ r.tasks = team[g].tasks
    BY <1>6 DEF DeleteTeam, TeamInv, TeamTypeOK, Team
  <2>2. team' = [team EXCEPT ![g] = r] /\ UNCHANGED <<task, joining>>
    BY <1>6 DEF DeleteTeam
  <2> HIDE DEF r
  <2>3. /\ team' \in [TeamIds -> Team \cup {NoTeam}]
        /\ \A h \in TeamIds : /\ team[h] # NoTeam => team'[h] # NoTeam
                              /\ team[h] # NoTeam => team'[h].tasks = team[h].tasks
    BY <2>1, <2>2 DEF TeamInv, TeamTypeOK
  <2>4. JoinsItsTasks'
    BY <2>2, <2>3 DEF TeamInv, JoinsItsTasks
  <2>5. TeamOfTaskListsIt'
    BY <2>2, <2>3 DEF TeamInv, TeamTypeOK, TeamOfTaskListsIt, Task
  <2> QED  BY <2>2, <2>3, <2>4, <2>5 DEF TeamInv, TeamTypeOK
<1> QED  BY <1>1, <1>2, <1>3, <1>4, <1>5, <1>6 DEF TeamNext

\* A task is in a team that lists it, for any threads, tasks and teams
\* (run_team_create, run_team_delete).
THEOREM TasksAreListed == TeamSpec => []TeamOfTaskListsIt
<1>1. TeamInv => TeamOfTaskListsIt
  BY DEF TeamInv
<1> QED  BY <1>1, TeamInvInit, TeamInvNext, PTL DEF TeamSpec

-----------------------------------------------------------------------------
(***************************************************************************)
(* The models of the host agent, its handlers at work one at a time.       *)
(***************************************************************************)

Named == Models \cup {NoModel}

Stages == Resting \cup {"env", "ini", "stop", "start", "health",
                        "roll env", "roll ini", "restop", "restart"}

SwapTypeOK ==
    /\ setup \in {"compose", "lemonade", "inspect"} /\ flags \in BOOLEAN
    /\ env \in Named /\ ini \in Named
    /\ gguf \in [Models -> {"absent", "whole", "bad"}]
    /\ server \in [there : BOOLEAN, up : BOOLEAN, model : Named]
    /\ swap \in [at : Stages, asked : Named, env : Named, ini : Named,
                 flags : BOOLEAN, obeyed : BOOLEAN]
    /\ removal \subseteq Models /\ fetching \subseteq Models /\ checking \subseteq Models
    /\ recreation \subseteq Named

\* The files an activation may leave named stay, and nothing else is at work.
FilesStay ==
    /\ ActiveModelIsThere
    /\ env \notin removal /\ env \notin checking
    /\ \A m \in fetching : gguf[m] = "absent"
    /\ swap.at \notin Resting =>
         /\ swap.asked \in Models /\ gguf[swap.asked] # "absent"
         /\ swap.env \in Models => gguf[swap.env] # "absent"
         /\ removal = {} /\ checking = {} /\ recreation = {}

\* How far the files and the server have come.
Restarted == server.model = IF setup = "lemonade" THEN ini ELSE env

SwapIsAt ==
    /\ swap.at \in {"ini", "stop", "start", "health", "activated"} => env = swap.asked
    /\ swap.at \in {"stop", "start", "health", "activated"} => ini = swap.asked
    /\ swap.at \in {"roll ini", "restop", "restart", "rolled_back"} => env = swap.env
    /\ swap.at \in {"restop", "restart", "rolled_back"} => ini = swap.ini
    /\ /\ swap.at \in {"health", "activated", "rolled_back"}
       /\ swap.obeyed /\ (setup = "compose" => swap.flags)
       => Restarted
    /\ recreation \subseteq {env}

SwapInv == SwapTypeOK /\ FilesStay /\ SwapIsAt

\* While an activation is under way, nothing else is.
Alone == swap.at \notin Resting => removal = {} /\ checking = {} /\ recreation = {}

LEMMA OneMeansAlone == ASSUME OneAtMost' PROVE Alone'
<1>1. CASE "activation" \in AtWork'
  <2>1. "deletion" \notin AtWork' /\ "check" \notin AtWork' /\ "recreation" \notin AtWork'
    BY <1>1 DEF OneAtMost
  <2> QED  BY <2>1 DEF Alone, AtWork
<1>2. CASE "activation" \notin AtWork'
  BY <1>2 DEF Alone, AtWork
<1> QED  BY <1>1, <1>2

LEMMA SwapInvInit == SwapInit => SwapInv
<1> SUFFICES ASSUME SwapInit PROVE SwapInv
  OBVIOUS
<1>1. PICK m \in Models :
        /\ env = m /\ ini = m
        /\ gguf \in {f \in [Models -> {"absent", "whole"}] : f[m] = "whole"}
        /\ server = [there |-> TRUE, up |-> TRUE, model |-> m]
  BY DEF SwapInit
<1>2. SwapTypeOK
  BY <1>1 DEF SwapInit, SwapTypeOK, Named, NoSwap, Stages, Resting
<1>3. FilesStay /\ SwapIsAt
  BY <1>1 DEF SwapInit, FilesStay, SwapIsAt, ActiveModelIsThere, NoSwap, Resting
<1> QED  BY <1>2, <1>3 DEF SwapInv

LEMMA ServingType ==
    ASSUME NEW m \in Named
    PROVE  /\ Serving(m) \in [there : BOOLEAN, up : BOOLEAN, model : Named]
           /\ Serving(m).model = m
<1> DEFINE up == setup = "lemonade" \/ (m \in Models /\ gguf[m] # "absent")
<1>1. up \in BOOLEAN
  OBVIOUS
<1>2. Serving(m) = [there |-> TRUE, up |-> up, model |-> m]
  BY DEF Serving
<1> HIDE DEF up
<1> QED  BY <1>1, <1>2

LEMMA RemovedType ==
    ASSUME server \in [there : BOOLEAN, up : BOOLEAN, model : Named]
    PROVE  /\ {Stopped, Removed} \subseteq [there : BOOLEAN, up : BOOLEAN, model : Named]
           /\ Stopped.model = server.model /\ Removed.model = server.model
  BY DEF Stopped, Removed

\* The steps of an activation.
LEMMA ActivationKeeps ==
    ASSUME SwapInv, Alone', ActivationStep PROVE SwapInv'
<1> USE DEF SwapInv, Named, Stages, Resting
<1>1. ASSUME NEW m \in Models, Activate(m) PROVE SwapInv'
  <2>1. SwapTypeOK'
    BY <1>1 DEF Activate, SwapTypeOK, setups, others, download
  <2>2. FilesStay' /\ SwapIsAt'
    BY <1>1 DEF Activate, SwapTypeOK, FilesStay, SwapIsAt, ActiveModelIsThere, Alone,
                setups, others, download
  <2> QED  BY <2>1, <2>2
<1>2. CASE WriteEnv
  <2>1. SwapTypeOK'
    BY <1>2 DEF WriteEnv, SwapTypeOK, others, download
  <2>2. FilesStay'
    BY <1>2 DEF WriteEnv, SwapTypeOK, FilesStay, ActiveModelIsThere, others, download
  <2>3. SwapIsAt'
    BY <1>2 DEF WriteEnv, SwapTypeOK, FilesStay, SwapIsAt, others, download
  <2> QED  BY <2>1, <2>2, <2>3
<1>3. CASE WriteIni
  <2>1. SwapTypeOK'
    BY <1>3 DEF WriteIni, SwapTypeOK, others, download
  <2>2. FilesStay'
    BY <1>3 DEF WriteIni, SwapTypeOK, FilesStay, ActiveModelIsThere, others, download
  <2>3. SwapIsAt'
    BY <1>3 DEF WriteIni, SwapTypeOK, FilesStay, SwapIsAt, others, download
  <2> QED  BY <2>1, <2>2, <2>3
<1>4. CASE StopServer
  <2>0. PICK works \in Works :
          /\ server' \in {server, Stopped, Removed}
          /\ swap' = [swap EXCEPT !.flags = flags, !.obeyed = works,
                        !.at = IF setup = "inspect" /\ ~works THEN AfterStart(swap.at)
                               ELSE AfterStop(swap.at)]
    BY <1>4 DEF StopServer
  <2>1. SwapTypeOK'
    <3>1. works \in BOOLEAN
      BY DEF Works
    <3>2. server' \in [there : BOOLEAN, up : BOOLEAN, model : Named]
      BY <2>0 DEF SwapTypeOK, Stopped, Removed
    <3>3. swap' \in [at : Stages, asked : Named, env : Named, ini : Named,
                     flags : BOOLEAN, obeyed : BOOLEAN]
      <4>1. AfterStart(swap.at) \in Stages /\ AfterStop(swap.at) \in Stages
        BY DEF AfterStart, AfterStop
      <4> HIDE DEF Stages
      <4> QED  BY <2>0, <3>1, <4>1 DEF SwapTypeOK
    <3> QED  BY <1>4, <3>2, <3>3 DEF StopServer, SwapTypeOK, setups, others, download
  <2>2. FilesStay'
    BY <1>4, <2>0 DEF StopServer, SwapTypeOK, FilesStay, ActiveModelIsThere, AfterStop, AfterStart,
                      setups, others, download
  <2>3. SwapIsAt'
    <3>1. swap'.at \in {"start", "restart"} \/ ~swap'.obeyed
      BY <2>0, <1>4 DEF StopServer, SwapTypeOK, AfterStop, AfterStart, Works
    <3>2. /\ swap.at = "stop" => swap'.at \in {"start", "health"}
          /\ swap.at = "restop" => swap'.at \in {"restart", "rolled_back"}
          /\ swap'.asked = swap.asked /\ swap'.env = swap.env /\ swap'.ini = swap.ini
      BY <2>0, <1>4 DEF StopServer, SwapTypeOK, AfterStop, AfterStart
    <3> QED
      BY <1>4, <3>1, <3>2 DEF StopServer, SwapIsAt, Restarted, setups, others, download
  <2> QED  BY <2>1, <2>2, <2>3
<1>5. CASE StartServer
  <2>0. PICK works \in Works :
          /\ server' = IF works THEN Serving(ModelLoaded) ELSE server
          /\ swap' = [swap EXCEPT !.obeyed = swap.obeyed /\ works, !.at = AfterStart(swap.at)]
    BY <1>5 DEF StartServer
  <2>w. works \in BOOLEAN
    BY DEF Works
  <2>l. ModelLoaded \in Named /\ ((setup = "compose" => swap.flags) =>
                              ModelLoaded = IF setup = "lemonade" THEN ini ELSE env)
    BY DEF ModelLoaded, SwapTypeOK
  <2>s. Serving(ModelLoaded) \in [there : BOOLEAN, up : BOOLEAN, model : Named]
        /\ Serving(ModelLoaded).model = ModelLoaded
    BY <2>l, ServingType
  <2>1. SwapTypeOK'
    <3>1. swap' \in [at : Stages, asked : Named, env : Named, ini : Named,
                     flags : BOOLEAN, obeyed : BOOLEAN]
      <4>1. AfterStart(swap.at) \in Stages
        BY DEF AfterStart
      <4>2. (swap.obeyed /\ works) \in BOOLEAN
        BY <2>w
      <4> HIDE DEF Stages
      <4> QED  BY <2>0, <4>1, <4>2 DEF SwapTypeOK
    <3> QED  BY <1>5, <2>0, <2>s, <3>1 DEF StartServer, SwapTypeOK, setups, others, download
  <2>2. FilesStay'
    BY <1>5 DEF StartServer, SwapTypeOK, FilesStay, ActiveModelIsThere, AfterStart,
                setups, others, download
  <2>3. SwapIsAt'
    <3>1. swap'.obeyed => works
      BY <2>0, <2>w DEF SwapTypeOK
    <3>2. /\ swap.at = "start" => swap'.at = "health"
          /\ swap.at = "restart" => swap'.at = "rolled_back"
          /\ swap'.asked = swap.asked /\ swap'.env = swap.env /\ swap'.ini = swap.ini
          /\ swap'.flags = swap.flags
      BY <2>0 DEF SwapTypeOK, AfterStart
    <3>3. swap'.obeyed /\ (setup = "compose" => swap.flags) => Restarted'
      BY <1>5, <2>0, <2>l, <2>s, <3>1 DEF StartServer, Restarted, setups, others
    <3> QED
      BY <1>5, <3>2, <3>3 DEF StartServer, SwapIsAt, setups, others, download
  <2> QED  BY <2>1, <2>2, <2>3
<1>6. CASE DockerTimesOut
  <2>1. SwapTypeOK'
    <3>1. ModelLoaded \in Named
      BY DEF ModelLoaded, SwapTypeOK
    <3>2. {Serving(ModelLoaded), Stopped, Removed} \subseteq [there : BOOLEAN, up : BOOLEAN, model : Named]
      BY <3>1, ServingType, RemovedType DEF SwapTypeOK
    <3>3. server' \in {server, Serving(ModelLoaded), Stopped, Removed}
      BY <1>6 DEF DockerTimesOut
    <3> QED
      BY <1>6, <3>2, <3>3 DEF DockerTimesOut, SwapTypeOK, NoSwap, setups, others, download
  <2>2. FilesStay' /\ SwapIsAt'
    BY <1>6 DEF DockerTimesOut, SwapTypeOK, FilesStay, SwapIsAt, ActiveModelIsThere, NoSwap,
                setups, others, download
  <2> QED  BY <2>1, <2>2
<1>7. CASE CheckHealth
  <2>0. PICK at \in {"activated", "roll env"} : swap' = [swap EXCEPT !.at = at]
    BY <1>7 DEF CheckHealth
  <2>1. SwapTypeOK'
    BY <1>7, <2>0 DEF CheckHealth, SwapTypeOK, setups, others, download
  <2>2. FilesStay'
    BY <1>7, <2>0 DEF CheckHealth, SwapTypeOK, FilesStay, ActiveModelIsThere, setups, others, download
  <2>3. SwapIsAt'
    BY <1>7, <2>0 DEF CheckHealth, SwapTypeOK, SwapIsAt, Restarted, setups, others, download
  <2> QED  BY <2>1, <2>2, <2>3
<1>8. CASE RollEnv
  <2>1. SwapTypeOK'
    BY <1>8 DEF RollEnv, SwapTypeOK, others, download
  <2>2. FilesStay'
    BY <1>8 DEF RollEnv, SwapTypeOK, FilesStay, ActiveModelIsThere, others, download
  <2>3. SwapIsAt'
    BY <1>8 DEF RollEnv, SwapTypeOK, FilesStay, SwapIsAt, others, download
  <2> QED  BY <2>1, <2>2, <2>3
<1>9. CASE RollIni
  <2>1. SwapTypeOK'
    BY <1>9 DEF RollIni, SwapTypeOK, others, download
  <2>2. FilesStay'
    BY <1>9 DEF RollIni, SwapTypeOK, FilesStay, ActiveModelIsThere, others, download
  <2>3. SwapIsAt'
    BY <1>9 DEF RollIni, SwapTypeOK, FilesStay, SwapIsAt, others, download
  <2> QED  BY <2>1, <2>2, <2>3
<1>10. CASE WriteFails
  BY <1>10 DEF WriteFails, HalfWritten, Truncated, SwapTypeOK, FilesStay, SwapIsAt,
               ActiveModelIsThere, NoSwap, others, download
<1> QED
  BY <1>1, <1>2, <1>3, <1>4, <1>5, <1>6, <1>7, <1>8, <1>9, <1>10 DEF ActivationStep

\* The steps of the other handlers.
LEMMA OthersKeep ==
    ASSUME SwapInv, Alone', OtherStep PROVE SwapInv'
<1> USE DEF SwapInv
<1>1. ASSUME NEW m \in Models, Delete(m) PROVE SwapInv'
  <2>1. SwapTypeOK'
    BY <1>1 DEF Delete, SwapTypeOK, setups, download
  <2>2. FilesStay'
    BY <1>1 DEF Delete, SwapTypeOK, FilesStay, ActiveModelIsThere, Resting, Alone, setups, download
  <2>3. SwapIsAt'
    BY <1>1 DEF Delete, SwapTypeOK, FilesStay, SwapIsAt, Restarted, setups, download
  <2> QED  BY <2>1, <2>2, <2>3
<1>2. CASE Unlink
  <2>1. SwapTypeOK'
    BY <1>2 DEF Unlink, SwapTypeOK, setups, download
  <2>2. FilesStay'
    BY <1>2 DEF Unlink, SwapTypeOK, FilesStay, ActiveModelIsThere, Resting, Alone, setups, download
  <2>3. SwapIsAt'
    BY <1>2 DEF Unlink, SwapTypeOK, FilesStay, SwapIsAt, Restarted, setups, download
  <2> QED  BY <2>1, <2>2, <2>3
<1>3. ASSUME NEW m \in Models, Download(m) PROVE SwapInv'
  <2>1. SwapTypeOK'
    BY <1>3 DEF Download, SwapTypeOK, setups
  <2>2. FilesStay'
    BY <1>3 DEF Download, SwapTypeOK, FilesStay, ActiveModelIsThere, Resting, Alone, setups
  <2>3. SwapIsAt'
    BY <1>3 DEF Download, SwapTypeOK, FilesStay, SwapIsAt, Restarted, setups
  <2> QED  BY <2>1, <2>2, <2>3
<1>4. CASE Rename
  <2>1. SwapTypeOK'
    BY <1>4 DEF Rename, SwapTypeOK, setups
  <2>2. FilesStay'
    BY <1>4 DEF Rename, SwapTypeOK, FilesStay, ActiveModelIsThere, Resting, Alone, setups
  <2>3. SwapIsAt'
    BY <1>4 DEF Rename, SwapTypeOK, FilesStay, SwapIsAt, Restarted, setups
  <2> QED  BY <2>1, <2>2, <2>3
<1>5. CASE FetchFails
  <2>1. SwapTypeOK'
    BY <1>5 DEF FetchFails, SwapTypeOK, setups
  <2>2. FilesStay'
    BY <1>5 DEF FetchFails, SwapTypeOK, FilesStay, ActiveModelIsThere, Resting, Alone, setups
  <2>3. SwapIsAt'
    BY <1>5 DEF FetchFails, SwapTypeOK, FilesStay, SwapIsAt, Restarted, setups
  <2> QED  BY <2>1, <2>2, <2>3
<1>6. CASE Verify
  <2>1. SwapTypeOK'
    BY <1>6 DEF Verify, SwapTypeOK, setups
  <2>2. FilesStay'
    BY <1>6 DEF Verify, SwapTypeOK, FilesStay, ActiveModelIsThere, Resting, Alone, setups
  <2>3. SwapIsAt'
    BY <1>6 DEF Verify, SwapTypeOK, FilesStay, SwapIsAt, Restarted, setups
  <2> QED  BY <2>1, <2>2, <2>3
<1>7. CASE BeginRecreate
  <2>1. SwapTypeOK'
    BY <1>7 DEF BeginRecreate, SwapTypeOK, setups, download
  <2>2. FilesStay'
    BY <1>7 DEF BeginRecreate, SwapTypeOK, FilesStay, ActiveModelIsThere, Resting, Alone, setups, download
  <2>3. SwapIsAt'
    BY <1>7 DEF BeginRecreate, SwapTypeOK, FilesStay, SwapIsAt, Restarted, setups, download
  <2> QED  BY <2>1, <2>2, <2>3
<1>8. CASE Recreate
  <2> DEFINE loaded == IF setup = "lemonade" THEN ini ELSE env
  <2>0. /\ server' \in {server, Removed, Serving(loaded)}
        /\ loaded \in Named
    BY <1>8 DEF Recreate, Recreated, SwapIsAt, SwapTypeOK
  <2>s. /\ {server, Removed, Serving(loaded)} \subseteq [there : BOOLEAN, up : BOOLEAN, model : Named]
        /\ Removed.model = server.model /\ Serving(loaded).model = loaded
    <3> HIDE DEF loaded
    <3> QED  BY <2>0, ServingType, RemovedType DEF SwapTypeOK
  <2>1. server'.model \in {server.model, loaded}
    BY <2>0, <2>s
  <2>2. SwapTypeOK'
    BY <1>8, <2>0, <2>s DEF Recreate, SwapTypeOK, setups, download
  <2>3. FilesStay'
    BY <1>8 DEF Recreate, SwapTypeOK, FilesStay, ActiveModelIsThere, Resting, setups, download
  <2>4. SwapIsAt'
    BY <1>8, <2>1 DEF Recreate, SwapTypeOK, FilesStay, SwapIsAt, Restarted, setups, download
  <2> QED  BY <2>2, <2>3, <2>4
<1>9. CASE DropFlags
  <2>1. SwapTypeOK'
    BY <1>9 DEF DropFlags, SwapTypeOK, others, download
  <2>2. FilesStay'
    BY <1>9 DEF DropFlags, SwapTypeOK, FilesStay, ActiveModelIsThere, Resting, Alone, others, download
  <2>3. SwapIsAt'
    BY <1>9 DEF DropFlags, SwapTypeOK, FilesStay, SwapIsAt, Restarted, others, download
  <2> QED  BY <2>1, <2>2, <2>3
<1>10. CASE RegenerateFlags
  <2>1. SwapTypeOK'
    BY <1>10 DEF RegenerateFlags, SwapTypeOK, others, download
  <2>2. FilesStay'
    BY <1>10 DEF RegenerateFlags, SwapTypeOK, FilesStay, ActiveModelIsThere, Resting, Alone, others, download
  <2>3. SwapIsAt'
    BY <1>10 DEF RegenerateFlags, SwapTypeOK, FilesStay, SwapIsAt, Restarted, others, download
  <2> QED  BY <2>1, <2>2, <2>3
<1>11. CASE AgentDies
  <2>1. SwapTypeOK'
    <3>1. Recreated \subseteq [there : BOOLEAN, up : BOOLEAN, model : Named]
      BY ServingType DEF Recreated, SwapTypeOK
    <3>2. NoSwap \in [at : Stages, asked : Named, env : Named, ini : Named,
                   flags : BOOLEAN, obeyed : BOOLEAN]
      BY DEF NoSwap, Stages, Resting, Named
    <3>3. env' \in Named /\ ini' \in Named
      BY <1>11 DEF AgentDies, HalfWritten, Truncated, SwapTypeOK, Named
    <3> QED  BY <1>11, <3>1, <3>2, <3>3 DEF AgentDies, SwapTypeOK
  <2>2. FilesStay'
    BY <1>11 DEF AgentDies, HalfWritten, Truncated, NoSwap, SwapTypeOK, FilesStay, ActiveModelIsThere, Resting
  <2>3. SwapIsAt'
    BY <1>11 DEF AgentDies, NoSwap, SwapIsAt
  <2> QED  BY <2>1, <2>2, <2>3
<1> QED
  BY <1>1, <1>2, <1>3, <1>4, <1>5, <1>6, <1>7, <1>8, <1>9, <1>10, <1>11 DEF OtherStep

LEMMA SwapInvNext ==
    ASSUME ~MayOverlap, SwapInv, [SwapNext]_swapVars PROVE SwapInv'
<1>1. CASE SwapNext
  BY <1>1, OneMeansAlone, ActivationKeeps, OthersKeep DEF SwapNext
<1>2. CASE UNCHANGED swapVars
  <2>1. SwapTypeOK'
    BY <1>2 DEF swapVars, SwapInv, SwapTypeOK
  <2>2. FilesStay'
    BY <1>2 DEF swapVars, SwapInv, FilesStay, ActiveModelIsThere, Resting
  <2>3. SwapIsAt'
    BY <1>2 DEF swapVars, SwapInv, SwapIsAt, Restarted
  <2> QED  BY <2>1, <2>2, <2>3 DEF SwapInv
<1> QED  BY <1>1, <1>2

\* An activation ends as it is answered, for any models, wherever docker fails
\* and the agent is killed, as long as its handlers work one at a time
\* (_do_model_activate).
THEOREM SwapsEndAsAnswered ==
    ASSUME ~MayOverlap PROVE SwapSpec => []SwapEndsAsAnswered
<1>1. SwapInv => SwapEndsAsAnswered
  BY DEF SwapInv, SwapIsAt, SwapEndsAsAnswered, Restarted
<1> QED  BY <1>1, SwapInvInit, SwapInvNext, PTL DEF SwapSpec

\* The file of the active model is there, under the same condition
\* (_handle_model_delete).
THEOREM ActiveModelStays ==
    ASSUME ~MayOverlap PROVE SwapSpec => []ActiveModelIsThere
<1>1. SwapInv => ActiveModelIsThere
  BY DEF SwapInv, FilesStay
<1> QED  BY <1>1, SwapInvInit, SwapInvNext, PTL DEF SwapSpec

-----------------------------------------------------------------------------
(***************************************************************************)
(* The extensions.                                                         *)
(***************************************************************************)

\* The list a call of the tool is to write is right as far as it goes, whichever
\* directories it has looked at.
ListsAreRight ==
    ~untold /\ (\A t \in Threads : Told(t)) =>
        \A c \in Resolving : tool[c].seen = On \ tool[c].left

\* Under the lock, only an enable makes changes it has yet to tell of.
ExtInv ==
    /\ ExtTypeOK
    /\ \A t \in Threads : request[t].changed => request[t].op = "enable"
    /\ ListsAreRight
    /\ CachedFlagsAreCurrent

LEMMA ExtInvInit == ExtInit => ExtInv
<1> SUFFICES ASSUME ExtInit PROVE ExtInv
  OBVIOUS
<1>1. NoRequest \in Requests /\ ~NoRequest.changed
  BY DEF NoRequest, Requests
<1>2. On \subseteq Exts
  BY DEF On
<1>3. /\ dir \in [Exts -> {"none", "broken", "on", "off"}]
      /\ composeFlags \in SUBSET SUBSET Exts
  BY <1>2 DEF ExtInit
<1>4. request \in [Threads -> Requests] /\ \A t \in Threads : ~request[t].changed
  BY <1>1 DEF ExtInit
<1>5. tool \in [Tools -> ToolCalls] /\ Resolving = {}
  BY DEF ExtInit, ToolAtRest, ToolCalls, Resolving
<1>6. CachedFlagsAreCurrent /\ ListsAreRight
  BY <1>5 DEF ExtInit, CachedFlagsAreCurrent, ListsAreRight
<1> QED  BY <1>3, <1>4, <1>5, <1>6 DEF ExtInit, ExtInv, ExtTypeOK

\* Once .compose-flags is unlinked no list under way gets into it.
LEMMA UnlinkedAreCalls ==
    ASSUME ExtTypeOK, tool' = Unlinked
    PROVE  tool' \in [Tools -> ToolCalls] /\ Resolving' = {}
<1>1. \A c \in Tools : Unlinked[c] \in ToolCalls /\ Unlinked[c].at # "resolving"
  BY DEF ExtTypeOK, Unlinked, ToolAtRest, ToolCalls
<1>2. tool' \in [Tools -> ToolCalls]
  BY <1>1 DEF Unlinked
<1> QED  BY <1>1, <1>2 DEF Resolving

\* One thread takes a step: the flags stay right if it told of its changes
\* before the step, or the change is noted in another way.
LEMMA RequestSteps ==
    ASSUME ExtInv, NEW t \in Threads, NEW r \in Requests,
           request' = [request EXCEPT ![t] = r],
           r.changed => r.op = "enable",
           ExtTypeOK',
           \/ untold' \/ ~Told(t)'
           \/ (composeFlags' = {} /\ tool' = Unlinked)
           \/ (UNCHANGED <<On, composeFlags, tool, untold>> /\ Told(t))
    PROVE  ExtInv'
<1>1. /\ \A s \in Threads \ {t} : request'[s] = request[s]
      /\ request'[t] = r
  BY DEF ExtInv, ExtTypeOK
<1>2. \A s \in Threads \ {t} : Told(s)' = Told(s)
  BY <1>1 DEF Told
<1>3. CASE untold' \/ ~Told(t)'
  BY <1>1, <1>3 DEF ExtInv, CachedFlagsAreCurrent, ListsAreRight
<1>4. CASE composeFlags' = {} /\ tool' = Unlinked
  BY <1>1, <1>4, UnlinkedAreCalls DEF ExtInv, CachedFlagsAreCurrent, ListsAreRight
<1>5. CASE UNCHANGED <<On, composeFlags, tool, untold>> /\ Told(t)
  <2>1. (\A s \in Threads : Told(s)') => \A s \in Threads : Told(s)
    BY <1>2, <1>5
  <2>2. ListsAreRight'
    BY <1>5, <2>1 DEF ExtInv, ListsAreRight, Resolving
  <2>3. CachedFlagsAreCurrent'
    BY <1>5, <2>1 DEF ExtInv, CachedFlagsAreCurrent
  <2> QED  BY <1>1, <2>2, <2>3 DEF ExtInv
<1> QED  BY <1>3, <1>4, <1>5

\* What a thread writes down when it moves on, begins or is done.
LEMMA RequestRecords ==
    ASSUME ExtTypeOK, NEW t \in Threads
    PROVE  /\ NoRequest \in Requests /\ ~NoRequest.changed
           /\ request[t] \in Requests
           /\ \A at \in {"idle", "clear", "deps", "lock", "held", "drop"} :
                 Moves(t, at) <=> request' = [request EXCEPT ![t] = [request[t] EXCEPT !.at = at]]
  BY DEF ExtTypeOK, NoRequest, Requests, Moves

\* Each request begins, looks at what is there, and waits for the lock.
LEMMA BeforeTheLockKeeps ==
    ASSUME ExtInv, NEW t \in Threads,
           \/ \E e \in Exts : \/ InstallExt(t, e) \/ ApplyTemplate(t, e) \/ EnableExt(t, e)
                              \/ DisableExt(t, e) \/ UninstallExt(t, e)
           \/ ReadDeps(t) \/ Acquire(t)
    PROVE  ExtInv'
<1>0. ExtTypeOK /\ request[t] \in Requests /\ (request[t].changed => request[t].op = "enable")
  BY DEF ExtInv, ExtTypeOK
<1>1. UNCHANGED <<dir, composeFlags, tool, untold, On>>
  BY DEF InstallExt, ApplyTemplate, EnableExt, DisableExt, UninstallExt, ReadDeps, Acquire, On
<1>2. Told(t)
  BY DEF InstallExt, ApplyTemplate, EnableExt, DisableExt, UninstallExt, ReadDeps, Acquire,
         Begin, Told
<1>3. PICK r \in Requests :
         request' = [request EXCEPT ![t] = r] /\ (r.changed => r.op = "enable")
  <2>1. CASE \E e \in Exts : \/ InstallExt(t, e) \/ ApplyTemplate(t, e) \/ EnableExt(t, e)
                             \/ DisableExt(t, e) \/ UninstallExt(t, e)
    <3>1. PICK op \in {"install", "apply", "enable", "disable", "uninstall"}, e \in Exts,
               at \in {"clear", "deps", "lock"} : Begin(t, op, e, at)
      BY <2>1 DEF InstallExt, ApplyTemplate, EnableExt, DisableExt, UninstallExt
    <3>2. [op |-> op, ext |-> e, at |-> at, todo |-> {}, changed |-> FALSE] \in Requests
      BY DEF Requests
    <3> QED  BY <3>1, <3>2 DEF Begin
  <2>2. CASE ReadDeps(t)
    <3>1. CASE Answered(t)
      BY <3>1, <1>0, RequestRecords DEF Answered
    <3>2. ASSUME NEW done \in SUBSET Missing(request[t].ext),
                 request' = [request EXCEPT ![t].op = "enable", ![t].at = "lock",
                   ![t].todo = (Missing(request[t].ext) \ done) \cup {request[t].ext}]
          PROVE  \E r \in Requests :
                    request' = [request EXCEPT ![t] = r] /\ (r.changed => r.op = "enable")
      <4> DEFINE r == [request[t] EXCEPT !.op = "enable", !.at = "lock",
                   !.todo = (Missing(request[t].ext) \ done) \cup {request[t].ext}]
      <4>1. Missing(request[t].ext) \subseteq Exts
        BY DEF Missing
      <4>2. r \in Requests /\ r.op = "enable"
        BY <1>0, <4>1 DEF Requests
      <4>3. request' = [request EXCEPT ![t] = r]
        BY <1>0, <3>2 DEF ExtTypeOK
      <4> QED  BY <4>2, <4>3
    <3> QED  BY <2>2, <3>1, <3>2 DEF ReadDeps
  <2>3. CASE Acquire(t)
    BY <2>3, <1>0, RequestRecords DEF Acquire, Requests
  <2> QED  BY <2>1, <2>2, <2>3
<1>4. ExtTypeOK'
  BY <1>0, <1>1, <1>3 DEF ExtTypeOK
<1> QED  BY <1>1, <1>2, <1>3, <1>4, RequestSteps

\* What a thread does to the directories under the lock, or without it, and
\* what it tells of that.
LEMMA ChangesKeep ==
    ASSUME ExtInv, NEW t \in Threads,
           \/ Clear(t) \/ Place(t) \/ ActivateNext(t) \/ Activated(t)
           \/ TurnOff(t) \/ RemoveDir(t) \/ Invalidate(t)
    PROVE  ExtInv'
<1>0. ExtTypeOK /\ request[t] \in Requests /\ (request[t].changed => request[t].op = "enable")
  BY DEF ExtInv, ExtTypeOK
<1>1. /\ request[t].ext \in Exts /\ request[t].todo \subseteq Exts
      /\ dir \in [Exts -> {"none", "broken", "on", "off"}]
  BY <1>0 DEF Requests, ExtTypeOK
<1>2. NoRequest \in Requests /\ NoRequest.changed = FALSE /\ NoRequest.at = "idle"
  BY <1>0, RequestRecords DEF NoRequest
<1>3. ASSUME Answered(t)
      PROVE  request' = [request EXCEPT ![t] = NoRequest] /\ Told(t)'
  BY <1>0, <1>2, <1>3 DEF Answered, Told, ExtTypeOK
<1>4. ASSUME Moves(t, "drop")
      PROVE  ~Told(t)'
  BY <1>0, <1>4 DEF Moves, Told, ExtTypeOK
<1>5. ASSUME NEW at \in {"lock", "deps", "drop"}, Moves(t, at)
      PROVE  \E r \in Requests : /\ request' = [request EXCEPT ![t] = r]
                                 /\ r.changed => r.op = "enable"
  <2> DEFINE r == [request[t] EXCEPT !.at = at]
  <2>1. r \in Requests /\ r.changed = request[t].changed /\ r.op = request[t].op
    BY <1>0 DEF Requests
  <2>2. request' = [request EXCEPT ![t] = r]
    BY <1>0, <1>5, RequestRecords
  <2> HIDE DEF r
  <2> QED  BY <1>0, <2>1, <2>2
<1>6. ASSUME NEW e \in Exts, dir' \in MaybeTorn(e) \/ dir' = [dir EXCEPT ![e] = "none"]
      PROVE  dir' \in [Exts -> {"none", "broken", "on", "off"}]
  BY <1>1, <1>6 DEF MaybeTorn
<1>7. CASE Clear(t)
  <2>1. UNCHANGED <<composeFlags, tool>> /\ (untold' \/ UNCHANGED <<On, untold>>) /\ untold' \in BOOLEAN
    BY <1>0, <1>7 DEF Clear, ExtTypeOK
  <2>2. dir' \in [Exts -> {"none", "broken", "on", "off"}]
    BY <1>1, <1>6, <1>7 DEF Clear
  <2>3. \E r \in Requests : request' = [request EXCEPT ![t] = r] /\ (r.changed => r.op = "enable")
    BY <1>2, <1>3, <1>5, <1>7 DEF Clear
  <2>4. Told(t)
    BY <1>7 DEF Clear, Told
  <2>5. ExtTypeOK'
    BY <1>0, <2>1, <2>2, <2>3 DEF ExtTypeOK
  <2> QED  BY <2>1, <2>3, <2>4, <2>5, RequestSteps
<1>8. CASE Place(t)
  <2>1. UNCHANGED <<composeFlags, tool, untold>> /\ Told(t)
    BY <1>0, <1>8 DEF Place, Told
  <2>2. dir' \in [Exts -> {"none", "broken", "on", "off"}]
    BY <1>1, <1>8 DEF Place
  <2>3. ~Told(t)' \/ UNCHANGED On
    BY <1>1, <1>4, <1>8 DEF Place, On
  <2>4. \E r \in Requests : request' = [request EXCEPT ![t] = r] /\ (r.changed => r.op = "enable")
    BY <1>2, <1>3, <1>5, <1>8 DEF Place
  <2>5. ExtTypeOK'
    BY <1>0, <2>1, <2>2, <2>4 DEF ExtTypeOK
  <2> QED  BY <2>1, <2>3, <2>4, <2>5, RequestSteps
<1>9. CASE ActivateNext(t)
  <2>1. PICK d \in request[t].todo :
          \/ /\ dir[d] \in {"on", "off"}
             /\ dir' = [dir EXCEPT ![d] = "on"]
             /\ request' = [request EXCEPT ![t].todo = @ \ {d},
                                           ![t].changed = @ \/ dir[d] = "off"]
             /\ UNCHANGED untold
          \/ /\ dir[d] # "on"
             /\ untold' = (untold \/ request[t].changed)
             /\ Answered(t)
             /\ UNCHANGED dir
    BY <1>9 DEF ActivateNext
  <2>2. /\ UNCHANGED <<composeFlags, tool>> /\ d \in Exts
        /\ request[t].op = "enable" /\ request[t].at = "held"
    BY <1>1, <1>9 DEF ActivateNext, RequestAt
  <2>3. CASE Answered(t) /\ untold' = (untold \/ request[t].changed) /\ UNCHANGED dir
    <3>1. untold' \/ (Told(t) /\ UNCHANGED <<On, untold>>)
      BY <1>0, <2>2, <2>3 DEF Told, On, ExtTypeOK, Requests
    <3>2. ExtTypeOK'
      BY <1>0, <1>2, <1>3, <2>2, <2>3 DEF ExtTypeOK, Requests
    <3> QED  BY <1>2, <1>3, <2>2, <2>3, <3>1, <3>2, RequestSteps
  <2>4. CASE /\ dir[d] \in {"on", "off"}
             /\ dir' = [dir EXCEPT ![d] = "on"]
             /\ request' = [request EXCEPT ![t].todo = @ \ {d},
                                           ![t].changed = @ \/ dir[d] = "off"]
             /\ UNCHANGED untold
    <3> DEFINE r == [request[t] EXCEPT !.todo = @ \ {d}, !.changed = @ \/ dir[d] = "off"]
    <3>1. /\ r \in Requests /\ r.op = "enable" /\ r.at = "held"
          /\ r.changed = (request[t].changed \/ dir[d] = "off")
      BY <1>0, <2>2 DEF Requests
    <3>2. request' = [request EXCEPT ![t] = r]
      BY <1>0, <2>4 DEF ExtTypeOK
    <3>3. ExtTypeOK'
      BY <1>0, <1>1, <2>2, <2>4, <3>1, <3>2 DEF ExtTypeOK
    <3>4. request'[t] = r
      BY <1>0, <3>2 DEF ExtTypeOK
    <3>5. ~Told(t)' \/ (Told(t) /\ UNCHANGED On)
      <4>1. CASE dir[d] = "off"
        BY <4>1, <3>1, <3>4 DEF Told
      <4>2. CASE dir[d] = "on"
        <5>1. UNCHANGED On
          BY <1>1, <2>2, <2>4, <4>2 DEF On
        <5>2. Told(t)' = Told(t)
          BY <2>2, <3>1, <3>4, <4>2 DEF Told
        <5> QED  BY <5>1, <5>2
      <4> QED  BY <2>4, <4>1, <4>2
    <3> HIDE DEF r
    <3> QED  BY <2>2, <2>4, <3>1, <3>2, <3>3, <3>5, RequestSteps
  <2> QED  BY <2>1, <2>2, <2>3, <2>4
<1>10. CASE Activated(t)
  <2>1. UNCHANGED <<dir, composeFlags, tool, untold, On>>
    BY <1>10 DEF Activated, On
  <2>2. ~Told(t)' \/ Told(t)
    BY <1>4, <1>10 DEF Activated, RequestAt, Told
  <2>3. \E r \in Requests : request' = [request EXCEPT ![t] = r] /\ (r.changed => r.op = "enable")
    BY <1>2, <1>3, <1>5, <1>10 DEF Activated
  <2>4. ExtTypeOK'
    BY <1>0, <2>1, <2>3 DEF ExtTypeOK
  <2> QED  BY <2>1, <2>2, <2>3, <2>4, RequestSteps
<1>11. CASE TurnOff(t) \/ RemoveDir(t)
  <2>1. UNCHANGED <<composeFlags, tool>> /\ Told(t) /\ untold' \in BOOLEAN
    BY <1>0, <1>11 DEF TurnOff, RemoveDir, RequestAt, Told, ExtTypeOK
  <2>2. dir' \in [Exts -> {"none", "broken", "on", "off"}]
    BY <1>1, <1>6, <1>11 DEF TurnOff, RemoveDir
  <2>3. ~Told(t)' \/ untold' \/ UNCHANGED <<On, untold>>
    BY <1>4, <1>11, <1>0 DEF TurnOff, RemoveDir, On, ExtTypeOK
  <2>4. \E r \in Requests : request' = [request EXCEPT ![t] = r] /\ (r.changed => r.op = "enable")
    BY <1>2, <1>3, <1>5, <1>11 DEF TurnOff, RemoveDir
  <2>5. ExtTypeOK'
    BY <1>0, <2>1, <2>2, <2>4 DEF ExtTypeOK
  <2> QED  BY <2>1, <2>3, <2>4, <2>5, RequestSteps
<1>12. CASE Invalidate(t)
  <2>1. UNCHANGED dir /\ composeFlags' \in {{}, composeFlags} /\ untold' \in BOOLEAN
    BY <1>12 DEF Invalidate, FlagsDropped
  <2>2. (composeFlags' = {} /\ tool' = Unlinked) \/ (untold' /\ UNCHANGED tool)
    BY <1>12 DEF Invalidate, FlagsDropped
  <2>3. \E r \in Requests : request' = [request EXCEPT ![t] = r] /\ (r.changed => r.op = "enable")
    BY <1>2, <1>3, <1>5, <1>12 DEF Invalidate
  <2>4. ExtTypeOK'
    BY <1>0, <2>1, <2>2, <2>3, UnlinkedAreCalls DEF ExtTypeOK
  <2> QED  BY <2>1, <2>2, <2>3, <2>4, RequestSteps
<1> QED  BY <1>7, <1>8, <1>9, <1>10, <1>11, <1>12

\* A call of the tool: it tells of its own rename when it empties the file, and
\* the lists of those beside it stay right, or are noted as overtaken.
LEMMA ToolKeeps ==
    ASSUME ExtInv, NEW c \in Tools,
           \/ ToolFindsEmpty(c) \/ ToolOpens(c) \/ ToolLooks(c) \/ ToolWrites(c)
           \/ ToolRemoves(c) \/ ToolEnds(c) \/ \E e \in Exts : ToolRenames(c, e)
    PROVE  ExtInv'
<1>0. /\ ExtTypeOK /\ tool \in [Tools -> ToolCalls] /\ tool[c] \in ToolCalls
      /\ dir \in [Exts -> {"none", "broken", "on", "off"}]
      /\ composeFlags \in SUBSET SUBSET Exts /\ untold \in BOOLEAN
      /\ On \subseteq Exts
  BY DEF ExtInv, ExtTypeOK, On
<1>1. UNCHANGED request /\ \A t \in Threads : Told(t)' = Told(t)
  BY DEF ToolFindsEmpty, ToolOpens, ToolLooks, ToolWrites, ToolRemoves, ToolEnds, ToolRenames, Told
<1>2. SUFFICES
        /\ dir' \in [Exts -> {"none", "broken", "on", "off"}]
        /\ composeFlags' \in SUBSET SUBSET Exts
        /\ tool' \in [Tools -> ToolCalls] /\ untold' \in BOOLEAN
        /\ ListsAreRight' /\ CachedFlagsAreCurrent'
  BY <1>0, <1>1 DEF ExtInv, ExtTypeOK
<1>3. ASSUME NEW at \in {"idle", "drop", "renamed"}, ToolGoes(c, at)
      PROVE  /\ tool' \in [Tools -> ToolCalls]
             /\ tool'[c].at = at
             /\ \A d \in Tools \ {c} : tool'[d] = tool[d]
             /\ Resolving' = Resolving \ {c}
             /\ \A d \in Resolving' : tool'[d] = tool[d]
  <2>1. /\ tool' \in [Tools -> ToolCalls]
        /\ tool'[c].at = at
        /\ \A d \in Tools \ {c} : tool'[d] = tool[d]
    BY <1>0, <1>3 DEF ToolGoes, ToolAtRest, ToolCalls
  <2>2. Resolving' = Resolving \ {c}
    BY <2>1 DEF Resolving
  <2> QED  BY <2>1, <2>2 DEF Resolving
<1>4. CASE ToolFindsEmpty(c)
  <2>1. UNCHANGED <<dir, composeFlags, untold, On>> /\ ToolGoes(c, "drop") /\ composeFlags = {}
    BY <1>4 DEF ToolFindsEmpty, On
  <2> QED  BY <1>0, <1>1, <1>3, <2>1 DEF ExtInv, ListsAreRight, CachedFlagsAreCurrent
<1>5. CASE \E e \in Exts : ToolRenames(c, e)
  <2>1. /\ ToolGoes(c, "renamed") /\ UNCHANGED composeFlags
        /\ untold' = (untold \/ (On # On' /\ Resolving # {}))
        /\ dir' \in [Exts -> {"none", "broken", "on", "off"}]
    BY <1>0, <1>5 DEF ToolRenames
  <2>2. CachedFlagsAreCurrent'
    BY <1>3, <2>1 DEF CachedFlagsAreCurrent
  <2>3. ListsAreRight'
    <3>1. CASE Resolving = {}
      BY <1>3, <2>1, <3>1 DEF ListsAreRight
    <3>2. CASE Resolving # {} /\ On # On'
      BY <1>0, <2>1, <3>2 DEF ListsAreRight
    <3>3. CASE On = On'
      BY <1>0, <1>1, <1>3, <2>1, <3>3 DEF ExtInv, ListsAreRight
    <3> QED  BY <3>1, <3>2, <3>3
  <2> QED  BY <1>0, <1>3, <2>1, <2>2, <2>3
<1>6. CASE ToolOpens(c)
  <2>1. /\ UNCHANGED <<dir, On>> /\ composeFlags' = {}
        /\ untold' = (untold /\ Resolving # {})
        /\ tool' = [tool EXCEPT ![c] = [at |-> "resolving", left |-> Exts, seen |-> {}]]
    BY <1>6 DEF ToolOpens, On
  <2>2. [at |-> "resolving", left |-> Exts, seen |-> {}] \in ToolCalls
    BY DEF ToolCalls
  <2>3. /\ tool' \in [Tools -> ToolCalls]
        /\ tool'[c] = [at |-> "resolving", left |-> Exts, seen |-> {}]
        /\ \A d \in Tools \ {c} : tool'[d] = tool[d]
    BY <1>0, <2>1, <2>2
  <2>4. tool'[c].seen = On' \ tool'[c].left
    BY <1>0, <2>1, <2>3
  <2>5. ASSUME ~untold', \A t \in Threads : Told(t)', NEW d \in Resolving', d # c
        PROVE  tool'[d].seen = On' \ tool'[d].left
    <3>1. d \in Resolving /\ tool'[d] = tool[d]
      BY <2>3, <2>5 DEF Resolving
    <3>2. ~untold /\ \A t \in Threads : Told(t)
      BY <1>0, <1>1, <2>1, <2>5, <3>1
    <3> QED  BY <2>1, <3>1, <3>2 DEF ExtInv, ListsAreRight
  <2>6. ListsAreRight'
    BY <2>4, <2>5 DEF ListsAreRight
  <2> QED  BY <1>0, <2>1, <2>3, <2>6 DEF CachedFlagsAreCurrent
<1>7. CASE ToolLooks(c)
  <2>1. /\ UNCHANGED <<dir, composeFlags, untold, On>>
        /\ tool[c].at = "resolving"
    BY <1>7 DEF ToolLooks, On
  <2>2. PICK e \in tool[c].left :
          tool' = [tool EXCEPT ![c].left = @ \ {e},
                               ![c].seen = IF dir[e] = "on" THEN @ \cup {e} ELSE @]
    BY <1>7 DEF ToolLooks
  <2> DEFINE mine == [tool[c] EXCEPT !.left = @ \ {e},
                               !.seen = IF dir[e] = "on" THEN @ \cup {e} ELSE @]
  <2>3. /\ e \in Exts
        /\ mine \in ToolCalls /\ mine.at = "resolving"
        /\ mine.left = tool[c].left \ {e}
        /\ mine.seen = IF dir[e] = "on" THEN tool[c].seen \cup {e} ELSE tool[c].seen
    BY <1>0, <2>1, <2>2 DEF ToolCalls
  <2>4. tool' = [tool EXCEPT ![c] = mine]
    BY <1>0, <2>2
  <2>5. /\ tool' \in [Tools -> ToolCalls]
        /\ tool'[c] = mine
        /\ \A d \in Tools \ {c} : tool'[d] = tool[d]
    BY <1>0, <2>3, <2>4
  <2> HIDE DEF mine
  <2>6. Resolving' = Resolving /\ c \in Resolving
    BY <2>1, <2>3, <2>5 DEF Resolving
  <2>7. tool[c].seen = On \ tool[c].left => mine.seen = On \ mine.left
    BY <1>0, <2>2, <2>3 DEF On, ToolCalls
  <2>8. ListsAreRight'
    BY <1>1, <2>1, <2>5, <2>6, <2>7 DEF ExtInv, ListsAreRight, Resolving
  <2>9. \A d \in Tools : tool'[d].at = tool[d].at
    BY <2>1, <2>3, <2>5
  <2>10. CachedFlagsAreCurrent'
    BY <1>1, <2>1, <2>9 DEF ExtInv, CachedFlagsAreCurrent
  <2> QED  BY <1>0, <2>1, <2>5, <2>8, <2>10
<1>8. CASE ToolWrites(c)
  <2>1. /\ UNCHANGED <<dir, untold, On>> /\ ToolGoes(c, "idle")
        /\ c \in Resolving /\ tool[c].left = {}
    BY <1>8 DEF ToolWrites, On, Resolving
  <2>2. PICK rest \in SUBSET UNION composeFlags : composeFlags' = {tool[c].seen \cup rest}
    BY <1>8 DEF ToolWrites
  <2>3. composeFlags' \in SUBSET SUBSET Exts
    BY <1>0, <2>2 DEF ToolCalls
  <2>4. ASSUME ~untold', \A t \in Threads : Told(t)', \A d \in Tools : tool'[d].at # "renamed"
        PROVE  tool[c].seen \cup rest = On
    <3>1. tool[c].seen = On
      BY <1>1, <2>1, <2>4 DEF ExtInv, ListsAreRight
    <3>2. \A d \in Tools : tool[d].at # "renamed"
      BY <1>3, <2>1, <2>4 DEF Resolving
    <3>3. \A named \in composeFlags : named = On
      BY <1>1, <2>1, <2>4, <3>2 DEF ExtInv, CachedFlagsAreCurrent
    <3> QED  BY <3>1, <3>3
  <2>5. CachedFlagsAreCurrent'
    BY <2>1, <2>2, <2>4 DEF CachedFlagsAreCurrent
  <2>6. ListsAreRight'
    BY <1>1, <1>3, <2>1 DEF ExtInv, ListsAreRight
  <2> QED  BY <1>0, <1>3, <2>1, <2>3, <2>5, <2>6
<1>9. CASE ToolRemoves(c)
  <2>1. /\ UNCHANGED dir /\ composeFlags' = {} /\ untold' = FALSE
        /\ tool' = [Unlinked EXCEPT ![c] = ToolAtRest]
    BY <1>9 DEF ToolRemoves, FlagsDropped
  <2>2. /\ ToolAtRest \in ToolCalls /\ ToolAtRest.at # "resolving"
        /\ \A d \in Tools : Unlinked[d] \in ToolCalls /\ Unlinked[d].at # "resolving"
    BY <1>0 DEF Unlinked, ToolAtRest, ToolCalls
  <2>3. tool' \in [Tools -> ToolCalls] /\ \A d \in Tools : tool'[d].at # "resolving"
    BY <2>1, <2>2 DEF Unlinked
  <2>4. ListsAreRight' /\ CachedFlagsAreCurrent'
    BY <2>1, <2>3 DEF ListsAreRight, CachedFlagsAreCurrent, Resolving
  <2> QED  BY <1>0, <2>1, <2>3, <2>4
<1>10. CASE ToolEnds(c)
  <2>1. /\ UNCHANGED <<dir, composeFlags, On>> /\ ToolGoes(c, "idle")
        /\ untold' = (untold \/ tool[c].at = "renamed")
    BY <1>10 DEF ToolEnds, On
  <2>2. untold' \in BOOLEAN /\ (~untold' => ~untold /\ tool[c].at # "renamed")
    BY <1>0, <2>1
  <2>3. ListsAreRight'
    BY <1>1, <1>3, <2>1, <2>2 DEF ExtInv, ListsAreRight
  <2>4. ASSUME ~untold', \A d \in Tools : tool'[d].at # "renamed"
        PROVE  \A d \in Tools : tool[d].at # "renamed"
    BY <1>3, <2>1, <2>2, <2>4
  <2>5. CachedFlagsAreCurrent'
    BY <1>1, <2>1, <2>2, <2>4 DEF ExtInv, CachedFlagsAreCurrent
  <2> QED  BY <1>0, <1>3, <2>1, <2>2, <2>3, <2>5
<1> QED  BY <1>4, <1>5, <1>6, <1>7, <1>8, <1>9, <1>10

LEMMA ExtInvStep == ExtInv /\ [ExtNext]_extVars => ExtInv'
<1> SUFFICES ASSUME ExtInv, [ExtNext]_extVars PROVE ExtInv'
  OBVIOUS
<1>0. ExtTypeOK
  BY DEF ExtInv
<1>1. CASE ApiDies
  <2>1. NoRequest \in Requests /\ ~NoRequest.changed
    BY <1>0, RequestRecords DEF NoRequest, Requests
  <2>2. /\ request' \in [Threads -> Requests]
        /\ \A t \in Threads : ~request'[t].changed
    BY <1>1, <2>1 DEF ApiDies
  <2>3. ExtTypeOK'
    BY <1>0, <1>1, <2>2 DEF ApiDies, ExtTypeOK
  <2>4. /\ UNCHANGED <<On, composeFlags, tool>>
        /\ \/ untold' = TRUE
           \/ untold = FALSE /\ \A t \in Threads : Told(t)
    <3>1. UNCHANGED <<On, composeFlags, tool>>
      BY <1>1 DEF ApiDies, On
    <3>2. untold' = (untold \/ \E t \in Threads : ~Told(t))
      BY <1>1 DEF ApiDies
    <3>3. untold \in BOOLEAN
      BY <1>0 DEF ExtTypeOK
    <3>4. CASE \A t \in Threads : Told(t)
      BY <3>1, <3>2, <3>3, <3>4
    <3>5. CASE \E t \in Threads : ~Told(t)
      <4>1. untold' = (untold \/ TRUE)
        BY <3>2, <3>5, Zenon
      <4>2. untold' = TRUE
        BY <4>1
      <4> QED  BY <3>1, <4>2
    <3> QED  BY <3>4, <3>5
  <2>5. CachedFlagsAreCurrent' /\ ListsAreRight'
    BY <2>4 DEF ExtInv, CachedFlagsAreCurrent, ListsAreRight, Resolving
  <2> QED  BY <2>2, <2>3, <2>5 DEF ExtInv
<1>2. CASE UNCHANGED extVars
  BY <1>2 DEF extVars, ExtInv, ExtTypeOK, CachedFlagsAreCurrent, ListsAreRight, Resolving, Told, On
<1> QED  BY <1>1, <1>2, BeforeTheLockKeeps, ChangesKeep, ToolKeeps DEF ExtNext

\* .compose-flags names the extensions that are enabled, for any extensions,
\* dependencies and numbers of requests and of calls of the tool, but for the
\* losses the property names.
THEOREM FlagsStayCurrent == ExtSpec => []CachedFlagsAreCurrent
<1>1. ExtInv => CachedFlagsAreCurrent
  BY DEF ExtInv
<1> QED  BY ExtInvInit, ExtInvStep, <1>1, PTL DEF ExtSpec
=============================================================================
