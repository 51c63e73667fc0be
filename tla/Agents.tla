--------------------------------- MODULE Agents ---------------------------------
(***************************************************************************)
(* Sub-agents (the Agent tool of tools/src/lib.rs).  The tool writes an    *)
(* output file and a manifest, starts a thread and returns.  The thread    *)
(* runs a turn and records how it ended: a section at the end of the       *)
(* output file, then the manifest, written anew.  Others learn of an agent *)
(* from these files alone.                                                 *)
(***************************************************************************)
EXTENDS Naturals, Sequences

CONSTANT AgentIds  \* the ids make_agent_id still hands out

VARIABLES
    agent,         \* where the tool or the thread of each agent is
    manifest,      \* {id}.json, told by its status
    sections,      \* the terminal sections of {id}.md
    agents_up      \* the process runs

agentVars == <<agent, manifest, sections, agents_up>>

\* The tool: "none" until it has written the output file.  "lost": the last
\* attempt to record the end failed, and its error is dropped.
AgentPc ==
    {"none", "created", "spawning", "running", "completing", "completed",
     "failing", "failed", "ended", "lost"}

AgentInit ==
    /\ agent = [a \in AgentIds |-> "none"]
    /\ manifest = [a \in AgentIds |-> "none"]
    /\ sections = [a \in AgentIds |-> <<>>]
    /\ agents_up = TRUE

AgentGoes(a, from, to) == agents_up /\ agent[a] = from /\ agent' = [agent EXCEPT ![a] = to]

Manifest(a, status) == manifest' = [manifest EXCEPT ![a] = status]

\* What a write that fails, or that a kill cuts short, may leave.
CutShort(a) == manifest' \in {manifest, [manifest EXCEPT ![a] = "torn"]}

-----------------------------------------------------------------------------
(***************************************************************************)
(* The tool: execute_agent_with_spawn.                                     *)
(***************************************************************************)

CreateAgent(a) ==
    /\ AgentGoes(a, "none", "created")
    /\ UNCHANGED <<manifest, sections, agents_up>>

WriteManifest(a) ==
    /\ AgentGoes(a, "created", "spawning")
    /\ Manifest(a, "running")
    /\ UNCHANGED <<sections, agents_up>>

\* The first manifest cannot be written: the tool fails and no thread starts.
ManifestFails(a) ==
    /\ AgentGoes(a, "created", "lost")
    /\ CutShort(a)
    /\ UNCHANGED <<sections, agents_up>>

\* A thread that cannot be started is recorded as a failed agent.
SpawnAgent(a) ==
    /\ AgentGoes(a, "spawning", "running") \/ AgentGoes(a, "spawning", "failing")
    /\ UNCHANGED <<manifest, sections, agents_up>>

-----------------------------------------------------------------------------
(***************************************************************************)
(* The thread: run_agent_job in spawn_agent_job's wrapper.                 *)
(***************************************************************************)

\* Broken variant: a panic is not caught.
TurnEndsUncaught(a) ==
    /\ \/ AgentGoes(a, "running", "completing")
       \/ AgentGoes(a, "running", "failing")
       \/ AgentGoes(a, "running", "died")
    /\ UNCHANGED <<manifest, sections, agents_up>>

\* The turn ends, well or with an error or a panic.
TurnEnds(a) ==
    /\ AgentGoes(a, "running", "completing") \/ AgentGoes(a, "running", "failing")
    /\ UNCHANGED <<manifest, sections, agents_up>>

\* The two ends, before and after their section is written.
Ends == {<<"completing", "completed">>, <<"failing", "failed">>}

\* Broken variant: the manifest first, and the section after it.
RecordManifestFirst(a) ==
    \E r \in Ends :
        /\ AgentGoes(a, r[1], r[2])
        /\ Manifest(a, r[2])
        /\ UNCHANGED <<sections, agents_up>>

\* persist_agent_terminal_state: append_agent_output first.
RecordSection(a) ==
    \E r \in Ends :
        /\ AgentGoes(a, r[1], r[2])
        /\ sections' = [sections EXCEPT ![a] = Append(@, r[2])]
        /\ UNCHANGED <<manifest, agents_up>>

\* Then the manifest.
RecordManifest(a) ==
    \E r \in Ends :
        /\ AgentGoes(a, r[2], "ended")
        /\ Manifest(a, r[2])
        /\ UNCHANGED <<sections, agents_up>>

\* Either write may fail.  A completed turn that cannot be recorded is
\* recorded as failed; if that fails too, nobody learns of it.
RecordFails(a) ==
    /\ \/ /\ AgentGoes(a, "completing", "failing") \/ AgentGoes(a, "failing", "lost")
          /\ UNCHANGED manifest
       \/ /\ AgentGoes(a, "completed", "failing") \/ AgentGoes(a, "failed", "lost")
          /\ CutShort(a)
    /\ UNCHANGED <<sections, agents_up>>

\* The process that runs the agents ends: the threads are not joined.
AgentsExit ==
    /\ agents_up /\ agents_up' = FALSE
    /\ \/ UNCHANGED manifest
       \/ \E a \in AgentIds : agent[a] \in {"created", "completed", "failed"} /\ CutShort(a)
    /\ UNCHANGED <<agent, sections>>

-----------------------------------------------------------------------------

AgentStep(a) ==
    \/ WriteManifest(a) \/ ManifestFails(a) \/ SpawnAgent(a) \/ TurnEnds(a)
    \/ RecordSection(a) \/ RecordManifest(a) \/ RecordFails(a)

AgentNext == (\E a \in AgentIds : CreateAgent(a) \/ AgentStep(a)) \/ AgentsExit

AgentSpec == AgentInit /\ [][AgentNext]_agentVars

\* The operating system runs every thread, and a turn comes to an end: it has
\* an iteration limit, and its requests and its tools are assumed to return.
AgentFairness == \A a \in AgentIds : WF_agentVars(AgentStep(a))

-----------------------------------------------------------------------------

\* A manifest that tells how an agent ended stands for an output file that
\* says the same last, whatever writes failed and wherever the process was
\* killed (persist_agent_terminal_state, spawn_agent_job).
EndIsWritten ==
    \A a \in AgentIds : manifest[a] \in {"completed", "failed"} =>
        /\ sections[a] # <<>>
        /\ sections[a][Len(sections[a])] = manifest[a]

\* An agent whose manifest says it runs does not say so for ever: it ends in
\* the manifest, or the process has gone, or the end could not be written.  A
\* panic of its turn is no exception (spawn_agent_job's catch_unwind).
RunningAgentEnds ==
    \A a \in AgentIds :
        manifest[a] = "running" ~>
            \/ manifest[a] \in {"completed", "failed"}
            \/ ~agents_up
            \/ agent[a] = "lost"
=============================================================================
