# Verification of DreamServer

DreamServer installs a local AI stack. The part of it with most logic of its own
is **DreamForge**, an agent server in Rust
(`src/dream-server/extensions/services/dreamforge/rust/crates`): clients talk to
it over WebSocket, it keeps sessions, and for each message it runs an agent turn
that streams from a model, runs tools and asks the user for permission. The same
crates hold a terminal front end (the REPL) with its own session files, and the
tools, workers, plugins and MCP servers a turn may use. Beside it a **host
agent** in Python (`src/dream-server/bin/dream-host-agent.py`) switches the model
the stack serves, and a **dashboard API** in Python installs and enables
extensions. This directory holds TLA+ models of these parts, the TLC runs
that check them, and TLAPS proofs of what matters most.

Paths below are relative to `crates/` unless they start with `docs/`
(`extensions/services/dreamforge/docs/`) or `src/`.

## 1. Inventory

| Component | State it keeps | Operations | What makes it correct |
|---|---|---|---|
| WebSocket sessions (`dreamforge-server/src/ws.rs`, `session_store.rs`) | `SessionStore::sessions`, the session of each connection, one JSON file per session | connect, message, abort, mode change, fork, create, delete, save, load | no message is lost, an Active session has a reason, what was written stays on disk |
| Agent bridge (`agent_bridge.rs`) | `ACTIVE_QUERIES`, `PENDING_PERMISSIONS`, one blocking thread per query | `run_query`, `signal_abort`, `decide`, `resolve_permission`, reading of the stream, posting of answers, save | an abort hits its own session, a prompt has exactly one waiting thread, the first reply decides, every query is reported on |
| Server lifecycle (`lib.rs`, `routes.rs`, `main.rs`) | phase of the process | start, recovery, ctrl-c, drain, exit, crash | recovery misses no session, ctrl-c ends the process |
| Permission policy (`runtime/src/permissions.rs`) | none | `authorize_with_context` | deny and ask win over allow; a higher mode allows no less |
| Turn loop (`runtime/src/conversation.rs`, `local_conversation.rs`, `compact.rs`) | transcript, iteration counter, detector counters | request, call, deny, block, compact | every tool use has its result, no tool runs after a loop |
| Model client (`api/src/providers/openai_compat.rs`) and its readers | `StreamState`, calls under way | send, retry, chunk, finish, build the message | the message is what arrived |
| MCP manager (`runtime/src/mcp_stdio.rs`) | a process and a flag per server, routes of the tools | spawn, initialise, discover, call, list, read, time out, reset, retry, shut down | a process is greeted before it is asked, and dropped once it is out of step; a call is sent once; routes are true |
| Worker boot (`runtime/src/worker_boot.rs`) and recovery recipes (`recovery_recipes.rs`) | worker registry, attempts per scenario | create, observe, trust, send prompt, restart, terminate, complete; attempt | one prompt at a time, a replay is of the prompt that was lost, one recovery before escalation |
| Tools that keep state (`tools/src/lib.rs`) | settings and plan-mode file; output file and manifest of each sub-agent | Config, EnterPlanMode, ExitPlanMode; Agent | plan mode can be left again; a manifest says what the output file says |
| Registries (`task_registry.rs`, `team_cron_registry.rs`) | tasks, teams, crons | create, stop, assign, delete | references stay valid |
| Plugins (`plugins/src/lib.rs`) | install directories, `installed.json`, `settings.json`, the copy of it in memory | install, update, enable, disable, uninstall, sync, report | a report heals what failures left; saved flags are heeded |
| CLI session files (`runtime/src/session.rs`, `dreamforge-cli/src/main.rs`) | JSONL file, rotated logs, the REPL's transcript | append, save, rotate, load, resume, fork, clear, compact | memory is what the file says; a saved session is on disk |
| Host agent (`src/dream-server/bin/dream-host-agent.py`) | `.env`, `models.ini`, model files, the llama-server container, compose flags | activate, roll back, delete, download, verify, recreate | an activation ends as it is answered; the active model's file is there |
| Dashboard API (`src/dream-server/extensions/services/dashboard-api/routers/extensions.py`, `templates.py`) with `dream-cli` | directory and compose file of each extension, a file lock, `.compose-flags` | install, apply a template, enable with dependencies, disable, uninstall; the tool's enable and disable | the saved flags name what is enabled |
| Everything else | | | listed in `PROJECT.json` with the reason it is not modelled |

How they interact:

* A connection's messages are handled one after the other. `user_message`
  stores the message, sets the session Active and **spawns** `run_query`, so
  turns overlap with the handlers of every connection and with each other:
  nothing stops a second message to a session whose turn is running.
* A handler changes a session by `get` (a copy) and a later `put` (the whole
  copy), two holds of the store's lock. So does a turn, for each text block.
* `run_query` puts its abort signal into `ACTIVE_QUERIES` under the **session**
  id, runs the turn on a blocking thread, and removes the entry afterwards.
* A turn that must ask puts a one-shot sender into `PENDING_PERMISSIONS` and
  blocks. Any client that knows the request id may reply.
* At the end of a turn the session is written to its file; ctrl-c writes all of
  them; the start loads them and turns Active into Errored.
* A turn calls the model client for each request and the tools for each call of
  the answer. The turns of the server share one MCP manager, made at its start
  (`dreamforge-server/src/lib.rs:142-181`); it does one operation at a time, under
  a mutex.
* The tools of one process share its registries and, without locks, its files;
  a sub-agent runs on a thread of its own and tells of itself through files.
* The REPL appends each message of a turn to the session's file as it is pushed,
  and writes the file anew after the turn.
* The host agent serves each request on a thread. Activations exclude each other
  by a lock; deletions, downloads and recreations of the core services do not
  take it.
* The dashboard API serves each request on a thread; a file lock excludes them
  from each other while they change an extension, but not while they look at it.
  They have the host agent drop the saved compose flags; the command line tool
  takes no lock and writes the flags anew.

What is hard: the get/put pairs, two queries under one key of the abort map,
replies that come late or twice, the end of the process with threads that wait,
files written in place, partial results inside a turn, parallel tool calls whose
parts interleave, MCP servers that answer after their timeout, screens that are
older than what they are read for, checks made before a lock is taken, updates of several files that stop in the
middle, and restarts of a container whose command is older than the
configuration. `PROJECT.json` lists the hazards with their lines.

## 2. Modules

| Module | What it holds |
|---|---|
| `Permissions` | the policy as operators: modes, rules, overrides, `Authorize`, `ParseMode` |
| `PermissionDecision` | one call meeting the policy, for every input |
| `SessionServer` | connections, store, files, queries, abort map, prompts, process |
| `SessionProperties` | what `SessionServer` owes its users |
| `Histories` | abstract: the history of each session, as a client that waits for its answers may rely on it |
| `MCSession` | the instances of `SessionServer` for TLC |
| `TurnLoop` | a conversation: turns, tool calls, detector, compaction; its properties |
| `ModelStream` | one model request: retries, chunks, events, the message two readers build |
| `McpManager`, `McpProperties` | the MCP manager and its server processes; what it owes both sides |
| `McpLink` | abstract: what the manager promises each server process |
| `MCTurnLoop`, `MCTurnParts` | instances: the loop alone; loop, stream, manager and sub-agents in one run |
| `Workers`, `WorkerProperties` | the worker registry and the recovery recipes; what they owe |
| `PlanMode`, `Agents`, `TeamTasks` | the tools with state; their properties |
| `Plugins` | the plugin manager and its files; its properties |
| `ReplSession` | the REPL and its session files; its properties |
| `ModelSwap` | the host agent's models; its properties |
| `Extensions` | the dashboard's requests for extensions, the tool and the saved flags; its property |
| `MCControl` | instance: the seven other parts above that share no state, and the policy |
| `SessionProofs`, `SessionSafety`, `SessionHistory`, `TurnProofs`, `McpProofs`, `WorkerProofs`, `ToolProofs`, `CliProofs` | theorems |

`MCTurnParts` and `MCControl` put parts that share no state side by side in one
run: a variable `part`, chosen at the start, says which of them moves, the others
rest in one initial state. This is a union of instances, not a composition. The
composition that matters is inside `SessionServer` (connections, store, abort
map, prompts, turns, process) and inside `ModelStream` (client and reader),
`ReplSession` (REPL and file) and `McpManager` (manager and processes).

### SessionServer and the code

A step is one hold of a lock, or what a thread does between two of them.

| Variable | Code |
|---|---|
| `store` | `SessionStore::sessions`; a session is its status, `updated_at`, mode and the set of messages in it |
| `disk` | `{data_dir}/sessions/{id}.json`; `Torn` is a file cut short, which the next start skips |
| `conn[c]` | the loop of `handle_ws`; `writing` is a handler between its get and its put, `signal` an abort between its put and `signal_abort`, `creating` is `get_or_create` between its two locks |
| `query[q]` | one `run_query`: `accepted` (in the handler), `spawned`, then the blocking thread (`streaming`, `deciding`, `asking`, `executing`, `posting`, `writing`), `returned`, `done`; `past` if its process ended |
| `active`, `pending` | the two global maps |
| `knows` | the dialogs clients still show |
| `granted`, `refused`, `deleted`, `used`, `crashes`, `wrote` and `ok` of a query | history, for the properties |

| Actions | Code |
|---|---|
| `Connect`, `ConnectToNone`, `ConnectCreates`, `Disconnect` | `handle_ws`, `get_or_create` |
| `UserMessage`, `Abort`, `ChangeMode`, `Fork`, then `PutBack` | the handlers' get and put |
| `SignalAbort`, `Reply` | `signal_abort`, `resolve_permission` |
| `CreateSession`, `DeleteSession` | `session_create`, the session routes |
| `Register`, `Cleanup` | insert into and remove from `ACTIVE_QUERIES` |
| `StreamStops`, `FinalAnswer`, `UseTools`, `Permit`, `Refuse`, `Ask`, `WakeAllowed`, `WakeRefused`, `Execute`, `TurnDies` | `run_turn_blocking` up to the summary |
| `PostGet`, `PostPut`, `SaveTurn` | the answers, block by block, and the save |
| `Stop`, `Drain`, `Exit`, `Crash`, `CrashInBoot`, `Boot`, `Tick` | the process |

`Drain` is taken when main returns: tokio then drops the async tasks (the
connections, and each `run_query` at its await) and waits for the blocking
threads; `Exit` is the end of that wait. `Crash` may come at any step, and
inside a save it leaves any subset of the files written and, where `torn` is
among the operations, one cut short.

A save need not write (`Save`): serialising a session, its file or the whole
directory may fail, which is a warning in the log (`session_store.rs:136-140`,
`agent_bridge.rs:1046`), and the turn is reported complete all the same. `wrote`
records that the save of a turn did go through. Where `torn` is among the
operations too, a write that fails may leave its file cut short. Failing saves are
`"unsaved"` of `Ops`, for the turns, ctrl-c and the recovery alike.

Abstractions: a message is the query it belongs to and its place in it; tool
calls and their outputs are counted only; the mode of a call is always
danger-full-access in `SessionServer` (that of `bash`), the other modes are
`PermissionDecision`'s; usage counters and titles are left out.

`Histories` says what all this amounts to for a client that waits for its
answers: each session there is has a set of messages, to which one message is
added at a time (`Append`) that is in no session, fork or file yet, and after the
one it follows; a fork takes its source's history and puts it under a new id; a
deleted session is gone, its file stays; a save, whole or cut off by a kill,
makes the files of some sessions what their histories are; and a start brings
back exactly the files. The refinement mapping reads the histories from `store`
(`Logs`), the files from `disk` (`Files`) and the forks under way from the
handlers between get and put (`Forks`). Everything else the server does, taking
copies included, is a stutter, and a `put` is allowed only if the whole session
it writes is the one there plus its one message.

### TurnLoop and the code

`messages` is `Session::messages` of the runtime that exists for the turn,
`kept` what the caller keeps: the REPL takes the runtime over on success
(`replace_runtime`) and ends on an error; the server stores texts only, the
user's before the turn. Both are in the model (`caller`). `det` is
`LoopDetectionState` with `triggered`, and `ran` the calls that did run.
`RequestFails` is each early return of `run_turn` after the iteration check,
`ResultFails` a failed `push_message`. A message with tool uses is told by their
number, a result by the use it answers. Whether the compaction threshold is
reached is left open: usage comes from the provider.

### ModelStream and the code

A behaviour is one request. `attempts` is the loop of `send_with_retry`, `block`
the flags of `StreamState` with a `ToolCallState` for each index, `events` what
`next_event` has handed out, `said` what has arrived. Block 0 is the text, block i
the i-th call; text and arguments are numbered pieces, so that order, loss and
repetition show.

The loops of `ingest_chunk` and of `finish` are taken one event at a time:
`ChunkArrives` keeps the deltas of a chunk in `todo`, `TakeUp` applies one of them
(`ToolCallState::apply`), `Ingest` makes its events, `StopStarted` the stops that
a finish reason asks for, `Finish` those of `finish`, `Build` the end of the
message and `build_assistant_message`. `StartBlock`, `HandOn` and `StopBlock` are
the three events, and the reader takes each as it is made: the code reads the
events of a chunk when `ingest_chunk` has returned, and neither side looks at the
other in between. A failure or an abort can fall between any two of them.

`reader` says who reads: the loop of `agent_bridge.rs:284-342` with its one slot
(`Meant` is that slot, whatever block an event is of), or that of the sub-agent
(`tools/src/lib.rs`), which keeps calls by index and asks again for the whole
answer if the stream did not begin. SSE framing is left out: the buffer keeps a
frame until it is complete, and a cut loses the incomplete one.

What the model server may say is restricted (`MaySay`, `Chunk`): it begins calls
in the order of their indexes, names each once, sends no more after a finish
reason, and a chunk has one delta of a block. "stop" stands for every finish
reason but "tool_calls"; none of them is looked at.

### McpManager and the code

`process`, `initialized` and `route` are the manager's fields, `op` the operation
under way with the position of `ensure_server_ready` or of the request in it,
`tries` and `inits` the two nested retry loops. `live`, `greeted` and `owing` are
the processes: those that run, those that answered their own initialize, those
that still owe an answer, which is what makes the next frame read from them the
wrong one. `Exit` may come at any time. `Reset` is `reset_server`, `ShouldReset`
and `IsRetryable` are the manager's two classifications of errors. `Page` and
`AnswerEnds` are good answers, `GreetingFails` and `AskFails` every error of
`run_process_request`.

`ShutdownFails` is the early return of `shutdown` at the first process it cannot
end or wait for (`mcp_stdio.rs:728-729`, `:1358-1368`): it and the servers after
it stay with the manager, exited or not. In a reset the kill of an own child is
taken to succeed.

`McpLink` is what each process is promised. The refinement mapping `LinkOf` reads
the link from the **processes**, not from the manager's flags, and has a value
(`spoiled`) that no state of the link has: `ImplementsLink` fails if a process
that owes an answer is kept.

### Workers and the code

`worker[w]` is the entry of the registry; an `Observe...` action is one call of
`observe` with a screen that shows the cues it names. A screen may be of any
time, so any cue may come in any state. `lost` and `outcome` are history.
`AttemptRecovery` is `attempt_recovery`; `Recover` names the scenario of a failed
worker, `RecoverOther` those raised elsewhere.

### PlanMode, Agents and TeamTasks and the code

A step of `PlanMode` is one access to `settings.local.json` or `plan-mode.json`
by one call; calls of several threads may overlap, and a kill may cut the write
under way short. `Agents` has for each sub-agent where its tool call or thread
is, its manifest and the terminal sections of its output file; each of the two
writes may fail, which makes `spawn_agent_job` try to record a failure instead.
`TeamTasks` has the two registries and, for each thread, the tasks its TeamCreate
has still to assign, one hold of the task lock each.

### Plugins and the code

`folder` is what an install directory holds: a version, `broken` (a manifest that
does not load) or `bare` (none). `records` and `enabled` are the two files,
`memory` the manager's copy of the flags. `plug` is the operation with its
position, the plugin it is about (`p`) and the one of the bundle its sync puts in
place (`b`); each access may fail (`FolderFails`, `FileFails`) or be cut short by a
kill (`PluginsKilled`), a removal halfway too, that of a plugin the bundle no
longer has included (`Stale`). Every query first syncs the bundle (`Sync`, `ReplaceCopy`,
`Renew`, `DropStale`, `Synced`), then discovers (`Discover`), and only then
reports. `Repair` is a user who puts a damaged file right.

### ReplSession and the code

`repl` is `LiveCli`: its path, the path its appends go to, the transcript kept
between turns and the one of the running turn. `files` are the session files and
`aside` the rotated logs. A turn's messages are told by kind only; `owed` counts
the results still to come. `Rotate`, `Replace` and `CleanUp` are the three steps
of a save. A kill is `ReplEnds`, at any step.

### ModelSwap and the code

| Variable | Code |
|---|---|
| `setup` | where the agent runs and the backend: `compose restart` of Lemonade, `compose stop`/`up` of llama.cpp, or inspect, remove and run in a container |
| `flags` | `.compose-flags` is there |
| `env`, `ini` | the models `.env` and `models.ini` name |
| `gguf` | the model files; `bad` is one whose hash is wrong |
| `server` | the container: there, up, and the model in its command |
| `swap` | `_do_model_activate`: its position, the model asked for, both backups, and whether docker did what it was told |
| `removal`, `fetching`, `checking`, `recreation` | the other handlers between two of their steps |

`Activate` to `CheckHealth` and the rollback are the steps of one activation;
`WriteFails` and `DockerTimesOut` are the exceptions that leave it. `DropFlags` is
what the dashboard does at each change of an extension, `RegenerateFlags` what
`dream-cli` does. `AgentDies` may come at any step. Only the model is kept of the
two files; split models, other settings, the status file and the poller of a
download are left out.

### Extensions and the code

`dir[e]` is the directory of a user extension, of which the compose file alone is
kept; `composeFlags` is `.compose-flags`; `request[t]` is a thread of the
dashboard API: `clear` and `deps` are an install and an enable before the lock,
`lock` waits for it, `held` has it, and `drop` has made its changes and is to
have the host agent drop the flags. `InstallExt`, `ApplyTemplate`, `EnableExt`,
`DisableExt`, `UninstallExt` are the endpoints up to the lock; `Clear` is the
removal of a broken directory there, `ReadDeps` the walk over the manifests;
`Place`, `ActivateNext` (once for each dependency), `TurnOff`, `RemoveDir` are the
changes; `Invalidate` the call of the agent, whose failure is only logged.
`ApiDies` may come at any step. `untold` records that a change was made which
nobody who writes, or is to write, the flags need have seen, and that they were not
dropped since.

`tool[c]` is a call of `dream enable` or `dream disable`, which takes no lock:
`ToolRenames` is the rename of a compose file, `ToolOpens` the redirection that
empties `.compose-flags`, `ToolLooks` the resolver's look at one directory (`left`
are those to come, `seen` those found on), `ToolWrites` its one write at the end.
The file may be unlinked in between, by the agent or by the `rm` of another call
(`ToolRemoves`): the resolver then writes to a file that is not at its path
(`unlinked`). If another call has written in between, its longer list shows
behind the shorter one. `ToolFindsEmpty` is a call that finds the file empty, as it
is while another resolves, and removes it, whatever is in it by then. A call may
be killed, or fail, at any step (`ToolEnds`).

Docker, hooks, progress files and the purge of data change none of this and are
left out. So are the extensions that come with DreamServer: `dream preset load`
and `dream mode` rename compose files of theirs without writing the flags anew. A
directory the resolver cannot read, which ends its scan with a warning and a
shorter list, is left out too.

## 3. Runs

| Run | Question | Bounds |
|---|---|---|
| `prompts` | Two turns that ask twice each, two clients that send, reply late, twice, against each other, and leave: `NoOrphanPrompt`, `FirstReplyRules`, `ActiveTargetsRunning`, `ActiveIsExplained` | 1 session, 2 connections, 2 queries: what an overwritten abort signal, a foreign cleanup of the map and a lost update need; 2 calls a turn, so that a reply to the first question can come during the second |
| `restart` | Forks, deletions, ctrl-c, a crash, saves that fail or leave a file cut short, in turns, at ctrl-c and in the recovery, and the start: `TypeOK`; no session comes back Active (`ActiveMeansAccepted`); a turn whose save went through stays in its file (`AnsweredIsDurable`) | 2 sessions, 1 crash: enough for a start that recovers one file of two and for a crash inside that recovery; 2 queries of 2 text blocks, so that a later turn saves over an earlier one, before or after the start. A patient client: without it `AnsweredIsDurable` is false (`lost_answer`), the other two are theorems without it. 2,011,531 states, a minute |
| `patient` | One client that waits for its answers: its gets and puts implement the abstract histories (`ImplementsHistories`) | 2 sessions, so that a fork has a source and a place; 2 queries with 2 text blocks, so that an answer can be out of order and a second message can displace a first; 1 crash, the clock moves once. 2,602,285 states, two and a half minutes |
| `aborts` | An abort reaches the registered query of its session (`AbortReachesRegistered`) and none but those of its session (`OnlyItsSessionAborts`) | 2 sessions, 2 connections, 2 queries, patient clients |
| `served` | Every accepted message is reported on, if those who are asked answer (`EveryQueryReported`), and ctrl-c ends the process unless a turn waits for a user (`StopLeadsToDown`) | 2 queries under way, a hook that lets a call pass, has it asked, or denies it; failures, no aborts. 80,498 states |
| `turns` | The parts of a turn. Loop: `NoUnansweredUse`, `ResultsHaveCalls`, `NoCallAfterLoop`. Stream: `MessageIsWhatArrived`, `BlocksAreBracketed`. MCP: `NoOrphanProcess`, `CallSentOnce`, `ImplementsLink`, `ReportedToolsAreRouted`, `EveryOperationEnds`. Sub-agents: `EndIsWritten`, `RunningAgentEnds` | 3 turns of 3 requests with up to 3 calls; thresholds 3, 2, 5; 4 messages preserved as in the code, so that compaction can cut in a batch. 1 retry, 2 calls, 2 pieces of text and arguments: calls may overlap and a piece may come before a name. 2 MCP servers that share a tool name, 2 pages: a listing may fail between pages and take a name over. 2 agents. 839,502 states, three minutes |
| `control` | `NoPromptOverAnother`, `ReplayIsOfLostPrompt`, `OneLossPerDispatch`, `OneRecoveryBeforeEscalation`; `PlanIsReversible`; `SavedFlagsHold`, `ReportHeals`; `TeamOfTaskListsIt`; `FileIsMemory`, `SavedIsOnDisk`, `GapsOnlyAtResume`; `SwapEndsAsAnswered`, `ActiveModelIsThere`; `CachedFlagsAreCurrent`; `RefusedOrAskedIsNotRun`, `MoreModeAllowsMore` | 1 worker, 2 prompts, 2 attempts: workers do not interact, a second prompt must not displace the first. 2 callers, 3 modes. A bundled and an external plugin, 2 versions, 1 upgrade, 2 failures: a failure and one in the repair of it. 2 tasks, teams and threads. 2 session files, transcripts of 3 lines, no rotated log kept (the first clean-up deletes), 1 kill. 2 models, failing docker commands, handlers one at a time. 2 extensions, one of which depends on the other; 2 requests under way, so that one looks before the lock while the other changes under it; 2 calls of the tool under way, so that one renames, empties or removes while the other resolves; any number of requests, calls, failures and restarts after one another. The policy for every input. 2,546,598 states, three and a half minutes |
| `lost_answer` | violated: `NoLostMessage` once aborts are sent | 1 session, 1 query |
| `default_mode` | violated: `DefaultModePrompts` | exhaustive |
| `loop_goes_on` | violated: `LoopEndsTurn` | 1 turn |
| `parallel_calls` | violated: `EachCallIsEmitted` | 2 calls, 1 piece |
| `model_swap` | violated: `ActivatedIsServed` | 2 models, docker obeys, handlers one at a time |

Every run has `CHECK_DEADLOCK FALSE`: the instances really stop, when all
connections have been used, all ids are handed out, all queries are done and the
bounds (`MaxClock`, `MaxCrashes`, `MaxTurns`, `MaxCuts`, ...) are spent; the REPL
ends by itself on an error. Symmetry is declared in safety runs only, over sets
of ids that are compared for equality and nothing else.

`restart`, `patient` and `aborts` restrict the client, not the server: messages, mode
changes and deletions only to a session with nothing under way, and one
connection at a time. Without that the properties are false: see the findings.
`control` restricts the users of the host agent to one handler at a time
(`MayOverlap = FALSE`): with overlap both properties of `ModelSwap` are false, as
the findings say.

**Bounds that are not in the code.** `MaxPages`: the listing follows cursors for
as long as a server sends them. `MaxStreamCalls`, `MaxPieces`: an answer has any
number of calls and pieces. `MaxAttempts` of `Workers` bounds prompts to one
worker, which the code only counts.

**Fairness.** `FairSpec` is weak fairness of each handler and of each turn: the
async runtime polls every ready task, the operating system runs every thread,
and the model server and the tools are assumed to come to an end. Two steps are
strongly fair because the get-put pairs of other handlers disable them again and
again: the return of main, and, in `ServedSpec` only, a reply to a prompt that
somebody is shown. `McpFairness` is weak fairness of the manager's steps alone:
the runtime polls the operation, and a read from a silent process ends with its
timeout; the processes owe nothing. `AgentFairness` is weak fairness of each
sub-agent's thread. In `MCTurnParts` both are stated of every behaviour: a part that
rests has no such step to take. Users, crashes and operators owe nothing. `ReportHeals` is an
action property and needs none.

## 4. Findings

Each is a run that TLC finds violated.

* `lost_answer`. An abort between the get and the put of a turn that is
  finishing (or the turn between the abort's) writes the session back without
  what the other stored: an answer the user was streamed is gone from the
  history, with one user who waited for it.
* `default_mode`. `default` becomes the mode Prompt, which is declared after
  DangerFullAccess; `current >= required` therefore allows every tool before the
  branch that would ask.
* `loop_goes_on`. A triggered loop detector refuses calls and ends nothing; the
  turn runs on to the iteration limit.
* `parallel_calls`. The server's bridge has one slot for a tool call. Of two
  calls in one answer the start of the second replaces the first, which is never
  run; the sub-agent, which keeps calls by index, runs both.
* `model_swap`. Without `.compose-flags`, which every change of an extension on
  the dashboard drops, an activation stops and starts the old container, whose
  command names the old model. It is healthy, and the new model is reported as
  activated.

Seen while modelling, in agreement with the model but without a run of their own:

**Server and turn.**

* An abort sent after `{"status": "running"}` and before the spawned `run_query`
  has registered is lost (`ws.rs:138-159`, `agent_bridge.rs:574`), against
  docs/websocket-protocol.md:60; an abort does not end a turn that waits for
  permission (`agent_bridge.rs:208`), against docs/getting-started.md:136; and
  there is no timeout, against docs/troubleshooting.md:106.
* A second message to a session overwrites the signal of the first query, and the
  first to finish removes the signal of the second.
* A handler or turn that holds a copy puts a deleted session back
  (`session_store.rs:95-99`); a deleted session's file stays and is loaded by the
  next start, against docs/api-reference.md:105.
* A turn whose save failed is reported complete, and lost with the next crash
  (`session_store.rs:136-140`, `agent_bridge.rs:1046`).
* Session files are written in place, against docs/troubleshooting.md:146, and
  are not saved every 10 seconds, against docs/troubleshooting.md:130.
* ctrl-c during a turn leaves an Active file, which the next start takes for a
  crash (`lib.rs:117-136`); a turn that waits for a reply keeps the process from
  ending.
* The mode a client sets is not read by turns, against docs/permissions-guide.md:97.
* `updated_at` is never moved by an update, so a reconnecting client gets the
  newest session, not the last used (`session_store.rs:119-127`).
* A hook's Allow does not force a call that the mode refuses, against the comment
  in `permissions.rs:9-11`.
* The user's message is in the model's history twice: stored by the handler,
  pushed again by `run_turn`.
* Compaction may leave tool results without their tool use as the first messages
  after the summary. In the server its result is dropped with the runtime, while
  the client is told that older messages were summarised.
* A session-creating race is harmless: `get_or_create` drops its lock before it
  creates, and two first clients get a session each (`session_store.rs:125`).
* A stream that is cut off in silence counts as complete: `finish` emits a
  MessageStop whatever ended it, so the error "assistant stream ended without a
  message stop event" is only for a stream with no chunk at all. A call that never
  got a name is dropped, and finish reason `length` is read by nobody.
* The bridge leaves System messages out of what it sends to the model, and with
  them the summary of a compaction.

**MCP.** A listing follows cursors without limit. A crashed server is started
again by the next operation, though docs/mcp-configuration.md says it stays
unavailable until a restart. Errors of the kill in a reset are ignored;
those in a shutdown end it, with servers still running.

**Workers.** A trust prompt on the screen of a worker with a prompt in flight
drops that prompt without a word; a ready cue makes a worker ready that still
waits for trust, without the gate being cleared; a Finished worker is revived by
a screen.

**Tools.** Overlapping plan-mode and Config calls lose each other's changes, since
each writes back the document it read; Config can set `plan` while a stale state
file is there. Sub-agents end with the process and leave manifests that say
`running`; an error of the last attempt to record an end is dropped.

**Plugins.** One directory that does not load fails the report for all plugins.
Two managers on the same files overwrite each other. Installing a plugin from its
own install path removes it before it is copied.

**REPL.** One torn line makes the whole session unloadable. `/resume latest` at
the start picks the empty session just created. Two REPLs may write one file. A
kill between rotation and replacement leaves no file of the session's name.

**Host agent.** An exception after `.env` was written is answered with an error
and nothing is rolled back, against src/dream-server/FAQ.md:119. In a container,
a `docker run` that fails after the `rm` leaves no server, and the rollback then
cannot inspect one, but answers that it rolled back; it also keeps the new image.
While an activation runs, the former model, which `.env` no longer names, may be
deleted, so that a rollback names a file that is gone. A download gets its final
name before its hash is checked: activated in between, it is deleted under the
server. An activation takes no lock of the service, so a recreation may overlap
it. A rollback writes back the whole `.env` and loses a settings save made
meanwhile. A `.env` cut short loses every other setting too.

**Extensions.** An enable that fails at a later dependency, or at the extension
itself, has renamed the earlier ones, and neither drops the flags nor starts
them (`extensions.py:1090`); so does a service of a template
(`templates.py:171`). "Disable extension before uninstalling" and "already
installed" are looked at before the lock (`extensions.py:1233`, `:869`): a
directory that was enabled or installed in between is removed, the latter without
the lock. The tool takes no lock at all: of two overlapping calls the later rename
may be missing from the list that stays (`dream-cli:285-288`), or a list may be
written over the beginning of a longer one; `.compose-flags` is then wrong until it
is dropped or written anew. `dream preset load` and `dream mode` rename compose
files of built-in extensions and do not write the flags anew. A `.compose-flags` that names a file that is gone makes every docker command of the
agent fail; the tool heeds it too, as long as it starts with `-f`
(`dream-cli:371-376`). A library extension without a compose file
(`resources/dev/extensions-library/services/fooocus`) is "broken" once it is
installed.

## 5. Proofs

All theorems hold for every value of the constants that satisfies the named
assumptions: `ConstantsAssumption` (there are finitely many sessions, no query is
called None, the configured mode is a label, bounds are numbers),
`AbsenceAssumption` (what stands for no session and for a torn file is no
session), `TurnAssumption` (thresholds and the preserved
tail are positive), `McpAssumption` (servers are numbers, in the order of their
names; offers are names), `WorkersAssumption` and `NoneIsNoWorker`,
`PlanAssumption` (plan and default are modes), `TeamAssumption` (NoTeam is no
team or task), `SwapAssumption` (NoModel is no model), `ExtAssumption` (there is an extension;
dependencies are extensions), `VersionsAssumption` (a version is not the name of
an install directory that does not load), `ReplAssumption` (what stands for no
file and no transcript is neither; the number of messages kept is a number). TLC
evaluates each in the runs.

Five theorems of the server are of the client that waits for its answers, as the
runs `restart`, `patient` and `aborts` are, and name what they do not hold with. Each
condition is needed; TLC finds the property violated without it:

* `ActiveHasACause`: if clients change modes (`"mode" \in Ops`), they wait. A
  handler that changes the mode puts back the session it got, status included: if
  the turn ends in between, the session is Active again with nothing under way
  (`ws.rs`, the mode message).
* `MessagesStay`: no aborts. The put of an abort writes back the messages it got,
  and takes away those that came since, of the turn it was to stop.
* `AnswersAreDurable`: no aborts, for the same reason. Nothing is assumed of the
  saves: they may fail and may be cut short. The property is of turns whose save
  went through, and exempts the file that a later write cut short.
* `ServerImplementsHistories`: the same, no file cut short, which no step of
  `Histories` is, and no mode changes. A client that waits
  has nothing under way when a session is deleted, and so no turn or message can
  put it back; the handler of a mode change is no query, and its put can.

| Theorem | Property | Inductive invariant |
|---|---|---|
| `SessionProofs!TypeCorrect` | `TypeOK` | itself |
| `SessionSafety!AbortsFindTheirOwn` | `ActiveTargetsRunning` | itself, with the session of a query fixed from its acceptance on (`Seated`) |
| `SessionSafety!AbortsComeFromTheirOwn` | `OnlyItsSessionAborts` | uses the one above for the target of the signal |
| `SessionSafety!RestartLeavesNoneActive` | `ActiveMeansAccepted` | needs that a copy held by a handler or turn is explained too (`CopyIsAccepted`), and that a handler that holds a message's copy has its query accepted (`HeldIsAccepted`): a put may write an Active session back long after |
| `SessionSafety!PromptsHaveAThread` | `NoOrphanPrompt` | itself, over the steps that touch `asking` |
| `SessionSafety!TheFirstReplyRules` | `FirstReplyRules` | the word a thread received is the one recorded first (`WordInv`), for the request it waits on, which is the only one of it pending |
| `SessionSafety!ActiveHasACause` | `ActiveIsExplained`, if who changes modes waits | an Active copy, wherever it is held, is explained as the stored one is (`Explained`): by a query under way or by one that ended unanswered |
| `SessionHistory!AbortsArrive` | `AbortReachesRegistered`, of a patient client | each running query has its own signal in the map (`Registered`), because a patient client has one query of a session under way (`OneInFlight`) |
| `SessionHistory!MessagesStay` | `NoLostMessage`, of a patient client without aborts | every copy that is still to be put back holds all that its session has (`CopiesHaveAll`) |
| `SessionHistory!AnswersAreDurable` | `AnsweredIsDurable`, of a patient client without aborts | the same, with what a turn has put into its session block by block, and that a session still has it once the save went through, if it is there at all (`TurnsKept`): the session whose file was cut short is gone after the next start, and nobody puts it back under its id (`PutsNoneBack`), so that no later save writes a file without the turn. Connections keep their sessions (`ConnsKept`) |
| `SessionHistory!ServerImplementsHistories` | `ImplementsHistories`, of a patient client without aborts, mode changes and torn files | `HistoryInv`: a copy in hand is the session as it is and one message more, and its session is there (`HandAdds`); a turn's session has its question and what it has put, in order, as long as it is there (`TurnsAdd`); no session, fork or file has a message whose query has not put it (`NothingUnsaid`). Then each step of `SessionServer` is a step of `Histories` or a stutter (`ConnStep`, `TurnStep`, `GoingStep`, `EndStep`) |
| `TurnProofs!EveryUseIsAnswered` | `NoUnansweredUse` | in the middle of a batch the transcript is complete but for the rest of that batch (`Open`) |
| `TurnProofs!OnlyCompactionParts` | `ResultsHaveCalls` | the same; compaction keeps it because a cut inside a batch leaves only that batch's results in front |
| `TurnProofs!LoopStopsTheTools` | `NoCallAfterLoop` | each counter is the length of the last row of its kind (`Counts`), which the thresholds compare with the definition of a loop |
| `TurnProofs!EventsAreBracketed` | `BlocksAreBracketed` | the flags of a block are what the events say of it (`EventsInv`), on top of `StreamInv`: with the deltas still to be taken up a block is what was said of it (`Taken`), only the block in hand has something to hand on (`InOrder`), and no delta comes for a block that has stopped |
| `TurnProofs!MessagesAreWhatArrived` | `MessageIsWhatArrived` | `ReadInv`: the text so far is the pieces handed on so far, in order; the reader has gathered of an open call what was handed on of it, and has given to the turn each call that is closed, once (`CallRead`); when nothing is unfinished, what was handed on is what was said. For the bridge it holds as long as one call at most is named, because its slot is then that call's |
| `McpProofs!McpTypes` | `McpTypeOK` (proved only) | itself |
| `McpProofs!NoneLeftBehind` | `NoOrphanProcess` | `McpInv`: what the operation's position says of its server's process |
| `McpProofs!CallsAreNotRepeated` | `CallSentOnce` | a call that was sent is never back at a position that sends (`McpInv`) |
| `McpProofs!RoutesHold` | `RoutesAreListed` (proved only: no run needs it beside the next) | itself |
| `McpProofs!ReportsHold` | `ReportedToolsAreRouted` | the good names of a discovery are routed to servers that are not among its failed ones |
| `McpProofs!ManagerImplementsLink` | `ImplementsLink` | every step of the manager and of the processes is a step of the link or a stutter, because a process that owes an answer is one the operation waits for (`McpInv`) |
| `WorkerProofs!WorkerTypes` | types of the registry | itself |
| `WorkerProofs!NoneOverAnother`, `ReplaysAreOfLostPrompts`, `EachDispatchLostOnce`, `RecoveryIsTriedOnce` | `NoPromptOverAnother`, `ReplayIsOfLostPrompt`, `OneLossPerDispatch`, `OneRecoveryBeforeEscalation` | `WorkersInv`: the four together with what each status says of an entry (`Sound`) |
| `ToolProofs!PlanCanBeLeft` | `PlanIsReversible` | `PlanInv`: without overlap, what a call has read is what the files say |
| `ToolProofs!ManifestsAgree` | `EndIsWritten` | `AgentsInv`: from its section on, an agent's position says what its last section is |
| `ToolProofs!TasksAreListed` | `TeamOfTaskListsIt` | `TeamInv`: the team of a creation under way is there and lists what is left to assign |
| `ToolProofs!SwapsEndAsAnswered`, `ActiveModelStays` | `SwapEndsAsAnswered`, `ActiveModelIsThere`, if handlers do not overlap | `SwapInv`: at each position of an activation, what both files, the backups and the server name (`SwapIsAt`), and that the files of the models in question stay (`FilesStay`) |
| `ToolProofs!FlagsStayCurrent` | `CachedFlagsAreCurrent` | `ExtInv`: while all changes are told, the list each call of the tool is to write is right as far as it has got (`ListsAreRight`), because a drop of the flags takes the file away from every call that has it open (`UnlinkedAreCalls`), and a rename beside a call that resolves is noted as a loss; only an enable has changes of its own at `held`, all others go straight to `drop` |
| `CliProofs!NothingOverrulesARefusal`, `ModesAreOrdered` | `RefusedOrAskedIsNotRun`, `MoreModeAllowsMore` | none: a decision is a function of its input (`Authorized`, `AllowedIff`) |
| `CliProofs!FlagsHold` | `SavedFlagsHold` | the same at every position of every operation (`Heeded`) |
| `CliProofs!ReportsHeal` | `ReportHeals` | what of the bundle is done loads and is in the registry held, nothing is left to do when it is stored, and what is on disk is what is held when discovery ends (`SyncMade`) |
| `CliProofs!FilesAreMemory`, `SavedStaysOnDisk` | `FileIsMemory`, `SavedIsOnDisk` | `ReplInv`: the two with where names come from (`NamesKept`, `WorkNamed`: a file set aside is of the session of the file it was, and no name is given twice) and what a settled session has saved (`SavedNow`) |
| `CliProofs!NoGapsInATurn` | `GapsOnlyAtResume` | `GapInv`: every transcript, in memory or on disk, has behind each message with tool uses a row of results that is complete, or ended by the user's next message, or by the end of the transcript; in a turn the last row lacks as many as are owed |

Each proof has the same layout: one lemma per operator or group of actions, a
step lemma with a case per action of the next-state relation, and a temporal last
step.

Only model-checked: liveness (`EveryQueryReported`, `StopLeadsToDown`,
`EveryOperationEnds`, `RunningAgentEnds`), which is out of the prover's reach.
Every other property of a passing run is a theorem. Induction over data is out of
reach too, and no theorem needs it: where the code loops over data, the model has
a step for each round, and the induction is that over steps.

## 6. Not modelled

Listed per component in `PROJECT.json`. In short:

* No state of their own: rendering, argument and configuration parsing, prompt
  assembly, tool definitions, SSE framing, bash validation; the retrieval, voice
  and document routes, which are stateless calls of other services.
* The permission enforcer: it is built for sub-agents only, with
  danger-full-access, where every check is an allow (`tools/src/lib.rs:4263`).
* Code nothing outside tests calls: lane policy, lane completion, the green
  contract, branch locks, the MCP lifecycle validator. Nothing runs a cron entry.
* Other programs: the dashboard's front end and the rest of its API, the proxies,
  installers and operation scripts; of the host agent the docker commands for
  extensions, settings, logs and statistics.
* In the modelled parts: usage counters, titles, sequence numbers of outgoing
  messages; session_switch, whose history replay the server does not implement;
  a session file or directory that is there but cannot be read at the start (a
  file that does not parse is `Torn`);
  the answer of an MCP process that has exited but is still in the pipe's buffer;
  an abort in `served` and in `prompts`, which multiplies their states (`aborts` has
  them, and the theorems of the properties of `prompts` hold with them); saves that fail outside `restart`, likewise.

## 7. Plan

Done: everything in section 2. Left: the containers and the progress of
`Extensions`, that is the host agent's start, stop and install with its lock per
service. Known hazards: a disable that meets a start
leaves a container without its compose file; an agent killed in the middle
leaves the progress at "installing" for an hour.
