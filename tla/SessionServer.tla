----------------------------- MODULE SessionServer -----------------------------
(***************************************************************************)
(* The DreamForge server (dreamforge-server): WebSocket connections, the   *)
(* session store they share, the queries their messages start, the two     *)
(* global maps of the agent bridge (ACTIVE_QUERIES, PENDING_PERMISSIONS),  *)
(* the session files, shutdown, crash and restart.                         *)
(*                                                                         *)
(* The unit of atomicity is one hold of a mutex.  A handler that changes a *)
(* session takes a copy with SessionStore::get and writes the whole copy   *)
(* back with SessionStore::put, so that is two steps, with every other     *)
(* connection and every turn free to run in between.  The handlers of one  *)
(* connection run one after the other; run_query is spawned and overlaps   *)
(* with them.                                                              *)
(***************************************************************************)
EXTENDS Permissions, FiniteSets

CONSTANTS
    Sessions,     \* the session ids uuid may still hand out
    Conns,        \* WebSocket connections; each one is opened at most once
    Queries,      \* user messages; each one starts one run_query
    None,         \* absence: no session, no file, no query
    Torn,         \* the content of a session file whose write was cut short
    ConfigMode,   \* the label of ServerConfig::permission_mode
    HookVerdicts, \* overrides a configured PreToolUse hook may return; {}: no hook
    Ops,          \* the operations clients and operators use in this model
    Patient,      \* one client, which waits for the answer before it goes on
    MaxBlocks,    \* bound: text blocks of the answers of one turn
    MaxCalls,     \* bound: tool calls of one turn
    MaxClock,     \* bound: seconds that pass
    MaxCrashes    \* bound: crashes

AllOps == {"user", "abort", "mode", "fork", "create", "delete", "leave",
           "stop", "crash", "torn", "unsaved", "fail"}

ASSUME ConstantsAssumption ==
    /\ IsFiniteSet(Sessions)
    /\ None \notin Queries
    /\ ConfigMode \in Labels
    /\ HookVerdicts \subseteq Overrides
    /\ Ops \subseteq AllOps
    /\ Patient \in BOOLEAN
    /\ MaxBlocks \in Nat \ {0}
    /\ MaxCalls \in Nat /\ MaxClock \in Nat /\ MaxCrashes \in Nat

VARIABLES
    phase,    \* serving, stopping (ctrl-c seen), draining (main returned), down
    clock,    \* the wall clock, in seconds
    crashes,  \* crashes so far
    store,    \* SessionStore::sessions
    disk,     \* {data_dir}/sessions/{id}.json
    used,     \* ids handed out so far
    deleted,  \* history: ids whose deletion was confirmed to a client
    conn,     \* the connections
    query,    \* the queries
    active,   \* ACTIVE_QUERIES: the query whose abort signal the map holds
    pending,  \* PENDING_PERMISSIONS: requests with a sender in the map
    knows,    \* requests whose dialog a client still shows
    granted,  \* history: requests whose first reply allowed the call
    refused   \* history: requests whose first reply refused it

disks   == <<disk, used, deleted>>
replies == <<granted, refused>>
times   == <<phase, clock, crashes>>
vars    == <<times, store, disks, conn, query, active, pending, knows, replies>>

-----------------------------------------------------------------------------
(***************************************************************************)
(* Data.                                                                   *)
(***************************************************************************)

Status == {"Idle", "Active", "Errored", "Aborted"}

\* What a session's messages are told apart by: the query they belong to and
\* their place in it: 0 is the user's message, 1.. the text blocks answered.
Entry == [q : Queries, n : Nat]

Session == [status : Status, updated : Nat, mode : Labels, log : SUBSET Entry]

\* An absent session and a file cut short are told from every session.
ASSUME AbsenceAssumption == None \notin Session /\ Torn \notin Session

NewSession == [status |-> "Idle", updated |-> clock, mode |-> ConfigMode, log |-> {}]

\* A request id: the query that asks and the number of its question.
Request == Queries \X Nat

\* Where a query is; ok: it answers; wrote, a history: so does the file, since
\* the write of its save went through.  "accepted" is still in the handler of its message.
InHandler == {"accepted"}
Spawned   == {"spawned"}
Blocking  == {"streaming", "deciding", "asking", "executing", "posting", "writing"}
Running   == Blocking \cup {"returned"}
InFlight  == InHandler \cup Spawned \cup Running

QueryPc   == {"unused", "done", "past"} \cup InFlight

QueryState ==
    [pc : QueryPc, sid : Sessions \cup {None},
     conn : Conns \cup {None}, aborted : BOOLEAN, copy : Session \cup {None},
     calls : Nat, ask : Nat, reply : {"none", "yes", "no"},
     via : {"policy", "reply"}, blk : Nat, tot : Nat, ok : BOOLEAN, wrote : BOOLEAN]

ConnState ==
    [pc : {"new", "creating", "ready", "writing", "signal", "closed"},
     sid : Sessions \cup {None}, op : {"none", "user", "abort", "mode", "fork"},
     at : Sessions \cup {None}, copy : Session \cup {None},
     q : Queries \cup {None}]

UnusedQuery ==
    [pc |-> "unused", sid |-> None, conn |-> None, aborted |-> FALSE,
     copy |-> None, calls |-> 0, ask |-> 0, reply |-> "none",
     via |-> "policy", blk |-> 0, tot |-> 0, ok |-> FALSE, wrote |-> FALSE]

NewConn == [pc |-> "new", sid |-> None, op |-> "none", at |-> None,
            copy |-> None, q |-> None]

TypeOK ==
    /\ phase \in {"serving", "stopping", "draining", "down"}
    /\ clock \in Nat
    /\ crashes \in Nat
    /\ store \in [Sessions -> Session \cup {None}]
    /\ disk \in [Sessions -> Session \cup {None, Torn}]
    /\ used \subseteq Sessions
    /\ deleted \subseteq Sessions
    /\ conn \in [Conns -> ConnState]
    /\ query \in [Queries -> QueryState]
    /\ active \in [Sessions -> Queries \cup {None}]
    /\ pending \subseteq Request
    /\ knows \subseteq Request
    /\ granted \subseteq Request
    /\ refused \subseteq Request

\* First start: no file, nobody connected.
Init ==
    /\ phase = "serving"
    /\ clock = 0
    /\ crashes = 0
    /\ store = [s \in Sessions |-> None]
    /\ disk = [s \in Sessions |-> None]
    /\ used = {} /\ deleted = {}
    /\ conn = [c \in Conns |-> NewConn]
    /\ query = [q \in Queries |-> UnusedQuery]
    /\ active = [s \in Sessions |-> None]
    /\ pending = {} /\ knows = {}
    /\ granted = {} /\ refused = {}

Live == {s \in Sessions : store[s] # None}

\* The async side of the process runs until main returns.
Async == phase \in {"serving", "stopping"}
Alive == phase # "down"

-----------------------------------------------------------------------------
(***************************************************************************)
(* Connecting, disconnecting, and the handlers that only read.             *)
(***************************************************************************)

\* Nothing of the session is under way: what a patient client waits for.
Quiet(s) == \A q \in Queries : query[q].pc \in InFlight => query[q].sid # s

\* The client of a patient model has one connection at a time.
MayOpen == Patient => \A d \in Conns : conn[d].pc \in {"new", "closed"}

\* get_or_create with sessions in the map: the one with the greatest updated_at.
Connect(c) ==
    /\ phase = "serving" /\ conn[c].pc = "new" /\ MayOpen
    /\ \E s \in Live :
          /\ \A t \in Live : store[t].updated <= store[s].updated
          /\ conn' = [conn EXCEPT ![c] = [@ EXCEPT !.pc = "ready", !.sid = s]]
    /\ UNCHANGED <<times, store, disks, query, active, pending, knows, replies>>

\* get_or_create with an empty map drops the lock before it creates one.
ConnectToNone(c) ==
    /\ phase = "serving" /\ conn[c].pc = "new" /\ MayOpen
    /\ Live = {}
    /\ conn' = [conn EXCEPT ![c].pc = "creating"]
    /\ UNCHANGED <<times, store, disks, query, active, pending, knows, replies>>

Create(s) ==
    /\ s \notin used
    /\ store' = [store EXCEPT ![s] = NewSession]
    /\ used' = used \cup {s}
    /\ UNCHANGED <<disk, deleted>>

ConnectCreates(c) ==
    /\ Async /\ conn[c].pc = "creating"
    /\ \E s \in Sessions :
          /\ Create(s)
          /\ conn' = [conn EXCEPT ![c] = [@ EXCEPT !.pc = "ready", !.sid = s]]
    /\ UNCHANGED <<times, query, active, pending, knows, replies>>

\* Broken variant: the prompts of a connection are dropped with it.
DisconnectDropsPrompts(c) ==
    /\ "leave" \in Ops
    /\ Async /\ conn[c].pc = "ready"
    /\ conn' = [conn EXCEPT ![c].pc = "closed"]
    /\ knows' = {r \in knows : query[r[1]].conn # c}
    /\ pending' = {r \in pending : query[r[1]].conn # c}
    /\ UNCHANGED <<times, store, disks, query, active, replies>>

\* The reader loop ends and the writer task is aborted.  Nothing is cleaned
\* up: the queries of the connection go on, their prompts stay pending, and
\* the client may lose the dialogs it has not been shown or does not keep.
Disconnect(c) ==
    /\ "leave" \in Ops
    /\ Async /\ conn[c].pc = "ready"
    /\ conn' = [conn EXCEPT ![c].pc = "closed"]
    /\ \E lost \in SUBSET {r \in knows : query[r[1]].conn = c} :
          knows' = knows \ lost
    /\ UNCHANGED <<times, store, disks, query, active, pending, replies>>

\* session_create and POST /api/sessions: the connection keeps its session.
CreateSession ==
    /\ "create" \in Ops
    /\ Async
    /\ \E s \in Sessions : Create(s)
    /\ UNCHANGED <<times, conn, query, active, pending, knows, replies>>

\* DELETE /api/sessions/{id}: the map entry goes, the file stays.
DeleteSession(s) ==
    /\ "delete" \in Ops
    /\ Async /\ s \in Live
    /\ Patient => Quiet(s)
    /\ store' = [store EXCEPT ![s] = None]
    /\ deleted' = deleted \cup {s}
    /\ UNCHANGED <<times, disk, used, conn, query, active, pending, knows, replies>>

-----------------------------------------------------------------------------
(***************************************************************************)
(* Handlers that change a session: a copy is taken, changed and put back.  *)
(***************************************************************************)

\* The handler holds the changed copy, to be written at a.
Holds(c, op, a, copy, q) ==
    conn' = [conn EXCEPT ![c] = [@ EXCEPT !.pc = "writing", !.op = op, !.at = a,
                                          !.copy = copy, !.q = q]]

Accept(q, c, pc) ==
    query' = [query EXCEPT ![q] = [@ EXCEPT !.pc = pc, !.sid = conn[c].sid, !.conn = c]]

\* user_message: nothing checks whether a query of the session is running.
UserMessage(c, q) ==
    /\ "user" \in Ops
    /\ Async /\ conn[c].pc = "ready"
    /\ query[q].pc = "unused"
    /\ Patient => Quiet(conn[c].sid)
    /\ LET s == conn[c].sid IN
         \/ /\ s \in Live
            /\ Holds(c, "user", s,
                     [store[s] EXCEPT !.status = "Active",
                                      !.log = @ \cup {[q |-> q, n |-> 0]}], q)
            /\ Accept(q, c, "accepted")
         \/ /\ s \notin Live
            /\ Accept(q, c, "spawned")
            /\ UNCHANGED conn
    /\ UNCHANGED <<times, store, disks, active, pending, knows, replies>>

\* abort: mark the session, then signal.
Abort(c) ==
    /\ "abort" \in Ops
    /\ Async /\ conn[c].pc = "ready"
    /\ LET s == conn[c].sid IN
         \/ /\ s \in Live
            /\ Holds(c, "abort", s, [store[s] EXCEPT !.status = "Aborted"], None)
         \/ /\ s \notin Live
            /\ conn' = [conn EXCEPT ![c] = [@ EXCEPT !.pc = "signal", !.op = "abort"]]
    /\ UNCHANGED <<times, store, disks, query, active, pending, knows, replies>>

\* Broken variant: every running query is told to stop.
SignalAbortToAll(c) ==
    /\ Async /\ conn[c].pc = "signal"
    /\ query' = [q \in Queries |->
                   IF query[q].pc \in Running THEN [query[q] EXCEPT !.aborted = TRUE]
                   ELSE query[q]]
    /\ conn' = [conn EXCEPT ![c] = [@ EXCEPT !.pc = "ready", !.op = "none"]]
    /\ UNCHANGED <<times, store, disks, active, pending, knows, replies>>

\* signal_abort: whichever query the map has for the session.
SignalAbort(c) ==
    /\ Async /\ conn[c].pc = "signal"
    /\ LET target == active[conn[c].sid] IN
         query' = IF target = None THEN query
                  ELSE [query EXCEPT ![target].aborted = TRUE]
    /\ conn' = [conn EXCEPT ![c] = [@ EXCEPT !.pc = "ready", !.op = "none"]]
    /\ UNCHANGED <<times, store, disks, active, pending, knows, replies>>

\* mode_change: the session's own mode, which no turn reads.
ChangeMode(c, label) ==
    /\ "mode" \in Ops
    /\ Async /\ conn[c].pc = "ready" /\ conn[c].sid \in Live
    /\ Patient => Quiet(conn[c].sid)
    /\ LET s == conn[c].sid IN
         Holds(c, "mode", s, [store[s] EXCEPT !.mode = label], None)
    /\ UNCHANGED <<times, store, disks, query, active, pending, knows, replies>>

\* session_fork, and POST .../fork by a task of its own: a copy under a new id.
Fork(c, source, target) ==
    /\ "fork" \in Ops
    /\ Async /\ conn[c].pc = "ready"
    /\ source \in Live /\ target \notin used
    /\ Holds(c, "fork", target,
             [store[source] EXCEPT !.status = "Idle", !.updated = clock], None)
    /\ used' = used \cup {target}
    /\ UNCHANGED <<times, store, disk, deleted, query, active, pending, knows, replies>>

\* SessionStore::put inserts whatever the map holds by now, and the handler
\* goes on: a user message spawns its query, an abort has its signal to send.
PutBack(c) ==
    /\ Async /\ conn[c].pc = "writing"
    /\ store' = [store EXCEPT ![conn[c].at] = conn[c].copy]
    /\ query' = IF conn[c].op = "user"
                THEN [query EXCEPT ![conn[c].q].pc = "spawned"] ELSE query
    /\ conn' = [conn EXCEPT ![c] =
                  [NewConn EXCEPT !.sid = conn[c].sid,
                     !.pc = IF conn[c].op = "abort" THEN "signal" ELSE "ready"]]
    /\ UNCHANGED <<times, disks, active, pending, knows, replies>>

\* Broken variant: the sender stays in the map.
ReplyKeepsSender(c, r, allow) ==
    /\ Async /\ conn[c].pc = "ready" /\ r \in knows
    /\ query' = IF r \in pending
                THEN [query EXCEPT ![r[1]].reply = IF allow THEN "yes" ELSE "no"]
                ELSE query
    /\ granted' = IF allow /\ r \notin refused THEN granted \cup {r} ELSE granted
    /\ refused' = IF ~allow /\ r \notin granted THEN refused \cup {r} ELSE refused
    /\ UNCHANGED <<times, store, disks, conn, active, pending, knows>>

\* Broken variant: a refusal takes the sender out and does not use it.
ReplyDropsRefusal(c, r, allow) ==
    /\ Async /\ conn[c].pc = "ready" /\ r \in knows
    /\ pending' = pending \ {r}
    /\ query' = IF r \in pending /\ allow
                THEN [query EXCEPT ![r[1]].reply = "yes"] ELSE query
    /\ UNCHANGED <<times, store, disks, conn, active, knows, replies>>

\* permission_response: the sender is removed under the lock and used once.
Reply(c, r, allow) ==
    /\ Async /\ conn[c].pc = "ready" /\ r \in knows
    /\ pending' = pending \ {r}
    /\ query' = IF r \in pending
                THEN [query EXCEPT ![r[1]].reply = IF allow THEN "yes" ELSE "no"]
                ELSE query
    /\ granted' = IF allow /\ r \notin refused THEN granted \cup {r} ELSE granted
    /\ refused' = IF ~allow /\ r \notin granted THEN refused \cup {r} ELSE refused
    /\ UNCHANGED <<times, store, disks, conn, active, knows>>

-----------------------------------------------------------------------------
(***************************************************************************)
(* run_query: an async task that registers its abort signal, a turn on a   *)
(* blocking thread, and the cleanup when the thread has returned.          *)
(***************************************************************************)

Goto(q, pc) == query' = [query EXCEPT ![q].pc = pc]

\* Broken variant: the signal is not put into the map.
RegisterNothing(q) ==
    /\ Async /\ query[q].pc = "spawned"
    /\ Goto(q, "streaming")
    /\ UNCHANGED <<times, store, disks, conn, active, pending, knows, replies>>

\* The abort signal of the session is now this query's, whoever's it was;
\* the blocking thread starts.
Register(q) ==
    /\ Async /\ query[q].pc = "spawned"
    /\ active' = [active EXCEPT ![query[q].sid] = q]
    /\ Goto(q, "streaming")
    /\ UNCHANGED <<times, store, disks, conn, pending, knows, replies>>

\* A `?` before the first stream, or a panic: nothing is posted or saved.
TurnDies(q) ==
    /\ "fail" \in Ops
    /\ Alive /\ query[q].pc \in {"streaming", "executing"}
    /\ Goto(q, "returned")
    /\ UNCHANGED <<times, store, disks, conn, active, pending, knows, replies>>

\* The abort flag is looked at after each event of the stream and nowhere else.
StreamGoesOn(q) == query[q].pc = "streaming" /\ ~query[q].aborted

\* Abort seen, provider error, or iterations exhausted: run_turn turns the
\* error into a summary with no message, and the session is saved as it is.
StreamStops(q) ==
    /\ Alive /\ query[q].pc = "streaming"
    /\ Goto(q, "posting")
    /\ UNCHANGED <<times, store, disks, conn, active, pending, knows, replies>>

\* A message without tool calls ends the turn; it has at least one text block.
FinalAnswer(q, blocks) ==
    /\ Alive /\ StreamGoesOn(q)
    /\ query' = [query EXCEPT ![q] = [@ EXCEPT !.pc = "posting", !.tot = blocks]]
    /\ UNCHANGED <<times, store, disks, conn, active, pending, knows, replies>>

UseTools(q) ==
    /\ Alive /\ StreamGoesOn(q) /\ query[q].calls < MaxCalls
    /\ Goto(q, "deciding")
    /\ UNCHANGED <<times, store, disks, conn, active, pending, knows, replies>>

\* A call is settled: the next one of the message, or the next request.
CallSettled(q) ==
    \E pc \in {"deciding", "streaming"} :
        /\ pc = "deciding" => query[q].calls + 1 < MaxCalls
        /\ query' = [query EXCEPT ![q] = [@ EXCEPT !.pc = pc, !.calls = query[q].calls + 1,
                                                   !.reply = "none", !.via = "policy"]]

\* A hook that finds the signal raised is cancelled, and the call refused;
\* without a hook nothing looks at the signal here.
Verdict(q, override) ==
    IF HookVerdicts # {} /\ query[q].aborted THEN "deny"
    ELSE Authorize(NoRules, override, ParseMode(ConfigMode), "danger-full-access")

Permit(q, override) ==
    /\ Alive /\ query[q].pc = "deciding"
    /\ Verdict(q, override) = "allow"
    /\ query' = [query EXCEPT ![q] = [@ EXCEPT !.pc = "executing", !.via = "policy"]]
    /\ UNCHANGED <<times, store, disks, conn, active, pending, knows, replies>>

Refuse(q, override) ==
    /\ Alive /\ query[q].pc = "deciding"
    /\ Verdict(q, override) = "deny"
    /\ CallSettled(q)
    /\ UNCHANGED <<times, store, disks, conn, active, pending, knows, replies>>

\* WsPermissionPrompter::decide: the sender goes into the map, the request to
\* the client if its connection is still there, and the thread waits.
Ask(q, override) ==
    /\ Alive /\ query[q].pc = "deciding"
    /\ Verdict(q, override) = "prompt"
    /\ LET r == <<q, query[q].ask + 1>> IN
         /\ pending' = pending \cup {r}
         /\ knows' = IF conn[query[q].conn].pc = "closed" THEN knows ELSE knows \cup {r}
    /\ query' = [query EXCEPT ![q] = [@ EXCEPT !.pc = "asking", !.ask = query[q].ask + 1,
                                               !.reply = "none"]]
    /\ UNCHANGED <<times, store, disks, conn, active, replies>>

\* blocking_recv has a value: neither a clock nor the abort flag ends the wait.
WakeAllowed(q) ==
    /\ Alive /\ query[q].pc = "asking" /\ query[q].reply = "yes"
    /\ query' = [query EXCEPT ![q] = [@ EXCEPT !.pc = "executing", !.via = "reply"]]
    /\ UNCHANGED <<times, store, disks, conn, active, pending, knows, replies>>

WakeRefused(q) ==
    /\ Alive /\ query[q].pc = "asking" /\ query[q].reply = "no"
    /\ CallSettled(q)
    /\ UNCHANGED <<times, store, disks, conn, active, pending, knows, replies>>

\* The tool runs to its end, aborted or not.
Execute(q) ==
    /\ Alive /\ query[q].pc = "executing"
    /\ CallSettled(q)
    /\ UNCHANGED <<times, store, disks, conn, active, pending, knows, replies>>

Posting(q) == query[q].pc = "posting" /\ query[q].blk < query[q].tot

\* The changed copy is in the hand of the turn, to be put.
PutNext(q, copy) == query' = [query EXCEPT ![q] = [@ EXCEPT !.pc = "writing", !.copy = copy]]

\* Broken variants: the status left as it is; the messages of the turn instead
\* of the session's.
PostKeepsStatus(q) ==
    /\ Alive /\ Posting(q) /\ query[q].sid \in Live
    /\ PutNext(q, [store[query[q].sid] EXCEPT
                     !.log = @ \cup {[q |-> q, n |-> query[q].blk + 1]}])
    /\ UNCHANGED <<times, store, disks, conn, active, pending, knows, replies>>

PostReplacesLog(q) ==
    /\ Alive /\ Posting(q) /\ query[q].sid \in Live
    /\ PutNext(q, [store[query[q].sid] EXCEPT !.status = "Idle",
                     !.log = {[q |-> q, n |-> k] : k \in 0..query[q].blk + 1}])
    /\ UNCHANGED <<times, store, disks, conn, active, pending, knows, replies>>

\* Each text block is its own get and put: the status is Idle from the first
\* on, and a session that is gone takes none.
PostGet(q) ==
    /\ Alive /\ Posting(q)
    /\ LET s == query[q].sid
           n == query[q].blk + 1 IN
         \/ /\ s \in Live
            /\ PutNext(q, [store[s] EXCEPT !.status = "Idle",
                                           !.log = @ \cup {[q |-> q, n |-> n]}])
         \/ /\ s \notin Live
            /\ query' = [query EXCEPT ![q].blk = n]
    /\ UNCHANGED <<times, store, disks, conn, active, pending, knows, replies>>

\* The session is inserted as the copy has it, over whatever the map holds.
PostPut(q) ==
    /\ Alive /\ query[q].pc = "writing"
    /\ store' = [store EXCEPT ![query[q].sid] = query[q].copy]
    /\ query' = [query EXCEPT ![q] = [@ EXCEPT !.pc = "posting", !.blk = query[q].blk + 1,
                                               !.copy = None]]
    /\ UNCHANGED <<times, disks, conn, active, pending, knows, replies>>

Posted(q) == query[q].pc = "posting" /\ query[q].blk = query[q].tot

\* The sessions ids are saved as recs has them, but for some: the file of one of
\* those is as it was, or cut short (fs::write truncates first).  A kill cuts
\* short one file, writes that fail may cut short several.
SavedBut(ids, some, recs) ==
    \E torn \in SUBSET some :
        /\ torn # {} => "torn" \in Ops
        /\ Cardinality(torn) > 1 => "unsaved" \in Ops
        /\ disk' = [s \in Sessions |-> IF s \in torn THEN Torn
                                       ELSE IF s \in ids \ some THEN recs[s] ELSE disk[s]]

\* A session that is not written is a warning in the log and nothing else,
\* whether serialising it, its file or the whole directory failed.
Save(ids, failed, recs) ==
    /\ failed # {} => "unsaved" \in Ops
    /\ SavedBut(ids, failed, recs)

\* The session is saved, whatever it looks like by now, and the turn goes on to
\* be reported complete, whether it was written or not.
SaveTurn(q) ==
    /\ Alive /\ Posted(q)
    /\ LET ids == {query[q].sid} \cap Live IN
         \E failed \in SUBSET ids :
             /\ Save(ids, failed, store)
             /\ query' = [query EXCEPT ![q] = [@ EXCEPT !.pc = "returned", !.ok = query[q].tot > 0,
                                                        !.wrote = failed # ids]]
    /\ UNCHANGED <<times, store, used, deleted, conn, active, pending, knows, replies>>

\* Broken variant: the signal stays in the map.
CleanupKeepsSignal(q) ==
    /\ Async /\ query[q].pc = "returned"
    /\ Goto(q, "done")
    /\ UNCHANGED <<times, store, disks, conn, active, pending, knows, replies>>

\* The map entry of the session goes, whichever query it belongs to, and the
\* outcome is reported.
Cleanup(q) ==
    /\ Async /\ query[q].pc = "returned"
    /\ active' = [active EXCEPT ![query[q].sid] = None]
    /\ Goto(q, "done")
    /\ UNCHANGED <<times, store, disks, conn, pending, knows, replies>>

-----------------------------------------------------------------------------
(***************************************************************************)
(* Time, shutdown, crash and start.                                        *)
(***************************************************************************)

Tick ==
    /\ clock < MaxClock
    /\ clock' = clock + 1
    /\ UNCHANGED <<phase, crashes, store, disks, conn, query, active, pending, knows, replies>>

\* ctrl-c: no connection is accepted any more, every session is saved once.
Stop ==
    /\ "stop" \in Ops
    /\ phase = "serving"
    /\ phase' = "stopping"
    /\ \E failed \in SUBSET Live : Save(Live, failed, store)
    /\ UNCHANGED <<clock, crashes, store, used, deleted, conn, query, active, pending,
                   knows, replies>>

\* Broken variant: the exit waits for the clients to leave.
DrainWaitsForClients ==
    /\ phase = "stopping"
    /\ \A c \in Conns : conn[c].pc \in {"new", "closed"}
    /\ phase' = "draining"
    /\ UNCHANGED <<clock, crashes, store, disks, conn, query, active, pending, knows, replies>>

\* main returns: dropping the runtime drops the connections and the tasks of
\* run_query between two polls, and waits for the blocking threads.
Drain ==
    /\ phase = "stopping"
    /\ \A c \in Conns : conn[c].pc \in {"new", "ready", "closed"}
    /\ phase' = "draining"
    /\ conn' = [c \in Conns |-> IF conn[c].pc = "new" THEN conn[c]
                                ELSE [conn[c] EXCEPT !.pc = "closed"]]
    /\ UNCHANGED <<clock, crashes, store, disks, query, active, pending, knows, replies>>

\* The process ends: its memory goes and the queries under way go with it.
ProcessEnds ==
    /\ phase' = "down"
    /\ store' = [s \in Sessions |-> None]
    /\ conn' = [c \in Conns |-> IF conn[c].pc = "new" THEN conn[c]
                                ELSE [NewConn EXCEPT !.pc = "closed"]]
    /\ query' = [q \in Queries |->
                   IF query[q].pc = "unused" THEN query[q]
                   ELSE [query[q] EXCEPT !.pc = "past", !.copy = None]]
    /\ active' = [s \in Sessions |-> None]
    /\ pending' = {} /\ knows' = {}
    /\ UNCHANGED <<clock, used, deleted, replies>>

Exit ==
    /\ phase = "draining"
    /\ \A q \in Queries : query[q].pc \notin Blocking
    /\ ProcessEnds
    /\ UNCHANGED <<crashes, disk>>

\* A process killed while it saves ids.
SaveCutShort(ids, recs) == \E some \in SUBSET ids : SavedBut(ids, some, recs)

\* What may be under way when the process is killed: nothing, the save of a
\* turn, or the save of a shutdown.
SavesUnderWay ==
    {{}} \cup {{query[q].sid} \cap Live : q \in {p \in Queries : Posted(p)}}
        \cup (IF "stop" \in Ops /\ phase = "serving" THEN {Live} ELSE {})

Crash ==
    /\ "crash" \in Ops
    /\ Alive /\ crashes < MaxCrashes
    /\ crashes' = crashes + 1
    /\ \E ids \in SavesUnderWay : SaveCutShort(ids, store)
    /\ ProcessEnds

\* load_from_disk skips what it cannot parse; crash recovery then turns
\* Active into Errored.
Loaded == {s \in Sessions : disk[s] \notin {None, Torn}}
Stuck  == {s \in Loaded : disk[s].status = "Active"}

\* Broken variants: a file that cannot be parsed is loaded all the same; a
\* session that was Active starts anew; one is loaded with the status it was
\* saved with.
RecoveredUnparsed ==
    [s \in Sessions |->
        IF s \in Stuck THEN [disk[s] EXCEPT !.status = "Errored", !.updated = clock]
        ELSE disk[s]]

RecoveredAnew ==
    [s \in Sessions |->
        IF s \in Stuck THEN [NewSession EXCEPT !.status = "Errored"]
        ELSE IF s \in Loaded THEN disk[s] ELSE None]

RecoveredAsSaved == [s \in Sessions |-> IF s \in Loaded THEN disk[s] ELSE None]

Recovered ==
    [s \in Sessions |->
        IF s \in Stuck THEN [disk[s] EXCEPT !.status = "Errored", !.updated = clock]
        ELSE IF s \in Loaded THEN disk[s] ELSE None]

\* All loaded sessions are saved again if one was recovered.
Boot ==
    /\ phase = "down"
    /\ phase' = "serving"
    /\ store' = Recovered
    /\ \/ Stuck = {} /\ UNCHANGED disk
       \/ Stuck # {} /\ \E failed \in SUBSET Loaded : Save(Loaded, failed, Recovered)
    /\ UNCHANGED <<clock, crashes, used, deleted, conn, query, active, pending, knows, replies>>

CrashInBoot ==
    /\ "crash" \in Ops
    /\ phase = "down" /\ crashes < MaxCrashes
    /\ Stuck # {}
    /\ crashes' = crashes + 1
    /\ SaveCutShort(Loaded, Recovered)
    /\ UNCHANGED <<phase, clock, store, used, deleted, conn, query, active, pending,
                   knows, replies>>

-----------------------------------------------------------------------------

\* What a hook may say of a call.
HookOutcomes == IF HookVerdicts = {} THEN {"none"} ELSE HookVerdicts

Client(c) ==
    \/ Connect(c) \/ ConnectToNone(c) \/ Disconnect(c) \/ Abort(c)
    \/ \E q \in Queries : UserMessage(c, q)
    \/ \E label \in Labels : ChangeMode(c, label)
    \/ \E source, target \in Sessions : Fork(c, source, target)

Handler(c) == ConnectCreates(c) \/ PutBack(c) \/ SignalAbort(c)

Answers(r) == \E c \in Conns, allow \in BOOLEAN : Reply(c, r, allow)

Turn(q) ==
    \/ Register(q) \/ StreamStops(q) \/ UseTools(q)
    \/ \E blocks \in 1..MaxBlocks : FinalAnswer(q, blocks)
    \/ \E o \in HookOutcomes : Permit(q, o) \/ Refuse(q, o) \/ Ask(q, o)
    \/ WakeAllowed(q) \/ WakeRefused(q) \/ Execute(q)
    \/ PostGet(q) \/ PostPut(q) \/ SaveTurn(q) \/ Cleanup(q)

Next ==
    \/ \E c \in Conns : Client(c) \/ Handler(c)
    \/ \E r \in knows : Answers(r)
    \/ \E q \in Queries : Turn(q) \/ TurnDies(q)
    \/ CreateSession \/ \E s \in Sessions : DeleteSession(s)
    \/ Tick \/ Stop \/ Drain \/ Exit \/ Boot \/ Crash \/ CrashInBoot

Spec == Init /\ [][Next]_vars

(***************************************************************************)
(* Fairness.  The async runtime polls every ready task and the operating   *)
(* system runs every thread, so an enabled step of a handler, of a turn or *)
(* of the exit is taken in the end.  That a turn's stream and its tools    *)
(* come to an end is the part assumed of the model server and of the       *)
(* tools.  Two steps are disabled again and again, and only while a        *)
(* handler is between its get and its put, which is one poll: the return   *)
(* of main, which waits for nothing else, and a client's reply, which      *)
(* takes its turn among the messages of its connection.  They are strongly *)
(* fair.  Users, crashes and the operator owe nothing, except in           *)
(* ServedSpec, where whoever is shown a request answers it.                *)
(***************************************************************************)
Fairness ==
    /\ \A c \in Conns : WF_vars(Handler(c))
    /\ \A q \in Queries : WF_vars(Turn(q))
    /\ SF_vars(Drain) /\ WF_vars(Exit)

FairSpec == Spec /\ Fairness

ServedSpec ==
    FairSpec /\ \A r \in Queries \X (1..MaxCalls) : SF_vars(r \in knows /\ Answers(r))
=============================================================================
