----------------------------- MODULE SessionProofs -----------------------------
(***************************************************************************)
(* Type correctness of the DreamForge server for any sets of sessions,     *)
(* connections and queries, any hook, and any bounds.  SessionSafety and   *)
(* SessionHistory build on it.                                             *)
(***************************************************************************)
EXTENDS SessionProperties, TLAPS

USE ConstantsAssumption DEF Async, Alive, Goto, Live

-----------------------------------------------------------------------------
(***************************************************************************)
(* Types.  An action changes one query or one connection, so most of the   *)
(* work is that the changed record is one.                                 *)
(***************************************************************************)

\* The places a query can be in, spelled out.
LEMMA QueryPcs ==
    QueryPc = {"unused", "done", "past", "accepted", "spawned", "streaming", "deciding",
               "asking", "executing", "posting", "writing", "returned"}
BY DEF QueryPc, InFlight, InHandler, Spawned, Running, Blocking

\* Replacing one record of query, or its place only, keeps the type.
LEMMA QueryUpdate ==
    ASSUME TypeOK, NEW q \in Queries
    PROVE  /\ query[q] \in QueryState
           /\ \A r \in QueryState : [query EXCEPT ![q] = r] \in [Queries -> QueryState]
           /\ \A pc \in QueryPc : [query EXCEPT ![q].pc = pc] \in [Queries -> QueryState]
BY DEF TypeOK, QueryState

\* The records the steps of a query make.
LEMMA QueryRecords ==
    ASSUME NEW x \in QueryState, NEW pc \in QueryPc, NEW n \in Nat,
           NEW y \in Session \cup {None}
    PROVE  /\ [x EXCEPT !.pc = pc, !.tot = n] \in QueryState
           /\ [x EXCEPT !.pc = pc, !.calls = n, !.reply = "none", !.via = "policy"] \in QueryState
           /\ [x EXCEPT !.pc = pc, !.ask = n, !.reply = "none"] \in QueryState
           /\ [x EXCEPT !.pc = pc, !.copy = y] \in QueryState
           /\ [x EXCEPT !.pc = pc, !.blk = n, !.copy = y] \in QueryState
           /\ [x EXCEPT !.blk = n] \in QueryState
           /\ x.calls + 1 \in Nat /\ x.ask + 1 \in Nat /\ x.blk + 1 \in Nat
<1>1. x.calls + 1 \in Nat /\ x.ask + 1 \in Nat /\ x.blk + 1 \in Nat
  BY DEF QueryState
<1>2. /\ [x EXCEPT !.pc = pc, !.tot = n] \in QueryState
      /\ [x EXCEPT !.pc = pc, !.calls = n, !.reply = "none", !.via = "policy"] \in QueryState
      /\ [x EXCEPT !.pc = pc, !.ask = n, !.reply = "none"] \in QueryState
  BY DEF QueryState
<1>3. /\ [x EXCEPT !.pc = pc, !.copy = y] \in QueryState
      /\ [x EXCEPT !.pc = pc, !.blk = n, !.copy = y] \in QueryState
      /\ [x EXCEPT !.blk = n] \in QueryState
  BY DEF QueryState
<1> QED  BY <1>1, <1>2, <1>3

LEMMA ReturnedRecord ==
    ASSUME NEW x \in QueryState, NEW b \in BOOLEAN, NEW d \in BOOLEAN
    PROVE  [x EXCEPT !.pc = "returned", !.ok = b, !.wrote = d] \in QueryState
BY QueryPcs DEF QueryState

\* The same for conn.
LEMMA ConnUpdate ==
    ASSUME TypeOK, NEW c \in Conns
    PROVE  /\ conn[c] \in ConnState
           /\ \A r \in ConnState : [conn EXCEPT ![c] = r] \in [Conns -> ConnState]
BY DEF TypeOK

\* A handler that takes a copy of a session holds a well-formed one.
LEMMA HoldsType ==
    ASSUME TypeOK, NEW c \in Conns, NEW op \in {"user", "abort", "mode", "fork"},
           NEW a \in Sessions, NEW x \in Session, NEW q \in Queries \cup {None},
           Holds(c, op, a, x, q)
    PROVE  conn' \in [Conns -> ConnState]
<1>1. [conn[c] EXCEPT !.pc = "writing", !.op = op, !.at = a, !.copy = x, !.q = q] \in ConnState
  BY ConnUpdate DEF ConnState
<1> QED  BY <1>1, ConnUpdate DEF Holds

\* A new session, and what the handlers and the turns make of an old one.
LEMMA SessionUpdate ==
    ASSUME TypeOK, NEW s \in Live, NEW e \in Entry, NEW st \in Status, NEW m \in Labels
    PROVE  /\ store[s] \in Session
           /\ NewSession \in Session
           /\ [store[s] EXCEPT !.status = st, !.log = @ \cup {e}] \in Session
           /\ [store[s] EXCEPT !.status = st] \in Session
           /\ [store[s] EXCEPT !.mode = m] \in Session
           /\ [store[s] EXCEPT !.status = st, !.updated = clock] \in Session
<1>1. store[s] \in Session
  BY DEF TypeOK
<1> QED  BY <1>1 DEF TypeOK, Session, NewSession, Status

-----------------------------------------------------------------------------

\* The handlers of the connections.
LEMMA ClientType ==
    ASSUME TypeOK, NEW c \in Conns, Client(c) \/ Handler(c)
    PROVE  TypeOK'
<1>0. conn[c] \in ConnState
  BY ConnUpdate
<1>1. ASSUME Connect(c)  PROVE TypeOK'
  <2>1. \A s \in Sessions : [conn[c] EXCEPT !.pc = "ready", !.sid = s] \in ConnState
    BY <1>0 DEF ConnState
  <2>2. conn' \in [Conns -> ConnState]
    BY <1>1, <2>1, ConnUpdate DEF Connect
  <2> QED  BY <1>1, <2>2 DEF TypeOK, Connect, times, disks, replies
<1>2. ASSUME ConnectToNone(c)  PROVE TypeOK'
  BY <1>2 DEF TypeOK, ConnState, ConnectToNone, times, disks, replies
<1>3. ASSUME Disconnect(c)  PROVE TypeOK'
  BY <1>3 DEF TypeOK, ConnState, Disconnect, times, disks, replies
<1>4. ASSUME Abort(c)  PROVE TypeOK'
  <2>1. conn' \in [Conns -> ConnState]
    <3>1. CASE conn[c].sid \in Live
      <4>1. [store[conn[c].sid] EXCEPT !.status = "Aborted"] \in Session
        BY <3>1 DEF TypeOK, Session, Status
      <4> QED  BY <1>4, <3>1, <4>1, HoldsType DEF Abort
    <3>2. CASE conn[c].sid \notin Live
      <4>1. [conn[c] EXCEPT !.pc = "signal", !.op = "abort"] \in ConnState
        BY <1>0 DEF ConnState
      <4> QED  BY <1>4, <3>2, <4>1, ConnUpdate DEF Abort
    <3> QED  BY <3>1, <3>2
  <2> QED  BY <1>4, <2>1 DEF TypeOK, Abort, times, disks, replies
<1>5. ASSUME NEW q \in Queries, UserMessage(c, q)  PROVE TypeOK'
  <2>1. conn' \in [Conns -> ConnState]
    <3>1. CASE conn[c].sid \in Live
      <4>1. [q |-> q, n |-> 0] \in Entry
        BY DEF Entry
      <4>2. [store[conn[c].sid] EXCEPT !.status = "Active",
                                       !.log = @ \cup {[q |-> q, n |-> 0]}] \in Session
        BY <3>1, <4>1 DEF TypeOK, Session, Status
      <4> QED  BY <1>5, <3>1, <4>2, HoldsType DEF UserMessage
    <3>2. CASE conn[c].sid \notin Live
      BY <1>5, <3>2 DEF UserMessage, TypeOK
    <3> QED  BY <3>1, <3>2
  <2>2. query' \in [Queries -> QueryState]
    <3>1. query[q] \in QueryState /\ conn[c].sid \in Sessions \cup {None}
      BY <1>0 DEF TypeOK, ConnState
    <3>2. \A pc \in QueryPc :
            [query[q] EXCEPT !.pc = pc, !.sid = conn[c].sid, !.conn = c] \in QueryState
      BY <3>1 DEF QueryState
    <3>3. \A pc \in QueryPc : Accept(q, c, pc) => query' \in [Queries -> QueryState]
      BY <3>2, QueryUpdate DEF Accept
    <3>4. Accept(q, c, "accepted") \/ Accept(q, c, "spawned")
      BY <1>5 DEF UserMessage
    <3> QED  BY <3>3, <3>4, QueryPcs
  <2> QED  BY <1>5, <2>1, <2>2 DEF TypeOK, UserMessage, times, disks, replies
<1>6. ASSUME NEW label \in Labels, ChangeMode(c, label)  PROVE TypeOK'
  <2>1. [store[conn[c].sid] EXCEPT !.mode = label] \in Session
    BY <1>6 DEF ChangeMode, TypeOK, Session
  <2>2. conn' \in [Conns -> ConnState]
    BY <1>6, <2>1, HoldsType DEF ChangeMode
  <2> QED  BY <1>6, <2>2 DEF TypeOK, ChangeMode, times, disks, replies
<1>7. ASSUME NEW source \in Sessions, NEW target \in Sessions, Fork(c, source, target)
      PROVE  TypeOK'
  <2>1. [store[source] EXCEPT !.status = "Idle", !.updated = clock] \in Session
    BY <1>7 DEF Fork, TypeOK, Session, Status
  <2>2. conn' \in [Conns -> ConnState]
    BY <1>7, <2>1, HoldsType DEF Fork
  <2> QED  BY <1>7, <2>2 DEF TypeOK, Fork, times, replies
<1>8. ASSUME ConnectCreates(c)  PROVE TypeOK'
  <2>1. \A s \in Sessions : [conn[c] EXCEPT !.pc = "ready", !.sid = s] \in ConnState
    BY <1>0 DEF ConnState
  <2>2. conn' \in [Conns -> ConnState]
    BY <1>8, <2>1, ConnUpdate DEF ConnectCreates
  <2>3. NewSession \in Session
    BY DEF TypeOK, NewSession, Session, Status
  <2> QED  BY <1>8, <2>2, <2>3 DEF TypeOK, ConnectCreates, Create, times, replies
<1>9. ASSUME PutBack(c)  PROVE TypeOK'
  <2>1. store' \in [Sessions -> Session \cup {None}]
    BY <1>0, <1>9 DEF TypeOK, PutBack, ConnState
  <2>2. conn' \in [Conns -> ConnState]
    BY <1>0, <1>9 DEF TypeOK, PutBack, ConnState, NewConn
  <2>3. query' \in [Queries -> QueryState]
    <3>1. CASE conn[c].q \in Queries
      BY <1>9, <3>1, QueryPcs, QueryUpdate DEF PutBack, TypeOK
    <3>2. CASE conn[c].q \notin Queries
      BY <1>9, <3>2 DEF PutBack, TypeOK
    <3> QED  BY <3>1, <3>2
  <2> QED  BY <1>9, <2>1, <2>2, <2>3 DEF TypeOK, PutBack, times, disks, replies
<1>10. ASSUME SignalAbort(c)  PROVE TypeOK'
  <2>1. [conn[c] EXCEPT !.pc = "ready", !.op = "none"] \in ConnState
    BY <1>0 DEF ConnState
  <2>2. conn' \in [Conns -> ConnState]
    BY <1>10, <2>1, ConnUpdate DEF SignalAbort
  <2>3. query' \in [Queries -> QueryState]
    <3>1. conn[c].sid \in Sessions \cup {None}
      BY <1>0 DEF ConnState
    <3>2. CASE active[conn[c].sid] \in Queries
      <4>1. query[active[conn[c].sid]] \in QueryState
        BY <3>2 DEF TypeOK
      <4>2. [query[active[conn[c].sid]] EXCEPT !.aborted = TRUE] \in QueryState
        BY <4>1 DEF QueryState
      <4> QED  BY <1>10, <3>2, <4>2 DEF SignalAbort, TypeOK
    <3>3. CASE active[conn[c].sid] \notin Queries
      BY <1>10, <3>3 DEF SignalAbort, TypeOK
    <3> QED  BY <3>2, <3>3
  <2> QED  BY <1>10, <2>2, <2>3 DEF TypeOK, SignalAbort, times, disks, replies
<1> QED
  BY <1>1, <1>2, <1>3, <1>4, <1>5, <1>6, <1>7, <1>8, <1>9, <1>10 DEF Client, Handler

\* What a save leaves on disk is a session, nothing, or a torn file.
LEMMA SavedType ==
    ASSUME TypeOK, NEW ids \in SUBSET Sessions, NEW some \in SUBSET ids,
           NEW recs, \A s \in ids : recs[s] \in Session,
           SavedBut(ids, some, recs)
    PROVE  disk' \in [Sessions -> Session \cup {None, Torn}]
BY DEF TypeOK, SavedBut

\* The steps of a query.
LEMMA TurnType ==
    ASSUME TypeOK, NEW q \in Queries, Turn(q) \/ TurnDies(q)
    PROVE  TypeOK'
<1>0. query[q] \in QueryState
  BY QueryUpdate
<1>1. ASSUME Register(q) \/ TurnDies(q) \/ StreamStops(q) \/ UseTools(q) \/ Cleanup(q)
      PROVE  TypeOK'
  <2>1. PICK pc \in {"streaming", "returned", "posting", "deciding", "done"} :
          query' = [query EXCEPT ![q].pc = pc]
    BY <1>1 DEF Register, TurnDies, StreamStops, UseTools, Cleanup
  <2>4. pc \in QueryPc
    BY QueryPcs
  <2>3. query' \in [Queries -> QueryState]
    BY <2>1, <2>4, QueryUpdate
  <2>2. active' \in [Sessions -> Queries \cup {None}]
    BY <1>1 DEF TypeOK, Register, TurnDies, StreamStops, UseTools, Cleanup
  <2> QED
    BY <1>1, <2>2, <2>3
    DEF TypeOK, Register, TurnDies, StreamStops, UseTools, Cleanup, times, disks, replies
<1>2. ASSUME NEW blocks \in 1..MaxBlocks, FinalAnswer(q, blocks)  PROVE TypeOK'
  <2>1. [query[q] EXCEPT !.pc = "posting", !.tot = blocks] \in QueryState
    <3>1. blocks \in Nat
      OBVIOUS
    <3> QED  BY <1>0, <3>1, QueryPcs, QueryRecords
  <2>2. query' \in [Queries -> QueryState]
    BY <1>2, <2>1, QueryUpdate DEF FinalAnswer
  <2> QED  BY <1>2, <2>2 DEF TypeOK, FinalAnswer, times, disks, replies
<1>3. ASSUME CallSettled(q)  PROVE query' \in [Queries -> QueryState]
  <2>1. PICK pc \in {"deciding", "streaming"} :
          query' = [query EXCEPT ![q] = [@ EXCEPT !.pc = pc, !.calls = query[q].calls + 1,
                                                 !.reply = "none", !.via = "policy"]]
    BY <1>3 DEF CallSettled
  <2> DEFINE new == [query[q] EXCEPT !.pc = pc, !.calls = query[q].calls + 1,
                                     !.reply = "none", !.via = "policy"]
  <2>2. new \in QueryState
    BY <1>0, QueryPcs, QueryRecords
  <2>3. query' = [query EXCEPT ![q] = new]
    BY <2>1
  <2> HIDE DEF new
  <2> QED  BY <2>2, <2>3, QueryUpdate
<1>4. ASSUME NEW o \in HookOutcomes, Permit(q, o)  PROVE TypeOK'
  <2>1. [query[q] EXCEPT !.pc = "executing", !.via = "policy"] \in QueryState
    BY <1>0, QueryPcs DEF QueryState
  <2>2. query' \in [Queries -> QueryState]
    BY <1>4, <2>1, QueryUpdate DEF Permit
  <2> QED  BY <1>4, <2>2 DEF TypeOK, Permit, times, disks, replies
<1>5. ASSUME NEW o \in HookOutcomes, Refuse(q, o)  PROVE TypeOK'
  BY <1>3, <1>5 DEF TypeOK, Refuse, times, disks, replies
<1>6. ASSUME NEW o \in HookOutcomes, Ask(q, o)  PROVE TypeOK'
  <2> DEFINE new == [query[q] EXCEPT !.pc = "asking", !.ask = query[q].ask + 1, !.reply = "none"]
  <2>1. new \in QueryState /\ query' = [query EXCEPT ![q] = new]
    BY <1>0, <1>6, QueryPcs, QueryRecords DEF Ask
  <2> HIDE DEF new
  <2>2. query' \in [Queries -> QueryState]
    BY <2>1, QueryUpdate
  <2>3. <<q, query[q].ask + 1>> \in Request
    BY <1>0 DEF QueryState, Request
  <2> QED  BY <1>6, <2>2, <2>3 DEF TypeOK, Ask, times, disks, replies
<1>7. ASSUME WakeAllowed(q)  PROVE TypeOK'
  <2>1. [query[q] EXCEPT !.pc = "executing", !.via = "reply"] \in QueryState
    BY <1>0, QueryPcs DEF QueryState
  <2>2. query' \in [Queries -> QueryState]
    BY <1>7, <2>1, QueryUpdate DEF WakeAllowed
  <2> QED  BY <1>7, <2>2 DEF TypeOK, WakeAllowed, times, disks, replies
<1>8. ASSUME WakeRefused(q) \/ Execute(q)  PROVE TypeOK'
  BY <1>3, <1>8 DEF TypeOK, WakeRefused, Execute, times, disks, replies
<1>9. ASSUME PostGet(q)  PROVE TypeOK'
  <2>1. ASSUME query[q].sid \in Live  PROVE query' \in [Queries -> QueryState]
    <3>1. [q |-> q, n |-> query[q].blk + 1] \in Entry
      BY <1>0 DEF QueryState, Entry
    <3>2. [store[query[q].sid] EXCEPT !.status = "Idle",
             !.log = @ \cup {[q |-> q, n |-> query[q].blk + 1]}] \in Session
      BY <2>1, <3>1 DEF TypeOK, Session, Status
    <3>3. \A x \in Session : [query[q] EXCEPT !.pc = "writing", !.copy = x] \in QueryState
      BY <1>0, QueryPcs DEF QueryState
    <3> QED  BY <1>9, <2>1, <3>2, <3>3, QueryUpdate DEF PostGet, PutNext
  <2>2. ASSUME query[q].sid \notin Live  PROVE query' \in [Queries -> QueryState]
    <3>1. [query[q] EXCEPT !.blk = query[q].blk + 1] \in QueryState
      BY <1>0 DEF QueryState
    <3> QED  BY <1>9, <2>2, <3>1, QueryUpdate DEF PostGet
  <2> QED  BY <1>9, <2>1, <2>2 DEF TypeOK, PostGet, times, disks, replies
<1>10. ASSUME PostPut(q)  PROVE TypeOK'
  <2> DEFINE new == [query[q] EXCEPT !.pc = "posting", !.blk = query[q].blk + 1, !.copy = None]
  <2>0. query[q].blk + 1 \in Nat
    BY <1>0 DEF QueryState
  <2>1. new \in QueryState
    BY <1>0, <2>0, QueryPcs, QueryRecords
  <2>4. query' = [query EXCEPT ![q] = new]
    BY <1>10 DEF PostPut
  <2> HIDE DEF new
  <2>2. query' \in [Queries -> QueryState]
    BY <2>1, <2>4, QueryUpdate
  <2>3. store' \in [Sessions -> Session \cup {None}]
    BY <1>0, <1>10 DEF PostPut, TypeOK, QueryState
  <2> QED  BY <1>10, <2>2, <2>3 DEF TypeOK, PostPut, times, disks, replies
<1>11. ASSUME SaveTurn(q)  PROVE TypeOK'
  <2>1. PICK failed \in SUBSET ({query[q].sid} \cap Live) :
          /\ Save({query[q].sid} \cap Live, failed, store)
          /\ query' = [query EXCEPT ![q] =
               [@ EXCEPT !.pc = "returned", !.ok = query[q].tot > 0,
                         !.wrote = failed # ({query[q].sid} \cap Live)]]
    BY <1>11 DEF SaveTurn
  <2>2. query' \in [Queries -> QueryState]
    <3>1. ASSUME NEW b \in BOOLEAN, NEW d \in BOOLEAN
          PROVE  [query[q] EXCEPT !.pc = "returned", !.ok = b, !.wrote = d] \in QueryState
      BY <1>0, ReturnedRecord
    <3>2. /\ (query[q].tot > 0) \in BOOLEAN
          /\ (failed # ({query[q].sid} \cap Live)) \in BOOLEAN
      OBVIOUS
    <3>3. [query[q] EXCEPT !.pc = "returned", !.ok = query[q].tot > 0,
                           !.wrote = failed # ({query[q].sid} \cap Live)] \in QueryState
      BY <3>1, <3>2
    <3> QED  BY <2>1, <3>3, QueryUpdate
  <2>3. disk' \in [Sessions -> Session \cup {None, Torn}]
    BY <2>1, SavedType DEF Save, TypeOK, Live
  <2> QED  BY <1>11, <2>2, <2>3 DEF TypeOK, SaveTurn, times, replies
<1> QED
  BY <1>1, <1>2, <1>4, <1>5, <1>6, <1>7, <1>8, <1>9, <1>10, <1>11 DEF Turn

\* The same of a save that is cut short.
LEMMA CutShortType ==
    ASSUME TypeOK, NEW ids \in SUBSET Sessions,
           NEW recs, \A s \in ids : recs[s] \in Session,
           SaveCutShort(ids, recs)
    PROVE  disk' \in [Sessions -> Session \cup {None, Torn}]
BY SavedType DEF SaveCutShort

LEMMA RecoveredType ==
    ASSUME TypeOK
    PROVE  /\ Recovered \in [Sessions -> Session \cup {None}]
           /\ \A s \in Loaded : Recovered[s] \in Session
<1>1. \A s \in Loaded : disk[s] \in Session
  BY DEF TypeOK, Loaded
<1>2. \A s \in Loaded : [disk[s] EXCEPT !.status = "Errored", !.updated = clock] \in Session
  BY <1>1 DEF TypeOK, Session, Status
<1> QED  BY <1>1, <1>2 DEF Recovered, Stuck, Loaded

LEMMA ProcessEndsType ==
    ASSUME TypeOK, ProcessEnds, crashes' \in Nat,
           disk' \in [Sessions -> Session \cup {None, Torn}]
    PROVE  TypeOK'
<1>1. \A q \in Queries : [query[q] EXCEPT !.pc = "past", !.copy = None] \in QueryState
  BY QueryUpdate, QueryPcs, QueryRecords
<1>2. query' \in [Queries -> QueryState]
  BY <1>1, QueryUpdate DEF ProcessEnds, TypeOK
<1>3. conn' \in [Conns -> ConnState]
  BY DEF ProcessEnds, TypeOK, NewConn, ConnState
<1> QED  BY <1>2, <1>3 DEF ProcessEnds, TypeOK, replies

\* What is left: other clients, time, shutdown, crash and start.
LEMMA WorldType ==
    ASSUME TypeOK,
           \/ CreateSession \/ \E s \in Sessions : DeleteSession(s)
           \/ \E r \in knows : Answers(r)
           \/ Tick \/ Stop \/ Drain \/ Exit \/ Boot \/ Crash \/ CrashInBoot
    PROVE  TypeOK'
<1>1. ASSUME CreateSession  PROVE TypeOK'
  <2>1. NewSession \in Session
    BY DEF TypeOK, NewSession, Session, Status
  <2> QED  BY <1>1, <2>1 DEF TypeOK, CreateSession, Create, times, replies
<1>2. ASSUME NEW s \in Sessions, DeleteSession(s)  PROVE TypeOK'
  BY <1>2 DEF TypeOK, DeleteSession, times, replies
<1>3. ASSUME NEW r \in knows, NEW c \in Conns, NEW allow \in BOOLEAN, Reply(c, r, allow)
      PROVE  TypeOK'
  <2>1. r[1] \in Queries /\ r \in Request
    BY DEF TypeOK, Request
  <2>2. \A x \in {"yes", "no"} : [query[r[1]] EXCEPT !.reply = x] \in QueryState
    BY <2>1, QueryUpdate DEF QueryState
  <2>3. query' \in [Queries -> QueryState]
    BY <1>3, <2>1, <2>2, QueryUpdate DEF Reply, TypeOK
  <2> QED  BY <1>3, <2>1, <2>3 DEF TypeOK, Reply, times, disks
<1>4. ASSUME Tick \/ Stop  PROVE TypeOK'
  <2>1. CASE Tick
    BY <2>1 DEF TypeOK, Tick, disks, replies
  <2>2. CASE Stop
    <3>1. disk' \in [Sessions -> Session \cup {None, Torn}]
      BY <2>2, SavedType DEF Stop, Save, TypeOK, Live
    <3> QED  BY <2>2, <3>1 DEF TypeOK, Stop, replies
  <2> QED  BY <1>4, <2>1, <2>2
<1>5. ASSUME Drain  PROVE TypeOK'
  <2>1. conn' \in [Conns -> ConnState]
    BY <1>5 DEF TypeOK, Drain, ConnState
  <2> QED  BY <1>5, <2>1 DEF TypeOK, Drain, disks, replies
<1>6. ASSUME Exit  PROVE TypeOK'
  BY <1>6, ProcessEndsType DEF TypeOK, Exit
<1>7. ASSUME Boot  PROVE TypeOK'
  <2>1. disk' \in [Sessions -> Session \cup {None, Torn}]
    <3>1. \A failed \in SUBSET Loaded :
            Save(Loaded, failed, Recovered) => disk' \in [Sessions -> Session \cup {None, Torn}]
      BY SavedType, RecoveredType DEF Save, Loaded
    <3> QED  BY <1>7, <3>1 DEF TypeOK, Boot
  <2> QED  BY <1>7, <2>1, RecoveredType DEF TypeOK, Boot, replies
<1>8. ASSUME Crash  PROVE TypeOK'
  <2>1. PICK ids \in SavesUnderWay : SaveCutShort(ids, store)
    BY <1>8 DEF Crash
  <2>2. ids \subseteq Live
    BY <2>1 DEF SavesUnderWay
  <2>3. disk' \in [Sessions -> Session \cup {None, Torn}]
    BY <2>1, <2>2, CutShortType DEF TypeOK
  <2>4. crashes' \in Nat
    BY <1>8 DEF Crash, TypeOK
  <2> QED  BY <1>8, <2>3, <2>4, ProcessEndsType DEF Crash
<1>9. ASSUME CrashInBoot  PROVE TypeOK'
  <2>1. disk' \in [Sessions -> Session \cup {None, Torn}]
    BY <1>9, CutShortType, RecoveredType DEF CrashInBoot, Loaded
  <2>2. crashes' \in Nat
    BY <1>9 DEF CrashInBoot, TypeOK
  <2> QED  BY <1>9, <2>1, <2>2 DEF TypeOK, CrashInBoot, replies
<1> QED
  BY <1>1, <1>2, <1>3, <1>4, <1>5, <1>6, <1>7, <1>8, <1>9 DEF Answers

\* No step leaves the types of the variables (SessionServer's TypeOK).
THEOREM TypeCorrect == Spec => []TypeOK
<1>1. Init => TypeOK
  BY DEF Init, TypeOK, NewConn, UnusedQuery, QueryState, QueryPc, ConnState
<1>2. TypeOK /\ [Next]_vars => TypeOK'
  <2> SUFFICES ASSUME TypeOK, [Next]_vars  PROVE TypeOK'
    OBVIOUS
  <2>1. CASE UNCHANGED vars
    BY <2>1 DEF TypeOK, vars, times, disks, replies
  <2>2. CASE Next
    BY <2>2, ClientType, TurnType, WorldType DEF Next
  <2> QED  BY <2>1, <2>2
<1> QED  BY <1>1, <1>2, PTL DEF Spec
=============================================================================
