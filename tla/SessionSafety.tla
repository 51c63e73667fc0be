----------------------------- MODULE SessionSafety -----------------------------
(***************************************************************************)
(* The safety invariants of the DreamForge server, proved from its types.  *)
(* Each one is shown inductive, with the strengthening it needs, action by *)
(* action; the actions that cannot disturb it are taken together.          *)
(***************************************************************************)
EXTENDS SessionProofs

USE DEF Async, Alive, Goto, Live

-----------------------------------------------------------------------------
(***************************************************************************)
(* The query in the hand of a handler: between the get and the put of a    *)
(* user message nobody else moves its query, so the put that spawns it     *)
(* cannot pull back one that runs.                                         *)
(***************************************************************************)

Holding(c) == conn[c].pc = "writing" /\ conn[c].op = "user"

HeldIsAccepted ==
    \A c \in Conns : Holding(c) =>
        /\ conn[c].q \in Queries
        /\ query[conn[c].q].pc = "accepted"
        /\ query[conn[c].q].conn = c

\* A step that changes no connection and leaves accepted queries alone.
LEMMA HeldFrame ==
    ASSUME HeldIsAccepted,
           \A c \in Conns : Holding(c)' => Holding(c) /\ conn'[c].q = conn[c].q,
           \A q \in Queries : query[q].pc = "accepted" =>
               query'[q].pc = "accepted" /\ query'[q].conn = query[q].conn
    PROVE  HeldIsAccepted'
BY DEF HeldIsAccepted, Holding

LEMMA ClientHeld ==
    ASSUME TypeOK, HeldIsAccepted, NEW c \in Conns, Client(c) \/ Handler(c)
    PROVE  HeldIsAccepted'
<1>1. ASSUME Connect(c) \/ ConnectToNone(c) \/ Disconnect(c) \/ ConnectCreates(c)
      PROVE  HeldIsAccepted'
  BY <1>1, HeldFrame
  DEF Connect, ConnectToNone, Disconnect, ConnectCreates, Holding, TypeOK, ConnState
<1>2. ASSUME Abort(c)  PROVE HeldIsAccepted'
  <2>1. /\ \A d \in Conns \ {c} : conn'[d] = conn[d]
        /\ ~Holding(c)'
        /\ query' = query
    <3>1. CASE conn[c].sid \in Live
      BY <1>2, <3>1 DEF Abort, Holds, Holding, TypeOK, ConnState
    <3>2. CASE conn[c].sid \notin Live
      BY <1>2, <3>2 DEF Abort, Holding, TypeOK, ConnState
    <3> QED  BY <3>1, <3>2
  <2> QED  BY <2>1 DEF HeldIsAccepted, Holding
<1>3. ASSUME NEW label \in Labels, ChangeMode(c, label)  PROVE HeldIsAccepted'
  BY <1>3, HeldFrame DEF ChangeMode, Holds, Holding, TypeOK
<1>4. ASSUME NEW source \in Sessions, NEW target \in Sessions, Fork(c, source, target)
      PROVE  HeldIsAccepted'
  BY <1>4, HeldFrame DEF Fork, Holds, Holding, TypeOK
<1>5. ASSUME SignalAbort(c)  PROVE HeldIsAccepted'
  BY <1>5, HeldFrame DEF SignalAbort, Holding, TypeOK
<1>6. ASSUME NEW q \in Queries, UserMessage(c, q)  PROVE HeldIsAccepted'
  <2>1. \A p \in Queries \ {q} : query'[p] = query[p]
    BY <1>6 DEF UserMessage, Accept, TypeOK
  <2>2. \A d \in Conns \ {c} : conn'[d] = conn[d]
    BY <1>6 DEF UserMessage, Holds, TypeOK
  <2>3. query[q].pc = "unused"
    BY <1>6 DEF UserMessage
  <2>4. Holding(c)' => /\ conn'[c].q = q
                       /\ query'[q].pc = "accepted" /\ query'[q].conn = c
    <3>1. CASE conn[c].sid \in Live
      <4>1. conn'[c].q = q
        BY <1>6, <3>1 DEF UserMessage, Holds, TypeOK, ConnState
      <4>2. query'[q].pc = "accepted" /\ query'[q].conn = c
        <5>1. Accept(q, c, "accepted")
          BY <1>6, <3>1 DEF UserMessage
        <5> QED  BY <5>1 DEF Accept, TypeOK, QueryState
      <4> QED  BY <4>1, <4>2
    <3>2. CASE conn[c].sid \notin Live
      BY <1>6, <3>2 DEF UserMessage, Holding
    <3> QED  BY <3>1, <3>2
  <2> QED  BY <2>1, <2>2, <2>3, <2>4 DEF HeldIsAccepted, Holding
<1>7. ASSUME PutBack(c)  PROVE HeldIsAccepted'
  <2>1. \A d \in Conns \ {c} : conn'[d] = conn[d]
    BY <1>7 DEF PutBack, TypeOK
  <2>2. ~Holding(c)'
    BY <1>7 DEF PutBack, Holding, NewConn, TypeOK
  <2>3. \A d \in Conns \ {c} : Holding(d) => query'[conn[d].q] = query[conn[d].q]
    BY <1>7 DEF PutBack, HeldIsAccepted, Holding, TypeOK
  <2> QED  BY <2>1, <2>2, <2>3 DEF HeldIsAccepted, Holding
<1> QED
  BY <1>1, <1>2, <1>3, <1>4, <1>5, <1>6, <1>7 DEF Client, Handler

\* A connection moves a query in two ways only: a message is accepted, and the
\* put of its handler spawns it.
LEMMA ClientFrame ==
    ASSUME TypeOK, HeldIsAccepted, NEW c \in Conns, Client(c) \/ Handler(c), NEW q \in Queries
    PROVE  /\ query'[q].copy = query[q].copy /\ query'[q].blk = query[q].blk
           /\ query'[q].tot = query[q].tot /\ query'[q].ok = query[q].ok
           /\ query'[q].wrote = query[q].wrote
           /\ \/ query'[q].pc = query[q].pc /\ query'[q].sid = query[q].sid
              \/ /\ query[q].pc = "unused" /\ query'[q].pc \in {"accepted", "spawned"}
                 /\ UserMessage(c, q)
              \/ /\ query[q].pc = "accepted" /\ query'[q].pc = "spawned"
                 /\ query'[q].sid = query[q].sid
                 /\ PutBack(c) /\ Holding(c) /\ conn[c].q = q
<1> USE DEF TypeOK, QueryState
<1>1. CASE query' = query
  BY <1>1
<1>2. ASSUME NEW p \in Queries, UserMessage(c, p)
      PROVE  \/ query'[q] = query[q]
             \/ /\ p = q /\ query[q].pc = "unused" /\ query'[q].pc \in {"accepted", "spawned"}
                /\ query'[q].copy = query[q].copy /\ query'[q].blk = query[q].blk
                /\ query'[q].tot = query[q].tot /\ query'[q].ok = query[q].ok
                /\ query'[q].wrote = query[q].wrote
           /\ query'[q].wrote = query[q].wrote
  <2>1. PICK pc \in {"accepted", "spawned"} : Accept(p, c, pc)
    BY <1>2 DEF UserMessage
  <2> QED  BY <1>2, <2>1 DEF Accept, UserMessage
<1>3. CASE SignalAbort(c)
  BY <1>3 DEF SignalAbort
<1>4. CASE PutBack(c)
  <2>1. CASE Holding(c)
    <3>1. query' = [query EXCEPT ![conn[c].q].pc = "spawned"]
      BY <1>4, <2>1 DEF PutBack, Holding
    <3>2. query[conn[c].q].pc = "accepted"
      BY <2>1 DEF HeldIsAccepted
    <3> QED  BY <1>4, <2>1, <3>1, <3>2
  <2>2. CASE ~Holding(c)
    BY <1>1, <1>4, <2>2 DEF PutBack, Holding
  <2> QED  BY <2>1, <2>2
<1>5. CASE Connect(c) \/ ConnectToNone(c) \/ Disconnect(c) \/ Abort(c) \/ ConnectCreates(c)
  BY <1>1, <1>5 DEF Connect, ConnectToNone, Disconnect, Abort, ConnectCreates
<1>6. CASE \/ \E label \in Labels : ChangeMode(c, label)
           \/ \E source, target \in Sessions : Fork(c, source, target)
  BY <1>1, <1>6 DEF ChangeMode, Fork
<1> QED  BY <1>2, <1>3, <1>4, <1>5, <1>6 DEF Client, Handler

\* A step of a query changes that query only, and of it neither the session,
\* nor the connection, nor the abort flag; the query runs on unless the step is
\* its cleanup.
LEMMA TurnFields ==
    ASSUME TypeOK, NEW q \in Queries, Turn(q) \/ TurnDies(q)
    PROVE  /\ query'[q].sid = query[q].sid
           /\ query'[q].conn = query[q].conn
           /\ query'[q].aborted = query[q].aborted
           /\ query'[q].pc \in Running \/ Cleanup(q)
<1> DEFINE Goal == /\ query'[q].sid = query[q].sid
                   /\ query'[q].conn = query[q].conn
                   /\ query'[q].aborted = query[q].aborted
                   /\ query'[q].pc \in Running \/ Cleanup(q)
<1>0. query[q] \in QueryState /\ query \in [Queries -> QueryState]
  BY DEF TypeOK
<1> USE DEF QueryState, Running, Blocking
<1>1. CASE Register(q) \/ TurnDies(q) \/ StreamStops(q) \/ UseTools(q) \/ Cleanup(q)
  BY <1>0, <1>1 DEF Register, TurnDies, StreamStops, UseTools, Cleanup
<1>2. ASSUME NEW blocks \in 1..MaxBlocks, FinalAnswer(q, blocks)  PROVE Goal
  BY <1>0, <1>2 DEF FinalAnswer
<1>3. ASSUME NEW o \in HookOutcomes, Permit(q, o)  PROVE Goal
  BY <1>0, <1>3 DEF Permit
<1>4. ASSUME NEW o \in HookOutcomes, Ask(q, o)  PROVE Goal
  BY <1>0, <1>4 DEF Ask
<1>5. CASE WakeAllowed(q)
  BY <1>0, <1>5 DEF WakeAllowed
<1>6. CASE CallSettled(q)
  BY <1>0, <1>6 DEF CallSettled
<1>7. CASE PostGet(q)
  <2>1. CASE query[q].sid \in Live
    <3>1. PICK copy : PutNext(q, copy)
      BY <1>7, <2>1 DEF PostGet
    <3> QED  BY <1>0, <3>1 DEF PutNext
  <2>2. CASE query[q].sid \notin Live
    BY <1>0, <1>7, <2>2 DEF PostGet, Posting
  <2> QED  BY <2>1, <2>2
<1>8. CASE PostPut(q)
  BY <1>0, <1>8 DEF PostPut
<1>9. CASE SaveTurn(q)
  BY <1>0, <1>9 DEF SaveTurn
<1> QED
  BY <1>1, <1>2, <1>3, <1>4, <1>5, <1>6, <1>7, <1>8, <1>9
  DEF Turn, Refuse, WakeRefused, Execute

LEMMA TurnFrame ==
    ASSUME TypeOK, NEW q \in Queries, Turn(q) \/ TurnDies(q)
    PROVE  /\ conn' = conn
           /\ query[q].pc \in Spawned \cup Running
           /\ \A p \in Queries \ {q} : query'[p] = query[p]
<1>1. conn' = conn
  BY DEF Turn, TurnDies, Register, StreamStops, UseTools, FinalAnswer, Permit, Refuse, Ask,
         WakeAllowed, WakeRefused, Execute, PostGet, PostPut, SaveTurn, Cleanup
<1>2. query[q].pc \in Spawned \cup Running
  BY DEF Turn, TurnDies, Register, StreamStops, UseTools, FinalAnswer, StreamGoesOn, Permit,
         Refuse, Ask, WakeAllowed, WakeRefused, Execute, PostGet, Posting, PostPut, SaveTurn,
         Posted, Cleanup, Spawned, Running, Blocking
<1>3. \A p \in Queries \ {q} : query'[p] = query[p]
  BY DEF TypeOK, Turn, TurnDies, Register, StreamStops, UseTools, FinalAnswer, Permit, Refuse,
         Ask, CallSettled, WakeAllowed, WakeRefused, Execute, PostGet, PutNext, PostPut,
         SaveTurn, Cleanup
<1> QED  BY <1>1, <1>2, <1>3

\* The steps of the world that let the process go on.
Going ==
    \/ CreateSession \/ \E s \in Sessions : DeleteSession(s)
    \/ \E r \in knows : Answers(r)
    \/ Tick \/ Stop \/ Drain \/ Boot \/ CrashInBoot

SameButReply(q) ==
    /\ query'[q].pc = query[q].pc
    /\ query'[q].sid = query[q].sid
    /\ query'[q].conn = query[q].conn
    /\ query'[q].aborted = query[q].aborted
    /\ query'[q].copy = query[q].copy
    /\ query'[q].blk = query[q].blk
    /\ query'[q].tot = query[q].tot
    /\ query'[q].ok = query[q].ok
    /\ query'[q].wrote = query[q].wrote

\* They change of a query no more than the reply it got, take no connection up,
\* and leave the map of signals alone.
LEMMA GoingFrame ==
    ASSUME TypeOK, Going
    PROVE  /\ active' = active
           /\ \A q \in Queries : SameButReply(q)
           /\ \A c \in Conns : conn'[c].pc = "closed" \/ conn'[c] = conn[c]
<1>1. CASE \E r \in knows : Answers(r)
  <2>1. PICK r \in knows, c \in Conns, allow \in BOOLEAN : Reply(c, r, allow)
    BY <1>1 DEF Answers
  <2>2. \A q \in Queries : SameButReply(q)
    BY <2>1 DEF Reply, TypeOK, QueryState, SameButReply
  <2> QED  BY <2>1, <2>2 DEF Reply
<1>2. CASE Drain
  <2>1. \A c \in Conns : conn'[c].pc = "closed" \/ conn'[c] = conn[c]
    BY <1>2 DEF Drain, TypeOK, ConnState
  <2> QED  BY <1>2, <2>1 DEF Drain, SameButReply
<1>3. CASE \/ CreateSession \/ \E s \in Sessions : DeleteSession(s)
           \/ Tick \/ Stop \/ Boot \/ CrashInBoot
  BY <1>3 DEF CreateSession, DeleteSession, Tick, Stop, Boot, CrashInBoot, SameButReply
<1> QED  BY <1>1, <1>2, <1>3 DEF Going, SameButReply

\* Every step is one of a connection, of a query, of the world, or an end.
LEMMA NextCases ==
    ASSUME Next
    PROVE  \/ \E c \in Conns : Client(c) \/ Handler(c)
           \/ \E q \in Queries : Turn(q) \/ TurnDies(q)
           \/ Going
           \/ ProcessEnds
BY DEF Next, Going, Exit, Crash

LEMMA HeldInductive ==
    ASSUME TypeOK, HeldIsAccepted, Next
    PROVE  HeldIsAccepted'
<1>1. ASSUME NEW q \in Queries, Turn(q) \/ TurnDies(q)  PROVE HeldIsAccepted'
  BY <1>1, TurnFrame DEF HeldIsAccepted, Holding, Spawned, Running, Blocking
<1>2. ASSUME Going  PROVE HeldIsAccepted'
  BY <1>2, GoingFrame DEF HeldIsAccepted, Holding, SameButReply
<1>3. ASSUME ProcessEnds  PROVE HeldIsAccepted'
  BY <1>3 DEF ProcessEnds, HeldIsAccepted, Holding, NewConn, TypeOK
<1> QED  BY <1>1, <1>2, <1>3, ClientHeld, NextCases

-----------------------------------------------------------------------------
(***************************************************************************)
(* Where aborts go.                                                        *)
(***************************************************************************)

\* A running query stays one, of the same session.
StaysRunning(q) ==
    query[q].pc \in Running => query'[q].pc \in Running /\ query'[q].sid = query[q].sid

LEMMA ClientKeepsActive ==
    ASSUME NEW c \in Conns, Client(c) \/ Handler(c)
    PROVE  active' = active
BY DEF Client, Handler, Connect, ConnectToNone, Disconnect, Abort, UserMessage, ChangeMode, Fork,
       ConnectCreates, PutBack, SignalAbort

LEMMA ClientKeepsRunning ==
    ASSUME TypeOK, HeldIsAccepted, NEW c \in Conns, Client(c) \/ Handler(c), NEW p \in Queries
    PROVE  StaysRunning(p)
<1> USE DEF StaysRunning, Running, Blocking
<1>1. ASSUME Connect(c) \/ ConnectToNone(c) \/ Disconnect(c) \/ Abort(c) \/ ConnectCreates(c)
      PROVE  StaysRunning(p)
  BY <1>1 DEF Connect, ConnectToNone, Disconnect, Abort, ConnectCreates
<1>2. ASSUME NEW q \in Queries, UserMessage(c, q)  PROVE StaysRunning(p)
  BY <1>2 DEF UserMessage, Accept, TypeOK
<1>3. ASSUME NEW label \in Labels, ChangeMode(c, label)
      PROVE  StaysRunning(p)
  BY <1>3 DEF ChangeMode
<1>4. ASSUME NEW source \in Sessions, NEW target \in Sessions, Fork(c, source, target)
      PROVE  StaysRunning(p)
  BY <1>4 DEF Fork
<1>5. ASSUME SignalAbort(c)  PROVE StaysRunning(p)
  BY <1>5 DEF SignalAbort, TypeOK, QueryState
<1>6. ASSUME PutBack(c)  PROVE StaysRunning(p)
  <2>1. CASE Holding(c)
    BY <1>6, <2>1 DEF PutBack, HeldIsAccepted, Holding, TypeOK
  <2>2. CASE ~Holding(c)
    BY <1>6, <2>2 DEF PutBack, Holding
  <2> QED  BY <2>1, <2>2
<1> QED  BY <1>1, <1>2, <1>3, <1>4, <1>5, <1>6 DEF Client, Handler

LEMMA ActiveInductive ==
    ASSUME TypeOK, HeldIsAccepted, ActiveTargetsRunning, Next
    PROVE  ActiveTargetsRunning'
<1>1. ASSUME NEW c \in Conns, Client(c) \/ Handler(c)  PROVE ActiveTargetsRunning'
  <2>1. active' = active /\ \A p \in Queries : StaysRunning(p)
    BY <1>1, ClientKeepsActive, ClientKeepsRunning
  <2> QED  BY <2>1 DEF ActiveTargetsRunning, StaysRunning, TypeOK
<1>2. ASSUME NEW q \in Queries, Turn(q) \/ TurnDies(q)  PROVE ActiveTargetsRunning'
  <2>1. CASE Register(q)
    <3>1. query'[q].pc \in Running
      BY <2>1 DEF Register, TypeOK, QueryState, Running, Blocking
    <3>2. active' = [active EXCEPT ![query[q].sid] = q]
      BY <2>1 DEF Register
    <3> QED  BY <1>2, <3>1, <3>2, TurnFrame, TurnFields DEF ActiveTargetsRunning, TypeOK
  <2>2. CASE Cleanup(q)
    BY <1>2, <2>2, TurnFrame DEF Cleanup, ActiveTargetsRunning, TypeOK
  <2>3. CASE ~Register(q) /\ ~Cleanup(q)
    <3>1. active' = active
      BY <1>2, <2>3
      DEF Turn, TurnDies, StreamStops, UseTools, FinalAnswer, Permit, Refuse, Ask,
          WakeAllowed, WakeRefused, Execute, PostGet, PostPut, SaveTurn
    <3>2. query'[q].pc \in Running
      BY <1>2, <2>3, TurnFields
    <3> QED  BY <1>2, <3>1, <3>2, TurnFrame, TurnFields DEF ActiveTargetsRunning, TypeOK
  <2> QED  BY <2>1, <2>2, <2>3
<1>3. ASSUME Going  PROVE ActiveTargetsRunning'
  BY <1>3, GoingFrame DEF ActiveTargetsRunning, TypeOK, SameButReply
<1>4. ASSUME ProcessEnds  PROVE ActiveTargetsRunning'
  BY <1>4 DEF ProcessEnds, ActiveTargetsRunning
<1> QED  BY <1>1, <1>2, <1>3, <1>4, NextCases

\* What holds in every reachable state of the connections and the map.
LEMMA HeldAlways == Spec => [](TypeOK /\ HeldIsAccepted)
<1>1. Init => HeldIsAccepted
  BY DEF Init, HeldIsAccepted, Holding, NewConn
<1>2. TypeOK /\ HeldIsAccepted /\ [Next]_vars => HeldIsAccepted'
  <2> SUFFICES ASSUME TypeOK, HeldIsAccepted, [Next]_vars  PROVE HeldIsAccepted'
    OBVIOUS
  <2>1. CASE UNCHANGED vars
    BY <2>1 DEF vars, HeldIsAccepted, Holding
  <2> QED  BY <2>1, HeldInductive
<1> QED  BY <1>1, <1>2, TypeCorrect, PTL DEF Spec

\* A connection that serves its client has a session.
Seated == \A c \in Conns : conn[c].pc \in {"ready", "writing", "signal"} =>
                             conn[c].sid \in Sessions

LEMMA SeatedAlways == Spec => []Seated
<1>1. Init => Seated
  BY DEF Init, Seated, NewConn
<1>2. TypeOK /\ Seated /\ [Next]_vars => Seated'
  <2> SUFFICES ASSUME TypeOK, Seated, [Next]_vars  PROVE Seated'
    OBVIOUS
  <2>1. ASSUME NEW c \in Conns, Client(c) \/ Handler(c)  PROVE Seated'
    <3> USE DEF TypeOK, ConnState
    <3>1. \A d \in Conns \ {c} : conn'[d] = conn[d]
      BY <2>1
      DEF Client, Handler, Connect, ConnectToNone, Disconnect, Abort, UserMessage, ChangeMode,
          Fork, Holds, ConnectCreates, PutBack, SignalAbort
    <3>2. CASE Connect(c)
      BY <3>1, <3>2 DEF Connect, Seated
    <3>3. CASE ConnectCreates(c)
      BY <3>1, <3>3 DEF ConnectCreates, Seated
    <3>4. CASE ConnectToNone(c) \/ Disconnect(c)
      BY <3>1, <3>4 DEF ConnectToNone, Disconnect, Seated
    <3>5. CASE conn[c].pc \in {"ready", "writing", "signal"} /\ conn'[c].sid = conn[c].sid
      BY <3>1, <3>5 DEF Seated
    <3>6. CASE SignalAbort(c)
      BY <3>5, <3>6 DEF SignalAbort
    <3>7. CASE PutBack(c)
      <4>1. conn' = [conn EXCEPT ![c] =
                       [NewConn EXCEPT !.sid = conn[c].sid,
                          !.pc = IF conn[c].op = "abort" THEN "signal" ELSE "ready"]]
        BY <3>7 DEF PutBack
      <4>2. conn'[c].sid = conn[c].sid
        BY <4>1 DEF NewConn
      <4> QED  BY <3>5, <3>7, <4>2 DEF PutBack
    <3>8. ASSUME NEW op, NEW a, NEW copy, NEW q, Holds(c, op, a, copy, q), conn[c].pc = "ready"
          PROVE  Seated'
      BY <3>5, <3>8 DEF Holds
    <3>9. CASE Abort(c)
      <4>1. CASE conn[c].sid \in Live
        BY <3>8, <3>9, <4>1 DEF Abort
      <4>2. CASE conn[c].sid \notin Live
        BY <3>5, <3>9, <4>2 DEF Abort
      <4> QED  BY <4>1, <4>2
    <3>10. CASE \E q \in Queries : UserMessage(c, q)
      BY <3>8, <3>10 DEF UserMessage, Seated
    <3>11. CASE \/ \E label \in Labels : ChangeMode(c, label)
               \/ \E source, target \in Sessions : Fork(c, source, target)
      BY <3>8, <3>11 DEF ChangeMode, Fork
    <3> QED  BY <2>1, <3>2, <3>3, <3>4, <3>6, <3>10, <3>11, <3>9, <3>7 DEF Client, Handler
  <2>2. ASSUME NEW q \in Queries, Turn(q) \/ TurnDies(q)  PROVE Seated'
    BY <2>2, TurnFrame DEF Seated
  <2>3. CASE Going
    BY <2>3, GoingFrame DEF Seated
  <2>4. CASE ProcessEnds
    BY <2>4 DEF ProcessEnds, NewConn, Seated, TypeOK
  <2>5. CASE UNCHANGED vars
    BY <2>5 DEF vars, Seated
  <2> QED  BY <2>1, <2>2, <2>3, <2>4, <2>5, NextCases
<1> QED  BY <1>1, <1>2, TypeCorrect, PTL DEF Spec

\* The abort map leads to running queries of its own sessions only
\* (ActiveTargetsRunning of SessionProperties).
THEOREM AbortsFindTheirOwn == Spec => []ActiveTargetsRunning
<1>1. Init => ActiveTargetsRunning
  BY DEF Init, ActiveTargetsRunning
<1>2. TypeOK /\ HeldIsAccepted /\ ActiveTargetsRunning /\ [Next]_vars => ActiveTargetsRunning'
  <2> SUFFICES ASSUME TypeOK, HeldIsAccepted, ActiveTargetsRunning, [Next]_vars
               PROVE  ActiveTargetsRunning'
    OBVIOUS
  <2>1. CASE UNCHANGED vars
    BY <2>1 DEF vars, ActiveTargetsRunning
  <2> QED  BY <2>1, ActiveInductive
<1> QED  BY <1>1, <1>2, HeldAlways, PTL DEF Spec

\* No step but a signal_abort touches an abort flag.
LEMMA FlagsFrame ==
    ASSUME TypeOK, Next, \A c \in Conns : ~SignalAbort(c), NEW p \in Queries
    PROVE  query'[p].aborted = query[p].aborted
<1>1. ASSUME NEW c \in Conns, Client(c) \/ Handler(c)
      PROVE  query'[p].aborted = query[p].aborted
  <2>1. ASSUME Connect(c) \/ ConnectToNone(c) \/ Disconnect(c) \/ Abort(c) \/ ConnectCreates(c)
        PROVE  query' = query
    BY <2>1 DEF Connect, ConnectToNone, Disconnect, Abort, ConnectCreates
  <2>2. ASSUME NEW q \in Queries, UserMessage(c, q)
        PROVE  query'[p].aborted = query[p].aborted
    <3>1. PICK pc : Accept(q, c, pc)
      BY <2>2 DEF UserMessage
    <3> QED  BY <3>1 DEF Accept, TypeOK, QueryState
  <2>3. ASSUME NEW label \in Labels, ChangeMode(c, label)  PROVE query' = query
    BY <2>3 DEF ChangeMode
  <2>4. ASSUME NEW source \in Sessions, NEW target \in Sessions, Fork(c, source, target)
        PROVE  query' = query
    BY <2>4 DEF Fork
  <2>5. ASSUME PutBack(c)  PROVE query'[p].aborted = query[p].aborted
    BY <2>5 DEF PutBack, TypeOK, QueryState
  <2> QED  BY <1>1, <2>1, <2>2, <2>3, <2>4, <2>5 DEF Client, Handler
<1>2. ASSUME NEW q \in Queries, Turn(q) \/ TurnDies(q)
      PROVE  query'[p].aborted = query[p].aborted
  BY <1>2, TurnFrame, TurnFields
<1>3. ASSUME Going  PROVE query'[p].aborted = query[p].aborted
  BY <1>3, GoingFrame DEF SameButReply
<1>4. ASSUME ProcessEnds  PROVE query'[p].aborted = query[p].aborted
  BY <1>4 DEF ProcessEnds, TypeOK, QueryState
<1> QED  BY <1>1, <1>2, <1>3, <1>4, NextCases

\* An abort flag goes up, by a connection of the query's own session
\* (OnlyItsSessionAborts of SessionProperties).
THEOREM AbortsComeFromTheirOwn == Spec => OnlyItsSessionAborts
<1> DEFINE Flags == \A q \in Queries : query'[q].aborted # query[q].aborted =>
             /\ query'[q].aborted
             /\ \E c \in Conns : conn[c].pc = "signal" /\ conn[c].sid = query[q].sid
<1>1. TypeOK /\ Seated /\ ActiveTargetsRunning /\ [Next]_vars => [Flags]_vars
  <2> SUFFICES ASSUME TypeOK, Seated, ActiveTargetsRunning, Next  PROVE Flags
    OBVIOUS
  <2>1. ASSUME NEW c \in Conns, SignalAbort(c)  PROVE Flags
    <3> DEFINE target == active[conn[c].sid]
    <3>1. CASE target = None
      BY <2>1, <3>1 DEF SignalAbort
    <3>2. CASE target # None
      <4>1. conn[c].pc = "signal" /\ query' = [query EXCEPT ![target].aborted = TRUE]
        BY <2>1, <3>2 DEF SignalAbort
      <4>2. conn[c].sid \in Sessions
        BY <4>1 DEF Seated
      <4>3. target \in Queries /\ query[target].sid = conn[c].sid
        BY <3>2, <4>2 DEF ActiveTargetsRunning, TypeOK
      <4> HIDE DEF target
      <4>4. \A q \in Queries : q # target => query'[q] = query[q]
        BY <4>1 DEF TypeOK
      <4>5. query'[target].aborted
        BY <4>1, <4>3 DEF TypeOK, QueryState
      <4> QED  BY <4>1, <4>3, <4>4, <4>5
    <3> QED  BY <3>1, <3>2
  <2>2. CASE \A c \in Conns : ~SignalAbort(c)
    BY <2>2, FlagsFrame
  <2> QED  BY <2>1, <2>2
<1> QED  BY <1>1, TypeCorrect, SeatedAlways, AbortsFindTheirOwn, PTL DEF Spec, OnlyItsSessionAborts

-----------------------------------------------------------------------------
(***************************************************************************)
(* What Active means.  A handler that is about to write an Active copy, and *)
(* a session that is Active, have a query this process accepted.           *)
(***************************************************************************)

Accepted(s) == \E q \in Queries : OfThisProcess(q) /\ query[q].sid = s

\* The same of the next state.
AcceptedNext(s) == \E q \in Queries : OfThisProcess(q)' /\ query'[q].sid = s

CopyIsAccepted ==
    \A c \in Conns : conn[c].pc = "writing" /\ conn[c].copy.status = "Active" =>
        Accepted(conn[c].at)

\* A query of this process stays one until the process ends.
LEMMA StaysAccepted ==
    ASSUME TypeOK, HeldIsAccepted, Next, ~ProcessEnds, NEW s
    PROVE  Accepted(s) => AcceptedNext(s)
<1> USE DEF OfThisProcess, InFlight, InHandler, Spawned, Running, Blocking
<1>1. ASSUME NEW q \in Queries, OfThisProcess(q)
      PROVE  OfThisProcess(q)' /\ query'[q].sid = query[q].sid
  <2>1. ASSUME NEW c \in Conns, Client(c) \/ Handler(c)
        PROVE  OfThisProcess(q)' /\ query'[q].sid = query[q].sid
    <3>1. CASE PutBack(c)
      BY <1>1, <3>1 DEF PutBack, TypeOK, QueryState
    <3>2. CASE SignalAbort(c)
      BY <1>1, <3>2 DEF SignalAbort, TypeOK, QueryState
    <3>3. CASE \E p \in Queries : UserMessage(c, p)
      BY <1>1, <3>3 DEF UserMessage, Accept, TypeOK
    <3>4. CASE ~PutBack(c) /\ ~SignalAbort(c) /\ ~\E p \in Queries : UserMessage(c, p)
      <4>1. query' = query
        BY <2>1, <3>4
        DEF Client, Handler, Connect, ConnectToNone, Disconnect, Abort, ChangeMode, Fork,
            ConnectCreates
      <4> QED  BY <1>1, <4>1
    <3> QED  BY <3>1, <3>2, <3>3, <3>4
  <2>2. ASSUME NEW p \in Queries, Turn(p) \/ TurnDies(p)
        PROVE  OfThisProcess(q)' /\ query'[q].sid = query[q].sid
    <3>1. CASE p = q
      <4>1. CASE Cleanup(q)
        BY <4>1 DEF Cleanup, TypeOK, QueryState
      <4>2. CASE query'[q].pc \in Running
        BY <2>2, <3>1, <4>2, TurnFields
      <4> QED  BY <2>2, <3>1, <4>1, <4>2, TurnFields
    <3>2. CASE p # q
      BY <1>1, <2>2, <3>2, TurnFrame
    <3> QED  BY <3>1, <3>2
  <2>3. CASE Going
    BY <1>1, <2>3, GoingFrame DEF SameButReply
  <2> QED  BY <2>1, <2>2, <2>3, NextCases
<1> QED  BY <1>1 DEF Accepted, AcceptedNext

\* The steps of a connection.
LEMMA ClientStatus ==
    ASSUME TypeOK, Seated, HeldIsAccepted, ActiveMeansAccepted, CopyIsAccepted,
           \A s : Accepted(s) => AcceptedNext(s),
           NEW c \in Conns, Client(c) \/ Handler(c)
    PROVE  ActiveMeansAccepted' /\ CopyIsAccepted'
<1>0. ASSUME store' = store, \A d \in Conns : conn'[d].pc = "writing" => conn'[d] = conn[d]
      PROVE  ActiveMeansAccepted' /\ CopyIsAccepted'
  <2>1. ActiveMeansAccepted'
    BY <1>0 DEF ActiveMeansAccepted, Accepted, AcceptedNext
  <2>2. CopyIsAccepted'
    BY <1>0 DEF CopyIsAccepted, Accepted, AcceptedNext
  <2> QED  BY <2>1, <2>2
<1>1. CASE Connect(c) \/ ConnectToNone(c) \/ Disconnect(c) \/ SignalAbort(c)
  BY <1>0, <1>1 DEF Connect, ConnectToNone, Disconnect, SignalAbort, TypeOK, ConnState
<1>2. ASSUME NEW op, NEW a, NEW copy, NEW q, Holds(c, op, a, copy, q), store' = store,
             copy.status = "Active" => AcceptedNext(a)
      PROVE  ActiveMeansAccepted' /\ CopyIsAccepted'
  <2>1. /\ \A d \in Conns \ {c} : conn'[d] = conn[d]
        /\ conn'[c].at = a /\ conn'[c].copy = copy
    BY <1>2 DEF Holds, TypeOK, ConnState
  <2> QED  BY <1>2, <2>1 DEF ActiveMeansAccepted, CopyIsAccepted, Accepted, AcceptedNext
<1>3. CASE ConnectCreates(c)
  <2>1. PICK s \in Sessions : Create(s) /\ conn'[c].pc = "ready"
    BY <1>3 DEF ConnectCreates, TypeOK, ConnState
  <2>2. \A d \in Conns \ {c} : conn'[d] = conn[d]
    BY <1>3 DEF ConnectCreates, TypeOK
  <2>3. \A t \in Sessions : store'[t] = store[t] \/ store'[t].status = "Idle"
    BY <2>1 DEF Create, NewSession, TypeOK
  <2>4. CopyIsAccepted'
    BY <2>1, <2>2 DEF CopyIsAccepted, Accepted, AcceptedNext
  <2> QED  BY <2>3, <2>4 DEF ActiveMeansAccepted, Accepted, AcceptedNext
<1>4. CASE Abort(c)
  <2>1. CASE conn[c].sid \in Live
    <3>1. [store[conn[c].sid] EXCEPT !.status = "Aborted"].status # "Active"
      BY <2>1 DEF TypeOK, Session
    <3> QED  BY <1>2, <1>4, <2>1, <3>1 DEF Abort
  <2>2. CASE conn[c].sid \notin Live
    BY <1>0, <1>4, <2>2 DEF Abort, TypeOK, ConnState
  <2> QED  BY <2>1, <2>2
<1>5. ASSUME NEW label \in Labels, ChangeMode(c, label)
      PROVE  ActiveMeansAccepted' /\ CopyIsAccepted'
  <2>1. conn[c].sid \in Sessions /\ store[conn[c].sid] \in Session
    BY <1>5 DEF ChangeMode, TypeOK
  <2>2. [store[conn[c].sid] EXCEPT !.mode = label].status = store[conn[c].sid].status
    BY <2>1 DEF Session
  <2>3. store[conn[c].sid] # None
    BY <1>5 DEF ChangeMode
  <2>4. store[conn[c].sid].status = "Active" => Accepted(conn[c].sid)
    BY <2>1, <2>3 DEF ActiveMeansAccepted, Accepted, AcceptedNext
  <2> QED  BY <1>2, <1>5, <2>2, <2>4 DEF ChangeMode
<1>6. ASSUME NEW source \in Sessions, NEW target \in Sessions, Fork(c, source, target)
      PROVE  ActiveMeansAccepted' /\ CopyIsAccepted'
  <2>1. [store[source] EXCEPT !.status = "Idle", !.updated = clock].status # "Active"
    BY <1>6 DEF Fork, TypeOK, Session
  <2> QED  BY <1>2, <1>6, <2>1 DEF Fork
<1>7. ASSUME NEW q \in Queries, UserMessage(c, q)
      PROVE  ActiveMeansAccepted' /\ CopyIsAccepted'
  <2>1. CASE conn[c].sid \in Live
    <3>1. Accept(q, c, "accepted")
      BY <1>7, <2>1 DEF UserMessage
    <3>2. query'[q].pc = "accepted" /\ query'[q].sid = conn[c].sid
      BY <3>1 DEF Accept, TypeOK, QueryState
    <3>3. AcceptedNext(conn[c].sid)
      BY <3>2 DEF AcceptedNext, OfThisProcess, InFlight, InHandler
    <3> QED  BY <1>2, <1>7, <2>1, <3>3 DEF UserMessage
  <2>2. CASE conn[c].sid \notin Live
    BY <1>0, <1>7, <2>2 DEF UserMessage
  <2> QED  BY <2>1, <2>2
<1>8. CASE PutBack(c)
  <2>1. /\ \A d \in Conns \ {c} : conn'[d] = conn[d]
        /\ conn'[c].pc # "writing"
    BY <1>8 DEF PutBack, NewConn, TypeOK, ConnState
  <2>2. CopyIsAccepted'
    BY <2>1 DEF CopyIsAccepted, Accepted, AcceptedNext
  <2>3. conn[c].copy.status = "Active" => AcceptedNext(conn[c].at)
    BY <1>8 DEF PutBack, CopyIsAccepted
  <2>4. \A s \in Sessions : \/ store'[s] = store[s]
                           \/ (s = conn[c].at /\ store'[s] = conn[c].copy)
    <3>1. store' = [store EXCEPT ![conn[c].at] = conn[c].copy]
      BY <1>8 DEF PutBack
    <3> QED  BY <3>1 DEF TypeOK
  <2>5. ActiveMeansAccepted'
    BY <2>3, <2>4 DEF ActiveMeansAccepted, Accepted, AcceptedNext
  <2> QED  BY <2>2, <2>5
<1> QED  BY <1>1, <1>3, <1>4, <1>5, <1>6, <1>7, <1>8 DEF Client, Handler

\* A turn only ever puts into its own session.
LEMMA TurnStatus ==
    ASSUME TypeOK, ActiveMeansAccepted, CopyIsAccepted,
           \A s : Accepted(s) => AcceptedNext(s),
           NEW q \in Queries, Turn(q) \/ TurnDies(q)
    PROVE  ActiveMeansAccepted' /\ CopyIsAccepted'
<1>1. CopyIsAccepted'
  BY TurnFrame DEF CopyIsAccepted, Accepted, AcceptedNext
<1>2. Accepted(query[q].sid)
  BY TurnFrame DEF Accepted, OfThisProcess, InFlight
<1>3. \A s \in Sessions : store'[s] = store[s] \/ s = query[q].sid
  BY DEF TypeOK, Turn, TurnDies, Register, StreamStops, UseTools, FinalAnswer, Permit, Refuse, Ask,
         WakeAllowed, WakeRefused, Execute, PostGet, PostPut, SaveTurn, Cleanup
<1>4. ActiveMeansAccepted'
  BY <1>2, <1>3 DEF ActiveMeansAccepted, Accepted, AcceptedNext
<1> QED  BY <1>1, <1>4

\* What a start loads is not Active.
LEMMA BootStatus ==
    ASSUME TypeOK, NEW s \in Sessions, Recovered[s] # None
    PROVE  Recovered[s].status # "Active"
<1>1. s \in Loaded
  BY DEF Recovered, Stuck
<1>2. disk[s] \in Session
  BY <1>1 DEF TypeOK, Loaded
<1>3. CASE s \in Stuck
  BY <1>2, <1>3 DEF Recovered, Session
<1>4. CASE s \notin Stuck
  BY <1>1, <1>4 DEF Recovered, Stuck
<1> QED  BY <1>3, <1>4

\* The steps of the world make no session Active.
LEMMA GoingStatus ==
    ASSUME TypeOK, Going, NEW s \in Sessions
    PROVE  store'[s] = store[s] \/ store'[s] = None \/ store'[s].status # "Active"
<1>1. CASE Boot
  BY <1>1, BootStatus DEF Boot
<1>2. CASE CreateSession
  BY <1>2 DEF CreateSession, Create, NewSession, TypeOK
<1>3. CASE \E t \in Sessions : DeleteSession(t)
  BY <1>3 DEF DeleteSession, TypeOK
<1>4. CASE (\E r \in knows : Answers(r)) \/ Tick \/ Stop \/ Drain \/ CrashInBoot
  BY <1>4 DEF Answers, Reply, Tick, Stop, Drain, CrashInBoot
<1> QED  BY <1>1, <1>2, <1>3, <1>4 DEF Going

LEMMA StatusInductive ==
    ASSUME TypeOK, Seated, HeldIsAccepted, ActiveMeansAccepted, CopyIsAccepted, Next
    PROVE  ActiveMeansAccepted' /\ CopyIsAccepted'
<1>1. CASE ProcessEnds
  <2>1. \A c \in Conns : conn'[c].pc # "writing"
    BY <1>1 DEF ProcessEnds, NewConn, TypeOK
  <2> QED  BY <1>1, <2>1 DEF ProcessEnds, ActiveMeansAccepted, CopyIsAccepted
<1>2. CASE ~ProcessEnds
  <2>1. \A s : Accepted(s) => AcceptedNext(s)
    BY <1>2, StaysAccepted
  <2>2. ASSUME Going  PROVE ActiveMeansAccepted' /\ CopyIsAccepted'
    <3>1. CopyIsAccepted'
      BY <2>1, <2>2, GoingFrame DEF CopyIsAccepted, Accepted, AcceptedNext, SameButReply
    <3>2. \A s \in Sessions : \/ store'[s] = store[s] \/ store'[s] = None
                             \/ store'[s].status # "Active"
      BY <2>2, GoingStatus
    <3>3. ActiveMeansAccepted'
      BY <2>1, <3>2 DEF ActiveMeansAccepted, Accepted, AcceptedNext
    <3> QED  BY <3>1, <3>3
  <2> QED  BY <1>2, <2>1, <2>2, ClientStatus, TurnStatus, NextCases
<1> QED  BY <1>1, <1>2

\* An Active session has a query that this process accepted: a restart leaves
\* none behind (ActiveMeansAccepted of SessionProperties).
THEOREM RestartLeavesNoneActive == Spec => []ActiveMeansAccepted
<1>1. Init => ActiveMeansAccepted /\ CopyIsAccepted
  BY DEF Init, ActiveMeansAccepted, CopyIsAccepted, NewConn
<1>2. TypeOK /\ Seated /\ HeldIsAccepted /\ (ActiveMeansAccepted /\ CopyIsAccepted)
      /\ [Next]_vars => (ActiveMeansAccepted /\ CopyIsAccepted)'
  <2> SUFFICES ASSUME TypeOK, Seated, HeldIsAccepted, ActiveMeansAccepted, CopyIsAccepted,
                      [Next]_vars
               PROVE  ActiveMeansAccepted' /\ CopyIsAccepted'
    OBVIOUS
  <2>1. CASE UNCHANGED vars
    BY <2>1 DEF vars, ActiveMeansAccepted, CopyIsAccepted, Accepted, AcceptedNext, OfThisProcess
  <2> QED  BY <2>1, StatusInductive
<1> QED  BY <1>1, <1>2, SeatedAlways, HeldAlways, PTL DEF Spec

-----------------------------------------------------------------------------
(***************************************************************************)
(* What explains an Active session.  Until its last block is put, or its   *)
(* session is found gone, a query explains that its session is Active; so  *)
(* does one that ended without an answer, for as long as the process lives.*)
(***************************************************************************)

Early == {"unused", "accepted", "spawned", "streaming", "deciding", "asking", "executing"}

\* What the place of a query says of its answer.
AnswerForm(q) ==
    /\ query[q].pc \in Early => query[q].tot = 0 /\ query[q].blk = 0
    /\ query[q].pc \in Early \cup {"posting", "writing"} => ~query[q].ok
    /\ query[q].pc = "writing" => query[q].copy.status = "Idle"

AnswerForms == \A q \in Queries : AnswerForm(q)

LEMMA AnswerFormTurn ==
    ASSUME TypeOK, NEW q \in Queries, AnswerForm(q), Turn(q) \/ TurnDies(q)
    PROVE  AnswerForm(q)'
<1>0. query[q] \in QueryState /\ query \in [Queries -> QueryState]
  BY DEF TypeOK
<1> USE DEF QueryState, AnswerForm, Early
<1>1. CASE Register(q) \/ TurnDies(q) \/ StreamStops(q) \/ UseTools(q) \/ Cleanup(q)
  <2>1. PICK pc \in {"streaming", "returned", "posting", "deciding", "done"} :
          query' = [query EXCEPT ![q].pc = pc]
    BY <1>1 DEF Register, TurnDies, StreamStops, UseTools, Cleanup
  <2>2. query[q].pc \in {"spawned", "streaming", "executing"} \/ pc = "done"
    BY <1>0, <1>1, <2>1 DEF Register, TurnDies, StreamStops, UseTools, StreamGoesOn, Cleanup
  <2> QED  BY <1>0, <2>1, <2>2
<1>2. ASSUME NEW blocks \in 1..MaxBlocks, FinalAnswer(q, blocks)  PROVE AnswerForm(q)'
  BY <1>0, <1>2 DEF FinalAnswer, StreamGoesOn
<1>3. ASSUME NEW o \in HookOutcomes, Permit(q, o)  PROVE AnswerForm(q)'
  BY <1>0, <1>3 DEF Permit
<1>4. ASSUME NEW o \in HookOutcomes, Ask(q, o)  PROVE AnswerForm(q)'
  BY <1>0, <1>4 DEF Ask
<1>5. CASE WakeAllowed(q)
  BY <1>0, <1>5 DEF WakeAllowed
<1>6. ASSUME CallSettled(q), query[q].pc \in Early  PROVE AnswerForm(q)'
  BY <1>0, <1>6 DEF CallSettled
<1>7. CASE PostGet(q)
  <2>1. CASE query[q].sid \in Live
    <3>1. store[query[q].sid] \in Session
      BY <1>0, <2>1 DEF TypeOK
    <3> DEFINE copy == [store[query[q].sid] EXCEPT !.status = "Idle",
                          !.log = @ \cup {[q |-> q, n |-> query[q].blk + 1]}]
    <3>2. copy.status = "Idle"
      BY <3>1 DEF Session
    <3>3. PutNext(q, copy) /\ query[q].pc = "posting"
      BY <1>7, <2>1 DEF PostGet, Posting
    <3> HIDE DEF copy
    <3> QED  BY <1>0, <3>2, <3>3 DEF PutNext
  <2>2. CASE query[q].sid \notin Live
    BY <1>0, <1>7, <2>2 DEF PostGet, Posting
  <2> QED  BY <2>1, <2>2
<1>8. CASE PostPut(q)
  BY <1>0, <1>8 DEF PostPut
<1>9. CASE SaveTurn(q)
  BY <1>0, <1>9 DEF SaveTurn
<1> QED
  BY <1>1, <1>2, <1>3, <1>4, <1>5, <1>6, <1>7, <1>8, <1>9
  DEF Turn, Refuse, WakeRefused, Execute

LEMMA AnswerFormsInductive ==
    ASSUME TypeOK, HeldIsAccepted, AnswerForms, Next
    PROVE  AnswerForms'
<1>1. ASSUME NEW c \in Conns, Client(c) \/ Handler(c), NEW q \in Queries
      PROVE  AnswerForm(q)'
  BY <1>1, ClientFrame DEF AnswerForms, AnswerForm, Early
<1>2. ASSUME NEW q \in Queries, Turn(q) \/ TurnDies(q)  PROVE AnswerForms'
  <2>1. \A p \in Queries \ {q} : query'[p] = query[p]
    BY <1>2, TurnFrame
  <2>2. AnswerForm(q)'
    BY <1>2, AnswerFormTurn DEF AnswerForms
  <2> QED  BY <2>1, <2>2 DEF AnswerForms, AnswerForm
<1>3. CASE Going
  BY <1>3, GoingFrame DEF AnswerForms, AnswerForm, SameButReply
<1>4. CASE ProcessEnds
  <2>1. \A q \in Queries : query'[q] = query[q] \/ query'[q].pc = "past"
    BY <1>4 DEF ProcessEnds, TypeOK, QueryState
  <2> QED  BY <2>1 DEF AnswerForms, AnswerForm, Early
<1> QED  BY <1>1, <1>2, <1>3, <1>4, NextCases DEF AnswerForms

Unanswered(q) == query[q].pc = "done" /\ ~query[q].ok

Unsettled(q) ==
    \/ query[q].pc \in Early \ {"unused"}
    \/ query[q].pc \in {"posting", "writing"} /\ (query[q].blk < query[q].tot \/ query[q].tot = 0)
    \/ query[q].pc = "returned" /\ ~query[q].ok
    \/ Unanswered(q)

Explains(q, s) == query[q].sid = s /\ Unsettled(q)

Explained == \A s \in Sessions : store[s] # None /\ store[s].status = "Active" =>
                                   \E q \in Queries : Explains(q, s)

\* A handler that holds an Active copy explains it by its own query; one that
\* changes the mode, by a query that will get no answer any more.
CopyIsExplained ==
    \A c \in Conns : conn[c].pc = "writing" /\ conn[c].copy.status = "Active" =>
        \/ Holding(c) /\ query[conn[c].q].sid = conn[c].at
        \/ \E q \in Queries : query[q].sid = conn[c].at /\ Unanswered(q)

\* A step that settles a query leaves its session without the status.
LEMMA Settles ==
    ASSUME TypeOK, NEW q \in Queries, AnswerForm(q), Unsettled(q), Turn(q) \/ TurnDies(q),
           query[q].sid \in Sessions
    PROVE  \/ Unsettled(q)'
           \/ store'[query[q].sid] = None
           \/ store'[query[q].sid].status = "Idle"
<1> DEFINE Goal == \/ Unsettled(q)'
                   \/ store'[query[q].sid] = None
                   \/ store'[query[q].sid].status = "Idle"
<1>0. query[q] \in QueryState /\ query \in [Queries -> QueryState]
  BY DEF TypeOK
<1> USE DEF QueryState, AnswerForm, Early, Unsettled, Unanswered
<1>1. CASE Register(q) \/ TurnDies(q) \/ StreamStops(q) \/ UseTools(q) \/ Cleanup(q)
  BY <1>0, <1>1 DEF Register, TurnDies, StreamStops, UseTools, Cleanup
<1>2. ASSUME NEW blocks \in 1..MaxBlocks, FinalAnswer(q, blocks)  PROVE Goal
  BY <1>0, <1>2 DEF FinalAnswer, StreamGoesOn
<1>3. ASSUME NEW o \in HookOutcomes, Permit(q, o)  PROVE Goal
  BY <1>0, <1>3 DEF Permit
<1>4. ASSUME NEW o \in HookOutcomes, Ask(q, o)  PROVE Goal
  BY <1>0, <1>4 DEF Ask
<1>5. CASE WakeAllowed(q)
  BY <1>0, <1>5 DEF WakeAllowed
<1>6. CASE CallSettled(q)
  BY <1>0, <1>6 DEF CallSettled
<1>7. CASE PostGet(q)
  <2>1. CASE query[q].sid \in Live
    <3>1. PICK copy : PutNext(q, copy)
      BY <1>7, <2>1 DEF PostGet
    <3>2. query'[q].pc = "writing" /\ query'[q].blk = query[q].blk /\ query'[q].tot = query[q].tot
      BY <1>0, <3>1 DEF PutNext
    <3> QED  BY <1>0, <1>7, <3>2 DEF PostGet, Posting
  <2>2. CASE query[q].sid \notin Live
    BY <1>7, <2>2 DEF PostGet
  <2> QED  BY <2>1, <2>2
<1>8. CASE PostPut(q)
  <2>1. store'[query[q].sid] = query[q].copy
    BY <1>8 DEF PostPut, TypeOK
  <2> QED  BY <1>8, <2>1 DEF PostPut
<1>9. CASE SaveTurn(q)
  <2>1. query'[q].pc = "returned" /\ query'[q].ok = (query[q].tot > 0)
    BY <1>0, <1>9 DEF SaveTurn
  <2> QED  BY <1>0, <1>9, <2>1 DEF SaveTurn, Posted
<1> QED
  BY <1>1, <1>2, <1>3, <1>4, <1>5, <1>6, <1>7, <1>8, <1>9
  DEF Turn, Refuse, WakeRefused, Execute

\* The steps of a connection unsettle no query, and an accepted one stays so
\* until its own put.
LEMMA ClientExplains ==
    ASSUME TypeOK, Seated, HeldIsAccepted, Explained, CopyIsExplained,
           "mode" \in Ops => Patient, NEW c \in Conns, Client(c) \/ Handler(c)
    PROVE  Explained' /\ CopyIsExplained'
<1> DEFINE Ended(s) == \E q \in Queries : query[q].sid = s /\ Unanswered(q)
<1>a. \A q \in Queries, s \in Sessions : Explains(q, s) => Explains(q, s)'
  BY ClientFrame DEF Explains, Unsettled, Unanswered, Early
<1>b. \A s : Ended(s) => \E q \in Queries : query'[q].sid = s /\ Unanswered(q)'
  BY ClientFrame DEF Unanswered
<1>c. \A d \in Conns \ {c} : Holding(d) => query'[conn[d].q].sid = query[conn[d].q].sid
  BY ClientFrame DEF HeldIsAccepted
<1> HIDE DEF Ended
<1>0. ASSUME \A d \in Conns \ {c} : conn'[d] = conn[d],
             conn'[c].pc = "writing" /\ conn'[c].copy.status = "Active" =>
                \/ Holding(c)' /\ query'[conn'[c].q].sid = conn'[c].at
                \/ Ended(conn'[c].at)
      PROVE  CopyIsExplained'
  <2> SUFFICES ASSUME NEW d \in Conns, conn'[d].pc = "writing", conn'[d].copy.status = "Active"
               PROVE  \/ Holding(d)' /\ query'[conn'[d].q].sid = conn'[d].at
                      \/ \E q \in Queries : query'[q].sid = conn'[d].at /\ Unanswered(q)'
    BY DEF CopyIsExplained
  <2>1. CASE d = c
    BY <1>0, <1>b, <2>1
  <2>2. CASE d # c
    <3>1. conn'[d] = conn[d]
      BY <1>0, <2>2
    <3>2. CASE Holding(d) /\ query[conn[d].q].sid = conn[d].at
      BY <1>c, <2>2, <3>1, <3>2 DEF Holding
    <3>3. CASE Ended(conn[d].at)
      BY <1>b, <3>1, <3>3
    <3> QED  BY <3>1, <3>2, <3>3 DEF CopyIsExplained, Ended
  <2> QED  BY <2>1, <2>2
<1>d. ASSUME \A s \in Sessions : store'[s] = store[s] \/ store'[s].status # "Active"
      PROVE  Explained'
  BY <1>a, <1>d DEF Explained
<1>1. CASE Connect(c) \/ ConnectToNone(c) \/ Disconnect(c) \/ SignalAbort(c)
  <2>1. /\ \A d \in Conns \ {c} : conn'[d] = conn[d]
        /\ conn'[c].pc # "writing" /\ store' = store
    BY <1>1 DEF Connect, ConnectToNone, Disconnect, SignalAbort, TypeOK, ConnState
  <2> QED  BY <1>0, <1>d, <2>1
<1>2. ASSUME NEW op, NEW a, NEW copy, NEW q, Holds(c, op, a, copy, q), store' = store,
             copy.status = "Active" =>
                \/ op = "user" /\ query'[q].sid = a
                \/ Ended(a)
      PROVE  Explained' /\ CopyIsExplained'
  <2>1. /\ \A d \in Conns \ {c} : conn'[d] = conn[d]
        /\ conn'[c].at = a /\ conn'[c].copy = copy /\ conn'[c].q = q
        /\ conn'[c].op = op /\ conn'[c].pc = "writing"
    BY <1>2 DEF Holds, TypeOK, ConnState
  <2> QED  BY <1>0, <1>d, <1>2, <2>1 DEF Holding
<1>3. CASE ConnectCreates(c)
  <2>1. PICK s \in Sessions : Create(s) /\ conn'[c].pc = "ready"
    BY <1>3 DEF ConnectCreates, TypeOK, ConnState
  <2>2. \A d \in Conns \ {c} : conn'[d] = conn[d]
    BY <1>3 DEF ConnectCreates, TypeOK
  <2>3. \A t \in Sessions : store'[t] = store[t] \/ store'[t].status # "Active"
    BY <2>1 DEF Create, NewSession, TypeOK
  <2> QED  BY <1>0, <1>d, <2>1, <2>2, <2>3
<1>4. CASE Abort(c)
  <2>1. CASE conn[c].sid \in Live
    <3>1. [store[conn[c].sid] EXCEPT !.status = "Aborted"].status # "Active"
      BY <2>1 DEF TypeOK, Session
    <3> QED  BY <1>2, <1>4, <2>1, <3>1 DEF Abort
  <2>2. CASE conn[c].sid \notin Live
    <3>1. /\ \A d \in Conns \ {c} : conn'[d] = conn[d]
          /\ conn'[c].pc # "writing" /\ store' = store
      BY <1>4, <2>2 DEF Abort, TypeOK, ConnState
    <3> QED  BY <1>0, <1>d, <3>1
  <2> QED  BY <2>1, <2>2
<1>5. ASSUME NEW label \in Labels, ChangeMode(c, label)
      PROVE  Explained' /\ CopyIsExplained'
  <2> DEFINE s == conn[c].sid
  <2>1. s \in Sessions /\ store[s] \in Session /\ store[s] # None /\ Quiet(s)
    BY <1>5 DEF ChangeMode, TypeOK
  <2>2. [store[s] EXCEPT !.mode = label].status = store[s].status
    BY <2>1 DEF Session
  <2>3. ASSUME store[s].status = "Active"  PROVE Ended(s)
    <3>1. PICK q \in Queries : Explains(q, s)
      BY <2>1, <2>3 DEF Explained
    <3>2. query[q].pc \notin InFlight
      BY <2>1, <3>1 DEF Quiet, Explains
    <3> QED
      BY <3>1, <3>2
      DEF Ended, Explains, Unsettled, Early, InFlight, InHandler, Spawned, Running, Blocking
  <2> QED  BY <1>2, <1>5, <2>2, <2>3 DEF ChangeMode
<1>6. ASSUME NEW source \in Sessions, NEW target \in Sessions, Fork(c, source, target)
      PROVE  Explained' /\ CopyIsExplained'
  <2>1. [store[source] EXCEPT !.status = "Idle", !.updated = clock].status # "Active"
    BY <1>6 DEF Fork, TypeOK, Session
  <2> QED  BY <1>2, <1>6, <2>1 DEF Fork
<1>7. ASSUME NEW q \in Queries, UserMessage(c, q)
      PROVE  Explained' /\ CopyIsExplained'
  <2>1. CASE conn[c].sid \in Live
    <3>1. Accept(q, c, "accepted")
      BY <1>7, <2>1 DEF UserMessage
    <3>2. query'[q].sid = conn[c].sid
      BY <3>1 DEF Accept, TypeOK, QueryState
    <3> QED  BY <1>2, <1>7, <2>1, <3>2 DEF UserMessage
  <2>2. CASE conn[c].sid \notin Live
    <3>1. conn' = conn /\ conn[c].pc = "ready" /\ store' = store
      BY <1>7, <2>2 DEF UserMessage
    <3> QED  BY <1>0, <1>d, <3>1
  <2> QED  BY <2>1, <2>2
<1>8. CASE PutBack(c)
  <2>1. /\ \A d \in Conns \ {c} : conn'[d] = conn[d]
        /\ conn'[c].pc # "writing"
    BY <1>8 DEF PutBack, NewConn, TypeOK, ConnState
  <2>2. CopyIsExplained'
    BY <1>0, <2>1
  <2>3. ASSUME NEW a \in Sessions, a = conn[c].at, conn[c].copy.status = "Active"
        PROVE  \E q \in Queries : Explains(q, a)'
    <3>1. CASE Holding(c) /\ query[conn[c].q].sid = a
      <4>1. PICK q \in Queries : q = conn[c].q /\ query[q].pc = "accepted"
        BY <3>1 DEF HeldIsAccepted
      <4>2. Explains(q, a)
        BY <3>1, <4>1 DEF Explains, Unsettled, Early
      <4> QED  BY <1>a, <4>2
    <3>2. CASE Ended(a)
      BY <1>b, <3>2 DEF Explains, Unsettled
    <3> QED  BY <1>8, <2>3, <3>1, <3>2 DEF CopyIsExplained, PutBack, Ended
  <2>4. \A s \in Sessions : \/ store'[s] = store[s]
                           \/ (s = conn[c].at /\ store'[s] = conn[c].copy)
    <3>1. store' = [store EXCEPT ![conn[c].at] = conn[c].copy]
      BY <1>8 DEF PutBack
    <3> QED  BY <3>1 DEF TypeOK
  <2>5. Explained'
    BY <1>a, <2>3, <2>4 DEF Explained
  <2> QED  BY <2>2, <2>5
<1> QED  BY <1>1, <1>3, <1>4, <1>5, <1>6, <1>7, <1>8 DEF Client, Handler

\* A turn that puts its last block takes the status away.
LEMMA TurnExplains ==
    ASSUME TypeOK, HeldIsAccepted, AnswerForms, Explained, CopyIsExplained,
           NEW q \in Queries, Turn(q) \/ TurnDies(q)
    PROVE  Explained' /\ CopyIsExplained'
<1>1. /\ conn' = conn /\ \A p \in Queries \ {q} : query'[p] = query[p]
      /\ query[q].pc \notin {"accepted", "done"}
      /\ query'[q].sid = query[q].sid
  BY TurnFrame, TurnFields DEF Spawned, Running, Blocking
<1>2. CopyIsExplained'
  BY <1>1 DEF CopyIsExplained, Holding, HeldIsAccepted, Unanswered
<1>3. \A s \in Sessions : store'[s] = store[s] \/ s = query[q].sid
  BY DEF TypeOK, Turn, TurnDies, Register, StreamStops, UseTools, FinalAnswer, Permit, Refuse, Ask,
         WakeAllowed, WakeRefused, Execute, PostGet, PostPut, SaveTurn, Cleanup
<1>4. ASSUME NEW s \in Sessions, store'[s] # None, store'[s].status = "Active"
      PROVE  \E p \in Queries : Explains(p, s)'
  <2>1. store'[s] = store[s]
    <3>1. CASE PostPut(q)
      BY <1>4, <3>1 DEF PostPut, AnswerForms, AnswerForm, TypeOK
    <3>2. CASE ~PostPut(q)
      BY <3>2 DEF Turn, TurnDies, Register, StreamStops, UseTools, FinalAnswer, Permit, Refuse,
             Ask, WakeAllowed, WakeRefused, Execute, PostGet, SaveTurn, Cleanup
    <3> QED  BY <3>1, <3>2
  <2>2. PICK p \in Queries : Explains(p, s)
    BY <1>4, <2>1 DEF Explained
  <2>3. CASE p # q
    BY <1>1, <2>2, <2>3 DEF Explains, Unsettled, Unanswered
  <2>4. CASE p = q
    <3>1. Unsettled(q)'
      BY <1>4, <2>2, <2>4, Settles DEF Explains, AnswerForms
    <3> QED  BY <1>1, <2>2, <2>4, <3>1 DEF Explains
  <2> QED  BY <2>3, <2>4
<1>5. Explained'
  BY <1>4 DEF Explained
<1> QED  BY <1>2, <1>5

LEMMA ExplainedInductive ==
    ASSUME TypeOK, Seated, HeldIsAccepted, AnswerForms, Explained, CopyIsExplained,
           "mode" \in Ops => Patient, Next
    PROVE  Explained' /\ CopyIsExplained'
<1>1. CASE ProcessEnds
  <2>1. \A c \in Conns : conn'[c].pc # "writing"
    BY <1>1 DEF ProcessEnds, NewConn, TypeOK
  <2> QED  BY <1>1, <2>1 DEF ProcessEnds, Explained, CopyIsExplained
<1>2. ASSUME NEW c \in Conns, Client(c) \/ Handler(c)
      PROVE  Explained' /\ CopyIsExplained'
  BY <1>2, ClientExplains
<1>3. ASSUME NEW q \in Queries, Turn(q) \/ TurnDies(q)
      PROVE  Explained' /\ CopyIsExplained'
  BY <1>3, TurnExplains
<1>4. CASE Going
  <2>1. CopyIsExplained'
    BY <1>4, GoingFrame DEF CopyIsExplained, Holding, Unanswered, SameButReply, HeldIsAccepted
  <2>2. \A s \in Sessions : \/ store'[s] = store[s] \/ store'[s] = None
                           \/ store'[s].status # "Active"
    BY <1>4, GoingStatus
  <2>3. \A q \in Queries, s \in Sessions : Explains(q, s) => Explains(q, s)'
    BY <1>4, GoingFrame DEF Explains, Unsettled, Unanswered, SameButReply
  <2> QED  BY <2>1, <2>2, <2>3 DEF Explained
<1> QED  BY <1>1, <1>2, <1>3, <1>4, NextCases

\* A session is Active only while a query of it is under way, or because one
\* ended without an answer, if clients change no mode while a turn runs: the
\* put of a mode change would write the status of its copy back
\* (ActiveIsExplained of SessionProperties).
THEOREM ActiveHasACause ==
    ASSUME "mode" \in Ops => Patient
    PROVE  Spec => []ActiveIsExplained
<1> DEFINE Inv == AnswerForms /\ Explained /\ CopyIsExplained
<1>1. Init => Inv
  BY DEF Init, Explained, CopyIsExplained, AnswerForms, AnswerForm, NewConn, UnusedQuery
<1>2. TypeOK /\ Seated /\ HeldIsAccepted /\ Inv /\ [Next]_vars => Inv'
  <2> SUFFICES ASSUME TypeOK, Seated, HeldIsAccepted, Inv, [Next]_vars  PROVE Inv'
    OBVIOUS
  <2>1. CASE UNCHANGED vars
    BY <2>1 DEF vars, Explained, CopyIsExplained, AnswerForms, AnswerForm, Explains, Unsettled,
                Unanswered, Holding
  <2> QED  BY <2>1, AnswerFormsInductive, ExplainedInductive
<1>3. Inv => ActiveIsExplained
  BY DEF Explained, ActiveIsExplained, Explains, Unsettled, Unanswered, Early, InFlight,
         InHandler, Spawned, Running, Blocking
<1> QED  BY <1>1, <1>2, <1>3, HeldAlways, SeatedAlways, PTL DEF Spec

-----------------------------------------------------------------------------
(***************************************************************************)
(* The permission prompts: which requests PENDING_PERMISSIONS holds, and   *)
(* whose word a call runs on.                                              *)
(***************************************************************************)

Waiting(q) == query[q].pc = "asking" /\ query[q].reply = "none"

\* No step but its own touches a query's question: the steps of connections.
LEMMA ClientPrompts ==
    ASSUME TypeOK, HeldIsAccepted, NEW c \in Conns, Client(c) \/ Handler(c), NEW q \in Queries
    PROVE  /\ query'[q].ask = query[q].ask
           /\ query'[q].reply = query[q].reply
           /\ query'[q].via = query[q].via
           /\ query'[q].pc # query[q].pc =>
                 query[q].pc \in {"unused", "accepted"} /\ query'[q].pc \in {"accepted", "spawned"}
<1> USE DEF TypeOK, QueryState
<1>1. CASE query' = query
  BY <1>1
<1>2. ASSUME NEW p \in Queries, UserMessage(c, p)
      PROVE  /\ query'[q].ask = query[q].ask
             /\ query'[q].reply = query[q].reply
             /\ query'[q].via = query[q].via
             /\ query'[q].pc # query[q].pc =>
                   query[q].pc = "unused" /\ query'[q].pc \in {"accepted", "spawned"}
  <2>1. PICK pc \in {"accepted", "spawned"} : Accept(p, c, pc)
    BY <1>2 DEF UserMessage
  <2> QED  BY <1>2, <2>1 DEF Accept, UserMessage
<1>3. CASE SignalAbort(c)
  BY <1>3 DEF SignalAbort
<1>4. CASE PutBack(c)
  <2>1. CASE Holding(c)
    <3>1. query' = [query EXCEPT ![conn[c].q].pc = "spawned"]
      BY <1>4, <2>1 DEF PutBack, Holding
    <3>2. query[conn[c].q].pc = "accepted"
      BY <2>1 DEF HeldIsAccepted
    <3> QED  BY <3>1, <3>2
  <2>2. CASE ~Holding(c)
    BY <1>1, <1>4, <2>2 DEF PutBack, Holding
  <2> QED  BY <2>1, <2>2
<1>5. CASE Connect(c) \/ ConnectToNone(c) \/ Disconnect(c) \/ Abort(c) \/ ConnectCreates(c)
  BY <1>1, <1>5 DEF Connect, ConnectToNone, Disconnect, Abort, ConnectCreates
<1>6. CASE \/ \E label \in Labels : ChangeMode(c, label)
           \/ \E source, target \in Sessions : Fork(c, source, target)
  BY <1>1, <1>6 DEF ChangeMode, Fork
<1> QED  BY <1>2, <1>3, <1>4, <1>5, <1>6 DEF Client, Handler

LEMMA ClientRequests ==
    ASSUME NEW c \in Conns, Client(c) \/ Handler(c)
    PROVE  pending' = pending /\ knows' \subseteq knows /\ granted' = granted /\ refused' = refused
BY DEF Client, Handler, Connect, ConnectToNone, Disconnect, Abort, UserMessage, ChangeMode, Fork,
       ConnectCreates, PutBack, SignalAbort, replies

\* What a step of a query other than the question itself leaves alone, and
\* which one lets it run on a reply.
LEMMA TurnPrompts ==
    ASSUME TypeOK, NEW q \in Queries, Turn(q) \/ TurnDies(q), \A o \in HookOutcomes : ~Ask(q, o)
    PROVE  /\ ~Waiting(q)
           /\ query'[q].pc # "asking"
           /\ query'[q].ask = query[q].ask
           /\ query'[q].pc = "executing" /\ query'[q].via = "reply" =>
                 query[q].pc = "asking" /\ query[q].reply = "yes"
           /\ pending' = pending /\ knows' = knows /\ granted' = granted /\ refused' = refused
<1> DEFINE Goal == /\ ~Waiting(q)
                   /\ query'[q].pc # "asking"
                   /\ query'[q].ask = query[q].ask
                   /\ query'[q].pc = "executing" /\ query'[q].via = "reply" =>
                         query[q].pc = "asking" /\ query[q].reply = "yes"
<1>0. query[q] \in QueryState /\ query \in [Queries -> QueryState]
  BY DEF TypeOK
<1> SUFFICES Goal
  BY DEF Turn, TurnDies, Register, StreamStops, UseTools, FinalAnswer, Permit, Refuse,
         WakeAllowed, WakeRefused, Execute, PostGet, PostPut, SaveTurn, Cleanup, replies
<1> USE DEF QueryState, Waiting
<1>1. CASE Register(q) \/ TurnDies(q) \/ StreamStops(q) \/ UseTools(q) \/ Cleanup(q)
  <2>1. PICK pc \in {"streaming", "returned", "posting", "deciding", "done"} : Goto(q, pc)
    BY <1>1 DEF Register, TurnDies, StreamStops, UseTools, Cleanup
  <2>2. query[q].pc # "asking"
    BY <1>1 DEF Register, TurnDies, StreamStops, UseTools, StreamGoesOn, Cleanup
  <2> QED  BY <1>0, <2>1, <2>2 DEF Goto
<1>2. ASSUME NEW blocks \in 1..MaxBlocks, FinalAnswer(q, blocks)  PROVE Goal
  BY <1>0, <1>2 DEF FinalAnswer, StreamGoesOn
<1>3. ASSUME NEW o \in HookOutcomes, Permit(q, o)  PROVE Goal
  BY <1>0, <1>3 DEF Permit
<1>4. CASE WakeAllowed(q)
  BY <1>0, <1>4 DEF WakeAllowed
<1>5. CASE CallSettled(q) /\ ~Waiting(q)
  BY <1>0, <1>5 DEF CallSettled
<1>6. CASE PostGet(q)
  <2>1. CASE query[q].sid \in Live
    <3>1. PICK copy : PutNext(q, copy)
      BY <1>6, <2>1 DEF PostGet
    <3> QED  BY <1>0, <1>6, <3>1 DEF PutNext, PostGet, Posting
  <2>2. CASE query[q].sid \notin Live
    BY <1>0, <1>6, <2>2 DEF PostGet, Posting
  <2> QED  BY <2>1, <2>2
<1>7. CASE PostPut(q)
  BY <1>0, <1>7 DEF PostPut
<1>8. CASE SaveTurn(q)
  BY <1>0, <1>8 DEF SaveTurn, Posted
<1> QED
  BY <1>1, <1>2, <1>3, <1>4, <1>5, <1>6, <1>7, <1>8 DEF Turn, Refuse, WakeRefused, Execute

\* The question: a number no request of the query had.
LEMMA AskPrompts ==
    ASSUME TypeOK, NEW q \in Queries, NEW o \in HookOutcomes, Ask(q, o)
    PROVE  /\ query[q].pc = "deciding"
           /\ query'[q].pc = "asking" /\ query'[q].reply = "none"
           /\ query'[q].ask = query[q].ask + 1
           /\ pending' = pending \cup {<<q, query[q].ask + 1>>}
           /\ knows' \subseteq knows \cup {<<q, query[q].ask + 1>>}
           /\ granted' = granted /\ refused' = refused
BY DEF Ask, TypeOK, QueryState, replies

\* The steps of the world but a reply.
LEMMA WorldPrompts ==
    ASSUME Going, ~\E r \in knows : Answers(r)
    PROVE  /\ query' = query /\ pending' = pending /\ knows' = knows
           /\ granted' = granted /\ refused' = refused
BY DEF Going, CreateSession, DeleteSession, Tick, Stop, Drain, Boot, CrashInBoot, replies

-----------------------------------------------------------------------------
(***************************************************************************)
(* PENDING_PERMISSIONS.                                                    *)
(***************************************************************************)

LEMMA PendingInductive ==
    ASSUME TypeOK, HeldIsAccepted, NoOrphanPrompt, Next
    PROVE  NoOrphanPrompt'
<1> USE DEF NoOrphanPrompt, Waiting
<1>1. ASSUME NEW c \in Conns, Client(c) \/ Handler(c)  PROVE NoOrphanPrompt'
  <2>1. \A q \in Queries : (Waiting(q)' <=> Waiting(q)) /\ query'[q].ask = query[q].ask
    BY <1>1, ClientPrompts
  <2> QED  BY <1>1, <2>1, ClientRequests
<1>2. ASSUME NEW q \in Queries, Turn(q) \/ TurnDies(q)  PROVE NoOrphanPrompt'
  <2>1. ASSUME NEW o \in HookOutcomes, Ask(q, o)  PROVE NoOrphanPrompt'
    BY <1>2, <2>1, AskPrompts, TurnFrame
  <2>2. CASE \A o \in HookOutcomes : ~Ask(q, o)
    BY <1>2, <2>2, TurnPrompts, TurnFrame
  <2> QED  BY <2>1, <2>2
<1>3. ASSUME NEW r \in knows, NEW c \in Conns, NEW allow \in BOOLEAN, Reply(c, r, allow)
      PROVE  NoOrphanPrompt'
  <2>1. CASE r \in pending
    <3>1. r[1] \in Queries /\ Waiting(r[1]) /\ r = <<r[1], query[r[1]].ask>>
      BY <2>1
    <3>2. \A q \in Queries : /\ Waiting(q)' <=> Waiting(q) /\ q # r[1]
                             /\ query'[q].ask = query[q].ask
      BY <1>3, <2>1, <3>1 DEF Reply, TypeOK, QueryState
    <3>3. pending' = pending \ {r}
      BY <1>3 DEF Reply
    <3> QED  BY <3>1, <3>2, <3>3
  <2>2. CASE r \notin pending
    BY <1>3, <2>2 DEF Reply
  <2> QED  BY <2>1, <2>2
<1>4. CASE Going /\ ~\E r \in knows : Answers(r)
  BY <1>4, WorldPrompts
<1>5. CASE ProcessEnds
  <2>1. \A q \in Queries : ~Waiting(q)'
    BY <1>5 DEF ProcessEnds, TypeOK, QueryState
  <2> QED  BY <1>5, <2>1 DEF ProcessEnds
<1> QED  BY <1>1, <1>2, <1>3, <1>4, <1>5, NextCases DEF Answers

\* The requests a client can still answer are those of the threads that wait
\* for one (NoOrphanPrompt of SessionProperties).
THEOREM PromptsHaveAThread == Spec => []NoOrphanPrompt
<1>1. Init => NoOrphanPrompt
  BY DEF Init, NoOrphanPrompt, UnusedQuery
<1>2. TypeOK /\ HeldIsAccepted /\ NoOrphanPrompt /\ [Next]_vars => NoOrphanPrompt'
  <2> SUFFICES ASSUME TypeOK, HeldIsAccepted, NoOrphanPrompt, [Next]_vars  PROVE NoOrphanPrompt'
    OBVIOUS
  <2>1. CASE UNCHANGED vars
    BY <2>1 DEF vars, NoOrphanPrompt
  <2> QED  BY <2>1, PendingInductive
<1> QED  BY <1>1, <1>2, HeldAlways, PTL DEF Spec

-----------------------------------------------------------------------------
(***************************************************************************)
(* Whose word a call runs on.  A request is answered by the first reply,   *)
(* and never asked again: its number is new, since every request that was  *)
(* shown or answered has a number the query has reached.                   *)
(***************************************************************************)

NumbersReached == \A r \in knows \cup granted \cup refused : r[2] <= query[r[1]].ask

PendingIsOpen == \A r \in pending : r \notin granted \cup refused

AllowedIsGranted ==
    \A q \in Queries : query[q].pc = "asking" /\ query[q].reply = "yes" =>
        <<q, query[q].ask>> \in granted \ refused

WordInv == NumbersReached /\ PendingIsOpen /\ AllowedIsGranted /\ FirstReplyRules

LEMMA WordInductive ==
    ASSUME TypeOK, HeldIsAccepted, NoOrphanPrompt, WordInv, Next
    PROVE  WordInv'
<1> USE DEF WordInv, NumbersReached, PendingIsOpen, AllowedIsGranted, FirstReplyRules
<1>0. \A r \in knows \cup granted \cup refused : r[1] \in Queries /\ r[2] \in Nat
  BY DEF TypeOK, Request
<1>1. ASSUME NEW c \in Conns, Client(c) \/ Handler(c)  PROVE WordInv'
  <2>1. NumbersReached' /\ PendingIsOpen'
    BY <1>0, <1>1, ClientPrompts, ClientRequests
  <2>2. AllowedIsGranted' /\ FirstReplyRules'
    BY <1>1, ClientPrompts, ClientRequests
  <2> QED  BY <2>1, <2>2
<1>2. ASSUME NEW q \in Queries, Turn(q) \/ TurnDies(q)  PROVE WordInv'
  <2>1. ASSUME NEW o \in HookOutcomes, Ask(q, o)  PROVE WordInv'
    <3>0. query[q].ask \in Nat /\ \A p \in Queries : query[p].ask \in Nat
      BY DEF TypeOK, QueryState
    <3>1. NumbersReached'
      BY <1>0, <1>2, <2>1, <3>0, AskPrompts, TurnFrame
    <3>2. PendingIsOpen'
      <4>1. <<q, query[q].ask + 1>> \notin granted \cup refused
        BY <1>0, <3>0
      <4> QED  BY <2>1, <4>1, AskPrompts
    <3>3. AllowedIsGranted' /\ FirstReplyRules'
      BY <1>2, <2>1, AskPrompts, TurnFrame
    <3> QED  BY <3>1, <3>2, <3>3
  <2>2. CASE \A o \in HookOutcomes : ~Ask(q, o)
    <3>1. NumbersReached' /\ PendingIsOpen'
      BY <1>0, <1>2, <2>2, TurnPrompts, TurnFrame
    <3>2. AllowedIsGranted' /\ FirstReplyRules'
      BY <1>2, <2>2, TurnPrompts, TurnFrame
    <3> QED  BY <3>1, <3>2
  <2> QED  BY <2>1, <2>2
<1>3. ASSUME NEW r \in knows, NEW c \in Conns, NEW allow \in BOOLEAN, Reply(c, r, allow)
      PROVE  WordInv'
  <2>1. \A q \in Queries : /\ query'[q].pc = query[q].pc
                           /\ query'[q].ask = query[q].ask
                           /\ query'[q].via = query[q].via
    BY <1>3 DEF Reply, TypeOK, QueryState
  <2>2. /\ pending' = pending \ {r} /\ knows' = knows
        /\ granted' = IF allow /\ r \notin refused THEN granted \cup {r} ELSE granted
        /\ refused' = IF ~allow /\ r \notin granted THEN refused \cup {r} ELSE refused
    BY <1>3 DEF Reply
  <2>3. NumbersReached' /\ PendingIsOpen'
    BY <1>0, <2>1, <2>2
  <2>4. FirstReplyRules'
    BY <2>1, <2>2
  <2>5. ASSUME NEW q \in Queries, query'[q].pc = "asking", query'[q].reply = "yes"
        PROVE  <<q, query'[q].ask>> \in granted' \ refused'
    <3>1. CASE query[q].reply = "yes"
      BY <2>1, <2>2, <2>5, <3>1
    <3>2. CASE query[q].reply # "yes"
      <4>1. r \in pending /\ q = r[1] /\ allow
        BY <1>3, <2>5, <3>2 DEF Reply, TypeOK, QueryState
      <4>2. r = <<q, query[q].ask>>
        BY <4>1 DEF NoOrphanPrompt
      <4> QED  BY <2>1, <2>2, <4>1, <4>2
    <3> QED  BY <3>1, <3>2
  <2> QED  BY <2>3, <2>4, <2>5
<1>4. CASE Going /\ ~\E r \in knows : Answers(r)
  BY <1>4, WorldPrompts
<1>5. CASE ProcessEnds
  <2>1. \A q \in Queries : query'[q].ask = query[q].ask /\ query'[q].pc \notin {"asking", "executing"}
    BY <1>5 DEF ProcessEnds, TypeOK, QueryState
  <2> QED  BY <1>0, <1>5, <2>1 DEF ProcessEnds, replies
<1> QED  BY <1>1, <1>2, <1>3, <1>4, <1>5, NextCases DEF Answers

\* A call that runs on a user's word has that word as the first reply to its
\* own request (FirstReplyRules of SessionProperties).
THEOREM TheFirstReplyRules == Spec => []FirstReplyRules
<1>1. Init => WordInv
  BY DEF Init, WordInv, NumbersReached, PendingIsOpen, AllowedIsGranted, FirstReplyRules, UnusedQuery
<1>2. TypeOK /\ HeldIsAccepted /\ NoOrphanPrompt /\ WordInv /\ [Next]_vars => WordInv'
  <2> SUFFICES ASSUME TypeOK, HeldIsAccepted, NoOrphanPrompt, WordInv, [Next]_vars  PROVE WordInv'
    OBVIOUS
  <2>1. CASE UNCHANGED vars
    BY <2>1 DEF vars, replies, WordInv, NumbersReached, PendingIsOpen, AllowedIsGranted,
                FirstReplyRules
  <2> QED  BY <2>1, WordInductive
<1>3. WordInv => FirstReplyRules
  BY DEF WordInv
<1> QED  BY <1>1, <1>2, <1>3, HeldAlways, PromptsHaveAThread, PTL DEF Spec

=============================================================================
