---------------------------- MODULE SessionHistory -----------------------------
(***************************************************************************)
(* The client that waits for its answers, proved: its aborts arrive, the   *)
(* history of its sessions only grows, what it was told is complete is on  *)
(* disk, and the server implements Histories for it.  Each theorem names   *)
(* the operations it does not hold with.                                   *)
(***************************************************************************)
EXTENDS SessionSafety, FiniteSetTheorems

USE DEF Async, Alive, Goto, Live

-----------------------------------------------------------------------------
(***************************************************************************)
(* Ids, and a process that is down, whatever clients do.                   *)
(***************************************************************************)

\* Whatever names a session names one that was handed out.
Taken ==
    /\ \A s \in Sessions : store[s] # None \/ disk[s] # None => s \in used
    /\ deleted \subseteq used
    /\ \A c \in Conns : /\ conn[c].pc \in {"ready", "writing", "signal"} => conn[c].sid \in used
                        /\ conn[c].pc = "writing" => conn[c].at \in used
    /\ \A q \in Queries : query[q].pc # "unused" => query[q].sid \in used

Open(c) == conn[c].pc \notin {"new", "closed"}

\* Of a process that is down nothing is left.
DownIsEmpty ==
    phase = "down" =>
        /\ \A c \in Conns : ~Open(c)
        /\ \A s \in Sessions : store[s] = None
        /\ \A q \in Queries : query[q].pc \in {"unused", "past"}

\* The two ends of a process told apart.
LEMMA EndCases ==
    ASSUME Next
    PROVE  \/ \E c \in Conns : Client(c) \/ Handler(c)
           \/ \E q \in Queries : Turn(q) \/ TurnDies(q)
           \/ Going
           \/ Exit \/ Crash
BY DEF Next, Going

\* What a save leaves of the file of a session: it is written as recs has it,
\* unless it is one of those the save may fail for.
LEMMA SavedFile ==
    ASSUME NEW ids, NEW some, NEW recs, SavedBut(ids, some, recs), NEW s \in Sessions
    PROVE  /\ s \in ids \ some => disk'[s] = recs[s]
           /\ s \notin ids \ some =>
                 disk'[s] = disk[s] \/ (s \in some /\ "torn" \in Ops /\ disk'[s] = Torn)
BY DEF SavedBut

\* What a save leaves that fails for some, or is cut short.
LEMMA SaveFile ==
    ASSUME NEW ids, NEW recs, NEW s \in Sessions,
           SaveCutShort(ids, recs) \/ \E failed \in SUBSET ids : Save(ids, failed, recs)
    PROVE  \/ disk'[s] = disk[s]
           \/ /\ s \in ids
              /\ disk'[s] = recs[s] \/ ("torn" \in Ops /\ disk'[s] = Torn)
<1>1. PICK some \in SUBSET ids : SavedBut(ids, some, recs)
  BY DEF SaveCutShort, Save
<1> QED  BY <1>1, SavedFile

\* A crash writes no file but from the store.
LEMMA CrashFiles ==
    ASSUME Crash, NEW s \in Sessions
    PROVE  \/ disk'[s] = disk[s]
           \/ /\ store[s] # None
              /\ disk'[s] = store[s] \/ ("torn" \in Ops /\ disk'[s] = Torn)
<1>1. PICK ids \in SavesUnderWay : SaveCutShort(ids, store)
  BY DEF Crash
<1>2. ids \subseteq Live
  BY DEF SavesUnderWay
<1> QED  BY <1>1, <1>2, SaveFile

\* A step of a connection is its own, and takes it up from the state it is in.
LEMMA OneConnSteps ==
    ASSUME TypeOK, NEW c \in Conns, Client(c) \/ Handler(c)
    PROVE  /\ \A d \in Conns \ {c} : conn'[d] = conn[d]
           /\ phase' = phase /\ phase \in {"serving", "stopping"}
           /\ disk' = disk /\ deleted' = deleted /\ used \subseteq used'
           /\ Open(c) \/ Connect(c) \/ ConnectToNone(c)
<1> USE DEF Client, Handler, Connect, ConnectToNone, Disconnect, Abort, UserMessage, ChangeMode,
            Fork, Holds, ConnectCreates, PutBack, SignalAbort, Create, times, disks
<1>1. \A d \in Conns \ {c} : conn'[d] = conn[d]
  BY DEF TypeOK
<1>2. phase' = phase /\ phase \in {"serving", "stopping"}
  OBVIOUS
<1>3. disk' = disk /\ deleted' = deleted /\ used \subseteq used'
  OBVIOUS
<1>4. Open(c) \/ Connect(c) \/ ConnectToNone(c)
  BY DEF Open
<1> QED  BY <1>1, <1>2, <1>3, <1>4

\* What a handler does to the store: nothing, a session with a fresh id, or
\* what it held.
LEMMA ConnStores ==
    ASSUME TypeOK, NEW c \in Conns, Client(c) \/ Handler(c), NEW s \in Sessions
    PROVE  \/ store'[s] = store[s]
           \/ s \notin used /\ s \in used' /\ store'[s] = NewSession
           \/ PutBack(c) /\ conn[c].pc = "writing" /\ s = conn[c].at /\ store'[s] = conn[c].copy
BY DEF TypeOK, Client, Handler, Connect, ConnectToNone, Disconnect, Abort, UserMessage, ChangeMode,
       Fork, ConnectCreates, PutBack, SignalAbort, Create

\* What a step of a query does to the store and the files.
LEMMA TurnStores ==
    ASSUME TypeOK, NEW q \in Queries, Turn(q) \/ TurnDies(q), NEW s \in Sessions
    PROVE  /\ \/ store'[s] = store[s]
              \/ PostPut(q) /\ s = query[q].sid /\ store'[s] = query[q].copy
           /\ \/ disk'[s] = disk[s]
              \/ /\ SaveTurn(q) /\ s = query[q].sid /\ store[s] # None
                 /\ disk'[s] = store[s] \/ ("torn" \in Ops /\ disk'[s] = Torn)
<1> USE DEF Turn, TurnDies, Register, StreamStops, UseTools, FinalAnswer, StreamGoesOn, Permit,
            Refuse, Ask, WakeAllowed, WakeRefused, Execute, PostGet, PostPut, Cleanup,
            times, disks
<1>1. \/ store'[s] = store[s]
      \/ PostPut(q) /\ s = query[q].sid /\ store'[s] = query[q].copy
  BY DEF TypeOK, SaveTurn
<1>2. ~SaveTurn(q) => disk'[s] = disk[s]
  OBVIOUS
<1>3. ASSUME SaveTurn(q), disk'[s] # disk[s]
      PROVE  /\ s = query[q].sid /\ store[s] # None
             /\ disk'[s] = store[s] \/ ("torn" \in Ops /\ disk'[s] = Torn)
  <2> DEFINE ids == {query[q].sid} \cap Live
  <2>1. \E failed \in SUBSET ids : Save(ids, failed, store)
    BY <1>3 DEF SaveTurn
  <2>2. s \in ids /\ (disk'[s] = store[s] \/ ("torn" \in Ops /\ disk'[s] = Torn))
    <3> HIDE DEF ids
    <3> QED  BY <1>3, <2>1, SaveFile
  <2> QED  BY <2>2
<1> QED  BY <1>1, <1>2, <1>3

\* A query has a step in a live process only, and names no session.
LEMMA TurnPhase ==
    ASSUME NEW q \in Queries, Turn(q) \/ TurnDies(q)
    PROVE  used' = used /\ deleted' = deleted /\ phase' = phase /\ phase # "down"
BY DEF Turn, TurnDies, Register, StreamStops, UseTools, FinalAnswer, StreamGoesOn, Permit,
       Refuse, Ask, WakeAllowed, WakeRefused, Execute, PostGet, PostPut, SaveTurn, Cleanup,
       times, disks

\* What the world does to them while the process goes on or starts.
LEMMA GoingStores ==
    ASSUME TypeOK, Going, NEW s \in Sessions
    PROVE  /\ \/ store'[s] = store[s]
              \/ s \notin used /\ s \in used' /\ store'[s] = NewSession
              \/ store[s] # None /\ s \in deleted' /\ store'[s] = None
              \/ phase = "down" /\ s \in Loaded /\ store'[s] = Recovered[s]
              \/ phase = "down" /\ store'[s] = None
           /\ \/ disk'[s] = disk[s]
              \/ store[s] # None /\ disk'[s] = store[s]
              \/ s \in Loaded /\ disk'[s] = Recovered[s]
              \/ /\ store[s] # None \/ s \in Loaded
                 /\ "torn" \in Ops /\ disk'[s] = Torn
           /\ used \subseteq used' /\ deleted \subseteq deleted'
           /\ deleted' \subseteq deleted \cup Live
<1> USE DEF times, disks, replies
<1>1. CASE Boot
  <2>1. \/ store'[s] = None
        \/ s \in Loaded /\ store'[s] = Recovered[s]
    BY <1>1 DEF Boot, Recovered, Stuck
  <2>2. \/ disk'[s] = disk[s]
        \/ /\ s \in Loaded
           /\ disk'[s] = Recovered[s] \/ ("torn" \in Ops /\ disk'[s] = Torn)
    BY <1>1, SaveFile DEF Boot
  <2> QED  BY <1>1, <2>1, <2>2 DEF Boot
<1>2. CASE CreateSession
  BY <1>2 DEF CreateSession, Create, TypeOK
<1>3. CASE \E t \in Sessions : DeleteSession(t)
  BY <1>3 DEF DeleteSession, TypeOK
<1>4. CASE (\E r \in knows : Answers(r)) \/ Tick \/ Drain
  BY <1>4 DEF Answers, Reply, Tick, Drain
<1>5. CASE Stop
  <2>1. \E failed \in SUBSET Live : Save(Live, failed, store)
    BY <1>5 DEF Stop
  <2>2. \/ disk'[s] = disk[s]
        \/ /\ s \in Live
           /\ disk'[s] = store[s] \/ ("torn" \in Ops /\ disk'[s] = Torn)
    <3> HIDE DEF Live
    <3> QED  BY <2>1, SaveFile
  <2> QED  BY <1>5, <2>2 DEF Stop
<1>6. CASE CrashInBoot
  <2>1. SaveCutShort(Loaded, Recovered)
    BY <1>6 DEF CrashInBoot
  <2>2. \/ disk'[s] = disk[s]
        \/ /\ s \in Loaded
           /\ disk'[s] = Recovered[s] \/ ("torn" \in Ops /\ disk'[s] = Torn)
    BY <2>1, SaveFile
  <2> QED  BY <1>6, <2>2 DEF CrashInBoot
<1> QED  BY <1>1, <1>2, <1>3, <1>4, <1>5, <1>6 DEF Going

\* What the end of a process leaves in memory.
LEMMA EndsFrame ==
    ASSUME TypeOK, ProcessEnds
    PROVE  /\ \A c \in Conns : conn'[c].pc \in {"new", "closed"}
           /\ \A s \in Sessions : store'[s] = None /\ active'[s] = None
           /\ \A q \in Queries :
                 /\ query'[q].pc \in {"unused", "past"}
                 /\ query'[q].pc # "unused" =>
                       query[q].pc # "unused" /\ query'[q].sid = query[q].sid
                 /\ query'[q].ok = query[q].ok /\ query'[q].wrote = query[q].wrote
                 /\ query'[q].tot = query[q].tot
           /\ phase' = "down" /\ used' = used /\ deleted' = deleted
<1>1. \A c \in Conns : conn'[c].pc \in {"new", "closed"}
  BY DEF ProcessEnds, NewConn, TypeOK
<1>2. \A q \in Queries :
         /\ query'[q].pc \in {"unused", "past"}
         /\ query'[q].pc # "unused" => query[q].pc # "unused" /\ query'[q].sid = query[q].sid
         /\ query'[q].ok = query[q].ok /\ query'[q].wrote = query[q].wrote
         /\ query'[q].tot = query[q].tot
  BY DEF ProcessEnds, TypeOK, QueryState
<1> QED  BY <1>1, <1>2 DEF ProcessEnds

LEMMA TakenInductive ==
    ASSUME TypeOK, HeldIsAccepted, Taken, Next
    PROVE  Taken'
<1> DEFINE Stored == \A s \in Sessions : store'[s] # None \/ disk'[s] # None => s \in used'
<1>1. ASSUME NEW c \in Conns, Client(c) \/ Handler(c)  PROVE Taken'
  <2>0. conn[c] \in ConnState
    BY DEF TypeOK
  <2>1. Stored
    <3> SUFFICES ASSUME NEW s \in Sessions, store'[s] # None \/ disk'[s] # None
                 PROVE  s \in used'
      OBVIOUS
    <3>1. used \subseteq used' /\ disk' = disk
      BY <1>1, OneConnSteps
    <3>2. CASE store'[s] = store[s]
      BY <3>1, <3>2 DEF Taken
    <3>3. CASE store'[s] # store[s]
      BY <1>1, <3>1, <3>3, ConnStores DEF Taken
    <3> QED  BY <3>2, <3>3
  <2>2. /\ \A d \in Conns \ {c} : conn'[d] = conn[d]
        /\ used \subseteq used' /\ deleted' = deleted
    BY <1>1, OneConnSteps
  <2>3. /\ conn'[c].pc \in {"ready", "writing", "signal"} => conn'[c].sid \in used'
        /\ conn'[c].pc = "writing" => conn'[c].at \in used'
    <3> DEFINE Goal == /\ conn'[c].pc \in {"ready", "writing", "signal"} => conn'[c].sid \in used'
                       /\ conn'[c].pc = "writing" => conn'[c].at \in used'
    <3> USE <2>0 DEF ConnState
    <3>1. CASE Connect(c)
      <4>1. PICK s \in Live : conn' = [conn EXCEPT ![c] = [@ EXCEPT !.pc = "ready", !.sid = s]]
        BY <3>1 DEF Connect
      <4> QED  BY <2>2, <4>1 DEF Taken, TypeOK
    <3>2. CASE ConnectCreates(c)
      <4>1. PICK s \in Sessions :
              /\ Create(s) /\ conn' = [conn EXCEPT ![c] = [@ EXCEPT !.pc = "ready", !.sid = s]]
        BY <3>2 DEF ConnectCreates
      <4> QED  BY <4>1 DEF Create, TypeOK
    <3>3. CASE ConnectToNone(c) \/ Disconnect(c) \/ SignalAbort(c)
      <4>1. \/ conn'[c].pc \in {"creating", "closed"}
            \/ conn[c].pc = "signal" /\ conn'[c].pc = "ready" /\ conn'[c].sid = conn[c].sid
        <5>1. CASE ConnectToNone(c)
          BY <5>1 DEF ConnectToNone, TypeOK
        <5>2. CASE Disconnect(c)
          BY <5>2 DEF Disconnect, TypeOK
        <5>3. CASE SignalAbort(c)
          BY <5>3 DEF SignalAbort, TypeOK
        <5> QED  BY <3>3, <5>1, <5>2, <5>3
      <4> QED  BY <2>2, <4>1 DEF Taken
    <3>4. ASSUME NEW op, NEW a, NEW copy, NEW q, Holds(c, op, a, copy, q), a \in used',
                 conn[c].pc = "ready"
          PROVE  Goal
      BY <2>2, <3>4 DEF Holds, Taken, TypeOK
    <3>5. CASE Abort(c)
      <4>1. CASE conn[c].sid \in Live
        BY <2>2, <3>4, <3>5, <4>1 DEF Abort, Taken
      <4>2. CASE conn[c].sid \notin Live
        <5>1. conn[c].pc = "ready" /\ conn'[c].pc = "signal" /\ conn'[c].sid = conn[c].sid
          <6>1. /\ conn[c].pc = "ready"
                /\ conn' = [conn EXCEPT ![c] = [@ EXCEPT !.pc = "signal", !.op = "abort"]]
            BY <3>5, <4>2 DEF Abort
          <6>2. conn'[c] = [conn[c] EXCEPT !.pc = "signal", !.op = "abort"]
            BY <6>1 DEF TypeOK
          <6>3. conn'[c].pc = "signal" /\ conn'[c].sid = conn[c].sid
            BY <6>2
          <6> QED BY <6>1, <6>3
        <5> QED  BY <2>2, <5>1 DEF Taken
      <4> QED  BY <4>1, <4>2
    <3>6. CASE \E label \in Labels : ChangeMode(c, label)
      BY <2>2, <3>4, <3>6 DEF ChangeMode, Taken
    <3>7. CASE \E source, target \in Sessions : Fork(c, source, target)
      BY <3>4, <3>7 DEF Fork
    <3>8. CASE \E q \in Queries : UserMessage(c, q)
      <4>1. PICK q \in Queries : UserMessage(c, q)
        BY <3>8
      <4>2. CASE conn[c].sid \in Live
        BY <2>2, <3>4, <4>1, <4>2 DEF UserMessage, Taken
      <4>3. CASE conn[c].sid \notin Live
        BY <2>2, <4>1, <4>3 DEF UserMessage, Taken
      <4> QED  BY <4>2, <4>3
    <3>9. CASE PutBack(c)
      <4>1. conn'[c].sid = conn[c].sid /\ conn'[c].pc # "writing" /\ conn[c].pc = "writing"
        BY <3>9 DEF PutBack, NewConn, TypeOK
      <4> QED  BY <2>2, <4>1 DEF Taken
    <3> QED  BY <1>1, <3>1, <3>2, <3>3, <3>5, <3>6, <3>7, <3>8, <3>9 DEF Client, Handler
  <2>4. ASSUME NEW q \in Queries, query'[q].pc # "unused"  PROVE query'[q].sid \in used'
    <3>1. CASE query'[q].sid = query[q].sid /\ query[q].pc # "unused"
      BY <2>2, <3>1 DEF Taken
    <3>2. CASE UserMessage(c, q)
      <4>1. PICK pc : Accept(q, c, pc)
        BY <3>2 DEF UserMessage
      <4>2. query'[q].sid = conn[c].sid
        BY <4>1 DEF Accept, TypeOK, QueryState
      <4> QED  BY <2>2, <3>2, <4>2 DEF UserMessage, Taken
    <3> QED  BY <1>1, <2>4, <3>1, <3>2, ClientFrame
  <2> QED  BY <2>1, <2>2, <2>3, <2>4 DEF Taken
<1>2. ASSUME NEW q \in Queries, Turn(q) \/ TurnDies(q)  PROVE Taken'
  <2>1. /\ conn' = conn /\ \A p \in Queries \ {q} : query'[p] = query[p]
        /\ query'[q].sid = query[q].sid /\ query[q].pc # "unused"
    BY <1>2, TurnFrame, TurnFields DEF Spawned, Running, Blocking
  <2>2. used' = used /\ deleted' = deleted
    BY <1>2, TurnPhase
  <2>3. Stored
    BY <1>2, <2>1, <2>2, TurnStores DEF Taken
  <2> QED  BY <2>1, <2>2, <2>3 DEF Taken
<1>3. CASE Going
  <2>1. /\ used \subseteq used'
        /\ \A s \in Sessions : s \in deleted' => s \in deleted \/ store[s] # None
    BY <1>3
    DEF Going, CreateSession, Create, DeleteSession, Answers, Reply, Tick, Stop, Drain, Boot,
        CrashInBoot, disks
  <2>2. deleted' \subseteq Sessions
    BY <1>3
    DEF Going, CreateSession, Create, DeleteSession, Answers, Reply, Tick, Stop, Drain, Boot,
        CrashInBoot, disks, TypeOK
  <2>3. Stored
    BY <1>3, <2>1, GoingStores DEF Taken, Loaded
  <2> QED  BY <1>3, <2>1, <2>2, <2>3, GoingFrame DEF Taken, SameButReply
<1>4. CASE Exit \/ Crash
  <2>0. ProcessEnds
    BY <1>4 DEF Exit, Crash
  <2>1. /\ \A c \in Conns : conn'[c].pc \in {"new", "closed"}
        /\ \A s \in Sessions : store'[s] = None
        /\ \A q \in Queries : query'[q].pc # "unused" =>
                                 query[q].pc # "unused" /\ query'[q].sid = query[q].sid
        /\ used' = used /\ deleted' = deleted
    BY <2>0, EndsFrame
  <2>2. Stored
    BY <1>4, <2>1, CrashFiles DEF Exit, Taken
  <2> QED  BY <2>1, <2>2 DEF Taken
<1> QED  BY <1>1, <1>2, <1>3, <1>4, EndCases

LEMMA DownInductive ==
    ASSUME TypeOK, HeldIsAccepted, DownIsEmpty, Next
    PROVE  DownIsEmpty'
<1>1. CASE Exit \/ Crash
  <2>1. ProcessEnds
    BY <1>1 DEF Exit, Crash
  <2> QED  BY <2>1, EndsFrame DEF DownIsEmpty, Open
<1>2. CASE Going
  <2>1. CASE phase' = "down"
    <3>1. phase = "down" /\ store' = store
      BY <1>2, <2>1
      DEF Going, CreateSession, DeleteSession, Answers, Reply, Tick, Stop, Drain, Boot, CrashInBoot,
          times
    <3> QED  BY <1>2, <3>1, GoingFrame DEF DownIsEmpty, Open, SameButReply
  <2> QED  BY <2>1 DEF DownIsEmpty
<1> QED  BY <1>1, <1>2, EndCases, OneConnSteps, TurnPhase DEF DownIsEmpty

LEMMA KnownAlways == Spec => [](Taken /\ DownIsEmpty)
<1>1. Init => Taken /\ DownIsEmpty
  BY DEF Init, Taken, DownIsEmpty, NewConn, UnusedQuery
<1>2. TypeOK /\ HeldIsAccepted /\ Taken /\ DownIsEmpty /\ [Next]_vars => Taken' /\ DownIsEmpty'
  <2> SUFFICES ASSUME TypeOK, HeldIsAccepted, Taken, DownIsEmpty, [Next]_vars
               PROVE  Taken' /\ DownIsEmpty'
    OBVIOUS
  <2>1. CASE UNCHANGED vars
    BY <2>1 DEF vars, times, disks, Taken, DownIsEmpty, Open
  <2> QED  BY <2>1, TakenInductive, DownInductive
<1> QED  BY <1>1, <1>2, HeldAlways, PTL DEF Spec

-----------------------------------------------------------------------------
(***************************************************************************)
(* The client that waits for the answer before it goes on.  It has one     *)
(* connection at a time, and one query of a session under way.             *)
(***************************************************************************)

OneOpen == \A c, d \in Conns : Open(c) /\ Open(d) => c = d

OneInFlight ==
    \A p, q \in Queries :
        query[p].pc \in InFlight /\ query[q].pc \in InFlight /\ query[p].sid = query[q].sid => p = q

LEMMA OneOpenInductive ==
    ASSUME Patient, TypeOK, OneOpen, Next
    PROVE  OneOpen'
<1>1. ASSUME NEW c \in Conns, Client(c) \/ Handler(c)  PROVE OneOpen'
  <2>1. \A d \in Conns \ {c} : ~Open(d)
    <3>1. CASE Open(c)
      BY <3>1 DEF OneOpen
    <3>2. CASE Connect(c) \/ ConnectToNone(c)
      BY <3>2 DEF Connect, ConnectToNone, MayOpen, Open
    <3> QED  BY <1>1, <3>1, <3>2, OneConnSteps
  <2> QED  BY <1>1, <2>1, OneConnSteps DEF OneOpen, Open
<1>2. ASSUME NEW q \in Queries, Turn(q) \/ TurnDies(q)  PROVE OneOpen'
  BY <1>2, TurnFrame DEF OneOpen, Open
<1>3. CASE Going
  BY <1>3, GoingFrame DEF OneOpen, Open
<1>4. CASE ProcessEnds
  BY <1>4, EndsFrame DEF OneOpen, Open
<1> QED  BY <1>1, <1>2, <1>3, <1>4, NextCases

LEMMA OneInFlightInductive ==
    ASSUME Patient, TypeOK, HeldIsAccepted, OneInFlight, Next
    PROVE  OneInFlight'
<1>1. ASSUME NEW c \in Conns, Client(c) \/ Handler(c)  PROVE OneInFlight'
  <2>1. CASE \E q \in Queries : UserMessage(c, q)
    <3>1. PICK q \in Queries : UserMessage(c, q)
      BY <2>1
    <3>2. \A p \in Queries \ {q} : query'[p] = query[p]
      BY <3>1 DEF UserMessage, Accept, TypeOK
    <3>3. query'[q].sid = conn[c].sid /\ query[q].pc = "unused"
      <4>1. PICK pc : Accept(q, c, pc)
        BY <3>1 DEF UserMessage
      <4> QED  BY <3>1, <4>1 DEF UserMessage, Accept, TypeOK, QueryState
    <3>4. \A p \in Queries : query[p].pc \in InFlight => query[p].sid # conn[c].sid
      BY <3>1 DEF UserMessage, Quiet
    <3> QED  BY <3>2, <3>3, <3>4 DEF OneInFlight
  <2>2. CASE \A q \in Queries : ~UserMessage(c, q)
    <3>1. \A q \in Queries : query'[q].sid = query[q].sid
                             /\ (query'[q].pc \in InFlight => query[q].pc \in InFlight)
      BY <1>1, <2>2, ClientFrame DEF InFlight, InHandler
    <3> QED  BY <3>1 DEF OneInFlight
  <2> QED  BY <2>1, <2>2
<1>2. ASSUME NEW q \in Queries, Turn(q) \/ TurnDies(q)  PROVE OneInFlight'
  <2>1. query[q].pc \in InFlight /\ query'[q].sid = query[q].sid
    BY <1>2, TurnFrame, TurnFields DEF InFlight
  <2> QED  BY <1>2, <2>1, TurnFrame DEF OneInFlight
<1>3. CASE Going
  BY <1>3, GoingFrame DEF OneInFlight, SameButReply
<1>4. CASE ProcessEnds
  BY <1>4, EndsFrame DEF OneInFlight, InFlight, InHandler, Spawned, Running, Blocking
<1> QED  BY <1>1, <1>2, <1>3, <1>4, NextCases

LEMMA PatientAlways ==
    ASSUME Patient
    PROVE  Spec => [](OneOpen /\ OneInFlight)
<1>1. Init => OneOpen /\ OneInFlight
  BY DEF Init, OneOpen, Open, OneInFlight, NewConn, UnusedQuery, InFlight, InHandler, Spawned,
         Running, Blocking
<1>2. TypeOK /\ HeldIsAccepted /\ OneOpen /\ OneInFlight /\ [Next]_vars => OneOpen' /\ OneInFlight'
  <2> SUFFICES ASSUME TypeOK, HeldIsAccepted, OneOpen, OneInFlight, [Next]_vars
               PROVE  OneOpen' /\ OneInFlight'
    OBVIOUS
  <2>1. CASE UNCHANGED vars
    BY <2>1 DEF vars, OneOpen, Open, OneInFlight
  <2> QED  BY <2>1, OneOpenInductive, OneInFlightInductive
<1> QED  BY <1>1, <1>2, HeldAlways, PTL DEF Spec

\* The map has the signal of each query that runs.
Registered == \A q \in Queries : query[q].pc \in Running => active[query[q].sid] = q

LEMMA RegisteredInductive ==
    ASSUME TypeOK, HeldIsAccepted, Taken, OneInFlight, Registered, Next
    PROVE  Registered'
<1>1. ASSUME NEW c \in Conns, Client(c) \/ Handler(c)  PROVE Registered'
  <2>1. active' = active
    BY <1>1, ClientKeepsActive
  <2>2. \A q \in Queries : query'[q].pc \in Running =>
                              query[q].pc \in Running /\ query'[q].sid = query[q].sid
    BY <1>1, ClientFrame DEF Running, Blocking
  <2> QED  BY <2>1, <2>2 DEF Registered
<1>2. ASSUME NEW q \in Queries, Turn(q) \/ TurnDies(q)  PROVE Registered'
  <2>1. /\ \A p \in Queries \ {q} : query'[p] = query[p]
        /\ query[q].pc \in Spawned \cup Running /\ query'[q].sid = query[q].sid
    BY <1>2, TurnFrame, TurnFields
  <2>2. query[q].sid \in Sessions
    BY <2>1 DEF Taken, TypeOK, Spawned, Running, Blocking
  <2>3. \A p \in Queries \ {q} : query[p].pc \in Running => query[p].sid # query[q].sid
    BY <2>1 DEF OneInFlight, InFlight
  <2>4. CASE Register(q)
    <3>1. active' = [active EXCEPT ![query[q].sid] = q]
      BY <2>4 DEF Register
    <3> QED  BY <2>1, <2>2, <2>3, <3>1 DEF Registered, TypeOK
  <2>5. CASE Cleanup(q)
    <3>1. active' = [active EXCEPT ![query[q].sid] = None] /\ query'[q].pc = "done"
      BY <2>5 DEF Cleanup, TypeOK, QueryState
    <3> QED  BY <2>1, <2>2, <2>3, <3>1 DEF Registered, TypeOK, Running, Blocking
  <2>6. CASE ~Register(q) /\ ~Cleanup(q)
    <3>1. active' = active /\ query[q].pc \in Running
      BY <1>2, <2>6
      DEF Turn, TurnDies, StreamStops, UseTools, FinalAnswer, StreamGoesOn, Permit, Refuse, Ask,
          WakeAllowed, WakeRefused, Execute, PostGet, Posting, PostPut, SaveTurn, Posted,
          Running, Blocking
    <3> QED  BY <2>1, <3>1 DEF Registered
  <2> QED  BY <2>4, <2>5, <2>6
<1>3. CASE Going
  BY <1>3, GoingFrame DEF Registered, SameButReply
<1>4. CASE ProcessEnds
  BY <1>4, EndsFrame DEF Registered, Running, Blocking
<1> QED  BY <1>1, <1>2, <1>3, <1>4, NextCases

\* If the client waits for its answers, an abort reaches the query of its
\* session that runs (AbortReachesRegistered of SessionProperties).
THEOREM AbortsArrive ==
    ASSUME Patient
    PROVE  Spec => AbortReachesRegistered
<1> DEFINE Reaches == \A c \in Conns, q \in Queries :
             /\ SignalAbort(c)
             /\ query[q].sid = conn[c].sid
             /\ query[q].pc \in Running
             => query'[q].aborted
<1>1. Init => Registered
  BY DEF Init, Registered, UnusedQuery, Running, Blocking
<1>2. TypeOK /\ HeldIsAccepted /\ Taken /\ OneInFlight /\ Registered /\ [Next]_vars => Registered'
  <2> SUFFICES ASSUME TypeOK, HeldIsAccepted, Taken, OneInFlight, Registered, [Next]_vars
               PROVE  Registered'
    OBVIOUS
  <2>1. CASE UNCHANGED vars
    BY <2>1 DEF vars, Registered
  <2> QED  BY <2>1, RegisteredInductive
<1>3. TypeOK /\ Registered => Reaches
  <2> SUFFICES ASSUME TypeOK, Registered, NEW c \in Conns, NEW q \in Queries, SignalAbort(c),
                      query[q].sid = conn[c].sid, query[q].pc \in Running
               PROVE  query'[q].aborted
    OBVIOUS
  <2>1. active[conn[c].sid] = q /\ q # None
    BY ConstantsAssumption DEF Registered
  <2>2. query' = [query EXCEPT ![q].aborted = TRUE]
    BY <2>1 DEF SignalAbort
  <2> QED  BY <2>2 DEF TypeOK, QueryState
<1>4. TypeOK /\ Registered /\ [Next]_vars => [Reaches]_vars
  BY <1>3
<1> QED
  BY <1>1, <1>2, <1>4, TypeCorrect, HeldAlways, KnownAlways, PatientAlways, PTL
  DEF Spec, AbortReachesRegistered

-----------------------------------------------------------------------------
(***************************************************************************)
(* The history of a session.  Without aborts, the only handlers that write *)
(* a session of a patient client do so while no turn of it is on its way,  *)
(* so each copy that is held has all of the history there is.              *)
(***************************************************************************)

Launched == Spawned \cup Running

WritersAlone ==
    \A c \in Conns, q \in Queries :
        conn[c].pc = "writing" /\ query[q].pc \in Launched => query[q].sid # conn[c].at

\* The copy has what the session's history has.
HasAll(s, copy) ==
    /\ copy \in Session
    /\ store[s] # None => store[s].log \subseteq copy.log

CopiesHaveAll ==
    /\ \A c \in Conns : conn[c].pc = "writing" => HasAll(conn[c].at, conn[c].copy)
    /\ \A q \in Queries : query[q].pc = "writing" => HasAll(query[q].sid, query[q].copy)

\* What a handler that takes a copy holds, and that no turn of it is launched.
LEMMA HoldsAll ==
    ASSUME Patient, "abort" \notin Ops, TypeOK, Taken, NEW c \in Conns, Client(c) \/ Handler(c),
           conn'[c].pc = "writing", conn[c].pc # "writing"
    PROVE  /\ conn'[c].at \in Sessions
           /\ HasAll(conn'[c].at, conn'[c].copy)
           /\ \A q \in Queries : query[q].pc \in Launched => query[q].sid # conn'[c].at
<1> DEFINE Goal == /\ conn'[c].at \in Sessions
                   /\ HasAll(conn'[c].at, conn'[c].copy)
                   /\ \A q \in Queries : query[q].pc \in Launched => query[q].sid # conn'[c].at
<1>1. ASSUME NEW op, NEW a \in Sessions, NEW copy, NEW q, Holds(c, op, a, copy, q),
             HasAll(a, copy),
             \A p \in Queries : query[p].pc \in Launched => query[p].sid # a
      PROVE  Goal
  <2>1. conn'[c].at = a /\ conn'[c].copy = copy
    BY <1>1 DEF Holds, TypeOK, ConnState
  <2> QED  BY <1>1, <2>1
<1>2. ASSUME NEW s \in Sessions, Quiet(s), NEW p \in Queries, query[p].pc \in Launched
      PROVE  query[p].sid # s
  BY <1>2 DEF Quiet, InFlight, Launched
<1>3. ASSUME NEW q \in Queries, UserMessage(c, q)  PROVE Goal
  <2> DEFINE s == conn[c].sid
             copy == [store[s] EXCEPT !.status = "Active", !.log = @ \cup {[q |-> q, n |-> 0]}]
  <2>1. s \in Live
    BY <1>3 DEF UserMessage
  <2>2. store[s] \in Session /\ Quiet(s)
    BY <1>3, <2>1 DEF UserMessage, TypeOK
  <2>3. copy.log = store[s].log \cup {[q |-> q, n |-> 0]} /\ copy \in Session
    <3>1. [q |-> q, n |-> 0] \in Entry
      BY DEF Entry
    <3>2. store[s].log \cup {[q |-> q, n |-> 0]} \in SUBSET Entry
      BY <2>2, <3>1 DEF Session
    <3> QED  BY <2>2, <3>2 DEF Session, Status
  <2>4. Holds(c, "user", s, copy, q)
    BY <1>3, <2>1 DEF UserMessage
  <2> HIDE DEF copy
  <2> QED  BY <1>1, <1>2, <2>1, <2>2, <2>3, <2>4 DEF HasAll
<1>4. ASSUME NEW label \in Labels, ChangeMode(c, label)  PROVE Goal
  <2> DEFINE s == conn[c].sid
             copy == [store[s] EXCEPT !.mode = label]
  <2>1. s \in Sessions /\ store[s] \in Session /\ Quiet(s) /\ Holds(c, "mode", s, copy, None)
    BY <1>4 DEF ChangeMode, TypeOK
  <2>2. copy.log = store[s].log /\ copy \in Session
    BY <2>1, <1>4 DEF Session
  <2> HIDE DEF copy
  <2> QED  BY <1>1, <1>2, <2>1, <2>2 DEF HasAll
<1>5. ASSUME NEW source \in Sessions, NEW target \in Sessions, Fork(c, source, target)
      PROVE  Goal
  <2>1. target \notin used
    BY <1>5 DEF Fork
  <2>2. \A p \in Queries : query[p].pc \in Launched => query[p].sid # target
    BY <2>1 DEF Taken, Launched, Spawned, Running, Blocking
  <2> DEFINE copy == [store[source] EXCEPT !.status = "Idle", !.updated = clock]
  <2>3. copy \in Session
    BY <1>5 DEF Fork, TypeOK, Session, Status
  <2>4. Holds(c, "fork", target, copy, None) /\ store[target] = None
    BY <1>5, <2>1 DEF Fork, Taken
  <2> HIDE DEF copy
  <2> QED  BY <1>1, <2>2, <2>3, <2>4 DEF HasAll
<1>6. CASE PutBack(c)
  BY <1>6 DEF PutBack
<1>7. CASE Connect(c) \/ ConnectToNone(c) \/ Disconnect(c) \/ ConnectCreates(c) \/ SignalAbort(c)
  BY <1>7 DEF Connect, ConnectToNone, Disconnect, ConnectCreates, SignalAbort, TypeOK, ConnState
<1> QED  BY <1>3, <1>4, <1>5, <1>6, <1>7 DEF Client, Handler, Abort

\* A turn that holds a copy of the session has just taken it.
LEMMA WritesAfterGet ==
    ASSUME TypeOK, NEW q \in Queries, Turn(q) \/ TurnDies(q), query'[q].pc = "writing"
    PROVE  PostGet(q)
<1>0. query \in [Queries -> QueryState]
  BY DEF TypeOK
<1> USE DEF QueryState
<1>1. CASE Register(q) \/ TurnDies(q) \/ StreamStops(q) \/ UseTools(q) \/ Cleanup(q)
  BY <1>0, <1>1 DEF Register, TurnDies, StreamStops, UseTools, Cleanup
<1>2. ASSUME NEW blocks \in 1..MaxBlocks  PROVE ~FinalAnswer(q, blocks)
  BY <1>0 DEF FinalAnswer
<1>3. ASSUME NEW o \in HookOutcomes  PROVE ~Permit(q, o) /\ ~Ask(q, o)
  BY <1>0 DEF Permit, Ask
<1>4. ~WakeAllowed(q)
  BY <1>0 DEF WakeAllowed
<1>5. ~CallSettled(q)
  BY <1>0 DEF CallSettled
<1>6. ~PostPut(q) /\ ~SaveTurn(q)
  <2>1. SaveTurn(q) => query'[q].pc = "returned"
    BY <1>0 DEF SaveTurn
  <2>2. PostPut(q) => query'[q].pc = "posting"
    BY <1>0 DEF PostPut
  <2> QED  BY <2>1, <2>2
<1> QED
  BY <1>1, <1>2, <1>3, <1>4, <1>5, <1>6 DEF Turn, Refuse, WakeRefused, Execute

LEMMA WritersInductive ==
    ASSUME Patient, "abort" \notin Ops, TypeOK, HeldIsAccepted, Taken, OneOpen, OneInFlight,
           WritersAlone, CopiesHaveAll, DownIsEmpty, Next
    PROVE  WritersAlone' /\ CopiesHaveAll'
<1>1. ASSUME NEW c \in Conns, Client(c) \/ Handler(c)  PROVE WritersAlone' /\ CopiesHaveAll'
  <2>1. \A d \in Conns \ {c} : conn'[d].pc # "writing"
    <3>1. \A d \in Conns \ {c} : ~Open(d)
      <4>1. CASE Open(c)
        BY <4>1 DEF OneOpen
      <4>2. CASE Connect(c) \/ ConnectToNone(c)
        BY <4>2 DEF Connect, ConnectToNone, MayOpen, Open
      <4> QED  BY <1>1, <4>1, <4>2, OneConnSteps
    <3> QED  BY <1>1, <3>1, OneConnSteps DEF Open
  <2>2. conn[c].pc = "writing" => PutBack(c) /\ conn'[c].pc # "writing"
    <3>1. conn[c].pc = "writing" => PutBack(c)
      BY <1>1 DEF Client, Handler, Connect, ConnectToNone, Disconnect, Abort, UserMessage,
                  ChangeMode, Fork, ConnectCreates, SignalAbort
    <3>2. PutBack(c) => conn'[c].pc # "writing"
      BY DEF PutBack, NewConn, TypeOK
    <3> QED  BY <3>1, <3>2
  <2>3. ASSUME conn'[c].pc = "writing"
        PROVE  /\ conn[c].pc # "writing" /\ store' = store
               /\ \A q \in Queries : query'[q].pc \in Launched => query[q].pc \in Launched
                                                           /\ query'[q].sid = query[q].sid
    <3>1. conn[c].pc # "writing" /\ ~PutBack(c)
      BY <2>2, <2>3 DEF PutBack
    <3>2. ~ConnectCreates(c)
      BY <2>3 DEF ConnectCreates, TypeOK, ConnState
    <3>3. store' = store
      BY <1>1, <3>1, <3>2
      DEF Client, Handler, Connect, ConnectToNone, Disconnect, Abort, UserMessage, ChangeMode, Fork,
          SignalAbort
    <3>4. ASSUME NEW q \in Queries, UserMessage(c, q)  PROVE query'[q].pc \notin Launched
      <4>1. conn' # conn
        BY <2>3, <3>1
      <4>2. Accept(q, c, "accepted")
        BY <3>4, <4>1 DEF UserMessage
      <4> QED  BY <4>2 DEF Accept, TypeOK, QueryState, Launched, Spawned, Running, Blocking
    <3> QED  BY <1>1, <3>1, <3>3, <3>4, ClientFrame
  <2>4. WritersAlone'
    BY <1>1, <2>1, <2>3, HoldsAll DEF WritersAlone
  <2>5. \A d \in Conns : conn'[d].pc = "writing" => HasAll(conn[d].at, conn[d].copy)'
    BY <1>1, <2>1, <2>3, HoldsAll DEF HasAll
  <2>6. ASSUME NEW q \in Queries, query'[q].pc = "writing"
        PROVE  HasAll(query[q].sid, query[q].copy)'
    <3>1. query[q].pc = "writing" /\ query'[q].sid = query[q].sid /\ query'[q].copy = query[q].copy
      BY <1>1, <2>6, ClientFrame
    <3>2. query[q].sid \in used /\ query[q].sid \in Sessions
      BY <3>1 DEF Taken, TypeOK
    <3>3. ~(conn[c].pc = "writing" /\ query[q].sid = conn[c].at)
      BY <3>1 DEF WritersAlone, Launched, Running, Blocking
    <3>4. store'[query[q].sid] = store[query[q].sid]
      BY <1>1, <3>2, <3>3, ConnStores
    <3> QED  BY <3>1, <3>4 DEF CopiesHaveAll, HasAll
  <2> QED  BY <2>4, <2>5, <2>6 DEF CopiesHaveAll
<1>2. ASSUME NEW q \in Queries, Turn(q) \/ TurnDies(q)  PROVE WritersAlone' /\ CopiesHaveAll'
  <2>1. /\ conn' = conn /\ \A p \in Queries \ {q} : query'[p] = query[p]
        /\ query[q].pc \in Launched /\ query'[q].sid = query[q].sid
    BY <1>2, TurnFrame, TurnFields DEF Launched
  <2>2. WritersAlone'
    BY <2>1 DEF WritersAlone
  <2>3. \A s \in Sessions : s # query[q].sid => store'[s] = store[s]
    BY <1>2, TurnStores
  <2>4. ASSUME NEW c \in Conns, conn'[c].pc = "writing"  PROVE HasAll(conn[c].at, conn[c].copy)'
    <3>1. conn[c].at # query[q].sid /\ conn[c].at \in Sessions
      BY <2>1, <2>4 DEF WritersAlone, Taken, TypeOK
    <3> QED  BY <2>1, <2>3, <2>4, <3>1 DEF CopiesHaveAll, HasAll
  <2>5. ASSUME NEW p \in Queries \ {q}, query'[p].pc = "writing"
        PROVE  HasAll(query[p].sid, query[p].copy)'
    <3>1. query[p].sid # query[q].sid /\ query[p].sid \in Sessions
      BY <2>1, <2>5 DEF OneInFlight, InFlight, Launched, Running, Blocking, Taken, TypeOK
    <3> QED  BY <2>1, <2>3, <2>5, <3>1 DEF CopiesHaveAll, HasAll
  <2>6. ASSUME query'[q].pc = "writing"  PROVE HasAll(query[q].sid, query[q].copy)'
    <3>1. PostGet(q)
      BY <1>2, <2>6, WritesAfterGet
    <3> DEFINE s == query[q].sid
               copy == [store[s] EXCEPT !.status = "Idle",
                                        !.log = @ \cup {[q |-> q, n |-> query[q].blk + 1]}]
    <3>2. CASE s \in Live
      <4>1. store[s] \in Session
        BY <3>2 DEF TypeOK
      <4>2. /\ copy.log = store[s].log \cup {[q |-> q, n |-> query[q].blk + 1]}
            /\ copy \in Session
        <5>1. [q |-> q, n |-> query[q].blk + 1] \in Entry
          BY DEF TypeOK, QueryState, Entry
        <5>2. store[s].log \cup {[q |-> q, n |-> query[q].blk + 1]} \in SUBSET Entry
          BY <4>1, <5>1 DEF Session
        <5> QED  BY <4>1, <5>2 DEF Session, Status
      <4>3. PutNext(q, copy) /\ store' = store
        BY <3>1, <3>2 DEF PostGet
      <4> HIDE DEF copy
      <4>4. query'[q].copy = copy
        BY <4>3 DEF PutNext, TypeOK, QueryState
      <4> QED  BY <2>1, <4>2, <4>3, <4>4 DEF HasAll
    <3>3. CASE s \notin Live
      <4>1. query'[q].pc = query[q].pc /\ query[q].pc = "posting"
        BY <3>1, <3>3 DEF PostGet, Posting, TypeOK, QueryState
      <4> QED  BY <2>6, <4>1
    <3> QED  BY <3>2, <3>3
  <2> QED  BY <2>2, <2>4, <2>5, <2>6 DEF CopiesHaveAll
<1>3. CASE Going
  <2>1. /\ \A c \in Conns : conn'[c].pc = "writing" => conn'[c] = conn[c]
        /\ \A q \in Queries : SameButReply(q)
    BY <1>3, GoingFrame
  <2>2. WritersAlone'
    BY <2>1 DEF WritersAlone, SameButReply
  <2>3. ASSUME NEW s \in Sessions, s \in used, phase # "down"
        PROVE  store'[s] = store[s] \/ store'[s] = None
    BY <1>3, <2>3, GoingStores
  <2>4. ASSUME NEW c \in Conns, conn'[c].pc = "writing"  PROVE HasAll(conn[c].at, conn[c].copy)'
    <3>1. conn[c].at \in used /\ conn[c].at \in Sessions /\ phase # "down"
      BY <2>1, <2>4 DEF Taken, TypeOK, DownIsEmpty, Open
    <3> QED  BY <2>1, <2>3, <2>4, <3>1 DEF CopiesHaveAll, HasAll
  <2>5. ASSUME NEW q \in Queries, query'[q].pc = "writing"
        PROVE  HasAll(query[q].sid, query[q].copy)'
    <3>1. query[q].sid \in used /\ query[q].sid \in Sessions /\ phase # "down"
      BY <2>1, <2>5 DEF Taken, TypeOK, DownIsEmpty, SameButReply
    <3> QED  BY <2>1, <2>3, <2>5, <3>1 DEF CopiesHaveAll, HasAll, SameButReply
  <2> QED  BY <2>2, <2>4, <2>5 DEF CopiesHaveAll
<1>4. CASE ProcessEnds
  <2>1. /\ \A c \in Conns : conn'[c].pc # "writing"
        /\ \A q \in Queries : query'[q].pc # "writing" /\ query'[q].pc \notin Launched
    BY <1>4, EndsFrame DEF Launched, Spawned, Running, Blocking
  <2> QED  BY <2>1 DEF WritersAlone, CopiesHaveAll
<1> QED  BY <1>1, <1>2, <1>3, <1>4, NextCases

LEMMA CopiesAlways ==
    ASSUME Patient, "abort" \notin Ops
    PROVE  Spec => []CopiesHaveAll
<1>1. Init => WritersAlone /\ CopiesHaveAll
  BY DEF Init, WritersAlone, CopiesHaveAll, NewConn, UnusedQuery
<1>2. /\ TypeOK /\ HeldIsAccepted /\ Taken /\ DownIsEmpty /\ OneOpen /\ OneInFlight
      /\ WritersAlone /\ CopiesHaveAll /\ [Next]_vars
      => WritersAlone' /\ CopiesHaveAll'
  <2> SUFFICES ASSUME TypeOK, HeldIsAccepted, Taken, DownIsEmpty, OneOpen, OneInFlight,
                      WritersAlone, CopiesHaveAll, [Next]_vars
               PROVE  WritersAlone' /\ CopiesHaveAll'
    OBVIOUS
  <2>1. CASE UNCHANGED vars
    BY <2>1 DEF vars, WritersAlone, CopiesHaveAll, HasAll
  <2> QED  BY <2>1, WritersInductive
<1> QED  BY <1>1, <1>2, HeldAlways, KnownAlways, PatientAlways, PTL DEF Spec

\* What a step does to the history of a session: it keeps it, or the session is
\* gone, deleted or with the process.
LEMMA HistoryGrows ==
    ASSUME TypeOK, Taken, DownIsEmpty, CopiesHaveAll, Next, NEW s \in Sessions, store[s] # None
    PROVE  \/ store'[s] # None /\ store[s].log \subseteq store'[s].log
           \/ store'[s] = None /\ (s \in deleted' \/ Exit \/ Crash)
<1>1. s \in used /\ phase # "down"
  BY DEF Taken, DownIsEmpty
<1>2. ASSUME NEW c \in Conns, Client(c) \/ Handler(c)
      PROVE  store'[s] # None /\ store[s].log \subseteq store'[s].log
  <2>1. CASE PutBack(c) /\ conn[c].pc = "writing" /\ s = conn[c].at /\ store'[s] = conn[c].copy
    BY <2>1, AbsenceAssumption DEF CopiesHaveAll, HasAll
  <2>2. CASE store'[s] = store[s]
    BY <2>2
  <2> QED  BY <1>1, <1>2, <2>1, <2>2, ConnStores
<1>3. ASSUME NEW q \in Queries, Turn(q) \/ TurnDies(q)
      PROVE  store'[s] # None /\ store[s].log \subseteq store'[s].log
  <2>1. CASE PostPut(q) /\ s = query[q].sid /\ store'[s] = query[q].copy
    BY <2>1, AbsenceAssumption DEF PostPut, CopiesHaveAll, HasAll
  <2>2. CASE store'[s] = store[s]
    BY <2>2
  <2> QED  BY <1>3, <2>1, <2>2, TurnStores
<1>4. CASE Going
  BY <1>1, <1>4, GoingStores
<1>5. CASE Exit \/ Crash
  BY <1>5, EndsFrame DEF Exit, Crash
<1> QED  BY <1>2, <1>3, <1>4, <1>5, EndCases

\* The client that waits loses nothing of a history (NoLostMessage of
\* SessionProperties), if it aborts nothing: the copies that handlers and turns
\* put back are of the history as it is.
THEOREM MessagesStay ==
    ASSUME Patient, "abort" \notin Ops
    PROVE  Spec => NoLostMessage
<1> DEFINE Stays == \A s \in Sessions :
             store[s] # None /\ store'[s] # None => store[s].log \subseteq store'[s].log
<1>1. TypeOK /\ Taken /\ DownIsEmpty /\ CopiesHaveAll /\ [Next]_vars => [Stays]_vars
  <2>1. ASSUME TypeOK, Taken, DownIsEmpty, CopiesHaveAll, Next  PROVE Stays
    BY <2>1, HistoryGrows
  <2> QED  BY <2>1
<1> QED
  BY <1>1, HeldAlways, KnownAlways, CopiesAlways, PTL DEF Spec, NoLostMessage

-----------------------------------------------------------------------------
(***************************************************************************)
(* Answers on disk.  A query's messages are in the history of its session  *)
(* as far as it has put them, or the session was deleted.  What it has     *)
(* saved is in the file from then on, but for a later write that is cut    *)
(* short; a session whose file was cut short is gone after a restart, and  *)
(* nobody puts it back.                                                    *)
(***************************************************************************)

\* The user's message and the first k blocks of the answer.
Said(q, k) == {[q |-> q, n |-> n] : n \in 0..k}

Kept(q, k) ==
    \/ query[q].sid \in deleted
    \/ store[query[q].sid] # None /\ Said(q, k) \subseteq store[query[q].sid].log

\* The save of the turn went through.
Written(q) == query[q].ok /\ query[q].wrote

KeptIfThere(q, k) ==
    \/ query[q].sid \in deleted \/ store[query[q].sid] = None
    \/ Said(q, k) \subseteq store[query[q].sid].log

TurnKept(q) ==
    /\ query[q].pc = "posting" => query[q].blk <= query[q].tot
    /\ query[q].pc = "writing" => /\ query[q].blk < query[q].tot
                                  /\ \/ query[q].sid \in deleted
                                     \/ Said(q, query[q].blk + 1) \subseteq query[q].copy.log
    /\ query[q].pc \in Launched => Kept(q, query[q].blk)
    /\ Written(q) /\ phase # "down" => KeptIfThere(q, query[q].tot)

TurnsKept == \A q \in Queries : TurnKept(q)

\* A copy in hand is put where its session is, or was deleted, or where no query
\* has been.
PutsNoneBack ==
    \A c \in Conns : conn[c].pc = "writing" =>
        \/ conn[c].at \in deleted \/ store[conn[c].at] # None
        \/ \A q \in Queries : query[q].pc # "unused" => query[q].sid # conn[c].at

\* A connection has its session until that is deleted, and a user message in
\* hand its entry.
ConnsKept ==
    \A c \in Conns :
        /\ conn[c].pc \in {"ready", "writing", "signal"} =>
               conn[c].sid \in deleted \/ store[conn[c].sid] # None
        /\ Holding(c) => /\ conn[c].at = query[conn[c].q].sid
                         /\ Said(conn[c].q, 0) \subseteq conn[c].copy.log

LEMMA SaidMore ==
    ASSUME NEW q, NEW k \in Nat
    PROVE  /\ Said(q, 0) = {[q |-> q, n |-> 0]}
           /\ Said(q, k + 1) = Said(q, k) \cup {[q |-> q, n |-> k + 1]}
<1>1. 0..(k + 1) = 0..k \cup {k + 1} /\ 0..0 = {0}
  OBVIOUS
<1> QED  BY <1>1 DEF Said

LEMMA GoingDeleted ==
    ASSUME Going
    PROVE  deleted \subseteq deleted'
BY DEF Going, CreateSession, Create, DeleteSession, Answers, Reply, Tick, Stop, Drain, Boot,
       CrashInBoot, disks

\* A confirmed deletion stays confirmed.
LEMMA DeletedGrows ==
    ASSUME TypeOK, Next
    PROVE  deleted \subseteq deleted'
<1>1. CASE Exit \/ Crash
  BY <1>1, EndsFrame DEF Exit, Crash
<1> QED  BY <1>1, EndCases, OneConnSteps, TurnPhase, GoingDeleted

\* What does not end the process keeps a session and what is in it.
LEMMA SessionStays ==
    ASSUME TypeOK, Taken, DownIsEmpty, CopiesHaveAll, Next, ~Exit, ~Crash, NEW s \in Sessions
    PROVE  /\ s \in deleted \/ store[s] # None => s \in deleted' \/ store'[s] # None
           /\ \A es : s \in deleted \/ (store[s] # None /\ es \subseteq store[s].log)
                   => s \in deleted' \/ (store'[s] # None /\ es \subseteq store'[s].log)
BY DeletedGrows, HistoryGrows

LEMMA NewIsSession ==
    ASSUME TypeOK
    PROVE  NewSession # None
BY AbsenceAssumption, ConstantsAssumption DEF TypeOK, NewSession, Session, Status

LEMMA HoldsFields ==
    ASSUME TypeOK, NEW c \in Conns, NEW op, NEW a, NEW copy, NEW q, Holds(c, op, a, copy, q)
    PROVE  /\ conn'[c].pc = "writing" /\ conn'[c].op = op /\ conn'[c].sid = conn[c].sid
           /\ conn'[c].at = a /\ conn'[c].copy = copy /\ conn'[c].q = q
BY DEF Holds, TypeOK, ConnState

\* A handler keeps the session of its connection.
LEMMA KeepsItsSession ==
    ASSUME TypeOK, NEW c \in Conns, Client(c) \/ Handler(c),
           conn[c].pc \in {"ready", "writing", "signal"}
    PROVE  conn'[c].sid = conn[c].sid
<1>1. CASE SignalAbort(c) \/ Disconnect(c)
  BY <1>1 DEF SignalAbort, Disconnect, TypeOK, ConnState
<1>2. CASE Abort(c)
  <2>1. CASE conn[c].sid \in Live
    BY <1>2, <2>1, HoldsFields DEF Abort
  <2>2. CASE conn[c].sid \notin Live
    <3>1. conn' = [conn EXCEPT ![c] = [@ EXCEPT !.pc = "signal", !.op = "abort"]]
      BY <1>2, <2>2 DEF Abort
    <3> QED  BY <3>1 DEF TypeOK, ConnState
  <2> QED  BY <2>1, <2>2
<1>3. ASSUME NEW q \in Queries, UserMessage(c, q)  PROVE conn'[c].sid = conn[c].sid
  <2>1. CASE conn[c].sid \in Live
    BY <1>3, <2>1, HoldsFields DEF UserMessage
  <2>2. CASE conn[c].sid \notin Live
    BY <1>3, <2>2 DEF UserMessage
  <2> QED  BY <2>1, <2>2
<1>4. ASSUME NEW label \in Labels, ChangeMode(c, label)  PROVE conn'[c].sid = conn[c].sid
  BY <1>4, HoldsFields DEF ChangeMode
<1>5. ASSUME NEW source \in Sessions, NEW target \in Sessions, Fork(c, source, target)
      PROVE  conn'[c].sid = conn[c].sid
  BY <1>5, HoldsFields DEF Fork
<1>6. CASE PutBack(c)
  BY <1>6 DEF PutBack, NewConn, TypeOK
<1> QED
  BY <1>1, <1>2, <1>3, <1>4, <1>5, <1>6 DEF Client, Handler, Connect, ConnectToNone, ConnectCreates

\* A user message is in hand only after its own get.
LEMMA TakesInHand ==
    ASSUME TypeOK, NEW c \in Conns, Client(c) \/ Handler(c), Holding(c)'
    PROVE  \E q \in Queries : UserMessage(c, q) /\ conn[c].sid \in Live
<1> USE DEF Holding
<1>1. ~Connect(c) /\ ~ConnectToNone(c) /\ ~ConnectCreates(c)
  BY DEF Connect, ConnectToNone, ConnectCreates, TypeOK, ConnState
<1>2. ~Disconnect(c) /\ ~SignalAbort(c)
  BY DEF Disconnect, SignalAbort, TypeOK, ConnState
<1>3. ~Abort(c)
  <2> SUFFICES ASSUME Abort(c)  PROVE FALSE
    OBVIOUS
  <2>1. CASE conn[c].sid \in Live
    BY <2>1, HoldsFields DEF Abort
  <2>2. CASE conn[c].sid \notin Live
    BY <2>2 DEF Abort, TypeOK, ConnState
  <2> QED  BY <2>1, <2>2
<1>4. ~PutBack(c)
  <2>1. PutBack(c) => conn'[c].pc # "writing"
    BY DEF PutBack, NewConn, TypeOK
  <2> QED  BY <2>1
<1>5. \A label \in Labels : ~ChangeMode(c, label)
  BY HoldsFields DEF ChangeMode
<1>6. \A source, target \in Sessions : ~Fork(c, source, target)
  BY HoldsFields DEF Fork
<1>7. ASSUME NEW q \in Queries, UserMessage(c, q)  PROVE conn[c].sid \in Live
  BY <1>7 DEF UserMessage
<1> QED  BY <1>1, <1>2, <1>3, <1>4, <1>5, <1>6, <1>7 DEF Client, Handler

LEMMA ConnsKeptInductive ==
    ASSUME "abort" \notin Ops, TypeOK, HeldIsAccepted, Taken, DownIsEmpty, CopiesHaveAll,
           ConnsKept, Next
    PROVE  ConnsKept'
<1> DEFINE Has(s) == s \in deleted \/ store[s] # None
           Mine(c) == conn[c].pc \in {"ready", "writing", "signal"}
<1>0. ASSUME ~Exit, ~Crash, NEW c \in Conns, Mine(c)
      PROVE  Has(conn[c].sid) /\ (conn[c].sid \in deleted' \/ store'[conn[c].sid] # None)
  <2>1. conn[c].sid \in Sessions
    BY <1>0 DEF Taken, TypeOK
  <2> QED  BY <1>0, <2>1, SessionStays DEF ConnsKept
<1>1. ASSUME NEW c \in Conns, Client(c) \/ Handler(c)  PROVE ConnsKept'
  <2>0. ~Exit /\ ~Crash
    BY <1>1, OneConnSteps, EndsFrame DEF Exit, Crash
  <2>1. ASSUME NEW d \in Conns \ {c}  PROVE
             /\ Mine(d)' => Has(conn[d].sid)'
             /\ Holding(d)' => /\ conn'[d].at = query'[conn'[d].q].sid
                               /\ Said(conn'[d].q, 0) \subseteq conn'[d].copy.log
    <3>1. conn'[d] = conn[d]
      BY <1>1, OneConnSteps
    <3>2. Mine(d)' => Has(conn[d].sid)'
      BY <1>0, <2>0, <3>1
    <3>3. Holding(d) => query'[conn[d].q].sid = query[conn[d].q].sid
      BY <1>1, ClientFrame DEF HeldIsAccepted
    <3> QED  BY <3>1, <3>2, <3>3 DEF ConnsKept, Holding
  <2>2. Mine(c)' => Has(conn[c].sid)'
    <3>1. CASE conn'[c].sid = conn[c].sid /\ Mine(c)
      BY <1>0, <2>0, <3>1
    <3>2. CASE Connect(c)
      BY <3>2 DEF Connect, TypeOK
    <3>3. CASE ConnectCreates(c)
      BY <3>3, NewIsSession DEF ConnectCreates, Create, TypeOK
    <3>4. CASE ConnectToNone(c) \/ Disconnect(c)
      BY <3>4 DEF ConnectToNone, Disconnect, TypeOK, ConnState
    <3>5. CASE \/ Abort(c) \/ \E q \in Queries : UserMessage(c, q)
               \/ \E label \in Labels : ChangeMode(c, label)
               \/ \E source, target \in Sessions : Fork(c, source, target)
               \/ PutBack(c) \/ SignalAbort(c)
      <4>1. Mine(c)
        BY <3>5 DEF Abort, UserMessage, ChangeMode, Fork, PutBack, SignalAbort
      <4>2. conn'[c].sid = conn[c].sid
        BY <1>1, <4>1, <3>5, KeepsItsSession
      <4> QED  BY <3>1, <4>1, <4>2
    <3> QED  BY <1>1, <3>2, <3>3, <3>4, <3>5 DEF Client, Handler
  <2>3. ASSUME Holding(c)'  PROVE /\ conn'[c].at = query'[conn'[c].q].sid
                                 /\ Said(conn'[c].q, 0) \subseteq conn'[c].copy.log
    <3>1. PICK q \in Queries : UserMessage(c, q) /\ conn[c].sid \in Live
      BY <1>1, <2>3, TakesInHand
    <3> DEFINE s == conn[c].sid
               copy == [store[s] EXCEPT !.status = "Active", !.log = @ \cup {[q |-> q, n |-> 0]}]
    <3>2. copy.log = store[s].log \cup {[q |-> q, n |-> 0]}
      BY <3>1 DEF TypeOK, Session
    <3>3. Holds(c, "user", s, copy, q) /\ Accept(q, c, "accepted")
      BY <3>1 DEF UserMessage
    <3> HIDE DEF copy
    <3>4. conn'[c].at = s /\ conn'[c].copy = copy /\ conn'[c].q = q
      BY <3>3 DEF Holds, TypeOK, ConnState
    <3>5. query'[q].sid = s
      BY <3>3 DEF Accept, TypeOK, QueryState
    <3> QED  BY <3>2, <3>4, <3>5, SaidMore
  <2> QED  BY <2>1, <2>2, <2>3 DEF ConnsKept
<1>2. ASSUME NEW q \in Queries, Turn(q) \/ TurnDies(q)  PROVE ConnsKept'
  <2>0. ~Exit /\ ~Crash
    BY <1>2, TurnPhase, EndsFrame DEF Exit, Crash
  <2>1. conn' = conn /\ \A p \in Queries : query'[p].sid = query[p].sid
    BY <1>2, TurnFrame, TurnFields
  <2> QED  BY <1>0, <2>0, <2>1 DEF ConnsKept, Holding, HeldIsAccepted
<1>3. CASE Going /\ ~Exit /\ ~Crash
  <2>1. /\ \A c \in Conns : conn'[c].pc = "closed" \/ conn'[c] = conn[c]
        /\ \A p \in Queries : query'[p].sid = query[p].sid
    BY <1>3, GoingFrame DEF SameButReply
  <2> QED  BY <1>0, <1>3, <2>1 DEF ConnsKept, Holding, HeldIsAccepted
<1>4. CASE Exit \/ Crash
  BY <1>4, EndsFrame DEF Exit, Crash, ConnsKept, Holding
<1> QED  BY <1>1, <1>2, <1>3, <1>4, EndCases

LEMMA PutsNoneBackInductive ==
    ASSUME "abort" \notin Ops, TypeOK, HeldIsAccepted, Taken, DownIsEmpty, CopiesHaveAll,
           ConnsKept, PutsNoneBack, Next
    PROVE  PutsNoneBack'
<1> DEFINE Has(s) == s \in deleted \/ store[s] # None
           Unasked(s) == \A q \in Queries : query[q].pc # "unused" => query[q].sid # s
           Stays(s) == s \in deleted' \/ store'[s] # None
           StaysSo(s) == \A q \in Queries : query'[q].pc # "unused" => query'[q].sid # s
\* A copy that stays in hand.
<1>1. ASSUME ~Exit, ~Crash, NEW c \in Conns, conn[c].pc = "writing", Has(conn[c].at)
      PROVE  Stays(conn[c].at)
  <2>1. conn[c].at \in Sessions
    BY <1>1 DEF Taken, TypeOK
  <2> QED  BY <1>1, <2>1, SessionStays
<1>2. ASSUME NEW c \in Conns, Client(c) \/ Handler(c)  PROVE PutsNoneBack'
  <2>0. ~Exit /\ ~Crash
    BY <1>2, OneConnSteps, EndsFrame DEF Exit, Crash
  <2>1. ASSUME NEW d \in Conns \ {c}, conn'[d].pc = "writing"
        PROVE  Stays(conn'[d].at) \/ StaysSo(conn'[d].at)
    <3>1. conn'[d] = conn[d]
      BY <1>2, OneConnSteps
    <3>2. CASE Has(conn[d].at)
      BY <1>1, <2>0, <2>1, <3>1, <3>2
    <3>3. CASE ~Has(conn[d].at)
      <4>1. Unasked(conn[d].at)
        BY <2>1, <3>1, <3>3 DEF PutsNoneBack
      <4>2. ASSUME NEW q \in Queries, query'[q].pc # "unused"  PROVE query'[q].sid # conn[d].at
        <5>1. CASE UserMessage(c, q)
          <6>1. PICK pc : Accept(q, c, pc)
            BY <5>1 DEF UserMessage
          <6>2. query'[q].sid = conn[c].sid
            BY <6>1 DEF Accept, TypeOK, QueryState
          <6>3. Has(conn[c].sid)
            BY <5>1 DEF UserMessage, ConnsKept
          <6> QED  BY <3>3, <6>2, <6>3
        <5>2. CASE ~UserMessage(c, q)
          <6>1. query'[q].sid = query[q].sid /\ query[q].pc # "unused"
            BY <1>2, <4>2, <5>2, ClientFrame
          <6> QED  BY <4>1, <6>1
        <5> QED  BY <5>1, <5>2
      <4> QED  BY <3>1, <4>2
    <3> QED  BY <3>2, <3>3
  <2>2. ASSUME conn'[c].pc = "writing"  PROVE Stays(conn'[c].at) \/ StaysSo(conn'[c].at)
    <3>1. CASE \E q \in Queries : UserMessage(c, q)
      <4>1. PICK q \in Queries : UserMessage(c, q)
        BY <3>1
      <4>2. conn[c].sid \in Live
        BY <2>2, <4>1 DEF UserMessage
      <4>3. conn'[c].at = conn[c].sid /\ store' = store
        BY <4>1, <4>2, HoldsFields DEF UserMessage
      <4> QED  BY <4>2, <4>3
    <3>2. CASE \E label \in Labels : ChangeMode(c, label)
      <4>1. PICK label \in Labels : ChangeMode(c, label)
        BY <3>2
      <4>2. conn'[c].at = conn[c].sid /\ store' = store /\ conn[c].sid \in Live
        BY <4>1, HoldsFields DEF ChangeMode
      <4> QED  BY <4>2
    <3>3. CASE \E source, target \in Sessions : Fork(c, source, target)
      <4>1. PICK source \in Sessions, target \in Sessions : Fork(c, source, target)
        BY <3>3
      <4>2. conn'[c].at = target /\ target \notin used /\ query' = query
        BY <4>1, HoldsFields DEF Fork
      <4> QED  BY <4>2 DEF Taken
    <3>4. CASE Connect(c) \/ ConnectToNone(c) \/ ConnectCreates(c) \/ Disconnect(c) \/ SignalAbort(c)
      BY <2>2, <3>4
      DEF Connect, ConnectToNone, ConnectCreates, Disconnect, SignalAbort, TypeOK, ConnState
    <3>5. CASE PutBack(c)
      BY <2>2, <3>5 DEF PutBack, NewConn, TypeOK
    <3> QED  BY <1>2, <3>1, <3>2, <3>3, <3>4, <3>5 DEF Client, Handler, Abort
  <2> QED  BY <2>1, <2>2 DEF PutsNoneBack
\* The other steps leave the connections alone, and every query its session.
<1>3. ASSUME ~Exit, ~Crash,
             \A c \in Conns : conn'[c].pc = "closed" \/ conn'[c] = conn[c],
             \A q \in Queries : /\ query'[q].sid = query[q].sid
                                /\ query'[q].pc # "unused" => query[q].pc # "unused"
      PROVE  PutsNoneBack'
  <2> SUFFICES ASSUME NEW c \in Conns, conn'[c].pc = "writing"
               PROVE  Stays(conn'[c].at) \/ StaysSo(conn'[c].at)
    BY DEF PutsNoneBack
  <2>1. conn'[c] = conn[c]
    BY <1>3
  <2> QED  BY <1>1, <1>3, <2>1 DEF PutsNoneBack
<1>4. ASSUME NEW q \in Queries, Turn(q) \/ TurnDies(q)  PROVE PutsNoneBack'
  <2>0. ~Exit /\ ~Crash
    BY <1>4, TurnPhase, EndsFrame DEF Exit, Crash
  <2>1. query[q].pc # "unused"
    BY <1>4, TurnFrame DEF Spawned, Running, Blocking
  <2> QED  BY <1>3, <1>4, <2>0, <2>1, TurnFrame, TurnFields
<1>5. CASE Going /\ ~Exit /\ ~Crash
  BY <1>3, <1>5, GoingFrame DEF SameButReply
<1>6. CASE Exit \/ Crash
  BY <1>6, EndsFrame DEF Exit, Crash, PutsNoneBack
<1> QED  BY <1>2, <1>4, <1>5, <1>6, EndCases

LEMMA KeptStays ==
    ASSUME TypeOK, Taken, DownIsEmpty, CopiesHaveAll, Next, ~Exit, ~Crash, NEW q \in Queries,
           query[q].sid \in Sessions, query'[q].sid = query[q].sid, NEW k, Kept(q, k)
    PROVE  Kept(q, k)'
BY SessionStays DEF Kept

\* The same of a query that may outlive its session.
LEMMA IfThereStays ==
    ASSUME TypeOK, Taken, DownIsEmpty, CopiesHaveAll, PutsNoneBack, TurnsKept,
           Next, ~Exit, ~Crash, phase # "down", NEW q \in Queries, query[q].pc # "unused",
           query'[q].sid = query[q].sid, NEW k, KeptIfThere(q, k)
    PROVE  KeptIfThere(q, k)'
<1> DEFINE s == query[q].sid
<1>1. s \in Sessions /\ s \in used
  BY DEF Taken, TypeOK
<1>2. CASE store[s] # None \/ s \in deleted
  BY <1>1, <1>2, SessionStays DEF KeptIfThere
<1>3. CASE store[s] = None /\ s \notin deleted
  <2>1. ASSUME NEW c \in Conns, Client(c) \/ Handler(c)  PROVE store'[s] = None
    <3>1. conn[c].pc = "writing" => s # conn[c].at
      BY <1>3 DEF PutsNoneBack
    <3> QED  BY <1>1, <1>3, <2>1, <3>1, ConnStores
  <2>2. ASSUME NEW p \in Queries, Turn(p) \/ TurnDies(p)  PROVE store'[s] = None
    <3>1. PostPut(p) => query[p].sid # s
      <4>1. PostPut(p) => query[p].pc \in Launched
        BY DEF PostPut, Launched, Running, Blocking
      <4> QED  BY <1>3, <4>1 DEF TurnsKept, TurnKept, Kept
    <3> QED  BY <1>1, <1>3, <2>2, <3>1, TurnStores
  <2>3. ASSUME Going  PROVE store'[s] = None
    BY <1>1, <1>3, <2>3, GoingStores
  <2>4. store'[s] = None
    BY <2>1, <2>2, <2>3, EndCases
  <2> QED  BY <2>4 DEF KeptIfThere
<1> QED  BY <1>2, <1>3

\* The steps of a turn that touch neither its answer nor the session.
LEMMA OtherTurnSteps ==
    ASSUME TypeOK, NEW q \in Queries, Turn(q) \/ TurnDies(q),
           ~PostGet(q), ~PostPut(q), ~SaveTurn(q),
           \A blocks \in 1..MaxBlocks : ~FinalAnswer(q, blocks)
    PROVE  /\ query'[q].blk = query[q].blk /\ query'[q].tot = query[q].tot
           /\ query'[q].ok = query[q].ok /\ query'[q].wrote = query[q].wrote
           /\ query'[q].pc \notin {"unused", "writing"}
           /\ query'[q].pc = "posting" => query[q].pc = "streaming"
           /\ query'[q].pc \in Launched => query[q].pc \in Launched
<1> DEFINE Goal == /\ query'[q].blk = query[q].blk /\ query'[q].tot = query[q].tot
                   /\ query'[q].ok = query[q].ok /\ query'[q].wrote = query[q].wrote
                   /\ query'[q].pc \notin {"unused", "writing"}
                   /\ query'[q].pc = "posting" => query[q].pc = "streaming"
                   /\ query'[q].pc \in Launched => query[q].pc \in Launched
<1>0. query[q] \in QueryState /\ query \in [Queries -> QueryState]
  BY DEF TypeOK
<1> USE DEF QueryState, Launched, Spawned, Running, Blocking
<1>1. CASE Register(q) \/ TurnDies(q) \/ StreamStops(q) \/ UseTools(q) \/ Cleanup(q)
  BY <1>0, <1>1 DEF Register, TurnDies, StreamStops, UseTools, StreamGoesOn, Cleanup
<1>2. ASSUME NEW o \in HookOutcomes, Permit(q, o)  PROVE Goal
  BY <1>0, <1>2 DEF Permit
<1>3. ASSUME NEW o \in HookOutcomes, Ask(q, o)  PROVE Goal
  BY <1>0, <1>3 DEF Ask
<1>4. CASE WakeAllowed(q)
  BY <1>0, <1>4 DEF WakeAllowed
<1>5. ASSUME CallSettled(q), query[q].pc \in Running  PROVE Goal
  BY <1>0, <1>5 DEF CallSettled
<1> QED  BY <1>1, <1>2, <1>3, <1>4, <1>5 DEF Turn, Refuse, WakeRefused, Execute

\* What the three steps of the answer do.
LEMMA AnswerSteps ==
    ASSUME TypeOK, NEW q \in Queries
    PROVE  /\ \A blocks \in 1..MaxBlocks : FinalAnswer(q, blocks) =>
                 /\ query[q].pc = "streaming" /\ query'[q].pc = "posting"
                 /\ query'[q].blk = query[q].blk /\ query'[q].tot = blocks
                 /\ query'[q].ok = query[q].ok
           /\ PostGet(q) =>
                 /\ query[q].pc = "posting" /\ query[q].blk < query[q].tot
                 /\ query'[q].tot = query[q].tot /\ query'[q].ok = query[q].ok
                 /\ \/ /\ query[q].sid \in Live /\ query'[q].pc = "writing"
                       /\ query'[q].blk = query[q].blk
                       /\ query'[q].copy.log = store[query[q].sid].log
                                                   \cup {[q |-> q, n |-> query[q].blk + 1]}
                    \/ /\ query[q].sid \notin Live /\ query'[q].pc = "posting"
                       /\ query'[q].blk = query[q].blk + 1
           /\ PostPut(q) =>
                 /\ query[q].pc = "writing" /\ query'[q].pc = "posting"
                 /\ query'[q].blk = query[q].blk + 1 /\ query'[q].tot = query[q].tot
                 /\ query'[q].ok = query[q].ok
                 /\ query[q].sid \in Sessions => store'[query[q].sid] = query[q].copy
           /\ SaveTurn(q) =>
                 /\ query[q].pc = "posting" /\ query'[q].pc = "returned"
                 /\ query'[q].blk = query[q].blk /\ query'[q].tot = query[q].tot
                 /\ query[q].blk = query[q].tot /\ store' = store
                 /\ query[q].sid \in Sessions /\ query'[q].wrote =>
                       query[q].sid \in Live /\ disk'[query[q].sid] = store[query[q].sid]
<1>0. query[q] \in QueryState /\ query \in [Queries -> QueryState]
  BY DEF TypeOK
<1> USE DEF QueryState
<1>1. ASSUME NEW blocks \in 1..MaxBlocks, FinalAnswer(q, blocks)
      PROVE  /\ query[q].pc = "streaming" /\ query'[q].pc = "posting"
             /\ query'[q].blk = query[q].blk /\ query'[q].tot = blocks
             /\ query'[q].ok = query[q].ok
  BY <1>0, <1>1 DEF FinalAnswer, StreamGoesOn
<1>2. ASSUME PostGet(q)
      PROVE  /\ query[q].pc = "posting" /\ query[q].blk < query[q].tot
             /\ query'[q].tot = query[q].tot /\ query'[q].ok = query[q].ok
             /\ \/ /\ query[q].sid \in Live /\ query'[q].pc = "writing"
                   /\ query'[q].blk = query[q].blk
                   /\ query'[q].copy.log = store[query[q].sid].log
                                               \cup {[q |-> q, n |-> query[q].blk + 1]}
                \/ /\ query[q].sid \notin Live /\ query'[q].pc = "posting"
                   /\ query'[q].blk = query[q].blk + 1
  <2>1. query[q].pc = "posting" /\ query[q].blk < query[q].tot
    BY <1>2 DEF PostGet, Posting
  <2>2. CASE query[q].sid \in Live
    <3> DEFINE copy == [store[query[q].sid] EXCEPT !.status = "Idle",
                          !.log = @ \cup {[q |-> q, n |-> query[q].blk + 1]}]
    <3>1. store[query[q].sid] \in Session
      BY <2>2 DEF TypeOK
    <3>2. copy.log = store[query[q].sid].log \cup {[q |-> q, n |-> query[q].blk + 1]}
      BY <3>1 DEF Session
    <3>3. PutNext(q, copy)
      BY <1>2, <2>2 DEF PostGet
    <3> HIDE DEF copy
    <3>4. /\ query'[q].pc = "writing" /\ query'[q].copy = copy /\ query'[q].blk = query[q].blk
          /\ query'[q].tot = query[q].tot /\ query'[q].ok = query[q].ok
      BY <1>0, <3>3 DEF PutNext
    <3> QED  BY <2>1, <2>2, <3>2, <3>4
  <2>3. CASE query[q].sid \notin Live
    <3>1. query' = [query EXCEPT ![q].blk = query[q].blk + 1]
      BY <1>2, <2>3 DEF PostGet
    <3> QED  BY <1>0, <2>1, <2>3, <3>1
  <2> QED  BY <2>2, <2>3
<1>3. ASSUME PostPut(q)
      PROVE  /\ query[q].pc = "writing" /\ query'[q].pc = "posting"
             /\ query'[q].blk = query[q].blk + 1 /\ query'[q].tot = query[q].tot
             /\ query'[q].ok = query[q].ok
             /\ query[q].sid \in Sessions => store'[query[q].sid] = query[q].copy
  <2>1. query[q].sid \in Sessions => store'[query[q].sid] = query[q].copy
    BY <1>3 DEF PostPut, TypeOK
  <2> QED  BY <1>0, <1>3, <2>1 DEF PostPut
<1>4. ASSUME SaveTurn(q)
      PROVE  /\ query[q].pc = "posting" /\ query'[q].pc = "returned"
             /\ query'[q].blk = query[q].blk /\ query'[q].tot = query[q].tot
             /\ query[q].blk = query[q].tot /\ store' = store
             /\ query[q].sid \in Sessions /\ query'[q].wrote =>
                   query[q].sid \in Live /\ disk'[query[q].sid] = store[query[q].sid]
  <2> DEFINE s == query[q].sid
  <2>1. PICK failed \in SUBSET ({s} \cap Live) :
          /\ Save({s} \cap Live, failed, store)
          /\ query' = [query EXCEPT ![q] = [@ EXCEPT !.pc = "returned", !.ok = query[q].tot > 0,
                                                     !.wrote = failed # ({s} \cap Live)]]
    BY <1>4 DEF SaveTurn
  <2>2. /\ query'[q].pc = "returned" /\ query'[q].wrote = (failed # ({s} \cap Live))
        /\ query'[q].blk = query[q].blk /\ query'[q].tot = query[q].tot
    BY <1>0, <2>1
  <2>3. ASSUME s \in Sessions, query'[q].wrote
        PROVE  s \in Live /\ disk'[s] = store[s]
    <3>1. s \in Live /\ s \notin failed
      BY <2>2, <2>3
    <3> DEFINE ids == {s} \cap Live
    <3>2. SavedBut(ids, failed, store) /\ s \in ids
      BY <2>1, <3>1 DEF Save
    <3> HIDE DEF s, ids
    <3> QED  BY <2>3, <3>1, <3>2, SavedFile
  <2> QED  BY <1>4, <2>2, <2>3 DEF SaveTurn, Posted
<1> QED  BY <1>1, <1>2, <1>3, <1>4

\* A step of its own keeps what a query has put and counts.
LEMMA OwnStepKeeps ==
    ASSUME TypeOK, AnswerForms, Taken, DownIsEmpty, CopiesHaveAll, PutsNoneBack, TurnsKept, Next,
           NEW q \in Queries, Turn(q) \/ TurnDies(q)
    PROVE  TurnKept(q)'
<1>0. ~Exit /\ ~Crash /\ deleted' = deleted /\ phase' = phase /\ phase # "down"
  BY TurnPhase, EndsFrame DEF Exit, Crash
<1>1. /\ query'[q].sid = query[q].sid /\ query[q].pc \in Launched
      /\ query[q].sid \in Sessions
  BY TurnFrame, TurnFields DEF Launched, Spawned, Running, Blocking, Taken, TypeOK
<1>2. PICK k \in Nat, n \in Nat : query[q].blk = k /\ query[q].tot = n
  BY DEF TypeOK, QueryState
<1>3. Kept(q, k)
  BY <1>1, <1>2 DEF TurnsKept, TurnKept
<1>4. Kept(q, k)'
  BY <1>0, <1>1, <1>3, KeptStays
<1>5. Written(q) => KeptIfThere(q, n)'
  <2>1. Written(q) => KeptIfThere(q, n)
    BY <1>0, <1>2 DEF TurnsKept, TurnKept
  <2>2. query[q].pc # "unused"
    BY <1>1 DEF Launched, Spawned, Running, Blocking
  <2> QED  BY <1>0, <1>1, <2>1, <2>2, IfThereStays
<1>6. AnswerForm(q)
  BY DEF AnswerForms
<1>7. ASSUME NEW blocks \in 1..MaxBlocks, FinalAnswer(q, blocks)  PROVE TurnKept(q)'
  <2>1. k = 0 /\ ~query[q].ok /\ query'[q].pc = "posting" /\ query'[q].blk = k
        /\ query'[q].tot = blocks /\ ~query'[q].ok
    BY <1>2, <1>6, <1>7, AnswerSteps DEF AnswerForm, Early
  <2> QED  BY <1>4, <2>1 DEF TurnKept, Written
<1>8. CASE PostGet(q)
  <2>1. /\ query[q].pc = "posting" /\ k < n /\ query'[q].tot = n /\ query'[q].ok = query[q].ok
    BY <1>2, <1>8, AnswerSteps
  <2>2. ~query'[q].ok
    BY <1>6, <2>1 DEF AnswerForm
  <2>3. CASE query[q].sid \in Live
    <3>1. /\ query'[q].pc = "writing" /\ query'[q].blk = k
          /\ query'[q].copy.log = store[query[q].sid].log \cup {[q |-> q, n |-> k + 1]}
      BY <1>2, <1>8, <2>3, AnswerSteps
    <3>2. query[q].sid \in deleted \/ Said(q, k + 1) \subseteq query'[q].copy.log
      BY <1>3, <2>3, <3>1, SaidMore DEF Kept
    <3> QED  BY <1>0, <1>1, <1>4, <2>1, <2>2, <3>1, <3>2 DEF TurnKept, Written
  <2>4. CASE query[q].sid \notin Live
    <3>1. query'[q].pc = "posting" /\ query'[q].blk = k + 1
      BY <1>2, <1>8, <2>4, AnswerSteps
    <3>2. query[q].sid \in deleted
      BY <1>1, <1>3, <2>4 DEF Kept
    <3>3. Kept(q, k + 1)'
      BY <1>0, <1>1, <3>2 DEF Kept
    <3> QED  BY <2>1, <2>2, <3>1, <3>3 DEF TurnKept, Written
  <2> QED  BY <2>3, <2>4
<1>9. CASE PostPut(q)
  <2>1. /\ query[q].pc = "writing" /\ query'[q].pc = "posting" /\ query'[q].blk = k + 1
        /\ query'[q].tot = n /\ query'[q].ok = query[q].ok
        /\ store'[query[q].sid] = query[q].copy
    BY <1>1, <1>2, <1>9, AnswerSteps
  <2>2. /\ k < n /\ query[q].copy \in Session
        /\ query[q].sid \in deleted \/ Said(q, k + 1) \subseteq query[q].copy.log
    BY <1>2, <2>1 DEF TurnsKept, TurnKept, CopiesHaveAll, HasAll
  <2>3. Kept(q, k + 1)'
    BY <1>0, <1>1, <2>1, <2>2, AbsenceAssumption DEF Kept
  <2>4. ~query'[q].ok
    BY <1>6, <2>1 DEF AnswerForm
  <2> QED  BY <2>1, <2>2, <2>3, <2>4 DEF TurnKept, Written
<1>10. CASE SaveTurn(q)
  <2>1. query'[q].pc = "returned" /\ query'[q].blk = k /\ query'[q].tot = k
    BY <1>2, <1>10, AnswerSteps
  <2> QED  BY <1>4, <2>1 DEF TurnKept, Kept, KeptIfThere
<1>11. CASE /\ ~PostGet(q) /\ ~PostPut(q) /\ ~SaveTurn(q)
            /\ \A blocks \in 1..MaxBlocks : ~FinalAnswer(q, blocks)
  <2>1. /\ query'[q].blk = k /\ query'[q].tot = n
        /\ query'[q].ok = query[q].ok /\ query'[q].wrote = query[q].wrote
        /\ query'[q].pc # "writing"
        /\ query'[q].pc = "posting" => query[q].pc = "streaming"
    BY <1>2, <1>11, OtherTurnSteps
  <2>2. query[q].pc = "streaming" => k = 0 /\ n = 0
    BY <1>2, <1>6 DEF AnswerForm, Early
  <2> QED  BY <1>4, <1>5, <2>1, <2>2 DEF TurnKept, Written
<1> QED  BY <1>7, <1>8, <1>9, <1>10, <1>11

\* A step that does nothing to the place and the answer of a query.
LEMMA BesideKeeps ==
    ASSUME TypeOK, Taken, DownIsEmpty, CopiesHaveAll, PutsNoneBack, TurnsKept,
           Next, ~Exit, ~Crash, phase # "down", NEW q \in Queries,
           query'[q].pc = query[q].pc, query'[q].sid = query[q].sid,
           query'[q].copy = query[q].copy, query'[q].blk = query[q].blk,
           query'[q].tot = query[q].tot, query'[q].ok = query[q].ok,
           query'[q].wrote = query[q].wrote,
           query[q].ok => query[q].pc # "unused"
    PROVE  TurnKept(q)'
<1>1. PICK k \in Nat, n \in Nat : query[q].blk = k /\ query[q].tot = n
  BY DEF TypeOK, QueryState
<1>2. query[q].pc # "unused" => query[q].sid \in Sessions
  BY DEF Taken, TypeOK
<1>3. query[q].pc \in Launched => Kept(q, k)'
  BY <1>1, <1>2, KeptStays DEF TurnsKept, TurnKept, Launched, Spawned, Running, Blocking
<1>4. Written(q) => KeptIfThere(q, n)'
  BY <1>1, IfThereStays DEF TurnsKept, TurnKept, Written
<1> QED  BY <1>1, <1>3, <1>4, DeletedGrows DEF TurnsKept, TurnKept, Written

\* A query of this step that is new among the spawned ones.
LEMMA SpawnedBy ==
    ASSUME TypeOK, HeldIsAccepted, NEW c \in Conns, Client(c) \/ Handler(c), NEW q \in Queries,
           query[q].pc = "accepted", query'[q].pc = "spawned"
    PROVE  PutBack(c) /\ Holding(c) /\ conn[c].q = q
<1>1. CASE PutBack(c)
  BY <1>1 DEF PutBack, Holding, HeldIsAccepted, TypeOK
<1>2. ASSUME NEW p \in Queries, UserMessage(c, p)  PROVE FALSE
  <2>1. p # q
    BY <1>2 DEF UserMessage
  <2> QED  BY <1>2, <2>1 DEF UserMessage, Accept, TypeOK
<1>3. CASE SignalAbort(c)
  BY <1>3 DEF SignalAbort, TypeOK
<1> QED
  BY <1>1, <1>2, <1>3 DEF Client, Handler, Connect, ConnectToNone, Disconnect, Abort, ChangeMode,
                          Fork, ConnectCreates

\* A process that is down goes on by its start only.
LEMMA DownSteps ==
    ASSUME Going, phase = "down", phase' # "down"
    PROVE  Boot
BY DEF Going, CreateSession, DeleteSession, Answers, Reply, Tick, Stop, Drain, CrashInBoot, times

\* What is loaded keeps its history.
LEMMA RecoveredKeeps ==
    ASSUME TypeOK, NEW s \in Loaded
    PROVE  /\ Recovered[s] \in Session /\ Recovered[s] # None /\ Recovered[s] # Torn
           /\ Recovered[s].log = disk[s].log
<1>1. s \in Sessions /\ disk[s] \in Session
  BY DEF Loaded, TypeOK
<1>2. Recovered[s] \in Session /\ Recovered[s].log = disk[s].log
  BY <1>1 DEF Recovered, Stuck, Session, Status, TypeOK
<1> QED  BY <1>2, AbsenceAssumption

LEMMA TurnsKeptInductive ==
    ASSUME TypeOK, HeldIsAccepted, AnswerForms, Taken, DownIsEmpty, CopiesHaveAll, ConnsKept,
           PutsNoneBack, TurnsKept, AnsweredIsDurable, Next
    PROVE  TurnsKept'
<1>0. \A q \in Queries : query[q].ok => query[q].pc # "unused"
  BY DEF AnswerForms, AnswerForm, Early
<1>1. ASSUME NEW c \in Conns, Client(c) \/ Handler(c), NEW q \in Queries  PROVE TurnKept(q)'
  <2>0. ~Exit /\ ~Crash /\ phase # "down" /\ deleted' = deleted
    BY <1>1, OneConnSteps, EndsFrame DEF Exit, Crash
  <2>1. CASE query'[q].pc = query[q].pc /\ query'[q].sid = query[q].sid
    BY <1>0, <1>1, <2>0, <2>1, ClientFrame, BesideKeeps
  <2>2. CASE query[q].pc \in {"unused", "accepted"}
    <3>1. query'[q].blk = 0 /\ ~query'[q].ok
      BY <1>1, <2>2, ClientFrame DEF AnswerForms, AnswerForm, Early
    <3>2. CASE UserMessage(c, q) /\ query'[q].pc = "spawned"
      <4>1. conn[c].pc = "ready" /\ conn[c].sid \notin Live /\ Accept(q, c, "spawned")
        BY <3>2 DEF UserMessage, Accept, TypeOK, QueryState
      <4>2. query'[q].sid = conn[c].sid
        BY <4>1 DEF Accept, TypeOK, QueryState
      <4>3. conn[c].sid \in deleted
        BY <4>1 DEF ConnsKept, Taken, TypeOK
      <4> QED  BY <2>0, <3>1, <3>2, <4>2, <4>3 DEF TurnKept, Kept, Written
    <3>3. CASE PutBack(c) /\ Holding(c) /\ conn[c].q = q /\ query'[q].pc = "spawned"
      <4>1. /\ query'[q].sid = conn[c].at /\ conn[c].at \in Sessions
            /\ store'[conn[c].at] = conn[c].copy
        BY <2>2, <3>3 DEF PutBack, Holding, ConnsKept, Taken, TypeOK, QueryState
      <4>2. Said(q, 0) \subseteq conn[c].copy.log /\ conn[c].copy # None
        BY <3>3, AbsenceAssumption DEF ConnsKept, CopiesHaveAll, HasAll, Holding
      <4> QED  BY <3>1, <3>3, <4>1, <4>2 DEF TurnKept, Kept, Written
    <3>4. CASE query'[q].pc \in {"unused", "accepted"}
      BY <3>1, <3>4 DEF TurnKept, Written, Launched, Spawned, Running, Blocking
    <3> QED  BY <1>1, <2>2, <3>2, <3>3, <3>4, SpawnedBy, ClientFrame
  <2> QED  BY <1>1, <2>1, <2>2, ClientFrame
<1>2. ASSUME NEW p \in Queries, Turn(p) \/ TurnDies(p), NEW q \in Queries  PROVE TurnKept(q)'
  <2>0. ~Exit /\ ~Crash /\ phase # "down"
    BY <1>2, TurnPhase, EndsFrame DEF Exit, Crash
  <2>1. CASE q = p
    BY <1>2, <2>1, OwnStepKeeps
  <2>2. CASE q # p
    <3>1. query'[q] = query[q]
      BY <1>2, <2>2, TurnFrame
    <3> QED  BY <1>0, <2>0, <3>1, BesideKeeps
  <2> QED  BY <2>1, <2>2
<1>3. ASSUME Going, ~Exit, ~Crash, NEW q \in Queries  PROVE TurnKept(q)'
  <2>1. SameButReply(q)
    BY <1>3, GoingFrame
  <2>2. CASE phase # "down"
    BY <1>0, <1>3, <2>1, <2>2, BesideKeeps DEF SameButReply
  <2>3. CASE phase = "down"
    <3>1. query'[q].pc \in {"unused", "past"}
      BY <2>1, <2>3 DEF DownIsEmpty, SameButReply
    <3>2. ASSUME Written(q)', phase' # "down"  PROVE KeptIfThere(q, query[q].tot)'
      <4>1. Boot
        BY <1>3, <2>3, <3>2, DownSteps
      <4>2. Written(q) /\ query[q].sid \in Sessions /\ deleted' = deleted
            /\ query'[q].sid = query[q].sid /\ query'[q].tot = query[q].tot
        BY <1>0, <2>1, <3>2, <4>1 DEF SameButReply, Taken, TypeOK, Boot, Written
      <4>3. CASE query[q].sid \notin deleted /\ query[q].sid \in Loaded
        <5>1. Said(q, query[q].tot) \subseteq disk[query[q].sid].log
          BY <4>2, <4>3 DEF AnsweredIsDurable, AnswersOf, Said, Loaded, Written
        <5>2. store'[query[q].sid].log = disk[query[q].sid].log
          BY <4>1, <4>3, RecoveredKeeps DEF Boot
        <5> QED  BY <4>2, <5>1, <5>2 DEF KeptIfThere
      <4>4. CASE query[q].sid \notin Loaded
        <5>1. store'[query[q].sid] = None
          BY <4>1, <4>2, <4>4 DEF Boot, Recovered, Stuck
        <5> QED  BY <4>2, <5>1 DEF KeptIfThere
      <4> QED  BY <4>2, <4>3, <4>4 DEF KeptIfThere
    <3>3. query'[q].tot = query[q].tot
      BY <2>1 DEF SameButReply
    <3> QED  BY <3>1, <3>2, <3>3 DEF TurnKept, Launched, Spawned, Running, Blocking
  <2> QED  BY <2>2, <2>3
<1>4. CASE Exit \/ Crash
  <2>1. phase' = "down" /\ \A q \in Queries : query'[q].pc \in {"unused", "past"}
    BY <1>4, EndsFrame DEF Exit, Crash
  <2> QED  BY <2>1 DEF TurnsKept, TurnKept, Launched, Spawned, Running, Blocking
<1> QED  BY <1>1, <1>2, <1>3, <1>4, EndCases DEF TurnsKept

LEMMA DurableInductive ==
    ASSUME TypeOK, HeldIsAccepted, AnswerForms, Taken, DownIsEmpty,
           TurnsKept, AnsweredIsDurable, Next
    PROVE  AnsweredIsDurable'
<1> DEFINE Has(rec, es) == rec \notin {None, Torn} /\ es \subseteq rec.log
<1>0. \A q \in Queries : query[q].ok => /\ query[q].pc \notin Early
                                       /\ query[q].sid \in Sessions
  BY DEF AnswerForms, AnswerForm, Early, Taken, TypeOK
<1>1. ASSUME NEW q \in Queries, Written(q), query[q].sid \notin deleted
      PROVE  /\ disk[query[q].sid] = Torn \/ Has(disk[query[q].sid], AnswersOf(q))
             /\ store[query[q].sid] # None => Has(store[query[q].sid], AnswersOf(q))
  <2>1. disk[query[q].sid] = Torn \/ Has(disk[query[q].sid], AnswersOf(q))
    BY <1>1 DEF AnsweredIsDurable, Written
  <2>2. ASSUME store[query[q].sid] # None  PROVE Has(store[query[q].sid], AnswersOf(q))
    <3>1. query[q].sid \in Sessions /\ phase # "down"
      BY <1>0, <1>1, <2>2 DEF Written, DownIsEmpty
    <3>2. store[query[q].sid] \in Session
      BY <2>2, <3>1 DEF TypeOK
    <3>3. AnswersOf(q) \subseteq store[query[q].sid].log
      BY <1>1, <2>2, <3>1 DEF TurnsKept, TurnKept, KeptIfThere, Said, AnswersOf
    <3> QED  BY <3>2, <3>3, AbsenceAssumption
  <2> QED  BY <2>1, <2>2
\* What was written before stays in the file, but for a write that is cut short.
<1>2. ASSUME NEW q \in Queries, Written(q), query'[q].sid = query[q].sid,
             query'[q].tot = query[q].tot, query'[q].sid \notin deleted'
      PROVE  disk'[query'[q].sid] = Torn \/ Has(disk'[query'[q].sid], AnswersOf(q)')
  <2>0. query[q].sid \notin deleted /\ AnswersOf(q)' = AnswersOf(q)
    BY <1>2, DeletedGrows DEF AnswersOf
  <2> DEFINE s == query[q].sid
             es == AnswersOf(q)
  <2>1. /\ s \in Sessions
        /\ disk[s] = Torn \/ Has(disk[s], es)
        /\ store[s] # None => Has(store[s], es)
    BY <1>0, <1>1, <1>2, <2>0 DEF Written
  <2>2. \/ disk'[s] = disk[s] \/ disk'[s] = Torn
        \/ store[s] # None /\ disk'[s] = store[s]
        \/ s \in Loaded /\ disk'[s] = Recovered[s]
    <3>1. ASSUME NEW c \in Conns, Client(c) \/ Handler(c)  PROVE disk' = disk
      BY <3>1, OneConnSteps
    <3>2. ASSUME NEW p \in Queries, Turn(p) \/ TurnDies(p)
          PROVE  \/ disk'[s] = disk[s] \/ disk'[s] = Torn
                 \/ store[s] # None /\ disk'[s] = store[s]
      BY <2>1, <3>2, TurnStores
    <3>3. CASE Going
      BY <2>1, <3>3, GoingStores
    <3>4. CASE Exit
      BY <3>4 DEF Exit
    <3>5. CASE Crash
      BY <2>1, <3>5, CrashFiles
    <3> QED  BY <3>1, <3>2, <3>3, <3>4, <3>5, EndCases
  <2>3. s \in Loaded => Has(Recovered[s], es)
    BY <2>1, RecoveredKeeps DEF Loaded
  <2>4. disk'[s] = Torn \/ Has(disk'[s], es)
    BY <2>1, <2>2, <2>3
  <2> QED  BY <1>2, <2>0, <2>4
\* What a turn has just written.
<1>3. ASSUME NEW q \in Queries, Turn(q) \/ TurnDies(q), ~Written(q), Written(q)',
             query'[q].sid \notin deleted'
      PROVE  Has(disk'[query'[q].sid], AnswersOf(q)')
  <2>1. SaveTurn(q)
    <3>1. AnswerForm(q)
      BY DEF AnswerForms
    <3>2. ~PostGet(q) /\ ~PostPut(q)
      BY <1>3, <3>1, AnswerSteps DEF AnswerForm, Written
    <3>3. \A blocks \in 1..MaxBlocks : ~FinalAnswer(q, blocks)
      BY <1>3, <3>1, AnswerSteps DEF AnswerForm, Early, Written
    <3>4. ~SaveTurn(q) => (Written(q)' => Written(q))
      BY <1>3, <3>2, <3>3, OtherTurnSteps DEF Written
    <3> QED  BY <1>3, <3>4
  <2>2. /\ query'[q].tot = query[q].tot /\ query[q].blk = query[q].tot
        /\ query[q].pc = "posting"
    BY <2>1, AnswerSteps
  <2>3. query'[q].sid = query[q].sid /\ query[q].sid \notin deleted /\ query[q].sid \in Sessions
    BY <1>3, <2>2, TurnFields, TurnPhase DEF Taken, TypeOK
  <2>4. /\ store[query[q].sid] # None
        /\ AnswersOf(q) \subseteq store[query[q].sid].log
    BY <2>2, <2>3 DEF TurnsKept, TurnKept, Kept, Launched, Running, Blocking, AnswersOf, Said
  <2>5. disk'[query[q].sid] = store[query[q].sid]
    BY <1>3, <2>1, <2>3, AnswerSteps DEF Written
  <2>6. store[query[q].sid] \notin {None, Torn}
    BY <2>3, <2>4, AbsenceAssumption DEF TypeOK
  <2>7. AnswersOf(q)' = AnswersOf(q)
    BY <2>2 DEF AnswersOf
  <2> QED  BY <2>3, <2>4, <2>5, <2>6, <2>7
<1>4. ASSUME NEW q \in Queries, Written(q)'
      PROVE  \/ /\ Written(q) /\ query'[q].sid = query[q].sid /\ query'[q].tot = query[q].tot
             \/ ~Written(q) /\ (Turn(q) \/ TurnDies(q))
  <2> USE DEF Written
  <2> DEFINE Goal == \/ Written(q) /\ query'[q].sid = query[q].sid /\ query'[q].tot = query[q].tot
                     \/ ~Written(q) /\ (Turn(q) \/ TurnDies(q))
  <2>1. ASSUME NEW c \in Conns, Client(c) \/ Handler(c)  PROVE Goal
    BY <1>0, <1>4, <2>1, ClientFrame DEF Early
  <2>2. ASSUME NEW p \in Queries \ {q}, Turn(p) \/ TurnDies(p)  PROVE query'[q] = query[q]
    BY <2>2, TurnFrame
  <2>3. CASE Turn(q) \/ TurnDies(q)
    <3>1. query'[q].sid = query[q].sid
      BY <2>3, TurnFields
    <3>2. Written(q) => query'[q].tot = query[q].tot
      BY <1>0, <2>3, OtherTurnSteps, AnswerSteps DEF Early
    <3> QED  BY <2>3, <3>1, <3>2
  <2>4. ASSUME Going  PROVE Goal
    BY <1>4, <2>4, GoingFrame DEF SameButReply
  <2>5. ASSUME Exit \/ Crash  PROVE Goal
    <3>1. ProcessEnds
      BY <2>5 DEF Exit, Crash
    <3>2. Written(q) /\ query'[q].tot = query[q].tot
      BY <1>4, <3>1, EndsFrame
    <3>3. query[q].pc # "unused"
      BY <1>0, <3>2 DEF Early
    <3>4. query'[q] = [query[q] EXCEPT !.pc = "past", !.copy = None]
      BY <3>1, <3>3 DEF ProcessEnds
    <3>5. query'[q].sid = query[q].sid
      BY <3>4 DEF TypeOK, QueryState
    <3> QED  BY <3>2, <3>5
  <2>6. ASSUME NEW p \in Queries, Turn(p) \/ TurnDies(p)
        PROVE  \/ query'[q] = query[q]
               \/ Turn(q) \/ TurnDies(q)
    BY <2>2, <2>6
  <2>7. CASE query'[q] = query[q]
    BY <1>4, <2>7
  <2>8. ASSUME NEW p \in Queries, Turn(p) \/ TurnDies(p)  PROVE Goal
    BY <2>3, <2>6, <2>7, <2>8
  <2> HIDE DEF Goal
  <2>9. Goal
    BY <2>1, <2>4, <2>5, <2>8, EndCases
  <2> QED  BY <2>9 DEF Goal
<1>5. ASSUME NEW q \in Queries, Written(q)', query'[q].sid \notin deleted'
      PROVE  disk'[query'[q].sid] = Torn \/ Has(disk'[query'[q].sid], AnswersOf(q)')
  BY <1>2, <1>3, <1>4, <1>5
<1> QED  BY <1>5 DEF AnsweredIsDurable, Written

\* A turn whose save went through stays in its file (AnsweredIsDurable of
\* SessionProperties), if the client waits and aborts nothing: whatever saves
\* fail, whatever is killed or restarted, and whatever is done to the session
\* by later turns.
THEOREM AnswersAreDurable ==
    ASSUME Patient, "abort" \notin Ops
    PROVE  Spec => []AnsweredIsDurable
<1> DEFINE Forms == AnswerForms /\ ConnsKept /\ PutsNoneBack /\ TurnsKept /\ AnsweredIsDurable
<1>1. Init => Forms
  BY DEF Init, AnswerForms, AnswerForm, Early, ConnsKept, PutsNoneBack, TurnsKept, TurnKept,
         Written, Holding, Launched, Spawned, Running, Blocking, AnsweredIsDurable, NewConn,
         UnusedQuery
<1>2. /\ TypeOK /\ HeldIsAccepted /\ Taken /\ DownIsEmpty /\ CopiesHaveAll /\ Forms /\ [Next]_vars
      => Forms'
  <2> SUFFICES ASSUME TypeOK, HeldIsAccepted, Taken, DownIsEmpty, CopiesHaveAll, Forms, [Next]_vars
               PROVE  Forms'
    OBVIOUS
  <2>1. CASE UNCHANGED vars
    BY <2>1 DEF vars, times, disks, AnswerForms, AnswerForm, ConnsKept, PutsNoneBack, TurnsKept,
                TurnKept, Kept, KeptIfThere, Written, Holding, AnsweredIsDurable, AnswersOf
  <2>2. CASE Next
    BY <2>2, AnswerFormsInductive, ConnsKeptInductive, PutsNoneBackInductive, TurnsKeptInductive,
       DurableInductive
  <2> QED  BY <2>1, <2>2
<1> QED  BY <1>1, <1>2, HeldAlways, KnownAlways, CopiesAlways, PTL DEF Spec

-----------------------------------------------------------------------------
(***************************************************************************)
(* The server as an implementation of Histories.  A copy in hand is the    *)
(* session as it is, and one message more; a message is said when its copy *)
(* is put, and nobody has it before.                                       *)
(***************************************************************************)

HandAdds ==
    \A c \in Conns : conn[c].pc = "writing" =>
        /\ conn[c].op \in {"user", "fork"}
        /\ conn[c].op = "user" =>
               /\ conn[c].at \in Live /\ query[conn[c].q].sid = conn[c].at
               /\ conn[c].copy.log = store[conn[c].at].log \cup {[q |-> conn[c].q, n |-> 0]}
        /\ conn[c].op = "fork" => conn[c].at \notin Live

\* What a turn has put is in its session, in order, while there is one.
TurnAdds(q) ==
    /\ query[q].tot <= MaxBlocks
    /\ query[q].pc = "posting" => query[q].blk <= query[q].tot
    /\ query[q].pc = "writing" =>
           /\ query[q].blk < query[q].tot
           /\ query[q].sid \in Live
           /\ query[q].copy.log = store[query[q].sid].log \cup {[q |-> q, n |-> query[q].blk + 1]}
    /\ query[q].pc \in Launched /\ query[q].sid \in Live =>
           Said(q, query[q].blk) \subseteq store[query[q].sid].log

TurnsAdd == \A q \in Queries : TurnAdds(q)

\* Messages that their query has put.
WereSaid(log) ==
    \A m \in log : query[m.q].pc \notin {"unused", "accepted"} /\ m.n <= query[m.q].blk

NothingUnsaid ==
    /\ \A s \in Live : WereSaid(store[s].log)
    /\ \A s \in Loaded : WereSaid(disk[s].log)
    /\ \A c \in Forking : WereSaid(conn[c].copy.log)

HistoryInv == HandAdds /\ TurnsAdd /\ NothingUnsaid

\* Nobody but the connection that takes a step has one open.
LEMMA OthersClosed ==
    ASSUME Patient, TypeOK, OneOpen, NEW c \in Conns, Client(c) \/ Handler(c),
           NEW d \in Conns \ {c}
    PROVE  conn'[d] = conn[d] /\ conn[d].pc \in {"new", "closed"}
<1>1. ~Open(d)
  <2>1. CASE Open(c)
    BY <2>1 DEF OneOpen
  <2>2. CASE Connect(c) \/ ConnectToNone(c)
    BY <2>2 DEF Connect, ConnectToNone, MayOpen, Open
  <2> QED  BY <2>1, <2>2, OneConnSteps
<1> QED  BY <1>1, OneConnSteps DEF Open

Takes(c, q) ==
    /\ conn[c].pc = "ready" /\ query[q].pc = "unused" /\ conn[c].sid \in Live
    /\ store' = store /\ used' = used
    /\ query'[q].pc = "accepted" /\ query'[q].sid = conn[c].sid
    /\ conn'[c].pc = "writing" /\ conn'[c].op = "user"
    /\ conn'[c].at = conn[c].sid /\ conn'[c].q = q
    /\ conn'[c].copy.log = store[conn[c].sid].log \cup {[q |-> q, n |-> 0]}

Forked(c, source, target) ==
    /\ conn[c].pc = "ready" /\ source \in Live /\ target \in Sessions \ used
    /\ store' = store /\ used' = used \cup {target}
    /\ conn'[c].pc = "writing" /\ conn'[c].op = "fork" /\ conn'[c].at = target
    /\ conn'[c].copy.log = store[source].log

Puts(c) ==
    /\ conn[c].pc = "writing" /\ conn'[c].pc # "writing"
    /\ store' = [store EXCEPT ![conn[c].at] = conn[c].copy] /\ used' = used
    /\ conn[c].op = "user" => query'[conn[c].q].pc = "spawned"

Created(s) ==
    /\ s \in Sessions \ used /\ used' = used \cup {s}
    /\ store' = [store EXCEPT ![s] = NewSession]

\* What a connection does to the histories, where sessions are only talked to,
\* forked, made and deleted.
LEMMA ConnMoves ==
    ASSUME TypeOK, HeldIsAccepted, "abort" \notin Ops, "mode" \notin Ops,
           NEW c \in Conns, Client(c) \/ Handler(c)
    PROVE  \/ \E q \in Queries : Takes(c, q)
           \/ \E source, target \in Sessions : Forked(c, source, target)
           \/ Puts(c)
           \/ /\ conn[c].pc # "writing" /\ conn'[c].pc # "writing"
              /\ (store' = store /\ used' = used) \/ \E s \in Sessions : Created(s)
<1> DEFINE Idle == /\ conn[c].pc # "writing" /\ conn'[c].pc # "writing"
                   /\ (store' = store /\ used' = used) \/ \E s \in Sessions : Created(s)
<1>0. conn \in [Conns -> ConnState] /\ query \in [Queries -> QueryState]
  BY DEF TypeOK
<1>1. ASSUME NEW q \in Queries, UserMessage(c, q), conn[c].sid \in Live  PROVE Takes(c, q)
  <2> DEFINE s == conn[c].sid
             copy == [store[s] EXCEPT !.status = "Active", !.log = @ \cup {[q |-> q, n |-> 0]}]
  <2>1. copy.log = store[s].log \cup {[q |-> q, n |-> 0]}
    BY <1>1 DEF TypeOK, Session
  <2>2. Holds(c, "user", s, copy, q) /\ Accept(q, c, "accepted")
    BY <1>1 DEF UserMessage
  <2> HIDE DEF copy
  <2>3. /\ conn'[c].pc = "writing" /\ conn'[c].op = "user" /\ conn'[c].at = s
        /\ conn'[c].copy = copy /\ conn'[c].q = q
    BY <2>2, HoldsFields
  <2>4. query'[q].pc = "accepted" /\ query'[q].sid = s
    BY <1>0, <2>2 DEF Accept, QueryState
  <2>5. conn[c].pc = "ready" /\ query[q].pc = "unused" /\ store' = store /\ used' = used
    BY <1>1 DEF UserMessage, disks
  <2> QED  BY <1>1, <2>1, <2>3, <2>4, <2>5 DEF Takes
<1>2. ASSUME NEW q \in Queries, UserMessage(c, q), conn[c].sid \notin Live  PROVE Idle
  BY <1>2 DEF UserMessage, disks
<1>3. ASSUME NEW source \in Sessions, NEW target \in Sessions, Fork(c, source, target)
      PROVE  Forked(c, source, target)
  <2> DEFINE copy == [store[source] EXCEPT !.status = "Idle", !.updated = clock]
  <2>1. copy.log = store[source].log
    BY <1>3 DEF Fork, TypeOK, Session
  <2>2. Holds(c, "fork", target, copy, None)
    BY <1>3 DEF Fork
  <2> HIDE DEF copy
  <2> QED  BY <1>3, <2>1, <2>2, HoldsFields DEF Fork, Forked
<1>4. CASE PutBack(c)
  <2>1. conn'[c].pc # "writing"
    BY <1>0, <1>4 DEF PutBack, NewConn
  <2>2. conn[c].op = "user" => query'[conn[c].q].pc = "spawned"
    BY <1>0, <1>4 DEF PutBack, HeldIsAccepted, Holding, QueryState
  <2> QED  BY <1>4, <2>1, <2>2 DEF PutBack, Puts, disks
<1>5. CASE ConnectCreates(c)
  <2>1. PICK s \in Sessions :
          /\ Create(s) /\ conn' = [conn EXCEPT ![c] = [@ EXCEPT !.pc = "ready", !.sid = s]]
    BY <1>5 DEF ConnectCreates
  <2>2. conn'[c].pc # "writing"
    BY <1>0, <2>1 DEF ConnState
  <2> QED  BY <1>5, <2>1, <2>2 DEF ConnectCreates, Create, Created
<1>6. CASE Connect(c) \/ ConnectToNone(c) \/ Disconnect(c) \/ SignalAbort(c)
  BY <1>0, <1>6 DEF Connect, ConnectToNone, Disconnect, SignalAbort, disks, ConnState
<1> QED
  BY <1>1, <1>2, <1>3, <1>4, <1>5, <1>6 DEF Client, Handler, Abort, ChangeMode

\* A query that has put its first message has put it for good.
LEMMA SaysOn ==
    ASSUME TypeOK, HeldIsAccepted, Next, NEW q \in Queries,
           query[q].pc \notin {"unused", "accepted"}
    PROVE  /\ query'[q].pc \notin {"unused", "accepted"}
           /\ query'[q].blk \in Nat /\ query[q].blk <= query'[q].blk
<1>0. query[q].blk \in Nat
  BY DEF TypeOK, QueryState
<1>1. ASSUME NEW c \in Conns, Client(c) \/ Handler(c)
      PROVE  query'[q].pc = query[q].pc /\ query'[q].blk = query[q].blk
  BY <1>1, ClientFrame
<1>2. CASE Turn(q) \/ TurnDies(q)
  <2>1. query'[q].pc \notin {"unused", "accepted"}
    <3>1. Cleanup(q) => query'[q].pc = "done"
      BY DEF Cleanup, TypeOK, QueryState
    <3> QED  BY <1>2, <3>1, TurnFields DEF Running, Blocking
  <2>2. query'[q].blk = query[q].blk \/ query'[q].blk = query[q].blk + 1
    BY <1>2, OtherTurnSteps, AnswerSteps
  <2> QED  BY <1>0, <2>1, <2>2
<1>3. ASSUME NEW p \in Queries \ {q}, Turn(p) \/ TurnDies(p)  PROVE query'[q] = query[q]
  BY <1>3, TurnFrame
<1>4. CASE Going
  BY <1>0, <1>4, GoingFrame DEF SameButReply
<1>5. CASE ProcessEnds
  <2>1. query'[q] = [query[q] EXCEPT !.pc = "past", !.copy = None]
    BY <1>5 DEF ProcessEnds
  <2> QED  BY <1>0, <2>1 DEF TypeOK, QueryState
<1>6. ASSUME NEW p \in Queries, Turn(p) \/ TurnDies(p)
      PROVE  query'[q] = query[q] \/ Turn(q) \/ TurnDies(q)
  BY <1>3, <1>6
<1> QED  BY <1>0, <1>1, <1>2, <1>4, <1>5, <1>6, NextCases

LEMMA StillSaid ==
    ASSUME TypeOK, HeldIsAccepted, Next, NEW log \in SUBSET Entry, WereSaid(log)
    PROVE  \A m \in log : query'[m.q].pc \notin {"unused", "accepted"} /\ m.n <= query'[m.q].blk
<1> SUFFICES ASSUME NEW m \in log
             PROVE  query'[m.q].pc \notin {"unused", "accepted"} /\ m.n <= query'[m.q].blk
  OBVIOUS
<1>1. m.q \in Queries /\ m.n \in Nat
  BY DEF Entry
<1>2. query[m.q].pc \notin {"unused", "accepted"} /\ m.n <= query[m.q].blk
  BY DEF WereSaid
<1>3. /\ query'[m.q].pc \notin {"unused", "accepted"}
      /\ query'[m.q].blk \in Nat /\ query[m.q].blk <= query'[m.q].blk
  BY <1>1, <1>2, SaysOn
<1>4. query[m.q].blk \in Nat
  BY <1>1 DEF TypeOK, QueryState
<1> QED  BY <1>1, <1>2, <1>3, <1>4

\* The log of a session, and what is said in each.
LEMMA LogType ==
    ASSUME TypeOK
    PROVE  /\ \A s \in Live : store[s] \in Session /\ store[s].log \in SUBSET Entry
           /\ \A s \in Loaded : disk[s] \in Session /\ disk[s].log \in SUBSET Entry
           /\ \A s \in Live : store[s] \notin {None, Torn}
<1>1. /\ \A s \in Live : store[s] \in Session
      /\ \A s \in Loaded : disk[s] \in Session
  BY DEF TypeOK, Loaded
<1> QED  BY <1>1, AbsenceAssumption DEF Session

LEMMA ConnHistory ==
    ASSUME Patient, "abort" \notin Ops, "mode" \notin Ops, TypeOK, HeldIsAccepted, AnswerForms,
           Taken, OneOpen, WritersAlone, CopiesHaveAll, HistoryInv, Next,
           NEW c \in Conns, Client(c) \/ Handler(c)
    PROVE  HistoryInv'
<1> USE DEF HistoryInv
<1>0. /\ \A d \in Conns \ {c} : conn'[d] = conn[d] /\ conn[d].pc \in {"new", "closed"}
      /\ disk' = disk /\ conn'[c] \in ConnState
  <2>1. conn' \in [Conns -> ConnState]
    BY ClientType DEF TypeOK
  <2> QED  BY <2>1, OthersClosed, OneConnSteps
<1>1. \A s \in Sessions \ used : store[s] = None
  BY DEF Taken
<1>2. /\ Puts(c) => conn[c].at \in Sessions /\ conn[c].copy \in Session
      /\ Puts(c) /\ conn[c].op = "user" => /\ conn[c].q \in Queries
                                           /\ query[conn[c].q].pc = "accepted"
      /\ NewSession.log = {} /\ NewSession # None
  BY NewIsSession
  DEF Puts, Taken, TypeOK, CopiesHaveAll, HasAll, HeldIsAccepted, Holding, NewSession
\* The copy in hand.
<1>3. HandAdds'
  <2>1. ASSUME NEW q \in Queries, Takes(c, q)  PROVE HandAdds'
    BY <1>0, <2>1 DEF HandAdds, Takes
  <2>2. ASSUME NEW source \in Sessions, NEW target \in Sessions, Forked(c, source, target)
        PROVE  HandAdds'
    BY <1>0, <1>1, <2>2 DEF HandAdds, Forked
  <2>3. CASE conn'[c].pc # "writing"
    BY <1>0, <2>3 DEF HandAdds
  <2> QED  BY <2>1, <2>2, <2>3, ConnMoves DEF Puts
\* The turns.
<1>4. ASSUME NEW q \in Queries  PROVE TurnAdds(q)'
  <2>0. /\ TurnAdds(q)
        /\ query'[q].copy = query[q].copy /\ query'[q].blk = query[q].blk
        /\ query'[q].tot = query[q].tot
    BY ClientFrame DEF TurnsAdd
  <2>1. CASE query'[q].pc = query[q].pc /\ query'[q].sid = query[q].sid
    <3>1. CASE query[q].pc \in Launched
      <4>1. query[q].sid \in used /\ query[q].sid \in Sessions
        BY <3>1 DEF Taken, TypeOK, Launched, Spawned, Running, Blocking
      <4>2. conn[c].pc = "writing" => query[q].sid # conn[c].at
        BY <3>1 DEF WritersAlone
      <4>3. store'[query[q].sid] = store[query[q].sid]
        BY <4>1, <4>2, ConnStores
      <4> QED  BY <2>0, <2>1, <4>1, <4>3 DEF TurnAdds
    <3>2. CASE query[q].pc \notin Launched
      BY <2>0, <2>1, <3>2 DEF TurnAdds, Launched, Running, Blocking
    <3> QED  BY <3>1, <3>2
  <2>2. CASE query'[q].pc \in {"unused", "accepted"}
    BY <2>0, <2>2 DEF TurnAdds, Launched, Spawned, Running, Blocking
  <2>3. CASE query[q].pc = "unused" /\ query'[q].pc = "spawned" /\ UserMessage(c, q)
    <3>1. conn[c].sid \notin Live /\ Accept(q, c, "spawned") /\ store' = store
      BY <2>3 DEF UserMessage, Accept, TypeOK, QueryState
    <3>2. query'[q].sid = conn[c].sid
      BY <3>1 DEF Accept, TypeOK, QueryState
    <3> QED  BY <2>0, <2>3, <3>1, <3>2 DEF TurnAdds
  <2>4. CASE query[q].pc = "accepted" /\ query'[q].pc = "spawned"
    <3>1. PutBack(c) /\ Holding(c) /\ conn[c].q = q
      BY <2>4, SpawnedBy
    <3>2. query'[q].sid = query[q].sid
      BY <2>4, ClientFrame
    <3>3. /\ query[q].sid = conn[c].at /\ conn[c].at \in Sessions
          /\ store'[conn[c].at] = conn[c].copy
          /\ conn[c].copy.log = store[conn[c].at].log \cup {[q |-> q, n |-> 0]}
      BY <3>1 DEF HandAdds, Holding, PutBack, Taken, TypeOK
    <3>4. query[q].blk = 0
      BY <2>4 DEF AnswerForms, AnswerForm, Early
    <3>5. Said(q, 0) \subseteq store'[query'[q].sid].log
      BY <3>2, <3>3, SaidMore
    <3> QED  BY <2>0, <2>4, <3>4, <3>5 DEF TurnAdds
  <2> QED  BY <2>1, <2>2, <2>3, <2>4, ClientFrame
\* What was said.
<1> DEFINE Heard(log) ==
      \A m \in log : query'[m.q].pc \notin {"unused", "accepted"} /\ m.n <= query'[m.q].blk
<1>5. /\ \A s \in Live : Heard(store[s].log)
      /\ \A s \in Loaded : Heard(disk[s].log)
      /\ \A d \in Forking : Heard(conn[d].copy.log)
  <2>1. \A d \in Forking : conn[d].copy.log \in SUBSET Entry
    BY DEF Forking, CopiesHaveAll, HasAll, Session
  <2> QED  BY <2>1, LogType, StillSaid DEF NothingUnsaid
<1>6. ASSUME Puts(c)  PROVE Heard(conn[c].copy.log)
  <2>1. CASE conn[c].op = "user"
    <3> DEFINE q == conn[c].q
    <3>1. /\ conn[c].copy.log = store[conn[c].at].log \cup {[q |-> q, n |-> 0]}
          /\ conn[c].at \in Live
      BY <1>6, <2>1 DEF HandAdds, Puts
    <3>2. query'[q].pc = "spawned" /\ query'[q].blk = query[q].blk /\ query[q].blk \in Nat
      BY <1>2, <1>6, <2>1, ClientFrame DEF Puts, TypeOK, QueryState
    <3> HIDE DEF q
    <3>3. \A m \in {[q |-> q, n |-> 0]} :
             query'[m.q].pc \notin {"unused", "accepted"} /\ m.n <= query'[m.q].blk
      BY <3>2
    <3> QED  BY <1>5, <3>1, <3>3
  <2>2. CASE conn[c].op = "fork"
    BY <1>5, <1>6, <2>2 DEF Forking, Puts
  <2> QED  BY <1>6, <2>1, <2>2 DEF HandAdds, Puts
<1>7. ASSUME NEW s \in Sessions, store'[s] # None  PROVE Heard(store'[s].log)
  <2>1. CASE store'[s] = store[s]
    BY <1>5, <1>7, <2>1
  <2>2. CASE store'[s] = NewSession
    BY <1>2, <2>2
  <2>3. CASE PutBack(c) /\ conn[c].pc = "writing" /\ store'[s] = conn[c].copy
    <3>1. ~(\E q \in Queries : Takes(c, q)) /\ ~(\E t, u \in Sessions : Forked(c, t, u))
      BY <2>3 DEF Takes, Forked
    <3>2. Puts(c)
      BY <2>3, <3>1, ConnMoves
    <3> QED  BY <1>6, <2>3, <3>2
  <2> QED  BY <2>1, <2>2, <2>3, ConnStores
<1>8. ASSUME NEW d \in Forking'  PROVE Heard(conn'[d].copy.log)
  <2>1. d = c
    BY <1>0, <1>8 DEF Forking
  <2>2. PICK source \in Sessions, target \in Sessions : Forked(c, source, target)
    BY <1>8, <2>1, ConnMoves DEF Forking, Takes, Puts
  <2> QED  BY <1>5, <2>1, <2>2 DEF Forked
<1>9. NothingUnsaid'
  <2>1. Loaded' = Loaded
    BY <1>0 DEF Loaded
  <2> QED  BY <1>0, <1>5, <1>7, <1>8, <2>1 DEF NothingUnsaid, WereSaid
<1> QED  BY <1>3, <1>4, <1>9 DEF TurnsAdd

\* A step of its own.
LEMMA OwnTurnAdds ==
    ASSUME TypeOK, AnswerForms, Taken, NEW q \in Queries, TurnAdds(q), Turn(q) \/ TurnDies(q)
    PROVE  TurnAdds(q)'
<1>1. /\ query'[q].sid = query[q].sid /\ query[q].pc \in Launched
      /\ query[q].sid \in Sessions
  BY TurnFrame, TurnFields DEF Launched, Spawned, Running, Blocking, Taken, TypeOK
<1>2. PICK k \in Nat, n \in Nat : query[q].blk = k /\ query[q].tot = n
  BY DEF TypeOK, QueryState
<1>3. query[q].sid \in Live => Said(q, k) \subseteq store[query[q].sid].log
  BY <1>1, <1>2 DEF TurnAdds
<1>4. AnswerForm(q) /\ n <= MaxBlocks
  BY <1>2 DEF AnswerForms, TurnAdds
<1>5. ~PostPut(q) => store'[query[q].sid] = store[query[q].sid]
  BY <1>1, TurnStores
<1>6. ASSUME NEW blocks \in 1..MaxBlocks, FinalAnswer(q, blocks)  PROVE TurnAdds(q)'
  <2>1. k = 0 /\ query'[q].pc = "posting" /\ query'[q].blk = k /\ query'[q].tot = blocks
    BY <1>2, <1>4, <1>6, AnswerSteps DEF AnswerForm, Early
  <2>2. ~PostPut(q)
    BY <1>6 DEF FinalAnswer, StreamGoesOn, PostPut
  <2>3. blocks <= MaxBlocks /\ 0 <= blocks
    BY ConstantsAssumption
  <2> QED  BY <1>1, <1>3, <1>5, <2>1, <2>2, <2>3 DEF TurnAdds
<1>7. CASE PostGet(q)
  <2>1. query[q].pc = "posting" /\ k < n /\ query'[q].tot = n /\ ~PostPut(q)
    BY <1>2, <1>7, AnswerSteps DEF PostPut
  <2>2. CASE query[q].sid \in Live
    <3>1. /\ query'[q].pc = "writing" /\ query'[q].blk = k
          /\ query'[q].copy.log = store[query[q].sid].log \cup {[q |-> q, n |-> k + 1]}
      BY <1>2, <1>7, <2>2, AnswerSteps
    <3> QED  BY <1>1, <1>3, <1>4, <1>5, <2>1, <2>2, <3>1 DEF TurnAdds
  <2>3. CASE query[q].sid \notin Live
    <3>1. query'[q].pc = "posting" /\ query'[q].blk = k + 1
      BY <1>2, <1>7, <2>3, AnswerSteps
    <3> QED  BY <1>1, <1>4, <1>5, <2>1, <2>3, <3>1 DEF TurnAdds
  <2> QED  BY <2>2, <2>3
<1>8. CASE PostPut(q)
  <2>1. /\ query[q].pc = "writing" /\ query'[q].pc = "posting" /\ query'[q].blk = k + 1
        /\ query'[q].tot = n /\ store'[query[q].sid] = query[q].copy
    BY <1>1, <1>2, <1>8, AnswerSteps
  <2>2. /\ k < n /\ query[q].sid \in Live
        /\ query[q].copy.log = store[query[q].sid].log \cup {[q |-> q, n |-> k + 1]}
    BY <1>2, <2>1 DEF TurnAdds
  <2>3. Said(q, k + 1) \subseteq query[q].copy.log
    BY <1>3, <2>2, SaidMore
  <2> QED  BY <1>1, <1>4, <2>1, <2>2, <2>3 DEF TurnAdds
<1>9. CASE SaveTurn(q)
  <2>1. query'[q].pc = "returned" /\ query'[q].blk = k /\ query'[q].tot = n /\ ~PostPut(q)
    BY <1>2, <1>9, AnswerSteps DEF PostPut
  <2> QED  BY <1>1, <1>3, <1>4, <1>5, <2>1 DEF TurnAdds
<1>10. CASE /\ ~PostGet(q) /\ ~PostPut(q) /\ ~SaveTurn(q)
            /\ \A blocks \in 1..MaxBlocks : ~FinalAnswer(q, blocks)
  <2>1. /\ query'[q].blk = k /\ query'[q].tot = n
        /\ query'[q].pc # "writing"
        /\ query'[q].pc = "posting" => query[q].pc = "streaming"
    BY <1>2, <1>10, OtherTurnSteps
  <2>2. query[q].pc = "streaming" => k = 0 /\ n = 0
    BY <1>2, <1>4 DEF AnswerForm, Early
  <2> QED  BY <1>1, <1>3, <1>4, <1>5, <1>10, <2>1, <2>2 DEF TurnAdds
<1> QED  BY <1>6, <1>7, <1>8, <1>9, <1>10

LEMMA TurnHistory ==
    ASSUME TypeOK, HeldIsAccepted, AnswerForms, Taken, OneInFlight, WritersAlone, CopiesHaveAll,
           HistoryInv, Next, NEW q \in Queries, Turn(q) \/ TurnDies(q)
    PROVE  HistoryInv'
<1> USE DEF HistoryInv
<1>1. /\ conn' = conn /\ \A p \in Queries \ {q} : query'[p] = query[p]
      /\ query[q].pc \in Launched
      /\ \A p \in Queries : query'[p].sid = query[p].sid
  BY TurnFrame, TurnFields DEF Launched
<1>2. \A s \in Sessions : s # query[q].sid => store'[s] = store[s]
  BY TurnStores
<1>3. HandAdds'
  <2> SUFFICES ASSUME NEW c \in Conns, conn[c].pc = "writing"
               PROVE  store'[conn[c].at] = store[conn[c].at] /\ conn[c].at \in Sessions
                      /\ (conn[c].op = "user" => conn[c].q \in Queries)
    BY <1>1 DEF HandAdds
  <2>1. conn[c].at # query[q].sid /\ conn[c].at \in Sessions
    BY <1>1 DEF WritersAlone, Taken, TypeOK
  <2> QED  BY <1>2, <2>1 DEF HeldIsAccepted, Holding
<1>4. ASSUME NEW p \in Queries  PROVE TurnAdds(p)'
  <2>1. CASE p = q
    BY <2>1, OwnTurnAdds DEF TurnsAdd
  <2>2. CASE p # q
    <3>1. query'[p] = query[p]
      BY <1>1, <2>2
    <3>2. query[p].pc \in Launched =>
             query[p].sid \in Sessions /\ store'[query[p].sid] = store[query[p].sid]
      BY <1>1, <1>2, <2>2
      DEF OneInFlight, InFlight, Launched, Spawned, Running, Blocking, Taken, TypeOK
    <3> QED  BY <3>1, <3>2 DEF TurnsAdd, TurnAdds, Launched, Running, Blocking
  <2> QED  BY <2>1, <2>2
<1> DEFINE Heard(log) ==
      \A m \in log : query'[m.q].pc \notin {"unused", "accepted"} /\ m.n <= query'[m.q].blk
<1>5. /\ \A s \in Live : Heard(store[s].log)
      /\ \A s \in Loaded : Heard(disk[s].log)
      /\ \A c \in Forking : Heard(conn[c].copy.log)
  <2>1. \A c \in Forking : conn[c].copy.log \in SUBSET Entry
    BY DEF Forking, CopiesHaveAll, HasAll, Session
  <2> QED  BY <2>1, LogType, StillSaid DEF NothingUnsaid
<1>6. ASSUME PostPut(q)  PROVE Heard(query[q].copy.log)
  <2>1. /\ query[q].pc = "writing" /\ query'[q].pc = "posting"
        /\ query'[q].blk = query[q].blk + 1
    BY <1>6, AnswerSteps
  <2>2. /\ query[q].copy.log = store[query[q].sid].log \cup {[q |-> q, n |-> query[q].blk + 1]}
        /\ query[q].sid \in Live /\ query[q].blk \in Nat
    BY <2>1 DEF TurnsAdd, TurnAdds, TypeOK, QueryState
  <2>3. \A m \in {[q |-> q, n |-> query[q].blk + 1]} :
           query'[m.q].pc \notin {"unused", "accepted"} /\ m.n <= query'[m.q].blk
    BY <2>1, <2>2
  <2> QED  BY <1>5, <2>2, <2>3
<1>7. ASSUME NEW s \in Sessions, store'[s] # None  PROVE Heard(store'[s].log)
  <2>1. store'[s] = store[s] \/ (PostPut(q) /\ store'[s] = query[q].copy)
    BY TurnStores
  <2> QED  BY <1>5, <1>6, <1>7, <2>1
<1>8. ASSUME NEW s \in Sessions, disk'[s] \notin {None, Torn}  PROVE Heard(disk'[s].log)
  <2>1. disk'[s] = disk[s] \/ (store[s] # None /\ disk'[s] = store[s])
    BY <1>8, TurnStores
  <2> QED  BY <1>5, <1>8, <2>1 DEF Loaded
<1>9. NothingUnsaid'
  BY <1>1, <1>5, <1>7, <1>8 DEF NothingUnsaid, WereSaid, Forking, Loaded
<1> QED  BY <1>3, <1>4, <1>9 DEF TurnsAdd

\* While the process lives, the world leaves alone the session of a query that
\* is under way, if who deletes waits, and the place of a fork.
LEMMA GoingKeepsBusy ==
    ASSUME Patient, TypeOK, Going, phase # "down", NEW s \in Sessions, s \in used,
           s \notin Live \/ \E q \in Queries : query[q].pc \in InFlight /\ query[q].sid = s
    PROVE  store'[s] = store[s]
<1>1. CASE \E t \in Sessions : DeleteSession(t)
  BY <1>1 DEF DeleteSession, Quiet, TypeOK
<1>2. CASE CreateSession
  BY <1>2 DEF CreateSession, Create, TypeOK
<1>3. ~Boot /\ ~CrashInBoot
  BY DEF Boot, CrashInBoot
<1>4. CASE (\E r \in knows : Answers(r)) \/ Tick \/ Stop \/ Drain
  BY <1>4 DEF Answers, Reply, Tick, Stop, Drain
<1> QED  BY <1>1, <1>2, <1>3, <1>4 DEF Going

LEMMA GoingHistory ==
    ASSUME Patient, TypeOK, HeldIsAccepted, Taken, DownIsEmpty, CopiesHaveAll, HistoryInv, Next,
           Going
    PROVE  HistoryInv'
<1> USE DEF HistoryInv
<1>1. /\ \A c \in Conns : conn'[c].pc = "closed" \/ conn'[c] = conn[c]
      /\ \A q \in Queries : SameButReply(q)
  BY GoingFrame
<1>2. HandAdds'
  <2> SUFFICES ASSUME NEW c \in Conns, conn'[c].pc = "writing"
               PROVE  /\ conn'[c] = conn[c] /\ conn[c].at \in Sessions
                      /\ store'[conn[c].at] = store[conn[c].at]
                      /\ conn[c].op = "user" => conn[c].q \in Queries
    BY <1>1 DEF HandAdds, SameButReply
  <2>1. conn'[c] = conn[c] /\ conn[c].pc = "writing"
    BY <1>1
  <2>2. conn[c].at \in used /\ conn[c].at \in Sessions /\ phase # "down"
    BY <2>1 DEF Taken, TypeOK, DownIsEmpty, Open
  <2>3. conn[c].op = "user" => /\ conn[c].q \in Queries
                               /\ query[conn[c].q].pc \in InFlight
                               /\ query[conn[c].q].sid = conn[c].at
    BY <2>1 DEF HeldIsAccepted, Holding, HandAdds, InFlight, InHandler
  <2>4. conn[c].op \in {"user", "fork"} /\ (conn[c].op = "fork" => conn[c].at \notin Live)
    BY <2>1 DEF HandAdds
  <2> QED  BY <2>1, <2>2, <2>3, <2>4, GoingKeepsBusy
<1>3. ASSUME NEW q \in Queries  PROVE TurnAdds(q)'
  <2>1. CASE query[q].pc \in Launched
    <3>1. query[q].sid \in used /\ query[q].sid \in Sessions /\ phase # "down"
      BY <2>1 DEF Taken, TypeOK, DownIsEmpty, Launched, Spawned, Running, Blocking
    <3>2. store'[query[q].sid] = store[query[q].sid]
      BY <2>1, <3>1, GoingKeepsBusy DEF InFlight, Launched
    <3> QED  BY <1>1, <3>1, <3>2 DEF TurnsAdd, TurnAdds, SameButReply
  <2>2. CASE query[q].pc \notin Launched
    BY <1>1, <2>2 DEF TurnsAdd, TurnAdds, SameButReply, Launched, Running, Blocking
  <2> QED  BY <2>1, <2>2
<1> DEFINE Heard(log) ==
      \A m \in log : query'[m.q].pc \notin {"unused", "accepted"} /\ m.n <= query'[m.q].blk
<1>4. /\ \A s \in Live : Heard(store[s].log)
      /\ \A s \in Loaded : Heard(disk[s].log)
      /\ \A c \in Forking : Heard(conn[c].copy.log)
  <2>1. \A c \in Forking : conn[c].copy.log \in SUBSET Entry
    BY DEF Forking, CopiesHaveAll, HasAll, Session
  <2> QED  BY <2>1, LogType, StillSaid DEF NothingUnsaid
<1>5. NewSession.log = {} /\ \A s \in Loaded : Recovered[s].log = disk[s].log
  BY RecoveredKeeps DEF NewSession
<1>6. ASSUME NEW s \in Sessions, store'[s] # None  PROVE Heard(store'[s].log)
  <2>1. \/ store'[s] = store[s]
        \/ store'[s] = NewSession
        \/ s \in Loaded /\ store'[s] = Recovered[s]
    BY <1>6, GoingStores
  <2> QED  BY <1>4, <1>5, <1>6, <2>1
<1>7. ASSUME NEW s \in Sessions, disk'[s] \notin {None, Torn}  PROVE Heard(disk'[s].log)
  <2>1. \/ disk'[s] = disk[s]
        \/ store[s] # None /\ disk'[s] = store[s]
        \/ s \in Loaded /\ disk'[s] = Recovered[s]
    BY <1>7, GoingStores
  <2> QED  BY <1>4, <1>5, <1>7, <2>1 DEF Loaded
<1>8. ASSUME NEW c \in Forking'  PROVE Heard(conn'[c].copy.log)
  <2>1. c \in Forking /\ conn'[c] = conn[c]
    BY <1>1, <1>8 DEF Forking
  <2> QED  BY <1>4, <2>1
<1>9. NothingUnsaid'
  BY <1>6, <1>7, <1>8 DEF NothingUnsaid, WereSaid, Loaded
<1> QED  BY <1>2, <1>3, <1>9 DEF TurnsAdd

LEMMA EndHistory ==
    ASSUME TypeOK, HeldIsAccepted, CopiesHaveAll, HistoryInv, Next, Exit \/ Crash
    PROVE  HistoryInv'
<1> USE DEF HistoryInv
<1>1. /\ \A c \in Conns : conn'[c].pc \in {"new", "closed"}
      /\ \A s \in Sessions : store'[s] = None
      /\ \A q \in Queries : query'[q].pc \in {"unused", "past"} /\ query'[q].tot = query[q].tot
  BY EndsFrame DEF Exit, Crash
<1> DEFINE Heard(log) ==
      \A m \in log : query'[m.q].pc \notin {"unused", "accepted"} /\ m.n <= query'[m.q].blk
<1>2. /\ \A s \in Live : Heard(store[s].log)
      /\ \A s \in Loaded : Heard(disk[s].log)
  BY LogType, StillSaid DEF NothingUnsaid
<1>3. ASSUME NEW s \in Sessions, disk'[s] \notin {None, Torn}  PROVE Heard(disk'[s].log)
  <2>1. disk'[s] = disk[s] \/ (store[s] # None /\ disk'[s] = store[s])
    BY <1>3, CrashFiles DEF Exit
  <2> QED  BY <1>2, <1>3, <2>1 DEF Loaded
<1>4. NothingUnsaid'
  BY <1>1, <1>3 DEF NothingUnsaid, WereSaid, Loaded, Forking
<1>5. TurnsAdd'
  BY <1>1 DEF TurnsAdd, TurnAdds, Launched, Spawned, Running, Blocking
<1> QED  BY <1>1, <1>4, <1>5 DEF HandAdds

-----------------------------------------------------------------------------
(***************************************************************************)
(* The steps, read as those of Histories.                                  *)
(***************************************************************************)

\* What a change of the store, or of the files, is to the histories.
LEMMA LogsWith ==
    ASSUME NEW s \in Sessions, store'[s] # None, NEW log, store'[s].log = log,
           \A t \in Sessions \ {s} : store'[t] = store[t]
    PROVE  Logs' = History!With(Logs, s, log)
<1>1. Live' = Live \cup {s}
  OBVIOUS
<1> QED  BY <1>1 DEF Logs, History!With

LEMMA LogsWithout ==
    ASSUME NEW s \in Sessions, store'[s] = None, \A t \in Sessions \ {s} : store'[t] = store[t]
    PROVE  Logs' = [t \in DOMAIN Logs \ {s} |-> Logs[t]]
<1>1. Live' = Live \ {s}
  OBVIOUS
<1> QED  BY <1>1 DEF Logs

LEMMA FilesSaved ==
    ASSUME TypeOK, NEW some \in SUBSET Live,
           \A s \in Sessions : disk'[s] = IF s \in some THEN store[s] ELSE disk[s]
    PROVE  Files' = History!Saved(some)
<1>1. Loaded' = Loaded \cup some
  BY LogType DEF Loaded
<1>2. DOMAIN Files = Loaded
  BY DEF Files
<1>3. \A s \in Loaded \cup some :
        disk'[s].log = IF s \in some THEN Logs[s] ELSE Files[s]
  BY DEF Files, Logs, Loaded
<1> QED  BY <1>1, <1>2, <1>3 DEF Files, History!Saved

LEMMA FilesKept ==
    ASSUME TypeOK,
           \A s \in Sessions : disk'[s] = disk[s] \/ (s \in Loaded /\ disk'[s] = Recovered[s])
    PROVE  Files' = Files
<1>1. \A s \in Loaded : Recovered[s] \notin {None, Torn} /\ Recovered[s].log = disk[s].log
  BY RecoveredKeeps
<1>2. Loaded' = Loaded
  BY <1>1 DEF Loaded
<1> QED  BY <1>1, <1>2 DEF Files, Loaded

LEMMA NobodyHas ==
    ASSUME TypeOK, NothingUnsaid, NEW q \in Queries, NEW n \in Nat,
           query[q].pc = "accepted" \/ query[q].blk < n
    PROVE  History!Unheard([q |-> q, n |-> n])
<1> DEFINE m == [q |-> q, n |-> n]
<1>1. ASSUME NEW log, WereSaid(log)  PROVE m \notin log
  <2>1. query[q].blk \in Nat
    BY DEF TypeOK, QueryState
  <2> QED  BY <1>1, <2>1 DEF WereSaid
<1>2. \A s \in DOMAIN Logs : m \notin Logs[s]
  BY <1>1 DEF Logs, NothingUnsaid
<1>3. \A f \in Forks : m \notin f.hist
  BY <1>1 DEF Forks, NothingUnsaid
<1>4. \A s \in DOMAIN Files : m \notin Files[s]
  BY <1>1 DEF Files, NothingUnsaid
<1> QED  BY <1>2, <1>3, <1>4 DEF History!Unheard

\* A message is said: its copy, put, is an Append.
LEMMA Says ==
    ASSUME TypeOK, NothingUnsaid, phase # "down", phase' # "down",
           UNCHANGED <<used, Forks, Files>>,
           NEW q \in Queries, NEW n \in 0..MaxBlocks,
           query[q].pc = "accepted" \/ query[q].blk < n,
           NEW s \in Live, n > 0 => [q |-> q, n |-> n - 1] \in store[s].log,
           store'[s] # None, store'[s].log = store[s].log \cup {[q |-> q, n |-> n]},
           \A t \in Sessions \ {s} : store'[t] = store[t]
    PROVE  History!Next
<1> DEFINE m == [q |-> q, n |-> n]
<1>1. Logs[s] = store[s].log /\ s \in DOMAIN Logs
  BY DEF Logs
<1>2. Logs' = History!With(Logs, s, Logs[s] \cup {m})
  BY <1>1, LogsWith
<1>3. History!Unheard(m)
  BY NobodyHas
<1>4. m.n > 0 => [m EXCEPT !.n = @ - 1] \in Logs[s]
  BY <1>1
<1>5. m \in History!Message
  BY DEF History!Message
<1> HIDE DEF m
<1>6. History!Append(s, m)
  BY <1>1, <1>2, <1>3, <1>4 DEF History!Append
<1> QED  BY <1>5, <1>6 DEF History!Next

LEMMA ConnStep ==
    ASSUME Patient, "abort" \notin Ops, "mode" \notin Ops, TypeOK, HeldIsAccepted, Taken, OneOpen,
           CopiesHaveAll, HistoryInv, NEW c \in Conns, Client(c) \/ Handler(c)
    PROVE  History!Next \/ UNCHANGED History!histVars
<1> USE DEF HistoryInv
<1>0. /\ \A d \in Conns \ {c} : conn'[d] = conn[d] /\ conn[d].pc \in {"new", "closed"}
      /\ Files' = Files /\ phase' = phase /\ phase # "down"
  BY OthersClosed, OneConnSteps DEF Files, Loaded
<1>1. /\ Forks = IF c \in Forking
                 THEN {[to |-> conn[c].at, hist |-> conn[c].copy.log]} ELSE {}
      /\ Forks' = IF c \in Forking'
                  THEN {[to |-> conn'[c].at, hist |-> conn'[c].copy.log]} ELSE {}
  <2>1. \A d \in Conns \ {c} : d \notin Forking /\ d \notin Forking'
    BY <1>0 DEF Forking
  <2> QED  BY <2>1 DEF Forks, Forking
<1>2. ASSUME NEW q \in Queries, Takes(c, q)  PROVE UNCHANGED History!histVars
  BY <1>0, <1>1, <1>2 DEF Takes, Forking, Logs, History!histVars
<1>3. ASSUME NEW source \in Sessions, NEW target \in Sessions, Forked(c, source, target)
      PROVE  History!Next
  <2>1. Forks' = Forks \cup {[to |-> target, hist |-> Logs[source]]}
    BY <1>1, <1>3 DEF Forked, Forking, Logs
  <2>2. History!TakeCopy(source, target)
    BY <1>0, <1>3, <2>1 DEF Forked, Logs, History!TakeCopy
  <2> QED  BY <2>2 DEF History!Next
<1>4. ASSUME Puts(c)  PROVE History!Next
  <2> DEFINE s == conn[c].at
             f == [to |-> s, hist |-> conn[c].copy.log]
  <2>1. /\ s \in Sessions /\ store'[s] = conn[c].copy /\ store'[s] # None /\ Forks' = {}
        /\ \A t \in Sessions \ {s} : store'[t] = store[t]
    BY <1>1, <1>4, AbsenceAssumption
    DEF Puts, Taken, TypeOK, CopiesHaveAll, HasAll, Forking
  <2>2. CASE conn[c].op = "user"
    <3> DEFINE q == conn[c].q
    <3>1. /\ q \in Queries /\ query[q].pc = "accepted" /\ s \in Live
          /\ store'[s].log = store[s].log \cup {[q |-> q, n |-> 0]}
      BY <1>4, <2>1, <2>2 DEF Puts, HeldIsAccepted, Holding, HandAdds
    <3>2. 0 \in 0..MaxBlocks /\ ~(0 > 0) /\ Forks = {}
      BY <1>1, <2>2, ConstantsAssumption DEF Forking
    <3>3. UNCHANGED <<used, Forks, Files>> /\ phase' # "down"
      BY <1>0, <1>4, <2>1, <3>2 DEF Puts
    <3>4. NothingUnsaid
      OBVIOUS
    <3> HIDE DEF q, s, HistoryInv
    <3> QED  BY <1>0, <2>1, <3>1, <3>2, <3>3, <3>4, Says
  <2>3. CASE conn[c].op = "fork"
    <3>1. s \notin DOMAIN Logs /\ Forks = {f}
      BY <1>1, <1>4, <2>3 DEF Puts, HandAdds, Logs, Forking
    <3>2. Logs' = History!With(Logs, f.to, f.hist)
      BY <2>1, LogsWith
    <3>3. Forks' = Forks \ {f}
      BY <2>1, <3>1
    <3>4. History!PutCopy(f)
      BY <1>0, <1>4, <3>1, <3>2, <3>3 DEF Puts, History!PutCopy
    <3> QED  BY <3>1, <3>4 DEF History!Next
  <2> QED  BY <1>4, <2>2, <2>3 DEF Puts, HandAdds
<1>5. ASSUME conn[c].pc # "writing", conn'[c].pc # "writing"  PROVE Forks' = Forks
  BY <1>1, <1>5 DEF Forking
<1>6. ASSUME conn[c].pc # "writing", conn'[c].pc # "writing", NEW s \in Sessions, Created(s)
      PROVE  History!Next
  <2>1. /\ store'[s] = NewSession /\ NewSession # None /\ NewSession.log = {}
        /\ \A t \in Sessions \ {s} : store'[t] = store[t]
    BY <1>6, NewIsSession DEF Created, TypeOK, NewSession
  <2>2. Logs' = History!With(Logs, s, {})
    BY <2>1, LogsWith
  <2>3. History!Create(s)
    BY <1>0, <1>5, <1>6, <2>2 DEF Created, History!Create
  <2> QED  BY <2>3 DEF History!Next
<1>7. ASSUME conn[c].pc # "writing", conn'[c].pc # "writing", store' = store, used' = used
      PROVE  UNCHANGED History!histVars
  BY <1>0, <1>5, <1>7 DEF Logs, History!histVars
<1> QED  BY <1>2, <1>3, <1>4, <1>6, <1>7, ConnMoves

LEMMA TurnStep ==
    ASSUME "torn" \notin Ops, TypeOK, AnswerForms, Taken, CopiesHaveAll, HistoryInv,
           NEW q \in Queries, Turn(q) \/ TurnDies(q)
    PROVE  History!Next \/ UNCHANGED History!histVars
<1> USE DEF HistoryInv
<1>0. /\ UNCHANGED <<used, Forks>> /\ phase' = phase /\ phase # "down"
      /\ query[q].sid \in Sessions /\ query[q].blk \in Nat /\ query[q].tot \in Nat
  BY TurnFrame, TurnPhase
  DEF Forks, Forking, Spawned, Running, Blocking, Taken, TypeOK, QueryState
<1>1. CASE PostPut(q)
  <2> DEFINE s == query[q].sid
             k == query[q].blk
  <2>1. /\ query[q].pc = "writing" /\ query[q].copy \in Session /\ query[q].copy # None
        /\ store'[s] = query[q].copy
    BY <1>0, <1>1, AnswerSteps, AbsenceAssumption DEF CopiesHaveAll, HasAll
  <2>2. /\ k < query[q].tot /\ query[q].tot <= MaxBlocks /\ s \in Live
        /\ store'[s].log = store[s].log \cup {[q |-> q, n |-> k + 1]}
        /\ Said(q, k) \subseteq store[s].log
    BY <2>1 DEF TurnsAdd, TurnAdds, Launched, Running, Blocking
  <2>3. /\ k + 1 \in 0..MaxBlocks /\ k < k + 1 /\ (k + 1) - 1 = k
        /\ [q |-> q, n |-> k] \in store[s].log
    BY <1>0, <2>2, ConstantsAssumption DEF Said
  <2>4. Files' = Files /\ \A t \in Sessions \ {s} : store'[t] = store[t]
    BY <1>1, TurnStores DEF PostPut, disks, Files, Loaded
  <2>5. UNCHANGED <<used, Forks, Files>> /\ phase' # "down" /\ NothingUnsaid
    BY <1>0, <2>4
  <2> HIDE DEF s, k, HistoryInv
  <2>6. PICK n \in 0..MaxBlocks : n = k + 1
    BY <2>3
  <2>7. /\ query[q].blk < n /\ [q |-> q, n |-> n - 1] \in store[s].log
        /\ store'[s].log = store[s].log \cup {[q |-> q, n |-> n]}
    BY <2>2, <2>3, <2>6 DEF k
  <2>8. History!Next
    BY <1>0, <2>1, <2>2, <2>4, <2>5, <2>7, Says
  <2> QED  BY <2>8
<1>2. CASE SaveTurn(q)
  <2> DEFINE ids == {query[q].sid} \cap Live
  <2>0. PICK failed \in SUBSET ids : SavedBut(ids, failed, store)
    BY <1>2 DEF SaveTurn, Save
  <2> DEFINE some == ids \ failed
  <2>1. \A s \in Sessions : disk'[s] = IF s \in some THEN store[s] ELSE disk[s]
    <3> HIDE DEF ids
    <3> QED  BY <2>0, SavedFile
  <2>2. store' = store
    BY <1>2 DEF SaveTurn
  <2>3. Logs' = Logs /\ some \in SUBSET DOMAIN Logs /\ some \in SUBSET Live
    BY <2>2 DEF Logs
  <2> HIDE DEF some
  <2>4. Files' = History!Saved(some)
    BY <2>1, <2>3, FilesSaved
  <2>5. History!Save(some)
    BY <1>0, <2>3, <2>4 DEF History!Save
  <2> QED  BY <2>3, <2>5 DEF History!Next
<1>3. CASE ~PostPut(q) /\ ~SaveTurn(q)
  <2>1. \A s \in Sessions : store'[s] = store[s] /\ disk'[s] = disk[s]
    BY <1>3, TurnStores
  <2>2. Logs' = Logs /\ Files' = Files
    BY <2>1 DEF Logs, Files, Loaded
  <2> QED  BY <1>0, <2>2 DEF History!histVars
<1> QED  BY <1>1, <1>2, <1>3

LEMMA GoingStep ==
    ASSUME "torn" \notin Ops, TypeOK, Going
    PROVE  History!Next \/ UNCHANGED History!histVars
<1>0. Forks' = Forks
  <2>1. conn' = conn \/ Drain
    BY DEF Going, CreateSession, DeleteSession, Answers, Reply, Tick, Stop, Boot, CrashInBoot
  <2>2. CASE Drain
    <3>1. Forking = {} /\ Forking' = {}
      BY <2>2 DEF Drain, TypeOK, ConnState, Forking
    <3> QED  BY <3>1 DEF Forks
  <2>3. CASE conn' = conn
    BY <2>3 DEF Forks, Forking
  <2> QED  BY <2>1, <2>2, <2>3
<1>1. CASE CreateSession
  <2>1. PICK s \in Sessions : Create(s)
    BY <1>1 DEF CreateSession
  <2>2. /\ store'[s] = NewSession /\ NewSession # None /\ NewSession.log = {}
        /\ \A t \in Sessions \ {s} : store'[t] = store[t]
    BY <2>1, NewIsSession DEF Create, TypeOK, NewSession
  <2>3. Logs' = History!With(Logs, s, {})
    BY <2>2, LogsWith
  <2>4. phase # "down" /\ phase' = phase /\ Files' = Files
    BY <1>1, <2>1 DEF CreateSession, Create, times, Files, Loaded
  <2>5. History!Create(s)
    BY <1>0, <2>1, <2>3, <2>4 DEF Create, History!Create
  <2> QED  BY <2>5 DEF History!Next
<1>2. CASE \E s \in Sessions : DeleteSession(s)
  <2>1. PICK s \in Sessions : DeleteSession(s)
    BY <1>2
  <2>2. Logs' = [t \in DOMAIN Logs \ {s} |-> Logs[t]]
    BY <2>1, LogsWithout DEF DeleteSession, TypeOK
  <2>3. phase # "down" /\ phase' = phase /\ Files' = Files /\ s \in DOMAIN Logs /\ used' = used
    BY <2>1 DEF DeleteSession, times, Files, Loaded, Logs
  <2>4. History!Delete(s)
    BY <1>0, <2>2, <2>3 DEF History!Delete
  <2> QED  BY <2>4 DEF History!Next
<1>3. CASE (\E r \in knows : Answers(r)) \/ Tick \/ Drain
  <2>1. /\ store' = store /\ disk' = disk /\ used' = used
        /\ phase' = phase \/ (phase # "down" /\ phase' # "down")
    BY <1>3 DEF Answers, Reply, Tick, Drain, times, disks
  <2>2. (phase # "down")' = (phase # "down")
    BY <2>1
  <2>3. Logs' = Logs /\ Files' = Files
    BY <2>1 DEF Logs, Files, Loaded
  <2> QED  BY <1>0, <2>1, <2>2, <2>3 DEF History!histVars
<1>4. CASE Stop
  <2>1. /\ store' = store /\ used' = used /\ phase # "down" /\ phase' # "down"
        /\ \E failed \in SUBSET Live : SavedBut(Live, failed, store)
    BY <1>4 DEF Stop, Save
  <2> HIDE DEF Live
  <2>2. PICK failed \in SUBSET Live : SavedBut(Live, failed, store)
    BY <2>1
  <2> DEFINE some == Live \ failed
  <2>3. \A s \in Sessions : disk'[s] = IF s \in some THEN store[s] ELSE disk[s]
    BY <2>2, SavedFile
  <2>4. Logs' = Logs /\ some \in SUBSET DOMAIN Logs /\ some \in SUBSET Live
    BY <2>1 DEF Logs, Live
  <2> HIDE DEF some
  <2>5. Files' = History!Saved(some)
    BY <2>3, <2>4, FilesSaved
  <2>6. History!Save(some)
    BY <1>0, <2>1, <2>4, <2>5 DEF History!Save
  <2> QED  BY <2>4, <2>6 DEF History!Next
<1>5. CASE Boot
  <2>1. /\ phase = "down" /\ phase' # "down" /\ used' = used /\ store' = Recovered
        /\ \A s \in Sessions : disk'[s] = disk[s] \/ (s \in Loaded /\ disk'[s] = Recovered[s])
    BY <1>5, SaveFile DEF Boot
  <2>2. Files' = Files
    BY <2>1, FilesKept
  <2>3. Logs' = Files
    <3>1. \A s \in Sessions : Recovered[s] # None <=> s \in Loaded
      BY RecoveredKeeps DEF Recovered, Stuck
    <3>2. Live' = Loaded
      BY <2>1, <3>1 DEF Loaded
    <3>3. \A s \in Loaded : Recovered[s].log = disk[s].log
      BY RecoveredKeeps
    <3> QED  BY <2>1, <3>2, <3>3 DEF Logs, Files
  <2>4. History!Up
    BY <1>0, <2>1, <2>2, <2>3 DEF History!Up
  <2> QED  BY <2>4 DEF History!Next
<1>6. CASE CrashInBoot
  <2>1. SaveCutShort(Loaded, Recovered)
    BY <1>6 DEF CrashInBoot
  <2>2. Files' = Files
    BY <2>1, SaveFile, FilesKept
  <2>3. store' = store /\ used' = used /\ phase' = phase
    BY <1>6 DEF CrashInBoot
  <2> QED  BY <1>0, <2>2, <2>3 DEF Logs, History!histVars
<1> QED  BY <1>1, <1>2, <1>3, <1>4, <1>5, <1>6 DEF Going

LEMMA EndStep ==
    ASSUME "torn" \notin Ops, TypeOK, Exit \/ Crash
    PROVE  History!Next
<1> DEFINE some == {s \in Live : disk'[s] = store[s]}
<1>1. \A s \in Sessions : disk'[s] = IF s \in some THEN store[s] ELSE disk[s]
  BY CrashFiles DEF Exit
<1>2. some \in SUBSET Live /\ some \in SUBSET DOMAIN Logs
  BY DEF Logs
<1>3. phase # "down" /\ phase' = "down" /\ used' = used
  BY EndsFrame DEF Exit, Crash
<1>4. Live' = {} /\ Forking' = {}
  BY EndsFrame DEF Exit, Crash, Forking
<1>5. Logs' = [s \in {} |-> {}] /\ Forks' = {}
  BY <1>4 DEF Logs, Forks
<1> HIDE DEF some
<1>6. Files' = History!Saved(some)
  BY <1>1, <1>2, FilesSaved
<1>7. History!Down(some)
  BY <1>3, <1>5, <1>6 DEF History!Down
<1> QED  BY <1>2, <1>7 DEF History!Next

\* With one client that waits for its answers, neither aborts nor changes the
\* mode, and with no file cut short, the gets and puts of whole sessions are
\* steps of Histories, or no steps at all (ImplementsHistories of
\* SessionProperties).
THEOREM ServerImplementsHistories ==
    ASSUME Patient, "abort" \notin Ops, "mode" \notin Ops, "torn" \notin Ops
    PROVE  Spec => ImplementsHistories
<1> DEFINE Inv == AnswerForms /\ WritersAlone /\ HistoryInv
           Known == /\ TypeOK /\ HeldIsAccepted /\ Taken /\ DownIsEmpty /\ OneOpen /\ OneInFlight
                    /\ CopiesHaveAll
<1>1. Init => Inv /\ History!Init
  <2>1. Init => Inv
    BY ConstantsAssumption
    DEF Init, AnswerForms, AnswerForm, Early, WritersAlone, HistoryInv, HandAdds, TurnsAdd,
           TurnAdds, NothingUnsaid, Forking, Loaded, Launched, Spawned, Running, Blocking,
           NewConn, UnusedQuery
  <2>2. Init => History!Init
    BY DEF Init, History!Init, Logs, Files, Forks, Forking, Loaded, NewConn
  <2> QED  BY <2>1, <2>2
<1>2. Known /\ Inv /\ [Next]_vars => Inv'
  <2> SUFFICES ASSUME Known, Inv, [Next]_vars  PROVE Inv'
    OBVIOUS
  <2>1. CASE UNCHANGED vars
    BY <2>1 DEF vars, times, disks, AnswerForms, AnswerForm, WritersAlone, HistoryInv, HandAdds,
                TurnsAdd, TurnAdds, NothingUnsaid, WereSaid, Forking, Loaded
  <2>2. CASE Next
    <3>1. HistoryInv'
      BY <2>2, ConnHistory, TurnHistory, GoingHistory, EndHistory, EndCases
    <3> QED  BY <2>2, <3>1, AnswerFormsInductive, WritersInductive
  <2> QED  BY <2>1, <2>2
<1>3. Known /\ Inv /\ [Next]_vars => [History!Next]_History!histVars
  <2> SUFFICES ASSUME Known, Inv, [Next]_vars
               PROVE  History!Next \/ UNCHANGED History!histVars
    OBVIOUS
  <2>1. CASE UNCHANGED vars
    BY <2>1 DEF vars, times, disks, History!histVars, Logs, Files, Forks, Forking, Loaded
  <2>2. CASE Next
    BY <2>2, ConnStep, TurnStep, GoingStep, EndStep, EndCases
  <2> QED  BY <2>1, <2>2
<1> QED
  BY <1>1, <1>2, <1>3, HeldAlways, KnownAlways, PatientAlways, CopiesAlways, PTL
  DEF Spec, ImplementsHistories, History!Spec
=============================================================================
