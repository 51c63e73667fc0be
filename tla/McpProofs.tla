-------------------------------- MODULE McpProofs -------------------------------
(***************************************************************************)
(* The MCP server manager, for any servers, tools and pages: what it owes  *)
(* its callers, and that it implements McpLink.                            *)
(*                                                                         *)
(* A step of the manager touches the process of one server; of the others  *)
(* nothing changes, and of them nothing is awaited (Frame, ServerStep).    *)
(* What is left for each action is the one server, the operation and the   *)
(* routes.                                                                 *)
(***************************************************************************)
EXTENDS McpProperties, WellFoundedInduction, TLAPS

USE McpAssumption

-----------------------------------------------------------------------------
(***************************************************************************)
(* The invariant.                                                          *)
(***************************************************************************)

ProcsType ==
    /\ process \in [Servers -> Slots \cup {0}]
    /\ initialized \in [Servers -> BOOLEAN]
    /\ live \subseteq Pid /\ greeted \subseteq Pid /\ owing \subseteq Pid

RestType ==
    /\ route \in [Names -> Servers \cup {NoServer}]
    /\ op \in OpType
    /\ report \in [tools : SUBSET Names, working : SUBSET Servers, failed : SUBSET Servers]
    /\ listed \in [Servers -> SUBSET Names]

\* The flag says whether the process was greeted, and only the process that
\* the operation waits for owes an answer.
HeldOk(s) == process[s] # 0 => (initialized[s] <=> Proc(s) \in greeted)
OwesOk(s) == process[s] # 0 /\ Proc(s) \in owing => op.s = s /\ op.pc \in Waiting

\* Where an operation is says what its server's process must be.
OpOk ==
    /\ op.kind = "none" => op.pc = "idle"
    /\ op.pc \in OpPc \ {"shut"} => op.s \in Servers
    /\ op.pc = "shut" => op.kind = "shutdown"
    /\ op.pc \in {"greet", "request"} \cup Waiting => process[op.s] # 0
    /\ op.pc \in {"request", "waiting"} => initialized[op.s]
    /\ op.pc \in {"greet", "greeting"} => ~initialized[op.s]
    /\ op.kind = "call" => op.sent <= 1 /\ (op.pc # "waiting" => op.sent = 0)

\* A name found so far is routed to a server the discovery is done with.
GoodIsRouted ==
    op.kind \in Discoveries =>
        /\ op.s \in Servers \ op.todo
        /\ op.bad \cap (op.todo \cup {op.s}) = {}
        /\ \A n \in op.good : route[n] \in Servers \ (op.todo \cup op.bad \cup {op.s})

McpInv ==
    /\ ProcsType /\ RestType
    /\ NoOrphanProcess
    /\ \A s \in Servers : HeldOk(s) /\ OwesOk(s)
    /\ OpOk
    /\ GoodIsRouted /\ RoutesAreListed

\* What a step owes besides: to the servers' links and to the report.
links == [s \in Servers |-> LinkOf(s)]

LinkMoves == (\E s \in Servers : Link!LinkStep(s)) \/ UNCHANGED links

ReportOk == report' # report => \A n \in report'.tools : route'[n] \in report'.working

GoodStep == McpInv' /\ LinkMoves /\ ReportOk

-----------------------------------------------------------------------------
(***************************************************************************)
(* The processes.                                                          *)
(***************************************************************************)

LEMMA FirstIsOne == ASSUME NEW todo \in SUBSET Servers, todo # {} PROVE First(todo) \in todo
<1>1. PICK s \in todo : \A t \in todo : <<t, s>> \notin OpToRel(<, Nat)
  BY WFMin, NatLessThanWellFounded
<1>2. \A t \in todo : s <= t
  <2>1. \A t \in todo : ~(t < s)
    BY <1>1, Zenon DEF OpToRel
  <2> QED  BY <2>1
<1> QED  BY <1>2 DEF First

\* Of other servers nothing changes.
Frame(s) ==
    \A t \in Servers \ {s} :
        /\ process'[t] = process[t] /\ initialized'[t] = initialized[t]
        /\ <<t, process[t]>> \in greeted' <=> <<t, process[t]>> \in greeted
        /\ <<t, process[t]>> \in owing' <=> <<t, process[t]>> \in owing

LEMMA ServerStep ==
    ASSUME McpInv, NEW s \in Servers, Frame(s),
           op.pc \in Waiting => op.s = s, op'.pc \in Waiting => op'.s = s,
           HeldOk(s)', OwesOk(s)'
    PROVE  /\ \A t \in Servers : HeldOk(t)' /\ OwesOk(t)'
           /\ links' = [links EXCEPT ![s] = LinkOf(s)']
<1>1. ASSUME NEW t \in Servers \ {s} PROVE HeldOk(t)' /\ OwesOk(t)'
  <2>1. HeldOk(t) /\ OwesOk(t)
    BY DEF McpInv
  <2>2. ~(process[t] # 0 /\ Proc(t) \in owing)
    BY <2>1 DEF OwesOk
  <2> QED  BY <2>1, <2>2 DEF Frame, HeldOk, OwesOk, Proc
<1>2. ASSUME NEW t \in Servers \ {s} PROVE LinkOf(t)' = LinkOf(t)
  BY DEF LinkOf, Frame, Proc, Waiting
<1>3. links' = [links EXCEPT ![s] = LinkOf(s)']
  BY <1>2 DEF links
<1> QED  BY <1>1, <1>3

\* A process taken out is killed: none is left behind.
LEMMA ResetEffect ==
    ASSUME ProcsType, NoOrphanProcess, NEW s \in Servers, Reset(s)
    PROVE  /\ ProcsType' /\ NoOrphanProcess' /\ Frame(s)
           /\ process'[s] = 0 /\ HeldOk(s)' /\ OwesOk(s)' /\ LinkOf(s)' = "down"
<1>1. process'[s] = 0 /\ process' \in [Servers -> Slots \cup {0}]
      /\ \A t \in Servers \ {s} : process'[t] = process[t] /\ initialized'[t] = initialized[t]
  BY DEF ProcsType, Reset
<1>2. ProcsType'
  BY <1>1 DEF ProcsType, Reset, Killed
<1>3. ASSUME NEW p \in live' PROVE process'[p[1]] = p[2]
  <2>1. p \in live /\ p # Proc(s) /\ p \in Pid
    BY <1>3 DEF Reset, Killed, ProcsType
  <2>2. process[p[1]] = p[2] /\ p = <<p[1], p[2]>> /\ p[1] \in Servers
    BY <2>1 DEF NoOrphanProcess, Pid
  <2>3. p[1] # s
    BY <2>1, <2>2 DEF Proc
  <2> QED  BY <1>1, <2>2, <2>3
<1>4. Frame(s)
  BY <1>1 DEF Frame, Reset, Killed, Proc
<1>5. HeldOk(s)' /\ OwesOk(s)' /\ LinkOf(s)' = "down"
  BY <1>1 DEF HeldOk, OwesOk, LinkOf
<1> QED  BY <1>1, <1>2, <1>3, <1>4, <1>5 DEF NoOrphanProcess

\* A process that stays has at most answered.
LEMMA AnswerEffect ==
    ASSUME ProcsType, NoOrphanProcess, NEW s \in Servers, UNCHANGED <<held, live, greeted>>,
           owing' \in {owing, owing \ {Proc(s)}}
    PROVE  ProcsType' /\ NoOrphanProcess' /\ Frame(s)
<1>1. ProcsType' /\ NoOrphanProcess'
  BY DEF ProcsType, NoOrphanProcess, held
<1>2. Frame(s)
  BY DEF Frame, held, Proc
<1> QED  BY <1>1, <1>2

\* Of a link that moves, one of McpLink's steps is asked.
LEMMA LinkValues ==
    ASSUME McpInv, NEW s \in Servers
    PROVE  LinkOf(s) \in {"down", "fresh", "greeting", "ready", "asked"} /\ links[s] = LinkOf(s)
<1>1. HeldOk(s) /\ OwesOk(s)
  BY DEF McpInv
<1>2. LinkOf(s) # "spoiled"
  BY <1>1 DEF LinkOf, OwesOk, Waiting
<1> QED  BY <1>2 DEF LinkOf, links

LEMMA LinkStays ==
    ASSUME McpInv, NEW s \in Servers, links' = [links EXCEPT ![s] = LinkOf(s)']
    PROVE  LinkOf(s)' = LinkOf(s) => LinkMoves
<1>1. links \in [Servers -> {"down", "fresh", "greeting", "ready", "asked"}]
  BY LinkValues DEF links
<1> QED  BY <1>1, LinkValues DEF LinkMoves

LEMMA LinkStepMoves ==
    ASSUME McpInv, NEW s \in Servers, links' = [links EXCEPT ![s] = LinkOf(s)'],
           \/ LinkOf(s) = "down" /\ LinkOf(s)' = "fresh"
           \/ LinkOf(s) = "fresh" /\ LinkOf(s)' = "greeting"
           \/ LinkOf(s) = "greeting" /\ LinkOf(s)' \in {"ready", "fresh"}
           \/ LinkOf(s) = "ready" /\ LinkOf(s)' = "asked"
           \/ LinkOf(s) = "asked" /\ LinkOf(s)' = "ready"
           \/ LinkOf(s)' = "down"
    PROVE  LinkMoves
<1>1. LinkOf(s) \in Link!LinkStates /\ links[s] = LinkOf(s)
  BY LinkValues DEF Link!LinkStates
<1>2. CASE LinkOf(s) = "down" /\ LinkOf(s)' = "down"
  BY <1>2, LinkStays
<1>3. CASE ~(LinkOf(s) = "down" /\ LinkOf(s)' = "down")
  <2>1. Link!LinkStep(s)
    BY <1>1, <1>3 DEF Link!LinkStep, Link!Start, Link!Greet, Link!Accepted, Link!Declined,
       Link!Request, Link!Answered, Link!Drop, Link!Moves, Link!LinkStates, links
  <2> QED  BY <2>1 DEF LinkMoves
<1> QED  BY <1>2, <1>3

-----------------------------------------------------------------------------
(***************************************************************************)
(* How operations end, start over and go on.                               *)
(***************************************************************************)

LEMMA NoOpRecord ==
    NoOp \in OpType /\ NoOp.kind = "none" /\ NoOp.pc = "idle" /\ NoOp.s = NoServer
BY DEF NoOp, OpType

\* What is said of an operation at rest.
RestsWell ==
    /\ op' \in OpType /\ op'.pc \in {"ensure", "idle"}
    /\ OpOk' /\ GoodIsRouted'

LEMMA IdleRests == ASSUME op' = NoOp PROVE RestsWell
BY NoOpRecord DEF RestsWell, OpOk, GoodIsRouted, Discoveries, Waiting, OpPc

\* The loop of a discovery goes on with servers it is not done with, or it
\* reports names of servers that did not fail.
LEMMA ContinueRests ==
    ASSUME McpInv, NEW s \in Servers, op.s = s, op.kind \in Discoveries,
           NEW done \in OpType, done.kind = op.kind, done.todo = op.todo, Continue(done),
           done.bad \cap op.todo = {},
           \A n \in done.good : route'[n] \in Servers \ (op.todo \cup done.bad)
    PROVE  /\ RestsWell /\ ReportOk
           /\ report' \in [tools : SUBSET Names, working : SUBSET Servers, failed : SUBSET Servers]
<1>1. CASE done.todo # {}
  <2> DEFINE next == First(done.todo)
  <2>1. next \in done.todo /\ next \in Servers
    BY <1>1, FirstIsOne DEF OpType
  <2>2. op' = NextServer(done) /\ UNCHANGED report
    BY <1>1 DEF Continue
  <2> HIDE DEF next
  <2>3. /\ op' \in OpType /\ op'.kind = op.kind /\ op'.pc = "ensure" /\ op'.s = next
        /\ op'.todo = op.todo \ {next} /\ op'.good = done.good /\ op'.bad = done.bad
    BY <2>1, <2>2 DEF NextServer, OpType, OpPc, next
  <2>4. OpOk'
    BY <2>1, <2>3 DEF OpOk, Discoveries, Waiting
  <2>5. GoodIsRouted'
    BY <2>1, <2>3 DEF GoodIsRouted
  <2> QED  BY <2>2, <2>3, <2>4, <2>5 DEF RestsWell, ReportOk, McpInv, RestType
<1>2. CASE done.todo = {}
  <2>1. /\ op' = NoOp
        /\ report' = IF done.kind = "best_effort"
                     THEN [tools |-> done.good, working |-> Servers \ done.bad,
                           failed |-> done.bad]
                     ELSE report
    BY <1>2 DEF Continue
  <2>2. CASE done.kind = "best_effort"
    <3>1. report'.tools = done.good /\ report'.working = Servers \ done.bad
      BY <2>1, <2>2
    <3>2. ReportOk
      BY <3>1 DEF ReportOk
    <3>3. report' \in [tools : SUBSET Names, working : SUBSET Servers, failed : SUBSET Servers]
      BY <2>1, <2>2 DEF OpType
    <3> QED  BY <2>1, <3>2, <3>3, IdleRests
  <2>3. CASE done.kind # "best_effort"
    BY <2>1, <2>3, IdleRests DEF ReportOk, McpInv, RestType
  <2> QED  BY <2>2, <2>3
<1> QED  BY <1>1, <1>2

\* A failure that is returned, or noted with the server's routes cleared.
LEMMA SurfaceRests ==
    ASSUME McpInv, NEW s \in Servers, op.s = s, Surface(s)
    PROVE  RestsWell /\ RestType' /\ RoutesAreListed' /\ ReportOk
<1>1. CASE op.kind = "best_effort"
  <2> DEFINE done == [op EXCEPT !.bad = @ \cup {s}]
  <2>1. /\ done \in OpType /\ done.kind = op.kind /\ done.todo = op.todo
        /\ done.good = op.good /\ done.bad = op.bad \cup {s}
    BY DEF McpInv, RestType, OpType
  <2>2. route' = Cleared(s) /\ Continue(done) /\ UNCHANGED listed
    BY <1>1 DEF Surface
  <2> HIDE DEF done
  <2>3. route' \in [Names -> Servers \cup {NoServer}] /\ RoutesAreListed'
    BY <2>2 DEF Cleared, RoutesAreListed, McpInv, RestType
  <2>4. /\ op.s \notin op.todo /\ op.bad \cap op.todo = {} /\ op.good \subseteq Names
        /\ \A n \in op.good : route[n] \in Servers \ (op.todo \cup op.bad \cup {s})
    BY <1>1 DEF McpInv, GoodIsRouted, Discoveries, RestType, OpType
  <2>5. \A n \in done.good : route'[n] \in Servers \ (op.todo \cup done.bad)
    BY <2>1, <2>2, <2>4 DEF Cleared
  <2>6. done.bad \cap op.todo = {}
    BY <2>1, <2>4
  <2>7. op.kind \in Discoveries
    BY <1>1 DEF Discoveries
  <2>8. /\ RestsWell /\ ReportOk
        /\ report' \in [tools : SUBSET Names, working : SUBSET Servers, failed : SUBSET Servers]
    BY <2>1, <2>2, <2>5, <2>6, <2>7, ContinueRests
  <2> QED  BY <2>2, <2>3, <2>8 DEF RestsWell, RestType, McpInv
<1>2. CASE op.kind # "best_effort"
  <2>1. op' = NoOp /\ UNCHANGED <<route, report, listed>>
    BY <1>2 DEF Surface
  <2> QED  BY <2>1, IdleRests DEF RestsWell, RestType, McpInv, RoutesAreListed, ReportOk
<1> QED  BY <1>1, <1>2

LEMMA RetryRests ==
    ASSUME McpInv, NEW s \in Servers, op.s = s, op.tries = 0, op.kind \in Retried, Retry
    PROVE  RestsWell /\ RestType' /\ RoutesAreListed' /\ ReportOk
<1>1. /\ op' \in OpType /\ op'.kind = op.kind /\ op'.pc = "ensure" /\ op'.s = s
      /\ op'.todo = op.todo /\ op'.good = op.good /\ op'.bad = op.bad
  <2>1. op \in OpType /\ op.tries + 1 = 1
    BY DEF McpInv, RestType
  <2>2. op' = [op EXCEPT !.pc = "ensure", !.tries = 1, !.inits = 0, !.page = 0, !.found = {}]
    BY <2>1 DEF Retry
  <2> QED  BY <2>1, <2>2 DEF OpType, OpPc
<1>2. UNCHANGED <<route, report, listed>>
  BY DEF Retry
<1>3. OpOk'
  BY <1>1 DEF OpOk, Retried, Discoveries, Waiting
<1>4. GoodIsRouted'
  BY <1>1, <1>2 DEF GoodIsRouted, McpInv
<1> QED  BY <1>1, <1>2, <1>3, <1>4 DEF RestsWell, RestType, McpInv, RoutesAreListed, ReportOk

\* Whatever went wrong with a server, the operation rests and the process is
\* dropped or has answered.
LEMMA AfterErrorIsGood ==
    ASSUME McpInv, NEW s \in Servers, op.s = s, op.pc \in {"spawn", "greeting", "waiting"},
           NEW error \in Errors, op.pc = "spawn" => error = "Io" /\ process[s] = 0,
           op.pc # "spawn" => error # "Io", AfterError(s, error)
    PROVE  GoodStep
<1>1. RestsWell /\ RestType' /\ RoutesAreListed' /\ ReportOk
  <2>1. CASE IsRetryable(error) /\ op.kind \in Retried /\ op.tries = 0
    BY <2>1, RetryRests DEF AfterError
  <2>2. CASE ~(IsRetryable(error) /\ op.kind \in Retried /\ op.tries = 0)
    BY <2>2, SurfaceRests DEF AfterError
  <2> QED  BY <2>1, <2>2
<1>2. /\ ProcsType' /\ NoOrphanProcess' /\ Frame(s) /\ HeldOk(s)' /\ OwesOk(s)'
      /\ \/ LinkOf(s)' = "down"
         \/ LinkOf(s) = "greeting" /\ LinkOf(s)' = "fresh"
         \/ LinkOf(s) = "asked" /\ LinkOf(s)' = "ready"
  <2>1. CASE ShouldReset(error)
    BY <2>1, ResetEffect DEF AfterError, McpInv
  <2>2. CASE ~ShouldReset(error)
    <3>1. /\ UNCHANGED <<held, live, greeted>>
          /\ owing' = IF error = "JsonRpc" THEN owing \ {Proc(s)} ELSE owing
      BY <2>2 DEF AfterError, Kept
    <3>2. ProcsType' /\ NoOrphanProcess' /\ Frame(s)
      BY <3>1, AnswerEffect DEF McpInv
    <3>3. CASE error = "Io"
      <4>1. process[s] = 0 /\ process'[s] = 0
        BY <3>1, <3>3 DEF held
      <4> QED  BY <3>2, <4>1 DEF HeldOk, OwesOk, LinkOf
    <3>4. CASE error = "JsonRpc"
      <4>1. /\ process[s] # 0 /\ op.pc \in {"greeting", "waiting"} /\ HeldOk(s)
            /\ op.pc = "waiting" => initialized[s]
            /\ op.pc = "greeting" => ~initialized[s]
        BY <3>4 DEF McpInv, OpOk, Waiting
      <4>2. /\ process'[s] = process[s] /\ initialized'[s] = initialized[s] /\ Proc(s)' = Proc(s)
            /\ Proc(s) \notin owing' /\ greeted' = greeted
        BY <3>1, <3>4 DEF held, Proc
      <4>3. op'.pc \in {"ensure", "idle"}
        BY <1>1 DEF RestsWell
      <4> QED  BY <3>2, <4>1, <4>2, <4>3 DEF HeldOk, OwesOk, LinkOf
    <3> QED  BY <2>2, <3>2, <3>3, <3>4 DEF ShouldReset, Errors
  <2> QED  BY <2>1, <2>2
<1>3. /\ \A t \in Servers : HeldOk(t)' /\ OwesOk(t)'
      /\ links' = [links EXCEPT ![s] = LinkOf(s)']
  BY <1>1, <1>2, ServerStep DEF RestsWell, Waiting
<1>4. LinkMoves
  BY <1>2, <1>3, LinkStepMoves
<1>5. McpInv'
  BY <1>1, <1>2, <1>3 DEF McpInv, RestsWell
<1> QED  BY <1>1, <1>4, <1>5 DEF GoodStep

-----------------------------------------------------------------------------
(***************************************************************************)
(* The steps of an operation on a server.                                  *)
(***************************************************************************)

LEMMA MoveIsGood ==
    ASSUME McpInv, NEW s \in Servers, op.s = s, op.pc # "idle",
           ProcsType', NoOrphanProcess', Frame(s), HeldOk(s)', OwesOk(s)',
           op' \in OpType, op'.kind = op.kind, op'.s = s, op'.todo = op.todo,
           op'.good = op.good, op'.bad = op.bad,
           op'.pc \in {"spawn", "greet", "request"} \cup Waiting,
           op'.pc # "spawn" => process'[s] # 0,
           op'.pc \in {"request", "waiting"} => initialized'[s],
           op'.pc \in {"greet", "greeting"} => ~initialized'[s],
           op.kind = "call" => op'.sent <= 1 /\ (op'.pc # "waiting" => op'.sent = 0),
           UNCHANGED <<route, report, listed>>,
           \/ LinkOf(s)' = LinkOf(s)
           \/ LinkOf(s) = "down" /\ LinkOf(s)' = "fresh"
           \/ LinkOf(s) = "fresh" /\ LinkOf(s)' = "greeting"
           \/ LinkOf(s) = "greeting" /\ LinkOf(s)' \in {"ready", "fresh"}
           \/ LinkOf(s) = "ready" /\ LinkOf(s)' = "asked"
           \/ LinkOf(s) = "asked" /\ LinkOf(s)' = "ready"
           \/ LinkOf(s)' = "down"
    PROVE  GoodStep
<1>1. op.kind # "none"
  BY DEF McpInv, OpOk
<1>2. OpOk'
  BY <1>1 DEF OpOk, Waiting
<1>3. GoodIsRouted' /\ RoutesAreListed' /\ RestType'
  BY DEF McpInv, GoodIsRouted, RoutesAreListed, RestType
<1>4. /\ \A t \in Servers : HeldOk(t)' /\ OwesOk(t)'
      /\ links' = [links EXCEPT ![s] = LinkOf(s)']
  BY ServerStep
<1>5. McpInv'
  BY <1>2, <1>3, <1>4 DEF McpInv
<1>6. LinkMoves
  BY <1>4, LinkStays, LinkStepMoves
<1> QED  BY <1>5, <1>6 DEF GoodStep, ReportOk

\* What is known of an operation before a step of it.
LEMMA Before ==
    ASSUME McpInv, NEW s \in Servers, op.s = s
    PROVE  /\ op \in OpType /\ ProcsType /\ NoOrphanProcess /\ HeldOk(s) /\ OwesOk(s)
           /\ op.pc \in {"greet", "request"} \cup Waiting => process[s] # 0
           /\ op.pc \in {"request", "waiting"} => initialized[s]
           /\ op.pc \in {"greet", "greeting"} => ~initialized[s]
           /\ op.kind = "call" /\ op.pc # "waiting" => op.sent = 0
           /\ op.kind = "call" => op.sent <= 1
BY DEF McpInv, RestType, OpOk

\* op with another pc.
LEMMA PcRecord ==
    ASSUME NEW o \in OpType, NEW pc \in OpPc
    PROVE  LET next == [o EXCEPT !.pc = pc] IN
           /\ next \in OpType /\ next.kind = o.kind /\ next.s = o.s /\ next.todo = o.todo
           /\ next.good = o.good /\ next.bad = o.bad /\ next.sent = o.sent /\ next.pc = pc
BY DEF OpType

LEMMA EnsureReadyIsGood == ASSUME McpInv, NEW s \in Servers, EnsureReady(s) PROVE GoodStep
<1>1. /\ op.s = s /\ op.pc = "ensure" /\ op' = [op EXCEPT !.pc = "spawn"]
      /\ UNCHANGED <<route, report, listed>>
  BY DEF EnsureReady
<1>2. /\ op \in OpType /\ ProcsType /\ NoOrphanProcess /\ HeldOk(s) /\ OwesOk(s)
      /\ op.kind = "call" => op.sent = 0
  BY <1>1, Before
<1>3. /\ op' \in OpType /\ op'.kind = op.kind /\ op'.s = s /\ op'.todo = op.todo
      /\ op'.good = op.good /\ op'.bad = op.bad /\ op'.sent = op.sent /\ op'.pc = "spawn"
  BY <1>1, <1>2, PcRecord DEF OpPc
<1>4. CASE Reset(s)
  <2>1. /\ ProcsType' /\ NoOrphanProcess' /\ Frame(s)
        /\ HeldOk(s)' /\ OwesOk(s)' /\ LinkOf(s)' = "down"
    BY <1>2, <1>4, ResetEffect
  <2> QED  BY <1>1, <1>2, <1>3, <2>1, MoveIsGood
<1>5. CASE UNCHANGED <<held, procs>>
  <2>1. ProcsType' /\ NoOrphanProcess' /\ Frame(s)
    BY <1>2, <1>5, AnswerEffect DEF held, procs
  <2>2. HeldOk(s)' /\ OwesOk(s)' /\ LinkOf(s)' = LinkOf(s)
    BY <1>1, <1>2, <1>3, <1>5 DEF held, procs, HeldOk, OwesOk, LinkOf, Proc, Waiting
  <2> QED  BY <1>1, <1>2, <1>3, <2>1, <2>2, MoveIsGood
<1> QED  BY <1>4, <1>5 DEF EnsureReady

LEMMA HasProcessIsGood == ASSUME McpInv, NEW s \in Servers, HasProcess(s) PROVE GoodStep
<1> DEFINE pc == IF initialized[s] THEN "request" ELSE "greet"
<1>1. /\ op.s = s /\ op.pc = "spawn" /\ process[s] # 0 /\ op' = [op EXCEPT !.pc = pc]
      /\ UNCHANGED <<held, procs, route, report, listed>>
  BY DEF HasProcess, procs
<1>2. /\ op \in OpType /\ ProcsType /\ NoOrphanProcess /\ HeldOk(s) /\ OwesOk(s)
      /\ op.kind = "call" => op.sent = 0
  BY <1>1, Before
<1>3. /\ op' \in OpType /\ op'.kind = op.kind /\ op'.s = s /\ op'.todo = op.todo
      /\ op'.good = op.good /\ op'.bad = op.bad /\ op'.sent = op.sent /\ op'.pc = pc
  BY <1>1, <1>2, PcRecord DEF OpPc
<1>4. ProcsType' /\ NoOrphanProcess' /\ Frame(s)
  BY <1>1, <1>2, AnswerEffect DEF held, procs
<1>5. HeldOk(s)' /\ OwesOk(s)' /\ LinkOf(s)' = LinkOf(s)
  BY <1>1, <1>2, <1>3 DEF held, procs, HeldOk, OwesOk, LinkOf, Proc, Waiting
<1>6. process'[s] # 0 /\ initialized'[s] = initialized[s]
  BY <1>1 DEF held
<1> QED  BY <1>1, <1>2, <1>3, <1>4, <1>5, <1>6, MoveIsGood

LEMMA SpawnIsGood == ASSUME McpInv, NEW s \in Servers, Spawn(s) PROVE GoodStep
<1>1. /\ op.s = s /\ op.pc = "spawn" /\ process[s] = 0 /\ op' = [op EXCEPT !.pc = "greet"]
      /\ initialized' = [initialized EXCEPT ![s] = FALSE]
      /\ UNCHANGED <<route, report, listed>>
  BY DEF Spawn
<1>2. PICK n \in Slots : /\ process' = [process EXCEPT ![s] = n]
                         /\ live' = live \cup {<<s, n>>}
                         /\ greeted' = greeted \ {<<s, n>>} /\ owing' = owing \ {<<s, n>>}
  BY DEF Spawn
<1>3. /\ op \in OpType /\ ProcsType /\ NoOrphanProcess
      /\ op.kind = "call" => op.sent = 0
  BY <1>1, Before
<1>4. /\ op' \in OpType /\ op'.kind = op.kind /\ op'.s = s /\ op'.todo = op.todo
      /\ op'.good = op.good /\ op'.bad = op.bad /\ op'.sent = op.sent /\ op'.pc = "greet"
  BY <1>1, <1>3, PcRecord DEF OpPc
<1>5. ProcsType'
  BY <1>1, <1>2, <1>3 DEF ProcsType, Pid
<1>6. /\ process'[s] = n /\ n # 0 /\ ~initialized'[s] /\ Proc(s)' = <<s, n>>
      /\ \A t \in Servers \ {s} : process'[t] = process[t] /\ initialized'[t] = initialized[t]
  BY <1>1, <1>2, <1>3 DEF ProcsType, Proc
\* none of the server's processes ran, so the new one is the only one
<1>7. NoOrphanProcess'
  <2>1. ASSUME NEW p \in live PROVE p[1] # s /\ p[1] \in Servers /\ process[p[1]] = p[2]
    BY <1>1, <1>3 DEF NoOrphanProcess, ProcsType, Pid
  <2> QED  BY <1>2, <1>6, <2>1 DEF NoOrphanProcess
<1>8. Frame(s)
  BY <1>2, <1>6 DEF Frame
<1>9. HeldOk(s)' /\ OwesOk(s)' /\ LinkOf(s) = "down" /\ LinkOf(s)' = "fresh"
  BY <1>1, <1>2, <1>4, <1>6 DEF HeldOk, OwesOk, LinkOf
<1> QED  BY <1>1, <1>3, <1>4, <1>5, <1>6, <1>7, <1>8, <1>9, MoveIsGood

\* A request makes its process owe an answer, which is waited for.
LEMMA SendEffect ==
    ASSUME McpInv, NEW s \in Servers, op.s = s, process[s] # 0,
           UNCHANGED <<held, live, greeted>>, owing' = owing \cup {Proc(s)},
           op'.s = s, op'.pc \in Waiting
    PROVE  ProcsType' /\ NoOrphanProcess' /\ Frame(s) /\ HeldOk(s)' /\ OwesOk(s)'
<1>1. ProcsType /\ NoOrphanProcess /\ HeldOk(s)
  BY Before
<1>2. Proc(s) \in Pid
  BY <1>1 DEF ProcsType, Pid, Proc
<1>3. ProcsType' /\ NoOrphanProcess'
  BY <1>1, <1>2 DEF ProcsType, NoOrphanProcess, held
<1>4. Frame(s) /\ HeldOk(s)' /\ OwesOk(s)'
  BY <1>1 DEF Frame, held, HeldOk, OwesOk, Proc
<1> QED  BY <1>3, <1>4

LEMMA SendInitializeIsGood ==
    ASSUME McpInv, NEW s \in Servers, SendInitialize(s) PROVE GoodStep
<1>1. /\ op.s = s /\ op.pc = "greet" /\ owing' = owing \cup {Proc(s)}
      /\ UNCHANGED <<held, route, report, live, greeted, listed>>
  BY DEF SendInitialize, Send
<1>2. /\ op \in OpType /\ HeldOk(s) /\ OwesOk(s) /\ process[s] # 0 /\ ~initialized[s]
      /\ op.kind = "call" => op.sent = 0
  BY <1>1, Before
<1>3. op' = [op EXCEPT !.pc = "greeting"]
  BY <1>2 DEF SendInitialize, Send, OpType
<1>4. /\ op' \in OpType /\ op'.kind = op.kind /\ op'.s = s /\ op'.todo = op.todo
      /\ op'.good = op.good /\ op'.bad = op.bad /\ op'.sent = op.sent /\ op'.pc = "greeting"
  <2>1. "greeting" \in OpPc
    BY DEF OpPc, Waiting
  <2> QED  BY <1>1, <1>2, <1>3, <2>1, PcRecord
<1>5. ProcsType' /\ NoOrphanProcess' /\ Frame(s) /\ HeldOk(s)' /\ OwesOk(s)'
  BY <1>1, <1>2, <1>4, SendEffect DEF Waiting
<1>6. LinkOf(s) = "fresh" /\ LinkOf(s)' = "greeting"
  BY <1>1, <1>2, <1>4 DEF LinkOf, HeldOk, OwesOk, held, Waiting
<1>7. process'[s] # 0 /\ ~initialized'[s]
  BY <1>1, <1>2 DEF held
<1> QED  BY <1>1, <1>2, <1>4, <1>5, <1>6, <1>7, MoveIsGood DEF Waiting

LEMMA SendRequestIsGood ==
    ASSUME McpInv, NEW s \in Servers, SendRequest(s) PROVE GoodStep
<1> DEFINE sent == IF op.kind = "call" THEN op.sent + 1 ELSE op.sent
<1>1. /\ op.s = s /\ op.pc = "request" /\ owing' = owing \cup {Proc(s)}
      /\ UNCHANGED <<held, route, report, live, greeted, listed>>
      /\ op' = [op EXCEPT !.pc = "waiting", !.sent = sent]
  BY DEF SendRequest, Send
<1>2. /\ op \in OpType /\ HeldOk(s) /\ OwesOk(s) /\ process[s] # 0 /\ initialized[s]
      /\ op.kind = "call" => op.sent = 0
  BY <1>1, Before
<1>3. sent \in Nat /\ (op.kind = "call" => sent = 1)
  BY <1>2 DEF OpType
<1> HIDE DEF sent
<1>4. /\ op' \in OpType /\ op'.kind = op.kind /\ op'.s = s /\ op'.todo = op.todo
      /\ op'.good = op.good /\ op'.bad = op.bad /\ op'.sent = sent /\ op'.pc = "waiting"
  BY <1>1, <1>2, <1>3 DEF OpType, OpPc, Waiting
<1>5. ProcsType' /\ NoOrphanProcess' /\ Frame(s) /\ HeldOk(s)' /\ OwesOk(s)'
  BY <1>1, <1>2, <1>4, SendEffect DEF Waiting
<1>6. LinkOf(s) = "ready" /\ LinkOf(s)' = "asked"
  BY <1>1, <1>2, <1>4 DEF LinkOf, HeldOk, OwesOk, held, Waiting
<1>7. process'[s] # 0 /\ initialized'[s]
  BY <1>1, <1>2 DEF held
<1> QED  BY <1>1, <1>2, <1>3, <1>4, <1>5, <1>6, <1>7, MoveIsGood DEF Waiting

LEMMA GreetedIsGood == ASSUME McpInv, NEW s \in Servers, Greeted(s) PROVE GoodStep
<1>1. /\ op.s = s /\ op.pc = "greeting" /\ op' = [op EXCEPT !.pc = "request"]
      /\ initialized' = [initialized EXCEPT ![s] = TRUE]
      /\ owing' = owing \ {Proc(s)} /\ greeted' = greeted \cup {Proc(s)}
      /\ UNCHANGED <<process, route, report, live, listed>>
  BY DEF Greeted
<1>2. /\ op \in OpType /\ ProcsType /\ NoOrphanProcess /\ process[s] # 0
      /\ op.kind = "call" => op.sent = 0
  BY <1>1, Before DEF Waiting
<1>3. /\ op' \in OpType /\ op'.kind = op.kind /\ op'.s = s /\ op'.todo = op.todo
      /\ op'.good = op.good /\ op'.bad = op.bad /\ op'.sent = op.sent /\ op'.pc = "request"
  BY <1>1, <1>2, PcRecord DEF OpPc
<1>4. ProcsType' /\ NoOrphanProcess'
  <2>1. Proc(s) \in Pid
    BY <1>2 DEF ProcsType, Pid, Proc
  <2> QED  BY <1>1, <1>2, <2>1 DEF ProcsType, NoOrphanProcess
<1>5. /\ process'[s] = process[s] /\ initialized'[s] /\ Proc(s)' = Proc(s)
      /\ \A t \in Servers \ {s} : process'[t] = process[t] /\ initialized'[t] = initialized[t]
  BY <1>1, <1>2 DEF ProcsType, Proc
<1>6. Frame(s)
  BY <1>1, <1>5 DEF Frame, Proc
<1>7. HeldOk(s)' /\ OwesOk(s)' /\ LinkOf(s) = "greeting" /\ LinkOf(s)' = "ready"
  BY <1>1, <1>2, <1>3, <1>5 DEF HeldOk, OwesOk, LinkOf
<1> QED  BY <1>1, <1>2, <1>3, <1>4, <1>5, <1>6, <1>7, MoveIsGood

\* What reading may end in.
LEMMA ReadErrorsAre ==
    ASSUME NEW s PROVE \A error \in ReadErrors(s) : error \in Errors /\ error # "Io"
BY DEF ReadErrors, Errors

LEMMA GreetingFailsIsGood == ASSUME McpInv, NEW s \in Servers, GreetingFails(s) PROVE GoodStep
<1>1. op.s = s /\ op.pc = "greeting"
  BY DEF GreetingFails
<1>2. CASE /\ Reset(s) /\ op' = [op EXCEPT !.pc = "spawn", !.inits = 1]
           /\ UNCHANGED <<route, report, listed>>
  <2>1. /\ op \in OpType /\ ProcsType /\ NoOrphanProcess
        /\ op.kind = "call" => op.sent = 0
    BY <1>1, Before
  <2>2. /\ op' \in OpType /\ op'.kind = op.kind /\ op'.s = s /\ op'.todo = op.todo
        /\ op'.good = op.good /\ op'.bad = op.bad /\ op'.sent = op.sent /\ op'.pc = "spawn"
    BY <1>1, <1>2, <2>1 DEF OpType, OpPc
  <2>3. /\ ProcsType' /\ NoOrphanProcess' /\ Frame(s)
        /\ HeldOk(s)' /\ OwesOk(s)' /\ LinkOf(s)' = "down"
    BY <1>2, <2>1, ResetEffect
  <2> QED  BY <1>1, <1>2, <2>1, <2>2, <2>3, MoveIsGood
<1>3. ASSUME NEW error \in ReadErrors(s), AfterError(s, error) PROVE GoodStep
  BY <1>1, <1>3, ReadErrorsAre, AfterErrorIsGood
<1> QED  BY <1>2, <1>3 DEF GreetingFails

LEMMA PageIsGood == ASSUME McpInv, NEW s \in Servers, Page(s) PROVE GoodStep
<1>1. /\ op.s = s /\ op.pc = "waiting" /\ op.kind \in Discoveries \cup {"list"}
      /\ owing' = owing \ {Proc(s)}
      /\ UNCHANGED <<held, route, report, live, greeted, listed>>
  BY DEF Page
<1>2. PICK names \in SUBSET (IF op.kind = "list" THEN {} ELSE Offers[s]) :
         op' = [op EXCEPT !.pc = "request", !.page = @ + 1, !.found = @ \cup names]
  BY DEF Page
<1>3. names \subseteq Names
  BY <1>2
<1>4. op \in OpType /\ ProcsType /\ NoOrphanProcess /\ HeldOk(s) /\ process[s] # 0 /\ initialized[s]
  BY <1>1, Before DEF Waiting
<1>5. /\ op' \in OpType /\ op'.kind = op.kind /\ op'.s = s /\ op'.todo = op.todo
      /\ op'.good = op.good /\ op'.bad = op.bad /\ op'.pc = "request"
  <2>1. op.page + 1 \in Nat /\ op.found \cup names \subseteq Names
    BY <1>3, <1>4 DEF OpType
  <2> QED  BY <1>1, <1>2, <1>4, <2>1 DEF OpType, OpPc
<1>6. ProcsType' /\ NoOrphanProcess' /\ Frame(s)
  BY <1>1, <1>4, AnswerEffect
<1>7. process'[s] = process[s] /\ initialized'[s] = initialized[s] /\ Proc(s)' = Proc(s)
  BY <1>1 DEF held, Proc
<1>8. HeldOk(s)' /\ OwesOk(s)' /\ LinkOf(s) = "asked" /\ LinkOf(s)' = "ready"
  BY <1>1, <1>4, <1>5, <1>7 DEF HeldOk, OwesOk, LinkOf
<1>9. op.kind # "call"
  BY <1>1 DEF Discoveries
<1> QED  BY <1>1, <1>4, <1>5, <1>6, <1>7, <1>8, <1>9, MoveIsGood

\* A listing that reaches its last page makes exactly its names the server's.
LEMMA ListedRests ==
    ASSUME McpInv, NEW s \in Servers, op.s = s, op.kind \in Discoveries,
           NEW found \in SUBSET Names, Listed(s, found)
    PROVE  RestsWell /\ RestType' /\ RoutesAreListed' /\ ReportOk
<1> DEFINE done == [op EXCEPT !.good = @ \cup found]
<1>1. /\ done \in OpType /\ done.kind = op.kind /\ done.todo = op.todo
      /\ done.good = op.good \cup found /\ done.bad = op.bad
  BY DEF McpInv, RestType, OpType
<1>2. /\ route' = Rerouted(s, found) /\ listed' = [listed EXCEPT ![s] = found]
      /\ Continue(done)
  BY DEF Listed
<1> HIDE DEF done
<1>3. /\ route' \in [Names -> Servers \cup {NoServer}]
      /\ \A n \in found : route'[n] = s
      /\ \A n \in Names \ found : route'[n] = IF route[n] = s THEN NoServer ELSE route[n]
  BY <1>2 DEF Rerouted, Cleared, McpInv, RestType
<1>4. listed' \in [Servers -> SUBSET Names] /\ listed'[s] = found
      /\ \A t \in Servers \ {s} : listed'[t] = listed[t]
  BY <1>2 DEF McpInv, RestType
<1>5. RoutesAreListed'
  <2>1. ASSUME NEW n \in Names \ found, route'[n] # NoServer
        PROVE  n \in listed'[route'[n]]
    <3>1. route'[n] = route[n] /\ route[n] # s /\ route[n] \in Servers
      BY <1>3, <2>1 DEF McpInv, RestType
    <3>2. n \in listed[route[n]]
      BY <2>1, <3>1 DEF McpInv, RoutesAreListed
    <3> QED  BY <1>4, <3>1, <3>2
  <2> QED  BY <1>3, <1>4, <2>1 DEF RoutesAreListed
<1>6. /\ s \notin op.todo /\ op.bad \cap (op.todo \cup {s}) = {} /\ op.good \subseteq Names
      /\ \A n \in op.good : route[n] \in Servers \ (op.todo \cup op.bad \cup {s})
  BY DEF McpInv, GoodIsRouted, RestType, OpType
<1>7. \A n \in done.good : route'[n] \in Servers \ (op.todo \cup done.bad)
  BY <1>1, <1>3, <1>6
<1>8. /\ RestsWell /\ ReportOk
      /\ report' \in [tools : SUBSET Names, working : SUBSET Servers, failed : SUBSET Servers]
  BY <1>1, <1>2, <1>6, <1>7, ContinueRests
<1> QED  BY <1>3, <1>4, <1>5, <1>8 DEF RestsWell, RestType

LEMMA AnsweredIsGood == ASSUME McpInv, NEW s \in Servers, AnswerEnds(s) PROVE GoodStep
<1>1. /\ op.s = s /\ op.pc = "waiting" /\ owing' = owing \ {Proc(s)}
      /\ UNCHANGED <<held, live, greeted>>
  BY DEF AnswerEnds
<1>2. ProcsType /\ NoOrphanProcess /\ HeldOk(s) /\ process[s] # 0 /\ initialized[s]
  BY <1>1, Before DEF Waiting
<1>3. RestsWell /\ RestType' /\ RoutesAreListed' /\ ReportOk
  <2>1. CASE op' = NoOp /\ UNCHANGED <<route, report, listed>>
    BY <2>1, IdleRests DEF RestsWell, RestType, McpInv, RoutesAreListed, ReportOk
  <2>2. ASSUME NEW names \in SUBSET Offers[s], op.kind \in Discoveries,
               Listed(s, op.found \cup names)
        PROVE  RestsWell /\ RestType' /\ RoutesAreListed' /\ ReportOk
    <3>1. op.found \cup names \in SUBSET Names
      BY DEF McpInv, RestType, OpType
    <3> QED  BY <1>1, <2>2, <3>1, ListedRests
  <2> QED  BY <2>1, <2>2 DEF AnswerEnds
<1>4. ProcsType' /\ NoOrphanProcess' /\ Frame(s)
  BY <1>1, <1>2, AnswerEffect
<1>5. process'[s] = process[s] /\ initialized'[s] = initialized[s] /\ Proc(s)' = Proc(s)
  BY <1>1 DEF held, Proc
<1>6. HeldOk(s)' /\ OwesOk(s)' /\ LinkOf(s) = "asked" /\ LinkOf(s)' = "ready"
  BY <1>1, <1>2, <1>3, <1>5 DEF RestsWell, HeldOk, OwesOk, LinkOf
<1>7. /\ \A t \in Servers : HeldOk(t)' /\ OwesOk(t)'
      /\ links' = [links EXCEPT ![s] = LinkOf(s)']
  BY <1>1, <1>3, <1>4, <1>6, ServerStep DEF RestsWell, Waiting
<1>8. LinkMoves
  BY <1>6, <1>7, LinkStepMoves
<1>9. McpInv'
  BY <1>3, <1>4, <1>7 DEF McpInv, RestsWell
<1> QED  BY <1>3, <1>8, <1>9 DEF GoodStep

LEMMA FailureIsGood ==
    ASSUME McpInv, NEW s \in Servers, SpawnFails(s) \/ AskFails(s) PROVE GoodStep
<1>1. CASE SpawnFails(s)
  BY <1>1, AfterErrorIsGood DEF SpawnFails, Errors
<1>2. CASE AskFails(s)
  BY <1>2, ReadErrorsAre, AfterErrorIsGood DEF AskFails
<1> QED  BY <1>1, <1>2

LEMMA ShutdownIsGood == ASSUME McpInv, NEW s \in Servers, Shutdown(s) PROVE GoodStep
<1>1. /\ op.pc = "shut" /\ op.kind = "shutdown" /\ Reset(s) /\ op \in OpType
      /\ op' = IF op.todo = {s} THEN NoOp ELSE [op EXCEPT !.todo = @ \ {s}]
      /\ UNCHANGED <<route, report, listed>>
  BY DEF Shutdown, McpInv, OpOk, RestType
<1>2. /\ op' \in OpType /\ GoodIsRouted' /\ OpOk' /\ op'.pc \notin Waiting
  <2>1. CASE op' = NoOp
    BY <2>1, IdleRests DEF RestsWell, Waiting
  <2>2. CASE op' = [op EXCEPT !.todo = op.todo \ {s}]
    <3>1. op' \in OpType /\ op'.kind = "shutdown" /\ op'.pc = "shut"
      BY <1>1, <2>2 DEF OpType
    <3> QED  BY <3>1 DEF GoodIsRouted, OpOk, Discoveries, Waiting
  <2> QED  BY <1>1, <2>1, <2>2
<1>3. /\ ProcsType' /\ NoOrphanProcess' /\ Frame(s)
      /\ HeldOk(s)' /\ OwesOk(s)' /\ LinkOf(s)' = "down"
  BY <1>1, ResetEffect DEF McpInv
<1>4. /\ \A t \in Servers : HeldOk(t)' /\ OwesOk(t)'
      /\ links' = [links EXCEPT ![s] = LinkOf(s)']
  BY <1>1, <1>2, <1>3, ServerStep DEF Waiting
<1>5. LinkMoves
  BY <1>3, <1>4, LinkStepMoves
<1>6. McpInv'
  BY <1>1, <1>2, <1>3, <1>4 DEF McpInv, RestType, RoutesAreListed
<1> QED  BY <1>1, <1>5, <1>6 DEF GoodStep, ReportOk

LEMMA ShutdownFailsIsGood == ASSUME McpInv, NEW s \in Servers, ShutdownFails(s) PROVE GoodStep
<1>1. /\ live' \subseteq live /\ op' = NoOp /\ op.pc \notin Waiting
      /\ UNCHANGED <<held, route, report, greeted, owing, listed>>
  BY DEF ShutdownFails, Waiting
<1>2. RestsWell /\ op'.pc \notin Waiting
  BY <1>1, IdleRests DEF RestsWell, Waiting
<1>3. ProcsType' /\ RestType' /\ NoOrphanProcess'
  BY <1>1, <1>2 DEF RestsWell, McpInv, ProcsType, RestType, NoOrphanProcess, held
<1>4. \A t \in Servers : HeldOk(t)' /\ OwesOk(t)' /\ LinkOf(t)' = LinkOf(t)
  BY <1>1, <1>2 DEF McpInv, HeldOk, OwesOk, LinkOf, held, Proc, Waiting
<1>5. UNCHANGED links
  BY <1>4 DEF links
<1>6. OpOk' /\ GoodIsRouted' /\ RoutesAreListed' /\ ReportOk
  BY <1>1, <1>2 DEF RestsWell, McpInv, RoutesAreListed, ReportOk
<1> QED  BY <1>3, <1>4, <1>5, <1>6 DEF GoodStep, McpInv, LinkMoves

-----------------------------------------------------------------------------
(***************************************************************************)
(* Operations begin, processes exit.                                       *)
(***************************************************************************)

\* An operation that begins waits for nothing yet.
LEMMA BeginningIsGood ==
    ASSUME McpInv, op.kind = "none", NEW new \in OpType, op' = new,
           new.pc \in {"ensure", "shut"}, new.kind # "none",
           new.pc = "ensure" => new.s \in Servers, new.pc = "shut" => new.kind = "shutdown",
           new.kind = "call" => new.sent = 0,
           new.kind \in Discoveries => new.s \in Servers \ new.todo /\ new.bad = {},
           new.good = {}, report' = NoReport, UNCHANGED <<held, route, procs, listed>>
    PROVE  GoodStep
<1>1. op.pc = "idle" /\ op.pc \notin Waiting /\ op'.pc \notin Waiting
  BY DEF McpInv, OpOk, Waiting
<1>2. ASSUME NEW s \in Servers PROVE HeldOk(s)' /\ OwesOk(s)' /\ LinkOf(s)' = LinkOf(s)
  BY <1>1 DEF McpInv, HeldOk, OwesOk, LinkOf, Proc, held, procs, Waiting
<1>3. UNCHANGED links
  BY <1>2 DEF links
<1>4. ProcsType' /\ NoOrphanProcess' /\ RoutesAreListed'
  BY DEF McpInv, ProcsType, NoOrphanProcess, RoutesAreListed, held, procs
<1>5. NoReport \in [tools : SUBSET Names, working : SUBSET Servers, failed : SUBSET Servers]
      /\ NoReport.tools = {}
  BY DEF NoReport
<1>6. RestType' /\ ReportOk
  BY <1>5 DEF McpInv, RestType, ReportOk
<1>7. OpOk' /\ GoodIsRouted'
  BY DEF OpOk, GoodIsRouted, Waiting
<1> QED  BY <1>2, <1>3, <1>4, <1>6, <1>7 DEF GoodStep, McpInv, LinkMoves

LEMMA BeginIsGood == ASSUME McpInv, NEW kind \in Kinds, Begin(kind) PROVE GoodStep
<1>1. op.kind = "none" /\ report' = NoReport /\ UNCHANGED <<held, route, procs, listed>>
  BY DEF Begin
<1>2. CASE kind \in Discoveries
  <2> DEFINE first == First(Servers)
             new == [NoOp EXCEPT !.kind = kind, !.pc = "ensure", !.todo = Servers \ {first},
                                 !.s = first]
  <2>1. Servers # {} /\ op' = new
    BY <1>2 DEF Begin, Discoveries
  <2>2. first \in Servers
    BY <2>1, FirstIsOne
  <2> HIDE DEF first
  <2>3. /\ new \in OpType /\ new.kind = kind /\ new.pc = "ensure" /\ new.s = first
        /\ new.todo = Servers \ {first} /\ new.bad = {} /\ new.good = {}
    BY <2>2, NoOpRecord DEF NoOp, OpType, OpPc
  <2> HIDE DEF new
  <2> QED  BY <1>1, <1>2, <2>1, <2>2, <2>3, BeginningIsGood DEF Discoveries
<1>3. CASE kind \in {"list", "read"}
  <2>1. PICK s \in Servers : op' = [NoOp EXCEPT !.kind = kind, !.pc = "ensure", !.s = s]
    BY <1>3 DEF Begin, Discoveries
  <2> DEFINE new == [NoOp EXCEPT !.kind = kind, !.pc = "ensure", !.s = s]
  <2>2. /\ new \in OpType /\ new.kind = kind /\ new.pc = "ensure" /\ new.s = s /\ new.good = {}
    BY NoOpRecord DEF NoOp, OpType, OpPc, Kinds
  <2>3. op' = new
    BY <2>1
  <2> HIDE DEF new
  <2> QED  BY <1>1, <1>3, <2>2, <2>3, BeginningIsGood DEF Discoveries
<1>4. CASE kind = "shutdown"
  <2> DEFINE new == [NoOp EXCEPT !.kind = kind, !.pc = "shut", !.todo = Servers]
  <2>1. op' = new
    BY <1>4 DEF Begin, Discoveries
  <2>2. /\ new \in OpType /\ new.kind = kind /\ new.pc = "shut" /\ new.good = {}
    BY NoOpRecord DEF NoOp, OpType, OpPc, Kinds
  <2> HIDE DEF new
  <2> QED  BY <1>1, <1>4, <2>1, <2>2, BeginningIsGood DEF Discoveries
<1> QED  BY <1>2, <1>3, <1>4 DEF Begin

LEMMA BeginCallIsGood == ASSUME McpInv, NEW n \in Names, BeginCall(n) PROVE GoodStep
<1> DEFINE new == [NoOp EXCEPT !.kind = "call", !.pc = "ensure", !.s = route[n]]
<1>1. /\ op.kind = "none" /\ report' = NoReport /\ UNCHANGED <<held, route, procs, listed>>
      /\ op' = new /\ route[n] \in Servers
  BY DEF BeginCall, McpInv, RestType
<1>2. /\ new \in OpType /\ new.kind = "call" /\ new.pc = "ensure" /\ new.s = route[n]
      /\ new.sent = 0 /\ new.good = {}
  BY <1>1, NoOpRecord DEF NoOp, OpType, OpPc, Kinds
<1> HIDE DEF new
<1> QED  BY <1>1, <1>2, BeginningIsGood DEF Discoveries

LEMMA ExitIsGood == ASSUME McpInv, NEW p, Exit(p) PROVE GoodStep
<1>1. live' \subseteq live /\ UNCHANGED <<held, route, op, report, greeted, owing, listed>>
  BY DEF Exit
<1>2. UNCHANGED links
  BY <1>1 DEF links, LinkOf, held, Proc
<1>3. ProcsType' /\ RestType' /\ NoOrphanProcess'
  BY <1>1 DEF McpInv, ProcsType, RestType, NoOrphanProcess, held
<1>4. \A s \in Servers : HeldOk(s)' /\ OwesOk(s)'
  BY <1>1 DEF McpInv, HeldOk, OwesOk, held, Proc
<1>5. OpOk' /\ GoodIsRouted' /\ RoutesAreListed'
  BY <1>1 DEF McpInv, OpOk, GoodIsRouted, RoutesAreListed, held
<1> QED  BY <1>1, <1>2, <1>3, <1>4, <1>5 DEF GoodStep, McpInv, LinkMoves, ReportOk

-----------------------------------------------------------------------------

LEMMA McpInvInit == McpInit => McpInv
<1> SUFFICES ASSUME McpInit PROVE McpInv
  OBVIOUS
<1>1. ProcsType /\ NoOrphanProcess
  BY DEF McpInit, ProcsType, NoOrphanProcess
<1>2. RestType
  BY NoOpRecord DEF McpInit, RestType, NoReport
<1>3. \A s \in Servers : HeldOk(s) /\ OwesOk(s)
  BY DEF McpInit, HeldOk, OwesOk
<1>4. OpOk /\ GoodIsRouted /\ RoutesAreListed
  BY NoOpRecord DEF McpInit, OpOk, GoodIsRouted, RoutesAreListed, Discoveries, Waiting, OpPc
<1> QED  BY <1>1, <1>2, <1>3, <1>4 DEF McpInv

LEMMA EveryStepIsGood == McpInv /\ [McpNext]_mcpVars => GoodStep
<1> SUFFICES ASSUME McpInv, [McpNext]_mcpVars PROVE GoodStep
  OBVIOUS
<1>1. CASE UNCHANGED mcpVars
  <2>1. UNCHANGED links
    BY <1>1 DEF mcpVars, held, procs, links, LinkOf, Proc
  <2>2. McpInv'
    BY <1>1 DEF mcpVars, held, procs, McpInv, ProcsType, RestType, NoOrphanProcess, HeldOk, OwesOk,
       Proc, OpOk, GoodIsRouted, RoutesAreListed
  <2> QED  BY <1>1, <2>1, <2>2 DEF mcpVars, GoodStep, LinkMoves, ReportOk
<1>2. ASSUME NEW s \in Servers, ManagerStep(s) PROVE GoodStep
  BY <1>2, EnsureReadyIsGood, HasProcessIsGood, SpawnIsGood, SendInitializeIsGood, GreetedIsGood,
     GreetingFailsIsGood, SendRequestIsGood, PageIsGood, AnsweredIsGood, FailureIsGood,
     ShutdownIsGood, ShutdownFailsIsGood DEF ManagerStep
<1> QED  BY <1>1, <1>2, BeginIsGood, BeginCallIsGood, ExitIsGood DEF McpNext

LEMMA McpInvHolds == McpSpec => []McpInv
<1>1. McpInv /\ [McpNext]_mcpVars => McpInv'
  BY EveryStepIsGood DEF GoodStep
<1> QED  BY <1>1, McpInvInit, PTL DEF McpSpec

\* Types hold for any servers, tools and pages.
THEOREM McpTypes == McpSpec => []McpTypeOK
<1>1. McpInv => McpTypeOK
  BY DEF McpInv, ProcsType, RestType, McpTypeOK
<1> QED  BY <1>1, McpInvHolds, PTL

\* No process is left behind, whatever fails (reset_server, shutdown).
THEOREM NoneLeftBehind == McpSpec => []NoOrphanProcess
<1>1. McpInv => NoOrphanProcess
  BY DEF McpInv
<1> QED  BY <1>1, McpInvHolds, PTL

\* A tool call is sent once at most (call_tool).
THEOREM CallsAreNotRepeated == McpSpec => []CallSentOnce
<1>1. McpInv => CallSentOnce
  BY DEF McpInv, OpOk, CallSentOnce
<1> QED  BY <1>1, McpInvHolds, PTL

\* Names go to servers that listed them (discover_tools, call_tool).
THEOREM RoutesHold == McpSpec => []RoutesAreListed
<1>1. McpInv => RoutesAreListed
  BY DEF McpInv
<1> QED  BY <1>1, McpInvHolds, PTL

\* What a report offers is routed to a server that works
\* (discover_tools_best_effort).
THEOREM ReportsHold == McpSpec => ReportedToolsAreRouted
<1>1. McpInv /\ [McpNext]_mcpVars
      => [report' # report => \A n \in report'.tools : route'[n] \in report'.working]_mcpVars
  BY EveryStepIsGood DEF GoodStep, ReportOk
<1> QED  BY <1>1, McpInvHolds, PTL DEF McpSpec, ReportedToolsAreRouted

\* The manager keeps what McpLink promises the server processes.
THEOREM ManagerImplementsLink == McpSpec => ImplementsLink
<1>1. McpInit => Link!Init
  BY DEF McpInit, Link!Init, LinkOf
<1>2. McpInv /\ [McpNext]_mcpVars => [\E s \in Servers : Link!LinkStep(s)]_links
  BY EveryStepIsGood DEF GoodStep, LinkMoves
<1> QED  BY <1>1, <1>2, McpInvHolds, PTL DEF McpSpec, ImplementsLink, Link!Spec, links
=============================================================================
