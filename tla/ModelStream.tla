------------------------------ MODULE ModelStream ------------------------------
(***************************************************************************)
(* One request to the model server: its retries, the chunks of its         *)
(* streamed answer, the events the client makes of them                    *)
(* (api/src/providers/openai_compat.rs), and the message its two readers   *)
(* make of the events: the server's bridge                                 *)
(* (dreamforge-server/src/agent_bridge.rs) and the sub-agent               *)
(* (tools/src/lib.rs).                                                     *)
(*                                                                         *)
(* An answer is in blocks: block 0 is its text, the others are its tool    *)
(* calls.  Text and arguments are numbered pieces.  The transport keeps    *)
(* order, and the parser puts frames together wherever they were split: a  *)
(* chunk arrives when its frame is complete, and one cut off never does.   *)
(*                                                                         *)
(* The loops of ingest_chunk and of finish are taken one event at a time,  *)
(* and the reader reads an event as it is made: the code reads the events  *)
(* of a chunk when it is through with it, and neither side looks at the    *)
(* other.  Nothing else moves until a loop is at its end, but an abort.    *)
(***************************************************************************)
EXTENDS Integers, FiniteSets, Sequences

CONSTANTS
    MaxRetries,     \* OpenAiCompatClient::max_retries
    MaxStreamCalls, \* bound: tool calls of one answer
    MaxPieces       \* bound: pieces of a text, and of a call's arguments

ASSUME StreamAssumption ==
    MaxRetries \in Nat /\ MaxStreamCalls \in Nat /\ MaxPieces \in Nat

VARIABLES
    reader,   \* who reads: "server" or "agent", for good
    stage,    \* "sending", "streaming", "finishing", "message", "failed"
    whole,    \* the request asks for the whole answer at once
    attempts, \* requests sent, in this loop of retries
    said,     \* history: what has arrived of what the model server said
    reason,   \* StreamState::stop_reason, as the model server gave it
    begun,    \* StreamState::message_started
    block,    \* the text's flags and tool_calls of StreamState
    todo,     \* deltas of the last chunk that are still to be taken up
    at,       \* the block of the delta in hand
    events,   \* history: the events so far
    open,     \* the reader: calls whose block has started and not stopped
    gathered,     \* the reader: the arguments gathered for each of them
    out       \* what the reader hands to the turn

request    == <<reader, whole, attempts>>
heard      == <<said, reason, begun>>
reading    == <<open, gathered, out>>
streamVars == <<request, stage, heard, block, todo, at, events, reading>>

Blocks == 0..MaxStreamCalls
Calls  == 1..MaxStreamCalls

Unsaid   == [named |-> FALSE, args |-> 0]
NewBlock == [named |-> FALSE, args |-> 0, emitted |-> 0, started |-> FALSE, stopped |-> FALSE]

StreamInit ==
    /\ reader \in {"server", "agent"}
    /\ stage = "sending" /\ whole = FALSE /\ attempts = 0
    /\ said = [i \in Blocks |-> Unsaid] /\ reason = "none" /\ begun = FALSE
    /\ block = [i \in Blocks |-> NewBlock] /\ todo = {} /\ at = 0
    /\ events = <<>>
    /\ open = {} /\ gathered = [i \in Calls |-> <<>>] /\ out = <<>>

-----------------------------------------------------------------------------
(***************************************************************************)
(* The request: send_with_retry.                                           *)
(***************************************************************************)

\* A failure that may be retried is, MaxRetries times.
SendRetried ==
    /\ stage = "sending" /\ attempts < MaxRetries
    /\ attempts' = attempts + 1
    /\ UNCHANGED <<reader, whole, stage, heard, block, todo, at, events, reading>>

SendFails ==
    /\ stage = "sending"
    /\ stage' = "failed"
    /\ UNCHANGED <<request, heard, block, todo, at, events, reading>>

StreamOpens ==
    /\ stage = "sending" /\ ~whole
    /\ stage' = "streaming"
    /\ UNCHANGED <<request, heard, block, todo, at, events, reading>>

\* The sub-agent's second request, for the whole answer, is answered.
WholeAnswer ==
    /\ stage = "sending" /\ whole
    /\ stage' = "message"
    /\ UNCHANGED <<request, heard, block, todo, at, events, reading>>

-----------------------------------------------------------------------------
(***************************************************************************)
(* The readers, and the content they hand to the turn.                     *)
(***************************************************************************)

Text(n)        == [kind |-> "text", n |-> n, pieces |-> <<>>]
Use(i, pieces) == [kind |-> "use", n |-> i, pieces |-> pieces]

\* The server's bridge keeps one tool call at a time, and another start
\* replaces it; the sub-agent keeps the calls by the index of their block.
ReadStart(i) ==
    IF i = 0 THEN UNCHANGED reading
    ELSE /\ open' = IF reader = "server" THEN {i} ELSE open \cup {i}
         /\ gathered' = [gathered EXCEPT ![i] = <<>>]
         /\ UNCHANGED out

\* The call that a delta or a stop of block i is about: for the bridge the one
\* it keeps, whatever the block.
Meant(i) == IF reader = "server" THEN open ELSE open \cap {i}

\* Text goes on at once, arguments are gathered.
ReadDelta(i, pieces) ==
    IF i = 0 THEN out' = Append(out, Text(block[0].args)) /\ UNCHANGED <<open, gathered>>
    ELSE /\ gathered' = [j \in Calls |-> IF j \in Meant(i) THEN gathered[j] \o pieces ELSE gathered[j]]
         /\ UNCHANGED <<open, out>>

ReadStop(i) ==
    \/ Meant(i) = {} /\ UNCHANGED reading
    \/ \E j \in Meant(i) :
         /\ open' = open \ {j}
         /\ gathered' = [gathered EXCEPT ![j] = <<>>]
         /\ out' = Append(out, Use(j, gathered[j]))

-----------------------------------------------------------------------------
(***************************************************************************)
(* The events of a block: it starts when it has a name, what has gathered  *)
(* is handed on, and it stops.  Text is its own name.                      *)
(***************************************************************************)

Event(kind, i, pieces) == [kind |-> kind, i |-> i, pieces |-> pieces]

Pieces(from, to) == [k \in 1..(to - from) |-> from + k]

CanStart(i)  == block[i].named /\ ~block[i].started
CanHandOn(i) == block[i].started /\ block[i].emitted < block[i].args
CanStop(i)   == block[i].started /\ ~CanHandOn(i) /\ ~block[i].stopped

StartBlock(i) ==
    /\ CanStart(i)
    /\ block' = [block EXCEPT ![i].started = TRUE]
    /\ events' = Append(events, Event("start", i, <<>>))
    /\ ReadStart(i)

\* Broken variant: what was handed on is handed on again.
HandOnFromStart(i) ==
    /\ CanHandOn(i)
    /\ block' = [block EXCEPT ![i].emitted = block[i].args]
    /\ events' = Append(events, Event("delta", i, Pieces(0, block[i].args)))
    /\ ReadDelta(i, Pieces(0, block[i].args))

HandOn(i) ==
    /\ CanHandOn(i)
    /\ block' = [block EXCEPT ![i].emitted = block[i].args]
    /\ events' = Append(events, Event("delta", i, Pieces(block[i].emitted, block[i].args)))
    /\ ReadDelta(i, Pieces(block[i].emitted, block[i].args))

\* Broken variant: that the block has stopped is not kept.
StopBlockAgain(i) ==
    /\ CanStop(i)
    /\ events' = Append(events, Event("stop", i, <<>>))
    /\ ReadStop(i)
    /\ UNCHANGED block

StopBlock(i) ==
    /\ CanStop(i)
    /\ block' = [block EXCEPT ![i].stopped = TRUE]
    /\ events' = Append(events, Event("stop", i, <<>>))
    /\ ReadStop(i)

-----------------------------------------------------------------------------
(***************************************************************************)
(* The chunks: ingest_chunk.                                               *)
(***************************************************************************)

\* "stop" stands for every other reason: none is looked at.
Reasons == {"none", "tool_calls", "stop"}

\* A delta of a call brings its name or a piece of its arguments, or both; one
\* of the text is a piece.
Delta == {d \in [index : Blocks, name : BOOLEAN, piece : 0..1] :
             /\ d.name \/ d.piece = 1
             /\ d.index = 0 => d.name /\ d.piece = 1}

\* A chunk has one delta of each block at most.
Chunk == [deltas : {D \in SUBSET Delta : \A d, e \in D : d.index = e.index => d = e},
          reason : Reasons]

\* finish_reason "tool_calls" stops calls, and never the text.
Stoppable(i) == i # 0 /\ reason = "tool_calls" /\ CanStop(i)

\* The delta in hand has events to come.
AtWork == CanStart(at) \/ CanHandOn(at) \/ Stoppable(at)

\* ingest_chunk has returned.
Idle == todo = {} /\ ~AtWork /\ \A i \in Blocks : ~Stoppable(i)

\* The pieces that deltas bring for a block.
Brought(deltas, i) == IF \E d \in deltas : d.index = i /\ d.piece = 1 THEN 1 ELSE 0

\* A call is begun after those before it, and named once; after a finish
\* reason the model server says no more.
MaySay(d) ==
    /\ said[d.index].args + d.piece <= MaxPieces
    /\ d.index > 1 => said[d.index - 1] # Unsaid
    /\ d.index > 0 /\ d.name => ~said[d.index].named

ChunkArrives(chunk) ==
    /\ stage = "streaming" /\ Idle /\ reason = "none"
    /\ \A d \in chunk.deltas : MaySay(d)
    /\ said' = [i \in Blocks |->
                  [named |-> said[i].named \/ \E d \in chunk.deltas : d.index = i /\ d.name,
                   args  |-> said[i].args + Brought(chunk.deltas, i)]]
    /\ reason' = chunk.reason /\ begun' = TRUE
    /\ todo' = chunk.deltas /\ at' = 0
    /\ UNCHANGED <<request, stage, block, events, reading>>

Applied(b, d) == [b EXCEPT !.named = b.named \/ d.name, !.args = b.args + d.piece]

\* The text first, then the calls, in whatever order the chunk has them.
TakeUp(d) ==
    /\ stage = "streaming" /\ ~AtWork
    /\ d.index # 0 => \A e \in todo : e.index # 0
    /\ todo' = todo \ {d} /\ at' = d.index
    /\ block' = [block EXCEPT ![d.index] = Applied(@, d)]
    /\ UNCHANGED <<request, stage, heard, events, reading>>

\* The events of the delta in hand.
Ingest ==
    /\ stage = "streaming"
    /\ StartBlock(at) \/ HandOn(at) \/ (Stoppable(at) /\ StopBlock(at))
    /\ UNCHANGED <<request, stage, heard, todo, at>>

\* Then the calls that are still open stop, in the order of their indexes.
StopStarted(i) ==
    /\ stage = "streaming" /\ todo = {} /\ ~AtWork
    /\ Stoppable(i) /\ \A j \in 0..(i - 1) : ~Stoppable(j)
    /\ StopBlock(i)
    /\ UNCHANGED <<request, stage, heard, todo, at>>

-----------------------------------------------------------------------------
(***************************************************************************)
(* The end: finish, and the message.                                       *)
(***************************************************************************)

\* The stream ends, whatever has arrived: after [DONE], or cut off, a last
\* frame without its end being dropped.
StreamEnds ==
    /\ stage = "streaming" /\ Idle
    /\ stage' = "finishing"
    /\ UNCHANGED <<request, heard, block, todo, at, events, reading>>

\* Events of the block are still to be made when the stream is over.
Unfinished(i) == CanStart(i) \/ CanHandOn(i) \/ CanStop(i)

\* finish: every block that is open stops, in the order of the indexes.
Finish(i) ==
    /\ stage = "finishing"
    /\ \A j \in 0..(i - 1) : ~Unfinished(j)
    /\ StartBlock(i) \/ HandOn(i) \/ StopBlock(i)
    /\ UNCHANGED <<request, stage, heard, todo, at>>

\* A message that has begun ends, whatever ended the stream, and it is an error
\* if it is empty.  If none has begun, that is one too, but the sub-agent asks
\* again, for the whole answer.
Build ==
    /\ stage = "finishing" /\ \A i \in Blocks : ~Unfinished(i)
    /\ \/ /\ begun
          /\ events' = Append(events, Event("end", 0, <<>>))
          /\ stage' = IF out = <<>> THEN "failed" ELSE "message"
          /\ UNCHANGED <<whole, attempts>>
       \/ /\ ~begun /\ reader = "agent"
          /\ stage' = "sending" /\ whole' = TRUE /\ attempts' = 0
          /\ UNCHANGED events
       \/ /\ ~begun /\ reader = "server"
          /\ stage' = "failed"
          /\ UNCHANGED <<events, whole, attempts>>
    /\ UNCHANGED <<reader, heard, block, todo, at, reading>>

\* The transport fails, a frame is no chunk, or the server's user aborts, which
\* is looked at with each event.
StreamBreaks ==
    /\ stage = "streaming" \/ (stage = "finishing" /\ reader = "server")
    /\ stage' = "failed"
    /\ UNCHANGED <<request, heard, block, todo, at, events, reading>>

StreamNext ==
    \/ SendRetried \/ SendFails \/ StreamOpens \/ WholeAnswer
    \/ \E chunk \in Chunk : ChunkArrives(chunk)
    \/ \E d \in todo : TakeUp(d)
    \/ Ingest
    \/ \E i \in Blocks : StopStarted(i)
    \/ StreamEnds
    \/ \E i \in Blocks : Finish(i)
    \/ Build \/ StreamBreaks

StreamSpec == StreamInit /\ [][StreamNext]_streamVars

-----------------------------------------------------------------------------
(***************************************************************************)
(* What is owed to the turn.                                               *)
(***************************************************************************)

UsesOf(message, i) == {k \in DOMAIN message : message[k].kind = "use" /\ message[k].n = i}

\* The message is what arrived: all of the text in order, and each call that
\* was named once, with all of its arguments.
TextsAreSaid(message) ==
    /\ \A p \in 1..said[0].args : \E k \in DOMAIN message : message[k] = Text(p)
    /\ \A k \in DOMAIN message : message[k].kind = "text" => message[k].n \in 1..said[0].args
    /\ \A k, l \in DOMAIN message :
         k < l /\ message[k].kind = "text" /\ message[l].kind = "text" => message[k].n < message[l].n

CallsAreSaid(message) ==
    \A i \in Calls :
        /\ said[i].named <=> UsesOf(message, i) # {}
        /\ \A k \in UsesOf(message, i) : message[k].pieces = Pieces(0, said[i].args)
        /\ \A k, l \in UsesOf(message, i) : k = l

NamedCalls == {i \in Calls : said[i].named}

\* The turn gets what the model server sent, however text, names, arguments
\* and ends of calls are spread over the chunks (openai_compat.rs:353-498): the
\* sub-agent always, the server if there is one call at most.
MessageIsWhatArrived ==
    stage = "message" /\ ~whole =>
        /\ TextsAreSaid(out)
        /\ reader = "agent" \/ Cardinality(NamedCalls) <= 1 => CallsAreSaid(out)

\* The server's bridge, too, hands on each call it is sent: "Store the tool
\* call info; we'll emit ToolUse when ContentBlockStop arrives"
\* (agent_bridge.rs:310).
EachCallIsEmitted ==
    stage = "message" /\ ~whole => \A i \in NamedCalls : UsesOf(out, i) # {}

\* Each block starts once, before what it holds, and stops once, after it, and
\* the end of the message comes after all of them: what every reader of the
\* events relies on (openai_compat.rs:353-498).
BlocksAreBracketed ==
    \A k \in DOMAIN events :
        LET e == events[k]
            Before(kind) == {l \in 1..(k - 1) : events[l].kind = kind /\ events[l].i = e.i}
        IN  /\ e.kind = "start" => Before("start") = {}
            /\ e.kind \in {"delta", "stop"} => Before("start") # {} /\ Before("stop") = {}
            /\ e.kind = "end" =>
                 \A l \in 1..k : events[l].kind = "start" =>
                   \E n \in l..k : events[n].kind = "stop" /\ events[n].i = events[l].i
=============================================================================
