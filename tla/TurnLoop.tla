------------------------------- MODULE TurnLoop -------------------------------
(***************************************************************************)
(* One conversation and the turns taken in it: the loop of model requests  *)
(* and tool calls (ConversationRuntime::run_turn), the detector around the *)
(* tools (LoopDetectingExecutor) and the compaction of the transcript.     *)
(*                                                                         *)
(* Two callers use it, and both build a runtime for every turn.  The REPL  *)
(* keeps the whole transcript, with tool calls and results, and takes it   *)
(* over when the turn succeeded.  The server keeps texts only, stores the  *)
(* user's message before the turn and the answers after it, and has the    *)
(* detector around its tools.  In SessionServer a turn is its effect on    *)
(* sessions and prompts; here it is its transcript.                        *)
(***************************************************************************)
EXTENDS Naturals, Sequences

CONSTANTS
    Tools,         \* names of tools
    MaxIterations, \* model requests a turn may make
    MaxSame,       \* LoopDetectionConfig::max_consecutive_same_tool
    MaxErrors,     \* LoopDetectionConfig::max_consecutive_errors
    MaxTotal,      \* LoopDetectionConfig::max_total_tool_calls
    Preserve,      \* CompactionConfig::preserve_recent_messages
    NoTool,        \* no tool has been called yet
    MaxUses,       \* bound: tool uses in one message of the model
    MaxTurns       \* bound: turns

ASSUME TurnAssumption ==
    /\ MaxIterations \in Nat
    /\ MaxSame \in Nat \ {0} /\ MaxErrors \in Nat \ {0} /\ MaxTotal \in Nat \ {0}
    /\ Preserve \in Nat \ {0}
    /\ NoTool \notin Tools
    /\ MaxUses \in Nat /\ MaxTurns \in Nat

VARIABLES
    caller,     \* "repl" or "server", for good
    pc,         \* idle, requesting, calling, over (the REPL has ended)
    turns,      \* turns started
    kept,       \* the transcript the caller keeps between turns
    messages,   \* Session::messages of the runtime of this turn
    iterations, \* requests made in this turn
    size,       \* tool uses of the message whose calls are under way
    next,       \* the first of them without a result
    det,        \* LoopDetectionState and `triggered`
    ran         \* history: the calls this turn's tools have run, in order

loop == <<iterations, size, next>>
vars == <<caller, pc, turns, kept, messages, loop, det, ran>>

-----------------------------------------------------------------------------
(***************************************************************************)
(* Transcripts.  A message with tool uses is told by how many it has, a    *)
(* result by which of the uses it answers (tool_use_id).                   *)
(***************************************************************************)
Message == [kind : {"summary", "user", "answer", "uses", "result"}, n : Nat]

User      == [kind |-> "user", n |-> 0]
Answer    == [kind |-> "answer", n |-> 0]
Summary   == [kind |-> "summary", n |-> 0]
Uses(n)   == [kind |-> "uses", n |-> n]
Result(k) == [kind |-> "result", n |-> k]

\* The summary of an earlier compaction does not count as compactable.
HasSummary(t) == t # <<>> /\ t[1].kind = "summary"

Compactable(t) == Len(t) - (IF HasSummary(t) THEN 1 ELSE 0) > Preserve

Recent(t) == SubSeq(t, Len(t) - Preserve + 1, Len(t))

\* Broken variant: an old summary is carried along instead of a new one.
CompactKeepsOldHead(t) ==
    IF ~Compactable(t) THEN t
    ELSE IF HasSummary(t) THEN Recent(t) ELSE <<Summary>> \o Recent(t)

\* The newest messages stay, whatever they are; the rest becomes the summary.
Compact(t) == IF Compactable(t) THEN <<Summary>> \o Recent(t) ELSE t

-----------------------------------------------------------------------------
(***************************************************************************)
(* The detector.                                                           *)
(***************************************************************************)
Call == [tool : Tools, failed : BOOLEAN]

Detector == [same : Nat, errors : Nat, total : Nat,
             last : Tools \cup {NoTool}, triggered : BOOLEAN]

FreshDetector == [same |-> 0, errors |-> 0, total |-> 0,
                  last |-> NoTool, triggered |-> FALSE]

\* Broken variant: a success does not end a row of errors.
RecordKeepsErrors(d, c) ==
    LET same   == IF d.last = c.tool THEN d.same + 1 ELSE 1
        errors == IF c.failed THEN d.errors + 1 ELSE d.errors
        total  == d.total + 1
    IN  [same |-> same, errors |-> errors, total |-> total, last |-> c.tool,
         triggered |-> same >= MaxSame \/ errors >= MaxErrors \/ total >= MaxTotal]

Record(d, c) ==
    LET same   == IF d.last = c.tool THEN d.same + 1 ELSE 1
        errors == IF c.failed THEN d.errors + 1 ELSE 0
        total  == d.total + 1
    IN  [same |-> same, errors |-> errors, total |-> total, last |-> c.tool,
         triggered |-> same >= MaxSame \/ errors >= MaxErrors \/ total >= MaxTotal]

-----------------------------------------------------------------------------
TypeOK ==
    /\ caller \in {"repl", "server"}
    /\ pc \in {"idle", "requesting", "calling", "over"}
    /\ turns \in Nat
    /\ kept \in Seq(Message)
    /\ messages \in Seq(Message)
    /\ iterations \in Nat /\ size \in Nat /\ next \in Nat
    /\ det \in Detector
    /\ ran \in Seq(Call)

Init ==
    /\ caller \in {"repl", "server"}
    /\ pc = "idle" /\ turns = 0
    /\ kept = <<>> /\ messages = <<>>
    /\ iterations = 0 /\ size = 0 /\ next = 0
    /\ det = FreshDetector /\ ran = <<>>

\* The runtime of the turn is gone.
TurnOver(state, transcript) ==
    /\ pc' = state
    /\ kept' = transcript
    /\ messages' = <<>>
    /\ iterations' = 0 /\ size' = 0 /\ next' = 0
    /\ det' = FreshDetector /\ ran' = <<>>

\* An error ends the REPL (`cli.run_turn(&trimmed)?`), with what it has kept,
\* and the turn of the server.
Fails ==
    /\ TurnOver(IF caller = "repl" THEN "over" ELSE "idle", kept)
    /\ UNCHANGED <<caller, turns>>

\* Only the REPL's session has a file, so only there a push can fail.
MayFailToPersist == caller = "repl"

-----------------------------------------------------------------------------
(***************************************************************************)
(* A turn starts.                                                          *)
(***************************************************************************)

\* What the caller has when the runtime is built: the server has stored the
\* user's message already, so the model sees it twice.
History == IF caller = "server" THEN Append(kept, User) ELSE kept

StartTurn ==
    /\ pc = "idle" /\ turns < MaxTurns
    /\ turns' = turns + 1
    /\ pc' = "requesting"
    /\ kept' = History
    /\ messages' = Append(History, User)
    /\ UNCHANGED <<caller, loop, det, ran>>

\* The user's message cannot be persisted, or the server's prompt leaves no
\* room in the context window.
StartFails ==
    /\ pc = "idle" /\ turns < MaxTurns
    /\ turns' = turns + 1
    /\ kept' = History
    /\ pc' = IF caller = "repl" THEN "over" ELSE "idle"
    /\ UNCHANGED <<caller, messages, loop, det, ran>>

-----------------------------------------------------------------------------
(***************************************************************************)
(* The loop.                                                               *)
(***************************************************************************)
IterationsSpent ==
    /\ pc = "requesting" /\ iterations >= MaxIterations
    /\ Fails

MayRequest == pc = "requesting" /\ iterations < MaxIterations

\* Provider error, abort, no MessageStop, no content; or the message of the
\* model cannot be persisted.
RequestFails == MayRequest /\ Fails

\* A message without tool uses ends the turn.  Usage is not counted here: the
\* threshold may or may not be reached.  The server drops the runtime and
\* its compacted session, and stores the answer.
FinalAnswer ==
    /\ MayRequest
    /\ \E reached \in BOOLEAN :
          LET t == Append(messages, Answer) IN
          TurnOver("idle", IF caller = "server" THEN Append(kept, Answer)
                           ELSE IF reached THEN Compact(t) ELSE t)
    /\ UNCHANGED <<caller, turns>>

RequestTools(n) ==
    /\ MayRequest
    /\ messages' = Append(messages, Uses(n))
    /\ iterations' = iterations + 1
    /\ pc' = "calling" /\ size' = n /\ next' = 1
    /\ UNCHANGED <<caller, turns, kept, det, ran>>

\* The result of the next use is pushed; after the last one the loop goes on.
PushResult ==
    /\ messages' = Append(messages, Result(next))
    /\ next' = next + 1
    /\ pc' = IF next = size THEN "requesting" ELSE "calling"
    /\ UNCHANGED <<caller, turns, kept, iterations, size>>

\* Broken variant: a call that was not run leaves no result.
DenyWithoutResult ==
    /\ pc = "calling"
    /\ next' = next + 1
    /\ pc' = IF next = size THEN "requesting" ELSE "calling"
    /\ UNCHANGED <<caller, turns, kept, messages, iterations, size, det, ran>>

\* The hook refused, cancelled or failed, or the policy or the user said no.
Deny ==
    /\ pc = "calling"
    /\ PushResult
    /\ UNCHANGED <<det, ran>>

\* The tool runs, and the detector of the server takes note.
Run(tool, failed) ==
    /\ pc = "calling"
    /\ ~det.triggered
    /\ LET c == [tool |-> tool, failed |-> failed] IN
         IF caller = "server"
         THEN det' = Record(det, c) /\ ran' = Append(ran, c)
         ELSE UNCHANGED <<det, ran>>
    /\ PushResult

\* Once triggered, a call is answered with the detector's error: the turn
\* goes on and the model may ask again.
Blocked ==
    /\ pc = "calling"
    /\ det.triggered
    /\ PushResult
    /\ UNCHANGED <<det, ran>>

\* The result cannot be appended to the session file: the tool has run.
ResultFails ==
    /\ pc = "calling" /\ MayFailToPersist
    /\ Fails

-----------------------------------------------------------------------------

\* /compact: the size in tokens decides beside the number of messages.
CompactCommand ==
    /\ pc = "idle" /\ caller = "repl" /\ Compactable(kept)
    /\ kept' = Compact(kept)
    /\ UNCHANGED <<caller, pc, turns, messages, loop, det, ran>>

Turn ==
    \/ IterationsSpent \/ RequestFails \/ FinalAnswer
    \/ \E n \in 1..MaxUses : RequestTools(n)
    \/ Deny \/ Blocked \/ ResultFails
    \/ \E tool \in Tools, failed \in BOOLEAN : Run(tool, failed)

Next == StartTurn \/ StartFails \/ Turn \/ CompactCommand

Spec == Init /\ [][Next]_vars

-----------------------------------------------------------------------------
(***************************************************************************)
(* Properties.                                                             *)
(***************************************************************************)

\* Every tool use of a transcript is followed by its results, all of them
\* and in order.
Answered(t) ==
    \A i \in DOMAIN t : t[i].kind = "uses" =>
        \A k \in 1..t[i].n : i + k \in DOMAIN t /\ t[i + k] = Result(k)

\* What a model is sent, and what the caller keeps, has no tool use without
\* its result, whatever was refused, blocked, failed or compacted before
\* (conversation.rs:296-485, compact.rs:96-139).
NoUnansweredUse ==
    /\ Answered(kept)
    /\ pc = "requesting" => Answered(messages)

\* A result stands behind its tool use, or among the first messages after a
\* summary that has swallowed it: compaction cuts between a use and its
\* results (compact.rs:109-114), and nothing else separates them.
HasCall(t, i) ==
    \/ \E j \in 1..i - 1 : t[j].kind = "uses" /\ i - j = t[i].n /\ t[i].n <= t[j].n
    \/ HasSummary(t) /\ \A k \in 2..i : t[k].kind = "result"

ResultsHaveCalls ==
    \A t \in {kept, messages} : \A i \in DOMAIN t : t[i].kind = "result" => HasCall(t, i)

\* A loop, as LoopDetectionConfig describes it: the k-th call is the last of
\* too many calls of one tool in a row, of errors in a row, or in all.
Loop(r, k) ==
    \/ k >= MaxSame /\ \A j \in k - MaxSame + 1..k : r[j].tool = r[k].tool
    \/ k >= MaxErrors /\ \A j \in k - MaxErrors + 1..k : r[j].failed
    \/ k >= MaxTotal

\* The tools of the server run no call after the one that makes a loop, and
\* what the counters find is a loop (local_conversation.rs:59-164).
NoCallAfterLoop ==
    /\ \A k \in DOMAIN ran : Loop(ran, k) => k = Len(ran)
    /\ det.triggered <=> \E k \in DOMAIN ran : Loop(ran, k)

\* local_conversation.rs:26-31, limits "before aborting", and the bridge's
\* "Agent loop detected ... Turn ended early" (agent_bridge.rs:618-631): when
\* the detector has fired, the turn asks the model for no more tool calls.
LoopEndsTurn == [][\A n \in 1..MaxUses : RequestTools(n) => ~det.triggered]_vars
=============================================================================
