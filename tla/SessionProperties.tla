--------------------------- MODULE SessionProperties ---------------------------
(***************************************************************************)
(* What the DreamForge server owes its users, stated over SessionServer.   *)
(***************************************************************************)
EXTENDS SessionServer

-----------------------------------------------------------------------------
(***************************************************************************)
(* Aborts.                                                                 *)
(***************************************************************************)

\* ACTIVE_QUERIES never holds the signal of a query of another session, nor
\* of one that has been cleaned up: an abort cannot hit a stranger
\* (run_query's insert and remove, agent_bridge.rs:574-598).
ActiveTargetsRunning ==
    \A s \in Sessions : active[s] # None =>
        /\ query[active[s]].pc \in Running
        /\ query[active[s]].sid = s

\* The abort flag of a query only goes up, and only in the step of a
\* connection of its own session (signal_abort, agent_bridge.rs:49-58).
OnlyItsSessionAborts ==
    [][\A q \in Queries : query'[q].aborted # query[q].aborted =>
          /\ query'[q].aborted
          /\ \E c \in Conns : conn[c].pc = "signal" /\ conn[c].sid = query[q].sid]_vars

\* With one client that waits for its answers, an abort reaches the query of
\* its session that has registered and is still at work.
AbortReachesRegistered ==
    [][\A c \in Conns, q \in Queries :
          /\ SignalAbort(c)
          /\ query[q].sid = conn[c].sid
          /\ query[q].pc \in Running
          => query'[q].aborted]_vars

-----------------------------------------------------------------------------
(***************************************************************************)
(* Permission prompts.                                                     *)
(***************************************************************************)

\* A thread that waits for the user can still be answered, and no answer is
\* kept for a thread that does not wait: PENDING_PERMISSIONS has exactly the
\* current request of each thread blocked in decide (agent_bridge.rs:183-215).
NoOrphanPrompt ==
    pending = {<<q, query[q].ask>> :
                  q \in {p \in Queries : query[p].pc = "asking" /\ query[p].reply = "none"}}

\* A call runs on a user's word only if the first reply to its own request
\* allowed it: late, repeated and contradicting replies change nothing
\* (resolve_permission removes the sender, agent_bridge.rs:165-173).
FirstReplyRules ==
    \A q \in Queries : query[q].pc = "executing" /\ query[q].via = "reply" =>
        <<q, query[q].ask>> \in granted \ refused

-----------------------------------------------------------------------------
(***************************************************************************)
(* Sessions, their status and their files.                                 *)
(***************************************************************************)

\* The query was accepted by the process that runs now.
OfThisProcess(q) == query[q].pc \in InFlight \cup {"done"}

\* After a restart no session is Active before a query of it is accepted: the
\* recovery leaves none behind and nothing a client does but a message makes
\* one (lib.rs:117-136).
ActiveMeansAccepted ==
    \A s \in Sessions : store[s] # None /\ store[s].status = "Active" =>
        \E q \in Queries : OfThisProcess(q) /\ query[q].sid = s

\* An Active session is explained: a query of it is under way, or one of this
\* process ended without an answer and left the status as it was.
ActiveIsExplained ==
    \A s \in Sessions : store[s] # None /\ store[s].status = "Active" =>
        \E q \in Queries : /\ query[q].sid = s
                           /\ \/ query[q].pc \in InFlight
                              \/ query[q].pc = "done" /\ ~query[q].ok

\* What is in the history of a session stays there while the process lives.
NoLostMessage ==
    [][\A s \in Sessions :
          store[s] # None /\ store'[s] # None => store[s].log \subseteq store'[s].log]_vars

\* The server reports a turn complete whether or not its session could be saved.
\* Once the save of a turn has gone through, question and answers stay in the file
\* until the session is deleted: no crash, restart, recovery, later turn or later
\* save that fails takes them away, but for a write that is cut short
\* (agent_bridge.rs:1029-1050, session_store.rs:130-197, lib.rs:117-136).
AnswersOf(q) == {[q |-> q, n |-> n] : n \in 0..query[q].tot}

AnsweredIsDurable ==
    \A q \in Queries : query[q].ok /\ query[q].wrote /\ query[q].sid \notin deleted =>
        \/ disk[query[q].sid] = Torn
        \/ /\ disk[query[q].sid] # None
           /\ AnswersOf(q) \subseteq disk[query[q].sid].log

\* The histories of the sessions as the server has them.  A fork is under way
\* between its get and its put, and a file that does not parse is none.
Logs    == [s \in Live |-> store[s].log]
Files   == [s \in Loaded |-> disk[s].log]
Forking == {c \in Conns : conn[c].pc = "writing" /\ conn[c].op = "fork"}
Forks   == {[to |-> conn[c].at, hist |-> conn[c].copy.log] : c \in Forking}

History == INSTANCE Histories WITH
    up <- phase # "down", hist <- Logs, forks <- Forks, saved <- Files

\* With one client that waits for its answers, the gets and puts of whole
\* sessions amount to a history for each: a message is said once, in one
\* session, and followed by its answer in order; nothing is lost before a
\* deletion, nothing deleted is put back but by a restart, and a restart brings
\* back what was saved (session_store.rs:83-117, ws.rs:119-152,
\* agent_bridge.rs:955-1050).
ImplementsHistories == History!Spec

-----------------------------------------------------------------------------
(***************************************************************************)
(* Progress.                                                               *)
(***************************************************************************)

WaitsForTheUser == \E q \in Queries : query[q].pc = "asking"

\* Every message that was accepted is reported on, whatever other clients do
\* to its session, if those who are asked answer.  Only a prompt that is open
\* when the clients are dropped keeps a query, and those beside it, for good.
EveryQueryReported ==
    \A q \in Queries :
        query[q].pc \in InFlight ~>
            \/ query[q].pc \in {"done", "past"}
            \/ phase = "draining" /\ WaitsForTheUser

\* ctrl-c ends the process, with turns under way and clients connected: the
\* wait for the blocking threads (main.rs:24-28, lib.rs:212-229) goes on for
\* ever only if one of them waits for a user, whose connection is gone.
StopLeadsToDown == []<>(phase \in {"serving", "down"} \/ WaitsForTheUser)
=============================================================================
