------------------------------- MODULE ReplSession -------------------------------
(***************************************************************************)
(* The REPL (dreamforge-cli/src/main.rs) and the files of its sessions     *)
(* (runtime/src/session.rs).  Every message of a turn is appended to the   *)
(* file as it is pushed; after the turn, and after commands that change    *)
(* the session, the file is written anew, and set aside first if it is     *)
(* large.  Writes may fail, which ends the REPL, and the process may be    *)
(* killed anywhere.  Of the loop of a turn (TurnLoop) only what it pushes  *)
(* is left here.                                                           *)
(***************************************************************************)
EXTENDS Naturals, Sequences, FiniteSets, SequencesExt

CONSTANTS
    Paths,      \* names a session file may take
    Absent,     \* no file, no transcript
    Recent,     \* CompactionConfig::preserve_recent_messages
    MaxRotated, \* MAX_ROTATED_FILES
    MaxLines,   \* bound: length of a transcript that still grows by calls
    MaxCuts     \* bound: failures, kills and exits

VARIABLES
    repl,       \* LiveCli
    files,      \* the session files
    aside,      \* what each file was before it was set aside, and before that
    saved,      \* history: of each session, what was last written in whole
    cuts        \* history: failures, kills and exits

replVars == <<repl, files, aside, saved, cuts>>

\* Kinds of messages; "call" and "calls" are messages with tool uses.
Owes == [call |-> 1, calls |-> 2]

Line == {"summary", "user", "answer", "result"} \cup DOMAIN Owes

Contents == [lines : Seq(Line), torn : BOOLEAN, session : Paths]

\* What stands for no file, or for no transcript, is neither.
ASSUME ReplAssumption == Absent \notin Contents /\ Absent \notin Seq(Line) /\ Recent \in Nat

\* A session is named after the path it began with.  path is LiveCli::session,
\* appends that of Session::persistence; log is the transcript of the runtime
\* of the turn, owed the results it still owes.
Off == [pc |-> "off", path |-> Absent, appends |-> Absent, session |-> Absent,
        kept |-> <<>>, log |-> <<>>, owed |-> 0]

ReplInit ==
    /\ repl = Off
    /\ files = [p \in Paths |-> Absent]
    /\ aside = [p \in Paths |-> {}]
    /\ saved = [p \in Paths |-> Absent]
    /\ cuts = 0

At(pc) == repl.pc = pc

New(p) == files[p] = Absent /\ saved[p] = Absent /\ aside[p] = {}

\* The process is gone, with what its files hold.
Gone == repl' = Off

Cut == cuts < MaxCuts /\ cuts' = cuts + 1 /\ Gone

-----------------------------------------------------------------------------
(***************************************************************************)
(* save_to_path, in three steps that may each fail.                        *)
(***************************************************************************)

\* The REPL takes a transcript over and saves it.
TakesOver(p, session, transcript) ==
    repl' = [Off EXCEPT !.pc = "rotate", !.path = p, !.appends = p, !.session = session,
                        !.kept = transcript]

\* rotate_session_file_if_needed: a large file is renamed first.
Rotate ==
    /\ At("rotate")
    /\ \/ UNCHANGED <<files, aside>>
       \/ \E q \in Paths :
             /\ files[repl.path] # Absent /\ New(q)
             /\ files' = [files EXCEPT ![q] = files[repl.path], ![repl.path] = Absent]
             /\ aside' = [aside EXCEPT ![q] = aside[repl.path] \cup {repl.path}]
    /\ repl' = [repl EXCEPT !.pc = "replace"]
    /\ UNCHANGED <<saved, cuts>>

Whole == [lines |-> repl.kept, torn |-> FALSE, session |-> repl.session]

\* Broken variant: the file is written in place.
ReplaceInPlace ==
    /\ At("replace")
    /\ \/ /\ files' = [files EXCEPT ![repl.path] = Whole]
          /\ saved' = [saved EXCEPT ![repl.session] = repl.kept]
          /\ repl' = [repl EXCEPT !.pc = "clean"]
          /\ UNCHANGED cuts
       \/ /\ files' = [files EXCEPT ![repl.path] = [Whole EXCEPT !.lines = <<>>, !.torn = TRUE]]
          /\ Cut
          /\ UNCHANGED saved
    /\ UNCHANGED aside

\* write_atomic: a temporary file takes the place of the old one.
Replace ==
    /\ At("replace")
    /\ files' = [files EXCEPT ![repl.path] = Whole]
    /\ saved' = [saved EXCEPT ![repl.session] = repl.kept]
    /\ repl' = [repl EXCEPT !.pc = "clean"]
    /\ UNCHANGED <<aside, cuts>>

\* Files whose names start as the rotated ones of p do.
SetAside(p) == {q \in Paths : p \in aside[q] /\ files[q] # Absent}

\* How many of them are too many.
Excess(p) ==
    LET n == Cardinality(SetAside(p)) IN IF n > MaxRotated THEN n - MaxRotated ELSE 0

\* cleanup_rotated_logs; which files are the stalest is left open.
CleanUp ==
    /\ At("clean")
    /\ \E stale \in SUBSET SetAside(repl.path) :
          /\ Cardinality(stale) = Excess(repl.path)
          /\ files' = [q \in Paths |-> IF q \in stale THEN Absent ELSE files[q]]
    /\ repl' = [repl EXCEPT !.pc = "prompt"]
    /\ UNCHANGED <<aside, saved, cuts>>

-----------------------------------------------------------------------------
(***************************************************************************)
(* Commands.                                                               *)
(***************************************************************************)

\* LiveCli::new, and /clear: a new session, whose file is written at once.
Fresh(p) ==
    /\ At("off") \/ At("prompt")
    /\ New(p)
    /\ TakesOver(p, p, <<>>)
    /\ UNCHANGED <<files, aside, saved, cuts>>

\* /session fork.
ForkSession(p) ==
    /\ At("prompt") /\ New(p)
    /\ TakesOver(p, p, repl.kept)
    /\ UNCHANGED <<files, aside, saved, cuts>>

\* Broken variant: the REPL goes on saving to the file it had.
SwitchKeepsPath(p) ==
    /\ At("off") \/ At("prompt")
    /\ files[p] # Absent
    /\ IF files[p].torn THEN Gone
       ELSE repl' = [Off EXCEPT !.pc = "rotate", !.path = IF At("off") THEN p ELSE repl.path, !.appends = p,
                                !.session = files[p].session, !.kept = files[p].lines]
    /\ UNCHANGED <<files, aside, saved, cuts>>

\* /resume and /session switch, to any file; one that does not parse ends the
\* REPL.  Of a REPL that does so first, the empty session it began with is
\* left out.
Switch(p) ==
    /\ At("off") \/ At("prompt")
    /\ files[p] # Absent
    /\ IF files[p].torn THEN Gone ELSE TakesOver(p, files[p].session, files[p].lines)
    /\ UNCHANGED <<files, aside, saved, cuts>>

\* compact_session, when it is due by the size in tokens.
Compacted(t) ==
    LET old == IF t # <<>> /\ t[1] = "summary" THEN 1 ELSE 0 IN
    IF Len(t) - old > Recent
    THEN <<"summary">> \o SubSeq(t, Len(t) - Recent + 1, Len(t))
    ELSE t

\* /compact, /model, /permissions and the exits save what there is.
SaveCommand ==
    /\ At("prompt")
    /\ \E t \in {repl.kept, Compacted(repl.kept)} : TakesOver(repl.path, repl.session, t)
    /\ UNCHANGED <<files, aside, saved, cuts>>

-----------------------------------------------------------------------------
(***************************************************************************)
(* A turn.                                                                 *)
(***************************************************************************)

\* The runtime of the turn starts from what the REPL keeps.
Transcript == IF At("prompt") THEN repl.kept ELSE repl.log

\* A file with a line more, and one whose last line is cut off.
Longer(file, line) == [file EXCEPT !.lines = Append(file.lines, line)]
TornOff(file) == [file EXCEPT !.torn = TRUE]

\* push_message: a missing file is written in whole.
Pushes(line, pc, owed) ==
    LET log == Append(Transcript, line)
    IN  /\ files' = [files EXCEPT ![repl.appends] =
                        IF @ = Absent THEN [Whole EXCEPT !.lines = log] ELSE Longer(@, line)]
        /\ repl' = [repl EXCEPT !.pc = pc, !.log = log, !.owed = owed]
        /\ UNCHANGED <<aside, saved, cuts>>

Submit == At("prompt") /\ Len(repl.kept) <= MaxLines /\ Pushes("user", "turn", 0)

MayRequest == At("turn") /\ repl.owed = 0

\* A message with tool uses.
CallTools(line) ==
    MayRequest /\ Len(repl.log) <= MaxLines /\ Pushes(line, "turn", Owes[line])

\* Broken variant: a call that is refused is answered by nothing.
AnswerCallOrNot ==
    /\ At("turn") /\ repl.owed > 0
    /\ \/ Pushes("result", "turn", repl.owed - 1)
       \/ repl' = [repl EXCEPT !.owed = @ - 1] /\ UNCHANGED <<files, aside, saved, cuts>>

\* Whatever becomes of the next call, its result is pushed.
AnswerCall == At("turn") /\ repl.owed > 0 /\ Pushes("result", "turn", repl.owed - 1)

FinalMessage == MayRequest /\ Pushes("answer", "answered", 0)

\* run_turn returned: the REPL takes the runtime over, compacted if it is due.
TurnDone ==
    /\ At("answered")
    /\ \E t \in {repl.log, Compacted(repl.log)} : TakesOver(repl.path, repl.session, t)
    /\ UNCHANGED <<files, aside, saved, cuts>>

-----------------------------------------------------------------------------

\* What the next push may push.
NextLines == IF At("prompt") THEN {"user"}
             ELSE IF repl.owed > 0 THEN {"result"}
             ELSE {"answer"} \cup DOMAIN Owes

\* A push fails, or the process is killed in it: its line, or a part of it,
\* may be left behind.  A turn that fails ends the REPL, which saves nothing.
PushFails ==
    /\ At("prompt") \/ At("turn")
    /\ \/ files' = [files EXCEPT ![repl.appends] = TornOff(@)]
       \/ \E line \in NextLines :
             files' = [files EXCEPT ![repl.appends] = Longer(@, line)]
    /\ Cut
    /\ UNCHANGED <<aside, saved>>

\* The process exits or is killed, or a request, a save or a command fails.
ReplEnds ==
    /\ ~At("off")
    /\ Cut
    /\ UNCHANGED <<files, aside, saved>>

-----------------------------------------------------------------------------

ReplNext ==
    \/ \E p \in Paths : Fresh(p) \/ ForkSession(p) \/ Switch(p)
    \/ SaveCommand \/ Rotate \/ Replace \/ CleanUp
    \/ Submit \/ \E line \in DOMAIN Owes : CallTools(line)
    \/ AnswerCall \/ FinalMessage \/ TurnDone
    \/ PushFails \/ ReplEnds

ReplSpec == ReplInit /\ [][ReplNext]_replVars

-----------------------------------------------------------------------------

\* The transcript the REPL works on is the one of its file: a process killed
\* at the prompt or in a turn loses no message it has pushed, whichever file
\* it was switched to before (push_message, replace_runtime, persist_session).
FileIsMemory ==
    /\ At("prompt") => files[repl.path] = Whole
    /\ At("turn") => files[repl.path] = [Whole EXCEPT !.lines = repl.log]

\* What was last saved of a session begins one of its files, wherever saves,
\* rotations and pushes failed since (save_to_path): of a kill between the
\* rename that sets the file aside and the one that replaces it, it is the
\* file set aside.
SavedIsOnDisk ==
    \A s \in Paths : saved[s] # Absent =>
        \E p \in Paths :
            /\ files[p] # Absent /\ files[p].session = s
            /\ IsPrefix(saved[s], files[p].lines)

\* How many results stand behind a line.
ResultsBehind(t, i) ==
    CHOOSE k \in 0..Len(t) - i :
        /\ \A j \in i + 1..i + k : t[j] = "result"
        /\ i + k = Len(t) \/ t[i + k + 1] # "result"

\* What a resumed session sends to a model may have tool uses without their
\* results, those a turn was cut off at; but only there, where the user's next
\* message follows, and none of the turn itself (session.rs:184,
\* conversation.rs:296-485).
GapsOnlyAtResume ==
    MayRequest =>
        \A i \in DOMAIN repl.log : repl.log[i] \in DOMAIN Owes =>
            LET k == ResultsBehind(repl.log, i) IN
            \/ k = Owes[repl.log[i]]
            \/ i + k < Len(repl.log) /\ repl.log[i + k + 1] = "user"
=============================================================================
