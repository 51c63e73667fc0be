------------------------------ MODULE Extensions ------------------------------
(***************************************************************************)
(* The extensions a user installs from the dashboard: the endpoints of the *)
(* dashboard API (routers/extensions.py, routers/templates.py), each on a  *)
(* thread of its own, the file lock they change the extensions under, the  *)
(* compose flags they have the host agent drop, and the command line tool, *)
(* whose calls take no lock: each renames, empties .compose-flags, looks   *)
(* at one directory after the other, and writes what it has found.         *)
(*                                                                         *)
(* Of the directory of an extension only its compose file is kept.  Docker *)
(* and the progress files are left out, and with them what a request does  *)
(* when it has released the lock.                                          *)
(***************************************************************************)
CONSTANTS
    Exts,       \* the user extensions of the library
    DependsOn,  \* what the manifest of each says it depends on
    Threads,    \* the requests that may be under way at once
    Tools       \* the calls of the tool that may be

ASSUME ExtAssumption == Exts # {} /\ DependsOn \in [Exts -> SUBSET Exts]

VARIABLES
    dir,           \* the directory of an extension: "none", "broken" without a compose
                   \* file, "on" with compose.yaml, "off" with compose.yaml.disabled
    composeFlags,  \* {}: .compose-flags is not there, or empty; or the extensions it names
    request,       \* what each thread is doing
    tool,          \* what each call of the tool is doing
    untold         \* something was changed that who wrote, or is to write, .compose-flags
                   \* need not have seen, and it was not dropped

extVars == <<dir, composeFlags, request, tool, untold>>

\* A request for an extension.  The lock is held at "held" and, when it has made
\* its changes, at "drop"; changed: it has made some that were not told.
Requests ==
    [op : {"none", "install", "apply", "enable", "disable", "uninstall"}, ext : Exts,
     at : {"idle", "clear", "deps", "lock", "held", "drop"},
     todo : SUBSET Exts, changed : BOOLEAN]

\* left, seen: the directories a resolver has yet to look at, and the extensions it
\* has found on.  "unlinked": it writes to a file that is not at its path any more.
ToolCalls ==
    [at : {"idle", "drop", "renamed", "resolving", "unlinked"},
     left : SUBSET Exts, seen : SUBSET Exts]

ToolAtRest == [at |-> "idle", left |-> {}, seen |-> {}]

NoRequest == [op |-> "none", ext |-> CHOOSE e \in Exts : TRUE, at |-> "idle",
              todo |-> {}, changed |-> FALSE]

On == {e \in Exts : dir[e] = "on"}

ExtInit ==
    /\ dir \in [Exts -> {"none", "on", "off"}]
    /\ composeFlags \in {{}, {On}}
    /\ request = [t \in Threads |-> NoRequest]
    /\ tool = [c \in Tools |-> ToolAtRest]
    /\ untold = FALSE

RequestAt(t, op, at) == request[t].op = op /\ request[t].at = at

Begin(t, op, e, at) ==
    /\ request[t].at = "idle"
    /\ request' = [request EXCEPT ![t] =
                     [op |-> op, ext |-> e, at |-> at, todo |-> {}, changed |-> FALSE]]

Moves(t, at) == request' = [request EXCEPT ![t].at = at]

\* An error, or the end: the request is answered, and has released the lock.
Answered(t) == request' = [request EXCEPT ![t] = NoRequest]

\* The file at the path is removed: whoever has it open writes to no file.
FlagsDropped == composeFlags' = {} /\ untold' = FALSE

Unlinked ==
    [c \in Tools |-> IF tool[c].at = "resolving" THEN [ToolAtRest EXCEPT !.at = "unlinked"]
                     ELSE tool[c]]

\* A removal that fails, or is cut short by a kill, may have got to the compose file.
MaybeTorn(e) == {dir, [dir EXCEPT ![e] = IF @ = "none" THEN @ ELSE "broken"]}

-----------------------------------------------------------------------------
(***************************************************************************)
(* Before the lock: what a request looks at here, it may not find again.   *)
(***************************************************************************)

InstallExt(t, e) ==
    /\ dir[e] \in {"none", "broken"}
    /\ Begin(t, "install", e, IF dir[e] = "none" THEN "lock" ELSE "clear")
    /\ UNCHANGED <<dir, composeFlags, tool, untold>>

\* The broken directory is removed, whatever it has become by now.
Clear(t) ==
    /\ request[t].at = "clear"
    /\ \/ /\ dir[request[t].ext] # "none"
          /\ dir' = [dir EXCEPT ![request[t].ext] = "none"]
          /\ Moves(t, "lock")
       \/ dir' \in MaybeTorn(request[t].ext) /\ Answered(t)
    /\ untold' = (untold \/ On # On')
    /\ UNCHANGED <<composeFlags, tool>>

\* A service of a template: installed if need be, then enabled.
ApplyTemplate(t, e) ==
    /\ Begin(t, "apply", e, IF dir[e] = "none" THEN "lock" ELSE "deps")
    /\ UNCHANGED <<dir, composeFlags, tool, untold>>

\* What is on already is only started.
EnableExt(t, e) ==
    /\ dir[e] = "off"
    /\ Begin(t, "enable", e, "deps")
    /\ UNCHANGED <<dir, composeFlags, tool, untold>>

\* The dependencies that are not on, and theirs, as far as they are there.
MissingDeps(e) ==
    IF dir[e] = "none" THEN {} ELSE {d \in DependsOn[e] : dir[d] # "on"}

Missing(e) ==
    {d \in Exts : \A S \in SUBSET Exts :
       MissingDeps(e) \subseteq S /\ (\A s \in S : MissingDeps(s) \subseteq S) => d \in S}

\* In a circle each depends on another that is in it.
Circular(S) ==
    \E C \in SUBSET S : C # {} /\ \A d \in C : MissingDeps(d) \cap C # {}

\* A request that does not ask for the dependencies too is refused if there are any.
\* A template leaves out those it has dealt with as services of its own.
ReadDeps(t) ==
    /\ request[t].at = "deps"
    /\ LET e == request[t].ext  deps == Missing(e) IN
       \/ /\ ~Circular(deps \cup {e})
          /\ \E done \in SUBSET deps :
                /\ request[t].op = "enable" => done = {}
                /\ request' = [request EXCEPT ![t].op = "enable", ![t].at = "lock",
                                              ![t].todo = (deps \ done) \cup {e}]
       \/ /\ deps # {} /\ (request[t].op = "apply" => Circular(deps \cup {e}))
          /\ Answered(t)
    /\ UNCHANGED <<dir, composeFlags, tool, untold>>

DisableExt(t, e) ==
    /\ dir[e] = "on"
    /\ Begin(t, "disable", e, "lock")
    /\ UNCHANGED <<dir, composeFlags, tool, untold>>

UninstallExt(t, e) ==
    /\ dir[e] \in {"off", "broken"}
    /\ Begin(t, "uninstall", e, "lock")
    /\ UNCHANGED <<dir, composeFlags, tool, untold>>

-----------------------------------------------------------------------------
(***************************************************************************)
(* Under the lock.                                                         *)
(***************************************************************************)

Acquire(t) ==
    /\ request[t].at = "lock"
    /\ \A s \in Threads : request[s].at \notin {"held", "drop"}
    /\ Moves(t, "held")
    /\ UNCHANGED <<dir, composeFlags, tool, untold>>

\* A copy is made elsewhere and renamed; what the library has need not be
\* enabled, nor have a compose file at all.
Place(t) ==
    /\ request[t].op \in {"install", "apply"} /\ request[t].at = "held"
    /\ \/ /\ dir[request[t].ext] \in {"none", "broken"}
          /\ \E new \in {"on", "off", "broken"} : dir' = [dir EXCEPT ![request[t].ext] = new]
          /\ Moves(t, "drop")
       \/ /\ dir' \in {dir, [dir EXCEPT ![request[t].ext] = IF @ = "broken" THEN "none" ELSE @]}
          /\ Answered(t)
    /\ UNCHANGED <<composeFlags, tool, untold>>

\* The dependencies come first; in which order is left open.  One that is not
\* there, or does not pass the scan, ends the request.
ActivateNext(t) ==
    /\ RequestAt(t, "enable", "held")
    /\ \E d \in request[t].todo :
         /\ d = request[t].ext => request[t].todo = {d}
         /\ \/ /\ dir[d] \in {"on", "off"}
               /\ dir' = [dir EXCEPT ![d] = "on"]
               /\ request' = [request EXCEPT ![t].todo = @ \ {d},
                                             ![t].changed = @ \/ dir[d] = "off"]
               /\ UNCHANGED untold
            \/ /\ dir[d] # "on"
               /\ untold' = (untold \/ request[t].changed)
               /\ Answered(t)
               /\ UNCHANGED dir
    /\ UNCHANGED <<composeFlags, tool>>

Activated(t) ==
    /\ RequestAt(t, "enable", "held") /\ request[t].todo = {}
    /\ IF request[t].changed THEN Moves(t, "drop") ELSE Answered(t)
    /\ UNCHANGED <<dir, composeFlags, tool, untold>>

\* What is no longer on cannot be looked at.
TurnOff(t) ==
    /\ RequestAt(t, "disable", "held")
    /\ \/ /\ dir[request[t].ext] = "on"
          /\ dir' = [dir EXCEPT ![request[t].ext] = "off"]
          /\ Moves(t, "drop")
       \/ dir[request[t].ext] # "on" /\ Answered(t) /\ UNCHANGED dir
    /\ UNCHANGED <<composeFlags, tool, untold>>

\* A removal that fails is an error, and the flags stay.
RemoveDir(t) ==
    /\ RequestAt(t, "uninstall", "held")
    /\ \/ /\ dir[request[t].ext] # "none"
          /\ dir' = [dir EXCEPT ![request[t].ext] = "none"]
          /\ Moves(t, "drop")
          /\ UNCHANGED untold
       \/ /\ dir' \in MaybeTorn(request[t].ext)
          /\ untold' = (untold \/ On # On')
          /\ Answered(t)
    /\ UNCHANGED <<composeFlags, tool>>

\* Broken variant: the agent empties .compose-flags and leaves it where it is.
InvalidateEmpties(t) ==
    /\ request[t].at = "drop"
    /\ \/ FlagsDropped
       \/ untold' = TRUE /\ UNCHANGED composeFlags
    /\ IF request[t].op = "apply" THEN Moves(t, "deps") ELSE Answered(t)
    /\ UNCHANGED <<dir, tool>>

\* The host agent unlinks .compose-flags; if it does not answer, that is only logged.
Invalidate(t) ==
    /\ request[t].at = "drop"
    /\ \/ FlagsDropped /\ tool' = Unlinked
       \/ untold' = TRUE /\ UNCHANGED <<composeFlags, tool>>
    /\ IF request[t].op = "apply" THEN Moves(t, "deps") ELSE Answered(t)
    /\ UNCHANGED dir

\* The dashboard API is restarted; the lock goes with its file descriptor.
Told(t) == request[t].at # "drop" /\ (request[t].at = "held" => ~request[t].changed)

ApiDies ==
    /\ request' = [t \in Threads |-> NoRequest]
    /\ untold' = (untold \/ \E t \in Threads : ~Told(t))
    /\ UNCHANGED <<dir, composeFlags, tool>>

-----------------------------------------------------------------------------
(***************************************************************************)
(* The command line tool.                                                  *)
(***************************************************************************)

ToolGoes(c, at) == tool' = [tool EXCEPT ![c] = [ToolAtRest EXCEPT !.at = at]]

\* The calls whose output is to be in .compose-flags.
Resolving == {c \in Tools : tool[c].at = "resolving"}

\* Whoever finds .compose-flags empty removes it, whatever is in it by then.  (A file
\* that is not there is not told from an empty one.)
ToolFindsEmpty(c) ==
    /\ tool[c].at = "idle" /\ composeFlags = {}
    /\ ToolGoes(c, "drop")
    /\ UNCHANGED <<dir, composeFlags, request, untold>>

\* What is not on is disabled without a rename.
ToolRenames(c, e) ==
    /\ tool[c].at = "idle"
    /\ \/ dir[e] = "off" /\ dir' = [dir EXCEPT ![e] = "on"]
       \/ dir[e] = "on" /\ dir' = [dir EXCEPT ![e] = "off"]
       \/ dir[e] # "on" /\ UNCHANGED dir
    /\ ToolGoes(c, "renamed")
    /\ untold' = (untold \/ (On # On' /\ Resolving # {}))
    /\ UNCHANGED <<composeFlags, request>>

\* The shell empties the file, or makes it, before the resolver starts.
ToolOpens(c) ==
    /\ tool[c].at = "renamed"
    /\ composeFlags' = {}
    /\ tool' = [tool EXCEPT ![c] = [at |-> "resolving", left |-> Exts, seen |-> {}]]
    /\ untold' = (untold /\ Resolving # {})
    /\ UNCHANGED <<dir, request>>

ToolLooks(c) ==
    /\ tool[c].at = "resolving"
    /\ \E e \in tool[c].left :
          tool' = [tool EXCEPT ![c].left = @ \ {e},
                               ![c].seen = IF dir[e] = "on" THEN @ \cup {e} ELSE @]
    /\ UNCHANGED <<dir, composeFlags, request, untold>>

\* The list is written over what the file begins with: of what another call has
\* written meanwhile, if that was longer, the rest stays.
ToolWrites(c) ==
    /\ tool[c].at = "resolving" /\ tool[c].left = {}
    /\ \E rest \in SUBSET UNION composeFlags : composeFlags' = {tool[c].seen \cup rest}
    /\ ToolGoes(c, "idle")
    /\ UNCHANGED <<dir, request, untold>>

\* rm -f, after an empty file, without a resolver, or when it has failed.
ToolRemoves(c) ==
    /\ tool[c].at # "idle"
    /\ FlagsDropped
    /\ tool' = [Unlinked EXCEPT ![c] = ToolAtRest]
    /\ UNCHANGED <<dir, request>>

\* Killed; or done, with a list nobody can read.
ToolEnds(c) ==
    /\ tool[c].at # "idle"
    /\ ToolGoes(c, "idle")
    /\ untold' = (untold \/ tool[c].at = "renamed")
    /\ UNCHANGED <<dir, composeFlags, request>>

-----------------------------------------------------------------------------
ExtNext ==
    \/ \E t \in Threads :
         \/ \E e \in Exts : InstallExt(t, e) \/ ApplyTemplate(t, e) \/ EnableExt(t, e)
                            \/ DisableExt(t, e) \/ UninstallExt(t, e)
         \/ Clear(t) \/ ReadDeps(t) \/ Acquire(t) \/ Place(t) \/ ActivateNext(t) \/ Activated(t)
         \/ TurnOff(t) \/ RemoveDir(t) \/ Invalidate(t)
    \/ ApiDies
    \/ \E c \in Tools :
         \/ ToolFindsEmpty(c) \/ ToolOpens(c) \/ ToolLooks(c) \/ ToolWrites(c)
         \/ ToolRemoves(c) \/ ToolEnds(c) \/ \E e \in Exts : ToolRenames(c, e)

ExtSpec == ExtInit /\ [][ExtNext]_extVars

-----------------------------------------------------------------------------
ExtTypeOK ==
    /\ dir \in [Exts -> {"none", "broken", "on", "off"}]
    /\ composeFlags \in SUBSET SUBSET Exts
    /\ request \in [Threads -> Requests]
    /\ tool \in [Tools -> ToolCalls]
    /\ untold \in BOOLEAN

\* While no request and no call of the tool has changed something it has yet to
\* act on, .compose-flags, if there is something in it, names the extensions that
\* are enabled and no other: every docker command of the agent and of the tool
\* takes its files from it (resolve_compose_flags, get_compose_flags).  So a list
\* that was resolved before a request's change does not outlive the request.  The
\* list is known to be wrong only after one of the losses the code has: an enable
\* that fails when it has already renamed a dependency (extensions.py:1090), the
\* unlocked removal of what was taken for a broken directory (extensions.py:875),
\* a removal that fails halfway, an agent that does not answer, a restart in
\* between, a call of the tool that is killed after its rename, and one that
\* renames while another resolves (dream-cli:286), until the file is dropped, or
\* written anew by a call with no other beside it.
CachedFlagsAreCurrent ==
    /\ ~untold
    /\ \A t \in Threads : Told(t)
    /\ \A c \in Tools : tool[c].at # "renamed"
    => \A named \in composeFlags : named = On
=============================================================================
