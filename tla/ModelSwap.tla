------------------------------- MODULE ModelSwap -------------------------------
(***************************************************************************)
(* The models of the host agent (bin/dream-host-agent.py): activating one, *)
(* which writes .env and models.ini, restarts the llama-server and puts    *)
(* both files back if it does not come up; beside it, on threads of their  *)
(* own, the deletion and the download of a model file and the recreation   *)
(* of the server after a change of settings.                               *)
(*                                                                         *)
(* A model is one file.  Of .env and models.ini only the model they name   *)
(* is kept, of the container only the model it loads.                      *)
(***************************************************************************)
CONSTANTS
    Models,      \* the models of the library
    NoModel,     \* named by a file that was cut short
    DockerFails, \* docker commands may fail and time out
    MayOverlap   \* handlers that touch the same model may be at work at once

ASSUME SwapAssumption == NoModel \notin Models /\ {DockerFails, MayOverlap} \subseteq BOOLEAN

VARIABLES
    setup,       \* for good: the agent on the host beside llama.cpp ("compose") or
                 \* Lemonade ("lemonade"), or in a container of its own ("inspect")
    flags,       \* .compose-flags is there
    env, ini,    \* the models that .env and models.ini name
    gguf,        \* the file of each model: "absent", "whole", or "bad"
    server,      \* the container of the llama-server
    swap,        \* the last activation
    removal,     \* {}, or the model whose file is being deleted
    fetching, checking,  \* the same, of the download's thread: curl runs, the hash is computed
    recreation   \* {}, or the model .env named when compose read it

swapVars == <<setup, flags, env, ini, gguf, server, swap, removal, fetching, checking, recreation>>
setups   == <<flags, env, ini>>
download == <<fetching, checking>>
others   == <<setup, gguf, removal, download, recreation>>

\* No activation, or one that ended in an error.
NoSwap == [at |-> "idle", asked |-> NoModel, env |-> NoModel, ini |-> NoModel,
         flags |-> FALSE, obeyed |-> FALSE]

Resting == {"idle", "activated", "rolled_back"}

SwapInit ==
    /\ setup \in {"compose", "lemonade", "inspect"} /\ flags = TRUE
    /\ \E m \in Models :
         /\ env = m /\ ini = m
         /\ gguf \in {f \in [Models -> {"absent", "whole"}] : f[m] = "whole"}
         /\ server = [there |-> TRUE, up |-> TRUE, model |-> m]
    /\ swap = NoSwap
    /\ removal = {} /\ fetching = {} /\ checking = {} /\ recreation = {}

\* The server after a start with a model: it needs the file, unless it is
\* Lemonade, which also runs without.
Serving(m) ==
    [there |-> TRUE, up |-> setup = "lemonade" \/ (m \in Models /\ gguf[m] # "absent"), model |-> m]

Stopped == [server EXCEPT !.up = FALSE]
Removed == [server EXCEPT !.up = FALSE, !.there = FALSE]

Works == IF DockerFails THEN BOOLEAN ELSE {TRUE}

-----------------------------------------------------------------------------
(***************************************************************************)
(* Activation, one at a time.                                              *)
(***************************************************************************)

Activate(m) ==
    /\ swap.at \in Resting
    /\ gguf[m] # "absent"
    /\ swap' = [at |-> "env", asked |-> m, env |-> env, ini |-> ini,
                flags |-> flags, obeyed |-> TRUE]
    /\ UNCHANGED <<setups, server, others>>

WriteEnv ==
    /\ swap.at = "env"
    /\ env' = swap.asked
    /\ swap' = [swap EXCEPT !.at = "ini"]
    /\ UNCHANGED <<flags, ini, server, others>>

WriteIni ==
    /\ swap.at = "ini"
    /\ ini' = swap.asked
    /\ swap' = [swap EXCEPT !.at = "stop"]
    /\ UNCHANGED <<flags, env, server, others>>

\* Where a restart goes on: after the activation's, or after the rollback's.
AfterStop(at)  == IF at = "stop" THEN "start" ELSE "restart"
AfterStart(at) == IF at \in {"stop", "start"} THEN "health" ELSE "rolled_back"

\* The server is stopped; a failure is not looked at.  In a container it is
\* inspected, stopped and removed, and if that cannot be inspected or removed
\* there will be no other.  Lemonade is restarted by one command.
StopServer ==
    /\ swap.at \in {"stop", "restop"}
    /\ \E works \in Works :
         /\ setup = "inspect" /\ works => server.there
         /\ server' \in IF setup = "lemonade" THEN {server}
                        ELSE IF ~works THEN {server, Stopped}
                        ELSE {IF setup = "inspect" THEN Removed ELSE Stopped}
         /\ swap' = [swap EXCEPT !.flags = flags, !.obeyed = works,
                       !.at = IF setup = "inspect" /\ ~works THEN AfterStart(@) ELSE AfterStop(@)]
    /\ UNCHANGED <<setups, others>>

\* Compose makes the container anew, from .env, but without its flags the old
\* one is started, which names its model; Lemonade reads models.ini.
ModelLoaded == IF setup = "lemonade" THEN ini
         ELSE IF setup = "compose" /\ ~swap.flags THEN server.model ELSE env

MayStart == IF setup = "inspect" THEN ~server.there
            ELSE server.there \/ (setup = "compose" /\ swap.flags)

StartServer ==
    /\ swap.at \in {"start", "restart"}
    /\ \E works \in Works :
         /\ works => MayStart
         /\ server' = IF works THEN Serving(ModelLoaded) ELSE server
         /\ swap' = [swap EXCEPT !.obeyed = @ /\ works, !.at = AfterStart(@)]
    /\ UNCHANGED <<setups, others>>

\* A docker command that is not back in time ends the handler, and not
\* necessarily what it has set going.
DockerTimesOut ==
    /\ DockerFails
    /\ \/ /\ swap.at \in {"stop", "restop"}
          /\ server' \in {server, Stopped, IF setup = "inspect" THEN Removed ELSE Stopped}
       \/ /\ swap.at \in {"start", "restart"}
          /\ server' \in {server} \cup {s \in {Serving(ModelLoaded)} : MayStart}
       \/ /\ swap.at = "health" /\ server.up   \* the dependent services
          /\ UNCHANGED server
    /\ swap' = NoSwap
    /\ UNCHANGED <<setups, others>>

\* The server answers in time only if it runs, whatever model it has loaded.
CheckHealth ==
    /\ swap.at = "health"
    /\ \E healthy \in {h \in BOOLEAN : h => server.up} :
         swap' = [swap EXCEPT !.at = IF healthy THEN "activated" ELSE "roll env"]
    /\ UNCHANGED <<setups, server, others>>

RollEnv ==
    /\ swap.at = "roll env"
    /\ env' = swap.env
    /\ swap' = [swap EXCEPT !.at = "roll ini"]
    /\ UNCHANGED <<flags, ini, server, others>>

\* Broken variant: models.ini is left as the activation wrote it.
RollIniNot ==
    /\ swap.at = "roll ini"
    /\ swap' = [swap EXCEPT !.at = "restop"]
    /\ UNCHANGED <<setups, server, others>>

RollIni ==
    /\ swap.at = "roll ini"
    /\ ini' = swap.ini
    /\ swap' = [swap EXCEPT !.at = "restop"]
    /\ UNCHANGED <<flags, env, server, others>>

\* Both files are written in place: what is cut short has been emptied.
Truncated(ats, file) == IF swap.at \in ats THEN {file, NoModel} ELSE {file}

HalfWritten ==
    /\ env' \in Truncated({"env", "roll env"}, env)
    /\ ini' \in Truncated({"ini", "roll ini"}, ini)

\* A write that fails ends the handler; nothing is rolled back.
WriteFails ==
    /\ swap.at \in {"env", "ini", "roll env", "roll ini"}
    /\ HalfWritten
    /\ swap' = NoSwap
    /\ UNCHANGED <<flags, server, others>>

-----------------------------------------------------------------------------
(***************************************************************************)
(* The other handlers.                                                     *)
(***************************************************************************)

\* Broken variant: the active model is the one models.ini names.
DeleteUnlessListed(m) ==
    /\ removal = {}
    /\ gguf[m] # "absent" /\ ini # m
    /\ removal' = {m}
    /\ UNCHANGED <<setup, setups, gguf, server, swap, recreation, download>>

\* The active model, the one .env names, is not deleted.
Delete(m) ==
    /\ removal = {}
    /\ gguf[m] # "absent" /\ env # m
    /\ removal' = {m}
    /\ UNCHANGED <<setup, setups, gguf, server, swap, recreation, download>>

Unlink ==
    /\ removal # {}
    /\ gguf' = [m \in Models |-> IF m \in removal THEN "absent" ELSE gguf[m]]
    /\ removal' = {}
    /\ UNCHANGED <<setup, setups, server, swap, recreation, download>>

Download(m) ==
    /\ fetching = {} /\ checking = {}
    /\ gguf[m] = "absent"
    /\ fetching' = {m}
    /\ UNCHANGED <<setup, setups, gguf, server, swap, removal, checking, recreation>>

\* curl is done, and the file gets its name before its hash is looked at, if
\* the request has one at all.
Rename ==
    /\ fetching # {}
    /\ \E m \in fetching, result \in {"whole", "bad"} : gguf' = [gguf EXCEPT ![m] = result]
    /\ fetching' = {} /\ checking' \in {fetching, {}}
    /\ UNCHANGED <<setup, setups, server, swap, removal, recreation>>

\* Three times curl has failed.
FetchFails ==
    /\ fetching # {}
    /\ fetching' = {}
    /\ UNCHANGED <<setup, setups, gguf, server, swap, removal, checking, recreation>>

Verify ==
    /\ checking # {}
    /\ \E m \in checking : gguf' = [gguf EXCEPT ![m] = IF @ = "bad" THEN "absent" ELSE @]
    /\ checking' = {}
    /\ UNCHANGED <<setup, setups, server, swap, removal, fetching, recreation>>

\* core/recreate: compose reads .env, and some time later makes the container;
\* it takes the lock of the service, which an activation does not.
BeginRecreate ==
    /\ recreation = {}
    /\ recreation' = {env}
    /\ UNCHANGED <<setup, setups, gguf, server, swap, removal, download>>

Recreated == {Serving(IF setup = "lemonade" THEN ini ELSE m) : m \in recreation}

Recreate ==
    /\ recreation # {}
    /\ \E works \in Works :
         server' \in IF works THEN Recreated ELSE {server, Removed}
    /\ recreation' = {}
    /\ UNCHANGED <<setup, setups, gguf, swap, removal, download>>

\* Every change of an extension drops the flags; the command line tool's
\* enable and disable write them again, if they can be resolved.
DropFlags ==
    /\ flags /\ flags' = FALSE
    /\ UNCHANGED <<env, ini, server, swap, others>>

RegenerateFlags ==
    /\ ~flags /\ flags' = TRUE
    /\ UNCHANGED <<env, ini, server, swap, others>>

\* The agent is killed, and with it every thread; what compose has been told
\* may still be done.
AgentDies ==
    /\ HalfWritten
    /\ swap' = NoSwap
    /\ removal' = {} /\ recreation' = {}
    /\ fetching' = {} /\ checking' = {}
    /\ server' \in {server} \cup Recreated
    /\ UNCHANGED <<setup, flags, gguf>>

-----------------------------------------------------------------------------
ActivationStep ==
    \/ \E m \in Models : Activate(m)
    \/ WriteEnv \/ WriteIni \/ StopServer \/ StartServer \/ DockerTimesOut
    \/ CheckHealth \/ RollEnv \/ RollIni \/ WriteFails

OtherStep ==
    \/ \E m \in Models : Delete(m) \/ Download(m)
    \/ Unlink \/ Rename \/ FetchFails \/ Verify \/ BeginRecreate \/ Recreate
    \/ DropFlags \/ RegenerateFlags \/ AgentDies

AtWork ==
    {h \in {"activation", "deletion", "check", "recreation"} :
       CASE h = "activation" -> swap.at \notin Resting
         [] h = "deletion"   -> removal # {}
         [] h = "check"      -> checking # {}
         [] OTHER            -> recreation # {}}

OneAtMost == \A g, h \in AtWork : g = h

SwapNext ==
    /\ ActivationStep \/ OtherStep
    /\ MayOverlap \/ OneAtMost'

SwapSpec == SwapInit /\ [][SwapNext]_swapVars

-----------------------------------------------------------------------------
\* When docker has done what it was told, an activation ends as it is answered,
\* with both files and the server at one model: the one asked for, or all at
\* what they were at before, whatever was cut short earlier (_do_model_activate).
\* Without the compose flags, or with a recreation in between, it does not.
SwapEndsAsAnswered ==
    swap.obeyed /\ (setup = "compose" => swap.flags) =>
      /\ swap.at = "activated" => env = swap.asked /\ ini = swap.asked /\ server.model = swap.asked
      /\ swap.at = "rolled_back" =>
           /\ env = swap.env /\ ini = swap.ini
           /\ server.model = IF setup = "lemonade" THEN swap.ini ELSE swap.env

\* The file of the model that .env names is there, through activations,
\* rollbacks, deletions, failed checks and kills, as long as no two of the
\* handlers work at once (_handle_model_delete, _do_model_activate).
ActiveModelIsThere ==
    env \in Models => gguf[env] # "absent"

\* "Swap active model: update .env + models.ini + restart llama-server."
\* (dream-host-agent.py:1219): the server that is said to be activated runs the
\* model that was asked for.
ActivatedIsServed ==
    swap.at = "activated" => server.model = swap.asked
=============================================================================
