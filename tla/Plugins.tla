-------------------------------- MODULE Plugins ---------------------------------
(***************************************************************************)
(* The plugin manager (plugins/src/lib.rs): directories of installed       *)
(* plugins, the file that records them, the settings that enable them, and *)
(* the copy of those settings the manager holds in memory.                 *)
(*                                                                         *)
(* A step is one access to the files.  Each may fail, which ends the       *)
(* operation there with what was done so far, and the process may be       *)
(* killed between two accesses or inside one.                              *)
(***************************************************************************)
EXTENDS Naturals

CONSTANTS
    BundledPlugins,  \* ids of plugins that come with the program
    ExternalPlugins, \* ids of plugins a user installs
    Versions,        \* the versions of a plugin
    Damaged,         \* the content of a file cut short
    MaxUpgrades,     \* bound: changes of what the program comes with
    MaxFailures      \* bound: accesses that fail, and kills

\* No version reads as a directory that does not load.
ASSUME VersionsAssumption == Versions \cap {"none", "bare", "broken"} = {}

VARIABLES
    bundle,     \* the version of each plugin the program comes with, or "none"
    folder,     \* the install directory of each plugin
    records,    \* installed.json: the version of each recorded plugin, or "none"
    enabled,    \* settings.json: enabledPlugins
    memory,     \* PluginManagerConfig::enabled_plugins
    plug,       \* the operation of the manager
    budget      \* what is left of the bounds

pluginVars == <<bundle, folder, records, enabled, memory, plug, budget>>

PluginIds == BundledPlugins \cup ExternalPlugins

\* A directory that loads is told by its version.  "bare" has no manifest and
\* counts as none; "broken" has one that does not load.
Bare    == {"none", "bare"}
Unsound == Bare \cup {"broken"}
Loads(p) == folder[p] \notin Unsound

\* An empty file counts as one without entries.
NoEntries == [p \in PluginIds |-> "none"]

\* "sync" to "store": the report every query starts with, of which held is the
\* registry in memory, changed whether it is to be stored, and b the plugin of
\* the bundle that is put in place.
NoPlug == [kind |-> "none", p |-> "none", v |-> "none", pc |-> "idle", todo |-> {},
           b |-> "none", held |-> NoEntries, changed |-> FALSE]

PluginInit ==
    /\ bundle \in [BundledPlugins -> Versions]
    /\ folder = [p \in PluginIds |-> "none"]
    /\ records = NoEntries
    /\ enabled = NoEntries /\ memory = NoEntries
    /\ plug = NoPlug
    /\ budget = [upgrades |-> MaxUpgrades, failures |-> MaxFailures]

Now(pc) == plug.pc = pc
Then(pc) == plug' = [plug EXCEPT !.pc = pc]
Done == plug' = NoPlug

\* The operation ends in an error.
Failing == /\ budget.failures > 0
           /\ budget' = [budget EXCEPT !.failures = @ - 1]
           /\ Done

HoldFolders  == UNCHANGED <<bundle, folder>>
HoldFiles    == UNCHANGED <<records, enabled, memory>>
HoldBudget   == UNCHANGED budget

-----------------------------------------------------------------------------
(***************************************************************************)
(* Operations begin.                                                       *)
(***************************************************************************)

Start(op) == Now("idle") /\ plug' = op /\ HoldFolders /\ HoldFiles /\ HoldBudget

\* install and update stage a source that loads, or fail with nothing done.
Install(p, v) == Start([NoPlug EXCEPT !.kind = "install", !.p = p, !.v = v, !.pc = "remove"])

\* A bundled plugin is updated from the bundle.
Update(p, v) ==
    /\ records # Damaged /\ records[p] # "none"
    /\ p \in BundledPlugins => v = bundle[p]
    /\ Start([NoPlug EXCEPT !.kind = "update", !.p = p, !.v = v, !.pc = "remove",
                            !.held = records])

Uninstall(p) ==
    /\ records # Damaged /\ records[p] # "none" /\ p \in ExternalPlugins
    /\ Start([NoPlug EXCEPT !.kind = "uninstall", !.p = p, !.pc = "remove", !.held = records])

\* enable and disable look whether the plugin is known; list only reports.
Report(kind, p) ==
    /\ records # Damaged
    /\ Start([NoPlug EXCEPT !.kind = kind, !.p = p, !.pc = "sync", !.held = records,
                            !.todo = {b \in BundledPlugins : bundle[b] # "none"}])

-----------------------------------------------------------------------------
(***************************************************************************)
(* Directories.                                                            *)
(***************************************************************************)

RemoveFolder(p) == folder' = [folder EXCEPT ![p] = "none"] /\ UNCHANGED bundle

\* remove_dir_all, on the way of install, update and uninstall.
RemoveCopy ==
    /\ Now("remove")
    /\ RemoveFolder(plug.p)
    /\ Then(IF plug.kind = "uninstall" THEN "record" ELSE "copy")
    /\ HoldFiles /\ HoldBudget

Copy ==
    /\ Now("copy")
    /\ folder' = [folder EXCEPT ![plug.p] = plug.v]
    /\ Then("record")
    /\ UNCHANGED bundle /\ HoldFiles /\ HoldBudget

\* A removal or a copy that stops half way.  A copy may lack no file the
\* manifest names and load all the same.
HalfRemoved(p) == folder' \in {[folder EXCEPT ![p] = f] : f \in {folder[p]} \cup Unsound}
HalfCopied(p, v) == folder' \in {[folder EXCEPT ![p] = f] : f \in {v} \cup Unsound}

\* Recorded for the bundle, and the program no longer comes with them.
Stale == {b \in BundledPlugins : bundle[b] = "none" /\ plug.held[b] # "none"}

FolderHalfDone ==
    /\ UNCHANGED bundle
    /\ \/ Now("remove") /\ HalfRemoved(plug.p)
       \/ Now("copy") /\ HalfCopied(plug.p, plug.v)
       \/ Now("replace") /\ HalfRemoved(plug.b)
       \/ Now("renew") /\ HalfCopied(plug.b, bundle[plug.b])
       \/ Now("sync") /\ plug.todo = {} /\ \E b \in Stale : HalfRemoved(b)

FolderFails ==
    /\ FolderHalfDone
    /\ Failing
    /\ HoldFiles

-----------------------------------------------------------------------------
(***************************************************************************)
(* The two files.                                                          *)
(***************************************************************************)

\* The registry to be stored.  install reads it here, and fails if it is torn;
\* the others have held it since they began.
NextRecords ==
    CASE plug.kind = "install"   -> [records EXCEPT ![plug.p] = plug.v]
      [] plug.kind = "update"    -> [plug.held EXCEPT ![plug.p] = plug.v]
      [] plug.kind = "uninstall" -> [plug.held EXCEPT ![plug.p] = "none"]

Record ==
    /\ Now("record")
    /\ plug.kind = "install" => records # Damaged
    /\ records' = NextRecords
    /\ IF plug.kind = "update" THEN Done ELSE Then("enable")
    /\ HoldFolders /\ HoldBudget /\ UNCHANGED <<enabled, memory>>

RecordsTorn ==
    /\ Now("record") /\ plug.kind = "install" /\ records = Damaged
    /\ Done
    /\ HoldFolders /\ HoldFiles /\ HoldBudget

\* What write_enabled_state stores.
NextFlag ==
    CASE plug.kind \in {"install", "enable"} -> "on"
      [] plug.kind = "disable"   -> "off"
      [] plug.kind = "uninstall" -> "none"

\* Broken variant: the manager's own copy is changed before the file.
EnableMemoryFirst ==
    /\ Now("enable")
    /\ IF memory[plug.p] = NextFlag
       THEN /\ enabled # Damaged
            /\ enabled' = [enabled EXCEPT ![plug.p] = NextFlag]
            /\ Done
            /\ UNCHANGED memory
       ELSE /\ memory' = [memory EXCEPT ![plug.p] = NextFlag]
            /\ UNCHANGED <<enabled, plug>>
    /\ HoldFolders /\ HoldBudget /\ UNCHANGED records

\* write_enabled_state, and then the manager's own copy.
Enable ==
    /\ Now("enable")
    /\ enabled # Damaged
    /\ enabled' = [enabled EXCEPT ![plug.p] = NextFlag]
    /\ memory' = [memory EXCEPT ![plug.p] = NextFlag]
    /\ Done
    /\ HoldFolders /\ HoldBudget /\ UNCHANGED records

EnabledTorn ==
    /\ Now("enable") /\ enabled = Damaged
    /\ Done
    /\ HoldFolders /\ HoldFiles /\ HoldBudget

\* fs::write stops: before, after it has emptied the file, or half way.
FileHalfWritten ==
    \/ Now("record") /\ records' \in {records, NoEntries, Damaged} /\ UNCHANGED enabled
    \/ Now("store") /\ records' \in {records, NoEntries, Damaged} /\ UNCHANGED enabled
    \/ Now("enable") /\ enabled' \in {enabled, NoEntries, Damaged} /\ UNCHANGED records

FileFails ==
    /\ FileHalfWritten
    /\ Failing
    /\ HoldFolders /\ UNCHANGED memory

-----------------------------------------------------------------------------
(***************************************************************************)
(* sync_bundled_plugins and discover_installed_plugins_with_failures.      *)
(***************************************************************************)

\* Broken variant: a recorded plugin whose directory is there is taken to be whole.
NeedsSyncByRecord(b) == plug.held[b] # bundle[b] \/ folder[b] = "none"

NeedsSync(b) == plug.held[b] # bundle[b] \/ ~Loads(b)

\* Each plugin of the bundle in turn.
Sync(b) ==
    /\ Now("sync") /\ b \in plug.todo
    /\ plug' = IF NeedsSync(b) THEN [plug EXCEPT !.b = b, !.pc = "replace"]
               ELSE [plug EXCEPT !.todo = @ \ {b}]
    /\ HoldFolders /\ HoldFiles /\ HoldBudget

ReplaceCopy ==
    /\ Now("replace")
    /\ RemoveFolder(plug.b)
    /\ Then("renew")
    /\ HoldFiles /\ HoldBudget

Renew ==
    /\ Now("renew")
    /\ folder' = [folder EXCEPT ![plug.b] = bundle[plug.b]]
    /\ plug' = [plug EXCEPT !.pc = "sync", !.todo = @ \ {plug.b}, !.b = "none", !.changed = TRUE,
                            !.held = [@ EXCEPT ![plug.b] = bundle[plug.b]]]
    /\ UNCHANGED bundle /\ HoldFiles /\ HoldBudget

\* A plugin the program no longer comes with is removed.
DropStale(b) ==
    /\ Now("sync") /\ plug.todo = {} /\ b \in Stale
    /\ RemoveFolder(b)
    /\ plug' = [plug EXCEPT !.changed = TRUE, !.held = [@ EXCEPT ![b] = "none"]]
    /\ HoldFiles /\ HoldBudget

Synced ==
    /\ Now("sync") /\ plug.todo = {}
    /\ Stale = {}
    /\ Then(IF plug.changed THEN "store" ELSE "discover")
    /\ HoldFolders /\ HoldFiles /\ HoldBudget

\* store_registry, of what sync made or of what discovery left.
Store ==
    /\ Now("store")
    /\ records' = plug.held
    /\ plug' = [plug EXCEPT !.pc = "discover", !.changed = FALSE]
    /\ HoldFolders /\ HoldBudget /\ UNCHANGED <<enabled, memory>>

\* A record without a plugin behind it is dropped; the registry is stored and
\* looked at again, which finds no more of them.
Abandoned == {p \in PluginIds : plug.held[p] # "none" /\ folder[p] \in Bare}

Discover ==
    /\ Now("discover") /\ Abandoned # {}
    /\ plug' = [plug EXCEPT !.pc = "store",
                            !.held = [p \in PluginIds |-> IF p \in Abandoned THEN "none" ELSE @[p]]]
    /\ HoldFolders /\ HoldFiles /\ HoldBudget

\* The report is made.  One plugin that does not load fails it as a whole.
Reported ==
    /\ Now("discover") /\ Abandoned = {}
    /\ \A p \in PluginIds : folder[p] # "broken"
    /\ \/ plug.kind = "list" /\ Done
       \/ plug.kind # "list" /\ Loads(plug.p) /\ Then("enable")
       \/ plug.kind # "list" /\ ~Loads(plug.p) /\ Done
    /\ HoldFolders /\ HoldFiles /\ HoldBudget

LoadFailures ==
    /\ Now("discover") /\ Abandoned = {}
    /\ \E p \in PluginIds : folder[p] = "broken"
    /\ Done
    /\ HoldFolders /\ HoldFiles /\ HoldBudget

-----------------------------------------------------------------------------
(***************************************************************************)
(* Kills and upgrades.                                                     *)
(***************************************************************************)

\* A new process has the settings of the file; settings that do not parse end
\* it before there is a manager, until someone repairs them.
PluginsKilled ==
    /\ ~Now("idle")
    /\ \/ HoldFolders /\ UNCHANGED <<records, enabled>>
       \/ FolderHalfDone /\ UNCHANGED <<records, enabled>>
       \/ FileHalfWritten /\ HoldFolders
    /\ memory' = IF enabled' = Damaged THEN memory ELSE enabled'
    /\ Failing

\* The user repairs a file that does not parse, by removing it.
Repair ==
    /\ Now("idle")
    /\ \/ records = Damaged /\ records' = NoEntries /\ UNCHANGED <<enabled, memory>>
       \/ enabled = Damaged /\ enabled' = NoEntries /\ memory' = NoEntries /\ UNCHANGED records
    /\ HoldFolders /\ HoldBudget /\ UNCHANGED plug

Upgrade(b, v) ==
    /\ Now("idle") /\ budget.upgrades > 0
    /\ bundle' = [bundle EXCEPT ![b] = v]
    /\ budget' = [budget EXCEPT !.upgrades = @ - 1]
    /\ UNCHANGED <<folder, plug>> /\ HoldFiles

-----------------------------------------------------------------------------

PluginNext ==
    \/ \E p \in ExternalPlugins, v \in Versions : Install(p, v)
    \/ \E p \in PluginIds, v \in Versions : Update(p, v)
    \/ \E p \in ExternalPlugins : Uninstall(p)
    \/ \E p \in PluginIds, kind \in {"list", "enable", "disable"} : Report(kind, p)
    \/ RemoveCopy \/ Copy \/ FolderFails \/ Record \/ RecordsTorn \/ Enable \/ EnabledTorn \/ FileFails
    \/ \E b \in BundledPlugins : Sync(b) \/ DropStale(b)
    \/ ReplaceCopy \/ Renew \/ Synced \/ Store \/ Discover \/ Reported \/ LoadFailures
    \/ PluginsKilled \/ Repair
    \/ \E b \in BundledPlugins, v \in Versions \cup {"none"} : Upgrade(b, v)

PluginSpec == PluginInit /\ [][PluginNext]_pluginVars

-----------------------------------------------------------------------------

\* A report heals what failures and kills have left before it looks for
\* plugins that do not load: each plugin of the bundle loads and is recorded
\* at the bundle's version, and every record has a plugin behind it
\* (sync_bundled_plugins, discover_installed_plugins_with_failures).
ReportHeals ==
    [][Reported \/ LoadFailures =>
        /\ \A b \in BundledPlugins :
              bundle[b] # "none" => Loads(b) /\ records[b] = bundle[b]
        /\ \A p \in PluginIds : records[p] # "none" => folder[p] \notin Bare]_pluginVars

\* Between operations the manager heeds every entry of the settings,
\* whichever write of the last one failed; of a failed write that emptied the
\* file it may remember more (install, enable, disable, uninstall).
SavedFlagsHold ==
    plug.pc = "idle" /\ enabled # Damaged =>
        \A p \in PluginIds : enabled[p] # "none" => memory[p] = enabled[p]
=============================================================================
