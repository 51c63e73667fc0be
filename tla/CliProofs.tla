------------------------------- MODULE CliProofs -------------------------------
(***************************************************************************)
(* What holds of the command line program whatever its constants: of its   *)
(* permission policy, of its plugin manager and of the files of its        *)
(* sessions.  The three share no state.                                    *)
(***************************************************************************)
EXTENDS PermissionDecision, Plugins, ReplSession, TLAPS

-----------------------------------------------------------------------------
(***************************************************************************)
(* The permission policy.  What it decides is a function of the rules that *)
(* match, the override, the mode and the requirement; the theorems are of  *)
(* every decision it can take.                                             *)
(***************************************************************************)

\* A decision is what authorize made of a call.
Authorized ==
    \/ decision = Undecided
    \/ /\ decision.rules \in Matches /\ decision.override \in Overrides
       /\ decision.mode \in Modes /\ decision.required \in Requirements
       /\ decision.outcome = Authorize(decision.rules, decision.override, decision.mode,
                                       decision.required)

LEMMA AuthorizedHolds == DecisionSpec => []Authorized
<1>1. DecisionInit => Authorized
  BY DEF DecisionInit, Authorized
<1>2. Authorized /\ [DecisionNext]_decisionVars => Authorized'
  <2>1. ASSUME NEW rules \in Matches, NEW override \in Overrides, NEW mode \in Modes,
               NEW required \in Requirements, Decide(rules, override, mode, required)
        PROVE  Authorized'
    BY <2>1 DEF Decide, Authorized
  <2> QED  BY <2>1 DEF DecisionNext, decisionVars, Authorized
<1> QED  BY <1>1, <1>2, PTL DEF DecisionSpec

-----------------------------------------------------------------------------

\* The order of the modes is that of their ranks.
LEMMA Ranks == \A mode \in Modes : Rank(mode) \in 0..4 /\ (Rank(mode) = 4 <=> mode = "allow")
BY DEF Modes, Rank

LEMMA MorePermissiveIsTransitive ==
    ASSUME NEW a \in Modes, NEW b \in Modes, NEW c \in Modes, AtLeast(a, b), AtLeast(b, c)
    PROVE  AtLeast(a, c)
BY Ranks DEF AtLeast

\* What is granted to a mode is granted to every more permissive one.
LEMMA GrantedIsMonotone ==
    ASSUME NEW rules \in Matches, NEW mode \in Modes, NEW more \in Modes, AtLeast(more, mode),
           NEW required \in Requirements, Granted(rules, mode, required)
    PROVE  Granted(rules, more, required)
<1>1. required \in Modes
  BY DEF Requirements, Modes
<1>2. mode = "allow" => more = "allow"
  BY Ranks DEF AtLeast
<1> QED  BY <1>1, <1>2, MorePermissiveIsTransitive DEF Granted

\* A call is allowed exactly if nothing refuses it or wants it asked, and a
\* rule or the mode grants it.
LEMMA AllowedIff ==
    ASSUME NEW rules \in Matches, NEW override \in Overrides, NEW mode, NEW required
    PROVE  Authorize(rules, override, mode, required) = "allow"
           <=> /\ ~rules.deny /\ ~rules.ask /\ override \notin {"deny", "ask"}
               /\ Granted(rules, mode, required)
<1>1. override \in {"none", "allow", "deny", "ask"}
  BY DEF Overrides
<1>2. ByRulesAndMode(rules, mode, required) = "allow" <=> ~rules.ask /\ Granted(rules, mode, required)
  BY DEF ByRulesAndMode
<1>3. UnderHookAllow(rules, mode, required) = "allow" <=> ~rules.ask /\ Granted(rules, mode, required)
  BY <1>2 DEF UnderHookAllow
<1> QED  BY <1>1, <1>2, <1>3 DEF Authorize

-----------------------------------------------------------------------------

\* Nothing grants what a rule or a hook refuses or wants asked
\* (PermissionPolicy::authorize_with_context).
THEOREM NothingOverrulesARefusal == DecisionSpec => []RefusedOrAskedIsNotRun
<1>1. Authorized => RefusedOrAskedIsNotRun
  <2> SUFFICES ASSUME Authorized, decision.outcome = "allow"
               PROVE  /\ ~decision.rules.deny /\ ~decision.rules.ask
                      /\ decision.override \notin {"deny", "ask"}
    BY DEF RefusedOrAskedIsNotRun
  <2>1. decision # Undecided
    BY DEF Undecided
  <2> QED  BY <2>1, AllowedIff DEF Authorized
<1> QED  BY <1>1, AuthorizedHolds, PTL

\* A stricter mode allows nothing that a more permissive one does not
\* (the comparison of modes in authorize_with_context).
THEOREM ModesAreOrdered == DecisionSpec => []MoreModeAllowsMore
<1>1. Authorized => MoreModeAllowsMore
  <2> SUFFICES ASSUME Authorized, decision.outcome = "allow",
                      NEW m \in Modes, AtLeast(m, decision.mode)
               PROVE  Authorize(decision.rules, decision.override, m, decision.required) = "allow"
    BY DEF MoreModeAllowsMore
  <2>1. decision # Undecided
    BY DEF Undecided
  <2>2. /\ decision.rules \in Matches /\ decision.override \in Overrides
        /\ decision.mode \in Modes /\ decision.required \in Requirements
        /\ Authorize(decision.rules, decision.override, decision.mode, decision.required) = "allow"
    BY <2>1 DEF Authorized
  <2> QED  BY <2>2, AllowedIff, GrantedIsMonotone
<1> QED  BY <1>1, AuthorizedHolds, PTL

-----------------------------------------------------------------------------
(***************************************************************************)
(* The plugin manager.  First the form of its state, then what the manager *)
(* holds of the settings, then what a report has made so far.              *)
(***************************************************************************)

Flags    == {"none", "on", "off"}
InReport == {"sync", "replace", "renew", "store", "discover"}

Operation ==
    [kind : {"none", "install", "update", "uninstall", "list", "enable", "disable"},
     p : PluginIds \cup {"none"}, v : Versions \cup {"none"},
     pc : {"idle", "remove", "copy", "record", "enable"} \cup InReport,
     todo : SUBSET BundledPlugins, b : BundledPlugins \cup {"none"},
     held : [PluginIds -> Versions \cup {"none"}], changed : BOOLEAN]

PluginTypeOK ==
    /\ bundle \in [BundledPlugins -> Versions \cup {"none"}]
    /\ folder \in [PluginIds -> Versions \cup Unsound]
    /\ records # Damaged => records \in [PluginIds -> Versions \cup {"none"}]
    /\ enabled # Damaged => enabled \in [PluginIds -> Flags]
    /\ memory \in [PluginIds -> Flags]
    /\ plug \in Operation

\* What the place of an operation says of it.
PlugForm ==
    /\ plug.pc # "idle" => plug.p \in PluginIds
    /\ plug.pc \in {"remove", "copy", "record"} =>
          /\ plug.kind \in {"install", "update", "uninstall"}
          /\ plug.kind = "uninstall" => plug.pc # "copy"
          /\ plug.kind # "uninstall" => plug.v \in Versions
    /\ plug.pc = "enable" => plug.kind \in {"install", "uninstall", "enable", "disable"}
    /\ plug.pc \in {"sync", "discover", "store", "replace", "renew"} =>
          plug.kind \in {"list", "enable", "disable"}
    /\ plug.pc \in {"replace", "renew"} => plug.b \in plug.todo
    /\ plug.pc \in InReport => \A b \in plug.todo : bundle[b] # "none"

LEMMA IdleOperation == NoPlug \in Operation
BY DEF NoPlug, Operation, NoEntries, InReport

\* The form of what an operation becomes.
LEMMA OperationUpdates ==
    ASSUME NEW x \in Operation, NEW pc \in {"idle", "remove", "copy", "record", "enable"} \cup InReport,
           NEW b \in BundledPlugins, NEW held \in [PluginIds -> Versions \cup {"none"}],
           NEW bool \in BOOLEAN
    PROVE  /\ [x EXCEPT !.pc = pc] \in Operation
           /\ [x EXCEPT !.b = b, !.pc = pc] \in Operation
           /\ [x EXCEPT !.todo = @ \ {b}] \in Operation
           /\ [x EXCEPT !.pc = pc, !.todo = @ \ {b}, !.b = "none", !.changed = bool, !.held = held]
                 \in Operation
           /\ [x EXCEPT !.changed = bool, !.held = held] \in Operation
           /\ [x EXCEPT !.pc = pc, !.changed = bool] \in Operation
           /\ [x EXCEPT !.pc = pc, !.held = held] \in Operation
BY DEF Operation

LEMMA StartsOperation ==
    ASSUME NEW p \in PluginIds, NEW held \in [PluginIds -> Versions \cup {"none"}]
    PROVE  /\ \A v \in Versions :
                 /\ [NoPlug EXCEPT !.kind = "install", !.p = p, !.v = v, !.pc = "remove"]
                       \in Operation
                 /\ [NoPlug EXCEPT !.kind = "update", !.p = p, !.v = v, !.pc = "remove",
                                   !.held = held] \in Operation
           /\ [NoPlug EXCEPT !.kind = "uninstall", !.p = p, !.pc = "remove", !.held = held]
                 \in Operation
           /\ \A kind \in {"list", "enable", "disable"}, todo \in SUBSET BundledPlugins :
                 [NoPlug EXCEPT !.kind = kind, !.p = p, !.pc = "sync", !.held = held, !.todo = todo]
                    \in Operation
BY DEF NoPlug, Operation, NoEntries, InReport

\* What the folders may be after a removal or a copy that stopped half way.
LEMMA HalfDoneFolders ==
    ASSUME PluginTypeOK, PlugForm, FolderHalfDone
    PROVE  folder' \in [PluginIds -> Versions \cup Unsound] /\ bundle' = bundle
<1>1. ASSUME NEW p, HalfRemoved(p)  PROVE folder' \in [PluginIds -> Versions \cup Unsound]
  <2>1. PICK f \in {folder[p]} \cup Unsound : folder' = [folder EXCEPT ![p] = f]
    BY <1>1 DEF HalfRemoved
  <2>2. CASE p \in PluginIds
    BY <2>1, <2>2 DEF PluginTypeOK
  <2>3. CASE p \notin PluginIds
    BY <2>1, <2>3 DEF PluginTypeOK
  <2>4. QED  BY <2>2, <2>3
<1>2. ASSUME NEW p, NEW v \in Versions, HalfCopied(p, v)
      PROVE  folder' \in [PluginIds -> Versions \cup Unsound]
  BY <1>2 DEF HalfCopied, PluginTypeOK
<1>3. CASE Now("remove") /\ HalfRemoved(plug.p)
  BY <1>1, <1>3 DEF FolderHalfDone
<1>4. CASE Now("copy") /\ HalfCopied(plug.p, plug.v)
  BY <1>2, <1>4 DEF FolderHalfDone, PlugForm, Now
<1>5. CASE Now("replace") /\ HalfRemoved(plug.b)
  BY <1>1, <1>5 DEF FolderHalfDone
<1>6. CASE Now("renew") /\ HalfCopied(plug.b, bundle[plug.b])
  <2>1. bundle[plug.b] \in Versions
    BY <1>6 DEF Now, PlugForm, PluginTypeOK, InReport, Operation
  <2>2. QED  BY <1>2, <1>6, <2>1 DEF FolderHalfDone
<1>7. CASE \E b \in Stale : HalfRemoved(b)
  BY <1>1, <1>7 DEF FolderHalfDone
<1>8. QED  BY <1>3, <1>4, <1>5, <1>6, <1>7 DEF FolderHalfDone

\* And the two files, after a write that stopped half way.
LEMMA HalfWrittenFiles ==
    ASSUME PluginTypeOK, FileHalfWritten
    PROVE  /\ records' # Damaged => records' \in [PluginIds -> Versions \cup {"none"}]
           /\ enabled' # Damaged => enabled' \in [PluginIds -> Flags]
BY DEF FileHalfWritten, PluginTypeOK, NoEntries, Flags

\* An operation that is over has the form.
LEMMA DoneForm == plug' = NoPlug => plug' \in Operation /\ PlugForm'
BY IdleOperation DEF NoPlug, PlugForm, InReport

LEMMA FormStarts ==
    ASSUME PluginTypeOK, PlugForm, UNCHANGED bundle,
           \/ \E p \in ExternalPlugins, v \in Versions : Install(p, v)
           \/ \E p \in PluginIds, v \in Versions : Update(p, v)
           \/ \E p \in ExternalPlugins : Uninstall(p)
           \/ \E p \in PluginIds, kind \in {"list", "enable", "disable"} : Report(kind, p)
    PROVE  plug' \in Operation /\ PlugForm'
<1>1. ASSUME NEW p \in ExternalPlugins, NEW v \in Versions, Install(p, v)
      PROVE  plug' \in Operation /\ PlugForm'
  <2>1. p \in PluginIds /\ NoEntries \in [PluginIds -> Versions \cup {"none"}]
    BY DEF PluginIds, NoEntries
  <2>2. plug' = [NoPlug EXCEPT !.kind = "install", !.p = p, !.v = v, !.pc = "remove"]
    BY <1>1 DEF Install, Start
  <2>3. plug' \in Operation
    BY <2>1, <2>2, StartsOperation
  <2>4. QED  BY <2>1, <2>2, <2>3 DEF PlugForm, NoPlug, InReport
<1>2. ASSUME NEW p \in PluginIds, NEW v \in Versions, Update(p, v)
      PROVE  plug' \in Operation /\ PlugForm'
  <2>1. records \in [PluginIds -> Versions \cup {"none"}]
    BY <1>2 DEF PluginTypeOK, Update
  <2>2. plug' = [NoPlug EXCEPT !.kind = "update", !.p = p, !.v = v, !.pc = "remove",
                               !.held = records]
    BY <1>2 DEF Update, Start
  <2>3. plug' \in Operation
    BY <2>1, <2>2, StartsOperation
  <2>4. QED  BY <2>2, <2>3 DEF PlugForm, NoPlug, InReport
<1>3. ASSUME NEW p \in ExternalPlugins, Uninstall(p)  PROVE plug' \in Operation /\ PlugForm'
  <2>1. p \in PluginIds /\ records \in [PluginIds -> Versions \cup {"none"}]
    BY <1>3 DEF PluginTypeOK, Uninstall, PluginIds
  <2>2. plug' = [NoPlug EXCEPT !.kind = "uninstall", !.p = p, !.pc = "remove", !.held = records]
    BY <1>3 DEF Uninstall, Start
  <2>3. plug' \in Operation
    BY <2>1, <2>2, StartsOperation
  <2>4. QED  BY <2>1, <2>2, <2>3 DEF PlugForm, NoPlug, InReport
<1>4. ASSUME NEW p \in PluginIds, NEW kind \in {"list", "enable", "disable"}, Report(kind, p)
      PROVE  plug' \in Operation /\ PlugForm'
  <2> DEFINE todo == {b \in BundledPlugins : bundle[b] # "none"}
  <2>1. records \in [PluginIds -> Versions \cup {"none"}]
    BY <1>4 DEF PluginTypeOK, Report
  <2>2. plug' = [NoPlug EXCEPT !.kind = kind, !.p = p, !.pc = "sync", !.held = records,
                               !.todo = todo]
    BY <1>4 DEF Report, Start
  <2> HIDE DEF todo
  <2>3. plug' \in Operation
    <3>1. todo \in SUBSET BundledPlugins
      BY DEF todo
    <3>2. QED  BY <2>1, <2>2, <3>1, StartsOperation
  <2>4. \A b \in plug'.todo : bundle'[b] # "none"
    BY <2>2 DEF NoPlug, todo
  <2>5. QED  BY <2>2, <2>3, <2>4 DEF PlugForm, NoPlug, InReport
<1>5. QED  BY <1>1, <1>2, <1>3, <1>4

PlugInd == PluginTypeOK /\ PlugForm

LEMMA PlugIndInit == PluginInit => PlugInd
BY IdleOperation
   DEF PluginInit, PlugInd, PluginTypeOK, PlugForm, NoEntries, NoPlug, Flags, Unsound, Bare, InReport

LEMMA PlugIndStep == PlugInd /\ [PluginNext]_pluginVars => PlugInd'
<1> SUFFICES ASSUME PluginTypeOK, PlugForm, [PluginNext]_pluginVars
             PROVE  PluginTypeOK' /\ PlugForm'
  BY DEF PlugInd
<1>0. plug \in Operation
  BY DEF PluginTypeOK
<1>i. \/ \E p \in ExternalPlugins, v \in Versions : Install(p, v)
      \/ \E p \in PluginIds, v \in Versions : Update(p, v)
      \/ \E p \in ExternalPlugins : Uninstall(p)
      \/ \E p \in PluginIds, kind \in {"list", "enable", "disable"} : Report(kind, p)
      => PluginTypeOK' /\ PlugForm'
  <2> SUFFICES ASSUME \/ \E p \in ExternalPlugins, v \in Versions : Install(p, v)
                      \/ \E p \in PluginIds, v \in Versions : Update(p, v)
                      \/ \E p \in ExternalPlugins : Uninstall(p)
                      \/ \E p \in PluginIds, kind \in {"list", "enable", "disable"} : Report(kind, p)
               PROVE  PluginTypeOK' /\ PlugForm'
    OBVIOUS
  <2>1. UNCHANGED <<bundle, folder, records, enabled, memory>>
    BY DEF Install, Update, Uninstall, Report, Start, HoldFolders, HoldFiles
  <2>2. plug' \in Operation /\ PlugForm'
    BY <2>1, FormStarts
  <2>3. QED  BY <2>1, <2>2 DEF PluginTypeOK
<1>1. ASSUME RemoveCopy  PROVE PluginTypeOK' /\ PlugForm'
  <2>1. folder' = [folder EXCEPT ![plug.p] = "none"] /\ UNCHANGED <<bundle, records, enabled, memory>>
    BY <1>1 DEF RemoveCopy, RemoveFolder, HoldFiles
  <2>2. folder' \in [PluginIds -> Versions \cup Unsound]
    BY <2>1 DEF PluginTypeOK, Unsound, Bare
  <2>3. PICK pc \in {"copy", "record"} :
           plug' = [plug EXCEPT !.pc = pc] /\ (plug.kind = "uninstall" => pc = "record")
    BY <1>1 DEF RemoveCopy, Then
  <2>4. plug' \in Operation
    BY <1>0, <2>3 DEF Operation
  <2>5. PlugForm'
    BY <1>0, <1>1, <2>1, <2>3 DEF PlugForm, RemoveCopy, Now, Operation, InReport
  <2>6. QED  BY <2>1, <2>2, <2>4, <2>5 DEF PluginTypeOK
<1>2. ASSUME Copy  PROVE PluginTypeOK' /\ PlugForm'
  <2>1. /\ folder' = [folder EXCEPT ![plug.p] = plug.v]
        /\ UNCHANGED <<bundle, records, enabled, memory>>
    BY <1>2 DEF Copy, HoldFiles
  <2>2. folder' \in [PluginIds -> Versions \cup Unsound]
    BY <1>2, <2>1 DEF PluginTypeOK, PlugForm, Copy, Now
  <2>3. plug' = [plug EXCEPT !.pc = "record"]
    BY <1>2 DEF Copy, Then
  <2>4. plug' \in Operation
    BY <1>0, <2>3 DEF Operation
  <2>5. PlugForm'
    BY <1>0, <1>2, <2>1, <2>3 DEF PlugForm, Copy, Now, Operation, InReport
  <2>6. QED  BY <2>1, <2>2, <2>4, <2>5 DEF PluginTypeOK
<1>3. ASSUME FolderFails  PROVE PluginTypeOK' /\ PlugForm'
  <2>1. plug' = NoPlug /\ UNCHANGED <<records, enabled, memory>> /\ FolderHalfDone
    BY <1>3 DEF FolderFails, Failing, Done, HoldFiles
  <2>2. QED  BY <2>1, HalfDoneFolders, DoneForm DEF PluginTypeOK
<1>4. ASSUME Record  PROVE PluginTypeOK' /\ PlugForm'
  <2>1. UNCHANGED <<bundle, folder, enabled, memory>> /\ records' = NextRecords /\ plug.pc = "record"
    BY <1>4 DEF Record, HoldFolders, Now
  <2>2. plug.kind \in {"install", "update", "uninstall"} /\ plug.p \in PluginIds
        /\ (plug.kind # "uninstall" => plug.v \in Versions)
    BY <2>1 DEF PlugForm
  <2>3. plug.held \in [PluginIds -> Versions \cup {"none"}]
    BY <1>0 DEF Operation
  <2>4. records' \in [PluginIds -> Versions \cup {"none"}]
    <3>1. CASE plug.kind = "install"
      BY <1>4, <2>1, <2>2, <3>1 DEF Record, NextRecords, PluginTypeOK
    <3>2. CASE plug.kind = "update"
      BY <2>1, <2>2, <2>3, <3>2 DEF NextRecords
    <3>3. CASE plug.kind = "uninstall"
      BY <2>1, <2>2, <2>3, <3>3 DEF NextRecords
    <3>4. QED  BY <2>2, <3>1, <3>2, <3>3
  <2>5. CASE plug.kind = "update"
    BY <1>4, <2>1, <2>4, <2>5, DoneForm DEF Record, Done, PluginTypeOK
  <2>6. CASE plug.kind # "update"
    <3>1. plug' = [plug EXCEPT !.pc = "enable"]
      BY <1>4, <2>6 DEF Record, Then
    <3>2. plug' \in Operation
      BY <1>0, <3>1 DEF Operation
    <3>3. PlugForm'
      BY <1>0, <2>1, <2>2, <2>6, <3>1 DEF PlugForm, Operation, InReport
    <3>4. QED  BY <2>1, <2>4, <3>2, <3>3 DEF PluginTypeOK
  <2>7. QED  BY <2>5, <2>6
<1>5. ASSUME RecordsTorn \/ EnabledTorn \/ LoadFailures  PROVE PluginTypeOK' /\ PlugForm'
  BY <1>5, DoneForm
     DEF RecordsTorn, EnabledTorn, LoadFailures, Done, HoldFolders, HoldFiles, PluginTypeOK
<1>6. ASSUME Enable  PROVE PluginTypeOK' /\ PlugForm'
  <2>1. UNCHANGED <<bundle, folder, records>> /\ plug' = NoPlug
    BY <1>6 DEF Enable, HoldFolders, Done
  <2>2. NextFlag \in Flags
    BY <1>6 DEF Enable, Now, PlugForm, NextFlag, Flags
  <2>3. enabled' \in [PluginIds -> Flags] /\ memory' \in [PluginIds -> Flags]
    BY <1>6, <2>2 DEF Enable, PluginTypeOK
  <2>4. QED  BY <2>1, <2>3, DoneForm DEF PluginTypeOK
<1>7. ASSUME FileFails  PROVE PluginTypeOK' /\ PlugForm'
  <2>1. plug' = NoPlug /\ UNCHANGED <<bundle, folder, memory>> /\ FileHalfWritten
    BY <1>7 DEF FileFails, Failing, Done, HoldFolders
  <2>2. QED  BY <2>1, HalfWrittenFiles, DoneForm DEF PluginTypeOK
<1>8. ASSUME NEW b \in BundledPlugins, Sync(b)  PROVE PluginTypeOK' /\ PlugForm'
  <2>1. UNCHANGED <<bundle, folder, records, enabled, memory>> /\ plug.pc = "sync" /\ b \in plug.todo
    BY <1>8 DEF Sync, HoldFolders, HoldFiles, Now
  <2>2. \/ plug' = [plug EXCEPT !.b = b, !.pc = "replace"]
        \/ plug' = [plug EXCEPT !.todo = @ \ {b}]
    BY <1>8 DEF Sync
  <2>3. plug' \in Operation
    BY <1>0, <2>2 DEF Operation, InReport
  <2>4. PlugForm'
    BY <1>0, <2>1, <2>2 DEF PlugForm, Operation, InReport
  <2>5. QED  BY <2>1, <2>3, <2>4 DEF PluginTypeOK
<1>9. ASSUME NEW b \in BundledPlugins, DropStale(b)  PROVE PluginTypeOK' /\ PlugForm'
  <2>1. UNCHANGED <<bundle, records, enabled, memory>> /\ plug.pc = "sync"
        /\ folder' = [folder EXCEPT ![b] = "none"]
    BY <1>9 DEF DropStale, RemoveFolder, HoldFiles, Now
  <2>2. plug' = [plug EXCEPT !.changed = TRUE, !.held = [plug.held EXCEPT ![b] = "none"]]
    BY <1>9 DEF DropStale
  <2>3. plug' \in Operation
    BY <1>0, <2>2 DEF Operation
  <2>4. folder' \in [PluginIds -> Versions \cup Unsound]
    BY <2>1 DEF PluginTypeOK, Unsound, Bare
  <2>5. PlugForm'
    BY <1>0, <2>1, <2>2 DEF PlugForm, Operation, InReport
  <2>6. QED  BY <2>1, <2>3, <2>4, <2>5 DEF PluginTypeOK
<1>10. ASSUME ReplaceCopy  PROVE PluginTypeOK' /\ PlugForm'
  <2>1. UNCHANGED <<bundle, records, enabled, memory>> /\ plug.pc = "replace"
        /\ folder' = [folder EXCEPT ![plug.b] = "none"]
    BY <1>10 DEF ReplaceCopy, RemoveFolder, HoldFiles, Now
  <2>2. plug' = [plug EXCEPT !.pc = "renew"]
    BY <1>10 DEF ReplaceCopy, Then
  <2>3. plug' \in Operation
    BY <1>0, <2>2 DEF Operation, InReport
  <2>4. folder' \in [PluginIds -> Versions \cup Unsound]
    BY <2>1 DEF PluginTypeOK, Unsound, Bare
  <2>5. PlugForm'
    BY <1>0, <2>1, <2>2 DEF PlugForm, Operation, InReport
  <2>6. QED  BY <2>1, <2>3, <2>4, <2>5 DEF PluginTypeOK
<1>11. ASSUME Renew  PROVE PluginTypeOK' /\ PlugForm'
  <2>1. UNCHANGED <<bundle, records, enabled, memory>> /\ plug.pc = "renew"
        /\ folder' = [folder EXCEPT ![plug.b] = bundle[plug.b]]
    BY <1>11 DEF Renew, HoldFiles, Now
  <2>2. plug' = [plug EXCEPT !.pc = "sync", !.todo = plug.todo \ {plug.b}, !.b = "none",
                             !.changed = TRUE,
                             !.held = [plug.held EXCEPT ![plug.b] = bundle[plug.b]]]
    BY <1>11 DEF Renew
  <2>3. plug.b \in BundledPlugins /\ bundle[plug.b] \in Versions
    BY <1>0, <2>1 DEF PlugForm, Operation, PluginTypeOK, InReport
  <2>4. plug' \in Operation
    BY <1>0, <2>2, <2>3 DEF Operation, InReport
  <2>5. folder' \in [PluginIds -> Versions \cup Unsound]
    BY <2>1, <2>3 DEF PluginTypeOK
  <2>6. PlugForm'
    BY <1>0, <2>1, <2>2 DEF PlugForm, Operation, InReport
  <2>7. QED  BY <2>1, <2>4, <2>5, <2>6 DEF PluginTypeOK
<1>12. ASSUME Synced  PROVE PluginTypeOK' /\ PlugForm'
  <2>1. UNCHANGED <<bundle, folder, records, enabled, memory>> /\ plug.pc = "sync"
    BY <1>12 DEF Synced, HoldFolders, HoldFiles, Now
  <2>2. PICK pc \in {"store", "discover"} : plug' = [plug EXCEPT !.pc = pc]
    BY <1>12 DEF Synced, Then
  <2>3. plug' \in Operation
    BY <1>0, <2>2 DEF Operation, InReport
  <2>4. PlugForm'
    BY <1>0, <2>1, <2>2 DEF PlugForm, Operation, InReport
  <2>5. QED  BY <2>1, <2>3, <2>4 DEF PluginTypeOK
<1>13. ASSUME Store  PROVE PluginTypeOK' /\ PlugForm'
  <2>1. UNCHANGED <<bundle, folder, enabled, memory>> /\ plug.pc = "store" /\ records' = plug.held
    BY <1>13 DEF Store, HoldFolders, Now
  <2>2. plug' = [plug EXCEPT !.pc = "discover", !.changed = FALSE]
    BY <1>13 DEF Store
  <2>3. plug' \in Operation
    BY <1>0, <2>2 DEF Operation, InReport
  <2>4. PlugForm'
    BY <1>0, <2>1, <2>2 DEF PlugForm, Operation, InReport
  <2>5. plug.held \in [PluginIds -> Versions \cup {"none"}]
    BY <1>0 DEF Operation
  <2>6. QED  BY <2>1, <2>3, <2>4, <2>5 DEF PluginTypeOK
<1>14. ASSUME Discover  PROVE PluginTypeOK' /\ PlugForm'
  <2> DEFINE held == [p \in PluginIds |-> IF p \in Abandoned THEN "none" ELSE plug.held[p]]
  <2>1. UNCHANGED <<bundle, folder, records, enabled, memory>> /\ plug.pc = "discover"
    BY <1>14 DEF Discover, HoldFolders, HoldFiles, Now
  <2>2. plug' = [plug EXCEPT !.pc = "store", !.held = held]
    BY <1>14 DEF Discover
  <2>3. held \in [PluginIds -> Versions \cup {"none"}]
    BY <1>0 DEF Operation
  <2> HIDE DEF held
  <2>4. plug' \in Operation
    BY <1>0, <2>2, <2>3 DEF Operation, InReport
  <2>5. PlugForm'
    BY <1>0, <2>1, <2>2 DEF PlugForm, Operation, InReport
  <2>6. QED  BY <2>1, <2>4, <2>5 DEF PluginTypeOK
<1>15. ASSUME Reported  PROVE PluginTypeOK' /\ PlugForm'
  <2>1. UNCHANGED <<bundle, folder, records, enabled, memory>> /\ plug.pc = "discover"
    BY <1>15 DEF Reported, HoldFolders, HoldFiles, Now
  <2>2. \/ plug' = NoPlug
        \/ plug' = [plug EXCEPT !.pc = "enable"] /\ plug.kind # "list"
    BY <1>15 DEF Reported, Done, Then
  <2>3. CASE plug' = NoPlug
    BY <2>1, <2>3, DoneForm DEF PluginTypeOK
  <2>4. CASE plug' = [plug EXCEPT !.pc = "enable"] /\ plug.kind # "list"
    <3>1. plug' \in Operation
      BY <1>0, <2>4 DEF Operation
    <3>2. PlugForm'
      BY <1>0, <2>1, <2>4 DEF PlugForm, Operation, InReport
    <3>3. QED  BY <2>1, <3>1, <3>2 DEF PluginTypeOK
  <2>5. QED  BY <2>2, <2>3, <2>4
<1>16. ASSUME PluginsKilled  PROVE PluginTypeOK' /\ PlugForm'
  <2>1. plug' = NoPlug
    BY <1>16 DEF PluginsKilled, Failing, Done
  <2>2. bundle' = bundle /\ folder' \in [PluginIds -> Versions \cup Unsound]
    <3>1. CASE HoldFolders
      BY <3>1 DEF HoldFolders, PluginTypeOK
    <3>2. CASE FolderHalfDone
      BY <3>2, HalfDoneFolders
    <3>3. QED  BY <1>16, <3>1, <3>2 DEF PluginsKilled
  <2>3. /\ records' # Damaged => records' \in [PluginIds -> Versions \cup {"none"}]
        /\ enabled' # Damaged => enabled' \in [PluginIds -> Flags]
    <3>1. CASE UNCHANGED <<records, enabled>>
      BY <3>1 DEF PluginTypeOK
    <3>2. CASE FileHalfWritten
      BY <3>2, HalfWrittenFiles
    <3>3. QED  BY <1>16, <3>1, <3>2 DEF PluginsKilled
  <2>4. memory' \in [PluginIds -> Flags]
    BY <1>16, <2>3 DEF PluginsKilled, PluginTypeOK
  <2>5. QED  BY <2>1, <2>2, <2>3, <2>4, DoneForm DEF PluginTypeOK
<1>17. ASSUME Repair  PROVE PluginTypeOK' /\ PlugForm'
  BY <1>17 DEF Repair, HoldFolders, PluginTypeOK, PlugForm, NoEntries, Flags
<1>18. ASSUME NEW b \in BundledPlugins, NEW v \in Versions \cup {"none"}, Upgrade(b, v)
       PROVE  PluginTypeOK' /\ PlugForm'
  <2>1. UNCHANGED <<folder, records, enabled, memory, plug>> /\ plug.pc = "idle"
        /\ bundle' = [bundle EXCEPT ![b] = v]
    BY <1>18 DEF Upgrade, Now, HoldFiles
  <2>2. bundle' \in [BundledPlugins -> Versions \cup {"none"}]
    BY <2>1 DEF PluginTypeOK
  <2>3. QED  BY <2>1, <2>2 DEF PluginTypeOK, PlugForm, InReport
<1>19. ASSUME UNCHANGED pluginVars  PROVE PluginTypeOK' /\ PlugForm'
  BY <1>19 DEF pluginVars, PluginTypeOK, PlugForm
<1>20. QED
  BY <1>i, <1>1, <1>2, <1>3, <1>4, <1>5, <1>6, <1>7, <1>8, <1>9, <1>10, <1>11, <1>12, <1>13, <1>14,
     <1>15, <1>16, <1>17, <1>18, <1>19 DEF PluginNext

\* Every entry of the settings is what the manager holds, at each step.
Heeded ==
    enabled # Damaged => \A p \in PluginIds : enabled[p] # "none" => memory[p] = enabled[p]

LEMMA HeededStep == PlugInd /\ Heeded /\ [PluginNext]_pluginVars => Heeded'
<1> SUFFICES ASSUME PluginTypeOK, Heeded, [PluginNext]_pluginVars
             PROVE  Heeded'
  BY DEF PlugInd
<1>1. CASE UNCHANGED <<enabled, memory>>
  BY <1>1 DEF Heeded
<1>2. CASE Enable
  BY <1>2 DEF Enable, PluginTypeOK, Heeded
<1>3. CASE FileFails
  <2>1. memory' = memory /\ enabled' \in {enabled, NoEntries, Damaged}
    BY <1>3 DEF FileFails, FileHalfWritten
  <2>2. QED  BY <2>1 DEF Heeded, NoEntries
<1>4. CASE PluginsKilled
  <2>1. enabled' = Damaged \/ memory' = enabled'
    BY <1>4 DEF PluginsKilled
  <2>2. QED  BY <2>1 DEF Heeded
<1>5. CASE Repair
  <2>1. UNCHANGED <<enabled, memory>> \/ enabled' = NoEntries
    BY <1>5 DEF Repair
  <2>2. QED  BY <2>1, <1>1 DEF Heeded, NoEntries
<1>6. QED
  <2>1. CASE \/ \E p \in ExternalPlugins, v \in Versions : Install(p, v)
             \/ \E p \in PluginIds, v \in Versions : Update(p, v)
             \/ \E p \in ExternalPlugins : Uninstall(p)
             \/ \E p \in PluginIds, kind \in {"list", "enable", "disable"} : Report(kind, p)
    BY <1>1, <2>1 DEF Install, Update, Uninstall, Report, Start, HoldFiles
  <2>2. CASE RemoveCopy \/ Copy \/ FolderFails \/ Record \/ RecordsTorn \/ EnabledTorn
    BY <1>1, <2>2 DEF RemoveCopy, Copy, FolderFails, Record, RecordsTorn, EnabledTorn, HoldFiles
  <2>3. CASE \E b \in BundledPlugins : Sync(b) \/ DropStale(b)
    BY <1>1, <2>3 DEF Sync, DropStale, HoldFiles
  <2>4. CASE ReplaceCopy \/ Renew \/ Synced \/ Store
    BY <1>1, <2>4 DEF ReplaceCopy, Renew, Synced, Store, HoldFiles
  <2>5. CASE Discover \/ Reported \/ LoadFailures
    BY <1>1, <2>5 DEF Discover, Reported, LoadFailures, HoldFiles
  <2>6. CASE \E b \in BundledPlugins, v \in Versions \cup {"none"} : Upgrade(b, v)
    BY <1>1, <2>6 DEF Upgrade, HoldFiles
  <2>7. CASE UNCHANGED pluginVars
    BY <1>1, <2>7 DEF pluginVars
  <2>8. QED
    BY <1>2, <1>3, <1>4, <1>5, <2>1, <2>2, <2>3, <2>4, <2>5, <2>6, <2>7 DEF PluginNext

\* SavedFlagsHold: between operations the plugin manager heeds every entry of
\* settings.json, whichever write of write_enabled_state failed or was killed,
\* of any plugins and after any number of failures.  Heeded says so of every
\* step: the file is written before the manager's own copy, and what fails in
\* between adds no entry.
THEOREM FlagsHold == PluginSpec => []SavedFlagsHold
<1>1. PluginInit => Heeded
  BY DEF PluginInit, Heeded, NoEntries
<1>2. Heeded => SavedFlagsHold
  BY DEF Heeded, SavedFlagsHold
<1>3. QED  BY <1>1, <1>2, PlugIndInit, PlugIndStep, HeededStep, PTL DEF PluginSpec

-----------------------------------------------------------------------------

\* What a report has made so far.
SyncMade ==
    plug.pc \in InReport =>
      /\ \A b \in BundledPlugins \ plug.todo :
            bundle[b] # "none" => Loads(b) /\ plug.held[b] = bundle[b]
      /\ plug.pc \in {"store", "discover"} => plug.todo = {}
      /\ plug.pc = "discover" \/ (plug.pc # "store" /\ ~plug.changed) => records = plug.held

LEMMA SyncMadeStep == PlugInd /\ SyncMade /\ [PluginNext]_pluginVars => SyncMade'
<1> SUFFICES ASSUME PluginTypeOK, PlugForm, SyncMade, [PluginNext]_pluginVars
             PROVE  SyncMade'
  BY DEF PlugInd
<1>0. plug \in Operation
  BY DEF PluginTypeOK
<1>1. CASE plug'.pc \notin InReport
  BY <1>1 DEF SyncMade
<1>i. CASE \E p \in PluginIds, kind \in {"list", "enable", "disable"} : Report(kind, p)
  <2> DEFINE todo == {b \in BundledPlugins : bundle[b] # "none"}
  <2>1. PICK p \in PluginIds, kind \in {"list", "enable", "disable"} : Report(kind, p)
    BY <1>i
  <2>2. plug' = [NoPlug EXCEPT !.kind = kind, !.p = p, !.pc = "sync", !.held = records,
                               !.todo = todo]
        /\ UNCHANGED <<bundle, records>>
    BY <2>1 DEF Report, Start, HoldFolders, HoldFiles
  <2>3. plug'.pc = "sync" /\ plug'.held = records /\ plug'.todo = todo
    BY <2>2 DEF NoPlug
  <2>4. \A b \in BundledPlugins \ todo : bundle[b] = "none"
    OBVIOUS
  <2>5. QED  BY <2>2, <2>3, <2>4 DEF SyncMade
<1>2. ASSUME NEW b \in BundledPlugins, Sync(b)  PROVE SyncMade'
  <2>1. UNCHANGED <<bundle, folder, records>> /\ plug.pc = "sync"
    BY <1>2 DEF Sync, HoldFolders, HoldFiles, Now
  <2>2. CASE NeedsSync(b)
    <3>1. plug' = [plug EXCEPT !.b = b, !.pc = "replace"]
      BY <1>2, <2>2 DEF Sync
    <3>2. QED  BY <1>0, <2>1, <3>1 DEF SyncMade, Operation, InReport, Loads
  <2>3. CASE ~NeedsSync(b)
    <3>1. plug' = [plug EXCEPT !.todo = plug.todo \ {b}]
      BY <1>2, <2>3 DEF Sync
    <3>2. Loads(b) /\ plug.held[b] = bundle[b]
      BY <2>3 DEF NeedsSync
    <3>3. QED  BY <1>0, <2>1, <3>1, <3>2 DEF SyncMade, Operation, InReport, Loads
  <2>4. QED  BY <2>2, <2>3
<1>3. ASSUME NEW b \in BundledPlugins, DropStale(b)  PROVE SyncMade'
  <2>1. UNCHANGED <<bundle, records>> /\ plug.pc = "sync" /\ plug.todo = {} /\ bundle[b] = "none"
        /\ folder' = [folder EXCEPT ![b] = "none"]
    BY <1>3 DEF DropStale, Stale, RemoveFolder, HoldFiles, Now
  <2>2. plug' = [plug EXCEPT !.changed = TRUE, !.held = [plug.held EXCEPT ![b] = "none"]]
    BY <1>3 DEF DropStale
  <2>3. \A c \in BundledPlugins : c # b => folder'[c] = folder[c] /\ plug'.held[c] = plug.held[c]
    BY <1>0, <2>1, <2>2 DEF PluginTypeOK, PluginIds, Operation
  <2>4. plug'.pc = "sync" /\ plug'.todo = {} /\ plug'.changed
    BY <1>0, <2>1, <2>2 DEF Operation
  <2>5. QED  BY <2>1, <2>3, <2>4 DEF SyncMade, InReport, Loads
<1>4. CASE ReplaceCopy
  <2>1. UNCHANGED <<bundle, records>> /\ plug.pc = "replace" /\ plug.b \in plug.todo
        /\ folder' = [folder EXCEPT ![plug.b] = "none"]
    BY <1>4 DEF ReplaceCopy, RemoveFolder, HoldFiles, Now, PlugForm
  <2>2. plug' = [plug EXCEPT !.pc = "renew"]
    BY <1>4 DEF ReplaceCopy, Then
  <2>3. \A c \in BundledPlugins \ plug.todo : folder'[c] = folder[c]
    BY <2>1 DEF PluginTypeOK, PluginIds
  <2>4. QED  BY <1>0, <2>1, <2>2, <2>3 DEF SyncMade, InReport, Loads, Operation
<1>5. CASE Renew
  <2>1. UNCHANGED <<bundle, records>> /\ plug.pc = "renew" /\ plug.b \in plug.todo
        /\ folder' = [folder EXCEPT ![plug.b] = bundle[plug.b]]
    BY <1>5 DEF Renew, HoldFiles, Now, PlugForm
  <2>2. plug' = [plug EXCEPT !.pc = "sync", !.todo = plug.todo \ {plug.b}, !.b = "none",
                             !.changed = TRUE,
                             !.held = [plug.held EXCEPT ![plug.b] = bundle[plug.b]]]
    BY <1>5 DEF Renew
  <2>3. plug.b \in BundledPlugins /\ plug.b \in PluginIds /\ bundle[plug.b] \in Versions
    BY <1>0, <2>1 DEF PlugForm, Operation, PluginTypeOK, InReport, PluginIds
  <2>4. \A c \in BundledPlugins \ plug.todo : folder'[c] = folder[c] /\ plug'.held[c] = plug.held[c]
    BY <1>0, <2>1, <2>2 DEF PluginTypeOK, PluginIds, Operation
  <2>5. folder'[plug.b] \notin Unsound /\ plug'.held[plug.b] = bundle'[plug.b]
    BY <1>0, <2>1, <2>2, <2>3, VersionsAssumption DEF PluginTypeOK, Operation, Unsound, Bare
  <2>6. plug'.pc = "sync" /\ plug'.todo = plug.todo \ {plug.b} /\ plug'.changed
    BY <1>0, <2>2 DEF Operation
  <2>7. QED  BY <2>1, <2>4, <2>5, <2>6 DEF SyncMade, InReport, Loads
<1>6. CASE Synced
  <2>1. UNCHANGED <<bundle, folder, records>> /\ plug.pc = "sync" /\ plug.todo = {}
    BY <1>6 DEF Synced, HoldFolders, HoldFiles, Now
  <2>2. PICK pc \in {"store", "discover"} :
           plug' = [plug EXCEPT !.pc = pc] /\ (plug.changed => pc = "store")
    BY <1>6 DEF Synced, Then
  <2>3. QED  BY <1>0, <2>1, <2>2 DEF SyncMade, InReport, Loads, Operation
<1>7. CASE Store
  <2>1. UNCHANGED <<bundle, folder>> /\ plug.pc = "store" /\ records' = plug.held
    BY <1>7 DEF Store, HoldFolders, Now
  <2>2. plug' = [plug EXCEPT !.pc = "discover", !.changed = FALSE]
    BY <1>7 DEF Store
  <2>3. QED  BY <1>0, <2>1, <2>2 DEF SyncMade, InReport, Loads, Operation
<1>8. CASE Discover
  <2> DEFINE held == [p \in PluginIds |-> IF p \in Abandoned THEN "none" ELSE plug.held[p]]
  <2>1. UNCHANGED <<bundle, folder>> /\ plug.pc = "discover"
    BY <1>8 DEF Discover, HoldFolders, Now
  <2>2. plug' = [plug EXCEPT !.pc = "store", !.held = held]
    BY <1>8 DEF Discover
  <2>3. \A b \in BundledPlugins : Loads(b) => held[b] = plug.held[b]
    BY DEF Abandoned, Loads, Unsound, PluginIds
  <2> HIDE DEF held
  <2>4. QED  BY <1>0, <2>1, <2>2, <2>3 DEF SyncMade, InReport, Loads, Operation
<1>9. CASE UNCHANGED pluginVars
  BY <1>9 DEF pluginVars, SyncMade, Loads
<1>10. plug' = NoPlug => plug'.pc \notin InReport
  BY DEF NoPlug, InReport
<1>11. QED
  <2>1. CASE \/ \E p \in ExternalPlugins, v \in Versions : Install(p, v)
             \/ \E p \in PluginIds, v \in Versions : Update(p, v)
             \/ \E p \in ExternalPlugins : Uninstall(p)
    BY <1>1, <2>1 DEF Install, Update, Uninstall, Start, NoPlug, InReport
  <2>2. CASE RemoveCopy \/ Copy
    BY <1>0, <1>1, <2>2 DEF RemoveCopy, Copy, Then, Operation, InReport
  <2>3. CASE Record
    BY <1>0, <1>1, <1>10, <2>3 DEF Record, Then, Done, Operation, InReport
  <2>4. CASE FolderFails \/ FileFails \/ PluginsKilled
    BY <1>1, <1>10, <2>4 DEF FolderFails, FileFails, PluginsKilled, Failing, Done
  <2>5. CASE RecordsTorn \/ Enable \/ EnabledTorn \/ LoadFailures
    BY <1>1, <1>10, <2>5 DEF RecordsTorn, Enable, EnabledTorn, LoadFailures, Done
  <2>6. CASE Reported
    BY <1>0, <1>1, <1>10, <2>6 DEF Reported, Then, Done, Operation, InReport
  <2>7. CASE Repair
    BY <1>1, <2>7 DEF Repair, Now, InReport
  <2>8. CASE \E b \in BundledPlugins, v \in Versions \cup {"none"} : Upgrade(b, v)
    BY <1>1, <2>8 DEF Upgrade, Now, InReport
  <2>9. QED
    BY <1>i, <1>2, <1>3, <1>4, <1>5, <1>6, <1>7, <1>8, <1>9, <2>1, <2>2, <2>3, <2>4, <2>5, <2>6, <2>7,
       <2>8 DEF PluginNext

\* ReportHeals: once a report looks for plugins that do not load, each plugin of
\* the bundle loads and is recorded at its version, and every record has a
\* plugin behind it (sync_bundled_plugins,
\* discover_installed_plugins_with_failures), whatever the kills, failures and
\* upgrades before it left.
THEOREM ReportsHeal == PluginSpec => ReportHeals
<1> DEFINE Healed ==
       /\ \A b \in BundledPlugins : bundle[b] # "none" => Loads(b) /\ records[b] = bundle[b]
       /\ \A p \in PluginIds : records[p] # "none" => folder[p] \notin Bare
<1>1. PluginInit => SyncMade
  BY DEF PluginInit, SyncMade, NoPlug, InReport
<1>2. SyncMade /\ (Reported \/ LoadFailures) => Healed
  <2> SUFFICES ASSUME SyncMade, Reported \/ LoadFailures  PROVE Healed
    OBVIOUS
  <2>1. plug.pc = "discover" /\ Abandoned = {}
    BY DEF Reported, LoadFailures, Now
  <2>2. plug.todo = {} /\ records = plug.held
    BY <2>1 DEF SyncMade, InReport
  <2>3. \A b \in BundledPlugins : bundle[b] # "none" => Loads(b) /\ records[b] = bundle[b]
    BY <2>1, <2>2 DEF SyncMade, InReport
  <2>4. \A p \in PluginIds : records[p] # "none" => folder[p] \notin Bare
    BY <2>1, <2>2 DEF Abandoned
  <2>5. QED  BY <2>3, <2>4
<1>3. SyncMade /\ [PluginNext]_pluginVars => [Reported \/ LoadFailures => Healed]_pluginVars
  BY <1>2
<1>4. QED
  <2>1. PluginSpec => [][Reported \/ LoadFailures => Healed]_pluginVars
    <3> HIDE DEF Healed
    <3>1. QED  BY <1>1, <1>3, PlugIndInit, PlugIndStep, SyncMadeStep, PTL DEF PluginSpec
  <2>2. QED  BY <2>1 DEF ReportHeals

-----------------------------------------------------------------------------
(***************************************************************************)
(* The files of the REPL.  The file it works on is its transcript, and what *)
(* was saved of a session begins a file of that session; both need that no *)
(* name is given twice and that files set aside stay of their session.     *)
(***************************************************************************)

ReplPcs == {"off", "rotate", "replace", "clean", "prompt", "turn", "answered"}

ReplState ==
    [pc : ReplPcs, path : Paths \cup {Absent}, appends : Paths \cup {Absent},
     session : Paths \cup {Absent}, kept : Seq(Line), log : Seq(Line), owed : Nat]

Works == repl.pc # "off"

ReplTypeOK ==
    /\ repl \in ReplState
    /\ Works => repl.path \in Paths /\ repl.appends = repl.path /\ repl.session \in Paths
    /\ files \in [Paths -> Contents \cup {Absent}]
    /\ aside \in [Paths -> SUBSET Paths]
    /\ saved \in [Paths -> Seq(Line) \cup {Absent}]

LEMMA OwedLines == DOMAIN Owes \subseteq Line /\ \A l \in DOMAIN Owes : Owes[l] \in Nat \ {0}
BY DEF Owes, Line

LEMMA CompactedIsSeq == ASSUME NEW t \in Seq(Line)  PROVE Compacted(t) \in Seq(Line)
<1> DEFINE old == IF t # <<>> /\ t[1] = "summary" THEN 1 ELSE 0
<1>1. CASE Len(t) - old > Recent
  <2>1. SubSeq(t, Len(t) - Recent + 1, Len(t)) \in Seq(Line)
    BY <1>1, ReplAssumption
  <2>2. <<"summary">> \in Seq(Line)
    BY DEF Line
  <2>3. Compacted(t) = <<"summary">> \o SubSeq(t, Len(t) - Recent + 1, Len(t))
    BY <1>1 DEF Compacted
  <2> HIDE DEF old
  <2>4. QED  BY <2>1, <2>2, <2>3
<1>2. CASE ~(Len(t) - old > Recent)
  BY <1>2 DEF Compacted
<1>3. QED  BY <1>1, <1>2

\* Of what a transcript that is taken over is.
LEMMA TakenOver ==
    ASSUME NEW p \in Paths, NEW s \in Paths, NEW t \in Seq(Line), TakesOver(p, s, t)
    PROVE  /\ repl' \in ReplState
           /\ repl'.pc = "rotate" /\ repl'.path = p /\ repl'.appends = p
           /\ repl'.session = s /\ repl'.kept = t
<1>1. <<>> \in Seq(Line)
  OBVIOUS
<1>2. repl' = [pc |-> "rotate", path |-> p, appends |-> p, session |-> s, kept |-> t, log |-> <<>>,
               owed |-> 0]
  BY DEF TakesOver, Off
<1>3. QED  BY <1>1, <1>2 DEF ReplState, ReplPcs

LEMMA OffState == Off \in ReplState /\ Off.pc = "off"
BY DEF Off, ReplState, ReplPcs

LEMMA WholeContents == ReplTypeOK /\ Works => Whole \in Contents
BY DEF ReplTypeOK, Works, Whole, Contents, ReplState

\* The places where the session is on disk under its path.
Settled == {"clean", "prompt", "turn", "answered"}

OnDisk(p) == files[p] # Absent
Named(p) == saved[p] # Absent \/ aside[p] # {}

\* The REPL's file is the transcript it works on.
Holds(lines) ==
    LET file == files[repl.path]
    IN  file \in Contents /\ file.lines = lines /\ file.torn = FALSE /\ file.session = repl.session

FileHolds ==
    /\ repl.pc \in {"clean", "prompt"} => Holds(repl.kept)
    /\ repl.pc \in {"turn", "answered"} => Holds(repl.log)

\* The names of files: none is given twice, and what was set aside stays of
\* the session it was of.
NamesKept ==
    /\ \A p \in Paths : OnDisk(p) => Named(p)
    /\ \A p, q \in Paths : p \in aside[q] => Named(p) /\ p # q
    /\ \A p, q \in Paths : p \in aside[q] /\ OnDisk(p) /\ OnDisk(q) =>
          files[p].session = files[q].session

\* And those the REPL works on.
WorkNamed ==
    Works =>
      /\ repl.session = repl.path \/ Named(repl.path)
      /\ OnDisk(repl.path) => files[repl.path].session = repl.session
      /\ \A q \in Paths : OnDisk(q) /\ (q \in aside[repl.path] \/ repl.path \in aside[q]) =>
            files[q].session = repl.session

SavedNow ==
    /\ repl.pc \in Settled => Named(repl.path) /\ saved[repl.session] # Absent
    /\ repl.pc = "clean" => saved[repl.session] = repl.kept

ReplInv == ReplTypeOK /\ FileHolds /\ NamesKept /\ WorkNamed /\ SavedNow /\ SavedIsOnDisk

LEMMA ReplInitInv == ReplInit => ReplInv
<1> SUFFICES ASSUME ReplInit  PROVE ReplInv
  OBVIOUS
<1>1. repl \in ReplState /\ repl.pc = "off"
  BY OffState DEF ReplInit
<1>2. ReplTypeOK
  BY <1>1 DEF ReplInit, ReplTypeOK, Works
<1>3. FileHolds /\ WorkNamed /\ SavedNow
  BY <1>1 DEF FileHolds, WorkNamed, SavedNow, Works, Settled
<1>4. NamesKept /\ SavedIsOnDisk
  BY DEF ReplInit, NamesKept, SavedIsOnDisk, OnDisk, Named
<1>5. QED  BY <1>2, <1>3, <1>4 DEF ReplInv

LEMMA TakesOverKeeps ==
    ASSUME ReplInv, NEW p \in Paths, NEW s \in Paths, NEW t \in Seq(Line),
           TakesOver(p, s, t), UNCHANGED <<files, aside, saved>>,
           \/ New(p) /\ s = p
           \/ OnDisk(p) /\ s = files[p].session
    PROVE  ReplInv'
<1>1. /\ repl' \in ReplState
      /\ repl'.pc = "rotate" /\ repl'.path = p /\ repl'.appends = p
      /\ repl'.session = s /\ repl'.kept = t
  BY TakenOver
<1>2. ReplTypeOK'
  BY <1>1 DEF ReplInv, ReplTypeOK, Works
<1>3. FileHolds' /\ SavedNow'
  BY <1>1 DEF FileHolds, SavedNow, Settled
<1>4. NamesKept' /\ SavedIsOnDisk'
  BY DEF ReplInv, NamesKept, SavedIsOnDisk, OnDisk, Named
<1>5. /\ s = p \/ Named(p)
      /\ OnDisk(p) => files[p].session = s
      /\ \A q \in Paths : OnDisk(q) /\ (q \in aside[p] \/ p \in aside[q]) => files[q].session = s
  <2>1. CASE New(p) /\ s = p
    BY <2>1 DEF ReplInv, NamesKept, OnDisk, Named, New
  <2>2. CASE OnDisk(p) /\ s = files[p].session
    BY <2>2 DEF ReplInv, NamesKept
  <2>3. QED  BY <2>1, <2>2
<1>6. WorkNamed'
  BY <1>1, <1>5 DEF WorkNamed, OnDisk, Named
<1>7. QED  BY <1>2, <1>3, <1>4, <1>6 DEF ReplInv

LEMMA GoneKeeps ==
    ASSUME ReplInv, Gone, UNCHANGED <<files, aside, saved>>
    PROVE  ReplInv'
<1>1. repl' \in ReplState /\ repl'.pc = "off"
  BY OffState DEF Gone
<1>2. ReplTypeOK'
  BY <1>1 DEF ReplInv, ReplTypeOK, Works
<1>3. FileHolds' /\ WorkNamed' /\ SavedNow'
  BY <1>1 DEF FileHolds, WorkNamed, SavedNow, Works, Settled
<1>4. NamesKept' /\ SavedIsOnDisk'
  BY DEF ReplInv, NamesKept, SavedIsOnDisk, OnDisk, Named
<1>5. QED  BY <1>2, <1>3, <1>4 DEF ReplInv

LEMMA PrefixSelf == ASSUME NEW t \in Seq(Line)  PROVE IsPrefix(t, t)
BY DEF IsPrefix

LEMMA PrefixAppend ==
    ASSUME NEW s \in Seq(Line), NEW t \in Seq(Line), NEW l \in Line, IsPrefix(s, t)
    PROVE  IsPrefix(s, Append(t, l))
<1>1. Len(s) <= Len(t) /\ SubSeq(s, 1, Len(s)) = SubSeq(t, 1, Len(s))
  BY DEF IsPrefix
<1>2. SubSeq(Append(t, l), 1, Len(s)) = SubSeq(t, 1, Len(s))
  BY <1>1
<1>3. QED  BY <1>1, <1>2 DEF IsPrefix

\* The files are those that were, but that one may have grown or been torn.
Grown ==
    /\ files' \in [Paths -> Contents \cup {Absent}] /\ UNCHANGED <<aside, saved>>
    /\ \A p \in Paths :
          /\ files'[p] = Absent <=> files[p] = Absent
          /\ files[p] # Absent =>
                /\ files'[p].session = files[p].session
                /\ \/ files'[p].lines = files[p].lines
                   \/ \E l \in Line : files'[p].lines = Append(files[p].lines, l)

LEMMA GrownKeeps ==
    ASSUME ReplInv, Grown
    PROVE  NamesKept' /\ SavedIsOnDisk'
<1>1. NamesKept'
  BY DEF ReplInv, NamesKept, OnDisk, Named, Grown
<1>2. ASSUME NEW s \in Paths, saved'[s] # Absent
      PROVE  \E p \in Paths : /\ files'[p] # Absent /\ files'[p].session = s
                              /\ IsPrefix(saved'[s], files'[p].lines)
  <2>1. saved[s] # Absent /\ saved'[s] = saved[s]
    BY <1>2 DEF Grown
  <2>2. PICK p \in Paths : files[p] # Absent /\ files[p].session = s /\ IsPrefix(saved[s], files[p].lines)
    BY <2>1 DEF ReplInv, SavedIsOnDisk
  <2>3. files[p].lines \in Seq(Line) /\ saved[s] \in Seq(Line)
    BY <2>1, <2>2 DEF ReplInv, ReplTypeOK, Contents
  <2>4. IsPrefix(saved[s], files'[p].lines)
    BY <2>2, <2>3, PrefixAppend DEF Grown
  <2>5. QED  BY <2>1, <2>2, <2>4 DEF Grown
<1>3. QED  BY <1>1, <1>2 DEF SavedIsOnDisk

\* A file that is written to.
LEMMA FileUpdates ==
    ASSUME NEW file \in Contents, NEW line \in Line
    PROVE  /\ TornOff(file) \in Contents
           /\ TornOff(file).lines = file.lines /\ TornOff(file).session = file.session
           /\ Longer(file, line) \in Contents
           /\ Longer(file, line).lines = Append(file.lines, line)
           /\ Longer(file, line).session = file.session
           /\ Longer(file, line).torn = file.torn
<1>1. TornOff(file) \in Contents
  BY DEF TornOff, Contents
<1>2. TornOff(file).lines = file.lines /\ TornOff(file).session = file.session
  BY DEF TornOff, Contents
<1>3. Append(file.lines, line) \in Seq(Line)
  BY DEF Contents
<1>4. ASSUME NEW new \in Seq(Line)
      PROVE  /\ [file EXCEPT !.lines = new] \in Contents
             /\ [file EXCEPT !.lines = new].lines = new
             /\ [file EXCEPT !.lines = new].session = file.session
             /\ [file EXCEPT !.lines = new].torn = file.torn
  BY DEF Contents
<1>5. QED  BY <1>1, <1>2, <1>3, <1>4 DEF Longer

\* In a turn, and at the prompt, the file is the transcript.
LEMMA FileInTurn ==
    ASSUME ReplInv, At("prompt") \/ At("turn")
    PROVE  /\ Holds(Transcript) /\ files[repl.path] \in Contents /\ files[repl.path] # Absent
           /\ repl.path \in Paths /\ repl.appends = repl.path /\ repl.session \in Paths
<1>1. Works
  BY DEF At, Works
<1>2. repl.path \in Paths /\ repl.appends = repl.path /\ repl.session \in Paths
  BY <1>1 DEF ReplInv, ReplTypeOK
<1>3. Holds(Transcript)
  BY DEF ReplInv, FileHolds, Transcript, At
<1>4. files[repl.path] \in Contents
  BY <1>3 DEF Holds
<1>5. QED  BY <1>2, <1>3, <1>4, ReplAssumption

LEMMA PushKeeps ==
    ASSUME ReplInv, At("prompt") \/ At("turn"), NEW line \in Line, NEW pc \in {"turn", "answered"},
           NEW owed \in Nat, Pushes(line, pc, owed)
    PROVE  ReplInv'
<1> DEFINE log  == Append(Transcript, line)
           file == Longer(files[repl.path], line)
<1>1. /\ Holds(Transcript) /\ files[repl.path] \in Contents /\ files[repl.path] # Absent
      /\ repl.path \in Paths /\ repl.appends = repl.path /\ repl.session \in Paths
  BY FileInTurn
<1>2. /\ files' = [files EXCEPT ![repl.path] = file]
      /\ repl' = [repl EXCEPT !.pc = pc, !.log = log, !.owed = owed]
      /\ UNCHANGED <<aside, saved>>
  BY <1>1 DEF Pushes
<1>3. /\ file \in Contents /\ file.lines = Append(files[repl.path].lines, line)
      /\ file.session = files[repl.path].session /\ file.torn = files[repl.path].torn
  BY <1>1, FileUpdates
<1>4. file # Absent
  BY <1>3, ReplAssumption
<1>5. Transcript = files[repl.path].lines /\ log \in Seq(Line)
  BY <1>1 DEF Holds, Contents
<1>6. file.lines = log /\ file.session = repl.session /\ file.torn = FALSE
  BY <1>1, <1>3, <1>5 DEF Holds
<1> HIDE DEF file, log
<1>7. repl \in ReplState /\ files \in [Paths -> Contents \cup {Absent}] /\ Works
  BY DEF ReplInv, ReplTypeOK, At, Works
<1>8. /\ repl' \in ReplState /\ repl'.pc = pc /\ repl'.path = repl.path
      /\ repl'.appends = repl.appends /\ repl'.session = repl.session /\ repl'.log = log
  BY <1>2, <1>5, <1>7 DEF ReplState, ReplPcs
<1>9. files' \in [Paths -> Contents \cup {Absent}]
  BY <1>2, <1>3, <1>7
<1>10. ReplTypeOK'
  BY <1>1, <1>2, <1>8, <1>9 DEF ReplInv, ReplTypeOK, Works
<1>11. Grown
  BY <1>1, <1>2, <1>3, <1>4, <1>7, <1>9 DEF Grown
<1>12. files'[repl'.path] = file
  BY <1>1, <1>2, <1>7, <1>8
<1>13. FileHolds'
  BY <1>3, <1>6, <1>8, <1>12 DEF FileHolds, Holds
<1>14. WorkNamed'
  <2>1. \A p \in Paths : /\ files'[p] # Absent <=> files[p] # Absent
                         /\ files[p] # Absent => files'[p].session = files[p].session
    BY <1>11 DEF Grown
  <2>2. QED  BY <1>1, <1>2, <1>7, <1>8, <2>1 DEF ReplInv, WorkNamed, Works, OnDisk, Named
<1>15. SavedNow'
  BY <1>2, <1>7, <1>8 DEF ReplInv, SavedNow, Settled, Named, At
<1>16. QED  BY <1>10, <1>11, <1>13, <1>14, <1>15, GrownKeeps DEF ReplInv

LEMMA PushFailsKeeps == ASSUME ReplInv, PushFails  PROVE ReplInv'
<1>1. /\ Holds(Transcript) /\ files[repl.path] \in Contents /\ files[repl.path] # Absent
      /\ repl.path \in Paths /\ repl.appends = repl.path /\ repl.session \in Paths
  BY FileInTurn DEF PushFails
<1>2. files \in [Paths -> Contents \cup {Absent}]
  BY DEF ReplInv, ReplTypeOK
<1>3. UNCHANGED <<aside, saved>> /\ repl' = Off
  BY DEF PushFails, Cut, Gone
<1>4. NextLines \subseteq Line
  BY OwedLines DEF NextLines, Line
<1>5. PICK file \in Contents :
         /\ files' = [files EXCEPT ![repl.path] = file] /\ file.session = files[repl.path].session
         /\ \/ file.lines = files[repl.path].lines
            \/ \E l \in Line : file.lines = Append(files[repl.path].lines, l)
  <2>1. CASE files' = [files EXCEPT ![repl.appends] = TornOff(@)]
    <3>1. files' = [files EXCEPT ![repl.path] = TornOff(files[repl.path])]
      BY <1>1, <2>1
    <3>2. PICK l : l \in Line
      BY DEF Line
    <3>3. /\ TornOff(files[repl.path]) \in Contents
          /\ TornOff(files[repl.path]).lines = files[repl.path].lines
          /\ TornOff(files[repl.path]).session = files[repl.path].session
      BY <1>1, <3>2, FileUpdates
    <3>4. QED  BY <3>1, <3>3
  <2>2. ASSUME NEW l \in NextLines, files' = [files EXCEPT ![repl.appends] = Longer(@, l)]
        PROVE  \E file \in Contents :
                  /\ files' = [files EXCEPT ![repl.path] = file]
                  /\ file.session = files[repl.path].session
                  /\ \/ file.lines = files[repl.path].lines
                     \/ \E m \in Line : file.lines = Append(files[repl.path].lines, m)
    <3> DEFINE file == Longer(files[repl.path], l)
    <3>1. files' = [files EXCEPT ![repl.path] = file] /\ l \in Line
      BY <1>1, <1>4, <2>2
    <3>2. /\ file \in Contents /\ file.lines = Append(files[repl.path].lines, l)
          /\ file.session = files[repl.path].session
      BY <1>1, <3>1, FileUpdates
    <3> HIDE DEF file
    <3>3. QED  BY <3>1, <3>2
  <2>3. QED  BY <2>1, <2>2 DEF PushFails
<1>6. file # Absent
  BY ReplAssumption
<1>7. Grown
  BY <1>1, <1>2, <1>3, <1>5, <1>6 DEF Grown
<1>8. repl' \in ReplState /\ repl'.pc = "off"
  BY <1>3, OffState
<1>9. ReplTypeOK' /\ FileHolds' /\ WorkNamed' /\ SavedNow'
  BY <1>7, <1>8
     DEF ReplInv, ReplTypeOK, Works, FileHolds, WorkNamed, SavedNow, Settled, Grown
<1>10. QED  BY <1>7, <1>9, GrownKeeps DEF ReplInv

\* Where the REPL goes on with what it has.
LEMMA GoesOn ==
    ASSUME ReplInv, Works, NEW pc \in ReplPcs, repl' = [repl EXCEPT !.pc = pc]
    PROVE  /\ repl' \in ReplState /\ repl'.pc = pc
           /\ repl'.path = repl.path /\ repl'.appends = repl.appends
           /\ repl'.session = repl.session /\ repl'.kept = repl.kept /\ repl'.log = repl.log
           /\ repl.path \in Paths /\ repl.appends = repl.path /\ repl.session \in Paths
           /\ repl.kept \in Seq(Line)
BY DEF ReplInv, ReplTypeOK, ReplState

LEMMA RotateKeeps == ASSUME ReplInv, Rotate  PROVE ReplInv'
<1>1. Works /\ repl' = [repl EXCEPT !.pc = "replace"] /\ saved' = saved
  BY DEF Rotate, At, Works
<1>2. /\ repl' \in ReplState /\ repl'.pc = "replace"
      /\ repl'.path = repl.path /\ repl'.appends = repl.appends
      /\ repl'.session = repl.session /\ repl'.kept = repl.kept /\ repl'.log = repl.log
      /\ repl.path \in Paths /\ repl.appends = repl.path /\ repl.session \in Paths
  BY <1>1, GoesOn DEF ReplPcs
<1>3. FileHolds' /\ SavedNow'
  BY <1>2 DEF FileHolds, SavedNow, Settled
<1>4. CASE UNCHANGED <<files, aside>>
  <2>1. ReplTypeOK' /\ WorkNamed'
    BY <1>1, <1>2, <1>4 DEF ReplInv, ReplTypeOK, WorkNamed, Works, OnDisk, Named
  <2>2. NamesKept' /\ SavedIsOnDisk'
    BY <1>1, <1>4 DEF ReplInv, NamesKept, SavedIsOnDisk, OnDisk, Named
  <2>3. QED  BY <1>3, <2>1, <2>2 DEF ReplInv
<1>5. ASSUME NEW q \in Paths, files[repl.path] # Absent, New(q),
             files' = [files EXCEPT ![q] = files[repl.path], ![repl.path] = Absent],
             aside' = [aside EXCEPT ![q] = aside[repl.path] \cup {repl.path}]
      PROVE  ReplInv'
  <2> DEFINE path == repl.path
  <2>1. files \in [Paths -> Contents \cup {Absent}] /\ aside \in [Paths -> SUBSET Paths]
    BY DEF ReplInv, ReplTypeOK
  <2>2. q # path /\ files[q] = Absent /\ saved[q] = Absent /\ aside[q] = {}
    BY <1>5 DEF New
  <2>3. files[path] \in Contents /\ files[path].session = repl.session
    BY <1>1, <1>2, <1>5, <2>1 DEF ReplInv, WorkNamed, OnDisk
  <2>4. /\ files'[q] = files[path] /\ files'[path] = Absent
        /\ \A p \in Paths : p # q /\ p # path => files'[p] = files[p]
        /\ aside'[q] = aside[path] \cup {path}
        /\ \A p \in Paths : p # q => aside'[p] = aside[p]
    BY <1>2, <1>5, <2>1, <2>2
  <2>5. /\ files' \in [Paths -> Contents \cup {Absent}]
        /\ aside' \in [Paths -> SUBSET Paths]
    BY <1>2, <1>5, <2>1, <2>3
  <2>6. ReplTypeOK'
    BY <1>1, <1>2, <2>5 DEF ReplInv, ReplTypeOK, Works
  <2>7. /\ \A p \in Paths : files[p] # Absent => saved[p] # Absent \/ aside[p] # {}
        /\ \A p, r \in Paths : p \in aside[r] => (saved[p] # Absent \/ aside[p] # {}) /\ p # r
        /\ \A p, r \in Paths : p \in aside[r] /\ files[p] # Absent /\ files[r] # Absent =>
              files[p].session = files[r].session
    BY DEF ReplInv, NamesKept, OnDisk, Named
  <2>8. \A r \in Paths : files[r] # Absent /\ (r \in aside[path] \/ path \in aside[r]) =>
           files[r].session = repl.session
    BY <1>1 DEF ReplInv, WorkNamed, OnDisk
  <2> HIDE DEF path
  <2>9. \A p, r \in Paths : p \in aside'[r] => p # q /\ p # r
    <3>1. ASSUME NEW r \in Paths, q \in aside'[r]  PROVE FALSE
      <4>1. CASE r = q
        BY <2>1, <2>2, <2>4, <2>7, <3>1, <4>1, <1>2 DEF path
      <4>2. CASE r # q
        BY <2>2, <2>4, <2>7, <3>1, <4>2
      <4>3. QED  BY <4>1, <4>2
    <3>2. \A p, r \in Paths : p \in aside'[r] => p # r
      BY <2>4, <2>7, <3>1
    <3>3. QED  BY <3>1, <3>2
  <2>10. \A p \in Paths : saved[p] # Absent \/ aside[p] # {} => saved'[p] # Absent \/ aside'[p] # {}
    BY <1>1, <2>2, <2>4
  <2>11. NamesKept'
    <3>1. \A p \in Paths : files'[p] # Absent => saved'[p] # Absent \/ aside'[p] # {}
      BY <2>4, <2>7, <2>10
    <3>2. ASSUME NEW p \in Paths, NEW r \in Paths, p \in aside'[r]
          PROVE  saved'[p] # Absent \/ aside'[p] # {}
      <4>1. CASE r = q
        <5>1. CASE p = path
          BY <1>2, <1>5, <2>7, <2>10, <5>1 DEF path
        <5>2. CASE p # path
          BY <1>2, <2>4, <2>7, <2>10, <3>2, <4>1, <5>2 DEF path
        <5>3. QED  BY <5>1, <5>2
      <4>2. CASE r # q
        BY <2>4, <2>7, <2>10, <3>2, <4>2
      <4>3. QED  BY <4>1, <4>2
    <3>3. ASSUME NEW p \in Paths, NEW r \in Paths, p \in aside'[r],
                 files'[p] # Absent, files'[r] # Absent
          PROVE  files'[p].session = files'[r].session
      <4>1. p # q /\ p # path /\ r # path /\ files'[p] = files[p]
        BY <2>4, <2>9, <3>3
      <4>2. CASE r = q
        BY <2>3, <2>4, <2>8, <3>3, <4>1, <4>2
      <4>3. CASE r # q
        BY <2>4, <2>7, <3>3, <4>1, <4>3
      <4>4. QED  BY <4>2, <4>3
    <3>4. QED  BY <2>9, <3>1, <3>2, <3>3 DEF NamesKept, OnDisk, Named
  <2>12. WorkNamed'
    <3>1. repl'.session = path \/ saved'[path] # Absent \/ aside'[path] # {}
      BY <1>2, <1>5, <2>7, <2>10 DEF path
    <3>2. ASSUME NEW r \in Paths, files'[r] # Absent, r \in aside'[path] \/ path \in aside'[r]
          PROVE  files'[r].session = repl.session
      <4>1. r # path
        BY <2>4, <3>2
      <4>2. CASE r = q
        BY <2>3, <2>4, <4>2
      <4>3. CASE r # q
        BY <1>2, <2>2, <2>4, <2>8, <3>2, <4>1, <4>3 DEF path
      <4>4. QED  BY <4>2, <4>3
    <3>3. QED  BY <1>2, <2>4, <3>1, <3>2 DEF WorkNamed, OnDisk, Named, path
  <2>13. SavedIsOnDisk'
    <3>1. ASSUME NEW s \in Paths, saved'[s] # Absent
          PROVE  \E p \in Paths : /\ files'[p] # Absent /\ files'[p].session = s
                                  /\ IsPrefix(saved'[s], files'[p].lines)
      <4>1. PICK p \in Paths : /\ files[p] # Absent /\ files[p].session = s
                               /\ IsPrefix(saved[s], files[p].lines)
        BY <1>1, <3>1 DEF ReplInv, SavedIsOnDisk
      <4>2. CASE p = path
        BY <1>1, <2>4, <4>1, <4>2
      <4>3. CASE p # path
        BY <1>1, <2>2, <2>4, <4>1, <4>3
      <4>4. QED  BY <4>2, <4>3
    <3>2. QED  BY <3>1 DEF SavedIsOnDisk
  <2>14. QED  BY <1>3, <2>6, <2>11, <2>12, <2>13 DEF ReplInv
<1>6. QED  BY <1>4, <1>5 DEF Rotate

LEMMA ReplaceKeeps == ASSUME ReplInv, Replace  PROVE ReplInv'
<1>1. /\ Works /\ repl' = [repl EXCEPT !.pc = "clean"] /\ aside' = aside
      /\ files' = [files EXCEPT ![repl.path] = Whole]
      /\ saved' = [saved EXCEPT ![repl.session] = repl.kept]
  BY DEF Replace, At, Works
<1>2. /\ repl' \in ReplState /\ repl'.pc = "clean"
      /\ repl'.path = repl.path /\ repl'.appends = repl.appends
      /\ repl'.session = repl.session /\ repl'.kept = repl.kept /\ repl'.log = repl.log
      /\ repl.path \in Paths /\ repl.appends = repl.path /\ repl.session \in Paths
      /\ repl.kept \in Seq(Line)
  BY <1>1, GoesOn DEF ReplPcs
<1>3. Whole \in Contents /\ Whole.lines = repl.kept /\ Whole.torn = FALSE /\ Whole.session = repl.session
  BY <1>2 DEF Whole, Contents
<1>4. files \in [Paths -> Contents \cup {Absent}] /\ saved \in [Paths -> Seq(Line) \cup {Absent}]
  BY DEF ReplInv, ReplTypeOK
<1> DEFINE path == repl.path
<1>5. /\ files'[path] = Whole /\ Whole # Absent
      /\ \A p \in Paths : p # path => files'[p] = files[p]
      /\ saved'[repl.session] = repl.kept /\ repl.kept # Absent
      /\ \A p \in Paths : p # repl.session => saved'[p] = saved[p]
  BY <1>1, <1>2, <1>3, <1>4, ReplAssumption
<1>6. ReplTypeOK'
  <2>1. /\ files' \in [Paths -> Contents \cup {Absent}]
        /\ saved' \in [Paths -> Seq(Line) \cup {Absent}]
    BY <1>1, <1>2, <1>3, <1>4
  <2>2. QED  BY <1>1, <1>2, <2>1 DEF ReplInv, ReplTypeOK, Works
<1>7. FileHolds'
  BY <1>2, <1>3, <1>5 DEF FileHolds, Holds
<1>8. \A p \in Paths : Named(p) => Named(p)'
  BY <1>1, <1>5 DEF Named
<1>9. Named(path)'
  <2>1. repl.session = path \/ Named(path)
    BY <1>1 DEF ReplInv, WorkNamed
  <2>2. QED  BY <1>1, <1>2, <1>5, <1>8, <2>1 DEF Named
<1>10. SavedNow'
  BY <1>2, <1>5, <1>9 DEF SavedNow, Named
<1>11. /\ \A p \in Paths : files[p] # Absent => Named(p)
       /\ \A p, r \in Paths : p \in aside[r] => Named(p) /\ p # r
       /\ \A p, r \in Paths : p \in aside[r] /\ files[p] # Absent /\ files[r] # Absent =>
             files[p].session = files[r].session
  BY DEF ReplInv, NamesKept, OnDisk
<1>12. \A r \in Paths : files[r] # Absent /\ (r \in aside[path] \/ path \in aside[r]) =>
          files[r].session = repl.session
  BY <1>1 DEF ReplInv, WorkNamed, OnDisk
<1> HIDE DEF path
<1>13. NamesKept'
  <2>1. \A p \in Paths : files'[p] # Absent => Named(p)'
    <3>1. ASSUME NEW p \in Paths, files'[p] # Absent  PROVE Named(p)'
      <4>1. CASE p = path
        BY <1>2, <1>9, <4>1 DEF Named, path
      <4>2. CASE p # path
        BY <1>5, <1>8, <1>11, <3>1, <4>2
      <4>3. QED  BY <4>1, <4>2
    <3>2. QED  BY <3>1
  <2>2. \A p, r \in Paths : p \in aside'[r] => Named(p)' /\ p # r
    BY <1>1, <1>8, <1>11
  <2>3. ASSUME NEW p \in Paths, NEW r \in Paths, p \in aside[r], files'[p] # Absent, files'[r] # Absent
        PROVE  files'[p].session = files'[r].session
    <3>1. p # r
      BY <1>11, <2>3
    <3>2. CASE p = path
      BY <1>3, <1>5, <1>12, <2>3, <3>1, <3>2
    <3>3. CASE r = path
      BY <1>3, <1>5, <1>12, <2>3, <3>1, <3>3
    <3>4. CASE p # path /\ r # path
      BY <1>5, <1>11, <2>3, <3>4
    <3>5. QED  BY <3>2, <3>3, <3>4
  <2>4. QED  BY <1>1, <2>1, <2>2, <2>3 DEF NamesKept, OnDisk
<1>14. WorkNamed'
  <2>1. ASSUME NEW r \in Paths, files'[r] # Absent, r \in aside[path] \/ path \in aside[r]
        PROVE  files'[r].session = repl.session
    BY <1>3, <1>5, <1>12, <2>1
  <2>2. QED  BY <1>1, <1>2, <1>3, <1>5, <1>9, <2>1 DEF WorkNamed, OnDisk, path
<1>15. SavedIsOnDisk'
  <2>1. ASSUME NEW s \in Paths, saved'[s] # Absent
        PROVE  \E p \in Paths : /\ files'[p] # Absent /\ files'[p].session = s
                                /\ IsPrefix(saved'[s], files'[p].lines)
    <3>1. CASE s = repl.session
      <4>1. IsPrefix(saved'[s], files'[path].lines)
        BY <1>2, <1>3, <1>5, <3>1, PrefixSelf
      <4>2. QED  BY <1>2, <1>3, <1>5, <3>1, <4>1 DEF path
    <3>2. CASE s # repl.session
      <4>1. PICK p \in Paths : /\ files[p] # Absent /\ files[p].session = s
                               /\ IsPrefix(saved[s], files[p].lines)
        BY <1>5, <2>1, <3>2 DEF ReplInv, SavedIsOnDisk
      <4>2. p # path
        BY <1>1, <3>2, <4>1 DEF ReplInv, WorkNamed, OnDisk, path
      <4>3. QED  BY <1>5, <3>2, <4>1, <4>2
    <3>3. QED  BY <3>1, <3>2
  <2>2. QED  BY <2>1 DEF SavedIsOnDisk
<1>16. QED  BY <1>6, <1>7, <1>10, <1>13, <1>14, <1>15 DEF ReplInv

LEMMA CleanUpKeeps == ASSUME ReplInv, CleanUp  PROVE ReplInv'
<1>1. Works /\ repl' = [repl EXCEPT !.pc = "prompt"] /\ UNCHANGED <<aside, saved>> /\ repl.pc = "clean"
  BY DEF CleanUp, At, Works
<1>2. /\ repl' \in ReplState /\ repl'.pc = "prompt"
      /\ repl'.path = repl.path /\ repl'.appends = repl.appends
      /\ repl'.session = repl.session /\ repl'.kept = repl.kept /\ repl'.log = repl.log
      /\ repl.path \in Paths /\ repl.appends = repl.path /\ repl.session \in Paths
      /\ repl.kept \in Seq(Line)
  BY <1>1, GoesOn DEF ReplPcs
<1>3. PICK stale \in SUBSET SetAside(repl.path) :
         files' = [q \in Paths |-> IF q \in stale THEN Absent ELSE files[q]]
  BY DEF CleanUp
<1>4. files \in [Paths -> Contents \cup {Absent}]
  BY DEF ReplInv, ReplTypeOK
<1>5. /\ \A p \in Paths : p \notin stale => files'[p] = files[p]
      /\ \A p \in Paths : files'[p] # Absent => p \notin stale
  BY <1>3
<1>6. \A p \in stale : p # repl.path /\ files[p].session = repl.session
  BY <1>1, <1>2, <1>3 DEF SetAside, ReplInv, NamesKept, WorkNamed, OnDisk
<1>7. ReplTypeOK'
  BY <1>1, <1>2, <1>3, <1>4 DEF ReplInv, ReplTypeOK, Works
<1>8. FileHolds'
  BY <1>1, <1>2, <1>5, <1>6 DEF ReplInv, FileHolds, Holds
<1>9. NamesKept'
  BY <1>1, <1>5 DEF ReplInv, NamesKept, OnDisk, Named
<1>10. WorkNamed'
  BY <1>1, <1>2, <1>5 DEF ReplInv, WorkNamed, OnDisk, Named, Works
<1>11. SavedNow'
  BY <1>1, <1>2 DEF ReplInv, SavedNow, Settled, Named
<1>12. SavedIsOnDisk'
  <2>1. ASSUME NEW s \in Paths, saved'[s] # Absent
        PROVE  \E p \in Paths : /\ files'[p] # Absent /\ files'[p].session = s
                                /\ IsPrefix(saved'[s], files'[p].lines)
    <3>1. CASE s = repl.session
      <4>1. /\ files'[repl.path] = files[repl.path] /\ files[repl.path] \in Contents
            /\ files[repl.path].lines = repl.kept /\ files[repl.path].session = s
        BY <1>1, <1>2, <1>5, <1>6, <3>1 DEF ReplInv, FileHolds, Holds
      <4>2. files[repl.path] # Absent
        BY <4>1, ReplAssumption
      <4>3. saved'[s] = repl.kept
        BY <1>1, <3>1 DEF ReplInv, SavedNow
      <4>4. IsPrefix(saved'[s], files'[repl.path].lines)
        BY <1>2, <4>1, <4>3, PrefixSelf
      <4>5. QED  BY <1>2, <4>1, <4>2, <4>4
    <3>2. CASE s # repl.session
      <4>1. PICK p \in Paths : /\ files[p] # Absent /\ files[p].session = s
                               /\ IsPrefix(saved[s], files[p].lines)
        BY <1>1, <2>1 DEF ReplInv, SavedIsOnDisk
      <4>2. p \notin stale
        BY <1>6, <3>2, <4>1
      <4>3. QED  BY <1>1, <1>5, <4>1, <4>2
    <3>3. QED  BY <3>1, <3>2
  <2>2. QED  BY <2>1 DEF SavedIsOnDisk
<1>13. QED  BY <1>7, <1>8, <1>9, <1>10, <1>11, <1>12 DEF ReplInv

LEMMA ReplInvStep == ReplInv /\ [ReplNext]_replVars => ReplInv'
<1> SUFFICES ASSUME ReplInv, [ReplNext]_replVars  PROVE ReplInv'
  OBVIOUS
<1>1. ASSUME NEW p \in Paths, Fresh(p)  PROVE ReplInv'
  <2>1. New(p) /\ TakesOver(p, p, <<>>) /\ UNCHANGED <<files, aside, saved>>
    BY <1>1 DEF Fresh
  <2>2. <<>> \in Seq(Line)
    OBVIOUS
  <2>3. QED  BY <2>1, <2>2, TakesOverKeeps
<1>2. ASSUME NEW p \in Paths, ForkSession(p)  PROVE ReplInv'
  <2>1. New(p) /\ TakesOver(p, p, repl.kept) /\ UNCHANGED <<files, aside, saved>>
    BY <1>2 DEF ForkSession
  <2>2. repl.kept \in Seq(Line)
    BY DEF ReplInv, ReplTypeOK, ReplState
  <2>3. QED  BY <2>1, <2>2, TakesOverKeeps
<1>3. ASSUME NEW p \in Paths, Switch(p)  PROVE ReplInv'
  <2>1. UNCHANGED <<files, aside, saved>> /\ files[p] # Absent
    BY <1>3 DEF Switch
  <2>2. CASE files[p].torn
    BY <1>3, <2>1, <2>2, GoneKeeps DEF Switch
  <2>3. CASE ~files[p].torn
    <3>1. TakesOver(p, files[p].session, files[p].lines)
      BY <1>3, <2>3 DEF Switch
    <3>2. files[p].session \in Paths /\ files[p].lines \in Seq(Line)
      BY <2>1 DEF ReplInv, ReplTypeOK, Contents
    <3>3. QED  BY <2>1, <3>1, <3>2, TakesOverKeeps DEF OnDisk
  <2>4. QED  BY <2>2, <2>3
<1>4. ASSUME NEW t \in Seq(Line), At("prompt") \/ At("answered"), TakesOver(repl.path, repl.session, t),
             UNCHANGED <<files, aside, saved>>
      PROVE  ReplInv'
  <2>1. repl.path \in Paths /\ repl.session \in Paths
    BY <1>4 DEF ReplInv, ReplTypeOK, Works, At
  <2>2. files[repl.path] \in Contents /\ files[repl.path].session = repl.session
    BY <1>4 DEF ReplInv, FileHolds, Holds, At
  <2>3. OnDisk(repl.path)
    BY <2>2, ReplAssumption DEF OnDisk
  <2>4. QED  BY <1>4, <2>1, <2>2, <2>3, TakesOverKeeps
<1>5. CASE SaveCommand
  <2>1. PICK t \in {repl.kept, Compacted(repl.kept)} : TakesOver(repl.path, repl.session, t)
    BY <1>5 DEF SaveCommand
  <2>2. t \in Seq(Line)
    BY CompactedIsSeq DEF ReplInv, ReplTypeOK, ReplState
  <2>3. QED  BY <1>4, <1>5, <2>1, <2>2 DEF SaveCommand
<1>6. CASE TurnDone
  <2>1. PICK t \in {repl.log, Compacted(repl.log)} : TakesOver(repl.path, repl.session, t)
    BY <1>6 DEF TurnDone
  <2>2. t \in Seq(Line)
    BY CompactedIsSeq DEF ReplInv, ReplTypeOK, ReplState
  <2>3. QED  BY <1>4, <1>6, <2>1, <2>2 DEF TurnDone
<1>7. CASE Submit
  BY <1>7, PushKeeps DEF Submit, Line
<1>8. ASSUME NEW line \in DOMAIN Owes, CallTools(line)  PROVE ReplInv'
  BY <1>8, PushKeeps, OwedLines DEF CallTools, MayRequest
<1>9. CASE AnswerCall
  <2>1. repl.owed - 1 \in Nat /\ "result" \in Line
    BY <1>9 DEF AnswerCall, ReplInv, ReplTypeOK, ReplState, Line
  <2>2. QED  BY <1>9, <2>1, PushKeeps DEF AnswerCall
<1>10. CASE FinalMessage
  BY <1>10, PushKeeps DEF FinalMessage, MayRequest, Line
<1>11. CASE ReplEnds
  BY <1>11, GoneKeeps DEF ReplEnds, Cut
<1>12. CASE UNCHANGED replVars
  BY <1>12 DEF replVars, ReplInv, ReplTypeOK, Works, FileHolds, Holds, NamesKept, WorkNamed, SavedNow,
     SavedIsOnDisk, OnDisk, Named
<1>13. QED
  BY <1>1, <1>2, <1>3, <1>5, <1>6, <1>7, <1>8, <1>9, <1>10, <1>11, <1>12, RotateKeeps, ReplaceKeeps,
     CleanUpKeeps, PushFailsKeeps DEF ReplNext

\* SavedIsOnDisk: what was last saved of a session begins one of its files,
\* wherever a rename, a replacement, a clean-up or a push was cut off
\* (save_to_path, cleanup_rotated_logs), for any paths and any limits.
THEOREM SavedStaysOnDisk == ReplSpec => []SavedIsOnDisk
<1>1. ReplInv => SavedIsOnDisk
  BY DEF ReplInv
<1>2. QED  BY <1>1, ReplInitInv, ReplInvStep, PTL DEF ReplSpec

LEMMA SameFile ==
    ASSUME NEW file \in Contents, NEW other \in Contents,
           file.lines = other.lines, file.torn = other.torn, file.session = other.session
    PROVE  file = other
BY DEF Contents

\* FileIsMemory: at the prompt and in a turn the REPL's file is the transcript
\* it works on (push_message, replace_runtime, persist_session), for any paths
\* and any limits.
THEOREM FilesAreMemory == ReplSpec => []FileIsMemory
<1>1. ReplInv => FileIsMemory
  <2> SUFFICES ASSUME ReplInv  PROVE FileIsMemory
    OBVIOUS
  <2>1. ASSUME At("prompt") \/ At("turn")
        PROVE  Whole \in Contents /\ Whole.lines = repl.kept
               /\ Whole.torn = FALSE /\ Whole.session = repl.session
    BY <2>1, WholeContents DEF ReplInv, Whole, Works, At
  <2>2. ASSUME At("prompt")  PROVE files[repl.path] = Whole
    BY <2>1, <2>2, SameFile DEF ReplInv, FileHolds, Holds, At
  <2>3. ASSUME At("turn")  PROVE files[repl.path] = [Whole EXCEPT !.lines = repl.log]
    <3>1. PICK file \in Contents : file = Whole
      BY <2>1, <2>3
    <3>2. repl.log \in Seq(Line)
      BY DEF ReplInv, ReplTypeOK, ReplState
    <3>3. /\ [file EXCEPT !.lines = repl.log] \in Contents
          /\ [file EXCEPT !.lines = repl.log].lines = repl.log
          /\ [file EXCEPT !.lines = repl.log].torn = file.torn
          /\ [file EXCEPT !.lines = repl.log].session = file.session
      BY <3>2 DEF Contents
    <3>4. PICK other \in Contents :
             /\ other = [file EXCEPT !.lines = repl.log]
             /\ other.lines = repl.log /\ other.torn = file.torn /\ other.session = file.session
      BY <3>3
    <3>5. other.lines = repl.log /\ other.torn = FALSE /\ other.session = repl.session
      <4>1. file.torn = FALSE /\ file.session = repl.session
        BY <2>1, <2>3, <3>1
      <4>2. QED  BY <3>4, <4>1
    <3>6. /\ files[repl.path] \in Contents /\ files[repl.path].lines = repl.log
          /\ files[repl.path].torn = FALSE /\ files[repl.path].session = repl.session
      BY <2>3 DEF ReplInv, FileHolds, Holds, At
    <3>7. files[repl.path] = other
      BY <3>5, <3>6, SameFile
    <3>8. QED  BY <3>1, <3>4, <3>7, Zenon
  <2>4. QED  BY <2>2, <2>3 DEF FileIsMemory
<1>2. QED  BY <1>1, ReplInitInv, ReplInvStep, PTL DEF ReplSpec

-----------------------------------------------------------------------------
(***************************************************************************)
(* Calls without their results.  A transcript that may end anywhere is told *)
(* from one of a turn that owes results.                                   *)
(***************************************************************************)

\* The k lines behind the i-th are results, and what comes then ends them: the
\* user's next message, or any other once all the results are there.
Behind(t, i, k) == k \in 0..Len(t) - i /\ \A j \in 1..k : t[i + j] = "result"

Closed(t, i, k) ==
    /\ i + k < Len(t)
    /\ \/ t[i + k + 1] = "user"
       \/ t[i + k + 1] # "result" /\ k = Owes[t[i]]

\* A transcript that may end anywhere, and one of a turn that owes so many
\* results.
SoundLines(t) ==
    \A i \in 1..Len(t) : t[i] \in DOMAIN Owes =>
        \E k \in 0..Len(t) : Behind(t, i, k) /\ (Closed(t, i, k) \/ i + k = Len(t))

SoundTurn(t, owed) ==
    \A i \in 1..Len(t) : t[i] \in DOMAIN Owes =>
        \E k \in 0..Len(t) :
            /\ Behind(t, i, k)
            /\ Closed(t, i, k) \/ (i + k = Len(t) /\ k + owed = Owes[t[i]])

LEMMA TurnLines == ASSUME NEW t \in Seq(Line), NEW owed \in Nat, SoundTurn(t, owed)  PROVE SoundLines(t)
BY DEF SoundTurn, SoundLines

\* What is behind a line, when a line more is there.
LEMMA BehindAppend ==
    ASSUME NEW t \in Seq(Line), NEW l \in Line, NEW i \in 1..Len(t), NEW k \in 0..Len(t), Behind(t, i, k)
    PROVE  /\ Append(t, l) \in Seq(Line) /\ Len(Append(t, l)) = Len(t) + 1
           /\ Append(t, l)[i] = t[i] /\ Append(t, l)[Len(t) + 1] = l
           /\ Behind(Append(t, l), i, k)
           /\ Closed(t, i, k) => Closed(Append(t, l), i, k)
           /\ i + k = Len(t) /\ l = "result" => Behind(Append(t, l), i, k + 1)
           /\ i + k = Len(t) /\ (l = "user" \/ (l # "result" /\ k = Owes[t[i]])) =>
                 Closed(Append(t, l), i, k)
<1> DEFINE u == Append(t, l)
<1>1. /\ u \in Seq(Line) /\ Len(u) = Len(t) + 1 /\ u[Len(t) + 1] = l
      /\ \A j \in 1..Len(t) : u[j] = t[j]
  OBVIOUS
<1> HIDE DEF u
<1>2. k \in 0..Len(t) - i /\ \A j \in 1..k : t[i + j] = "result"
  BY DEF Behind
<1>3. \A j \in 1..k : u[i + j] = "result"
  <2>1. \A j \in 1..k : i + j \in 1..Len(t)
    BY <1>2
  <2>2. QED  BY <1>1, <1>2, <2>1
<1>4. Behind(u, i, k)
  BY <1>1, <1>2, <1>3 DEF Behind
<1>5. Closed(t, i, k) => Closed(u, i, k)
  BY <1>1, <1>2 DEF Closed
<1>6. i + k = Len(t) /\ l = "result" => Behind(u, i, k + 1)
  BY <1>1, <1>2, <1>3 DEF Behind
<1>7. i + k = Len(t) /\ (l = "user" \/ (l # "result" /\ k = Owes[t[i]])) => Closed(u, i, k)
  BY <1>1, <1>2 DEF Closed
<1>8. QED  BY <1>1, <1>4, <1>5, <1>6, <1>7 DEF u

\* The user's message begins a turn that owes nothing.
LEMMA UserFollows ==
    ASSUME NEW t \in Seq(Line), SoundLines(t)
    PROVE  SoundTurn(Append(t, "user"), 0)
<1> DEFINE u == Append(t, "user")
<1>1. Len(u) = Len(t) + 1 /\ u[Len(t) + 1] = "user" /\ \A j \in 1..Len(t) : u[j] = t[j]
  OBVIOUS
<1>2. ASSUME NEW i \in 1..Len(u), u[i] \in DOMAIN Owes
      PROVE  \E k \in 0..Len(u) : /\ Behind(u, i, k)
                                  /\ Closed(u, i, k) \/ (i + k = Len(u) /\ k + 0 = Owes[u[i]])
  <2>1. i \in 1..Len(t)
    BY <1>1, <1>2 DEF Owes
  <2>2. PICK k \in 0..Len(t) : Behind(t, i, k) /\ (Closed(t, i, k) \/ i + k = Len(t))
    BY <1>1, <1>2, <2>1 DEF SoundLines
  <2>3. Behind(u, i, k) /\ Closed(u, i, k)
    BY <2>1, <2>2, BehindAppend DEF Line
  <2>4. QED  BY <1>1, <2>3
<1>3. QED  BY <1>2 DEF SoundTurn

\* A message of the model, when nothing is owed.
LEMMA MessageFollows ==
    ASSUME NEW t \in Seq(Line), NEW l \in {"answer"} \cup DOMAIN Owes, SoundTurn(t, 0)
    PROVE  SoundTurn(Append(t, l), IF l \in DOMAIN Owes THEN Owes[l] ELSE 0)
<1> DEFINE u == Append(t, l)
           owed == IF l \in DOMAIN Owes THEN Owes[l] ELSE 0
<1>0. l \in Line /\ l # "result"
  BY DEF Line, Owes
<1>1. Len(u) = Len(t) + 1 /\ u[Len(t) + 1] = l /\ \A j \in 1..Len(t) : u[j] = t[j]
  BY <1>0
<1>2. ASSUME NEW i \in 1..Len(u), u[i] \in DOMAIN Owes
      PROVE  \E k \in 0..Len(u) : /\ Behind(u, i, k)
                                  /\ Closed(u, i, k) \/ (i + k = Len(u) /\ k + owed = Owes[u[i]])
  <2>1. CASE i \in 1..Len(t)
    <3>1. PICK k \in 0..Len(t) : /\ Behind(t, i, k)
                                 /\ Closed(t, i, k) \/ (i + k = Len(t) /\ k + 0 = Owes[t[i]])
      BY <1>1, <1>2, <2>1 DEF SoundTurn
    <3>2. Behind(u, i, k) /\ Closed(u, i, k)
      BY <1>0, <2>1, <3>1, BehindAppend
    <3>3. QED  BY <1>1, <3>2
  <2>2. CASE i = Len(t) + 1
    <3>1. Behind(u, i, 0) /\ u[i] = l
      BY <1>1, <2>2 DEF Behind
    <3>2. 0 + owed = Owes[l]
      BY <1>2, <3>1, OwedLines
    <3>3. QED  BY <1>1, <2>2, <3>1, <3>2
  <2>3. QED  BY <1>1, <2>1, <2>2
<1>3. QED  BY <1>2 DEF SoundTurn

\* A result, when some are owed.
LEMMA ResultFollows ==
    ASSUME NEW t \in Seq(Line), NEW owed \in Nat, owed > 0, SoundTurn(t, owed)
    PROVE  SoundTurn(Append(t, "result"), owed - 1)
<1> DEFINE u == Append(t, "result")
<1>1. Len(u) = Len(t) + 1 /\ u[Len(t) + 1] = "result" /\ \A j \in 1..Len(t) : u[j] = t[j]
  OBVIOUS
<1>2. ASSUME NEW i \in 1..Len(u), u[i] \in DOMAIN Owes
      PROVE  \E k \in 0..Len(u) : /\ Behind(u, i, k)
                                  /\ Closed(u, i, k) \/ (i + k = Len(u) /\ k + (owed - 1) = Owes[u[i]])
  <2>1. i \in 1..Len(t)
    BY <1>1, <1>2 DEF Owes
  <2>2. PICK k \in 0..Len(t) : /\ Behind(t, i, k)
                               /\ Closed(t, i, k) \/ (i + k = Len(t) /\ k + owed = Owes[t[i]])
    BY <1>1, <1>2, <2>1 DEF SoundTurn
  <2>3. CASE Closed(t, i, k)
    <3>1. Behind(u, i, k) /\ Closed(u, i, k)
      BY <2>1, <2>2, <2>3, BehindAppend DEF Line
    <3>2. QED  BY <1>1, <3>1
  <2>4. CASE i + k = Len(t) /\ k + owed = Owes[t[i]]
    <3>1. Behind(u, i, k + 1)
      BY <2>1, <2>2, <2>4, BehindAppend DEF Line
    <3>2. k + 1 \in 0..Len(u) /\ i + (k + 1) = Len(u)
      BY <1>1, <2>1, <2>4
    <3>3. Owes[t[i]] \in Nat
      BY <1>1, <1>2, <2>1, OwedLines
    <3>4. (k + 1) + (owed - 1) = Owes[u[i]]
      BY <1>1, <2>1, <2>4, <3>3
    <3>5. QED  BY <3>1, <3>2, <3>4
  <2>5. QED  BY <2>2, <2>3, <2>4
<1>3. QED  BY <1>2 DEF SoundTurn

\* What compact_session leaves.
LEMMA CompactedSound == ASSUME NEW t \in Seq(Line), SoundLines(t)  PROVE SoundLines(Compacted(t))
<1> DEFINE old == IF t # <<>> /\ t[1] = "summary" THEN 1 ELSE 0
<1>1. CASE Len(t) - old > Recent
  <2> DEFINE d == Len(t) - Recent
             u == <<"summary">> \o SubSeq(t, d + 1, Len(t))
  <2>1. Compacted(t) = u
    BY <1>1 DEF Compacted
  <2>2. d \in 1..Len(t)
    BY <1>1, ReplAssumption
  <2>3. /\ Len(u) = Recent + 1 /\ u[1] = "summary"
        /\ \A j \in 2..Len(u) : u[j] = t[j + d - 1]
    <3>1. SubSeq(t, d + 1, Len(t)) \in Seq(Line)
      BY <2>2
    <3>2. /\ Len(SubSeq(t, d + 1, Len(t))) = Recent
          /\ \A j \in 1..Recent : SubSeq(t, d + 1, Len(t))[j] = t[j + d]
      BY <2>2, ReplAssumption
    <3> DEFINE s == SubSeq(t, d + 1, Len(t))
    <3> HIDE DEF s
    <3>3. Len(u) = 1 + Len(s) /\ u[1] = "summary" /\ \A j \in 2..Len(u) : u[j] = s[j - 1]
      <4>1. s \in Seq(Line) /\ <<"summary">> \in Seq(Line) /\ Len(<<"summary">>) = 1
        BY <3>1 DEF s, Line
      <4>2. QED  BY <4>1 DEF s
    <3>4. QED  BY <3>2, <3>3, ReplAssumption DEF s
  <2> HIDE DEF u
  <2>4. ASSUME NEW i \in 1..Len(u), u[i] \in DOMAIN Owes
        PROVE  \E k \in 0..Len(u) : Behind(u, i, k) /\ (Closed(u, i, k) \/ i + k = Len(u))
    <3>1. i \in 2..Len(u)
      BY <2>3, <2>4 DEF Owes
    <3> DEFINE h == i + d - 1
    <3>2. h \in 1..Len(t) /\ t[h] = u[i] /\ Len(u) - i = Len(t) - h
      BY <2>2, <2>3, <3>1, ReplAssumption
    <3>3. PICK k \in 0..Len(t) : Behind(t, h, k) /\ (Closed(t, h, k) \/ h + k = Len(t))
      BY <2>4, <3>2 DEF SoundLines
    <3>4. k \in 0..Len(u) - i /\ \A j \in 1..k : t[h + j] = "result"
      BY <3>2, <3>3 DEF Behind
    <3>5. ASSUME NEW j \in 1..k  PROVE u[i + j] = "result"
      <4>1. i + j \in 2..Len(u) /\ (i + j) + d - 1 = h + j
        BY <2>2, <2>3, <3>1, <3>4, ReplAssumption
      <4>2. u[i + j] = t[(i + j) + d - 1]
        BY <2>3, <4>1
      <4>3. QED  BY <3>4, <4>1, <4>2
    <3>6. Behind(u, i, k)
      BY <3>4, <3>5 DEF Behind
    <3>7. CASE Closed(t, h, k)
      <4>1. h + k < Len(t) /\ (t[h + k + 1] = "user" \/ (t[h + k + 1] # "result" /\ k = Owes[t[h]]))
        BY <3>7 DEF Closed
      <4>2. i + k < Len(u) /\ u[i + k + 1] = t[h + k + 1]
        BY <2>2, <2>3, <3>1, <3>2, <3>4, <4>1, ReplAssumption
      <4>3. Closed(u, i, k)
        BY <3>2, <4>1, <4>2 DEF Closed
      <4>4. QED  BY <2>3, <3>1, <3>4, <3>6, <4>3, ReplAssumption
    <3>8. CASE h + k = Len(t)
      <4>1. i + k = Len(u) /\ k \in 0..Len(u)
        BY <2>3, <3>1, <3>2, <3>4, <3>8, ReplAssumption
      <4>2. QED  BY <3>6, <4>1
    <3>9. QED  BY <3>3, <3>7, <3>8
  <2>5. QED  BY <2>1, <2>4 DEF SoundLines
<1>2. CASE ~(Len(t) - old > Recent)
  BY <1>2 DEF Compacted
<1>3. QED  BY <1>1, <1>2

\* A line is followed by so many results and no more.
LEMMA BehindIsAll ==
    ASSUME NEW t \in Seq(Line), NEW i \in 1..Len(t), NEW k \in 0..Len(t), Behind(t, i, k),
           i + k = Len(t) \/ t[i + k + 1] # "result"
    PROVE  ResultsBehind(t, i) = k
<1> DEFINE P(n) == /\ \A j \in i + 1..i + n : t[j] = "result"
                   /\ i + n = Len(t) \/ t[i + n + 1] # "result"
<1>1. k \in 0..Len(t) - i /\ P(k)
  <2>1. k \in 0..Len(t) - i /\ \A j \in 1..k : t[i + j] = "result"
    BY DEF Behind
  <2>2. ASSUME NEW j \in i + 1..i + k  PROVE t[j] = "result"
    <3>1. j - i \in 1..k /\ i + (j - i) = j
      OBVIOUS
    <3>2. t[i + (j - i)] = "result"
      BY <2>1, <3>1
    <3>3. QED  BY <3>1, <3>2
  <2>3. QED  BY <2>1, <2>2
<1>2. ASSUME NEW n \in 0..Len(t) - i, P(n)  PROVE n = k
  <2>1. CASE n < k
    <3>1. i + n + 1 \in i + 1..i + k /\ i + n # Len(t)
      BY <1>1, <2>1
    <3>2. QED  BY <1>1, <1>2, <3>1
  <2>2. CASE k < n
    <3>1. i + k + 1 \in i + 1..i + n /\ i + k # Len(t)
      BY <1>1, <2>2
    <3>2. QED  BY <1>1, <1>2, <3>1
  <2>3. QED  BY <2>1, <2>2
<1> HIDE DEF P
<1>3. (CHOOSE n \in 0..Len(t) - i : P(n)) = k
  BY <1>1, <1>2
<1>4. QED  BY <1>3 DEF ResultsBehind, P

\* No gap in a transcript, but where a user resumed.
GapInv ==
    /\ \A p \in Paths : files[p] # Absent => SoundLines(files[p].lines)
    /\ SoundLines(repl.kept)
    /\ repl.pc = "turn" => SoundTurn(repl.log, repl.owed)
    /\ repl.pc = "answered" => SoundLines(repl.log)

LEMMA GapInit == ReplInit => GapInv
BY DEF ReplInit, GapInv, SoundLines, Off

LEMMA GapPush ==
    ASSUME ReplInv, GapInv, At("prompt") \/ At("turn"), NEW line \in Line,
           NEW pc \in {"turn", "answered"}, NEW owed \in Nat, Pushes(line, pc, owed),
           SoundTurn(Append(Transcript, line), owed)
    PROVE  GapInv'
<1> DEFINE log  == Append(Transcript, line)
           file == Longer(files[repl.path], line)
<1>1. /\ Holds(Transcript) /\ files[repl.path] \in Contents /\ files[repl.path] # Absent
      /\ repl.path \in Paths /\ repl.appends = repl.path
  BY FileInTurn
<1>2. /\ files' = [files EXCEPT ![repl.path] = file]
      /\ repl' = [repl EXCEPT !.pc = pc, !.log = log, !.owed = owed]
  BY <1>1 DEF Pushes
<1>3. file.lines = log /\ log \in Seq(Line)
  BY <1>1, FileUpdates DEF Holds, Contents
<1>4. SoundLines(log)
  BY <1>3, TurnLines
<1> HIDE DEF file, log
<1>5. repl \in ReplState /\ files \in [Paths -> Contents \cup {Absent}]
  BY DEF ReplInv, ReplTypeOK
<1>6. /\ repl'.pc = pc /\ repl'.log = log /\ repl'.owed = owed /\ repl'.kept = repl.kept
  BY <1>2, <1>5 DEF ReplState
<1>7. \A p \in Paths : files'[p] # Absent => SoundLines(files'[p].lines)
  BY <1>1, <1>2, <1>3, <1>4, <1>5 DEF GapInv
<1>8. SoundTurn(log, owed)
  BY DEF log
<1>9. QED  BY <1>4, <1>6, <1>7, <1>8 DEF GapInv

LEMMA GapTakesOver ==
    ASSUME GapInv, NEW p \in Paths, NEW s \in Paths, NEW t \in Seq(Line),
           TakesOver(p, s, t), UNCHANGED files, SoundLines(t)
    PROVE  GapInv'
<1>1. repl'.pc = "rotate" /\ repl'.kept = t
  BY TakenOver
<1>2. QED  BY <1>1 DEF GapInv

\* The REPL is gone.
LEMMA GapGone ==
    ASSUME repl' = Off, \A p \in Paths : files'[p] # Absent => SoundLines(files'[p].lines)
    PROVE  GapInv'
<1>1. repl'.pc = "off" /\ repl'.kept = <<>>
  BY DEF Off
<1>2. SoundLines(<<>>)
  BY DEF SoundLines
<1>3. QED  BY <1>1, <1>2 DEF GapInv

LEMMA GapStep == ReplInv /\ GapInv /\ [ReplNext]_replVars => GapInv'
<1> SUFFICES ASSUME ReplInv, GapInv, [ReplNext]_replVars  PROVE GapInv'
  OBVIOUS
<1>0. /\ repl \in ReplState /\ files \in [Paths -> Contents \cup {Absent}]
      /\ Works => repl.path \in Paths /\ repl.session \in Paths
  BY DEF ReplInv, ReplTypeOK
<1>00. repl.kept \in Seq(Line) /\ repl.log \in Seq(Line) /\ repl.owed \in Nat
  BY <1>0 DEF ReplState
<1>1. ASSUME NEW p \in Paths, Fresh(p)  PROVE GapInv'
  <2>1. <<>> \in Seq(Line) /\ SoundLines(<<>>)
    BY DEF SoundLines
  <2>2. QED  BY <1>1, <2>1, GapTakesOver DEF Fresh
<1>2. ASSUME NEW p \in Paths, ForkSession(p)  PROVE GapInv'
  BY <1>00, <1>2, GapTakesOver DEF ForkSession, GapInv
<1>3. ASSUME NEW p \in Paths, Switch(p)  PROVE GapInv'
  <2>1. CASE files[p].torn
    BY <1>3, <2>1, GapGone DEF Switch, Gone, GapInv
  <2>2. CASE ~files[p].torn
    <3>1. TakesOver(p, files[p].session, files[p].lines) /\ files' = files /\ files[p] # Absent
      BY <1>3, <2>2 DEF Switch
    <3>2. files[p].session \in Paths /\ files[p].lines \in Seq(Line)
      BY <1>0, <3>1 DEF Contents
    <3>3. SoundLines(files[p].lines)
      BY <3>1 DEF GapInv
    <3>4. QED  BY <3>1, <3>2, <3>3, GapTakesOver
  <2>3. QED  BY <2>1, <2>2
<1>4. CASE SaveCommand
  <2>1. PICK t \in {repl.kept, Compacted(repl.kept)} : TakesOver(repl.path, repl.session, t)
    BY <1>4 DEF SaveCommand
  <2>2. t \in Seq(Line) /\ SoundLines(t)
    BY <1>00, CompactedIsSeq, CompactedSound DEF GapInv
  <2>3. repl.path \in Paths /\ repl.session \in Paths /\ files' = files
    BY <1>0, <1>4 DEF SaveCommand, At, Works
  <2>4. QED  BY <2>1, <2>2, <2>3, GapTakesOver
<1>5. CASE TurnDone
  <2>1. PICK t \in {repl.log, Compacted(repl.log)} : TakesOver(repl.path, repl.session, t)
    BY <1>5 DEF TurnDone
  <2>2. t \in Seq(Line) /\ SoundLines(t)
    BY <1>00, <1>5, CompactedIsSeq, CompactedSound DEF GapInv, TurnDone, At
  <2>3. repl.path \in Paths /\ repl.session \in Paths /\ files' = files
    BY <1>0, <1>5 DEF TurnDone, At, Works
  <2>4. QED  BY <2>1, <2>2, <2>3, GapTakesOver
<1>6. CASE Rotate
  <2>1. repl' = [repl EXCEPT !.pc = "replace"]
    BY <1>6 DEF Rotate
  <2>2. repl'.pc = "replace" /\ repl'.kept = repl.kept
    BY <1>0, <2>1 DEF ReplState
  <2>3. \A p \in Paths : files'[p] # Absent => SoundLines(files'[p].lines)
    <3>1. CASE files' = files
      BY <3>1 DEF GapInv
    <3>2. ASSUME NEW q \in Paths, files[repl.path] # Absent,
                 files' = [files EXCEPT ![q] = files[repl.path], ![repl.path] = Absent]
          PROVE  \A p \in Paths : files'[p] # Absent => SoundLines(files'[p].lines)
      <4>1. repl.path \in Paths
        BY <1>0, <1>6 DEF Rotate, At, Works
      <4>2. QED  BY <1>0, <3>2, <4>1 DEF GapInv
    <3>3. QED  BY <1>6, <3>1, <3>2 DEF Rotate
  <2>4. QED  BY <2>2, <2>3 DEF GapInv
<1>7. CASE Replace
  <2>1. repl' = [repl EXCEPT !.pc = "clean"] /\ files' = [files EXCEPT ![repl.path] = Whole]
    BY <1>7 DEF Replace
  <2>2. repl'.pc = "clean" /\ repl'.kept = repl.kept
    BY <1>0, <2>1 DEF ReplState
  <2>3. Whole.lines = repl.kept
    BY DEF Whole
  <2>4. \A p \in Paths : files'[p] # Absent => SoundLines(files'[p].lines)
    BY <1>0, <2>1, <2>3 DEF GapInv
  <2>5. QED  BY <2>2, <2>4 DEF GapInv
<1>8. CASE CleanUp
  <2>1. repl' = [repl EXCEPT !.pc = "prompt"]
    BY <1>8 DEF CleanUp
  <2>2. repl'.pc = "prompt" /\ repl'.kept = repl.kept
    BY <1>0, <2>1 DEF ReplState
  <2>3. \A p \in Paths : files'[p] # Absent => files'[p] = files[p]
    BY <1>8 DEF CleanUp
  <2>4. QED  BY <2>2, <2>3 DEF GapInv
<1>9. CASE Submit
  <2>1. Transcript = repl.kept /\ SoundTurn(Append(repl.kept, "user"), 0)
    BY <1>00, <1>9, UserFollows DEF Submit, Transcript, GapInv
  <2>2. QED  BY <1>9, <2>1, GapPush DEF Submit, Line
<1>10. ASSUME NEW line \in DOMAIN Owes, CallTools(line)  PROVE GapInv'
  <2>1. Transcript = repl.log /\ SoundTurn(repl.log, 0)
    BY <1>10 DEF CallTools, MayRequest, Transcript, At, GapInv
  <2>2. SoundTurn(Append(repl.log, line), Owes[line])
    BY <1>00, <2>1, MessageFollows
  <2>3. QED  BY <1>10, <2>1, <2>2, OwedLines, GapPush DEF CallTools, MayRequest
<1>11. CASE AnswerCall
  <2>1. Transcript = repl.log /\ SoundTurn(repl.log, repl.owed) /\ repl.owed > 0
    BY <1>11 DEF AnswerCall, Transcript, At, GapInv
  <2>2. SoundTurn(Append(repl.log, "result"), repl.owed - 1) /\ repl.owed - 1 \in Nat
    BY <1>00, <2>1, ResultFollows
  <2>3. QED  BY <1>11, <2>1, <2>2, GapPush DEF AnswerCall, Line
<1>12. CASE FinalMessage
  <2>1. Transcript = repl.log /\ SoundTurn(repl.log, 0)
    BY <1>12 DEF FinalMessage, MayRequest, Transcript, At, GapInv
  <2>2. SoundTurn(Append(repl.log, "answer"), 0)
    BY <1>00, <2>1, MessageFollows DEF Owes
  <2>3. QED  BY <1>12, <2>1, <2>2, GapPush DEF FinalMessage, MayRequest, Line
<1>13. CASE PushFails
  <2>1. /\ Holds(Transcript) /\ files[repl.path] \in Contents /\ files[repl.path] # Absent
        /\ repl.path \in Paths /\ repl.appends = repl.path
    BY <1>13, FileInTurn DEF PushFails
  <2>2. files[repl.path].lines = Transcript /\ Transcript \in Seq(Line)
    BY <2>1 DEF Holds, Contents
  <2>3. SoundLines(Transcript)
    BY <1>00, <1>13, <2>2, TurnLines DEF PushFails, Transcript, At, GapInv
  <2>4. ASSUME NEW line \in NextLines  PROVE SoundLines(Append(Transcript, line)) /\ line \in Line
    <3>1. line \in Line
      BY <2>4, OwedLines DEF NextLines, Line
    <3>2. Append(Transcript, line) \in Seq(Line)
      BY <2>2, <3>1
    <3>3. CASE At("prompt")
      <4>1. line = "user"
        BY <2>4, <3>3 DEF NextLines
      <4>2. SoundTurn(Append(Transcript, line), 0)
        BY <2>2, <2>3, <4>1, UserFollows
      <4>3. QED  BY <3>1, <3>2, <4>2, TurnLines
    <3>4. CASE ~At("prompt") /\ repl.owed > 0
      <4>1. line = "result" /\ Transcript = repl.log /\ SoundTurn(repl.log, repl.owed)
        BY <1>13, <2>4, <3>4 DEF NextLines, PushFails, Transcript, At, GapInv
      <4>2. SoundTurn(Append(Transcript, line), repl.owed - 1) /\ repl.owed - 1 \in Nat
        BY <1>00, <3>4, <4>1, ResultFollows
      <4>3. QED  BY <3>1, <3>2, <4>2, TurnLines
    <3>5. CASE ~At("prompt") /\ ~(repl.owed > 0)
      <4>1. line \in {"answer"} \cup DOMAIN Owes /\ Transcript = repl.log /\ SoundTurn(repl.log, 0)
        BY <1>00, <1>13, <2>4, <3>5 DEF NextLines, PushFails, Transcript, At, GapInv
      <4>2. SoundTurn(Append(Transcript, line), IF line \in DOMAIN Owes THEN Owes[line] ELSE 0)
        BY <1>00, <4>1, MessageFollows
      <4>3. (IF line \in DOMAIN Owes THEN Owes[line] ELSE 0) \in Nat
        BY OwedLines
      <4>4. QED  BY <3>1, <3>2, <4>2, <4>3, TurnLines
    <3>6. QED  BY <3>3, <3>4, <3>5
  <2>5. \A p \in Paths : files'[p] # Absent => SoundLines(files'[p].lines)
    <3>1. CASE files' = [files EXCEPT ![repl.appends] = TornOff(@)]
      <4>1. TornOff(files[repl.path]).lines = Transcript
        <5>1. PICK l : l \in Line
          BY DEF Line
        <5>2. QED  BY <2>1, <2>2, <5>1, FileUpdates
      <4>2. files' = [files EXCEPT ![repl.path] = TornOff(files[repl.path])]
        BY <2>1, <3>1
      <4>3. QED  BY <1>0, <2>1, <2>3, <4>1, <4>2 DEF GapInv
    <3>2. ASSUME NEW line \in NextLines, files' = [files EXCEPT ![repl.appends] = Longer(@, line)]
          PROVE  \A p \in Paths : files'[p] # Absent => SoundLines(files'[p].lines)
      <4>1. Longer(files[repl.path], line).lines = Append(Transcript, line)
        BY <2>1, <2>2, <2>4, FileUpdates
      <4>2. files' = [files EXCEPT ![repl.path] = Longer(files[repl.path], line)]
        BY <2>1, <3>2
      <4>3. QED  BY <1>0, <2>1, <2>4, <4>1, <4>2 DEF GapInv
    <3>3. QED  BY <1>13, <3>1, <3>2 DEF PushFails
  <2>6. repl' = Off
    BY <1>13 DEF PushFails, Cut, Gone
  <2>7. QED  BY <2>5, <2>6, GapGone
<1>14. CASE ReplEnds
  BY <1>14, GapGone DEF ReplEnds, Cut, Gone, GapInv
<1>15. CASE UNCHANGED replVars
  BY <1>15 DEF replVars, GapInv
<1>16. QED
  BY <1>1, <1>2, <1>3, <1>4, <1>5, <1>6, <1>7, <1>8, <1>9, <1>10, <1>11, <1>12, <1>13, <1>14, <1>15
     DEF ReplNext

\* GapsOnlyAtResume: of what is sent to a model, only tool uses that the user's
\* next message follows may lack results: a turn that was cut off and resumed,
\* compacted or forked leaves no other gap (run_turn, compact_session), for any
\* lengths and any number of recent messages kept.
THEOREM NoGapsInATurn == ReplSpec => []GapsOnlyAtResume
<1>1. ReplInv /\ GapInv => GapsOnlyAtResume
  <2> SUFFICES ASSUME ReplInv, GapInv, MayRequest, NEW i \in DOMAIN repl.log, repl.log[i] \in DOMAIN Owes
               PROVE  LET k == ResultsBehind(repl.log, i)
                      IN  \/ k = Owes[repl.log[i]]
                          \/ i + k < Len(repl.log) /\ repl.log[i + k + 1] = "user"
    BY DEF GapsOnlyAtResume
  <2> DEFINE t == repl.log
  <2>1. t \in Seq(Line) /\ i \in 1..Len(t)
    BY DEF ReplInv, ReplTypeOK, ReplState
  <2>2. SoundTurn(t, 0)
    BY DEF GapInv, MayRequest, At
  <2> HIDE DEF t
  <2>3. t[i] \in DOMAIN Owes
    BY DEF t
  <2>4. PICK k \in 0..Len(t) : /\ Behind(t, i, k)
                               /\ Closed(t, i, k) \/ (i + k = Len(t) /\ k + 0 = Owes[t[i]])
    BY <2>1, <2>2, <2>3 DEF SoundTurn
  <2>5. i + k = Len(t) \/ t[i + k + 1] # "result"
    BY <2>4 DEF Closed
  <2>6. ResultsBehind(t, i) = k
    BY <2>1, <2>4, <2>5, BehindIsAll
  <2>7. k = Owes[t[i]] \/ (i + k < Len(t) /\ t[i + k + 1] = "user")
    BY <2>4 DEF Closed
  <2>8. QED  BY <2>6, <2>7 DEF t
<1>2. QED  BY <1>1, ReplInitInv, ReplInvStep, GapInit, GapStep, PTL DEF ReplSpec
==============================================================================
