------------------------------ MODULE Consumer ------------------------------
(***************************************************************************)
(* A repository that adopts the toolkit: `pipeline init`, `sync`, `enable`,*)
(* `check` and `primary-index-guard`, beside the adopter, who edits,       *)
(* replaces and deletes files between the commands and moves the toolkit   *)
(* submodule.  A command is a run of writes that ends with the record of   *)
(* what it manages, .pipeline/pipeline.json; it may stop at any of them.   *)
(* The project is its clone's primary checkout: in a linked worktree the   *)
(* hook of the refs is not installed.                                      *)
(*                                                                         *)
(* A managed path holds the link or template copy the toolkit put there    *)
(* ("ours"), that copy changed ("edited"), a file of the adopter's own     *)
(* ("theirs"), or nothing.  Targets are a function of the path.            *)
(***************************************************************************)
EXTENDS Naturals, Sequences, FiniteSets

CONSTANTS
  Skills,        \* the agents and skills the toolkit has ever linked
  Templates,     \* glossary and document topology: materialized once
  Workflows,     \* the optional CI workflows
  Installs,      \* the toolkit's payloads over time, each a set of Skills
  MaxEdits,      \* what the adopter does,
  MaxSyncs,      \*   the commands run
  MaxStops       \*   and the commands that die

Catalog == "workflow-catalog"
Crew == "crew-config"                    \* git-ignored, the operator's own
Policy == "optional-workflow-policy"     \* a template, and what sync reads
Legacy == "legacy-plugin-link"
Copies == Templates \cup {Crew, Policy} \cup Workflows
Links == Skills \cup {Catalog, Legacy}
Paths == Copies \cup Links

\* A path is of one kind, and no path is the word for "no record" or "malformed".
ASSUME PathsAssumption ==
  /\ Skills \cap Templates = {} /\ Skills \cap Workflows = {} /\ Templates \cap Workflows = {}
  /\ (Skills \cup Templates \cup Workflows)
       \cap {Catalog, Crew, Policy, Legacy, "none", "malformed"} = {}
  /\ Installs \subseteq SUBSET Skills

ASSUME BoundsAssumption == MaxEdits \in Nat /\ MaxSyncs \in Nat /\ MaxStops \in Nat

VARIABLES
  file,       \* path -> "absent", "ours", "edited" or "theirs"
  record,     \* the managed paths of pipeline.json, or NoRecord
  payload,    \* what the toolkit submodule ships now; {} when not initialised
  enabled,    \* the workflows the policy enables, or Malformed
  settings,   \* .claude/settings.json: whose hooks it holds, or Malformed
  script,     \* package.json's pipeline script: "absent", "ours", "theirs"
  hooks,      \* Git hook -> "absent", "ours", "drifted" or "theirs"
  guard,      \* agent-policy.json: primaryIndexGuard "off", "on", or malformed
  ignored,    \* does .gitignore name the crew config?
  env,        \* is the crew's terminal installed; does the repository host the toolkit?
  cmd,        \* the command in progress
  budget,     \* edits, syncs and stops so far
  settled,    \* did the last sync finish, and nothing change since?
  torn        \* has a sync ever ended between its writes?

vars == <<file, record, payload, enabled, settings, script, hooks, guard,
          ignored, env, cmd, budget, settled, torn>>

NoRecord == {"none"}
Malformed == {"malformed"}   \* not JSON, or not the shape
Recorded == IF record = NoRecord THEN {} ELSE record

\* The order of init's writes.  Each step may end the process.
Steps == <<"toolkit", "legacy", "copies", "crew", "policy", "catalog", "read", "workflows",
           "settings", "script", "refguard", "links", "retire", "record">>
Idle == [at |-> 0, force |-> FALSE, prior |-> {}, kept |-> {}]
At(step) == cmd.at # 0 /\ Steps[cmd.at] = step

TypeOK ==
  /\ file \in [Paths -> {"absent", "ours", "edited", "theirs"}]
  /\ record = NoRecord \/ record \subseteq Paths
  /\ payload \in Installs \cup {{}}
  /\ enabled = Malformed \/ enabled \subseteq Workflows
  /\ settings = Malformed \/ settings \subseteq {"ours", "older", "theirs"}
  /\ script \in {"absent", "ours", "theirs"}
  /\ hooks \in [{"reference-transaction", "pre-commit"} -> {"absent", "ours", "drifted", "theirs"}]
  /\ guard \in {"off", "on", "malformed"}
  /\ env \in [terminal : BOOLEAN, selfHosted : BOOLEAN]
  /\ ignored \in BOOLEAN /\ settled \in BOOLEAN /\ torn \in BOOLEAN
  /\ cmd \in [at : 0..Len(Steps), force : BOOLEAN, prior : SUBSET Paths, kept : SUBSET Paths]
  /\ budget \in [edits : 0..MaxEdits, syncs : 0..MaxSyncs, stops : 0..MaxStops]
-----------------------------------------------------------------------------
(* check: every disagreement it reports, each named by its cause. *)

\* A placeholder crew config is not a crew yet: its terminal is not looked for.
TerminalMissing == file[Crew] \in {"edited", "theirs"} /\ ~env.terminal

\* Only the operator's own file may be absent: every other managed path must be
\* there, and a link must still be the link.
ManagedPathBroken ==
  \E p \in Recorded : \/ file[p] = "absent" /\ p # Crew
                      \/ p \in Links /\ file[p] \in {"edited", "theirs"}

Enabled == IF enabled = Malformed \/ env.selfHosted THEN {} ELSE enabled
SelfHostedWorkflow == env.selfHosted /\ enabled \notin {{}, Malformed}

HookMissing == guard = "on" /\ hooks["pre-commit"] # "ours"

\* Without a toolkit or a record check says so and looks no further.
Errors ==
  IF payload = {} THEN {"toolkit"} ELSE IF record = NoRecord THEN {"config"} ELSE
  {e \in {"policy", "agent-policy", "guard-hook", "terminal", "self-hosted", "broken",
          "core", "unasked", "uninstalled", "script", "settings"} :
     CASE e = "policy" -> enabled = Malformed \/ file[Policy] = "absent"
       [] e = "agent-policy" -> guard = "malformed"
       [] e = "guard-hook" -> HookMissing
       [] e = "terminal" -> TerminalMissing
       [] e = "self-hosted" -> SelfHostedWorkflow
       [] e = "broken" -> ManagedPathBroken
       [] e = "core" -> ~(payload \cup {Catalog} \subseteq Recorded) \/ file[Catalog] # "ours"
       [] e = "unasked" -> (Recorded \cap Workflows) \ Enabled # {}
       [] e = "uninstalled" -> Enabled \ Recorded # {}
       [] e = "script" -> script # "ours"
       [] e = "settings" -> settings = Malformed \/ "ours" \notin settings}
-----------------------------------------------------------------------------
(* What init does at one path. *)

\* materializeTemplate: a file that is there is the adopter's unless the
\* record says this path came from the template.
Materialized(f, p) == [f EXCEPT ![p] = IF f[p] = "absent" THEN "ours" ELSE @]
ManagedCopiesNew(ps) == {p \in ps : file[p] = "absent"}   \* faulty: forgets what it recorded
ManagedCopies(ps) == {p \in ps : file[p] = "absent" \/ p \in cmd.prior}

\* linkEntries and linkManagedFile: anything but the expected link stops the
\* command, unless it is forced and the record names the path.
RefusedUnlessForced(ps) ==   \* faulty: force needs no record
  {p \in ps : file[p] \in {"edited", "theirs"} /\ ~cmd.force}
Refused(ps) ==
  {p \in ps : file[p] \in {"edited", "theirs"} /\ ~(cmd.force /\ p \in cmd.prior)}
-----------------------------------------------------------------------------
Rest == UNCHANGED <<payload, enabled, guard, env, budget, settled, torn>>

Go(more) == cmd' = [cmd EXCEPT !.at = @ + 1, !.kept = @ \cup more]

\* fail(): one line on stderr and exit 1, with every earlier write in place.
Fail ==
  /\ cmd' = Idle /\ settled' = FALSE /\ torn' = (torn \/ cmd.at > 1)
  /\ UNCHANGED <<file, record, payload, enabled, settings, script, hooks, guard, ignored,
                 env, budget>>

\* assertToolkit, then pnpm in the toolkit, which may fail for its own reasons.
AssertToolkit ==
  /\ At("toolkit")
  /\ \/ Fail
     \/ /\ payload # {}
        /\ cmd' = [cmd EXCEPT !.at = @ + 1, !.prior = Recorded]
        /\ Rest /\ UNCHANGED <<file, record, settings, script, hooks, ignored>>

\* A link an older toolkit recorded at the plugin's path goes, while it is
\* still that link.
RetireLegacyPluginLink ==
  /\ At("legacy") /\ Go({})
  /\ file' = IF Legacy \in cmd.prior /\ file[Legacy] = "ours"
             THEN [file EXCEPT ![Legacy] = "absent"] ELSE file
  /\ Rest /\ UNCHANGED <<record, settings, script, hooks, ignored>>

MaterializeTemplates ==
  /\ At("copies") /\ Go(ManagedCopies(Templates))
  /\ file' = [p \in Paths |-> IF p \in Templates THEN Materialized(file, p)[p] ELSE file[p]]
  /\ Rest /\ UNCHANGED <<record, settings, script, hooks, ignored>>

\* The crew config is ignored by Git only when it is the toolkit's copy.
MaterializeCrewConfig ==
  /\ At("crew") /\ Go(ManagedCopies({Crew}))
  /\ file' = Materialized(file, Crew)
  /\ ignored' = (ignored \/ ManagedCopies({Crew}) # {})
  /\ Rest /\ UNCHANGED <<record, settings, script, hooks>>

\* The shipped policy enables nothing.
MaterializePolicy ==
  /\ At("policy") /\ Go(ManagedCopies({Policy}))
  /\ file' = Materialized(file, Policy)
  /\ enabled' = IF file[Policy] = "absent" THEN {} ELSE enabled
  /\ UNCHANGED <<record, payload, settings, script, hooks, guard, ignored, env, budget, settled, torn>>

LinkCatalog ==
  /\ At("catalog")
  /\ IF Refused({Catalog}) # {} THEN Fail
     ELSE /\ file' = [file EXCEPT ![Catalog] = "ours"] /\ Go({Catalog})
          /\ Rest /\ UNCHANGED <<record, settings, script, hooks, ignored>>

\* A policy of an unknown shape stops the sync, and so does a consumer-shaped
\* workflow in the toolkit's own repository.
ReadWorkflowPolicy ==
  /\ At("read")
  /\ IF enabled = Malformed \/ SelfHostedWorkflow THEN Fail
     ELSE Go({}) /\ Rest /\ UNCHANGED <<file, record, settings, script, hooks, ignored>>

\* A workflow that is not enabled is uninstalled wherever the record names it;
\* an enabled one is materialized.
InstallWorkflows ==
  /\ At("workflows") /\ Go(ManagedCopies(Enabled))
  /\ file' = [p \in Paths |->
                CASE p \in Enabled -> Materialized(file, p)[p]
                  [] p \in (Workflows \ Enabled) \cap cmd.prior -> "absent"
                  [] OTHER -> file[p]]
  /\ Rest /\ UNCHANGED <<record, settings, script, hooks, ignored>>

\* The toolkit's hooks, of this version or an older one, are replaced by this
\* version's; the adopter's own stay.
MergeSettings ==
  /\ At("settings")
  /\ IF settings = Malformed THEN Fail
     ELSE /\ settings' = (settings \cap {"theirs"}) \cup {"ours"} /\ Go({})
          /\ Rest /\ UNCHANGED <<file, record, script, hooks, ignored>>

MergePackageScript ==
  /\ At("script")
  /\ IF script = "theirs" THEN Fail
     ELSE /\ script' = "ours" /\ Go({})
          /\ Rest /\ UNCHANGED <<file, record, settings, hooks, ignored>>

\* ref-guard install never overwrites a foreign hook, nor an edited one.
InstallRefGuard ==
  /\ At("refguard")
  /\ IF hooks["reference-transaction"] \in {"theirs", "drifted"} THEN Fail
     ELSE /\ hooks' = [hooks EXCEPT !["reference-transaction"] = "ours"] /\ Go({})
          /\ Rest /\ UNCHANGED <<file, record, settings, script, ignored>>

\* The links are made one after the other: those before the first conflict
\* stay when the command fails on it.
LinkEntries ==
  /\ At("links")
  /\ LET made(ps) == [p \in Paths |-> IF p \in ps THEN "ours" ELSE file[p]] IN
     IF Refused(payload) = {}
     THEN /\ file' = made(payload) /\ Go(payload)
          /\ Rest /\ UNCHANGED <<record, settings, script, hooks, ignored>>
     ELSE \E some \in SUBSET (payload \ Refused(payload)) :
            /\ file' = made(some) /\ cmd' = Idle /\ settled' = FALSE /\ torn' = TRUE
            /\ UNCHANGED <<record, payload, enabled, settings, script, hooks, guard, ignored,
                           env, budget>>

RetireRecordedPaths ==   \* faulty: retires what this sync kept as well
  /\ At("retire") /\ Go({})
  /\ file' = [p \in Paths |->
                IF p \in cmd.prior \cap Links /\ file[p] = "ours" THEN "absent" ELSE file[p]]
  /\ Rest /\ UNCHANGED <<record, settings, script, hooks, ignored>>

\* A path the record names and this payload does not is removed, while it is
\* still the link that was recorded.
RetireUnmanagedPaths ==
  /\ At("retire") /\ Go({})
  /\ file' = [p \in Paths |->
                IF p \in (cmd.prior \ cmd.kept) \cap Links /\ file[p] = "ours"
                THEN "absent" ELSE file[p]]
  /\ Rest /\ UNCHANGED <<record, settings, script, hooks, ignored>>

WriteRecord ==
  /\ At("record")
  /\ record' = cmd.kept /\ cmd' = Idle /\ settled' = TRUE
  /\ UNCHANGED <<file, payload, enabled, settings, script, hooks, guard, ignored, env, budget, torn>>

\* The process is killed between two of its writes.
Stop ==
  /\ cmd.at # 0 /\ budget.stops < MaxStops
  /\ budget' = [budget EXCEPT !.stops = @ + 1]
  /\ cmd' = Idle /\ settled' = FALSE /\ torn' = TRUE
  /\ UNCHANGED <<file, record, payload, enabled, settings, script, hooks, guard, ignored, env>>
-----------------------------------------------------------------------------
(* The commands. *)

Begin ==
  /\ cmd.at = 0 /\ budget.syncs < MaxSyncs
  /\ budget' = [budget EXCEPT !.syncs = @ + 1]

Sync(force) ==
  /\ Begin
  /\ cmd' = [Idle EXCEPT !.at = 1, !.force = force]
  /\ UNCHANGED <<file, record, payload, enabled, settings, script, hooks, guard, ignored,
                 env, settled, torn>>

\* enable writes the policy first and then runs sync.  In the toolkit's own
\* repository it refuses before writing.
Enable(w) ==
  /\ Begin /\ ~env.selfHosted
  /\ enabled # Malformed /\ file[Policy] # "absent"
  /\ enabled' = enabled \cup {w}
  /\ file' = [file EXCEPT ![Policy] = IF @ = "theirs" THEN @ ELSE "edited"]
  /\ cmd' = [Idle EXCEPT !.at = 1]
  /\ settled' = FALSE
  /\ UNCHANGED <<record, payload, settings, script, hooks, guard, ignored, env, torn>>

\* primary-index-guard install-hook: an existing pre-commit is replaced only
\* when it carries the managed marker.
InstallGuardHook ==
  /\ cmd.at = 0 /\ payload # {} /\ guard = "on"
  /\ hooks["pre-commit"] \in {"absent", "ours", "drifted"}
  /\ hooks' = [hooks EXCEPT !["pre-commit"] = "ours"] /\ settled' = FALSE
  /\ UNCHANGED <<file, record, payload, enabled, settings, script, guard, ignored, env,
                 cmd, budget, torn>>
-----------------------------------------------------------------------------
(* The adopter, between commands. *)

Edit ==
  /\ cmd.at = 0 /\ budget.edits < MaxEdits
  /\ budget' = [budget EXCEPT !.edits = @ + 1]
  /\ settled' = FALSE
  /\ UNCHANGED <<cmd, record, env, torn>>

Untouched == <<payload, enabled, settings, script, hooks, guard, ignored>>

\* Put a file of one's own at a path, change the toolkit's copy, or delete it.
EditFile(p, to) ==
  /\ Edit /\ p # Policy /\ to # file[p]
  /\ to = "edited" => p \in Copies /\ file[p] = "ours"
  /\ file' = [file EXCEPT ![p] = to]
  /\ UNCHANGED Untouched

EditPolicy(to) ==
  /\ Edit /\ file[Policy] # "absent" /\ to # enabled
  /\ enabled' = to /\ file' = [file EXCEPT ![Policy] = IF @ = "theirs" THEN @ ELSE "edited"]
  /\ UNCHANGED <<payload, settings, script, hooks, guard, ignored>>

EditSettings(to) ==
  /\ Edit /\ to # settings /\ settings' = to
  /\ UNCHANGED <<file, payload, enabled, script, hooks, guard, ignored>>

EditScript(to) ==
  /\ Edit /\ to # script /\ script' = to
  /\ UNCHANGED <<file, payload, enabled, settings, hooks, guard, ignored>>

EditHook(h, to) ==
  /\ Edit /\ to # hooks[h] /\ (to = "drifted" => hooks[h] = "ours")
  /\ hooks' = [hooks EXCEPT ![h] = to]
  /\ UNCHANGED <<file, payload, enabled, settings, script, guard, ignored>>

EditGuardPolicy(to) ==
  /\ Edit /\ to # guard /\ guard' = to
  /\ UNCHANGED <<file, payload, enabled, settings, script, hooks, ignored>>

\* The submodule moves to another toolkit, or is not initialised in this clone.
MoveToolkit(to) ==
  /\ Edit /\ to # payload /\ payload' = to
  /\ UNCHANGED <<file, enabled, settings, script, hooks, guard, ignored>>

\* A fresh clone has what Git tracks: not the ignored crew config, no hooks.
Clone ==
  /\ Edit
  /\ file' = [file EXCEPT ![Crew] = IF ignored THEN "absent" ELSE @]
  /\ hooks' = [h \in DOMAIN hooks |-> "absent"]
  /\ UNCHANGED <<payload, enabled, settings, script, guard, ignored>>
-----------------------------------------------------------------------------
\* Never adopted, or adopted by a toolkit that linked its plugin as a whole.
Init ==
  /\ \/ record = NoRecord /\ file = [p \in Paths |-> "absent"]
     \/ /\ record = {Legacy, Crew}
        /\ file = [p \in Paths |-> IF p \in {Legacy, Crew} THEN "ours" ELSE "absent"]
  /\ payload \in Installs /\ enabled = {}
  /\ settings = IF record = NoRecord THEN {"theirs"} ELSE {"older", "theirs"}
  /\ script = "absent" /\ hooks = [h \in {"reference-transaction", "pre-commit"} |-> "absent"]
  /\ guard = "off" /\ ignored = FALSE /\ env \in [terminal : BOOLEAN, selfHosted : BOOLEAN]
  /\ cmd = Idle /\ budget = [edits |-> 0, syncs |-> 0, stops |-> 0]
  /\ settled = FALSE /\ torn = FALSE

Step ==
  \/ AssertToolkit \/ RetireLegacyPluginLink \/ MaterializeTemplates \/ MaterializeCrewConfig
  \/ MaterializePolicy \/ LinkCatalog \/ ReadWorkflowPolicy \/ InstallWorkflows
  \/ MergeSettings \/ MergePackageScript \/ InstallRefGuard \/ LinkEntries
  \/ RetireUnmanagedPaths \/ WriteRecord

Adopter ==
  \/ \E p \in Paths, to \in {"absent", "edited", "theirs"} : EditFile(p, to)
  \/ \E to \in {{}, Workflows, Malformed} : EditPolicy(to)
  \/ \E to \in {Malformed, {"theirs"}} : EditSettings(to)
  \/ \E to \in {"absent", "theirs"} : EditScript(to)
  \/ \E h \in {"reference-transaction", "pre-commit"}, to \in {"absent", "drifted", "theirs"} :
       EditHook(h, to)
  \/ \E to \in {"off", "on", "malformed"} : EditGuardPolicy(to)
  \/ \E to \in Installs \cup {{}} : MoveToolkit(to)
  \/ Clone

Next ==
  \/ \E force \in BOOLEAN : Sync(force)
  \/ \E w \in Workflows : Enable(w)
  \/ InstallGuardHook
  \/ Step \/ Stop
  \/ Adopter

Spec == Init /\ [][Next]_vars
-----------------------------------------------------------------------------
(* Properties. *)

\* What a finished sync leaves is what check asks for and nothing else of the
\* toolkit's: whatever the adopter had done to the repository, the only errors left
\* are those no sync repairs -- the guard's own policy and hook, a terminal that is
\* not installed, and an enabled workflow at whose path the adopter has a file of
\* their own -- and no link to a dropped skill, no workflow that was turned off and
\* no legacy link remains (init, check, retireUnmanagedPaths).
CompletedSyncIsClean ==
  settled /\ ~torn =>
    /\ Errors \subseteq {"agent-policy", "guard-hook", "terminal", "uninstalled"}
    /\ \A w \in Enabled \ Recorded : file[w] = "theirs"
    /\ {p \in Links \cup Workflows : file[p] = "ours"} \subseteq payload \cup {Catalog} \cup Enabled

\* init is idempotent: a sync of a repository nothing has touched since the
\* last one finished writes what is already there.
SecondSyncChangesNothing ==
  [][settled /\ cmd.at # 0 => UNCHANGED <<file, record, enabled, settings, script, hooks, ignored>>]_vars

\* A command leaves what the adopter wrote or changed, except a link path the
\* record names when it is forced, and a recorded workflow that was turned off.
AdopterFilesSurvive ==
  [][cmd.at # 0 =>
       \A p \in Paths : file[p] \in {"theirs", "edited"} /\ file'[p] # file[p] =>
         /\ p \in cmd.prior
         /\ (p \in Links /\ cmd.force) \/ p \in Workflows \ Enabled]_vars
=============================================================================
