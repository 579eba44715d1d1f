--------------------------- MODULE ConsumerProofs ---------------------------
(***************************************************************************)
(* Theorems about a repository that adopts the toolkit, for any payloads,  *)
(* templates and workflows, whatever the adopter does between the commands *)
(* and however often one is run or stopped; and about the scorecard of the *)
(* models its agents may run on (EvalHarness), for any corpora, inputs and *)
(* answers.                                                                *)
(***************************************************************************)
EXTENDS Consumer, EvalHarness, FiniteSetTheorems, TLAPS

HookType == [{"reference-transaction", "pre-commit"} -> {"absent", "ours", "drifted", "theirs"}]
FileType == [Paths -> {"absent", "ours", "edited", "theirs"}]
CmdType == [at : 0..Len(Steps), force : BOOLEAN, prior : SUBSET Paths, kept : SUBSET Paths]

(* The copies and links a sync that got this far can have put in its list. *)
Stage(at) ==
  (IF at > 3 THEN Templates ELSE {}) \cup (IF at > 4 THEN {Crew} ELSE {})
    \cup (IF at > 5 THEN {Policy} ELSE {}) \cup (IF at > 6 THEN {Catalog} ELSE {})
    \cup (IF at > 8 THEN Enabled ELSE {}) \cup (IF at > 12 THEN payload ELSE {})

(* What each step of a sync establishes, no later step undoes. *)
Progress ==
  /\ cmd.at > 1 => payload # {} /\ cmd.prior = Recorded
  /\ cmd.at > 3 => \A p \in Templates : file[p] # "absent"
  /\ cmd.at > 4 => file[Crew] # "absent" /\ (Crew \in cmd.kept => ignored)
  /\ cmd.at > 5 => file[Policy] # "absent"
  /\ cmd.at > 6 => file[Catalog] = "ours" /\ Catalog \in cmd.kept
  /\ cmd.at > 7 => enabled # Malformed /\ ~ SelfHostedWorkflow
  /\ cmd.at > 8 => /\ \A w \in Enabled : file[w] # "absent" /\ (w \in cmd.prior => w \in cmd.kept)
                   /\ \A w \in (Workflows \ Enabled) \cap cmd.prior : file[w] = "absent"
  /\ cmd.at > 9 => settings # Malformed /\ "ours" \in settings /\ "older" \notin settings
  /\ cmd.at > 10 => script = "ours"
  /\ cmd.at > 11 => hooks["reference-transaction"] = "ours"
  /\ cmd.at > 12 => \A p \in payload : p \in cmd.kept /\ file[p] = "ours"
  /\ cmd.at > 13 => \A p \in (cmd.prior \ cmd.kept) \cap Links : file[p] # "ours"
  /\ cmd.kept \subseteq Stage(cmd.at)

(* What the toolkit put at a path that is not the adopter's to keep. *)
Ours == {p \in Links : file[p] = "ours"} \cup {w \in Workflows : file[w] \in {"ours", "edited"}}

(* Unless a sync ended between its writes, every such path is recorded or  *)
(* on the list of the sync that is about to record it.                     *)
Accounted ==
  ~ torn => Ours \subseteq (IF cmd.at > 1 THEN cmd.prior \cup cmd.kept ELSE Recorded)

(* After a sync that finished, the next one finds at every step what it    *)
(* would write there, and puts on its list what is recorded.               *)
Fixpoint ==
  settled =>
    /\ payload # {} /\ payload \cup {Catalog} \subseteq record /\ record \subseteq Stage(14)
    /\ \A p \in payload \cup {Catalog} : file[p] = "ours"
    /\ \A p \in Templates \cup {Crew, Policy} \cup Enabled : file[p] # "absent"
    /\ Crew \in record => ignored
    /\ enabled # Malformed /\ ~ SelfHostedWorkflow
    /\ settings # Malformed /\ "ours" \in settings /\ "older" \notin settings
    /\ script = "ours" /\ hooks["reference-transaction"] = "ours"
    /\ cmd.at > 1 => cmd.kept = record \cap Stage(cmd.at)

Quiet == UNCHANGED <<file, record, enabled, settings, script, hooks, ignored>>

IInv == TypeOK /\ Progress /\ Accounted /\ Fixpoint

-----------------------------------------------------------------------------
LEMMA StepNames ==
  ASSUME TypeOK
  PROVE  /\ Len(Steps) = 14 /\ cmd.at \in 0..14
         /\ At("toolkit") <=> cmd.at = 1
         /\ At("legacy") <=> cmd.at = 2
         /\ At("copies") <=> cmd.at = 3
         /\ At("crew") <=> cmd.at = 4
         /\ At("policy") <=> cmd.at = 5
         /\ At("catalog") <=> cmd.at = 6
         /\ At("read") <=> cmd.at = 7
         /\ At("workflows") <=> cmd.at = 8
         /\ At("settings") <=> cmd.at = 9
         /\ At("script") <=> cmd.at = 10
         /\ At("refguard") <=> cmd.at = 11
         /\ At("links") <=> cmd.at = 12
         /\ At("retire") <=> cmd.at = 13
         /\ At("record") <=> cmd.at = 14
<1>1. Len(Steps) = 14
  BY DEF Steps
<1>2. cmd.at \in 0..14
  BY <1>1 DEF TypeOK
<1>3. QED
  BY <1>1, <1>2 DEF At, Steps

(* No path is of two kinds. *)
LEMMA Kinds ==
  /\ \A p \in Skills : p \notin Copies /\ p \notin {Catalog, Legacy} /\ p \in Links
  /\ \A p \in Workflows : p \notin Links /\ p \notin Templates \cup {Crew, Policy} /\ p \in Copies
  /\ \A p \in Templates : p \notin Links /\ p \notin {Crew, Policy} /\ p \in Copies
  /\ {Crew, Policy} \subseteq Copies /\ Crew \notin Links /\ Policy \notin Links /\ Crew # Policy
  /\ {Catalog,
       Legacy} \subseteq Links /\ Catalog \notin Copies /\ Legacy \notin Copies /\ Catalog # Legacy
  /\ "none" \notin Paths /\ "malformed" \notin Paths
  /\ Paths = Copies \cup Links
BY PathsAssumption DEF Paths, Copies, Links, Catalog, Crew, Policy, Legacy

(* What every step of a running sync may rely on. *)
LEMMA Running ==
  ASSUME IInv, cmd.at # 0
  PROVE  /\ cmd.at \in 1..14
         /\ cmd.at > 1 => cmd.prior = Recorded
         /\ payload \subseteq Skills /\ Enabled \subseteq Workflows
         /\ settled => record \subseteq Paths /\ record = Recorded /\ Legacy \notin record
<1>1. cmd.at \in 1..14
  BY StepNames DEF IInv
<1>2. payload \subseteq Skills /\ Enabled \subseteq Workflows
  BY PathsAssumption DEF IInv, TypeOK, Enabled
<1>3. record = NoRecord \/ record \subseteq Paths
  BY DEF IInv, TypeOK
<1>4. settled => record \subseteq Paths /\ record = Recorded
  BY <1>3, Kinds DEF IInv, Fixpoint, Recorded, NoRecord
<1>5. settled => Legacy \notin record
  BY <1>2, Kinds DEF IInv, Fixpoint, Stage
<1>6. QED
  BY <1>1, <1>2, <1>4, <1>5 DEF IInv, Progress

(* A command that gives up, is killed, or has not begun to write: what was *)
(* not torn by it is recorded.                                             *)
LEMMA NotWriting ==
  ASSUME cmd'.at \in {0, 1}, cmd'.kept = {}, ~ settled', ~ torn' => (Ours \subseteq Recorded)'
  PROVE  Progress' /\ Accounted' /\ Fixpoint'
<1>1. Progress'
  BY DEF Progress
<1>2. QED
  BY <1>1 DEF Accounted, Fixpoint

(* A sync of a repository that is settled leaves it so.                    *)
LEMMA StaysSettled ==
  ASSUME IInv, settled' => settled,
         settled => UNCHANGED <<file, record, payload, enabled, settings, script, hooks, ignored,
                                env>>,
         settled /\ cmd'.at > 1 => cmd'.kept = record \cap Stage(cmd'.at)
  PROVE  Fixpoint' /\ (settled => Quiet)
BY DEF Quiet, IInv, Fixpoint, Stage, Enabled, SelfHostedWorkflow

LEMMA FailStep ==
  ASSUME IInv, cmd.at # 0, Fail
  PROVE  Progress' /\ Accounted' /\ Fixpoint' /\ (settled => Quiet)
<1>1. cmd'.at = 0 /\ cmd'.kept = {}
  BY DEF Fail, Idle
<1>2. (cmd.at > 1 => torn') /\ (torn => torn')
  BY Zenon DEF Fail
<1>3. ~ torn' => (Ours \subseteq Recorded)'
  BY <1>2, StepNames DEF IInv, Accounted, Fail, Ours, Recorded
<1>4. QED
  BY <1>1, <1>3, NotWriting DEF Fail, Quiet

LEMMA ToolkitStep ==
  ASSUME IInv, AssertToolkit
  PROVE  Progress' /\ Accounted' /\ Fixpoint' /\ (settled => Quiet)
<1>1. CASE Fail
  BY <1>1, FailStep, StepNames DEF AssertToolkit, IInv
<1>2. CASE ~ Fail
  <2>1. /\ cmd.at = 1 /\ payload # {} /\ cmd' = [cmd EXCEPT !.at = @ + 1, !.prior = Recorded]
        /\ UNCHANGED <<file, record, payload, enabled, settings, script, hooks, guard, ignored,
                       env, budget, settled, torn>>
    BY <1>2, StepNames DEF AssertToolkit, IInv, Rest
  <2>2. cmd'.at = 2 /\ cmd'.prior = Recorded /\ cmd'.kept = cmd.kept /\ cmd.kept = {}
    BY <2>1 DEF IInv, TypeOK, Progress, Stage
  <2>3. Progress'
    BY <2>1, <2>2 DEF Progress, Recorded
  <2>4. Accounted'
    BY <2>1, <2>2 DEF IInv, Accounted, Ours, Recorded
  <2>5. Fixpoint' /\ (settled => Quiet)
    BY <2>1, <2>2, StaysSettled DEF Stage
  <2>6. QED
    BY <2>3, <2>4, <2>5
<1>3. QED
  BY <1>1, <1>2

LEMMA LegacyStep ==
  ASSUME IInv, RetireLegacyPluginLink
  PROVE  Progress' /\ Accounted' /\ Fixpoint' /\ (settled => Quiet)
<1>1. /\ cmd.at = 2 /\ cmd' = [cmd EXCEPT !.at = @ + 1, !.kept = @ \cup ({})]
      /\ UNCHANGED <<record, payload, enabled, settings, script, hooks, guard, ignored, env,
                     budget, settled, torn>>
  BY StepNames DEF IInv, Rest, Go, RetireLegacyPluginLink
<1>2. cmd'.at = 3 /\ cmd'.prior = cmd.prior /\ cmd'.kept = cmd.kept \cup ({})
  BY <1>1 DEF IInv, TypeOK
<1>3. /\ cmd.prior = Recorded /\ payload \subseteq Skills /\ Enabled \subseteq Workflows
      /\ settled => record \subseteq Paths /\ cmd.prior = record /\ Legacy \notin record
  BY <1>1, Running
<1>4. \A p \in Paths : file'[p] = IF p = Legacy /\ p \in cmd.prior /\ file[p] = "ours" THEN "absent"
                                 ELSE file[p]
  BY Kinds DEF IInv, TypeOK, RetireLegacyPluginLink
<1>5. file \in FileType /\ file' \in FileType
  BY Kinds DEF FileType, IInv, TypeOK, RetireLegacyPluginLink
<1>6. Progress'
  BY <1>1, <1>2, <1>3, Kinds, <1>4 DEF IInv, Progress, Stage, Recorded
<1>7. Accounted'
  BY <1>1, <1>2, <1>3, Kinds, <1>4 DEF IInv, Accounted, Ours, Recorded
<1>8. Fixpoint' /\ (settled => Quiet)
  <2>1. settled => file' = file
    <3>1. settled => \A p \in Paths : file'[p] = file[p]
      BY <1>1, <1>3, <1>4, Kinds DEF IInv, Fixpoint, TypeOK
    <3>2. QED
      BY <1>5, <3>1 DEF FileType
  <2>2. settled => cmd'.kept = record \cap Stage(cmd'.at)
    BY <1>1, <1>2, <1>3, Kinds DEF IInv, Fixpoint, Stage
  <2>3. QED
    BY <1>1, <2>1, <2>2, StaysSettled
<1>9. QED
  BY <1>6, <1>7, <1>8

LEMMA TemplatesStep ==
  ASSUME IInv, MaterializeTemplates
  PROVE  Progress' /\ Accounted' /\ Fixpoint' /\ (settled => Quiet)
<1>1. /\ cmd.at = 3 /\ cmd' = [cmd EXCEPT !.at = @ + 1, !.kept = @ \cup (ManagedCopies(Templates))]
      /\ UNCHANGED <<record, payload, enabled, settings, script, hooks, guard, ignored, env,
                     budget, settled, torn>>
  BY StepNames DEF IInv, Rest, Go, MaterializeTemplates
<1>2. cmd'.at = 4 /\ cmd'.prior = cmd.prior /\ cmd'.kept = cmd.kept \cup (ManagedCopies(Templates))
  BY <1>1 DEF IInv, TypeOK
<1>3. /\ cmd.prior = Recorded /\ payload \subseteq Skills /\ Enabled \subseteq Workflows
      /\ settled => record \subseteq Paths /\ cmd.prior = record /\ Legacy \notin record
  BY <1>1, Running
<1>4. \A p \in Paths : file'[p] = IF p \in Templates /\ file[p] = "absent" THEN "ours" ELSE file[p]
  BY Kinds DEF IInv, TypeOK, MaterializeTemplates, Materialized
<1>5. file \in FileType /\ file' \in FileType
  BY Kinds DEF FileType, IInv, TypeOK, MaterializeTemplates, Materialized
<1>6. Progress'
  BY <1>1, <1>2, <1>3, Kinds, <1>4 DEF IInv, Progress, Stage, Recorded, ManagedCopies
<1>7. Accounted'
  BY <1>1, <1>2, <1>3, Kinds, <1>4 DEF IInv, Accounted, Ours, Recorded
<1>8. Fixpoint' /\ (settled => Quiet)
  <2>1. settled => file' = file
    <3>1. settled => \A p \in Paths : file'[p] = file[p]
      BY <1>1, <1>3, <1>4, Kinds DEF IInv, Fixpoint, TypeOK
    <3>2. QED
      BY <1>5, <3>1 DEF FileType
  <2>2. settled => cmd'.kept = record \cap Stage(cmd'.at)
    BY <1>1, <1>2, <1>3, Kinds DEF IInv, Fixpoint, Stage, ManagedCopies
  <2>3. QED
    BY <1>1, <2>1, <2>2, StaysSettled
<1>9. QED
  BY <1>6, <1>7, <1>8

LEMMA CrewStep ==
  ASSUME IInv, MaterializeCrewConfig
  PROVE  Progress' /\ Accounted' /\ Fixpoint' /\ (settled => Quiet)
<1>1. /\ cmd.at = 4 /\ cmd' = [cmd EXCEPT !.at = @ + 1, !.kept = @ \cup (ManagedCopies({Crew}))]
      /\ UNCHANGED <<record, payload, enabled, settings, script, hooks, guard, env, budget,
                     settled, torn>>
  BY StepNames DEF IInv, Rest, Go, MaterializeCrewConfig
<1>2. cmd'.at = 5 /\ cmd'.prior = cmd.prior /\ cmd'.kept = cmd.kept \cup (ManagedCopies({Crew}))
  BY <1>1 DEF IInv, TypeOK
<1>3. /\ cmd.prior = Recorded /\ payload \subseteq Skills /\ Enabled \subseteq Workflows
      /\ settled => record \subseteq Paths /\ cmd.prior = record /\ Legacy \notin record
  BY <1>1, Running
<1>4. \A p \in Paths : file'[p] = IF p = Crew /\ file[p] = "absent" THEN "ours" ELSE file[p]
  BY Kinds DEF IInv, TypeOK, MaterializeCrewConfig, Materialized
<1>5. file \in FileType /\ file' \in FileType
  BY Kinds DEF FileType, IInv, TypeOK, MaterializeCrewConfig, Materialized
<1>6. ManagedCopies({Crew}) # {} => ignored'
  BY Zenon DEF MaterializeCrewConfig
<1>7. Progress'
  <2>1. cmd.kept \subseteq Templates /\ (Crew \in cmd'.kept => ignored')
    BY <1>1, <1>2, <1>6, Kinds DEF IInv, Progress, Stage
  <2>2. QED
    BY <1>1, <1>2, <1>3, <1>4, <2>1, Kinds DEF IInv, Progress, Stage, Recorded, ManagedCopies
<1>8. Accounted'
  BY <1>1, <1>2, <1>3, Kinds, <1>4 DEF IInv, Accounted, Ours, Recorded
<1>9. Fixpoint' /\ (settled => Quiet)
  <2>1. settled => file' = file
    <3>1. settled => \A p \in Paths : file'[p] = file[p]
      BY <1>1, <1>3, <1>4, Kinds DEF IInv, Fixpoint, TypeOK
    <3>2. QED
      BY <1>5, <3>1 DEF FileType
  <2>2. settled => ignored' = ignored
    BY <1>1, <1>3 DEF IInv, Fixpoint, TypeOK, ManagedCopies, MaterializeCrewConfig
  <2>3. settled => cmd'.kept = record \cap Stage(cmd'.at)
    BY <1>1, <1>2, <1>3, Kinds DEF IInv, Fixpoint, Stage, ManagedCopies
  <2>4. QED
    BY <1>1, <2>1, <2>3, <2>2, StaysSettled
<1>10. QED
  BY <1>7, <1>8, <1>9

LEMMA PolicyStep ==
  ASSUME IInv, MaterializePolicy
  PROVE  Progress' /\ Accounted' /\ Fixpoint' /\ (settled => Quiet)
<1>1. /\ cmd.at = 5 /\ cmd' = [cmd EXCEPT !.at = @ + 1, !.kept = @ \cup (ManagedCopies({Policy}))]
      /\ UNCHANGED <<record, payload, settings, script, hooks, guard, ignored, env, budget,
                     settled, torn>>
  BY StepNames DEF IInv, Rest, Go, MaterializePolicy
<1>2. cmd'.at = 6 /\ cmd'.prior = cmd.prior /\ cmd'.kept = cmd.kept \cup (ManagedCopies({Policy}))
  BY <1>1 DEF IInv, TypeOK
<1>3. /\ cmd.prior = Recorded /\ payload \subseteq Skills /\ Enabled \subseteq Workflows
      /\ settled => record \subseteq Paths /\ cmd.prior = record /\ Legacy \notin record
  BY <1>1, Running
<1>4. \A p \in Paths : file'[p] = IF p = Policy /\ file[p] = "absent" THEN "ours" ELSE file[p]
  BY Kinds DEF IInv, TypeOK, MaterializePolicy, Materialized
<1>5. file \in FileType /\ file' \in FileType
  BY Kinds DEF FileType, IInv, TypeOK, MaterializePolicy, Materialized
<1>6. Progress'
  BY <1>1, <1>2, <1>3, Kinds, <1>4 DEF IInv, Progress, Stage, Recorded, ManagedCopies,
                                       MaterializePolicy
<1>7. Accounted'
  BY <1>1, <1>2, <1>3, Kinds, <1>4 DEF IInv, Accounted, Ours, Recorded
<1>8. Fixpoint' /\ (settled => Quiet)
  <2>1. settled => file' = file
    <3>1. settled => \A p \in Paths : file'[p] = file[p]
      BY <1>1, <1>3, <1>4, Kinds DEF IInv, Fixpoint, TypeOK
    <3>2. QED
      BY <1>5, <3>1 DEF FileType
  <2>2. settled => enabled' = enabled
    BY <1>1, <1>3 DEF IInv, Fixpoint, MaterializePolicy
  <2>3. settled => cmd'.kept = record \cap Stage(cmd'.at)
    BY <1>1, <1>2, <1>3, Kinds DEF IInv, Fixpoint, Stage, ManagedCopies
  <2>4. QED
    BY <1>1, <2>1, <2>3, <2>2, StaysSettled
<1>9. QED
  BY <1>6, <1>7, <1>8

LEMMA CatalogStep ==
  ASSUME IInv, LinkCatalog, Refused({Catalog}) = {}
  PROVE  Progress' /\ Accounted' /\ Fixpoint' /\ (settled => Quiet)
<1>1. /\ cmd.at = 6 /\ cmd' = [cmd EXCEPT !.at = @ + 1, !.kept = @ \cup ({Catalog})]
      /\ UNCHANGED <<record, payload, enabled, settings, script, hooks, guard, ignored, env,
                     budget, settled, torn>>
  BY StepNames DEF IInv, Rest, Go, LinkCatalog
<1>2. cmd'.at = 7 /\ cmd'.prior = cmd.prior /\ cmd'.kept = cmd.kept \cup ({Catalog})
  BY <1>1 DEF IInv, TypeOK
<1>3. /\ cmd.prior = Recorded /\ payload \subseteq Skills /\ Enabled \subseteq Workflows
      /\ settled => record \subseteq Paths /\ cmd.prior = record /\ Legacy \notin record
  BY <1>1, Running
<1>4. \A p \in Paths : file'[p] = IF p = Catalog THEN "ours" ELSE file[p]
  BY Kinds DEF IInv, TypeOK, LinkCatalog
<1>5. file \in FileType /\ file' \in FileType
  BY Kinds DEF FileType, IInv, TypeOK, LinkCatalog
<1>6. Progress'
  BY <1>1, <1>2, <1>3, Kinds, <1>4 DEF IInv, Progress, Stage, Recorded
<1>7. Accounted'
  BY <1>1, <1>2, <1>3, Kinds, <1>4 DEF IInv, Accounted, Ours, Recorded
<1>8. Fixpoint' /\ (settled => Quiet)
  <2>1. settled => file' = file
    <3>1. settled => \A p \in Paths : file'[p] = file[p]
      BY <1>1, <1>3, <1>4, Kinds DEF IInv, Fixpoint, TypeOK
    <3>2. QED
      BY <1>5, <3>1 DEF FileType
  <2>2. settled => cmd'.kept = record \cap Stage(cmd'.at)
    BY <1>1, <1>2, <1>3, Kinds DEF IInv, Fixpoint, Stage
  <2>3. QED
    BY <1>1, <2>1, <2>2, StaysSettled
<1>9. QED
  BY <1>6, <1>7, <1>8

LEMMA ReadPolicyStep ==
  ASSUME IInv, ReadWorkflowPolicy, enabled # Malformed, ~ SelfHostedWorkflow
  PROVE  Progress' /\ Accounted' /\ Fixpoint' /\ (settled => Quiet)
<1>1. /\ cmd.at = 7 /\ cmd' = [cmd EXCEPT !.at = @ + 1, !.kept = @ \cup ({})]
      /\ UNCHANGED <<file, record, payload, enabled, settings, script, hooks, guard, ignored, env,
                     budget, settled, torn>>
  BY StepNames DEF IInv, Rest, Go, ReadWorkflowPolicy
<1>2. cmd'.at = 8 /\ cmd'.prior = cmd.prior /\ cmd'.kept = cmd.kept \cup ({})
  BY <1>1 DEF IInv, TypeOK
<1>3. /\ cmd.prior = Recorded /\ payload \subseteq Skills /\ Enabled \subseteq Workflows
      /\ settled => record \subseteq Paths /\ cmd.prior = record /\ Legacy \notin record
  BY <1>1, Running
<1>4. Progress'
  BY <1>1, <1>2, <1>3, Kinds DEF IInv, Progress, Stage, Recorded, ReadWorkflowPolicy, Enabled,
                                 SelfHostedWorkflow
<1>5. Accounted'
  BY <1>1, <1>2, <1>3, Kinds DEF IInv, Accounted, Ours, Recorded
<1>6. Fixpoint' /\ (settled => Quiet)
  <2>1. settled => cmd'.kept = record \cap Stage(cmd'.at)
    BY <1>1, <1>2, <1>3, Kinds DEF IInv, Fixpoint, Stage
  <2>2. QED
    BY <1>1, <2>1, StaysSettled
<1>7. QED
  BY <1>4, <1>5, <1>6

LEMMA WorkflowsStep ==
  ASSUME IInv, InstallWorkflows
  PROVE  Progress' /\ Accounted' /\ Fixpoint' /\ (settled => Quiet)
<1>1. /\ cmd.at = 8 /\ cmd' = [cmd EXCEPT !.at = @ + 1, !.kept = @ \cup (ManagedCopies(Enabled))]
      /\ UNCHANGED <<record, payload, enabled, settings, script, hooks, guard, ignored, env,
                     budget, settled, torn>>
  BY StepNames DEF IInv, Rest, Go, InstallWorkflows
<1>2. cmd'.at = 9 /\ cmd'.prior = cmd.prior /\ cmd'.kept = cmd.kept \cup (ManagedCopies(Enabled))
  BY <1>1 DEF IInv, TypeOK
<1>3. /\ cmd.prior = Recorded /\ payload \subseteq Skills /\ Enabled \subseteq Workflows
      /\ settled => record \subseteq Paths /\ cmd.prior = record /\ Legacy \notin record
  BY <1>1, Running
<1>4. \A p \in Paths : file'[p] = IF p \in Enabled THEN IF file[p] = "absent" THEN "ours" ELSE file[p]
                                 ELSE IF p \in Workflows /\ p \in cmd.prior THEN "absent" ELSE file[p]
  BY <1>3, Kinds DEF IInv, TypeOK, InstallWorkflows, Materialized
<1>5. file \in FileType /\ file' \in FileType
  BY Kinds DEF FileType, IInv, TypeOK, InstallWorkflows, Materialized
<1>6. Enabled' = Enabled /\ SelfHostedWorkflow' = SelfHostedWorkflow
  BY <1>1 DEF Enabled, SelfHostedWorkflow
<1>7. Progress'
  BY <1>1, <1>2, <1>3, Kinds, <1>4, <1>6 DEF IInv, Progress, Stage, Recorded, ManagedCopies
<1>8. Accounted'
  BY <1>1, <1>2, <1>3, Kinds, <1>4 DEF IInv, Accounted, Ours, Recorded, ManagedCopies
<1>9. Fixpoint' /\ (settled => Quiet)
  <2>1. settled => file' = file
    <3>1. settled => \A p \in Paths : file'[p] = file[p]
      BY <1>1, <1>3, <1>4, Kinds DEF IInv, Fixpoint, TypeOK, Stage
    <3>2. QED
      BY <1>5, <3>1 DEF FileType
  <2>2. settled => cmd'.kept = record \cap Stage(cmd'.at)
    BY <1>1, <1>2, <1>3, Kinds DEF IInv, Fixpoint, Stage, ManagedCopies
  <2>3. QED
    BY <1>1, <2>1, <2>2, StaysSettled
<1>10. QED
  BY <1>7, <1>8, <1>9

LEMMA SettingsStep ==
  ASSUME IInv, MergeSettings, settings # Malformed
  PROVE  Progress' /\ Accounted' /\ Fixpoint' /\ (settled => Quiet)
<1>1. /\ cmd.at = 9 /\ cmd' = [cmd EXCEPT !.at = @ + 1, !.kept = @ \cup ({})]
      /\ UNCHANGED <<file, record, payload, enabled, script, hooks, guard, ignored, env, budget,
                     settled, torn>>
  BY StepNames DEF IInv, Rest, Go, MergeSettings
<1>2. cmd'.at = 10 /\ cmd'.prior = cmd.prior /\ cmd'.kept = cmd.kept \cup ({})
  BY <1>1 DEF IInv, TypeOK
<1>3. /\ cmd.prior = Recorded /\ payload \subseteq Skills /\ Enabled \subseteq Workflows
      /\ settled => record \subseteq Paths /\ cmd.prior = record /\ Legacy \notin record
  BY <1>1, Running
<1>4. Enabled' = Enabled /\ SelfHostedWorkflow' = SelfHostedWorkflow
  BY <1>1 DEF Enabled, SelfHostedWorkflow
<1>5. Progress'
  BY <1>1, <1>2, <1>3, Kinds, <1>4 DEF IInv, Progress, Stage, Recorded, TypeOK, MergeSettings,
                                       Malformed
<1>6. Accounted'
  BY <1>1, <1>2, <1>3, Kinds DEF IInv, Accounted, Ours, Recorded
<1>7. Fixpoint' /\ (settled => Quiet)
  <2>1. settled => settings' = settings
    <3>1. settings' = (settings \cap {"theirs"}) \cup {"ours"}
      BY DEF MergeSettings
    <3>2. settled => settings \subseteq {"ours", "theirs"} /\ "ours" \in settings
      BY DEF IInv, Fixpoint, TypeOK
    <3>3. QED
      BY <3>1, <3>2
  <2>2. settled => cmd'.kept = record \cap Stage(cmd'.at)
    BY <1>1, <1>2, <1>3, Kinds DEF IInv, Fixpoint, Stage
  <2>3. QED
    BY <1>1, <2>1, <2>2, StaysSettled
<1>8. QED
  BY <1>5, <1>6, <1>7

LEMMA ScriptStep ==
  ASSUME IInv, MergePackageScript, script # "theirs"
  PROVE  Progress' /\ Accounted' /\ Fixpoint' /\ (settled => Quiet)
<1>1. /\ cmd.at = 10 /\ cmd' = [cmd EXCEPT !.at = @ + 1, !.kept = @ \cup ({})]
      /\ UNCHANGED <<file, record, payload, enabled, settings, hooks, guard, ignored, env, budget,
                     settled, torn>>
  BY StepNames DEF IInv, Rest, Go, MergePackageScript
<1>2. cmd'.at = 11 /\ cmd'.prior = cmd.prior /\ cmd'.kept = cmd.kept \cup ({})
  BY <1>1 DEF IInv, TypeOK
<1>3. /\ cmd.prior = Recorded /\ payload \subseteq Skills /\ Enabled \subseteq Workflows
      /\ settled => record \subseteq Paths /\ cmd.prior = record /\ Legacy \notin record
  BY <1>1, Running
<1>4. Enabled' = Enabled /\ SelfHostedWorkflow' = SelfHostedWorkflow
  BY <1>1 DEF Enabled, SelfHostedWorkflow
<1>5. Progress'
  BY <1>1, <1>2, <1>3, Kinds, <1>4 DEF IInv, Progress, Stage, Recorded, TypeOK,
                                       MergePackageScript, Malformed
<1>6. Accounted'
  BY <1>1, <1>2, <1>3, Kinds DEF IInv, Accounted, Ours, Recorded
<1>7. Fixpoint' /\ (settled => Quiet)
  <2>1. settled => script' = script
    BY <1>1 DEF IInv, Fixpoint, TypeOK, MergePackageScript
  <2>2. settled => cmd'.kept = record \cap Stage(cmd'.at)
    BY <1>1, <1>2, <1>3, Kinds DEF IInv, Fixpoint, Stage
  <2>3. QED
    BY <1>1, <2>1, <2>2, StaysSettled
<1>8. QED
  BY <1>5, <1>6, <1>7

LEMMA RefGuardStep ==
  ASSUME IInv, InstallRefGuard, hooks["reference-transaction"] \notin {"theirs", "drifted"}
  PROVE  Progress' /\ Accounted' /\ Fixpoint' /\ (settled => Quiet)
<1>1. /\ cmd.at = 11 /\ cmd' = [cmd EXCEPT !.at = @ + 1, !.kept = @ \cup ({})]
      /\ UNCHANGED <<file, record, payload, enabled, settings, script, guard, ignored, env,
                     budget, settled, torn>>
  BY StepNames DEF IInv, Rest, Go, InstallRefGuard
<1>2. cmd'.at = 12 /\ cmd'.prior = cmd.prior /\ cmd'.kept = cmd.kept \cup ({})
  BY <1>1 DEF IInv, TypeOK
<1>3. /\ cmd.prior = Recorded /\ payload \subseteq Skills /\ Enabled \subseteq Workflows
      /\ settled => record \subseteq Paths /\ cmd.prior = record /\ Legacy \notin record
  BY <1>1, Running
<1>4. Enabled' = Enabled /\ SelfHostedWorkflow' = SelfHostedWorkflow
  BY <1>1 DEF Enabled, SelfHostedWorkflow
<1>5. Progress'
  BY <1>1, <1>2, <1>3, Kinds, <1>4 DEF IInv, Progress, Stage, Recorded, TypeOK, InstallRefGuard,
                                       Malformed
<1>6. Accounted'
  BY <1>1, <1>2, <1>3, Kinds DEF IInv, Accounted, Ours, Recorded
<1>7. Fixpoint' /\ (settled => Quiet)
  <2>1. settled => hooks' = hooks
    BY <1>1 DEF IInv, Fixpoint, TypeOK, InstallRefGuard
  <2>2. settled => cmd'.kept = record \cap Stage(cmd'.at)
    BY <1>1, <1>2, <1>3, Kinds DEF IInv, Fixpoint, Stage
  <2>3. QED
    BY <1>1, <2>1, <2>2, StaysSettled
<1>8. QED
  BY <1>5, <1>6, <1>7

LEMMA LinksFail ==
  ASSUME IInv, LinkEntries, Refused(payload) # {}
  PROVE  Progress' /\ Accounted' /\ Fixpoint' /\ (settled => Quiet)
<1>1. ~ settled
  BY DEF IInv, Fixpoint, Refused
<1>2. QED
  BY <1>1, NotWriting DEF LinkEntries, Idle

LEMMA LinksStep ==
  ASSUME IInv, LinkEntries, Refused(payload) = {}
  PROVE  Progress' /\ Accounted' /\ Fixpoint' /\ (settled => Quiet)
<1>1. /\ cmd.at = 12 /\ cmd' = [cmd EXCEPT !.at = @ + 1, !.kept = @ \cup (payload)]
      /\ UNCHANGED <<record, payload, enabled, settings, script, hooks, guard, ignored, env,
                     budget, settled, torn>>
  BY StepNames DEF IInv, Rest, Go, LinkEntries
<1>2. cmd'.at = 13 /\ cmd'.prior = cmd.prior /\ cmd'.kept = cmd.kept \cup (payload)
  BY <1>1 DEF IInv, TypeOK
<1>3. /\ cmd.prior = Recorded /\ payload \subseteq Skills /\ Enabled \subseteq Workflows
      /\ settled => record \subseteq Paths /\ cmd.prior = record /\ Legacy \notin record
  BY <1>1, Running
<1>4. \A p \in Paths : file'[p] = IF p \in payload THEN "ours" ELSE file[p]
  BY DEF IInv, TypeOK, LinkEntries
<1>5. file \in FileType /\ file' \in FileType
  BY Kinds DEF FileType, IInv, TypeOK, LinkEntries
<1>6. Enabled' = Enabled /\ SelfHostedWorkflow' = SelfHostedWorkflow
  BY <1>1 DEF Enabled, SelfHostedWorkflow
<1>7. Progress'
  BY <1>1, <1>2, <1>3, Kinds, <1>4, <1>6 DEF IInv, Progress, Stage, Recorded
<1>8. Accounted'
  BY <1>1, <1>2, <1>3, Kinds, <1>4 DEF IInv, Accounted, Ours, Recorded
<1>9. Fixpoint' /\ (settled => Quiet)
  <2>1. settled => file' = file
    <3>1. settled => \A p \in Paths : file'[p] = file[p]
      BY <1>1, <1>3, <1>4, Kinds DEF IInv, Fixpoint, TypeOK
    <3>2. QED
      BY <1>5, <3>1 DEF FileType
  <2>2. settled => cmd'.kept = record \cap Stage(cmd'.at)
    BY <1>1, <1>2, <1>3, Kinds DEF IInv, Fixpoint, Stage
  <2>3. QED
    BY <1>1, <2>1, <2>2, StaysSettled
<1>10. QED
  BY <1>7, <1>8, <1>9

LEMMA RetireStep ==
  ASSUME IInv, RetireUnmanagedPaths
  PROVE  Progress' /\ Accounted' /\ Fixpoint' /\ (settled => Quiet)
<1>1. /\ cmd.at = 13 /\ cmd' = [cmd EXCEPT !.at = @ + 1, !.kept = @ \cup ({})]
      /\ UNCHANGED <<record, payload, enabled, settings, script, hooks, guard, ignored, env,
                     budget, settled, torn>>
  BY StepNames DEF IInv, Rest, Go, RetireUnmanagedPaths
<1>2. cmd'.at = 14 /\ cmd'.prior = cmd.prior /\ cmd'.kept = cmd.kept \cup ({})
  BY <1>1 DEF IInv, TypeOK
<1>3. /\ cmd.prior = Recorded /\ payload \subseteq Skills /\ Enabled \subseteq Workflows
      /\ settled => record \subseteq Paths /\ cmd.prior = record /\ Legacy \notin record
  BY <1>1, Running
<1>4. \A p \in Paths : file'[p] = IF p \in (cmd.prior \ cmd.kept) \cap Links /\ file[p] = "ours"
                                 THEN "absent" ELSE file[p]
  BY DEF IInv, TypeOK, RetireUnmanagedPaths
<1>5. file \in FileType /\ file' \in FileType
  BY Kinds DEF FileType, IInv, TypeOK, RetireUnmanagedPaths
<1>6. Enabled' = Enabled /\ SelfHostedWorkflow' = SelfHostedWorkflow
  BY <1>1 DEF Enabled, SelfHostedWorkflow
<1>7. Progress'
  BY <1>1, <1>2, <1>3, Kinds, <1>4, <1>6 DEF IInv, Progress, Stage, Recorded
<1>8. Accounted'
  BY <1>1, <1>2, <1>3, Kinds, <1>4 DEF IInv, Accounted, Ours, Recorded
<1>9. Fixpoint' /\ (settled => Quiet)
  <2>1. settled => file' = file
    <3>1. settled => \A p \in Paths : file'[p] = file[p]
      BY <1>1, <1>3, <1>4, Kinds DEF IInv, Fixpoint, TypeOK, Stage
    <3>2. QED
      BY <1>5, <3>1 DEF FileType
  <2>2. settled => cmd'.kept = record \cap Stage(cmd'.at)
    BY <1>1, <1>2, <1>3, Kinds DEF IInv, Fixpoint, Stage
  <2>3. QED
    BY <1>1, <2>1, <2>2, StaysSettled
<1>10. QED
  BY <1>7, <1>8, <1>9

LEMMA RecordStep ==
  ASSUME IInv, WriteRecord
  PROVE  Progress' /\ Accounted' /\ Fixpoint' /\ (settled => Quiet)
<1>1. /\ cmd.at = 14 /\ record' = cmd.kept /\ cmd'.at = 0 /\ settled'
      /\ UNCHANGED <<file, payload, enabled, settings, script, hooks, guard, ignored, env, budget,
                     torn>>
  BY StepNames DEF IInv, WriteRecord, Idle
<1>2. /\ payload \subseteq Skills /\ Enabled \subseteq Workflows /\ cmd.kept \subseteq Paths
      /\ Enabled' = Enabled /\ (SelfHostedWorkflow' <=> SelfHostedWorkflow)
  BY <1>1, Running DEF IInv, TypeOK, Enabled, SelfHostedWorkflow
<1>3. Recorded' = cmd.kept
  BY <1>1, <1>2, Kinds DEF Recorded, NoRecord
<1>4. Progress'
  BY <1>1 DEF Progress, WriteRecord, Idle
<1>5. Accounted'
  BY <1>1, <1>2, <1>3, Kinds DEF IInv, Accounted, Ours, Progress
<1>6. Fixpoint'
  BY <1>1, <1>2, Kinds DEF IInv, Fixpoint, Progress, Stage
<1>7. settled => Quiet
  BY <1>1 DEF IInv, Fixpoint, Quiet
<1>8. QED
  BY <1>4, <1>5, <1>6, <1>7

-----------------------------------------------------------------------------
(* Types. *)
LEMMA CmdStep ==
  ASSUME NEW c \in CmdType, c.at # 14, NEW prior \in SUBSET Paths, NEW kept \in SUBSET Paths
  PROVE  [c EXCEPT !.at = @ + 1, !.prior = prior, !.kept = kept] \in CmdType
<1>1. Len(Steps) = 14
  BY DEF Steps
<1>2. c.at + 1 \in 0..Len(Steps)
  BY <1>1 DEF CmdType
<1>3. QED
  BY <1>2 DEF CmdType

LEMMA StepTypes ==
  ASSUME TypeOK, Step
  PROVE  TypeOK'
<1>1. /\ file \in FileType /\ cmd \in CmdType /\ Recorded \in SUBSET Paths
      /\ payload \subseteq Skills /\ Enabled \subseteq Workflows
  BY PathsAssumption DEF TypeOK, Enabled, FileType, CmdType, Recorded
<1>2. /\ Templates \cup Skills \cup Workflows \subseteq Paths
      /\ Crew \in Paths /\ Policy \in Paths /\ Catalog \in Paths
  BY Kinds
<1>3. Idle \in CmdType
  BY StepNames DEF CmdType, Idle
<1>4. CASE Fail
  BY <1>1, <1>3, <1>4 DEF Fail, TypeOK, CmdType, FileType
<1> DEFINE Fine ==
      /\ file' \in FileType /\ cmd' \in CmdType
      /\ UNCHANGED <<record, payload, env, budget, guard, settled, torn>>
      /\ UNCHANGED enabled \/ enabled' = {}
      /\ UNCHANGED settings \/ settings' = (settings \cap {"theirs"}) \cup {"ours"}
      /\ UNCHANGED script \/ script' = "ours"
      /\ UNCHANGED hooks \/ hooks' = [hooks EXCEPT !["reference-transaction"] = "ours"]
      /\ UNCHANGED ignored \/ ignored' \in BOOLEAN
<1>5. CASE Fine
  <2>1. /\ hooks' \in HookType
        /\ settings' = Malformed \/ settings' \subseteq {"ours", "older", "theirs"}
        /\ enabled' = Malformed \/ enabled' \subseteq Workflows
    BY <1>5 DEF TypeOK, HookType
  <2>2. QED
    BY <1>5, <2>1 DEF TypeOK, FileType, CmdType, HookType
<1>6. ASSUME NEW more \in SUBSET Paths, Go(more), cmd.at # 14
      PROVE  cmd' \in CmdType
  <2>1. cmd.prior \in SUBSET Paths /\ cmd.kept \cup more \in SUBSET Paths
    BY <1>1 DEF CmdType
  <2>2. [cmd EXCEPT !.at = @ + 1, !.prior = cmd.prior, !.kept = cmd.kept \cup more] \in CmdType
    BY <1>1, <1>6, <2>1, CmdStep
  <2>3. QED
    BY <1>1, <1>6, <2>2 DEF Go, CmdType
<1> HIDE DEF Fine
<1>7. CASE AssertToolkit
  <2>1. CASE ~ Fail
    <3>1. cmd.at = 1 /\ cmd' = [cmd EXCEPT !.at = @ + 1, !.prior = Recorded] /\ Rest
          /\ UNCHANGED <<file, record, settings, script, hooks, ignored>>
      BY <1>7, <2>1, StepNames DEF AssertToolkit
    <3>2. cmd.kept \in SUBSET Paths /\ cmd.at # 14
      BY <1>1, <3>1 DEF CmdType
    <3>3. [cmd EXCEPT !.at = @ + 1, !.prior = Recorded, !.kept = cmd.kept] \in CmdType
      BY <1>1, <3>1, <3>2, CmdStep
    <3>4. cmd' \in CmdType
      BY <1>1, <3>1, <3>3 DEF CmdType
    <3>5. QED
      BY <1>1, <1>5, <3>1, <3>4 DEF Rest, Fine
  <2>2. QED
    BY <1>4, <2>1
<1>8. CASE RetireLegacyPluginLink
  <2>1. cmd.at = 2 /\ Go({})
    BY <1>8, StepNames DEF RetireLegacyPluginLink
  <2>2. {} \in SUBSET Paths
    BY <1>1, <1>2
  <2>3. file' \in FileType
    BY <1>1, <1>2, <1>8 DEF FileType, RetireLegacyPluginLink
  <2>4. QED
    BY <1>1, <1>5, <1>6, <1>8, <2>1, <2>2, <2>3 DEF RetireLegacyPluginLink, Rest, Fine
<1>9. CASE MaterializeTemplates
  <2>1. cmd.at = 3 /\ Go(ManagedCopies(Templates))
    BY <1>9, StepNames DEF MaterializeTemplates
  <2>2. ManagedCopies(Templates) \in SUBSET Paths
    BY <1>1, <1>2 DEF ManagedCopies
  <2>3. file' \in FileType
    BY <1>1, <1>2, <1>9 DEF FileType, MaterializeTemplates, Materialized
  <2>4. QED
    BY <1>1, <1>5, <1>6, <1>9, <2>1, <2>2, <2>3 DEF MaterializeTemplates, Rest, Fine
<1>10. CASE MaterializeCrewConfig
  <2>1. cmd.at = 4 /\ Go(ManagedCopies({Crew}))
    BY <1>10, StepNames DEF MaterializeCrewConfig
  <2>2. ManagedCopies({Crew}) \in SUBSET Paths
    BY <1>1, <1>2 DEF ManagedCopies
  <2>3. file' \in FileType
    BY <1>1, <1>2, <1>10 DEF FileType, MaterializeCrewConfig, Materialized
  <2>4. QED
    BY <1>1, <1>5, <1>6, <1>10, <2>1, <2>2, <2>3 DEF MaterializeCrewConfig, Rest, Fine
<1>11. CASE MaterializePolicy
  <2>1. cmd.at = 5 /\ Go(ManagedCopies({Policy}))
    BY <1>11, StepNames DEF MaterializePolicy
  <2>2. ManagedCopies({Policy}) \in SUBSET Paths
    BY <1>1, <1>2 DEF ManagedCopies
  <2>3. file' \in FileType
    BY <1>1, <1>2, <1>11 DEF FileType, MaterializePolicy, Materialized
  <2>4. QED
    BY <1>1, <1>5, <1>6, <1>11, <2>1, <2>2, <2>3 DEF MaterializePolicy, Rest, Fine
<1>12. CASE LinkCatalog
  <2>1. CASE ~ Fail
    <3>1. cmd.at = 6 /\ Go({Catalog})
      BY <1>12, <2>1, StepNames DEF LinkCatalog
    <3>2. {Catalog} \in SUBSET Paths
      BY <1>1, <1>2
    <3>3. file' \in FileType
      BY <1>1, <1>2, <1>12, <2>1 DEF FileType, LinkCatalog
    <3>4. QED
      BY <1>1, <1>5, <1>6, <1>12, <2>1, <3>1, <3>2, <3>3 DEF LinkCatalog, Rest, Fine
  <2>2. QED
    BY <1>4, <2>1
<1>13. CASE ReadWorkflowPolicy
  <2>1. CASE ~ Fail
    <3>1. cmd.at = 7 /\ Go({})
      BY <1>13, <2>1, StepNames DEF ReadWorkflowPolicy
    <3>2. {} \in SUBSET Paths
      BY <1>1, <1>2
    <3>3. file' \in FileType
      BY <1>1, <1>2, <1>13, <2>1 DEF FileType, ReadWorkflowPolicy, Rest
    <3>4. QED
      BY <1>1, <1>5, <1>6, <1>13, <2>1, <3>1, <3>2, <3>3 DEF ReadWorkflowPolicy, Rest, Fine
  <2>2. QED
    BY <1>4, <2>1
<1>14. CASE InstallWorkflows
  <2>1. cmd.at = 8 /\ Go(ManagedCopies(Enabled))
    BY <1>14, StepNames DEF InstallWorkflows
  <2>2. ManagedCopies(Enabled) \in SUBSET Paths
    BY <1>1, <1>2 DEF ManagedCopies
  <2>3. file' \in FileType
    BY <1>1, <1>2, <1>14 DEF FileType, InstallWorkflows, Materialized
  <2>4. QED
    BY <1>1, <1>5, <1>6, <1>14, <2>1, <2>2, <2>3 DEF InstallWorkflows, Rest, Fine
<1>15. CASE MergeSettings
  <2>1. CASE ~ Fail
    <3>1. cmd.at = 9 /\ Go({})
      BY <1>15, <2>1, StepNames DEF MergeSettings
    <3>2. {} \in SUBSET Paths
      BY <1>1, <1>2
    <3>3. file' \in FileType
      BY <1>1, <1>2, <1>15, <2>1 DEF FileType, MergeSettings, Rest
    <3>4. QED
      BY <1>1, <1>5, <1>6, <1>15, <2>1, <3>1, <3>2, <3>3 DEF MergeSettings, Rest, Fine
  <2>2. QED
    BY <1>4, <2>1
<1>16. CASE MergePackageScript
  <2>1. CASE ~ Fail
    <3>1. cmd.at = 10 /\ Go({})
      BY <1>16, <2>1, StepNames DEF MergePackageScript
    <3>2. {} \in SUBSET Paths
      BY <1>1, <1>2
    <3>3. file' \in FileType
      BY <1>1, <1>2, <1>16, <2>1 DEF FileType, MergePackageScript, Rest
    <3>4. QED
      BY <1>1, <1>5, <1>6, <1>16, <2>1, <3>1, <3>2, <3>3 DEF MergePackageScript, Rest, Fine
  <2>2. QED
    BY <1>4, <2>1
<1>17. CASE InstallRefGuard
  <2>1. CASE ~ Fail
    <3>1. cmd.at = 11 /\ Go({})
      BY <1>17, <2>1, StepNames DEF InstallRefGuard
    <3>2. {} \in SUBSET Paths
      BY <1>1, <1>2
    <3>3. file' \in FileType
      BY <1>1, <1>2, <1>17, <2>1 DEF FileType, InstallRefGuard, Rest
    <3>4. QED
      BY <1>1, <1>5, <1>6, <1>17, <2>1, <3>1, <3>2, <3>3 DEF InstallRefGuard, Rest, Fine
  <2>2. QED
    BY <1>4, <2>1
<1>18. CASE LinkEntries
  <2>1. CASE Refused(payload) = {}
    <3>1. cmd.at = 12 /\ Go(payload)
      BY <1>18, <2>1, StepNames DEF LinkEntries
    <3>2. payload \in SUBSET Paths
      BY <1>1, <1>2
    <3>3. file' \in FileType
      BY <1>1, <1>2, <1>18, <2>1 DEF FileType, LinkEntries
    <3>4. QED
      BY <1>1, <1>5, <1>6, <1>18, <2>1, <3>1, <3>2, <3>3 DEF LinkEntries, Rest, Fine
  <2>2. CASE Refused(payload) # {}
    <3>1. file' \in FileType /\ cmd' = Idle
      BY <1>1, <1>2, <1>18, <2>2 DEF LinkEntries, FileType
    <3>2. QED
      BY <1>3, <1>18, <2>2, <3>1 DEF LinkEntries, TypeOK, FileType, CmdType
  <2>3. QED
    BY <2>1, <2>2
<1>19. CASE RetireUnmanagedPaths
  <2>1. cmd.at = 13 /\ Go({})
    BY <1>19, StepNames DEF RetireUnmanagedPaths
  <2>2. {} \in SUBSET Paths
    BY <1>1, <1>2
  <2>3. file' \in FileType
    BY <1>1, <1>2, <1>19 DEF FileType, RetireUnmanagedPaths
  <2>4. QED
    BY <1>1, <1>5, <1>6, <1>19, <2>1, <2>2, <2>3 DEF RetireUnmanagedPaths, Rest, Fine
<1>20. CASE WriteRecord
  <2>1. cmd.kept \in SUBSET Paths
    BY <1>1 DEF CmdType
  <2>2. QED
    BY <1>3, <1>20, <2>1 DEF WriteRecord, TypeOK, CmdType
<1>21. QED
  BY <1>7, <1>8, <1>9, <1>10, <1>11, <1>12, <1>13, <1>14, <1>15, <1>16, <1>17, <1>18, <1>19,
     <1>20 DEF Step

-----------------------------------------------------------------------------
(* The commands begin, the adopter moves, a command is killed. *)
Between == \/ \E force \in BOOLEAN : Sync(force)
           \/ \E w \in Workflows : Enable(w)
           \/ InstallGuardHook \/ Stop \/ Adopter

LEMMA FreshCmd ==
  ASSUME NEW force \in BOOLEAN
  PROVE  /\ Idle \in CmdType /\ [Idle EXCEPT !.at = 1, !.force = force] \in CmdType
         /\ [Idle EXCEPT !.at = 1] \in CmdType
<1>1. 0 \in 0..Len(Steps) /\ 1 \in 0..Len(Steps)
  BY DEF Steps
<1>2. Idle = [at |-> 0, force |-> FALSE, prior |-> {}, kept |-> {}]
  BY DEF Idle
<1>3. QED
  BY <1>1, <1>2 DEF CmdType

LEMMA BetweenTypes ==
  ASSUME TypeOK, Between
  PROVE  TypeOK'
<1>1. /\ file \in FileType /\ cmd \in CmdType
      /\ budget \in [edits : 0..MaxEdits, syncs : 0..MaxSyncs, stops : 0..MaxStops]
  BY DEF TypeOK, FileType, CmdType
<1>2. Policy \in Paths /\ Crew \in Paths
  BY Kinds
<1>3. ASSUME NEW force \in BOOLEAN, Sync(force)
      PROVE  TypeOK'
  <2>1. cmd' \in CmdType
    BY <1>3, FreshCmd DEF Sync
  <2>2. budget' \in [edits : 0..MaxEdits, syncs : 0..MaxSyncs, stops : 0..MaxStops]
    BY BoundsAssumption, <1>1, <1>3 DEF Sync, Begin
  <2>3. QED
    BY <1>3, <2>1, <2>2 DEF Sync, TypeOK, CmdType
<1>4. ASSUME NEW w \in Workflows, Enable(w)
      PROVE  TypeOK'
  <2>1. cmd' \in CmdType
    BY <1>4, FreshCmd DEF Enable
  <2>2. budget' \in [edits : 0..MaxEdits, syncs : 0..MaxSyncs, stops : 0..MaxStops]
    BY BoundsAssumption, <1>1, <1>4 DEF Enable, Begin
  <2>3. file' \in FileType /\ enabled' \subseteq Workflows
    BY <1>1, <1>2, <1>4 DEF Enable, FileType, TypeOK
  <2>4. QED
    BY <1>4, <2>1, <2>2, <2>3 DEF Enable, TypeOK, CmdType, FileType
<1>5. CASE InstallGuardHook
  <2>1. hooks' \in HookType
    BY <1>5 DEF InstallGuardHook, TypeOK, HookType
  <2>2. QED
    BY <1>5, <2>1 DEF InstallGuardHook, TypeOK, HookType
<1>6. CASE Stop
  <2>1. budget' \in [edits : 0..MaxEdits, syncs : 0..MaxSyncs, stops : 0..MaxStops]
    BY BoundsAssumption, <1>1, <1>6 DEF Stop
  <2>2. QED
    BY <1>6, <2>1, FreshCmd DEF Stop, TypeOK, CmdType
<1>7. CASE Adopter
  <2>1. Edit
    BY <1>7 DEF Adopter, EditFile, EditPolicy, EditSettings, EditScript, EditHook, EditGuardPolicy,
                MoveToolkit, Clone
  <2>2. budget' \in [edits : 0..MaxEdits, syncs : 0..MaxSyncs, stops : 0..MaxStops]
    BY BoundsAssumption, <1>1, <2>1 DEF Edit
  <2>3. file' \in FileType
    BY <1>1, <1>2, <1>7 DEF Adopter, EditFile, EditPolicy, EditSettings, EditScript, EditHook,
                            EditGuardPolicy, MoveToolkit, Clone, Untouched, FileType
  <2>4. hooks' \in HookType
    BY <1>7 DEF Adopter, EditFile, EditPolicy, EditSettings, EditScript, EditHook, EditGuardPolicy,
                MoveToolkit, Clone, Untouched, TypeOK, HookType
  <2>5. /\ payload' \in Installs \cup {{}}
        /\ enabled' = Malformed \/ enabled' \subseteq Workflows
        /\ settings' = Malformed \/ settings' \subseteq {"ours", "older", "theirs"}
        /\ script' \in {"absent", "ours", "theirs"} /\ guard' \in {"off", "on", "malformed"}
        /\ ignored' \in BOOLEAN
    BY <1>7 DEF Adopter, EditFile, EditPolicy, EditSettings, EditScript, EditHook, EditGuardPolicy,
                MoveToolkit, Clone, Untouched, TypeOK
  <2>6. QED
    BY <2>1, <2>2, <2>3, <2>4, <2>5 DEF Edit, TypeOK, FileType, HookType
<1>8. QED
  BY <1>3, <1>4, <1>5, <1>6, <1>7 DEF Between

LEMMA BetweenStep ==
  ASSUME IInv, Between
  PROVE  Progress' /\ Accounted' /\ Fixpoint'
<1>1. cmd.at = 0 => cmd.kept = {} /\ (~ torn => Ours \subseteq Recorded)
  BY DEF IInv, Progress, Stage, Accounted
<1>2. ASSUME NEW force \in BOOLEAN, Sync(force)
      PROVE  Progress' /\ Accounted' /\ Fixpoint'
  <2>1. /\ cmd.at = 0 /\ cmd'.at = 1 /\ cmd'.kept = {}
        /\ UNCHANGED <<file, record, payload, enabled, settings, script, hooks, guard, ignored,
                       env, settled, torn>>
    BY <1>2 DEF Sync, Begin, Idle
  <2>2. Fixpoint'
    BY <2>1, StaysSettled
  <2>3. QED
    BY <1>1, <2>1, <2>2 DEF Progress, Accounted, Ours, Recorded
<1>3. ASSUME NEW w \in Workflows, Enable(w)
      PROVE  Progress' /\ Accounted' /\ Fixpoint'
  <2>1. /\ cmd.at = 0 /\ cmd'.at = 1 /\ cmd'.kept = {} /\ ~ settled' /\ UNCHANGED <<record, torn>>
    BY <1>3 DEF Enable, Begin, Idle
  <2>2. \A p \in Links \cup Workflows : file'[p] = file[p]
    BY <1>3, Kinds DEF Enable, IInv, TypeOK
  <2>3. QED
    BY <1>1, <2>1, <2>2, NotWriting DEF Ours, Recorded
<1>4. CASE InstallGuardHook
  <2>1. /\ cmd.at = 0 /\ UNCHANGED <<cmd, file, record, torn>> /\ ~ settled'
    BY <1>4 DEF InstallGuardHook
  <2>2. QED
    BY <1>1, <2>1, NotWriting DEF Ours, Recorded
<1>5. CASE Stop
  BY <1>5, NotWriting DEF Stop, Idle
<1>6. CASE Adopter
  <2>1. Edit
    BY <1>6 DEF Adopter, EditFile, EditPolicy, EditSettings, EditScript, EditHook, EditGuardPolicy,
                MoveToolkit, Clone
  <2>2. cmd.at = 0 /\ cmd' = cmd /\ ~ settled' /\ UNCHANGED <<record, torn>>
    BY <2>1 DEF Edit
  <2>3. Ours' \subseteq Ours
    <3>1. UNCHANGED file => Ours' = Ours
      BY DEF Ours
    <3>2. ASSUME NEW p \in Paths, NEW to \in {"absent", "edited", "theirs"}, EditFile(p, to)
          PROVE  Ours' \subseteq Ours
      BY <3>2, Kinds DEF EditFile, Ours, IInv, TypeOK
    <3>3. ASSUME NEW to, EditPolicy(to)
          PROVE  Ours' \subseteq Ours
      BY <3>3, Kinds DEF EditPolicy, Ours, IInv, TypeOK
    <3>4. CASE Clone
      BY <3>4, Kinds DEF Clone, Ours, IInv, TypeOK
    <3>5. QED
      BY <1>6, <3>1, <3>2, <3>3, <3>4 DEF Adopter, EditSettings, EditScript, EditHook,
                                          EditGuardPolicy,
                                          MoveToolkit, Untouched
  <2>4. QED
    BY <1>1, <2>2, <2>3, NotWriting DEF Recorded
<1>7. QED
  BY <1>2, <1>3, <1>4, <1>5, <1>6 DEF Between

LEMMA IInvInit ==
  ASSUME Init
  PROVE  IInv
<1>1. Len(Steps) = 14 /\ cmd.at = 0 /\ cmd.kept = {} /\ ~ settled
  BY DEF Steps, Init, Idle
<1>2. TypeOK
  <2>1. cmd \in CmdType
    BY FreshCmd DEF Init
  <2>2. file \in FileType /\ (record = NoRecord \/ record \subseteq Paths)
    BY Kinds DEF Init, FileType
  <2>3. budget \in [edits : 0..MaxEdits, syncs : 0..MaxSyncs, stops : 0..MaxStops]
    BY BoundsAssumption DEF Init
  <2>4. settings \subseteq {"ours", "older", "theirs"} /\ enabled \subseteq Workflows
    BY DEF Init
  <2>5. QED
    BY <2>1, <2>2, <2>3, <2>4 DEF Init, TypeOK, FileType, CmdType
<1>3. Ours \subseteq Recorded
  <2>1. CASE record = NoRecord
    <3>1. file = [p \in Paths |-> "absent"]
      BY <2>1, Kinds DEF Init, NoRecord
    <3>2. QED
      BY <3>1, Kinds DEF Ours
  <2>2. CASE record = {Legacy, Crew}
    <3>1. record # NoRecord
      BY <2>2, Kinds DEF NoRecord
    <3>2. QED
      BY <2>2, <3>1, Kinds DEF Init, Ours, Recorded
  <2>3. QED
    BY <2>1, <2>2 DEF Init
<1>4. QED
  BY <1>1, <1>2, <1>3 DEF IInv, Progress, Accounted, Fixpoint

LEMMA SyncStep ==
  ASSUME IInv, Step
  PROVE  Progress' /\ Accounted' /\ Fixpoint' /\ (settled => Quiet)
<1>1. cmd.at # 0
  BY StepNames DEF IInv, Step, AssertToolkit, RetireLegacyPluginLink, MaterializeTemplates,
       MaterializeCrewConfig, MaterializePolicy, LinkCatalog, ReadWorkflowPolicy, InstallWorkflows,
       MergeSettings, MergePackageScript, InstallRefGuard, LinkEntries, RetireUnmanagedPaths,
            WriteRecord
<1>2. CASE Fail
  BY <1>1, <1>2, FailStep
<1>3. CASE AssertToolkit
  BY <1>3, ToolkitStep
<1>4. CASE RetireLegacyPluginLink
  BY <1>4, LegacyStep
<1>5. CASE MaterializeTemplates
  BY <1>5, TemplatesStep
<1>6. CASE MaterializeCrewConfig
  BY <1>6, CrewStep
<1>7. CASE MaterializePolicy
  BY <1>7, PolicyStep
<1>8. CASE LinkCatalog
  BY <1>8, <1>2, CatalogStep DEF LinkCatalog
<1>9. CASE ReadWorkflowPolicy
  BY <1>9, <1>2, ReadPolicyStep DEF ReadWorkflowPolicy
<1>10. CASE InstallWorkflows
  BY <1>10, WorkflowsStep
<1>11. CASE MergeSettings
  BY <1>11, <1>2, SettingsStep DEF MergeSettings
<1>12. CASE MergePackageScript
  BY <1>12, <1>2, ScriptStep DEF MergePackageScript
<1>13. CASE InstallRefGuard
  BY <1>13, <1>2, RefGuardStep DEF InstallRefGuard
<1>14. CASE LinkEntries
  BY <1>14, LinksStep, LinksFail
<1>15. CASE RetireUnmanagedPaths
  BY <1>15, RetireStep
<1>16. CASE WriteRecord
  BY <1>16, RecordStep
<1>17. QED
  BY <1>3, <1>4, <1>5, <1>6, <1>7, <1>8, <1>9, <1>10, <1>11, <1>12, <1>13, <1>14, <1>15,
     <1>16 DEF Step

LEMMA IInvNext ==
  ASSUME IInv, [Next]_vars
  PROVE  IInv'
<1>1. CASE UNCHANGED vars
  <2>1. TypeOK'
    BY <1>1 DEF vars, IInv, TypeOK
  <2>2. Progress' /\ Accounted'
    BY <1>1 DEF vars, IInv, Progress, Accounted, Stage, Ours, Recorded, Enabled, SelfHostedWorkflow
  <2>3. Fixpoint'
    BY <1>1, StaysSettled DEF vars, IInv, Fixpoint
  <2>4. QED
    BY <2>1, <2>2, <2>3 DEF IInv
<1>2. CASE Step
  <2>1. TypeOK'
    BY <1>2, StepTypes DEF IInv
  <2>2. QED
    BY <1>2, <2>1, SyncStep DEF IInv
<1>3. CASE Between
  BY <1>3, BetweenTypes, BetweenStep DEF IInv
<1>4. QED
  BY <1>1, <1>2, <1>3 DEF Next, Between

LEMMA Invariance ==
  Spec => []IInv
<1>1. Init => IInv
  BY IInvInit
<1>2. IInv /\ [Next]_vars => IInv'
  BY IInvNext
<1>3. QED
  BY <1>1, <1>2, PTL DEF Spec

(* Whatever the adopter edits between the commands and wherever they stop, *)
(* the files, the record, the hooks and the command in progress stay well  *)
(* formed, and the record names managed paths only.                        *)
THEOREM TypeCorrect ==
  Spec => []TypeOK
<1>1. IInv => TypeOK
  BY DEF IInv
<1>2. QED
  BY <1>1, Invariance, PTL

(* Unless some sync ended between its writes, what a finished one leaves   *)
(* is what check asks for: no link to a dropped skill, no disabled         *)
(* workflow, no legacy link and no error a sync could repair is left,      *)
(* whatever was there before (init, check, retireUnmanagedPaths).          *)
THEOREM FinishedSyncIsClean ==
  Spec => []CompletedSyncIsClean
<1>1. IInv => CompletedSyncIsClean
  <2> SUFFICES ASSUME IInv, settled, ~ torn
               PROVE  /\ Errors \subseteq {"agent-policy", "guard-hook", "terminal", "uninstalled"}
                      /\ \A w \in Enabled \ Recorded : file[w] = "theirs"
                      /\ {p \in Links \cup Workflows : file[p] = "ours"} \subseteq payload \cup {Catalog} \cup Enabled
    BY DEF CompletedSyncIsClean
  <2>1. payload \subseteq Skills /\ Enabled \subseteq Workflows
    BY PathsAssumption DEF IInv, TypeOK, Enabled
  <2>2. record # NoRecord /\ Recorded = record /\ record \subseteq Paths
    BY Kinds DEF IInv, TypeOK, Fixpoint, Recorded, NoRecord
  <2>3. Ours \subseteq record
    BY <2>2 DEF IInv, Accounted, Fixpoint, Progress, Stage
  <2>4. /\ payload \cup {Catalog} \subseteq record /\ \A p \in payload \cup {Catalog} : file[p] = "ours"
        /\ \A p \in Templates \cup {Policy, Crew} \cup Enabled : file[p] # "absent"
        /\ payload # {} /\ enabled # Malformed /\ ~ SelfHostedWorkflow
        /\ settings # Malformed /\ "ours" \in settings /\ script = "ours"
    BY DEF IInv, Fixpoint
  <2>5. record \subseteq Templates \cup {Crew, Policy, Catalog} \cup Enabled \cup payload
    BY DEF IInv, Fixpoint, Stage
  <2>6. ~ ManagedPathBroken
    <3>1. \A p \in record : file[p] # "absent"
      BY <2>4, <2>5
    <3>2. \A p \in record \cap Links : p \in payload \cup {Catalog}
      BY <2>1, <2>5, Kinds
    <3>3. QED
      BY <2>2, <2>4, <3>1, <3>2 DEF ManagedPathBroken
  <2>7. record \cap Workflows \subseteq Enabled
    BY <2>1, <2>5, Kinds
  <2>8. Errors \subseteq {"agent-policy", "guard-hook", "terminal", "uninstalled"}
    BY <2>2, <2>4, <2>6, <2>7 DEF Errors
  <2>9. \A w \in Enabled \ Recorded : file[w] = "theirs"
    BY <2>1, <2>2, <2>3, <2>4, Kinds DEF Ours, IInv, TypeOK
  <2>10. {p \in Links \cup Workflows : file[p] = "ours"} \subseteq payload \cup {Catalog} \cup Enabled
    BY <2>1, <2>3, <2>5, Kinds DEF Ours
  <2>11. QED
    BY <2>8, <2>9, <2>10
<1>2. QED
  BY <1>1, Invariance, PTL

(* A sync of a repository untouched since the last one finished changes    *)
(* nothing at any of its steps, whatever the earlier ones did (init).      *)
THEOREM SyncIsIdempotent ==
  Spec => SecondSyncChangesNothing
<1> DEFINE Same == settled /\ cmd.at # 0 => UNCHANGED <<file, record, enabled, settings, script,
     hooks, ignored>>
<1>1. ASSUME IInv, Next
      PROVE  Same
  <2> SUFFICES ASSUME settled, cmd.at # 0
               PROVE  UNCHANGED <<file, record, enabled, settings, script, hooks, ignored>>
    OBVIOUS
  <2>1. CASE Step
    BY <1>1, <2>1, SyncStep DEF Quiet
  <2>2. CASE Stop
    BY <2>2 DEF Stop
  <2>3. QED
    BY <1>1, <2>1, <2>2 DEF Next, Sync, Enable, InstallGuardHook, Begin, Adopter, EditFile,
                            EditPolicy,
       EditSettings, EditScript, EditHook, EditGuardPolicy, MoveToolkit, Clone, Edit
<1>2. UNCHANGED vars => Same
  BY DEF vars
<1>3. IInv /\ [Next]_vars => [Same]_vars
  BY <1>1, <1>2
<1>4. QED
  BY <1>3, Invariance, PTL DEF Spec, SecondSyncChangesNothing

(* No command takes a file the adopter wrote or changed, but for a         *)
(* recorded link when it is forced and a recorded workflow that was turned *)
(* off (linkEntries, materializeTemplate, the removal of workflows).       *)
THEOREM AdopterIsSafe ==
  Spec => AdopterFilesSurvive
<1> DEFINE Spared ==
      cmd.at # 0 =>
        \A p \in Paths : file[p] \in {"theirs", "edited"} /\ file'[p] # file[p] =>
          /\ p \in cmd.prior
          /\ (p \in Links /\ cmd.force) \/ p \in Workflows \ Enabled
<1>1. ASSUME IInv, Next
      PROVE  Spared
  <2> SUFFICES ASSUME cmd.at # 0, NEW p \in Paths, file[p] \in {"theirs", "edited"},
       file'[p] # file[p]
               PROVE  /\ p \in cmd.prior
                      /\ (p \in Links /\ cmd.force) \/ p \in Workflows \ Enabled
    OBVIOUS
  <2>1. file \in FileType /\ payload \subseteq Skills /\ Enabled \subseteq Workflows
    BY <1>1, PathsAssumption DEF IInv, TypeOK, FileType, Enabled
  <2>2. CASE LinkCatalog
    BY <2>1, <2>2, Kinds DEF LinkCatalog, Refused, Fail, FileType
  <2>3. CASE LinkEntries
    BY <2>1, <2>3, Kinds DEF LinkEntries, Refused, FileType
  <2>4. CASE InstallWorkflows
    BY <2>1, <2>4, Kinds DEF InstallWorkflows, Materialized, FileType
  <2>5. CASE RetireUnmanagedPaths \/ RetireLegacyPluginLink
    BY <2>1, <2>5 DEF RetireUnmanagedPaths, RetireLegacyPluginLink, FileType
  <2>6. CASE MaterializeTemplates \/ MaterializeCrewConfig \/ MaterializePolicy
    BY <2>1, <2>6 DEF MaterializeTemplates, MaterializeCrewConfig, MaterializePolicy,
                      Materialized, FileType
  <2>7. CASE UNCHANGED file
    BY <2>7
  <2>8. AssertToolkit \/ ReadWorkflowPolicy \/ MergeSettings \/ MergePackageScript \/ InstallRefGuard
          \/ WriteRecord \/ Stop => UNCHANGED file
    BY DEF AssertToolkit, ReadWorkflowPolicy, MergeSettings, MergePackageScript, InstallRefGuard,
           WriteRecord, Stop, Fail
  <2>9. QED
    BY <1>1, <2>2, <2>3, <2>4, <2>5, <2>6, <2>7, <2>8 DEF Next, Step, Sync, Enable,
         InstallGuardHook, Begin,
       Adopter, EditFile, EditPolicy, EditSettings, EditScript, EditHook, EditGuardPolicy,
            MoveToolkit,
       Clone, Edit
<1>2. UNCHANGED vars => Spared
  BY DEF vars
<1>3. IInv /\ [Next]_vars => [Spared]_vars
  BY <1>1, <1>2
<1>4. QED
  BY <1>3, Invariance, PTL DEF Spec, AdopterFilesSurvive

-----------------------------------------------------------------------------
(* The scorecard.  A row tells of the run it is of; a card is what was       *)
(* computed from rows of one stage.                                          *)
RunOK(run) == run.spent \in 1..2 /\ run.transcript \in Transcripts(run.spent, run.model)

SpendTold(run) == IF run.transcript = <<>> THEN Missing ELSE ReconstructSpend(run.transcript)

RowTold(row) == RunOK(row.of) /\ row.spend = SpendTold(row.of)

RowsTold(sheet) ==
  /\ IsFiniteSet(DOMAIN sheet)
  /\ \A k \in DOMAIN sheet : RowTold(sheet[k])
  /\ \A j, k \in DOMAIN sheet : sheet[j].of.stage = sheet[k].of.stage

EvalInv ==
  /\ capture \in Seq(ToSet(capture)) /\ \A k \in DOMAIN capture : RunOK(capture[k])
  /\ RowsTold(rows)
  /\ card # NoCard => rows # <<>> /\ card.cells = BuildScorecard(rows, card.baseline)

(* Sums of numbers, counted as pairs.                                        *)
LEMMA UnitsAreFinite ==
  ASSUME NEW S, IsFiniteSet(S), NEW f, \A i \in S : f[i] \in Nat
  PROVE  IsFiniteSet(Units(f, S)) /\ SumOver(f, S) \in Nat
<1> DEFINE Part(i) == {i} \X (1..f[i])
           Parts   == {Part(i) : i \in S}
           p       == [i \in S |-> Part(i)]
<1>1. \A i \in S : IsFiniteSet(Part(i))
  <2> TAKE i \in S
  <2>1. IsFiniteSet({i})
    BY FS_Singleton
  <2>2. IsFiniteSet(1..f[i])
    <3>1. f[i] \in Nat
      OBVIOUS
    <3>. QED BY <3>1, FS_Interval
  <2>. QED BY <2>1, <2>2, FS_Product
<1>2. IsFiniteSet(Parts)
  <2> HIDE DEF Part
  <2>1. p \in Surjection(S, Parts)
    BY DEF Surjection
  <2>. QED BY <2>1, FS_Surjection
<1>3. Units(f, S) = UNION Parts
  BY DEF Units
<1>4. \A T \in Parts : IsFiniteSet(T)
  BY <1>1
<1> HIDE DEF Parts
<1>5. IsFiniteSet(Units(f, S))
  BY <1>2, <1>3, <1>4, FS_UNION
<1>. QED BY <1>5, FS_CardinalityType DEF SumOver

LEMMA SumOfOne ==
  ASSUME NEW i, NEW f, f[i] \in Nat
  PROVE  SumOver(f, {i}) = f[i]
<1>1. Units(f, {i}) = {i} \X (1..f[i])
  BY DEF Units
<1>2. IsFiniteSet({i}) /\ Cardinality({i}) = 1
  BY FS_Singleton
<1>3. IsFiniteSet(1..f[i]) /\ Cardinality(1..f[i]) = f[i]
  BY FS_Interval
<1>4. Cardinality({i} \X (1..f[i])) = Cardinality({i}) * Cardinality(1..f[i])
  <2> DEFINE A == {i}
             B == 1..f[i]
  <2>1. IsFiniteSet(A) /\ IsFiniteSet(B)
    BY <1>2, <1>3
  <2> HIDE DEF A, B
  <2>2. Cardinality(A \X B) = Cardinality(A) * Cardinality(B)
    BY <2>1, FS_Product
  <2>. QED BY <2>2 DEF A, B
<1>5. SumOver(f, {i}) = Cardinality({i} \X (1..f[i]))
  BY <1>1 DEF SumOver
<1>6. SumOver(f, {i}) = 1 * f[i]
  BY <1>2, <1>3, <1>4, <1>5
<1>. QED BY <1>6

LEMMA SumIsMonotone ==
  ASSUME NEW T, IsFiniteSet(T), NEW S \in SUBSET T, NEW f, NEW g,
         \A i \in T : g[i] \in Nat, \A i \in S : f[i] \in Nat /\ f[i] <= g[i]
  PROVE  SumOver(f, S) <= SumOver(g, T)
<1>1. \A i \in S : {i} \X (1..f[i]) \subseteq {i} \X (1..g[i])
  OBVIOUS
<1>2. Units(f, S) \in SUBSET Units(g, T)
  BY <1>1 DEF Units
<1>3. IsFiniteSet(Units(g, T))
  BY UnitsAreFinite
<1>. QED BY <1>2, <1>3, FS_Subset DEF SumOver

(* What is cut into parts has as many elements as the parts together.        *)
LEMMA PartsAddUp ==
  ASSUME NEW D, IsFiniteSet(D), NEW C, NEW part \in [C -> SUBSET D],
         \A d \in D : \E c \in C : d \in part[c],
         \A c, e \in C, d \in D : d \in part[c] /\ d \in part[e] => c = e,
         NEW f, \A c \in C : f[c] = Cardinality(part[c])
  PROVE  SumOver(f, C) = Cardinality(D)
<1> DEFINE g == [c \in C |-> CHOOSE b : b \in Bijection(1..f[c], part[c])]
           h == [u \in Units(f, C) |-> g[u[1]][u[2]]]
<1>1. \A c \in C : f[c] \in Nat /\ g[c] \in Bijection(1..f[c], part[c])
  <2> TAKE c \in C
  <2>1. IsFiniteSet(part[c])
    BY FS_Subset
  <2>2. f[c] \in Nat /\ ExistsBijection(1..f[c], part[c])
    BY <2>1, FS_CardinalityType
  <2>3. \E b : b \in Bijection(1..f[c], part[c])
    BY <2>2 DEF ExistsBijection
  <2>. QED BY <2>2, <2>3
<1>2. \A u : u \in Units(f, C) <=> \E c \in C : \E k \in 1..f[c] : u = <<c, k>>
  BY DEF Units
<1> HIDE DEF g
<1>3. \A c \in C : \A k \in 1..f[c] : <<c, k>> \in Units(f, C) /\ h[<<c, k>>] = g[c][k] /\ g[c][k] \in part[c]
  <2> TAKE c \in C
  <2> TAKE k \in 1..f[c]
  <2>1. <<c, k>> \in Units(f, C)
    BY <1>2
  <2>2. g[c][k] \in part[c]
    BY <1>1 DEF Bijection, Injection, Surjection
  <2>. QED BY <2>1, <2>2
<1>4. h \in [Units(f, C) -> D]
  <2>1. \A u \in Units(f, C) : h[u] \in D
    <3> TAKE u \in Units(f, C)
    <3>1. PICK c \in C : \E k \in 1..f[c] : u = <<c, k>>
      BY <1>2
    <3>2. PICK k \in 1..f[c] : u = <<c, k>>
      BY <3>1
    <3>3. h[u] \in part[c]
      BY <1>3, <3>2
    <3>. QED BY <3>3
  <2>. QED BY <2>1
<1> HIDE DEF h
<1>5. \A d \in D : \E u \in Units(f, C) : h[u] = d
  <2> TAKE d \in D
  <2>1. PICK c \in C : d \in part[c]
    OBVIOUS
  <2>2. PICK k \in 1..f[c] : g[c][k] = d
    BY <1>1, <2>1 DEF Bijection, Surjection
  <2>3. <<c, k>> \in Units(f, C) /\ h[<<c, k>>] = d
    BY <1>3, <2>2
  <2>. QED BY <2>3
<1>6. ASSUME NEW u \in Units(f, C), NEW v \in Units(f, C), h[u] = h[v] PROVE u = v
  <2>1. PICK c \in C : \E k \in 1..f[c] : u = <<c, k>>
    BY <1>2
  <2>2. PICK k \in 1..f[c] : u = <<c, k>>
    BY <2>1
  <2>6. PICK e \in C : \E m \in 1..f[e] : v = <<e, m>>
    BY <1>2
  <2>7. PICK m \in 1..f[e] : v = <<e, m>>
    BY <2>6
  <2>3. g[c][k] = g[e][m] /\ g[c][k] \in part[c] /\ g[e][m] \in part[e]
    BY <1>3, <1>6, <2>2, <2>7
  <2>4. c = e
    BY <2>3
  <2>5. k = m
    BY <1>1, <2>3, <2>4 DEF Bijection, Injection, IsInjective
  <2>. QED BY <2>2, <2>7, <2>4, <2>5
<1>7. h \in Injection(Units(f, C), D)
  BY <1>4, <1>6 DEF Injection, IsInjective
<1>8. h \in Surjection(Units(f, C), D)
  BY <1>4, <1>5 DEF Surjection
<1>. QED BY <1>7, <1>8, FS_Injection DEF SumOver

(* The meter: what a transcript tells is at most what was spent, and of the  *)
(* model that spent it or of none.                                           *)
LEMMA MeterIsTrue ==
  ASSUME NEW run, RunOK(run)
  PROVE  LET spend == SpendTold(run) IN
         /\ spend.tag = "Reconstructed" => spend.billed \in Nat /\ spend.billed <= run.spent
         /\ spend.model # "null" => spend.model = run.model
         /\ spend.tag # "Reconstructed" => spend.model = "null"
<1> DEFINE transcript == run.transcript
           Billed == {i \in DOMAIN transcript : transcript[i].role = "assistant" /\ transcript[i].usage > 0}
           Named  == {i \in Billed : transcript[i].model # "null"}
           usage  == [i \in Billed |-> transcript[i].usage]
           spend  == ReconstructSpend(transcript)
<1>1. CASE transcript = <<>>
  BY <1>1 DEF SpendTold, Missing
<1>2. ASSUME transcript # <<>>,
             \E i \in DOMAIN transcript :
               /\ i \in Nat /\ Billed = {i} /\ transcript[i].usage \in Nat /\ transcript[i].usage <= run.spent
               /\ transcript[i].model \in {"null", run.model}
      PROVE  /\ spend.tag = "Reconstructed" /\ spend.billed \in Nat /\ spend.billed <= run.spent
             /\ spend.model # "null" => spend.model = run.model
             /\ SpendTold(run) = spend
  <2>1. PICK i \in DOMAIN transcript :
          /\ i \in Nat /\ Billed = {i} /\ transcript[i].usage \in Nat /\ transcript[i].usage <= run.spent
          /\ transcript[i].model \in {"null", run.model}
    BY <1>2
  <2>2. /\ spend.tag = "Reconstructed" /\ spend.billed = SumOver(usage, Billed)
        /\ spend.model = IF Named = {} THEN "null" ELSE transcript[CHOOSE j \in Named : \A k \in Named : k <= j].model
    BY DEF ReconstructSpend
  <2>3. usage[i] = transcript[i].usage
    BY <2>1
  <2>4. Named \subseteq {i}
    BY <2>1
  <2>5. i \in Nat
    BY <2>1
  <2> HIDE DEF Billed, Named, usage, spend
  <2>6. spend.billed = transcript[i].usage
    BY <2>1, <2>2, <2>3, SumOfOne
  <2>7. Named # {} => (CHOOSE j \in Named : \A k \in Named : k <= j) = i
    BY <2>4, <2>5
  <2>8. spend.model # "null" => spend.model = run.model
    BY <2>1, <2>2, <2>7
  <2>. QED BY <1>2, <2>1, <2>2, <2>6, <2>8 DEF SpendTold, spend
<1>3. CASE transcript # <<>>
  <2>1. run.spent \in 1..2 /\ transcript \in Transcripts(run.spent, run.model)
    BY DEF RunOK
  <2>2. CASE transcript = <<Line("user", 0, "null"), Line("assistant", run.spent, run.model)>>
    <3>1. transcript # <<>> /\ Billed = {2}
      BY <2>1, <2>2 DEF Line
    <3>2. transcript[2].usage = run.spent /\ transcript[2].model = run.model /\ 2 \in DOMAIN transcript
      BY <2>2 DEF Line
    <3>. QED BY <1>2, <2>1, <3>1, <3>2
  <2>3. CASE transcript = <<Line("assistant", run.spent, "null")>>
    <3>1. transcript # <<>> /\ Billed = {1}
      BY <2>1, <2>3 DEF Line
    <3>2. transcript[1].usage = run.spent /\ transcript[1].model = "null" /\ 1 \in DOMAIN transcript
      BY <2>3 DEF Line
    <3>. QED BY <1>2, <2>1, <3>1, <3>2
  <2>4. CASE run.spent = 2 /\ transcript = <<Line("assistant", run.spent - 1, run.model), Line("torn", 0, "null")>>
    <3>1. transcript # <<>> /\ Billed = {1}
      BY <2>4 DEF Line
    <3>2. transcript[1].usage = 1 /\ transcript[1].model = run.model /\ 1 \in DOMAIN transcript
      BY <2>4 DEF Line
    <3>. QED BY <1>2, <2>4, <3>1, <3>2
  <2>. QED BY <1>3, <2>1, <2>2, <2>3, <2>4 DEF Transcripts
<1>. QED BY <1>1, <1>3

LEMMA EvalInit_Inv == EvalInit => EvalInv
<1>1. SUFFICES ASSUME EvalInit PROVE EvalInv
  OBVIOUS
<1>2. capture = <<>> /\ rows = <<>> /\ card = NoCard
  BY <1>1 DEF EvalInit
<1>3. DOMAIN rows = {} /\ IsFiniteSet({})
  BY <1>2, FS_EmptySet
<1>4. capture \in Seq(ToSet(capture)) /\ DOMAIN capture = {}
  BY <1>2
<1>. QED BY <1>2, <1>3, <1>4 DEF EvalInv, RowsTold

LEMMA RunAgent_Inv ==
  ASSUME EvalInv, NEW stage, NEW model, RunAgent(stage, model)
  PROVE  EvalInv'
<1>1. PICK answer \in Answers[stage], turns \in 1..2 : \E transcript \in Transcripts(turns, model) :
        capture' = Append(capture, [stage |-> stage, inputRef |-> answer.inputRef, model |-> model,
                                    spent |-> turns, transcript |-> transcript, artifact |-> answer.artifact])
  BY DEF RunAgent
<1>2. PICK transcript \in Transcripts(turns, model) :
        capture' = Append(capture, [stage |-> stage, inputRef |-> answer.inputRef, model |-> model,
                                    spent |-> turns, transcript |-> transcript, artifact |-> answer.artifact])
  BY <1>1
<1> DEFINE run == [stage |-> stage, inputRef |-> answer.inputRef, model |-> model,
                   spent |-> turns, transcript |-> transcript, artifact |-> answer.artifact]
           All == ToSet(capture) \cup {run}
<1>3. RunOK(run)
  BY DEF RunOK
<1>4. capture' = Append(capture, run)
  BY <1>2
<1> HIDE DEF run
<1>5. capture \in Seq(All) /\ run \in All
  BY DEF EvalInv
<1>6. /\ capture' \in Seq(All)
      /\ DOMAIN capture' = 1 .. Len(capture) + 1 /\ DOMAIN capture = 1 .. Len(capture)
      /\ \A k \in DOMAIN capture' : capture'[k] = IF k = Len(capture) + 1 THEN run ELSE capture[k]
  BY <1>4, <1>5
<1>7. \A k \in DOMAIN capture' : RunOK(capture'[k])
  <2> TAKE k \in DOMAIN capture'
  <2>1. k = Len(capture) + 1 \/ k \in DOMAIN capture
    BY <1>5, <1>6
  <2>. QED BY <1>3, <1>6, <2>1 DEF EvalInv
<1>8. capture' \in Seq(ToSet(capture'))
  BY <1>5, <1>6 DEF ToSet
<1>9. UNCHANGED <<rows, card>>
  BY DEF RunAgent
<1>. QED BY <1>7, <1>8, <1>9 DEF EvalInv

LEMMA Collect_Inv ==
  ASSUME EvalInv, NEW stage, Collect(stage)
  PROVE  EvalInv'
<1>1. /\ rows = <<>> /\ rows' = CollectFromCapture(stage)
      /\ UNCHANGED <<capture, card>>
  BY DEF Collect
<1>2. card = NoCard
  BY <1>1 DEF EvalInv
<1>3. /\ DOMAIN rows' \in SUBSET DOMAIN capture
      /\ \A k \in DOMAIN rows' :
           rows'[k].of = capture[k] /\ capture[k].stage = stage /\ rows'[k].spend = SpendTold(capture[k])
  BY <1>1 DEF CollectFromCapture, CollectRun, SpendTold
<1>4. IsFiniteSet(DOMAIN capture)
  <2>1. DOMAIN capture = 1 .. Len(capture) /\ Len(capture) \in Nat
    BY DEF EvalInv
  <2>. QED BY <2>1, FS_Interval
<1>5. IsFiniteSet(DOMAIN rows')
  BY <1>3, <1>4, FS_Subset
<1>6. \A k \in DOMAIN rows' : RowTold(rows'[k])
  <2> TAKE k \in DOMAIN rows'
  <2>1. RunOK(capture[k])
    BY <1>3 DEF EvalInv
  <2>. QED BY <1>3, <2>1 DEF RowTold
<1>7. RowsTold(rows')
  BY <1>3, <1>5, <1>6 DEF RowsTold
<1>. QED BY <1>1, <1>2, <1>7 DEF EvalInv, RowsTold, RowTold

LEMMA Report_Inv ==
  ASSUME EvalInv, Report
  PROVE  EvalInv'
<1>1. rows # <<>> /\ UNCHANGED <<capture, rows>>
  BY DEF Report
<1>2. PICK baseline : card' = [baseline |-> baseline, cells |-> BuildScorecard(rows, baseline)]
  BY DEF Report
<1>3. card'.cells = BuildScorecard(rows', card'.baseline)
  BY <1>1, <1>2
<1>. QED BY <1>1, <1>3 DEF EvalInv

LEMMA EvalNext_Inv == EvalInv /\ [EvalNext]_evalVars => EvalInv'
<1>1. SUFFICES ASSUME EvalInv, [EvalNext]_evalVars PROVE EvalInv'
  OBVIOUS
<1>2. ASSUME NEW stage, Collect(stage) PROVE EvalInv'
  BY <1>1, <1>2, Collect_Inv
<1>3. ASSUME NEW stage, NEW model, RunAgent(stage, model) PROVE EvalInv'
  BY <1>1, <1>3, RunAgent_Inv
<1>4. CASE Report
  BY <1>1, <1>4, Report_Inv
<1>5. CASE UNCHANGED evalVars
  BY <1>1, <1>5 DEF EvalInv, evalVars, RowsTold
<1>. QED BY <1>1, <1>2, <1>3, <1>4, <1>5 DEF EvalNext

(* What the buckets of a file of rows hold.                                  *)
MineOf(sheet, key) == {i \in DOMAIN sheet : KeyOf(sheet[i]) = key}
ReadOf(sheet, key) == {i \in MineOf(sheet, key) : sheet[i].spend.tag = "Reconstructed"}
KeyIn(b) == <<b.stage, b.model>>

LEMMA BucketsTell ==
  ASSUME NEW sheet, RowsTold(sheet), NEW b \in Bucketize(sheet)
  PROVE  /\ b = BucketOf(sheet, KeyIn(b))
         /\ \E i \in DOMAIN sheet : KeyOf(sheet[i]) = KeyIn(b)
         /\ b.graded = Cardinality(MineOf(sheet, KeyIn(b)))
         /\ b.reconstructed = Cardinality(ReadOf(sheet, KeyIn(b)))
         /\ b.billed = SumOver([i \in ReadOf(sheet, KeyIn(b)) |-> sheet[i].spend.billed], ReadOf(sheet, KeyIn(b)))
         /\ b.passed = Cardinality({i \in MineOf(sheet, KeyIn(b)) : sheet[i].passed})
<1>1. PICK i \in DOMAIN sheet : b = BucketOf(sheet, KeyOf(sheet[i]))
  BY DEF Bucketize
<1> DEFINE key == KeyOf(sheet[i])
<1>2. key = <<sheet[i].of.stage, sheet[i].spend.model>>
  BY DEF KeyOf
<1>3. b = [stage |-> key[1], model |-> key[2],
           graded |-> Cardinality(MineOf(sheet, key)),
           passed |-> Cardinality({j \in MineOf(sheet, key) : sheet[j].passed}),
           billed |-> SumOver([j \in ReadOf(sheet, key) |-> sheet[j].spend.billed], ReadOf(sheet, key)),
           reconstructed |-> Cardinality(ReadOf(sheet, key))]
  BY <1>1 DEF BucketOf, MineOf, ReadOf
<1>4. KeyIn(b) = key
  BY <1>2, <1>3 DEF KeyIn
<1> HIDE DEF key
<1>5. b = BucketOf(sheet, KeyIn(b)) /\ KeyOf(sheet[i]) = KeyIn(b)
  BY <1>1, <1>4 DEF key
<1>. QED BY <1>3, <1>4, <1>5

LEMMA BucketsCount ==
  ASSUME NEW sheet, RowsTold(sheet), NEW b \in Bucketize(sheet)
  PROVE  /\ b.graded \in Nat /\ b.passed \in Nat /\ b.passed <= b.graded
         /\ b.reconstructed \in Nat /\ b.billed \in Nat
         /\ IsFiniteSet(MineOf(sheet, KeyIn(b)))
         /\ b.model # "null" => b.reconstructed = b.graded
<1> DEFINE mine == MineOf(sheet, KeyIn(b))
           read == ReadOf(sheet, KeyIn(b))
           good == {i \in mine : sheet[i].passed}
           told == [i \in read |-> sheet[i].spend.billed]
<1>1. /\ b.graded = Cardinality(mine) /\ b.reconstructed = Cardinality(read)
      /\ b.billed = SumOver(told, read) /\ b.passed = Cardinality(good)
  BY BucketsTell
<1>2. /\ mine \in SUBSET DOMAIN sheet /\ read \in SUBSET mine /\ good \in SUBSET mine
      /\ IsFiniteSet(DOMAIN sheet)
  BY DEF MineOf, ReadOf, RowsTold
<1>3. \A i \in read : told[i] \in Nat
  <2> TAKE i \in read
  <2>1. RunOK(sheet[i].of) /\ sheet[i].spend = SpendTold(sheet[i].of) /\ sheet[i].spend.tag = "Reconstructed"
    BY <1>2 DEF ReadOf, RowsTold, RowTold
  <2>2. sheet[i].spend.billed \in Nat
    BY <2>1, MeterIsTrue
  <2>. QED BY <2>2
<1>4. b.model # "null" => read = mine
  <2> SUFFICES ASSUME b.model # "null", NEW i \in mine PROVE i \in read
    BY <1>2
  <2>1. RunOK(sheet[i].of) /\ sheet[i].spend = SpendTold(sheet[i].of) /\ sheet[i].spend.model = b.model
    BY <1>2 DEF MineOf, RowsTold, RowTold, KeyOf, KeyIn
  <2>2. sheet[i].spend.tag = "Reconstructed"
    BY <2>1, MeterIsTrue
  <2>. QED BY <2>2 DEF ReadOf
<1> HIDE DEF mine, read, good, told
<1>5. IsFiniteSet(mine) /\ IsFiniteSet(read) /\ IsFiniteSet(good)
  <2>1. IsFiniteSet(mine)
    BY <1>2, FS_Subset
  <2>. QED BY <1>2, <2>1, FS_Subset
<1>6. Cardinality(mine) \in Nat /\ Cardinality(read) \in Nat /\ Cardinality(good) \in Nat
  BY <1>5, FS_CardinalityType
<1>7. Cardinality(good) <= Cardinality(mine)
  BY <1>2, <1>5, FS_Subset
<1>8. SumOver(told, read) \in Nat
  BY <1>3, <1>5, UnitsAreFinite
<1>9. b.model # "null" => b.reconstructed = b.graded
  BY <1>1, <1>4
<1>. QED BY <1>1, <1>5, <1>6, <1>7, <1>8, <1>9 DEF mine

(* One row, one bucket; one bucket, one cell.                                *)
LEMMA CellsAddUp ==
  ASSUME NEW sheet, RowsTold(sheet), NEW baseline,
         NEW cells, cells = BuildScorecard(sheet, baseline)
  PROVE  SumOver([c \in cells |-> c.bucket.graded], cells) = Cardinality(DOMAIN sheet)
<1> DEFINE base   == {b \in Bucketize(sheet) : <<b.stage, b.model>> = baseline /\ b.reconstructed > 0}
           part   == [c \in cells |-> MineOf(sheet, KeyIn(c.bucket))]
           graded == [c \in cells |-> c.bucket.graded]
<1>1. cells = {CellOf(b, base) : b \in Bucketize(sheet)}
  BY DEF BuildScorecard
<1>2. \A c \in cells : c.bucket \in Bucketize(sheet) /\ c = CellOf(c.bucket, base)
  <2> TAKE c \in cells
  <2>1. PICK b \in Bucketize(sheet) : c = CellOf(b, base)
    BY <1>1
  <2>2. c.bucket = b
    BY <2>1 DEF CellOf
  <2>. QED BY <2>1, <2>2
<1>3. \A i \in DOMAIN sheet : \E c \in cells : i \in part[c]
  <2> TAKE i \in DOMAIN sheet
  <2>1. PICK b \in Bucketize(sheet) : b = BucketOf(sheet, KeyOf(sheet[i]))
    BY DEF Bucketize
  <2>2. KeyIn(b) = KeyOf(sheet[i])
    BY <2>1 DEF BucketOf, KeyIn, KeyOf
  <2>3. i \in MineOf(sheet, KeyIn(b))
    BY <2>2 DEF MineOf
  <2>4. CellOf(b, base) \in cells /\ CellOf(b, base).bucket = b
    BY <1>1 DEF CellOf
  <2> HIDE DEF base
  <2>5. part[CellOf(b, base)] = MineOf(sheet, KeyIn(b))
    BY <2>4
  <2>. QED BY <2>3, <2>4, <2>5
<1>4. \A c, e \in cells, i \in DOMAIN sheet : i \in part[c] /\ i \in part[e] => c = e
  <2> TAKE c, e \in cells, i \in DOMAIN sheet
  <2> HAVE i \in part[c] /\ i \in part[e]
  <2>1. KeyIn(c.bucket) = KeyIn(e.bucket)
    BY DEF MineOf
  <2> HIDE DEF base, part
  <2>2. c.bucket = BucketOf(sheet, KeyIn(c.bucket)) /\ e.bucket = BucketOf(sheet, KeyIn(e.bucket))
    BY <1>2, BucketsTell
  <2>3. c.bucket = e.bucket
    BY <2>1, <2>2
  <2>. QED BY <1>2, <2>3
<1>5. \A c \in cells : graded[c] = Cardinality(part[c])
  <2> TAKE c \in cells
  <2>1. c.bucket.graded = Cardinality(MineOf(sheet, KeyIn(c.bucket)))
    BY <1>2, BucketsTell
  <2>. QED BY <2>1
<1>6. part \in [cells -> SUBSET DOMAIN sheet] /\ IsFiniteSet(DOMAIN sheet)
  BY DEF MineOf, RowsTold
<1> HIDE DEF base, part, graded
<1>7. SumOver(graded, cells) = Cardinality(DOMAIN sheet)
  BY <1>3, <1>4, <1>5, <1>6, PartsAddUp
<1>. QED BY <1>7 DEF graded

(* The prices.  A saving is a finite number when there is a price to compare *)
(* with and somebody's run was accepted; then it is the difference of the    *)
(* baseline's price and this bucket's price of an accepted run.              *)
LEMMA ProductIsPositive ==
  ASSUME NEW a \in Nat, NEW b \in Nat
  PROVE  a * b \in Nat /\ (a * b # 0 <=> a # 0 /\ b # 0)
OBVIOUS

LEMMA SavingOf ==
  ASSUME NEW k, k.billed \in Nat, k.reconstructed \in Nat, k.reconstructed # 0,
         NEW b, b.billed \in Nat, b.reconstructed \in Nat, b.reconstructed # 0,
         b.graded \in Nat, b.passed \in Nat,
         NEW s, s = Minus(SpendOf(k), Amortized(SpendOf(b), b.graded, b.passed))
  PROVE  /\ s[2] # 0 <=> b.passed # 0
         /\ b.passed # 0 =>
              /\ s[1] = k.billed * (b.reconstructed * b.passed) - (b.billed * b.graded) * k.reconstructed
              /\ s[2] = k.reconstructed * (b.reconstructed * b.passed)
<1>1. SpendOf(k) = <<k.billed, k.reconstructed>> /\ SpendOf(b) = <<b.billed, b.reconstructed>>
  BY DEF SpendOf
<1>2. CASE b.passed = 0
  <2>1. Amortized(SpendOf(b), b.graded, b.passed) = <<1, 0>>
    BY <1>2 DEF Amortized
  <2>2. s = <<-1, 0>>
    BY <2>1 DEF Minus
  <2>. QED BY <1>2, <2>2
<1>3. CASE b.passed # 0
  <2>1. Amortized(SpendOf(b), b.graded, b.passed)
          = <<b.billed * (b.passed + (b.graded - b.passed)), b.reconstructed * b.passed>>
    BY <1>1, <1>3 DEF Amortized
  <2>2. b.passed + (b.graded - b.passed) = b.graded
    OBVIOUS
  <2>3. Amortized(SpendOf(b), b.graded, b.passed) = <<b.billed * b.graded, b.reconstructed * b.passed>>
    BY <2>1, <2>2
  <2>4. b.reconstructed * b.passed \in Nat /\ b.reconstructed * b.passed # 0
    BY <1>3, ProductIsPositive
  <2>5. s = <<k.billed * (b.reconstructed * b.passed) - (b.billed * b.graded) * k.reconstructed,
              k.reconstructed * (b.reconstructed * b.passed)>>
    BY <1>1, <2>3, <2>4 DEF Minus
  <2>6. k.reconstructed * (b.reconstructed * b.passed) # 0
    BY <2>4, ProductIsPositive
  <2>. QED BY <1>3, <2>5, <2>6
<1>. QED BY <1>2, <1>3

LEMMA SameFraction ==
  ASSUME NEW kb \in Int, NEW kr \in Int, NEW bb \in Int, NEW g \in Int, NEW p \in Int
  PROVE  kr * (kb * (g * p) - (bb * g) * kr) * p = (kb * p - bb * kr) * (kr * (g * p))
<1>1. kb * (g * p) - (bb * g) * kr = g * (kb * p - bb * kr)
  OBVIOUS
<1>2. kb * p - bb * kr \in Int
  OBVIOUS
<1>3. \A x \in Int : kr * (g * x) * p = x * (kr * (g * p))
  OBVIOUS
<1>. QED BY <1>1, <1>2, <1>3

LEMMA CardIsTrue == EvalInv => ScorecardIsTrue
<1>1. SUFFICES ASSUME EvalInv, card # NoCard
               PROVE  /\ SumOver([c \in card.cells |-> c.bucket.graded], card.cells) = Cardinality(DOMAIN rows)
                      /\ \A c \in card.cells :
                           LET b    == c.bucket
                               mine == {i \in DOMAIN rows : rows[i].spend.model = b.model}
                               base == {k.bucket : k \in {k \in card.cells :
                                                          <<k.bucket.stage, k.bucket.model>> = card.baseline}}
                           IN  /\ b.model # "null" =>
                                    /\ \A i \in mine : rows[i].of.model = b.model
                                    /\ b.billed <= SumOver([i \in mine |-> rows[i].of.spent], mine)
                                    /\ \A s \in c.netSaving, k \in base :
                                         k.reconstructed * s[1] * b.passed
                                           = (k.billed * b.passed - b.billed * k.reconstructed) * s[2]
                               /\ c.netSaving = {} <=> base \ {b} = {} \/ b.reconstructed = 0 \/ b.passed = 0
                                                          \/ \E k \in base : k.reconstructed = 0
                               /\ c.netNegative => c.netSaving # {} /\ b.passed > 0
  BY DEF ScorecardIsTrue
<1>2. RowsTold(rows) /\ card.cells = BuildScorecard(rows, card.baseline)
  BY <1>1 DEF EvalInv
<1>3. SumOver([c \in card.cells |-> c.bucket.graded], card.cells) = Cardinality(DOMAIN rows)
  BY <1>2, CellsAddUp
<1> DEFINE Buckets == Bucketize(rows)
           priced  == {b \in Buckets : <<b.stage, b.model>> = card.baseline /\ b.reconstructed > 0}
           base    == {k.bucket : k \in {k \in card.cells : <<k.bucket.stage, k.bucket.model>> = card.baseline}}
<1>4. card.cells = {CellOf(b, priced) : b \in Buckets}
  BY <1>2 DEF BuildScorecard
<1>5. \A c \in card.cells : c.bucket \in Buckets /\ c = CellOf(c.bucket, priced)
  <2> TAKE c \in card.cells
  <2>1. PICK b \in Buckets : c = CellOf(b, priced)
    BY <1>4
  <2>2. c.bucket = b
    BY <2>1 DEF CellOf
  <2>. QED BY <2>1, <2>2
<1>6. base = {b \in Buckets : KeyIn(b) = card.baseline}
  <2>1. \A b \in Buckets : CellOf(b, priced) \in card.cells /\ CellOf(b, priced).bucket = b
    BY <1>4 DEF CellOf
  <2> HIDE DEF priced, Buckets
  <2>. QED BY <1>5, <2>1 DEF KeyIn
<1>7. \A j, k \in base : j = k
  <2> TAKE j, k \in base
  <2>1. KeyIn(j) = card.baseline /\ KeyIn(k) = card.baseline /\ j \in Buckets /\ k \in Buckets
    BY <1>6
  <2>2. j = BucketOf(rows, KeyIn(j)) /\ k = BucketOf(rows, KeyIn(k))
    BY <1>2, <2>1, BucketsTell
  <2>. QED BY <2>1, <2>2
<1>8. priced = {k \in base : k.reconstructed > 0}
  BY <1>6 DEF KeyIn
<1>9. \A b \in Buckets :
        /\ b.graded \in Nat /\ b.passed \in Nat /\ b.passed <= b.graded
        /\ b.reconstructed \in Nat /\ b.billed \in Nat
        /\ b.model # "null" => b.reconstructed = b.graded
  BY <1>2, BucketsCount
<1> HIDE DEF Buckets, priced, base
<1>10. ASSUME NEW c \in card.cells
       PROVE  LET b    == c.bucket
                  mine == {i \in DOMAIN rows : rows[i].spend.model = b.model}
              IN  /\ b.model # "null" =>
                       /\ \A i \in mine : rows[i].of.model = b.model
                       /\ b.billed <= SumOver([i \in mine |-> rows[i].of.spent], mine)
                       /\ \A s \in c.netSaving, k \in base :
                            k.reconstructed * s[1] * b.passed
                              = (k.billed * b.passed - b.billed * k.reconstructed) * s[2]
                  /\ c.netSaving = {} <=> base \ {b} = {} \/ b.reconstructed = 0 \/ b.passed = 0
                                             \/ \E k \in base : k.reconstructed = 0
                  /\ c.netNegative => c.netSaving # {} /\ b.passed > 0
  <2> DEFINE b      == c.bucket
             mine   == {i \in DOMAIN rows : rows[i].spend.model = b.model}
             Price(k) == Minus(SpendOf(k), Amortized(SpendOf(b), b.graded, b.passed))
  <2>1. b \in Buckets /\ c = CellOf(b, priced)
    BY <1>5
  <2>2. /\ b.graded \in Nat /\ b.passed \in Nat /\ b.reconstructed \in Nat /\ b.billed \in Nat
        /\ b.model # "null" => b.reconstructed = b.graded
    BY <1>9, <2>1
  <2>3. /\ \A s : s \in c.netSaving <=>
               b.reconstructed # 0 /\ s[2] # 0 /\ \E k \in priced \ {b} : s = Price(k)
        /\ c.netNegative <=> \E s \in c.netSaving : s[1] < 0
    <3> DEFINE saving == IF b.reconstructed = 0 THEN {} ELSE {Price(k) : k \in priced \ {b}}
    <3>1. c.netSaving = {s \in saving : s[2] # 0} /\ c.netNegative = \E s \in {s \in saving : s[2] # 0} : s[1] < 0
      <4>1. c = [bucket |-> b, netSaving |-> {s \in saving : s[2] # 0},
                 netNegative |-> \E s \in {s \in saving : s[2] # 0} : s[1] < 0]
        BY <2>1 DEF CellOf
      <4> HIDE DEF b, saving
      <4>. QED BY <4>1
    <3> HIDE DEF b, Price
    <3>. QED BY <3>1
  <2>4. \A k \in base : /\ k \in Buckets /\ k.billed \in Nat /\ k.reconstructed \in Nat
    BY <1>6, <1>9
  <2> HIDE DEF b
  <2>5. ASSUME NEW k \in base, k.reconstructed # 0, b.reconstructed # 0
        PROVE  /\ Price(k)[2] # 0 <=> b.passed # 0
               /\ b.passed # 0 =>
                    /\ Price(k)[1] = k.billed * (b.reconstructed * b.passed) - (b.billed * b.graded) * k.reconstructed
                    /\ Price(k)[2] = k.reconstructed * (b.reconstructed * b.passed)
    <3> HIDE DEF Price
    <3>1. Price(k) = Minus(SpendOf(k), Amortized(SpendOf(b), b.graded, b.passed))
      BY DEF Price
    <3>. QED BY <2>2, <2>4, <2>5, <3>1, SavingOf
  <2> HIDE DEF Price
  <2>6. ASSUME NEW s \in c.netSaving
        PROVE  /\ b.reconstructed # 0 /\ b.passed # 0 /\ s[2] # 0
               /\ \E k \in base : k.reconstructed # 0 /\ k # b /\ s = Price(k)
    <3>1. PICK k \in priced \ {b} : s = Price(k)
      BY <2>3, <2>6
    <3>2. k \in base /\ k.reconstructed # 0 /\ k # b
      BY <1>8, <2>4, <3>1
    <3>3. b.reconstructed # 0 /\ s[2] # 0
      BY <2>3, <2>6
    <3>. QED BY <2>5, <3>1, <3>2, <3>3
  <2>7. c.netSaving = {} <=> base \ {b} = {} \/ b.reconstructed = 0 \/ b.passed = 0
                               \/ \E k \in base : k.reconstructed = 0
    <3>1. ASSUME c.netSaving # {}
          PROVE  ~(base \ {b} = {} \/ b.reconstructed = 0 \/ b.passed = 0 \/ \E k \in base : k.reconstructed = 0)
      BY <1>7, <2>6, <3>1
    <3>2. ASSUME ~(base \ {b} = {} \/ b.reconstructed = 0 \/ b.passed = 0 \/ \E k \in base : k.reconstructed = 0)
          PROVE  c.netSaving # {}
      <4>1. PICK k \in base : k # b
        BY <3>2
      <4>2. k.reconstructed # 0 /\ b.reconstructed # 0 /\ b.passed # 0
        BY <3>2
      <4>3. k \in priced \ {b}
        BY <1>8, <2>4, <4>1, <4>2
      <4>4. Price(k) \in c.netSaving
        BY <2>3, <2>5, <4>2, <4>3
      <4>. QED BY <4>4
    <3>. QED BY <3>1, <3>2
  <2>8. c.netNegative => c.netSaving # {} /\ b.passed > 0
    BY <2>2, <2>3, <2>6
  <2>9. ASSUME b.model # "null", NEW s \in c.netSaving, NEW k \in base
        PROVE  k.reconstructed * s[1] * b.passed = (k.billed * b.passed - b.billed * k.reconstructed) * s[2]
    <3>1. /\ s = Price(k) /\ k.reconstructed # 0 /\ b.reconstructed # 0 /\ b.passed # 0
      BY <1>7, <2>6
    <3>2. /\ s[1] = k.billed * (b.graded * b.passed) - (b.billed * b.graded) * k.reconstructed
          /\ s[2] = k.reconstructed * (b.graded * b.passed)
      BY <2>2, <2>5, <2>9, <3>1
    <3>3. k.reconstructed * (k.billed * (b.graded * b.passed) - (b.billed * b.graded) * k.reconstructed) * b.passed
            = (k.billed * b.passed - b.billed * k.reconstructed) * (k.reconstructed * (b.graded * b.passed))
      <4>1. /\ k.billed \in Int /\ k.reconstructed \in Int
            /\ b.billed \in Int /\ b.graded \in Int /\ b.passed \in Int
        BY <2>2, <2>4
      <4> DEFINE Same(kb, kr, bb, g, p) ==
            kr * (kb * (g * p) - (bb * g) * kr) * p = (kb * p - bb * kr) * (kr * (g * p))
      <4>2. \A kb, kr, bb, g, p \in Int : Same(kb, kr, bb, g, p)
        BY SameFraction
      <4> HIDE DEF Same
      <4>3. Same(k.billed, k.reconstructed, b.billed, b.graded, b.passed)
        BY <4>1, <4>2
      <4>. QED BY <4>3 DEF Same
    <3>. QED BY <3>2, <3>3
  <2>10. \A i \in DOMAIN rows : RunOK(rows[i].of) /\ rows[i].spend = SpendTold(rows[i].of)
    BY <1>2 DEF RowsTold, RowTold
  <2>11. ASSUME b.model # "null", NEW i \in mine
         PROVE  rows[i].of.model = b.model
    <3>1. rows[i].spend.model = b.model
      OBVIOUS
    <3>. QED BY <2>10, <2>11, <3>1, MeterIsTrue
  <2>12. b.billed <= SumOver([i \in mine |-> rows[i].of.spent], mine)
    <3> DEFINE read  == ReadOf(rows, KeyIn(b))
               told  == [i \in read |-> rows[i].spend.billed]
               spent == [i \in mine |-> rows[i].of.spent]
    <3>1. b.billed = SumOver(told, read)
      BY <1>2, <2>1, BucketsTell DEF Buckets
    <3>2. read \in SUBSET mine
      BY DEF ReadOf, MineOf, KeyOf, KeyIn
    <3>3. IsFiniteSet(mine)
      <4>1. IsFiniteSet(DOMAIN rows)
        BY <1>2 DEF RowsTold
      <4>. QED BY <4>1, FS_Subset
    <3>4. \A i \in mine : spent[i] \in Nat
      BY <2>10 DEF RunOK
    <3>5. \A i \in read : told[i] \in Nat /\ told[i] <= spent[i]
      <4> TAKE i \in read
      <4>1. RunOK(rows[i].of) /\ rows[i].spend = SpendTold(rows[i].of) /\ rows[i].spend.tag = "Reconstructed"
        BY <2>10, <3>2 DEF ReadOf
      <4>2. rows[i].spend.billed \in Nat /\ rows[i].spend.billed <= rows[i].of.spent
        BY <4>1, MeterIsTrue
      <4>. QED BY <3>2, <4>2
    <3> HIDE DEF read, told, spent, mine
    <3>6. SumOver(told, read) <= SumOver(spent, mine)
      BY <3>2, <3>3, <3>4, <3>5, SumIsMonotone
    <3>. QED BY <3>1, <3>6 DEF spent
  <2>. QED BY <2>7, <2>8, <2>9, <2>11, <2>12 DEF b
<1>. QED BY <1>3, <1>10 DEF base

(* The scorecard prices what was run, on corpora, inputs and models of any   *)
(* number: it is built from rows that tell of their runs.                    *)
THEOREM ScorecardsAreTrue == EvalSpec => []ScorecardIsTrue
BY EvalInit_Inv, EvalNext_Inv, CardIsTrue, PTL DEF EvalSpec
=============================================================================
