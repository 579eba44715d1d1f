----------------------------- MODULE RepoGuards -----------------------------
(***************************************************************************)
(* The repository's lint guards over one main branch and the pull requests  *)
(* against it.  A tree is a set of facts, records told apart by "kind": the *)
(* decision records and the rows of their index, the paths and the backtick *)
(* pointers of CLAUDE.md files, the two filter lists, patches and pins,     *)
(* packages and READMEs, dependency declarations, roadmap rows, and those   *)
(* of TreeGuards.  A pull request adds and removes facts.  Every guard      *)
(* judges the tree GitHub checks out for the pull request, its merge into   *)
(* main as main then is; the merge itself comes later and runs nothing      *)
(* again.                                                                   *)
(*                                                                          *)
(* The milestones the roadmap is held against are GitHub's, and people open *)
(* and close them meanwhile.                                                *)
(***************************************************************************)
EXTENDS TreeGuards, FiniteSetsExt

CONSTANTS
  Prs,            \* pull requests that change something
  Repairs,        \* pull requests that mend the decision records
  Seed,           \* main's tree at first
  Edits,          \* what pull requests do besides deciding: [added, removed]
  ByHand,         \* the numbers authors give a record by hand: [file, id]
  Milestones,     \* milestone -> "open" or "closed", at first
  Ignored,        \* paths git ignores
  CatalogRule,    \* [specifiers, exceptions]
  MaxMoves        \* bound on milestones opened or closed

VARIABLES
  main,        \* main's tree
  pulls,       \* pull request -> [pc, added, removed, base, seen, green]
  milestones,
  landings,    \* how often main moved
  overlapped,  \* a pull request was merged into a main it was not checked against
  moves        \* milestones moved so far

repoVars == <<main, pulls, milestones, landings, overlapped, moves>>

Absent == [pc |-> "absent", added |-> {}, removed |-> {}, base |-> {}, seen |-> 0, green |-> FALSE]

RepoInit ==
  /\ main = Seed
  /\ pulls = [p \in Prs \cup Repairs |-> Absent]
  /\ milestones = Milestones
  /\ landings = 0 /\ overlapped = FALSE /\ moves = 0

(***************************************************************************)
(* decisions-index.  A record's file name and its front matter each name a  *)
(* number.                                                                  *)
(***************************************************************************)
Record(file, id, slug) == [kind |-> "record", file |-> file, id |-> id, slug |-> slug]
Row(a) == [kind |-> "row", id |-> a.id, slug |-> a.slug]

AdrFiles(tree) == Of(tree, "record")
Rows(tree)     == Of(tree, "row")

Mismatched(tree) == {a \in AdrFiles(tree) : a.file # a.id}

SameFile(tree) == {a \in AdrFiles(tree) : \E b \in AdrFiles(tree) : a # b /\ a.slug = b.slug /\ a.id = b.id}

Duplicate(tree) == {a \in AdrFiles(tree) : \E b \in AdrFiles(tree) : a # b /\ a.id = b.id}

Buildable(tree) == Mismatched(tree) = {} /\ Duplicate(tree) = {}

NextAdrNumber(tree) == 1 + Max({0} \cup {a.id : a \in AdrFiles(tree)})

BuildIndex(tree) == {Row(a) : a \in AdrFiles(tree)}

DecisionsValidate(tree) == Buildable(tree)

DecisionsCheck(tree) == Buildable(tree) /\ Rows(tree) = BuildIndex(tree)

(***************************************************************************)
(* pointer-guard: every backticked path of a CLAUDE.md exists or is ignored *)
(* by git, and there is a CLAUDE.md to look at.                             *)
(***************************************************************************)
PathRefs(tree) == Of(tree, "pointer")

Exists(tree, path) == \E f \in Of(tree, "path") : f.path = path

StalePointers(tree) == {f \in PathRefs(tree) : ~Exists(tree, f.path) /\ f.path \notin Ignored}

PointerCheck(tree) == (\E f \in Of(tree, "path") : f.path = "CLAUDE.md") /\ StalePointers(tree) = {}

(***************************************************************************)
(* path-filter-guard and change-detect-guard, over the same `changes` jobs. *)
(***************************************************************************)
Workflow(tree, file) == \E f \in Of(tree, "filters") : f.file = file

FilterList(tree, file) == {f.glob : f \in {g \in Of(tree, "glob") : g.file = file}}

PathFilterCheck(tree) ==
  /\ \A file \in {"ci.yml", "deploy.yml"} : Workflow(tree, file) /\ FilterList(tree, file) # {}
  /\ FilterList(tree, "ci.yml") = FilterList(tree, "deploy.yml")

Tokens(tree) == {f.token : f \in Of(tree, "token")}

\* The step must set `token`, and to the empty string: an absent one defaults to a real token.
ChangeDetectCheck(tree) ==
  Workflow(tree, "ci.yml") /\ Tokens(tree) = {"empty"}

(***************************************************************************)
(* patch-guard: every patched dependency has a test marked with its exact   *)
(* name and version, and no mark names another.                             *)
(***************************************************************************)
PatchedDependencies(tree) == {f.key : f \in Of(tree, "patch")}
PinMarkers(tree)          == {f.key : f \in Of(tree, "pin")}

PatchCheck(tree) == PatchedDependencies(tree) # {} /\ PatchedDependencies(tree) = PinMarkers(tree)

(***************************************************************************)
(* readme-guard: the workspace declares packages/*, and each directory      *)
(* there with a package.json has a README.                                  *)
(***************************************************************************)
WorkspaceGlobs(tree) == {f.globs : f \in Of(tree, "workspace")}
Members(tree)        == {f.dir : f \in Of(tree, "package")}
Described(tree)      == {f.dir : f \in Of(tree, "readme")}

ReadmeCheck(tree) ==
  /\ "packages/*" \in WorkspaceGlobs(tree)
  /\ Members(tree) # {} /\ Members(tree) \subseteq Described(tree)

(***************************************************************************)
(* catalog-guard: off unless the tree's own policy turns it on.             *)
(***************************************************************************)
CatalogPolicy(tree) == {f.says : f \in Of(tree, "catalogPolicy")}
Dependencies(tree)  == Of(tree, "dependency")

Compliant(dep) ==
  dep.specifier \in CatalogRule.specifiers \/ dep.name \in CatalogRule.exceptions

CatalogCheck(tree) ==
  \/ CatalogPolicy(tree) = {"disabled"}
  \/ /\ CatalogPolicy(tree) = {"enabled"}
     /\ Members(tree) # {} /\ \A dep \in Dependencies(tree) : Compliant(dep)

(***************************************************************************)
(* roadmap-guard: the tables of ROADMAP.md against the milestones.  Pin 0   *)
(* is a row without one.                                                    *)
(***************************************************************************)
Arcs(tree)        == Of(tree, "arc")
RoadmapRows(tree) == Arcs(tree) \cup Of(tree, "campaign")

LegalState(row) == row.state \in IF row.kind = "arc" THEN {"active", "queued", "done"} ELSE {"active", "done"}

PinFault(row, live) ==
  IF row.milestone = 0 THEN ~(row.kind = "arc" /\ row.state = "queued")
                       ELSE row.milestone \notin DOMAIN live

StateFault(row, live) ==
  /\ row.milestone \in DOMAIN live
  /\ \/ row.state = "active" /\ live[row.milestone] # "open"
     \/ row.state = "done" /\ live[row.milestone] # "closed"

Unclaimed(tree, live) ==
  {m \in DOMAIN live : live[m] = "open" /\ \A row \in RoadmapRows(tree) : row.milestone # m}

RoadmapCheck(tree, live) ==
  /\ Arcs(tree) # {} /\ DOMAIN live # {}
  /\ \A row \in RoadmapRows(tree) : LegalState(row) /\ ~PinFault(row, live) /\ ~StateFault(row, live)
  /\ Cardinality({row \in Arcs(tree) : row.state = "active"}) = 1
  /\ Unclaimed(tree, live) = {}

(***************************************************************************)
(* Authors, CI and merges.                                                  *)
(***************************************************************************)
Merged(tree, p) == (tree \ pulls[p].removed) \cup pulls[p].added

\* What it takes away is still there, or its edit was made already.  A pull request in
\* conflict is neither checked nor merged.
Applies(p) == pulls[p].removed \subseteq main \/ pulls[p].added \subseteq main

Opens(p, added, removed) ==
  /\ pulls[p].pc = "absent"
  /\ pulls' = [pulls EXCEPT ![p] = [Absent EXCEPT !.pc = "open", !.added = added, !.removed = removed,
                                            !.base = main]]
  /\ UNCHANGED <<main, milestones, landings, overlapped, moves>>

\* `decisions-index next` in the author's checkout names the number of his record.
AddRecord(p) ==
  /\ Buildable(main)
  /\ LET n == NextAdrNumber(main) IN Opens(p, {Record(n, n, p)}, {})

WriteRecord(p) == \E n \in ByHand : Opens(p, {Record(n.file, n.id, p)}, {})

\* `decisions-index generate` there.
Generate(p) ==
  /\ Buildable(main) /\ ~DecisionsCheck(main)
  /\ Opens(p, BuildIndex(main) \ main, Of(main, "row") \ BuildIndex(main))

\* A later number for a record that shares its own.
Renumber(p) ==
  \E a \in Duplicate(main) :
    LET n == NextAdrNumber(main) IN Opens(p, {Record(n, n, a.slug)}, {a})

\* He takes away what his checkout has, and adds what it lacks.
EditTree(p) == \E e \in Edits : e.removed \subseteq main /\ Opens(p, e.added \ main, e.removed)

TreePasses(tree) ==
  /\ DecisionsValidate(tree) /\ PointerCheck(tree)
  /\ PathFilterCheck(tree) /\ ChangeDetectCheck(tree)
  /\ PatchCheck(tree) /\ ReadmeCheck(tree) /\ CatalogCheck(tree)
  /\ FanoutJudge(tree) /\ WorkflowJudge(tree) /\ SettingsJudge(tree)
  /\ AdoptionCheck(tree) /\ TokenCheck(tree)
  /\ LeakScan(tree) /\ SweepCrew(tree)

AllGuards(tree) == TreePasses(tree) /\ RoadmapCheck(tree, milestones)

\* The features a pull request declares are the ones its author asks about.
FeaturesReachable(p) ==
  \A f \in FeatureDefinitions(pulls[p].added) : ReachabilityCheck(Merged(main, p), f.key)

Check(p) ==
  /\ pulls[p].pc \in {"open", "checked"} /\ Applies(p)
  /\ pulls' = [pulls EXCEPT ![p].pc = "checked", ![p].seen = landings,
                            ![p].green = AllGuards(Merged(main, p)) /\ FeaturesReachable(p)]
  /\ pulls'[p] # pulls[p]
  /\ UNCHANGED <<main, milestones, landings, overlapped, moves>>

Merge(p) ==
  /\ pulls[p].pc = "checked" /\ pulls[p].green /\ Applies(p)
  /\ main' = Merged(main, p)
  /\ pulls' = [pulls EXCEPT ![p].pc = "merged"]
  /\ landings' = landings + 1
  /\ overlapped' = (overlapped \/ pulls[p].seen # landings)
  /\ UNCHANGED <<milestones, moves>>

MoveMilestone(m) ==
  /\ moves < MaxMoves
  /\ milestones' = [milestones EXCEPT ![m] = IF @ = "open" THEN "closed" ELSE "open"]
  /\ moves' = moves + 1
  /\ UNCHANGED <<main, pulls, landings, overlapped>>

RepoNext ==
  \/ \E p \in Prs : AddRecord(p) \/ WriteRecord(p) \/ EditTree(p)
  \/ \E p \in Repairs : Generate(p) \/ Renumber(p)
  \/ \E p \in DOMAIN pulls : Check(p) \/ Merge(p)
  \/ \E m \in DOMAIN milestones : MoveMilestone(m)

RepoSpec == RepoInit /\ [][RepoNext]_repoVars

(***************************************************************************)
(* What the parsers make of files.  A fact has the fields its kind says;    *)
(* the adoption and the token policy are one file each, and a feature key   *)
(* is declared once, so an edit that adds such a fact takes the one that    *)
(* was there away, if there can have been another.  Records are renumbered  *)
(* and never dropped.                                                       *)
(***************************************************************************)
WellFormed(f) ==
  /\ f.kind \in {"path", "pointer"} => f = [kind |-> f.kind, path |-> f.path]
  /\ f.kind = "glob" => /\ f = [kind |-> "glob", file |-> f.file, glob |-> f.glob]
                        /\ f.file \in {"ci.yml", "deploy.yml"}
  /\ f.kind \in {"patch", "pin"} => f = [kind |-> f.kind, key |-> f.key]
  /\ f.kind \in {"package", "readme"} => f = [kind |-> f.kind, dir |-> f.dir]
  /\ f.kind = "consumer" => f = [kind |-> "consumer", symbol |-> f.symbol]
  /\ f.kind = "journey" => f = [kind |-> "journey", key |-> f.key]
  /\ f.kind = "record" => f = Record(f.file, f.id, f.slug) /\ f.id \in Nat

SamePlace(f, g) ==
  /\ f.kind = g.kind
  /\ f.kind \in {"adoption", "tokens"} \/ (f.kind = "feature" /\ f.key = g.key)

Facts == Seed \cup UNION {e.added : e \in Edits}

ASSUME FactAssumption ==
  /\ \A f \in Facts : WellFormed(f)
  /\ \A n \in ByHand : n.id \in Nat

ASSUME EditAssumption ==
  \A e \in Edits :
    /\ Of(e.added, "record") = {} /\ Of(e.removed, "record") = {}
    /\ \A f, g \in e.added : SamePlace(f, g) => f = g
    /\ \A f \in e.added, g \in Facts :
         SamePlace(f, g) /\ f # g => \E h \in e.removed : SamePlace(f, h) /\ f # h

\* The story begins with a main that passes its guards.
ASSUME SeedAssumption ==
  /\ TreePasses(Seed) /\ RoadmapCheck(Seed, Milestones)
  /\ \A f \in FeatureDefinitions(Seed) : ReachabilityCheck(Seed, f.key)
  /\ \A f, g \in Seed : SamePlace(f, g) => f = g
  /\ IsFiniteSet(Seed)
  /\ \A a, b \in AdrFiles(Seed) : a.slug \notin Prs /\ (a.slug = b.slug => a = b)

(***************************************************************************)
(* Properties.                                                              *)
(***************************************************************************)
RecordsAreNumbered ==
  \A a, b \in Of(main, "record") : a.file = a.id /\ (a.id = b.id => a = b)

PointersResolve == \A f \in Of(main, "pointer") : f.path \in Ignored \/ [kind |-> "path", path |-> f.path] \in main

FiltersAgree ==
  /\ \E f \in Of(main, "glob") : TRUE
  /\ \A f \in Of(main, "glob"), file \in {"ci.yml", "deploy.yml"} : [f EXCEPT !.file = file] \in main

PatchesArePinned ==
  /\ \A f \in Of(main, "patch") : [f EXCEPT !.kind = "pin"] \in main
  /\ \A f \in Of(main, "pin") : [f EXCEPT !.kind = "patch"] \in main

DependenciesAreShared ==
  CatalogPolicy(main) = {"enabled"} => \A f \in Of(main, "dependency") : Compliant(f)

PackagesAreDescribed == \A f \in Of(main, "package") : [f EXCEPT !.kind = "readme"] \in main

AgentsAreClassified ==
  \A b \in Of(main, "agent"), a \in Of(main, "agent") :
    b.name \in DOMAIN BRIDGE_ALLOWLIST /\ a.name \notin READ_ONLY_AGENTS =>
      a.name \in BRIDGE_ALLOWLIST[b.name] \cup b.never

ClaimsAreEvidenced ==
  \A d \in Of(main, "doc"), policy \in Of(main, "adoption") :
    /\ "path" \in d.leaks => d.selfExempt
    /\ policy.enabled /\ d.dir \in policy.globs =>
         \A c \in policy.concepts \cap d.claims :
           c \in d.evidence \/ ExemptionFor(d, c, policy)

TokensResolve ==
  \A f \in Of(main, "css"), policy \in Of(main, "tokens") :
    policy.enabled => \A t \in f.references \ policy.known : \E g \in Of(main, "css") : t \in g.declared

\* Nobody asks about the features there are already.
FeaturesAreReached ==
  ReachabilityPolicy(main) = {"enabled"} /\ (\A p \in DOMAIN pulls : pulls[p].pc = "merged" =>
     {f \in pulls[p].removed : f.kind \in {"consumer", "journey", "reachability"}} = {}) =>
    \A f \in Of(main, "feature") :
      f.exempt \/ ([kind |-> "consumer", symbol |-> f.symbol] \in main
                     /\ [kind |-> "journey", key |-> f.key] \in main)

RoadmapIsLive ==
  /\ \E row \in Arcs(main) : row.state = "active" /\ milestones[row.milestone] = "open"
  /\ \A row \in RoadmapRows(main) :
       row.milestone # 0 /\ row.state # "queued" => (row.state = "active") = (milestones[row.milestone] = "open")

\* Main is broken only by pull requests that passed side by side. As long as every one
\* was merged into the very main it was checked against, main's decision records have
\* numbers of their own, its pointers resolve, the two filter lists agree, every patch is
\* pinned at its version, every package has a README, every bridge rules on every agent,
\* claims have evidence and tokens declarations, a feature is reached, and - unless a
\* milestone was moved since - the roadmap says what the milestones say; and even when they
\* did overlap, a record shares its number with another only if its author numbered it in a
\* checkout that lacked the other (decisions-index.ts:187-222, pointer-guard/gate.ts:92-142,
\* path-filter-guard.ts:157-171, patch-guard.ts:134-150, readme-guard.ts:57-68,
\* crew-fanout-guard.ts:328-380, adoption-lint.ts:66-83, design-token-guard.ts:56-78,
\* roadmap-guard.ts:111-209).
BrokenMainWasOverlapped ==
  /\ ~overlapped => /\ RecordsAreNumbered /\ PointersResolve /\ FiltersAgree
                    /\ PatchesArePinned /\ PackagesAreDescribed /\ DependenciesAreShared
                    /\ AgentsAreClassified /\ ClaimsAreEvidenced /\ TokensResolve
                    /\ FeaturesAreReached
                    /\ moves = 0 => RoadmapIsLive
  /\ \A a, b \in Of(main, "record"), p \in DOMAIN pulls :
       a # b /\ a.id = b.id /\ a \in pulls[p].added => b \notin pulls[p].base
=============================================================================
