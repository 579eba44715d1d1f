----------------------------- MODULE TreeGuards -----------------------------
(***************************************************************************)
(* The guards that judge agents, scripts and configured surfaces of a tree: *)
(* crew-fanout-guard, workflow-contract, settings-env-guard, adoption-lint, *)
(* design-token-guard, reachability-guard and leak-guard.  A tree is a set  *)
(* of facts, records told apart by "kind": what the parsers of these guards *)
(* find in its files.                                                       *)
(*                                                                          *)
(* Four of them are off until a policy turns them on, and the policy is     *)
(* itself a file of the tree that is judged.                                *)
(***************************************************************************)
EXTENDS Naturals, FiniteSets

CONSTANTS
  BRIDGE_ALLOWLIST,  \* crew bridge -> the mutating agents it may spawn
  READ_ONLY_AGENTS   \* agents that mutate nothing

Of(tree, kind) == {f \in tree : f.kind = kind}

(***************************************************************************)
(* crew-fanout-guard.  Of an agent's definition: its name, the tools it     *)
(* grants, whether it denies any, the agents its charter says never to      *)
(* spawn, and whether it claims that its read-only agents are held to it.   *)
(***************************************************************************)
BRIDGE_NAMES == DOMAIN BRIDGE_ALLOWLIST

Defs(tree)   == Of(tree, "agent")
Roster(tree) == {d.name : d \in Defs(tree)}
Bridges(tree) == {d \in Defs(tree) : d.name \in BRIDGE_NAMES}

\* One denied tool takes away every tool of that name, and no bridge is served Grep or Glob.
BridgeShapeProblems(tree) ==
  {d \in Bridges(tree) : d.denies \/ "Task" \notin d.tools \/ d.tools \cap {"Grep", "Glob"} # {}}

\* A read-only agent with a shell is held only by its charter, and nobody may claim more.
EnforcementProblems(tree) ==
  {d \in Defs(tree) : d.overclaims /\ \E r \in Defs(tree) : r.name \in READ_ONLY_AGENTS /\ "Bash" \in r.tools}

Uncovered(tree) ==
  {d \in Bridges(tree) :
     ~(Roster(tree) \ READ_ONLY_AGENTS \subseteq BRIDGE_ALLOWLIST[d.name] \cup d.never)}

FanoutJudge(tree) ==
  /\ BRIDGE_NAMES \subseteq Roster(tree)
  /\ BridgeShapeProblems(tree) = {} /\ EnforcementProblems(tree) = {}
  /\ \A b \in BRIDGE_NAMES : BRIDGE_ALLOWLIST[b] \subseteq Roster(tree)
  /\ Uncovered(tree) = {}

(***************************************************************************)
(* workflow-contract.  Of a script: whether it exports a default, how it    *)
(* declares `meta`, and the keys it writes there.  No script is no fault.   *)
(***************************************************************************)
ScriptViolations(s) ==
  {v \in {"export-default", "meta-missing", "meta-not-literal", "meta-keys"} :
     \/ v = "export-default" /\ s.exportsDefault
     \/ v = "meta-missing" /\ s.meta = "none"
     \/ v = "meta-not-literal" /\ s.meta = "computed"
     \/ v = "meta-keys" /\ s.meta = "literal" /\ ~({"name", "description"} \subseteq s.keys)}

WorkflowJudge(tree) == \A s \in Of(tree, "script") : ScriptViolations(s) = {}

(***************************************************************************)
(* settings-env-guard: there is a settings file, and no value of its env    *)
(* holds a token in braces, which would be taken literally.                 *)
(***************************************************************************)
EnvEntries(tree) == Of(tree, "env")

SettingsJudge(tree) == Of(tree, "settings") # {} /\ \A e \in EnvEntries(tree) : e.value # "${}"

(***************************************************************************)
(* adoption-lint: a document that makes a claim about a governed concept    *)
(* shows the evidence, unless it is exempt; an exemption has a reason.      *)
(***************************************************************************)
AdoptionPolicy(tree) == Of(tree, "adoption")

Corpus(tree, policy) == {d \in Of(tree, "doc") : d.dir \in policy.globs}

IsClaimWithoutEvidence(doc, concept) == concept \in doc.claims \ doc.evidence

ExemptionFor(doc, concept, policy) ==
  \E e \in policy.exemptions : e.path = doc.path /\ (e.type = "mirror" \/ e.concept = concept)

LintExemption(e, corpus) ==
  \E d \in corpus : /\ d.path = e.path
                    /\ IF e.type = "mirror" THEN ~d.importable ELSE IsClaimWithoutEvidence(d, e.concept)

LintAdoption(corpus, policy) ==
  /\ \A d \in corpus, c \in policy.concepts :
       IsClaimWithoutEvidence(d, c) => ExemptionFor(d, c, policy)
  /\ \A e \in policy.exemptions : LintExemption(e, corpus)

AdoptionCheck(tree) ==
  \E policy \in AdoptionPolicy(tree) :
    policy.enabled => /\ \A g \in policy.globs : \E d \in Of(tree, "doc") : d.dir = g
                      /\ LintAdoption(Corpus(tree, policy), policy)

(***************************************************************************)
(* design-token-guard: every token a style sheet uses is declared in some   *)
(* sheet or known to the policy; outside the raw layers there is no colour  *)
(* literal, and no more raw pixels than the sheet's ceiling.                *)
(***************************************************************************)
TokenPolicy(tree) == Of(tree, "tokens")

CssFacts(tree) == Of(tree, "css")

TokenJudge(files, policy) ==
  /\ files # {}
  /\ \A f \in files : f.references \subseteq policy.known \cup UNION {g.declared : g \in files}
  /\ \A f \in files :
       f.path \notin policy.rawLayers =>
         f.hex = 0 /\ f.px <= IF f.path \in DOMAIN policy.ceilings THEN policy.ceilings[f.path] ELSE 0

TokenCheck(tree) ==
  \E policy \in TokenPolicy(tree) : policy.enabled => TokenJudge(CssFacts(tree), policy)

(***************************************************************************)
(* reachability-guard, asked about one feature: it is declared, and either  *)
(* exempt or both consumed by some source and on some journey.              *)
(***************************************************************************)
ReachabilityPolicy(tree) == {f.says : f \in Of(tree, "reachability")}

FeatureDefinitions(tree) == Of(tree, "feature")
ConsumedSymbols(tree)    == {f.symbol : f \in Of(tree, "consumer")}
JourneyKeys(tree)        == {f.key : f \in Of(tree, "journey")}

ReachabilityCheck(tree, key) ==
  \/ ReachabilityPolicy(tree) = {"disabled"}
  \/ /\ ReachabilityPolicy(tree) = {"enabled"}
     /\ \E d \in FeatureDefinitions(tree) :
          d.key = key /\ (d.exempt \/ (d.symbol \in ConsumedSymbols(tree) /\ key \in JourneyKeys(tree)))

(***************************************************************************)
(* leak-guard: `scan` over the shared documents that are not exempt, and    *)
(* `sweep` over every file of the crew's plugin, of which there are some.   *)
(***************************************************************************)
FindLeaks(doc)  == IF doc.selfExempt THEN {} ELSE doc.leaks \cap {"path"}
FindCrewLeaks(f) == f.leaks \cap {"path", "email", "tmux-id", "memory-ref"}

LeakScan(tree)  == \A d \in Of(tree, "doc") : FindLeaks(d) = {}
CrewFiles(tree) == Of(tree, "crewFile")
SweepCrew(tree) == CrewFiles(tree) # {} /\ \A f \in CrewFiles(tree) : FindCrewLeaks(f) = {}
=============================================================================
