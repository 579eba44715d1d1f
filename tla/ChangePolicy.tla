---------------------------- MODULE ChangePolicy ----------------------------
(***************************************************************************)
(* What `.pipeline/agent-policy.json` says of one change: whether it is     *)
(* protected, whether it may take the lightweight review, which safeguard   *)
(* records it touches, whose approval it needs and which companions it must *)
(* bring (tools/protected-*, tools/trivial-diff, tools/guard-content-probe, *)
(* tools/cp-cardinality/cp-cardinality.ts).                                 *)
(*                                                                          *)
(* A path pattern is the set of paths it matches.  A policy p is            *)
(*   text      "json", or "none" / "garbled" where nothing can be parsed    *)
(*   control   the protected paths          trivial  the light review       *)
(*   guard     the decision records         owners   the ownership adapter  *)
(*   approval  the approval authority       fanout   the companion rules    *)
(* and a change c is                                                        *)
(*   paths     what it changes              edits    +/- lines counted      *)
(*   added     what its added lines hold: "nothing", "prose", "safeguard"   *)
(*   metadata  it carries a rename, binary or submodule entry               *)
(***************************************************************************)
EXTENDS Integers, FiniteSets, Sequences

Readable(p) == p.text = "json"

\* An empty boundary is refused, never read as "nothing is protected".
BoundaryTrusted(p) == Readable(p) /\ p.control # {}

ProtectedPaths(paths, p) == IF BoundaryTrusted(p) THEN paths \cap p.control ELSE paths

ProtectedChange(paths, p) ==
  IF ~BoundaryTrusted(p) THEN "unknown"
  ELSE IF ProtectedPaths(paths, p) # {} THEN "protected" ELSE "ordinary"

(***************************************************************************)
(* Safeguard content: a disabled section must be empty, an enabled one full.*)
(***************************************************************************)
GuardTrusted(p) == Readable(p) /\ (p.guard.enabled <=> p.guard.records # {})

GuardCandidates(paths, p) ==
  IF ~GuardTrusted(p) THEN paths
  ELSE IF p.guard.enabled THEN paths \cap p.guard.records ELSE {}

GuardTouching(body, p) ==
  ~GuardTrusted(p) \/ ~p.guard.enabled \/ body \in {"nothing", "safeguard"}

(***************************************************************************)
(* The light review.                                                        *)
(***************************************************************************)
TrivialTrusted(p) == Readable(p) /\ p.trivial.max >= 0

ClassifyTrivialDiff(c, p) ==
  /\ TrivialTrusted(p)
  /\ Cardinality(c.paths) = 1
  /\ ~c.metadata
  /\ c.paths \cap p.trivial.protected = {}
  /\ GuardTrusted(p)
  /\ GuardCandidates(c.paths, p) # {} => ~GuardTouching(c.added, p)
  /\ c.edits \in 1..p.trivial.max

KnownNamespaces == {"review-code", "review-doc", "review-skill", "review-design"}

\* namespaces are the review gates the paths call for.
SelectTrivialDiffRoute(c, p, gateSupported, namespaces) ==
  IF /\ p.trivial.enabled /\ gateSupported
     /\ ClassifyTrivialDiff(c, p)
     /\ Cardinality(namespaces) = 1 /\ namespaces \subseteq KnownNamespaces
     /\ ProtectedChange(c.paths, p) = "ordinary"
     /\ GuardCandidates(c.paths, p) = {}
  THEN "review-trivial" ELSE "full-review"

(***************************************************************************)
(* Ownership: rules are a sequence of [paths, owners]; CODEOWNERS takes the *)
(* last rule that matches, a static table must have exactly one.            *)
(***************************************************************************)
OwnersTrusted(p) ==
  /\ Readable(p)
  /\ p.owners.enabled => (p.owners.source = "static" <=> p.owners.rules # <<>>)

Matching(path, rules) == {i \in DOMAIN rules : path \in rules[i].paths}

Ambiguous(paths, rules, source) ==
  \/ paths = {}
  \/ source = "static" /\ \E path \in paths : Cardinality(Matching(path, rules)) > 1

OwnersOf(path, rules) ==
  LET last == CHOOSE i \in Matching(path, rules) : \A j \in Matching(path, rules) : j <= i
  IN  rules[last].owners

VerifyOwnership(paths, rules, source, approvers) ==
  /\ ~Ambiguous(paths, rules, source)
  /\ \A path \in paths :
       Matching(path, rules) # {} => OwnersOf(path, rules) \cap approvers # {}

\* A triggered rule asks for a path of each companion pattern in the same change,
\* and for the checks and roles it names.
JudgeProtectedFanout(paths, evidence, rules) ==
  /\ paths # {}
  /\ \A r \in rules : paths \cap r.triggers # {} =>
       /\ \A companion \in r.companions : paths \cap companion # {}
       /\ r.required \subseteq evidence

FanoutTrusted(p) ==
  Readable(p) /\ \A r \in p.fanout : r.triggers # {} /\ (r.companions # {} \/ r.required # {})

(***************************************************************************)
(* Approval of a protected change.                                          *)
(***************************************************************************)
ApprovalTrusted(p) == Readable(p) /\ p.approval.required > 0

DecideCpCardinality(members, author, required, approvals, waived) ==
  IF \/ members = {author} /\ waived
     \/ /\ members \notin {{}, {author}}
        /\ required <= Cardinality(members \ {author})
        /\ required <= approvals
  THEN "discharge" ELSE "stop"
=============================================================================
