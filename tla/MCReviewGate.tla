---------------------------- MODULE MCReviewGate ----------------------------
(* ReviewGate on small instances.  The pull request changes a source file, *)
(* and its second head a document as well; the policy of that head drops   *)
(* the rule for documents that the base still has.                         *)
EXTENDS ReviewGate, TLC

CONSTANTS r1, r2, sh, au, ra, rb

MCAccount == [r \in Reviewers |-> IF r = r1 THEN ra ELSE rb]
SrcFile == "src/a.ts"
DocFile == "docs/a.md"
MCPaths == {SrcFile, DocFile}

Rule(paths) == [include |-> paths, exclude |-> {}]
WithDocs == [readable |-> TRUE,
             policy |-> [g \in Gates |-> IF g = "code" THEN Rule({SrcFile}) ELSE Rule({DocFile})]]
WithoutDocs == [readable |-> TRUE,
                policy |-> [g \in Gates |-> IF g = "code" THEN Rule(MCPaths) ELSE Rule({})]]

MCFilesAt == [h \in Heads |-> IF h = 0 THEN {SrcFile} ELSE MCPaths]
MCPolicyAt == [h \in Heads |-> IF h = 0 THEN WithDocs ELSE WithoutDocs]
MCBasePolicy == WithDocs
Derived == {{}}

(* A head whose checks failed goes nowhere that one whose checks are still *)
(* out does not: ShipChecks refuses both, and nothing else reads them.     *)
NoneFailed == \A h \in Heads : checks[h] # "red"
=============================================================================
