---------------------------- MODULE MCGovernance ----------------------------
(***************************************************************************)
(* The two ways a change is held to the repository's rules, for TLC: the    *)
(* approval of a protected change (ProtectedChange) and the lint guards     *)
(* (RepoGuards).  They share no state, so a behaviour is about one of them. *)
(*                                                                          *)
(* A change has an author and two others, a policy that enables every       *)
(* section, and pushes that change the policy file, the CODEOWNERS file, a  *)
(* decision record, or ordinary sources.  The guards watch two pull         *)
(* requests and one that mends the decision records.                        *)
(***************************************************************************)
EXTENDS ProtectedChange, RepoGuards

VARIABLES subject  \* what a behaviour is about

MCPeople == {"author", "ann", "bob"}

Policy(control, protected, records) ==
  [text     |-> "json",
   control  |-> control,
   trivial  |-> [enabled |-> TRUE, max |-> 1, protected |-> protected],
   guard    |-> [enabled |-> TRUE, records |-> records],
   owners   |-> [enabled |-> TRUE, source |-> "codeowners", rules |-> <<>>],
   fanout   |-> {[triggers |-> {"source"}, companions |-> {{"test"}}, required |-> {}]},
   approval |-> [required |-> 1, exception |-> TRUE]]

MCBasePolicy   == Policy({"policy", "owners"}, {"policy"}, {"record"})
\* The author's own version protects next to nothing.
MCPushedPolicy == Policy({"record"}, {}, {"owners"})

MCBaseOwners   == <<[paths |-> {"source", "policy"}, owners |-> {"ann", "bob"}],
                    [paths |-> {"policy", "owners"}, owners |-> {"ann"}]>>
MCPushedOwners == <<[paths |-> {"policy", "source"}, owners |-> {"bob"}]>>

Change(paths, edits, added) ==
  [paths |-> paths, edits |-> edits, added |-> added, metadata |-> FALSE]

MCChanges == {Change({"source"}, 1, "prose"), Change({"record"}, 1, "prose"),
              Change({"policy"}, 1, "prose"), Change({"policy", "owners"}, 2, "prose")}

MCRosters == {{"author", "ann"}}

MCNamespaceOf == [path \in {"source", "test", "record", "policy", "owners"} |->
                    IF path = "record" THEN "review-doc" ELSE "review-code"]

Path(kind, path) == [kind |-> kind, path |-> path]
Glob(file, glob) == [kind |-> "glob", file |-> file, glob |-> glob]
Key(kind, key)   == [kind |-> kind, key |-> key]
Dir(kind, dir)   == [kind |-> kind, dir |-> dir]
Dep(name, spec)  == [kind |-> "dependency", name |-> name, specifier |-> spec]
Arc(name, milestone, state) == [kind |-> "arc", name |-> name, milestone |-> milestone, state |-> state]
Adr(n, id, slug) == [kind |-> "record", file |-> n, id |-> id, slug |-> slug]

Agent(name, never) ==
  [kind |-> "agent", name |-> name, tools |-> {"Task"}, denies |-> FALSE, never |-> never, overclaims |-> FALSE]
Investigator == [Agent("investigator", {}) EXCEPT !.tools = {"Bash"}]
Script(meta, keys) ==
  [kind |-> "script", file |-> "drive.js", exportsDefault |-> FALSE, meta |-> meta, keys |-> keys]
Doc(path, claims, evidence) ==
  [kind |-> "doc", path |-> path, dir |-> "docs", importable |-> TRUE, claims |-> claims,
   evidence |-> evidence, leaks |-> {}, selfExempt |-> FALSE]
Adoption(enabled, exemptions) ==
  [kind |-> "adoption", enabled |-> enabled, globs |-> {"docs"}, concepts |-> {"cycle"}, exemptions |-> exemptions]
Exempt(path) == [type |-> "grandfathered", path |-> path, concept |-> "cycle"]
TokensOf(enabled) ==
  [kind |-> "tokens", enabled |-> enabled, known |-> {"outside"}, rawLayers |-> {"raw.css"},
   ceilings |-> [path \in {"app.css"} |-> 1]]
Css(path, declared, references, px) ==
  [kind |-> "css", path |-> path, declared |-> declared, references |-> references, hex |-> 0, px |-> px]
Feature(key, exempt) == [kind |-> "feature", key |-> key, symbol |-> key, exempt |-> exempt]
Consumer(symbol) == [kind |-> "consumer", symbol |-> symbol]
Journey(key) == [kind |-> "journey", key |-> key]
CrewFile(leaks) == [kind |-> "crewFile", path |-> "seat.md", leaks |-> leaks]

MCAllowlist == [cartographer |-> {"coder"}, desk |-> {}]

Surfaces ==
  {Agent("cartographer", {"cartographer", "desk"}), Agent("desk", {"cartographer", "desk", "coder"}),
   Agent("coder", {}), Investigator,
   Script("literal", {"name", "description"}),
   [kind |-> "settings"], [kind |-> "env", key |-> "HOME", value |-> "plain"],
   Adoption(TRUE, {Exempt("old")}), Doc("old", {"cycle"}, {}), Doc("guide", {"cycle"}, {"cycle"}),
   TokensOf(TRUE), Css("raw.css", {"ink", "paper"}, {}, 3), Css("app.css", {}, {"ink"}, 1),
   [kind |-> "reachability", says |-> "enabled"], Feature("search", FALSE), Consumer("search"), Journey("search"),
   CrewFile({})}

MCSeed ==
  Surfaces \cup
  {Adr(1, 1, "seed"), [kind |-> "row", id |-> 1, slug |-> "seed"],
   Path("path", "CLAUDE.md"), Path("path", "docs"), Path("pointer", "docs"),
   [kind |-> "filters", file |-> "ci.yml"], [kind |-> "filters", file |-> "deploy.yml"],
   Glob("ci.yml", "apps"), Glob("deploy.yml", "apps"), [kind |-> "token", token |-> "empty"],
   Key("patch", "dep@1"), Key("pin", "dep@1"),
   [kind |-> "workspace", globs |-> "packages/*"], Dir("package", "one"), Dir("readme", "one"),
   [kind |-> "catalogPolicy", says |-> "enabled"], Dep("lib", "catalog"),
   Arc("first", 1, "active"), Arc("second", 0, "queued")}

E(added, removed) == [added |-> added, removed |-> removed]

SurfaceEdits ==
  {E({Agent("reviewer", {})}, {}),
   E({Agent("reviewer", {}), Agent("cartographer", {"cartographer", "desk", "reviewer"}),
      Agent("desk", {"cartographer", "desk", "coder", "reviewer"})},
     {Agent("cartographer", {"cartographer", "desk"}), Agent("desk", {"cartographer", "desk", "coder"})}),
   E({[Agent("coder", {}) EXCEPT !.overclaims = TRUE]}, {Agent("coder", {})}),
   E({[Agent("coder", {}) EXCEPT !.overclaims = TRUE]}, {Agent("coder", {}), Investigator}),
   E({[Agent("desk", {"cartographer", "desk", "coder"}) EXCEPT !.denies = TRUE]},
     {Agent("desk", {"cartographer", "desk", "coder"})}),
   E({Script("literal", {"name"})}, {Script("literal", {"name", "description"})}),
   E({[kind |-> "env", key |-> "PATH", value |-> "${}"]}, {}),
   E({Doc("new", {"cycle"}, {})}, {}), E({}, {Doc("old", {"cycle"}, {})}),
   E({Adoption(FALSE, {})}, {Adoption(TRUE, {Exempt("old")})}),
   E({Css("raw.css", {"ink"}, {}, 3)}, {Css("raw.css", {"ink", "paper"}, {}, 3)}),
   E({Css("page.css", {}, {"paper", "outside"}, 0)}, {}), E({Css("page.css", {}, {}, 1)}, {}),
   E({Feature("share", FALSE), Consumer("share")}, {}),
   E({Feature("share", FALSE), Consumer("share"), Journey("share")}, {}),
   E({}, {Journey("search")}),
   E({[Doc("guide", {"cycle"}, {"cycle"}) EXCEPT !.leaks = {"path"}]}, {Doc("guide", {"cycle"}, {"cycle"})}),
   E({CrewFile({"email"})}, {CrewFile({})})}

\* Each with the edit that goes with it, and without.
MCEdits ==
  {E({}, {Path("path", "docs")}),
   E({Path("path", "doc"), Path("pointer", "doc")}, {Path("path", "docs"), Path("pointer", "docs")}),
   E({Path("pointer", "docs"), Path("pointer", "dist")}, {}),
   E({Glob("ci.yml", "libs"), Glob("deploy.yml", "libs")}, {}), E({Glob("ci.yml", "libs")}, {}),
   E({}, {Glob("ci.yml", "apps"), Glob("deploy.yml", "apps")}),
   E({[kind |-> "token", token |-> "set"]}, {[kind |-> "token", token |-> "empty"]}),
   E({Key("patch", "dep@2")}, {Key("patch", "dep@1")}),
   E({Key("patch", "dep@2"), Key("pin", "dep@2")}, {Key("patch", "dep@1"), Key("pin", "dep@1")}),
   E({Dir("package", "two")}, {}), E({Dir("package", "two"), Dir("readme", "two")}, {}),
   E({}, {Dir("readme", "one")}),
   E({Dep("lib", "range")}, {Dep("lib", "catalog")}), E({Dep("tool", "range")}, {}),
   E({Arc("first", 1, "done"), Arc("second", 2, "active")}, {Arc("first", 1, "active"), Arc("second", 0, "queued")}),
   E({Arc("second", 1, "active")}, {Arc("second", 0, "queued")})}
  \cup SurfaceEdits

MCMilestones == <<"open", "closed">>
MCRule == [specifiers |-> {"catalog"}, exceptions |-> {"tool"}]

MCByHand == {[file |-> 2, id |-> 2], [file |-> 2, id |-> 3]}

allVars  == <<subject, changeVars, repoVars>>

InitBoth ==
  /\ ChangeInit /\ RepoInit
  /\ \/ subject \in {"approval", "gates"}
     \/ subject = "repo" /\ change = Change({"source"}, 1, "prose")

\* The approval evidence and the other gates read the same pull request and write nothing
\* the other reads.
NextBoth ==
  \/ subject = "approval" /\ ChangeNext /\ UNCHANGED <<subject, repoVars, verdict>>
  \/ subject = "gates" /\ ChangeNext /\ UNCHANGED <<subject, repoVars, gather>>
  \/ subject = "repo" /\ RepoNext /\ UNCHANGED <<subject, changeVars>>

SpecBoth == InitBoth /\ [][NextBoth]_allVars
=============================================================================
