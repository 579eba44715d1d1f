------------------------------- MODULE GhShim --------------------------------
(***************************************************************************)
(* gh-compat of pipeline-cli: a `gh` put before the real one that lets a   *)
(* call through, turns it into a REST call or blocks it, by a policy file   *)
(* the repository may change, and the lint of skills for calls it blocks.   *)
(***************************************************************************)
EXTENDS Naturals, FiniteSets, SequencesExt

CONSTANTS
  Policies,  \* contents of the file: [is, enabled, shim, mode, blockVerbs, unsupported, rewrite, repo, forbid]
  Calls,     \* [verb, sub, rest]: rest a sequence of [flag, value], either of them ""
  Numerals,  \* the values that are numbers
  JsonFields, \* from the value of --json to the fields in it
  Corpora,   \* sets of skill and agent files: [calls, exempt, scoped, parses]
  MaxSteps   \* bound on edits, lints and calls

VARIABLES
  policy,   \* the file
  clean,    \* what the lint last passed: the calls in the files it looked into, and under what policy
  lastCall, \* the last call: [call, outcome, route, under]
  steps

shimVars == <<policy, clean, lastCall, steps>>

(***************************************************************************)
(* The file.                                                                *)
(***************************************************************************)
DEFAULT_GH_COMPATIBILITY_POLICY ==
  [is |-> "set", enabled |-> FALSE, shim |-> FALSE, mode |-> "passthrough", blockVerbs |-> {}, unsupported |-> {},
   rewrite |-> FALSE, repo |-> "none", forbid |-> FALSE]

\* One field of the wrong type and nothing of the file is believed.
Readable(file) == file.is # "malformed"
ReadGhCompatibilityPolicy(file) ==
  IF file.is \in {"absent", "unsectioned"} THEN DEFAULT_GH_COMPATIBILITY_POLICY ELSE file

(***************************************************************************)
(* What a call asks for.                                                    *)
(***************************************************************************)
\* The value is in the same word or is the next one, whatever that is.
ValueAt(rest, i) ==
  IF rest[i].value # "" THEN rest[i].value
  ELSE IF i = Len(rest) THEN "none"
  ELSE IF rest[i + 1].flag # "" THEN rest[i + 1].flag ELSE rest[i + 1].value

\* The router's reading: the first such flag, by the name it has here.
FlagValue(rest, flag) ==
  LET at == {i \in DOMAIN rest : rest[i].flag = flag}
  IN IF at = {} THEN "none" ELSE ValueAt(rest, CHOOSE i \in at : \A j \in at : i <= j)

Words(rest) == {i \in DOMAIN rest : rest[i].flag = ""}

\* gh's own reading: a flag by either of its names, a repository by the last of its flags, and a
\* word behind a flag that stands alone is the flag's value.
LongName(flag) ==
  CASE flag = "-t" -> "--title" [] flag = "-b" -> "--body" [] flag = "-F" -> "--body-file"
    [] flag = "-m" -> "--milestone" [] flag = "-R" -> "--repo" [] OTHER -> flag

Named(call) == {call.rest[i].flag : i \in DOMAIN call.rest}

Meant(call) ==
  LET repos == {i \in DOMAIN call.rest : LongName(call.rest[i].flag) = "--repo"}
  IN [repo    |-> IF repos = {} THEN "here" ELSE ValueAt(call.rest, CHOOSE i \in repos : \A j \in repos : j <= i),
      targets |-> {call.rest[i].value : i \in {j \in Words(call.rest) :
                     j = 1 \/ call.rest[j - 1].flag = "" \/ call.rest[j - 1].value # ""}},
      fields  |-> {LongName(f) : f \in Named(call)} \ {"", "--repo"}]

\* The fields of an edit that the REST call has, or is said to have left out.  gh runs none of them
\* without a value, and a call that gives one flag as the value of another is not among Calls.
RestFields == {"--body-file", "--body", "--title", "--milestone", "--add-project", "--remove-project"}

ASSUME NumeralsAssumption == "none" \notin Numerals
ASSUME CallsAssumption ==
  \A call \in Calls :
    /\ call.rest \in Seq([flag : STRING, value : STRING])
    /\ \A i \in DOMAIN call.rest :
         call.rest[i].flag # "" /\ call.rest[i].value = "" => i < Len(call.rest) /\ call.rest[i + 1].flag = ""
    /\ \A f \in RestFields \cap Named(call) : FlagValue(call.rest, f) # "none"

(***************************************************************************)
(* The router.                                                              *)
(***************************************************************************)
Blocked == [kind |-> "block", repo |-> "none", targets |-> {}, fields |-> {}, stripped |-> {}]
Through(call) ==
  [kind |-> "passthrough", repo |-> Meant(call).repo, targets |-> Meant(call).targets,
   fields |-> Meant(call).fields, stripped |-> {}]

\* A milestone is set by its number, never by its title.
\* Faulty variant: by whatever it is called.
AnyMilestone(rest) == FlagValue(rest, "--milestone") # "none"

NumericMilestone(rest) == FlagValue(rest, "--milestone") \in Numerals

\* The target is the first number in the call.
RouteEdit(call, repo, p, bodyFileExists) ==
  LET numbers  == {i \in Words(call.rest) : call.rest[i].value \in Numerals}
      target   == call.rest[CHOOSE i \in numbers : \A j \in numbers : i <= j].value
      Has(f)   == FlagValue(call.rest, f) # "none"
      fields   == {f \in {"--body-file", "--body", "--title"} : Has(f)}
                    \cup (IF NumericMilestone(call.rest) THEN {"--milestone"} ELSE {})
      stripped == {f \in {"--milestone", "--add-project", "--remove-project"} : Has(f)} \ fields
  IN IF \/ ~p.rewrite \/ repo = "none" \/ numbers = {}
        \/ "--body-file" \in fields /\ ~bodyFileExists
        \/ fields \cup stripped = {}
     THEN Blocked
     ELSE [kind |-> "rewrite", repo |-> repo, targets |-> {target}, fields |-> fields, stripped |-> stripped]

RouteView(call, p) ==
  LET asked    == IF FlagValue(call.rest, "--json") = "none" THEN {} ELSE JsonFields[FlagValue(call.rest, "--json")]
      stripped == asked \cap p.unsupported
  IN IF stripped = {} THEN Through(call)
     ELSE IF stripped = asked THEN Blocked
     ELSE [Through(call) EXCEPT !.kind = "rewrite", !.stripped = stripped]

RouteGh(call, p, repo, bodyFileExists) ==
  IF ~p.enabled \/ p.mode # "rest-only" THEN Through(call)
  ELSE IF (call.verb = "api" /\ call.sub = "graphql") \/ call.verb \in p.blockVerbs THEN Blocked
  ELSE IF call.verb \in {"pr", "issue"} /\ call.sub = "edit" THEN RouteEdit(call, repo, p, bodyFileExists)
  ELSE IF call.verb \in {"pr", "issue"} /\ call.sub = "view" THEN RouteView(call, p)
  ELSE Through(call)

(***************************************************************************)
(* Steps.                                                                   *)
(***************************************************************************)
Quiet == [call |-> {}, outcome |-> "none", route |-> Blocked, under |-> DEFAULT_GH_COMPATIBILITY_POLICY]

NoLint == [calls |-> {}, under |-> {}]

ShimInit == policy \in Policies /\ clean = NoLint /\ lastCall = Quiet /\ steps = 0

OneMore == steps < MaxSteps /\ steps' = steps + 1

EditPolicy ==
  /\ OneMore
  /\ policy' \in Policies \ {policy} /\ lastCall' = Quiet
  /\ UNCHANGED clean

\* Which gh is the real one, and whether it knows the repository it is in.
ResolveRealGh(gh) == gh # "absent"
ResolveRepository(p, gh) == IF p.repo # "none" THEN p.repo ELSE IF gh = "works" THEN "here" ELSE "none"

Gh(call, gh, inGit, bodyFileExists) ==
  /\ OneMore
  /\ LET p == ReadGhCompatibilityPolicy(policy)
         route == RouteGh(call, p, ResolveRepository(p, gh), bodyFileExists)
         Says(outcome) == lastCall' = [call |-> {call}, outcome |-> outcome, route |-> route, under |-> p]
     IN IF ~inGit \/ ~Readable(policy) \/ ~p.enabled \/ ~p.shim
        THEN lastCall' = [Quiet EXCEPT !.call = {call}, !.outcome = "disabled"]
        ELSE IF route.kind = "block" THEN Says("blocked")
        ELSE IF ~ResolveRealGh(gh) THEN Says("no gh")
        ELSE Says("ran")
  /\ UNCHANGED <<policy, clean>>

\* The calls that a text may not name; the router is asked about nothing.
ConfiguredPatterns(p) ==
  IF ~p.forbid \/ p.mode # "rest-only" THEN {}
  ELSE {c \in Calls : \/ c.verb \in p.blockVerbs
                      \/ p.rewrite /\ c.verb \in {"pr", "issue"} /\ c.sub = "edit"
                      \/ c.verb = "api" /\ c.sub = "graphql"}

\* A lint of no file, or of no file whose frontmatter counts, is no clean lint.
LintCorpus(files, p) ==
  LET scanned == {f \in files : ~f.exempt}
  IN /\ scanned # {} /\ \E f \in files : f.scoped
     /\ \A f \in files : f.scoped => f.parses
     /\ \A f \in scanned : f.calls \cap ConfiguredPatterns(p) = {}

\* Outside a repository it lints by the default, which forbids nothing.
LintSkills(files, inGit) ==
  /\ OneMore
  /\ LET p == IF inGit THEN ReadGhCompatibilityPolicy(policy) ELSE DEFAULT_GH_COMPATIBILITY_POLICY
     IN clean' = IF (inGit => Readable(policy)) /\ LintCorpus(files, p)
                 THEN [calls |-> UNION {f.calls : f \in {g \in files : ~g.exempt}}, under |-> {p}]
                 ELSE NoLint
  /\ lastCall' = Quiet /\ UNCHANGED policy

ShimNext ==
  \/ EditPolicy
  \/ \E files \in Corpora, inGit \in BOOLEAN : LintSkills(files, inGit)
  \/ \E call \in Calls, gh \in {"works", "lost", "absent"}, inGit, bodyFileExists \in BOOLEAN :
       Gh(call, gh, inGit, bodyFileExists)

ShimSpec == ShimInit /\ [][ShimNext]_shimVars

(***************************************************************************)
(* Properties.                                                              *)
(***************************************************************************)
Ordered(call) == \A i \in Words(call.rest) : call.rest[i].value \in Numerals =>
                   i = 1 \/ call.rest[i - 1].flag = "" \/ call.rest[i - 1].value # ""

\* What the shim runs is no more than was asked for: the issue, the repository and the fields of the
\* call, less what it says it left out; and of the fields REST has, one that was given by its long name
\* is run or said to be left out.  But a number given to a flag before the issue's is taken for the
\* issue (router.ts:28), a --repo is not looked at (:30), only the first of several issues is edited,
\* and what the router does not know is dropped without a word once another field is there: what REST
\* has no field for, as a label, and a field given by its short flag, as -t (:8-15, 31-50).
RunsWhatWasAsked ==
  \A call \in lastCall.call :
    lastCall.outcome = "ran" =>
      LET meant == Meant(call) IN
      /\ lastCall.route.fields \subseteq meant.fields
      /\ lastCall.route.stripped \subseteq meant.fields \cup lastCall.under.unsupported
      /\ lastCall.route.kind = "rewrite" /\ Ordered(call) => lastCall.route.targets \subseteq meant.targets
      /\ {"--repo", "-R"} \cap Named(call) = {} /\ lastCall.under.repo = "none" => lastCall.route.repo = meant.repo
      /\ call.sub = "edit" /\ lastCall.route.kind = "rewrite" /\ "--milestone" \in lastCall.route.fields
           => FlagValue(call.rest, "--milestone") \in Numerals
      /\ Named(call) \cap RestFields \subseteq lastCall.route.fields \cup lastCall.route.stripped
      /\ lastCall.under.mode = "rest-only" => call.verb \notin lastCall.under.blockVerbs

\* A call in a text that the lint passed under the present policy is not blocked, but an edit where no
\* rewrite is enabled, and a view of nothing but fields that are not supported: the lint does not ask
\* the router (lint.ts:13-19).
CleanTextsRun ==
  \A call \in lastCall.call \cap clean.calls :
    lastCall.outcome = "blocked" /\ lastCall.under \in clean.under /\ lastCall.under.forbid =>
      \/ call.sub = "edit" /\ ~lastCall.under.rewrite
      \/ call.sub = "view"

ShimIsHonest == RunsWhatWasAsked /\ CleanTextsRun
=============================================================================
