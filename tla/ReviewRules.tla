----------------------------- MODULE ReviewRules ----------------------------
(***************************************************************************)
(* The decisions a pull request is reviewed and merged by, as the CLI      *)
(* takes them: which review gates a change requires (class-probe,          *)
(* ship-it/preconditions.ts), what the verdict comments on it say          *)
(* (verdict/verdict-match.ts), who may post one (verdict/identity.ts), and *)
(* whether continuous integration passed (ci-required,                     *)
(* unresolved-threads-guard).                                              *)
(*                                                                         *)
(* A path, a pattern and a review site are members of small sets: a        *)
(* pattern set matches the paths it includes and does not exclude.  A      *)
(* commit is its number in the order of pushes.  Comments are kept in      *)
(* (created_at, id) order, the order they were first posted in.            *)
(***************************************************************************)
EXTENDS Integers, Sequences, FiniteSets

CONSTANTS
  Gates,     \* the review namespaces: "code" and others
  Logins,    \* the accounts of the provider
  Writers,   \* those with write permission or better
  PrAuthor,  \* the account that opened the pull request
  Paths,     \* the paths a pull request may change
  FilePage   \* the page size of the changed-file read

ASSUME LoginsAssumption == PrAuthor \in Logins /\ Writers \subseteq Logins
ASSUME GatesAssumption == "code" \in Gates
ASSUME PageAssumption == FilePage \in Nat \ {0}

NoSha == -1
Polarities == {"PASS", "FAIL"}
Marks == Polarities \cup {"advisory"}

-----------------------------------------------------------------------------
(* Classification: which gates a diff requires. *)

Matches(rules) == rules.include \ rules.exclude

(* A path no rule matches counts as code. *)
RequiredNamespaces(files, policy) ==
  LET unmatched == files \ UNION {Matches(policy[g]) : g \in Gates}
  IN  {g \in Gates : files \cap Matches(policy[g]) # {}}
        \cup (IF unmatched = {} THEN {} ELSE {"code"})

(* The policy that stands in for one that cannot be read or parsed. *)
FailClosedPolicy == [g \in Gates |-> [include |-> Paths, exclude |-> {}]]

Loaded(policyFile) ==
  IF policyFile.readable
    THEN [policy |-> policyFile.policy, trusted |-> TRUE]
    ELSE [policy |-> FailClosedPolicy, trusted |-> FALSE]

(* Faulty variant: only the policy the pull request proposes counts. *)
HeadOnlyScope(files, base, head) == RequiredNamespaces(files, head.policy)

(* The union of what the base commit's policy and the head's require. *)
PrGateScope(files, base, head) ==
  RequiredNamespaces(files, base.policy) \cup RequiredNamespaces(files, head.policy)

(* May this gate's verdict be posted?  A check that cannot be made warns   *)
(* and allows.                                                             *)
NamespaceCheck(gate, files, base, head) ==
  LET scope     == PrGateScope(files, base, head)
      checkable == base.trusted /\ head.trusted /\ Cardinality(files) < FilePage /\ scope # {}
  IN  IF ~checkable THEN "unchecked" ELSE IF gate \in scope THEN "allowed" ELSE "refused"

-----------------------------------------------------------------------------
(* Verdict comments. *)

MarkerIn(comment, gate) == comment.gate = gate
PolarMarker(comment, gate) == MarkerIn(comment, gate) /\ comment.mark \in Polarities

Newest(indices) == CHOOSE i \in indices : \A j \in indices : j <= i
Oldest(indices) == CHOOSE i \in indices : \A j \in indices : i <= j

IsBoundToHead(sha, head) == sha # NoSha /\ sha = head

(* What one marker says of `head`. *)
Says(comment, head) ==
  IF comment.sha = NoSha THEN "sha-less"
  ELSE IF IsBoundToHead(comment.sha, head) THEN comment.mark ELSE "stale"

(* Faulty variant: the author's own marker counts like any other. *)
ResolveAnyAuthor(comments, gate, head, writers) ==
  LET candidates == {i \in DOMAIN comments :
                       comments[i].author \in writers /\ PolarMarker(comments[i], gate)}
      latest     == comments[Newest(candidates)]
  IN  IF candidates = {} THEN "none" ELSE Says(latest, head)

(* What the newest marker of an authorized author other than the pull      *)
(* request's own says of `head`, `writers` being those authorized.         *)
ResolveVerdict(comments, gate, head, writers) ==
  LET inNamespace == {i \in DOMAIN comments :
                        comments[i].author \in writers /\ PolarMarker(comments[i], gate)}
      candidates  == {i \in inNamespace : comments[i].author # PrAuthor}
      latest      == comments[Newest(candidates)]
  IN  IF inNamespace = {} THEN "none"
      ELSE IF candidates = {} THEN "self-issued"
      ELSE Says(latest, head)

(* The comment a post by `login` replaces, or 0 to add one. *)
PriorMarker(comments, gate, login) ==
  LET own == {i \in DOMAIN comments :
                comments[i].author = login /\ MarkerIn(comments[i], gate)}
  IN  IF own = {} THEN 0 ELSE Newest(own)

(* A verdict names the full head it judged; an advisory may name none. *)
EmissionDefect(mark, sha) == mark \in Polarities /\ sha = NoSha

(* The repair rounds recorded so far: those of the oldest verdict in the   *)
(* namespace, whoever posted it.                                           *)
RoundsSoFar(comments, gate) ==
  LET verdicts == {i \in DOMAIN comments : PolarMarker(comments[i], gate)}
  IN  IF verdicts = {} THEN 0 ELSE comments[Oldest(verdicts)].rounds

(* A FAIL starts another round; any other verdict keeps the count. *)
NextRounds(prior, mark) == IF mark = "FAIL" THEN prior + 1 ELSE prior

(* May the account `login` post a verdict at all?  `asserted` is the       *)
(* account the caller says it is, or "" when it says nothing.              *)
IdentityRefused(login, asserted) ==
  \/ login = "unreadable"
  \/ asserted \notin {"", login}
  \/ login = PrAuthor

-----------------------------------------------------------------------------
(* Continuous integration. *)

(* A job that should have run succeeded; one that need not run did not     *)
(* fail.                                                                   *)
JobPasses(job) ==
  IF job.required THEN job.result = "success"
                  ELSE job.result \in {"success", "skipped"}

CiPasses(changesResult, jobs) ==
  changesResult = "success" /\ \A j \in jobs : JobPasses(j)

(* Every unresolved review thread is named by the newest authorized        *)
(* review-code marker, the author's own and advisories included.           *)
ThreadsAccounted(comments, unresolved) ==
  LET trusted == {i \in DOMAIN comments :
                    comments[i].author \in Writers /\ MarkerIn(comments[i], "code")}
  IN  unresolved \subseteq (IF trusted = {} THEN {} ELSE comments[Newest(trusted)].sites)

-----------------------------------------------------------------------------
(* The merge preconditions over a pull request as one read returned it. *)

Mergeable(pr) ==
  /\ ~pr.merged
  /\ pr.open
  /\ ~pr.draft
  /\ pr.mergeable \in {"clean", "unstable"}
=============================================================================
