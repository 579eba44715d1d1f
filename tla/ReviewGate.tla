----------------------------- MODULE ReviewGate -----------------------------
(***************************************************************************)
(* One pull request from review to merge: reviewers that run               *)
(* `review-head materialize` and `verdict post`, and shippers that run     *)
(* `ship-it merge`, against a provider where the author keeps pushing,     *)
(* anybody may write a comment by hand, and the account a machine is       *)
(* logged in with may be switched under a running command.                 *)
(*                                                                         *)
(* Every provider call is a step of its own.  A command that stops         *)
(* between two of its calls, by a failure or by being killed, is           *)
(* ReviewStops or ShipRefuses.                                             *)
(***************************************************************************)
EXTENDS ReviewRules

CONSTANTS
  Reviewers,      \* sessions that review, each on a machine of its own
  Shippers,       \* sessions that ship
  Account0,       \* reviewer -> the account its machine starts with
  FilesAt,        \* head -> the paths the pull request changes there
  PolicyAt,       \* head -> the policy file the head carries
  BasePolicy,     \* the policy file of the base commit
  NamedGates,     \* the --gates lists a caller may give; {} stands for none
  Sites,          \* the sites of review threads
  MaxHead,        \* bound on pushes
  MaxComments,    \* bound on comments
  MaxMeddling,    \* bound on comments by hand, account switches, thread changes
  MaxRounds       \* the largest repair round told apart

Heads == 0..MaxHead

ASSUME BoundsAssumption ==
  /\ MaxHead \in Nat /\ MaxComments \in Nat
  /\ MaxMeddling \in Nat /\ MaxRounds \in Nat
ASSUME AccountAssumption == Account0 \in [Reviewers -> Logins]
ASSUME FilesAssumption == FilesAt \in [Heads -> SUBSET Paths]
ASSUME NamedAssumption == NamedGates \subseteq SUBSET Gates

VARIABLES
  pr,        \* the pull request as the provider holds it
  merges,    \* what each merge that landed rested on (history)
  checks,    \* head -> the state of its check runs
  threads,   \* the sites with an unresolved review thread
  comments,  \* the marker comments, in posting order
  account,   \* reviewer -> the account its machine is logged in with
  rev,       \* reviewer -> the state of its command
  ship,      \* shipper -> the state of its command
  budget     \* what is left of MaxMeddling

vars == <<pr, merges, checks, threads, comments, account, rev, ship, budget>>
provider == <<pr, merges, checks, threads, comments>>

NoReview == [pc |-> "idle", gate |-> "code", head |-> NoSha, tree |-> NoSha,
             mark |-> "advisory", sites |-> {}, rounds |-> 0, prior |-> 0]
NoShip == [pc |-> "idle", head |-> NoSha, todo |-> {}, gates |-> {}, proof |-> {},
           outcome |-> "none"]

Init ==
  /\ pr = [open |-> TRUE, draft |-> FALSE, merged |-> FALSE, mergeable |-> "unknown", head |-> 0]
  /\ merges = {}
  /\ checks = [h \in Heads |-> "none"]
  /\ threads = {}
  /\ comments = <<>>
  /\ account = Account0
  /\ rev = [r \in Reviewers |-> NoReview]
  /\ ship = [s \in Shippers |-> NoShip]
  /\ budget = MaxMeddling

-----------------------------------------------------------------------------
(* The environment. *)

Push ==
  /\ ~pr.merged /\ pr.head < MaxHead
  /\ pr' = [pr EXCEPT !.head = @ + 1, !.mergeable = "unknown"]
  /\ UNCHANGED <<merges, checks, threads, comments, account, rev, ship, budget>>

(* The provider computes that the current head can merge; until then, or   *)
(* when it cannot, the answer is one the precondition refuses.             *)
ComputeMergeable ==
  /\ pr.mergeable = "unknown"
  /\ pr' = [pr EXCEPT !.mergeable = "clean"]
  /\ UNCHANGED <<merges, checks, threads, comments, account, rev, ship, budget>>

(* The check runs of a head, none or pending until then, conclude on the   *)
(* jobs and on the review threads as they are.                             *)
CiConclude(h) ==
  /\ h <= pr.head /\ checks[h] = "none"
  /\ \E required \in BOOLEAN, result \in {"success", "failure", "skipped"} :
       checks' = [checks EXCEPT ![h] =
                    IF CiPasses("success", {[required |-> required, result |-> result]})
                         /\ ThreadsAccounted(comments, threads)
                      THEN "green" ELSE "red"]
  /\ UNCHANGED <<pr, merges, threads, comments, account, rev, ship, budget>>

ThreadChanges ==
  /\ budget > 0
  /\ \E t \in Sites : threads' = IF t \in threads THEN threads \ {t} ELSE threads \cup {t}
  /\ budget' = budget - 1
  /\ UNCHANGED <<pr, merges, checks, comments, account, rev, ship>>

(* Somebody who is no independent writer writes a marker without the      *)
(* verb, bound to the head or to none.                                     *)
PostByHand ==
  /\ budget > 0 /\ Len(comments) < MaxComments
  /\ \E login \in Logins, gate \in Gates, mark \in Polarities, sha \in {pr.head, NoSha} :
       LET c == [author |-> login, gate |-> gate, mark |-> mark, sha |-> sha,
                 sites |-> {}, rounds |-> 0]
       IN  /\ login \notin Writers \ {PrAuthor}
           /\ comments' = Append(comments, c)
  /\ budget' = budget - 1
  /\ UNCHANGED <<pr, merges, checks, threads, account, rev, ship>>

SwitchAccount(r) ==
  /\ budget > 0
  /\ \E login \in Logins \ {account[r]} : account' = [account EXCEPT ![r] = login]
  /\ budget' = budget - 1
  /\ UNCHANGED <<provider, rev, ship>>

-----------------------------------------------------------------------------
(* A reviewer: review-head materialize, then verdict post. *)

(* materialize: the head the provider names ... *)
ResolveHead(r) ==
  /\ rev[r].pc = "idle" /\ ~pr.merged
  /\ \E g \in Gates : rev' = [rev EXCEPT ![r] = [NoReview EXCEPT !.pc = "resolved", !.gate = g,
                                                                 !.head = pr.head]]
  /\ UNCHANGED <<provider, account, ship, budget>>

(* Faulty variant: what was fetched is reviewed, whatever it is. *)
FetchUnasserted(r) ==
  /\ rev[r].pc = "resolved"
  /\ rev' = [rev EXCEPT ![r].pc = "reading", ![r].tree = pr.head]
  /\ UNCHANGED <<provider, account, ship, budget>>

(* ... and the tree the fetch brought, refused when it is another. *)
FetchHead(r) ==
  /\ rev[r].pc = "resolved"
  /\ rev' = [rev EXCEPT ![r] = IF pr.head = @.head
                                 THEN [@ EXCEPT !.pc = "reading", !.tree = pr.head]
                                 ELSE NoReview]
  /\ UNCHANGED <<provider, account, ship, budget>>

Capped(rounds) == IF rounds <= MaxRounds THEN rounds ELSE MaxRounds

Composed(v, mark, named, prior) ==
  [v EXCEPT !.pc = "checked", !.mark = mark, !.sites = named,
            !.rounds = IF mark = "advisory" THEN 0 ELSE Capped(NextRounds(prior, mark))]

(* verdict post: the verdict is composed for the tree that was read; who   *)
(* posts, and in which namespace, is checked against the provider.  The    *)
(* count of rounds starts again when the comments cannot be read.          *)
CheckPost(r) ==
  /\ rev[r].pc = "reading"
  /\ \E mark \in Marks, named \in IF rev[r].gate = "code" THEN SUBSET threads ELSE {{}},
        prior \in {RoundsSoFar(comments, rev[r].gate), 0} :
       LET refused == \/ IdentityRefused(account[r], "")
                      \/ NamespaceCheck(rev[r].gate, FilesAt[pr.head], Loaded(BasePolicy),
                                        Loaded(PolicyAt[pr.head])) = "refused"
                      \/ EmissionDefect(mark, rev[r].head)
       IN  rev' = [rev EXCEPT ![r] = IF refused THEN NoReview ELSE Composed(@, mark, named, prior)]
  /\ UNCHANGED <<provider, account, ship, budget>>

(* Github.post: the account is read again, to find its own prior marker. *)
ScanPrior(r) ==
  /\ rev[r].pc = "checked"
  /\ rev' = [rev EXCEPT ![r].pc = "scanned",
                        ![r].prior = PriorMarker(comments, rev[r].gate, account[r])]
  /\ UNCHANGED <<provider, account, ship, budget>>

(* PATCH the prior marker, whose author stays, or POST a new one as the    *)
(* account of the moment.                                                  *)
WriteVerdict(r) ==
  /\ rev[r].pc = "scanned"
  /\ rev[r].prior # 0 \/ Len(comments) < MaxComments
  /\ LET v == rev[r]
         c == [author |-> IF v.prior = 0 THEN account[r] ELSE comments[v.prior].author,
               gate |-> v.gate, mark |-> v.mark, sha |-> v.head, sites |-> v.sites,
               rounds |-> v.rounds]
     IN  comments' = IF v.prior = 0 THEN Append(comments, c)
                                    ELSE [comments EXCEPT ![v.prior] = c]
  /\ rev' = [rev EXCEPT ![r] = NoReview]
  /\ UNCHANGED <<pr, merges, checks, threads, account, ship, budget>>

ReviewStops(r) ==
  /\ rev[r].pc # "idle"
  /\ rev' = [rev EXCEPT ![r] = NoReview]
  /\ UNCHANGED <<provider, account, ship, budget>>

-----------------------------------------------------------------------------
(* A shipper: ship-it merge. *)

(* readPullRequest, with the mergeable precondition on what it returned. *)
ShipRead(s) ==
  /\ ship[s].pc = "idle"
  /\ ship' = [ship EXCEPT ![s] =
                IF Mergeable(pr) THEN [NoShip EXCEPT !.pc = "scoping", !.head = pr.head]
                                 ELSE NoShip]
  /\ UNCHANGED <<provider, account, rev, budget>>

(* requiredGates: those named, or those the changed files require under    *)
(* the policy of either side.  The list of files is the provider's of now, *)
(* the policies those of the commits read before.                          *)
RequiredGates(named, files, h) ==
  IF named # {} THEN named
  ELSE IF Cardinality(files) >= FilePage THEN {}
  ELSE PrGateScope(files, Loaded(BasePolicy), Loaded(PolicyAt[h]))

ShipScope(s) ==
  /\ ship[s].pc = "scoping"
  /\ \E named \in NamedGates :
       LET scope == RequiredGates(named, FilesAt[pr.head], ship[s].head)
       IN  ship' = [ship EXCEPT ![s] = IF scope = {} THEN NoShip
                                       ELSE [@ EXCEPT !.pc = "gates", !.todo = scope,
                                                      !.gates = scope]]
  /\ UNCHANGED <<provider, account, rev, budget>>

(* The heads somebody with write permission other than the author has      *)
(* passed the gate at, by the comments as they are.                        *)
PassedBySomeoneElse(g) ==
  {comments[i].sha : i \in {i \in DOMAIN comments :
                              /\ PolarMarker(comments[i], g) /\ comments[i].mark = "PASS"
                              /\ comments[i].author \in Writers \ {PrAuthor}}}

Resolved(c, g) ==
  [c EXCEPT !.todo = @ \ {g}, !.proof = @ \cup ({g} \X PassedBySomeoneElse(g))]

(* resolveGate: each gate reads the head and the comments anew, here in    *)
(* one step, and asks who of their authors may write; whoever it gets no   *)
(* answer about may not.  `proof` keeps what the comments held (history).  *)
ShipGate(s) ==
  /\ ship[s].pc = "gates"
  /\ \E g \in ship[s].todo, answered \in SUBSET Writers :
       ship' = [ship EXCEPT ![s] = IF ResolveVerdict(comments, g, pr.head, answered) = "PASS"
                                     THEN Resolved(@, g) ELSE NoShip]
  /\ UNCHANGED <<provider, account, rev, budget>>

(* readChecks, of the head read at the start. *)
ShipChecks(s) ==
  /\ ship[s].pc = "gates" /\ ship[s].todo = {}
  /\ ship' = [ship EXCEPT ![s] = IF checks[@.head] = "green"
                                   THEN [@ EXCEPT !.pc = "merging"]
                                   ELSE NoShip]
  /\ UNCHANGED <<provider, account, rev, budget>>

(* mergePullRequest: the PUT names no head, so the provider merges the one *)
(* of the moment, accepts without having merged yet, or refuses.  Its      *)
(* answer may be lost.                                                     *)
ShipMerge(s) ==
  /\ ship[s].pc = "merging"
  /\ \E lands \in BOOLEAN :
     LET accepted == pr.open /\ ~pr.draft /\ ~pr.merged
     IN  /\ IF accepted /\ lands
              THEN /\ pr' = [pr EXCEPT !.merged = TRUE, !.open = FALSE]
                   /\ merges' = merges \cup {[by |-> s, head |-> pr.head, read |-> ship[s].head,
                                              gates |-> ship[s].gates,
                                              proof |-> ship[s].proof]}
              ELSE UNCHANGED <<pr, merges>>
         /\ \E answered \in BOOLEAN :
              ship' = [ship EXCEPT ![s] = IF accepted /\ answered
                                            THEN [@ EXCEPT !.pc = "confirming"]
                                            ELSE [NoShip EXCEPT !.outcome = "unconfirmed"]]
  /\ UNCHANGED <<checks, threads, comments, account, rev, budget>>

(* Faulty variant: an accepted merge is reported without reading back. *)
ConfirmUnread(s) ==
  /\ ship[s].pc = "confirming"
  /\ ship' = [ship EXCEPT ![s] = [NoShip EXCEPT !.outcome = "merged"]]
  /\ UNCHANGED <<provider, account, rev, budget>>

(* The merge is reported only when the pull request reads as merged. *)
ShipConfirm(s) ==
  /\ ship[s].pc = "confirming"
  /\ \E readable \in BOOLEAN :
       ship' = [ship EXCEPT ![s] = [NoShip EXCEPT !.outcome =
                  IF readable /\ pr.merged THEN "merged" ELSE "unconfirmed"]]
  /\ UNCHANGED <<provider, account, rev, budget>>

(* A read that fails is UNKNOWN, and refuses. *)
ShipRefuses(s) ==
  /\ ship[s].pc \in {"scoping", "gates"}
  /\ ship' = [ship EXCEPT ![s] = NoShip]
  /\ UNCHANGED <<provider, account, rev, budget>>

-----------------------------------------------------------------------------
Environment == Push \/ ComputeMergeable \/ ThreadChanges \/ PostByHand
Review(r) == \/ ResolveHead(r) \/ FetchHead(r) \/ CheckPost(r) \/ ScanPrior(r)
             \/ WriteVerdict(r) \/ ReviewStops(r) \/ SwitchAccount(r)
Shipping(s) == \/ ShipRead(s) \/ ShipScope(s) \/ ShipGate(s) \/ ShipChecks(s)
               \/ ShipMerge(s) \/ ShipConfirm(s) \/ ShipRefuses(s)

Next ==
  \/ Environment
  \/ \E h \in Heads : CiConclude(h)
  \/ \E r \in Reviewers : Review(r)
  \/ \E s \in Shippers : Shipping(s)

Spec == Init /\ [][Next]_vars

-----------------------------------------------------------------------------
(* Properties. *)

Comment == [author : Logins, gate : Gates, mark : Marks, sha : Heads \cup {NoSha},
            sites : SUBSET Sites, rounds : Nat]

ReviewStates == [pc : {"idle", "resolved", "reading", "checked", "scanned"},
                 gate : Gates, head : Heads \cup {NoSha}, tree : Heads \cup {NoSha},
                 mark : Marks, sites : SUBSET Sites, rounds : Nat, prior : Nat]

ShipStates == [pc : {"idle", "scoping", "gates", "merging", "confirming"},
               head : Heads \cup {NoSha}, todo : SUBSET Gates, gates : SUBSET Gates,
               proof : SUBSET (Gates \X (Heads \cup {NoSha})),
               outcome : {"none", "merged", "unconfirmed"}]

(* Every variable stays in its type. *)
TypeOK ==
  /\ pr \in [open : BOOLEAN, draft : BOOLEAN, merged : BOOLEAN,
             mergeable : {"unknown", "clean"}, head : Heads]
  /\ merges \subseteq [by : Shippers, head : Heads, read : Heads, gates : SUBSET Gates,
                      proof : SUBSET (Gates \X (Heads \cup {NoSha}))]
  /\ checks \in [Heads -> {"none", "green", "red"}]
  /\ threads \subseteq Sites
  /\ comments \in Seq(Comment)
  /\ account \in [Reviewers -> Logins]
  /\ rev \in [Reviewers -> ReviewStates]
  /\ ship \in [Shippers -> ShipStates]
  /\ budget \in 0..MaxMeddling

(* A merge rests, for every gate the command found required, on a PASS     *)
(* that somebody with write permission other than the author gave to a     *)
(* head no older than the one the command started from: resolveVerdict     *)
(* over one gate at a time, while comments and the head keep changing.     *)
EvidenceIsCurrent ==
  \A m \in merges : \A g \in m.gates : \E h \in m.read..m.head : <<g, h>> \in m.proof

(* A merge of the very head the command started from had every gate passed *)
(* there that either side's policy requires, and green checks, unless the  *)
(* caller named the gates itself: requiredGates and evaluate together.     *)
UnmovedHeadIsReviewed ==
  \A m \in merges :
    m.head = m.read =>
      /\ checks[m.head] = "green"
      /\ \/ m.gates \in NamedGates
         \/ \A policy \in {Loaded(BasePolicy).policy, Loaded(PolicyAt[m.head]).policy} :
              \A g \in RequiredNamespaces(FilesAt[m.head], policy) : <<g, m.head>> \in m.proof

(* A reviewer judges the tree of the head its verdict will name, although  *)
(* the head was read in one call and fetched in another: materialize's     *)
(* comparison.                                                             *)
VerdictNamesTheTreeRead ==
  \A r \in Reviewers : rev[r].pc \in {"reading", "checked", "scanned"} => rev[r].tree = rev[r].head

(* A shipper that reports a merge reports one that landed, although the    *)
(* provider may accept a merge without performing it: mergePullRequest's   *)
(* read-back.                                                              *)
ReportedMergeLanded == \A s \in Shippers : ship[s].outcome = "merged" => pr.merged

(* resolveVerdict's comment: "latest-wins, so a newer FAIL vetoes an older *)
(* PASS and a re-review overwrites".  A gate whose last written verdict of *)
(* an independent writer is a FAIL at the head does not resolve to PASS.   *)
NewerFailVetoes ==
  [][\A r \in Reviewers :
       (/\ WriteVerdict(r)
        /\ rev[r].mark = "FAIL" /\ rev[r].head = pr.head
        /\ comments' # comments
        /\ account[r] \in Writers \ {PrAuthor})
         => ResolveVerdict(comments', rev[r].gate, pr.head, Writers) # "PASS"]_vars
=============================================================================
