-------------------------- MODULE ProtectedChange ---------------------------
(***************************************************************************)
(* One pull request in front of the policy gates: the author pushes, people *)
(* review, the roster of the approval authority changes, and the commands   *)
(* of pipeline-cli are run over it, `--policy-ref` naming the base:         *)
(*   trivial-diff route, protected-ownership verify, protected-fanout check *)
(*   cp-cardinality evidence-github-team, then decide.                      *)
(* The first three read the local clone in one go; the evidence is four     *)
(* GitHub reads, and anything may happen between two of them.               *)
(*                                                                          *)
(* A review is [by, state, at]; its place in the sequence is its id.  A     *)
(* change of "policy" or "owners" brings the pull request's own version of  *)
(* them into a checkout of its head.                                        *)
(***************************************************************************)
EXTENDS ChangePolicy

CONSTANTS
  People, Author,
  BaseAgentPolicy,  \* the policy at the base ref
  PushedPolicy,     \* what a change of the policy file makes of it
  BaseOwners,       \* the CODEOWNERS rules at the base
  PushedOwners,     \* and those a change of the file brings
  Changes,          \* what a push may contain
  Rosters,          \* what the approval authority may be at first
  NamespaceOf,      \* path -> review gate
  MaxPushes, MaxReviews, MaxRosterEdits, MaxGathers

\* An approval authority has finitely many members; the policy's threshold is an
\* integer, of whatever sign, before it is judged.
ASSUME ApprovalAssumption ==
  /\ IsFiniteSet(People) /\ Author \in People
  /\ \A r \in Rosters : r \subseteq People
  /\ BaseAgentPolicy.approval.required \in Int
  /\ MaxPushes \in Nat /\ MaxReviews \in Nat /\ MaxRosterEdits \in Nat /\ MaxGathers \in Nat

VARIABLES
  change,     \* what the head changes
  head,       \* its revision
  roster,     \* the approval authority
  reviews,    \* the reviews of the pull request
  waivers,    \* the heads the author's exception comments name
  verdict,    \* what the policy command run last said of this head
  gather,     \* the evidence being read, and what was decided from it
  left        \* what the environment may still do

changeVars == <<change, head, roster, reviews, waivers, verdict, gather, left>>

Unasked == [by |-> "none", says |-> "none"]

NoEvidence == [pc |-> "idle", members |-> {}, pull |-> 0, seen |-> 0, approvals |-> 0,
               waived |-> FALSE, decision |-> "none"]

States == {"APPROVED", "CHANGES_REQUESTED", "COMMENTED", "DISMISSED"}

PostedReview == [by : People, state : States, at : 1..(MaxPushes + 1)]

Evidence == [pc : {"idle", "pull", "reviews", "comments", "decide"}, members : SUBSET People,
             pull : 0..(MaxPushes + 1), seen : Nat, approvals : Nat, waived : BOOLEAN,
             decision : {"none", "discharge", "stop"}]

Means == [pushes : 0..MaxPushes, reviews : 0..MaxReviews, roster : 0..MaxRosterEdits,
          gathers : 0..MaxGathers]

ChangeTypeOK ==
  /\ change \in Changes /\ head \in 1..(MaxPushes + 1)
  /\ roster \subseteq People
  /\ reviews \in Seq(PostedReview)
  /\ waivers \subseteq 1..(MaxPushes + 1)
  /\ verdict \in [by : {"none", "route", "ownership", "fanout"},
                 says : {"none", "review-trivial", "full-review", "pass", "missing", "error"}]
  /\ gather \in Evidence
  /\ left \in Means

ChangeInit ==
  /\ change \in Changes /\ head = 1
  /\ roster \in Rosters /\ reviews = <<>> /\ waivers = {}
  /\ verdict = Unasked /\ gather = NoEvidence
  /\ left = [pushes |-> MaxPushes, reviews |-> MaxReviews, roster |-> MaxRosterEdits,
             gathers |-> MaxGathers]

(***************************************************************************)
(* People.                                                                  *)
(***************************************************************************)
PushChange ==
  /\ left.pushes > 0
  /\ change' \in Changes /\ head' = head + 1
  /\ verdict' = Unasked
  /\ left' = [left EXCEPT !.pushes = @ - 1]
  /\ UNCHANGED <<roster, reviews, waivers, gather>>

PostReview(p, state) ==
  /\ left.reviews > 0
  /\ p # Author
  /\ reviews' = Append(reviews, [by |-> p, state |-> state, at |-> head])
  /\ left' = [left EXCEPT !.reviews = @ - 1]
  /\ UNCHANGED <<change, head, roster, waivers, verdict, gather>>

Dismiss(i) ==
  /\ reviews[i].state = "APPROVED"
  /\ reviews' = [reviews EXCEPT ![i].state = "DISMISSED"]
  /\ UNCHANGED <<change, head, roster, waivers, verdict, gather, left>>

Waive ==
  /\ head \notin waivers /\ waivers' = waivers \cup {head}
  /\ UNCHANGED <<change, head, roster, reviews, verdict, gather, left>>

EditRoster(p) ==
  /\ left.roster > 0
  /\ roster' = IF p \in roster THEN roster \ {p} ELSE roster \cup {p}
  /\ left' = [left EXCEPT !.roster = @ - 1]
  /\ UNCHANGED <<change, head, reviews, waivers, verdict, gather>>

(***************************************************************************)
(* What the commands read of the clone.                                     *)
(***************************************************************************)
\* The checkout the command runs in is the base's or the head's.
TreeOwners(tree) == IF tree = "head" /\ "owners" \in change.paths THEN PushedOwners ELSE BaseOwners

TreePolicy(tree) == IF tree = "head" /\ "policy" \in change.paths THEN PushedPolicy ELSE BaseAgentPolicy

PolicyInTree == TreePolicy("head")

PolicyAtRef == BaseAgentPolicy

Namespaces(paths) == {NamespaceOf[path] : path \in paths}

Answered(command, answer) == [by |-> command, says |-> answer]

Route ==
  /\ verdict.by = "none"
  /\ verdict' = Answered("route", SelectTrivialDiffRoute(change, PolicyAtRef, TRUE, Namespaces(change.paths)))
  /\ UNCHANGED <<change, head, roster, reviews, waivers, gather, left>>

\* The policy is the base's; CODEOWNERS is the file in the checkout.
OwnershipRules(p, tree) == IF p.owners.source = "codeowners" THEN TreeOwners(tree) ELSE p.owners.rules

ApproversAtHead == {p \in People : \E i \in DOMAIN reviews :
                      reviews[i].by = p /\ reviews[i].state = "APPROVED" /\ reviews[i].at = head}

OwnershipCheck(tree) ==
  /\ verdict.by = "none" /\ PolicyAtRef.owners.enabled
  /\ verdict' = Answered("ownership",
       IF ~OwnersTrusted(PolicyAtRef) THEN "error"
       ELSE IF VerifyOwnership(change.paths, OwnershipRules(PolicyAtRef, tree),
                               PolicyAtRef.owners.source, ApproversAtHead)
         THEN "pass" ELSE "missing")
  /\ UNCHANGED <<change, head, roster, reviews, waivers, gather, left>>

FanoutCheck ==
  /\ verdict.by = "none" /\ PolicyAtRef.fanout # {}
  /\ verdict' = Answered("fanout",
       IF ~FanoutTrusted(PolicyAtRef) THEN "error"
       ELSE IF JudgeProtectedFanout(change.paths, {}, PolicyAtRef.fanout)
         THEN "pass" ELSE "missing")
  /\ UNCHANGED <<change, head, roster, reviews, waivers, gather, left>>

(***************************************************************************)
(* cp-cardinality: roster, pull request, reviews, comments, decision.       *)
(***************************************************************************)
pullRequest == <<change, head, roster, reviews, waivers, verdict>>

ReadMembers ==
  /\ gather.pc = "idle" /\ left.gathers > 0 /\ ApprovalTrusted(PolicyAtRef)
  /\ gather' = [NoEvidence EXCEPT !.pc = "pull", !.members = roster]
  /\ left' = [left EXCEPT !.gathers = @ - 1]
  /\ UNCHANGED pullRequest

ReadPull ==
  /\ gather.pc = "pull"
  /\ gather' = [gather EXCEPT !.pc = "reviews", !.pull = head]
  /\ UNCHANGED <<pullRequest, left>>

LatestOf(p) == CHOOSE i \in DOMAIN reviews :
                 /\ reviews[i].by = p
                 /\ \A j \in DOMAIN reviews : reviews[j].by = p => j <= i

FirstApproval(members, pull) ==
  Cardinality({p \in members \ {Author} : \E i \in DOMAIN reviews :
    reviews[i].by = p /\ reviews[i].state = "APPROVED" /\ reviews[i].at = pull})

CountApprovals(members, pull) ==
  Cardinality({p \in members \ {Author} :
    /\ \E i \in DOMAIN reviews : reviews[i].by = p
    /\ reviews[LatestOf(p)].state = "APPROVED" /\ reviews[LatestOf(p)].at = pull})

ReadReviews ==
  /\ gather.pc = "reviews"
  /\ gather' = [gather EXCEPT !.pc = IF PolicyAtRef.approval.exception THEN "comments" ELSE "decide",
                              !.seen = Len(reviews),
                              !.approvals = CountApprovals(gather.members, gather.pull)]
  /\ UNCHANGED <<pullRequest, left>>

ReadComments ==
  /\ gather.pc = "comments"
  /\ gather' = [gather EXCEPT !.pc = "decide", !.waived = gather.pull \in waivers]
  /\ UNCHANGED <<pullRequest, left>>

Decide ==
  /\ gather.pc = "decide"
  /\ gather' = [gather EXCEPT !.pc = "idle",
       !.decision = DecideCpCardinality(gather.members, Author, PolicyAtRef.approval.required,
                                        gather.approvals, gather.waived)]
  /\ UNCHANGED <<pullRequest, left>>

ReadFails ==
  /\ gather.pc # "idle" /\ gather' = NoEvidence
  /\ UNCHANGED <<pullRequest, left>>

ChangeNext ==
  \/ PushChange \/ Waive
  \/ \E p \in People : EditRoster(p)
  \/ \E p \in People, s \in States \ {"DISMISSED"} : PostReview(p, s)
  \/ \E i \in DOMAIN reviews : Dismiss(i)
  \/ Route \/ FanoutCheck
  \/ \E tree \in {"base", "head"} : OwnershipCheck(tree)
  \/ ReadMembers \/ ReadPull \/ ReadReviews \/ ReadComments \/ Decide \/ ReadFails

ChangeSpec == ChangeInit /\ [][ChangeNext]_changeVars

(***************************************************************************)
(* Properties.                                                              *)
(***************************************************************************)
\* What GitHub itself calls an approval of h: a review that no later approval or
\* objection of the same person replaced; comments replace nothing.
Stands(p, h) ==
  \E i \in 1..gather.seen :
    /\ reviews[i].by = p /\ reviews[i].at = h /\ reviews[i].state \in {"APPROVED", "DISMISSED"}
    /\ \A j \in (i + 1)..gather.seen : reviews[j].by = p => reviews[j].state = "COMMENTED"

\* A discharge was earned by the head it names, whatever was pushed, reviewed or edited
\* between the reads: the roster it read held as many people besides the author as the
\* policy asks for whose approval of exactly that head stood when the reviews were
\* read, or it held the author alone, whose exception names that head
\* (cp-cardinality.ts:94-128 over the four reads of evidence-github-team.ts:180-240).
DischargeIsEarned ==
  gather.decision = "discharge" =>
    \/ gather.members = {Author} /\ gather.pull \in waivers
    \/ Cardinality({p \in gather.members \ {Author} : Stands(p, gather.pull)})
         >= BaseAgentPolicy.approval.required

\* The light review and a passing ownership verdict answer for the base, whatever the
\* pull request makes of the policy: a light change is one path outside the base's
\* boundary and its decision records, and a path the base's rules give an owner has the
\* approval of one at this head - as long as CODEOWNERS itself is the base's, for that
\* file is read from the checkout (protected-ownership/command.ts:25).
GatesAnswerForTheBase ==
  /\ verdict.says = "review-trivial" =>
       /\ Cardinality(change.paths) = 1 /\ change.paths \cap BaseAgentPolicy.control = {}
       /\ BaseAgentPolicy.guard.enabled => change.paths \cap BaseAgentPolicy.guard.records = {}
  /\ verdict = Answered("ownership", "pass") /\ "owners" \notin change.paths =>
       LET rules == OwnershipRules(BaseAgentPolicy, "base")
       IN  \A path \in change.paths : Matching(path, rules) # {} =>
             \E p \in OwnersOf(path, rules), i \in DOMAIN reviews :
               reviews[i].by = p /\ reviews[i].at = head
=============================================================================
