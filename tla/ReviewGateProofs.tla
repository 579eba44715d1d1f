-------------------------- MODULE ReviewGateProofs --------------------------
(***************************************************************************)
(* Theorems about reviewing and merging a pull request, for any number of  *)
(* gates, accounts, reviewers, shippers, pushes and comments (ReviewGate), *)
(* about the approval of a protected one, for any people, policies,        *)
(* reviews and pushes (ProtectedChange), about main under the lint guards, *)
(* for any pull requests, edits and milestones (RepoGuards), and about the *)
(* polls of the merge queue, however often it acts (MergeQueue).           *)
(***************************************************************************)
EXTENDS ReviewGate, ProtectedChange, RepoGuards, MergeQueue, FiniteSetTheorems, SequenceTheorems,
        WellFoundedInduction, TLAPS

(* The comment a post will patch is there: comments are never deleted. *)
PriorIsPosted == \A r \in Reviewers : rev[r].prior \in 0..Len(comments)

(* What a shipper knows between its reads: of the gates it has resolved,   *)
(* each was passed at a head since the one it started from; of the head it *)
(* started from, should it still be the head, that the gates are all that  *)
(* are required there; once it merges, that its checks are green.          *)
GatesRequiredAt(h, gates) ==
  \/ gates \in NamedGates
  \/ \A policy \in {Loaded(BasePolicy).policy, Loaded(PolicyAt[h]).policy} :
       RequiredNamespaces(FilesAt[h], policy) \subseteq gates

Knows(c, now, checked) ==
  /\ c.pc \in {"scoping", "gates", "merging"} => c.head \in 0..now
  /\ c.pc \in {"gates", "merging"} =>
       /\ c.todo \subseteq c.gates
       /\ \A g \in c.gates \ c.todo : \E h \in c.head..now : <<g, h>> \in c.proof
       /\ c.head = now => GatesRequiredAt(c.head, c.gates)
  /\ c.pc = "merging" => c.todo = {} /\ checked[c.head] = "green"

ShipperKnows == \A s \in Shippers : Knows(ship[s], pr.head, checks)

GateInv ==
  /\ TypeOK /\ PriorIsPosted /\ ShipperKnows
  /\ EvidenceIsCurrent /\ UnmovedHeadIsReviewed /\ VerdictNamesTheTreeRead /\ ReportedMergeLanded

-----------------------------------------------------------------------------
(* The newest and the oldest of a set of comments are among them. *)
LEMMA SmallestExists ==
  ASSUME NEW S \in SUBSET Nat, S # {}
  PROVE  \E x \in S : \A y \in S : x <= y
<1> DEFINE R == OpToRel(<, Nat)
<1>1. IsWellFoundedOn(R, Nat)
  BY NatLessThanWellFounded
<1>2. PICK x \in S : \A y \in S : ~ (<<y, x>> \in R)
  <2> HIDE DEF R
  <2> QED
    BY <1>1, WFMin
<1>3. \A y \in S : ~ (y < x)
  BY <1>2 DEF OpToRel
<1>4. QED
  BY <1>3

LEMMA NewestIn ==
  ASSUME NEW n \in Nat, NEW S \in SUBSET (1..n), S # {}
  PROVE  Newest(S) \in S
<1> DEFINE T == {n - i : i \in S}
<1>1. T \subseteq Nat
  <2>1. \A i \in S : n - i \in Nat
    OBVIOUS
  <2>2. QED
    BY <2>1
<1>2. T # {}
  OBVIOUS
<1>3. PICK x \in T : \A y \in T : x <= y
  <2> HIDE DEF T
  <2> QED
    BY <1>1, <1>2, SmallestExists
<1>4. PICK i \in S : x = n - i
  BY <1>3
<1>5. ASSUME NEW j \in S
      PROVE  j <= i
  <2>1. n - i <= n - j
    BY <1>3, <1>4
  <2>2. QED
    BY <2>1
<1>6. \E k \in S : \A j \in S : j <= k
  BY <1>5
<1>7. QED
  BY <1>6 DEF Newest

LEMMA OldestIn ==
  ASSUME NEW n \in Nat, NEW S \in SUBSET (1..n), S # {}
  PROVE  Oldest(S) \in S
<1>1. \E k \in S : \A j \in S : k <= j
  BY SmallestExists
<1>2. QED
  BY <1>1 DEF Oldest

(* A gate that resolves to PASS was passed at that very head by somebody   *)
(* with write permission other than the author.                            *)
LEMMA SoundVerdict ==
  ASSUME comments \in Seq(Comment), NEW g, NEW h, NEW W \in SUBSET Writers,
         ResolveVerdict(comments, g, h, W) = "PASS"
  PROVE  h \in PassedBySomeoneElse(g)
<1> DEFINE inNamespace == {i \in DOMAIN comments :
                             comments[i].author \in W /\ PolarMarker(comments[i], g)}
<1> DEFINE candidates == {i \in inNamespace : comments[i].author # PrAuthor}
<1> DEFINE latest == comments[Newest(candidates)]
<1>1. candidates # {} /\ Says(latest, h) = "PASS"
  BY DEF ResolveVerdict
<1>2. Newest(candidates) \in candidates
  <2>1. candidates \in SUBSET (1..Len(comments)) /\ Len(comments) \in Nat
    OBVIOUS
  <2> HIDE DEF candidates
  <2>2. QED
    BY <1>1, <2>1, NewestIn
<1>3. latest.sha = h /\ latest.mark = "PASS"
  BY <1>1 DEF Says, IsBoundToHead
<1>4. QED
  BY <1>2, <1>3 DEF PassedBySomeoneElse

LEMMA PriorMarkerPosted ==
  ASSUME comments \in Seq(Comment), NEW g, NEW login
  PROVE  PriorMarker(comments, g, login) \in 0..Len(comments)
<1> DEFINE own == {i \in DOMAIN comments : comments[i].author = login /\ MarkerIn(comments[i], g)}
<1>1. own \in SUBSET (1..Len(comments)) /\ Len(comments) \in Nat
  OBVIOUS
<1>2. own # {} => Newest(own) \in own
  <2> HIDE DEF own
  <2> QED
    BY <1>1, NewestIn
<1>3. QED
  BY <1>1, <1>2 DEF PriorMarker

LEMMA RoundsTyped ==
  ASSUME comments \in Seq(Comment), NEW g, NEW mark
  PROVE  \A prior \in {RoundsSoFar(comments, g), 0} : Capped(NextRounds(prior, mark)) \in Nat
<1> DEFINE verdicts == {i \in DOMAIN comments : PolarMarker(comments[i], g)}
<1>1. verdicts \in SUBSET (1..Len(comments)) /\ Len(comments) \in Nat
  OBVIOUS
<1>2. verdicts # {} => Oldest(verdicts) \in 1..Len(comments)
  <2> HIDE DEF verdicts
  <2> QED
    BY <1>1, OldestIn
<1>3. verdicts # {} => comments[Oldest(verdicts)].rounds \in Nat
  <2>1. \A i \in 1..Len(comments) : comments[i] \in Comment
    OBVIOUS
  <2>2. \A i \in 1..Len(comments) : comments[i].rounds \in Nat
    BY <2>1 DEF Comment
  <2> HIDE DEF verdicts
  <2>3. QED
    BY <1>2, <2>2
<1>4. RoundsSoFar(comments, g) \in Nat
  BY <1>3 DEF RoundsSoFar
<1>5. QED
  BY <1>4, BoundsAssumption DEF NextRounds, Capped

LEMMA PassesTyped ==
  ASSUME comments \in Seq(Comment), NEW g
  PROVE  PassedBySomeoneElse(g) \subseteq Heads \cup {NoSha}
<1>1. \A i \in DOMAIN comments : comments[i] \in Comment
  OBVIOUS
<1>2. \A i \in DOMAIN comments : comments[i].sha \in Heads \cup {NoSha}
  BY <1>1 DEF Comment
<1>3. QED
  BY <1>2 DEF PassedBySomeoneElse

-----------------------------------------------------------------------------
LEMMA Bounds ==
  MaxHead \in Nat /\ MaxComments \in Nat /\ MaxMeddling \in Nat /\ NoSha \in Int /\ "code" \in Gates
BY BoundsAssumption, GatesAssumption DEF NoSha

LEMMA IdleStates == NoReview \in ReviewStates /\ NoReview.prior = 0 /\ NoShip \in ShipStates
BY Bounds DEF NoReview, ReviewStates, NoShip, ShipStates, Marks

(* A command that moves to a state of the right form keeps the types. *)
LEMMA ReviewerMoves ==
  ASSUME TypeOK, PriorIsPosted, NEW r \in Reviewers,
         NEW v \in ReviewStates, v.prior \in 0..Len(comments),
         rev' = [rev EXCEPT ![r] = v], UNCHANGED <<provider, account, ship, budget>>
  PROVE  TypeOK' /\ PriorIsPosted'
BY DEF TypeOK, PriorIsPosted, provider

LEMMA ShipperMoves ==
  ASSUME TypeOK, PriorIsPosted, NEW s \in Shippers, NEW c \in ShipStates,
         ship' = [ship EXCEPT ![s] = c], UNCHANGED <<provider, account, rev, budget>>
  PROVE  TypeOK' /\ PriorIsPosted'
BY DEF TypeOK, PriorIsPosted, provider

LEMMA ByHandAppends ==
  ASSUME comments \in Seq(Comment), pr.head \in Heads, PostByHand
  PROVE  \E c \in Comment : comments' = Append(comments, c)
<1>1. PICK login \in Logins, gate \in Gates, mark \in Polarities, sha \in {pr.head, NoSha} :
        comments' = Append(comments, [author |-> login, gate |-> gate, mark |-> mark,
                                      sha |-> sha, sites |-> {}, rounds |-> 0])
  BY DEF PostByHand
<1>2. [author |-> login, gate |-> gate, mark |-> mark, sha |-> sha, sites |-> {}, rounds |-> 0]
        \in Comment
  BY DEF Comment, Marks
<1>3. QED
  BY <1>1, <1>2

(* What the environment does keeps the state well formed. *)
LEMMA EnvironmentTyped ==
  ASSUME TypeOK, PriorIsPosted, Environment \/ \E h \in Heads : CiConclude(h)
  PROVE  TypeOK' /\ PriorIsPosted'
<1> USE Bounds DEF TypeOK, PriorIsPosted
<1>1. CASE Push
  <2>1. /\ pr' = [pr EXCEPT !.head = pr.head + 1, !.mergeable = "unknown"] /\ pr.head < MaxHead
        /\ UNCHANGED <<merges, checks, threads, comments, account, rev, ship, budget>>
    BY <1>1 DEF Push
  <2>2. pr.head + 1 \in Heads
    BY <2>1 DEF Heads
  <2>3. QED
    BY <2>1, <2>2
<1>2. CASE ComputeMergeable
  BY <1>2 DEF ComputeMergeable
<1>3. CASE ThreadChanges
  BY <1>3 DEF ThreadChanges
<1>4. CASE PostByHand
  <2>1. pr.head \in Heads
    OBVIOUS
  <2>2. PICK c \in Comment : comments' = Append(comments, c)
    BY <1>4, <2>1, ByHandAppends
  <2>3. comments' \in Seq(Comment) /\ Len(comments') = Len(comments) + 1
    BY <2>2
  <2>4. /\ UNCHANGED <<pr, merges, checks, threads, account, rev, ship>>
        /\ budget > 0 /\ budget' = budget - 1
    BY <1>4 DEF PostByHand
  <2>5. Len(comments) \in Nat /\ budget' \in 0..MaxMeddling
    BY <2>4
  <2>6. QED
    BY <2>3, <2>4, <2>5
<1>5. ASSUME NEW h \in Heads, CiConclude(h)
      PROVE  TypeOK' /\ PriorIsPosted'
  BY <1>5 DEF CiConclude
<1>6. QED
  BY <1>1, <1>2, <1>3, <1>4, <1>5 DEF Environment

LEMMA CheckPostGives ==
  ASSUME NEW r, CheckPost(r)
  PROVE  \E mark \in Marks, named \in IF rev[r].gate = "code" THEN SUBSET threads ELSE {{}},
            prior \in {RoundsSoFar(comments, rev[r].gate), 0} :
           \/ rev' = [rev EXCEPT ![r] = NoReview]
           \/ rev' = [rev EXCEPT ![r] = Composed(rev[r], mark, named, prior)]
BY DEF CheckPost

(* So does what a reviewer does ... *)
LEMMA ReviewTyped ==
  ASSUME TypeOK, PriorIsPosted, NEW r \in Reviewers, Review(r)
  PROVE  TypeOK' /\ PriorIsPosted'
<1> DEFINE here == rev[r]
<1>1. /\ here \in ReviewStates /\ here.prior \in 0..Len(comments)
      /\ pr.head \in Heads /\ comments \in Seq(Comment) /\ Len(comments) \in Nat
  BY DEF TypeOK, PriorIsPosted
<1>2. CASE ResolveHead(r)
  <2>1. PICK g \in Gates :
          rev' = [rev EXCEPT ![r] = [NoReview EXCEPT !.pc = "resolved", !.gate = g, !.head = pr.head]]
    BY <1>2 DEF ResolveHead
  <2>2. [NoReview EXCEPT !.pc = "resolved", !.gate = g, !.head = pr.head] \in ReviewStates
    BY <1>1, IdleStates DEF ReviewStates
  <2>3. QED
    <3> DEFINE v == [NoReview EXCEPT !.pc = "resolved", !.gate = g, !.head = pr.head]
    <3>1. v.prior \in 0..Len(comments)
      BY <1>1 DEF NoReview
    <3>2. rev' = [rev EXCEPT ![r] = v] /\ UNCHANGED <<provider, account, ship, budget>>
      BY <1>2, <2>1 DEF ResolveHead
    <3>3. v \in ReviewStates
      BY <2>2
    <3> HIDE DEF v
    <3>4. QED
      BY <3>1, <3>2, <3>3, ReviewerMoves
<1>3. CASE FetchHead(r)
  <2>1. [here EXCEPT !.pc = "reading", !.tree = pr.head] \in ReviewStates
    BY <1>1 DEF ReviewStates
  <2>2. [here EXCEPT !.pc = "reading", !.tree = pr.head].prior = here.prior
    BY <1>1 DEF ReviewStates
  <2>3. \E v \in ReviewStates : v.prior \in 0..Len(comments) /\ rev' = [rev EXCEPT ![r] = v]
    <3>1. \/ rev' = [rev EXCEPT ![r] = [here EXCEPT !.pc = "reading", !.tree = pr.head]]
          \/ rev' = [rev EXCEPT ![r] = NoReview]
      BY <1>3 DEF FetchHead
    <3>2. CASE rev' = [rev EXCEPT ![r] = NoReview]
      <4>1. NoReview \in ReviewStates /\ NoReview.prior \in 0..Len(comments)
        BY <1>1, IdleStates
      <4>2. QED
        BY <3>2, <4>1
    <3>3. CASE rev' = [rev EXCEPT ![r] = [here EXCEPT !.pc = "reading", !.tree = pr.head]]
      <4> DEFINE v == [here EXCEPT !.pc = "reading", !.tree = pr.head]
      <4>1. v \in ReviewStates /\ v.prior \in 0..Len(comments) /\ rev' = [rev EXCEPT ![r] = v]
        BY <1>1, <2>1, <2>2, <3>3
      <4> HIDE DEF v
      <4>2. QED
        BY <4>1
    <3>4. QED
      BY <3>1, <3>2, <3>3
  <2>4. QED
    BY <1>3, <2>3, ReviewerMoves DEF FetchHead
<1>4. CASE CheckPost(r)
  <2>1. PICK mark \in Marks, named \in IF here.gate = "code" THEN SUBSET threads ELSE {{}},
             prior \in {RoundsSoFar(comments, here.gate), 0} :
          rev' = [rev EXCEPT ![r] = NoReview] \/ rev' = [rev EXCEPT ![r] = Composed(here, mark, named, prior)]
    BY <1>4, CheckPostGives
  <2>2. named \subseteq Sites
    BY DEF TypeOK
  <2>3. Capped(NextRounds(prior, mark)) \in Nat
    BY <1>1, RoundsTyped
  <2> DEFINE v == Composed(here, mark, named, prior)
  <2>4. v \in ReviewStates /\ v.prior = here.prior
    <3> HIDE DEF here
    <3> QED
      BY <1>1, <2>2, <2>3 DEF ReviewStates, Composed
  <2>5. UNCHANGED <<provider, account, ship, budget>>
    BY <1>4 DEF CheckPost
  <2> HIDE DEF v
  <2>6. QED
    BY <1>1, <2>1, <2>4, <2>5, IdleStates, ReviewerMoves DEF v
<1>5. CASE ScanPrior(r)
  <2> DEFINE v == [here EXCEPT !.pc = "scanned",
                               !.prior = PriorMarker(comments, here.gate, account[r])]
  <2>1. PriorMarker(comments, here.gate, account[r]) \in 0..Len(comments)
    BY <1>1, PriorMarkerPosted
  <2>2. v \in ReviewStates /\ v.prior \in 0..Len(comments)
    <3> DEFINE prior == PriorMarker(comments, here.gate, account[r])
    <3>1. prior \in Nat /\ prior \in 0..Len(comments)
      BY <1>1, <2>1
    <3> HIDE DEF prior, here
    <3>2. [here EXCEPT !.pc = "scanned", !.prior = prior] \in ReviewStates
          /\ [here EXCEPT !.pc = "scanned", !.prior = prior].prior = prior
      BY <1>1, <3>1 DEF ReviewStates
    <3>3. QED
      BY <3>1, <3>2 DEF prior
  <2>3. rev' = [rev EXCEPT ![r] = v] /\ UNCHANGED <<provider, account, ship, budget>>
    BY <1>5 DEF ScanPrior
  <2> HIDE DEF v
  <2>4. QED
    BY <2>2, <2>3, ReviewerMoves
<1>6. CASE WriteVerdict(r)
  <2> DEFINE author == IF here.prior = 0 THEN account[r] ELSE comments[here.prior].author
  <2> DEFINE c == [author |-> author, gate |-> here.gate, mark |-> here.mark, sha |-> here.head,
                   sites |-> here.sites, rounds |-> here.rounds]
  <2>1. \A i \in 1..Len(comments) : comments[i].author \in Logins
    <3>1. \A i \in 1..Len(comments) : comments[i] \in Comment
      BY <1>1
    <3>2. QED
      BY <3>1 DEF Comment
  <2>2. author \in Logins
    BY <1>1, <2>1 DEF TypeOK
  <2>3. c \in Comment
    <3> HIDE DEF author, here
    <3> QED
      BY <1>1, <2>2 DEF Comment, ReviewStates
  <2>4. /\ comments' = IF here.prior = 0 THEN Append(comments, c)
                                        ELSE [comments EXCEPT ![here.prior] = c]
        /\ rev' = [rev EXCEPT ![r] = NoReview]
        /\ UNCHANGED <<pr, merges, checks, threads, account, ship, budget>>
    BY <1>6 DEF WriteVerdict
  <2> HIDE DEF c
  <2>5. comments' \in Seq(Comment) /\ Len(comments') >= Len(comments) /\ Len(comments') \in Nat
    BY <1>1, <2>3, <2>4
  <2>6. QED
    BY <1>1, <2>4, <2>5, IdleStates DEF TypeOK, PriorIsPosted
<1>7. CASE ReviewStops(r)
  <2>1. rev' = [rev EXCEPT ![r] = NoReview] /\ UNCHANGED <<provider, account, ship, budget>>
    BY <1>7 DEF ReviewStops
  <2>2. NoReview \in ReviewStates /\ NoReview.prior \in 0..Len(comments)
    BY <1>1, IdleStates
  <2>3. QED
    BY <2>1, <2>2, ReviewerMoves
<1>8. CASE SwitchAccount(r)
  BY <1>8, Bounds DEF SwitchAccount, TypeOK, PriorIsPosted, provider
<1>9. QED
  BY <1>2, <1>3, <1>4, <1>5, <1>6, <1>7, <1>8 DEF Review

LEMMA ScopeTyped ==
  ASSUME NEW named \in NamedGates, NEW files, NEW h
  PROVE  RequiredGates(named, files, h) \in SUBSET Gates
BY Bounds, NamedAssumption DEF RequiredGates, PrGateScope, RequiredNamespaces

(* ... and a shipper. *)
LEMMA ShippingTyped ==
  ASSUME TypeOK, PriorIsPosted, ShipperKnows, NEW s \in Shippers, Shipping(s)
  PROVE  TypeOK' /\ PriorIsPosted'
<1> DEFINE here == ship[s]
<1>1. here \in ShipStates /\ pr.head \in Heads /\ comments \in Seq(Comment) /\ NoShip \in ShipStates
  BY IdleStates DEF TypeOK
<1>2. CASE ShipRead(s)
  <2> DEFINE c == [NoShip EXCEPT !.pc = "scoping", !.head = pr.head]
  <2>1. c \in ShipStates
    BY <1>1 DEF ShipStates
  <2>2. ship' = [ship EXCEPT ![s] = c] \/ ship' = [ship EXCEPT ![s] = NoShip]
    BY <1>2 DEF ShipRead
  <2>3. UNCHANGED <<provider, account, rev, budget>>
    BY <1>2 DEF ShipRead
  <2> HIDE DEF c
  <2>4. QED
    BY <1>1, <2>1, <2>2, <2>3, ShipperMoves
<1>3. CASE ShipScope(s)
  <2>1. PICK scope \in SUBSET Gates :
          ship' = [ship EXCEPT ![s] = IF scope = {} THEN NoShip
                                      ELSE [ship[s] EXCEPT !.pc = "gates", !.todo = scope,
                                                           !.gates = scope]]
    BY <1>3, ScopeTyped DEF ShipScope
  <2> DEFINE c == IF scope = {} THEN NoShip
                  ELSE [ship[s] EXCEPT !.pc = "gates", !.todo = scope, !.gates = scope]
  <2>2. c \in ShipStates
    BY <1>1 DEF ShipStates
  <2>3. UNCHANGED <<provider, account, rev, budget>>
    BY <1>3 DEF ShipScope
  <2> HIDE DEF c
  <2>4. QED
    BY <2>1, <2>2, <2>3, ShipperMoves DEF c
<1>4. CASE ShipGate(s)
  <2>1. PICK g \in here.todo, W \in SUBSET Writers :
          ship' = [ship EXCEPT ![s] = Resolved(here, g)] \/ ship' = [ship EXCEPT ![s] = NoShip]
    BY <1>4 DEF ShipGate
  <2>2. g \in Gates
    BY <1>1 DEF ShipStates
  <2>3. {g} \X PassedBySomeoneElse(g) \subseteq Gates \X (Heads \cup {NoSha})
    BY <1>1, <2>2, PassesTyped
  <2>4. Resolved(here, g) \in ShipStates
    <3> HIDE DEF here
    <3> QED
      BY <1>1, <2>3 DEF ShipStates, Resolved
  <2>5. UNCHANGED <<provider, account, rev, budget>>
    BY <1>4 DEF ShipGate
  <2>6. QED
    BY <1>1, <2>1, <2>4, <2>5, ShipperMoves
<1>5. CASE ShipChecks(s)
  <2> DEFINE c == [here EXCEPT !.pc = "merging"]
  <2>1. c \in ShipStates
    BY <1>1 DEF ShipStates
  <2>2. ship' = [ship EXCEPT ![s] = c] \/ ship' = [ship EXCEPT ![s] = NoShip]
    BY <1>5 DEF ShipChecks
  <2>3. UNCHANGED <<provider, account, rev, budget>>
    BY <1>5 DEF ShipChecks
  <2> HIDE DEF c
  <2>4. QED
    BY <1>1, <2>1, <2>2, <2>3, ShipperMoves
<1>6. CASE ShipMerge(s)
  <2> DEFINE c == [here EXCEPT !.pc = "confirming"]
  <2> DEFINE lost == [NoShip EXCEPT !.outcome = "unconfirmed"]
  <2>1. c \in ShipStates /\ lost \in ShipStates
    BY <1>1 DEF ShipStates
  <2>2. ship' = [ship EXCEPT ![s] = c] \/ ship' = [ship EXCEPT ![s] = lost]
    BY <1>6 DEF ShipMerge
  <2>3. UNCHANGED <<checks, threads, comments, account, rev, budget>>
    BY <1>6 DEF ShipMerge
  <2> HIDE DEF c, lost
  <2>4. ship' \in [Shippers -> ShipStates]
    BY <2>1, <2>2 DEF TypeOK
  <2>5. CASE UNCHANGED <<pr, merges>>
    BY <2>3, <2>4, <2>5 DEF TypeOK, PriorIsPosted
  <2>6. CASE /\ pr' = [pr EXCEPT !.merged = TRUE, !.open = FALSE]
             /\ merges' = merges \cup {[by |-> s, head |-> pr.head, read |-> ship[s].head,
                                        gates |-> ship[s].gates, proof |-> ship[s].proof]}
             /\ ship[s].head \in Heads
    <3>1. [by |-> s, head |-> pr.head, read |-> ship[s].head,
           gates |-> ship[s].gates, proof |-> ship[s].proof]
            \in [by : Shippers, head : Heads, read : Heads, gates : SUBSET Gates,
                 proof : SUBSET (Gates \X (Heads \cup {NoSha}))]
      BY <1>1, <2>6 DEF ShipStates
    <3>2. QED
      BY <2>3, <2>4, <2>6, <3>1 DEF TypeOK, PriorIsPosted
  <2>7. ship[s].head \in Heads
    BY <1>1, <1>6, Bounds DEF ShipMerge, ShipperKnows, Knows, Heads
  <2>8. QED
    BY <1>6, <2>5, <2>6, <2>7 DEF ShipMerge
<1>7. CASE ShipConfirm(s)
  <2>1. PICK outcome \in {"merged", "unconfirmed"} :
          ship' = [ship EXCEPT ![s] = [NoShip EXCEPT !.outcome = outcome]]
    BY <1>7 DEF ShipConfirm
  <2> DEFINE c == [NoShip EXCEPT !.outcome = outcome]
  <2>2. c \in ShipStates
    BY <1>1 DEF ShipStates
  <2>3. UNCHANGED <<provider, account, rev, budget>>
    BY <1>7 DEF ShipConfirm
  <2> HIDE DEF c
  <2>4. QED
    BY <2>1, <2>2, <2>3, ShipperMoves DEF c
<1>8. CASE ShipRefuses(s)
  BY <1>1, <1>8, ShipperMoves DEF ShipRefuses
<1>9. QED
  BY <1>2, <1>3, <1>4, <1>5, <1>6, <1>7, <1>8 DEF Shipping

-----------------------------------------------------------------------------
(* The head only moves forward, a check that is green stays so, and what   *)
(* is merged stays merged.                                                 *)
LEMMA Onward ==
  ASSUME TypeOK, [Next]_vars
  PROVE  /\ pr'.head \in Heads /\ pr.head <= pr'.head
         /\ pr.merged => pr'.merged
         /\ \A h \in Heads : checks[h] = "green" => checks'[h] = "green"
<1> USE Bounds DEF TypeOK
<1>1. CASE Push
  BY <1>1 DEF Push, Heads
<1>2. CASE ComputeMergeable
  BY <1>2 DEF ComputeMergeable, Heads
<1>3. ASSUME NEW h \in Heads, CiConclude(h)
      PROVE  pr' = pr /\ \A k \in Heads : checks[k] = "green" => checks'[k] = "green"
  BY <1>3 DEF CiConclude
<1>4. CASE ThreadChanges \/ PostByHand
  BY <1>4 DEF ThreadChanges, PostByHand, Heads
<1>5. ASSUME NEW r \in Reviewers, Review(r)
      PROVE  UNCHANGED <<pr, checks>>
  BY <1>5 DEF Review, ResolveHead, FetchHead, CheckPost, ScanPrior, WriteVerdict, ReviewStops,
              SwitchAccount, provider
<1>6. ASSUME NEW s \in Shippers, Shipping(s), ~ ShipMerge(s)
      PROVE  UNCHANGED <<pr, checks>>
  BY <1>6 DEF Shipping, ShipRead, ShipScope, ShipGate, ShipChecks, ShipConfirm, ShipRefuses, provider
<1>7. ASSUME NEW s \in Shippers, ShipMerge(s)
      PROVE  pr'.head = pr.head /\ (pr.merged => pr'.merged) /\ UNCHANGED checks
  BY <1>7 DEF ShipMerge
<1>8. CASE UNCHANGED vars
  BY <1>8 DEF vars, Heads
<1>9. QED
  BY <1>1, <1>2, <1>3, <1>4, <1>5, <1>6, <1>7, <1>8 DEF Next, Environment, Heads

LEMMA KnowsLater ==
  ASSUME NEW c \in ShipStates, NEW now \in Heads, NEW later \in Heads, now <= later,
         NEW checked, NEW then, \A h \in Heads : checked[h] = "green" => then[h] = "green",
         Knows(c, now, checked)
  PROVE  Knows(c, later, then)
<1> USE Bounds DEF Heads
<1>1. c.pc \in {"scoping", "gates", "merging"} => c.head \in 0..now /\ c.head \in Heads
  BY DEF Knows
<1>2. c.pc \in {"scoping", "gates", "merging"} /\ c.head = later => c.head = now
  BY <1>1
<1>3. c.pc \in {"scoping", "gates", "merging"} => c.head..now \subseteq c.head..later
  BY <1>1
<1>4. QED
  BY <1>1, <1>2, <1>3 DEF Knows

-----------------------------------------------------------------------------
(* A shipper's step leaves it knowing what it acts on next. *)
LEMMA ShippingKnows ==
  ASSUME TypeOK, ShipperKnows, NEW s \in Shippers, Shipping(s)
  PROVE  \E c : ship' = [ship EXCEPT ![s] = c] /\ Knows(c, pr.head, checks)
<1> DEFINE here == ship[s]
<1>1. here \in ShipStates /\ pr.head \in Heads /\ Knows(here, pr.head, checks)
      /\ comments \in Seq(Comment)
  BY DEF TypeOK, ShipperKnows
<1>2. \A outcome : Knows([NoShip EXCEPT !.outcome = outcome], pr.head, checks)
  BY DEF Knows, NoShip
<1>3. Knows(NoShip, pr.head, checks)
  BY DEF Knows, NoShip
<1>4. CASE ShipRead(s)
  <2> DEFINE c == [NoShip EXCEPT !.pc = "scoping", !.head = pr.head]
  <2>1. Knows(c, pr.head, checks)
    BY <1>1, Bounds DEF Knows, NoShip, Heads
  <2>2. ship' = [ship EXCEPT ![s] = c] \/ ship' = [ship EXCEPT ![s] = NoShip]
    BY <1>4 DEF ShipRead
  <2>3. QED
    BY <1>3, <2>1, <2>2
<1>5. CASE ShipScope(s)
  <2>1. PICK named \in NamedGates :
          \/ ship' = [ship EXCEPT ![s] = NoShip]
          \/ /\ RequiredGates(named, FilesAt[pr.head], here.head) # {}
             /\ ship' = [ship EXCEPT ![s] =
                  [here EXCEPT !.pc = "gates",
                               !.todo = RequiredGates(named, FilesAt[pr.head], here.head),
                               !.gates = RequiredGates(named, FilesAt[pr.head], here.head)]]
    BY <1>5 DEF ShipScope
  <2> DEFINE scope == RequiredGates(named, FilesAt[pr.head], here.head)
  <2> DEFINE c == [here EXCEPT !.pc = "gates", !.todo = scope, !.gates = scope]
  <2>2. here.head \in 0..pr.head
    BY <1>1, <1>5 DEF ShipScope, Knows
  <2>3. here.head = pr.head /\ scope # {} => GatesRequiredAt(here.head, scope)
    BY DEF RequiredGates, GatesRequiredAt, PrGateScope
  <2>4. scope # {} => Knows(c, pr.head, checks)
    <3>1. /\ c.pc = "gates" /\ c.todo = scope /\ c.gates = scope /\ c.head = here.head
      <4> HIDE DEF scope, here
      <4> QED
        BY <1>1 DEF ShipStates
    <3> HIDE DEF c, scope, here
    <3>2. QED
      BY <2>2, <2>3, <3>1 DEF Knows
  <2> HIDE DEF c
  <2>5. QED
    BY <1>3, <2>1, <2>4 DEF c
<1>6. CASE ShipGate(s)
  <2>1. PICK g \in here.todo, W \in SUBSET Writers :
          \/ ship' = [ship EXCEPT ![s] = NoShip]
          \/ /\ ResolveVerdict(comments, g, pr.head, W) = "PASS"
             /\ ship' = [ship EXCEPT ![s] = Resolved(here, g)]
    BY <1>6 DEF ShipGate
  <2>2. ResolveVerdict(comments, g, pr.head, W) = "PASS" => Knows(Resolved(here, g), pr.head, checks)
    <3> SUFFICES ASSUME ResolveVerdict(comments, g, pr.head, W) = "PASS"
                 PROVE  Knows(Resolved(here, g), pr.head, checks)
      OBVIOUS
    <3> DEFINE c == Resolved(here, g)
    <3>1. pr.head \in PassedBySomeoneElse(g)
      BY <1>1, SoundVerdict
    <3>2. /\ c.pc = here.pc /\ c.head = here.head /\ c.gates = here.gates
          /\ c.todo = here.todo \ {g}
          /\ c.proof = here.proof \cup ({g} \X PassedBySomeoneElse(g))
      <4> HIDE DEF here
      <4> QED
        BY <1>1 DEF ShipStates, Resolved
    <3>3. here.pc = "gates" /\ here.head \in 0..pr.head /\ pr.head \in here.head..pr.head
      BY <1>1, <1>6, Bounds DEF ShipGate, Knows, Heads
    <3>4. <<g, pr.head>> \in c.proof
      BY <3>1, <3>2
    <3> HIDE DEF c, here
    <3>5. c.todo \subseteq c.gates
      BY <1>1, <3>2, <3>3 DEF Knows
    <3>6. ASSUME NEW k \in c.gates \ c.todo
          PROVE  \E h \in c.head..pr.head : <<k, h>> \in c.proof
      <4>1. CASE k = g
        BY <3>2, <3>3, <3>4, <4>1
      <4>2. CASE k # g
        <5>1. k \in here.gates \ here.todo
          BY <3>2, <4>2
        <5>2. PICK h \in here.head..pr.head : <<k, h>> \in here.proof
          BY <1>1, <3>3, <5>1 DEF Knows
        <5>3. QED
          BY <3>2, <5>2
      <4>3. QED
        BY <4>1, <4>2
    <3>7. c.head = pr.head => GatesRequiredAt(c.head, c.gates)
      BY <1>1, <3>2, <3>3 DEF Knows
    <3>8. QED
      BY <3>2, <3>3, <3>5, <3>6, <3>7 DEF Knows, c
  <2>3. QED
    BY <1>3, <2>1, <2>2
<1>7. CASE ShipChecks(s)
  <2> DEFINE c == [here EXCEPT !.pc = "merging"]
  <2>1. \/ ship' = [ship EXCEPT ![s] = NoShip]
        \/ checks[here.head] = "green" /\ ship' = [ship EXCEPT ![s] = c]
    BY <1>7 DEF ShipChecks
  <2>2. /\ c.pc = "merging" /\ c.head = here.head /\ c.gates = here.gates
        /\ c.todo = here.todo /\ c.proof = here.proof
    BY <1>1 DEF ShipStates
  <2>3. here.pc = "gates" /\ here.todo = {}
    BY <1>7 DEF ShipChecks
  <2>4. checks[here.head] = "green" => Knows(c, pr.head, checks)
    <3> HIDE DEF c, here
    <3> QED
      BY <1>1, <2>2, <2>3 DEF Knows
  <2>5. QED
    BY <1>3, <2>1, <2>4
<1>8. CASE ShipMerge(s)
  <2> DEFINE c == [here EXCEPT !.pc = "confirming"]
  <2>1. \/ ship' = [ship EXCEPT ![s] = c]
        \/ ship' = [ship EXCEPT ![s] = [NoShip EXCEPT !.outcome = "unconfirmed"]]
    BY <1>8 DEF ShipMerge
  <2>2. c.pc = "confirming"
    BY <1>1 DEF ShipStates
  <2>3. Knows(c, pr.head, checks)
    <3> HIDE DEF c
    <3> QED
      BY <2>2 DEF Knows
  <2>4. QED
    BY <1>2, <2>1, <2>3
<1>9. CASE ShipConfirm(s)
  BY <1>2, <1>9 DEF ShipConfirm
<1>10. CASE ShipRefuses(s)
  BY <1>3, <1>10 DEF ShipRefuses
<1>11. QED
  BY <1>4, <1>5, <1>6, <1>7, <1>8, <1>9, <1>10 DEF Shipping

LEMMA TypedStep ==
  ASSUME TypeOK, PriorIsPosted, ShipperKnows, [Next]_vars
  PROVE  TypeOK' /\ PriorIsPosted'
<1>1. CASE UNCHANGED vars
  BY <1>1 DEF vars, TypeOK, PriorIsPosted
<1>2. QED
  BY <1>1, EnvironmentTyped, ReviewTyped, ShippingTyped DEF Next

LEMMA KnowsStep ==
  ASSUME TypeOK, ShipperKnows, [Next]_vars
  PROVE  ShipperKnows'
<1>1. ship \in [Shippers -> ShipStates] /\ pr.head \in Heads
  BY DEF TypeOK
<1>2. ASSUME ship' = ship
      PROVE  ShipperKnows'
  BY <1>1, <1>2, Onward, KnowsLater DEF ShipperKnows
<1>3. ASSUME NEW s \in Shippers, Shipping(s)
      PROVE  ShipperKnows'
  <2>1. PICK c : ship' = [ship EXCEPT ![s] = c] /\ Knows(c, pr.head, checks)
    BY <1>3, ShippingKnows
  <2>2. pr'.head = pr.head /\ checks' = checks
    BY <1>3 DEF TypeOK, Shipping, ShipRead, ShipScope, ShipGate, ShipChecks, ShipMerge, ShipConfirm,
                ShipRefuses, provider
  <2>3. \A t \in Shippers : Knows(ship'[t], pr.head, checks)
    BY <1>1, <2>1 DEF ShipperKnows
  <2>4. QED
    BY <2>2, <2>3 DEF ShipperKnows
<1>4. ASSUME NEW r \in Reviewers, Review(r)
      PROVE  ship' = ship
  BY <1>4 DEF Review, ResolveHead, FetchHead, CheckPost, ScanPrior, WriteVerdict, ReviewStops,
              SwitchAccount
<1>5. ASSUME Environment \/ (\E h \in Heads : CiConclude(h)) \/ UNCHANGED vars
      PROVE  ship' = ship
  BY <1>5 DEF Environment, Push, ComputeMergeable, ThreadChanges, PostByHand, CiConclude, vars
<1>6. QED
  BY <1>2, <1>3, <1>4, <1>5 DEF Next

(* What is merged is merged on what its shipper knew then. *)
LEMMA MergesStep ==
  ASSUME TypeOK, ShipperKnows, EvidenceIsCurrent, UnmovedHeadIsReviewed, [Next]_vars
  PROVE  EvidenceIsCurrent' /\ UnmovedHeadIsReviewed'
<1>1. \A m \in merges : m.head \in Heads
  BY DEF TypeOK
<1>2. \A h \in Heads : checks[h] = "green" => checks'[h] = "green"
  BY Onward
<1>3. CASE merges' = merges
  BY <1>1, <1>2, <1>3 DEF EvidenceIsCurrent, UnmovedHeadIsReviewed
<1>4. ASSUME NEW s \in Shippers, ShipMerge(s), merges' # merges
      PROVE  EvidenceIsCurrent' /\ UnmovedHeadIsReviewed'
  <2> DEFINE c == ship[s]
  <2> DEFINE new == [by |-> s, head |-> pr.head, read |-> c.head, gates |-> c.gates,
                     proof |-> c.proof]
  <2>1. merges' = merges \cup {new} /\ checks' = checks
    BY <1>4 DEF ShipMerge
  <2>2. /\ c.head \in 0..pr.head /\ checks[c.head] = "green"
        /\ \A g \in c.gates : \E h \in c.head..pr.head : <<g, h>> \in c.proof
        /\ c.head = pr.head => GatesRequiredAt(c.head, c.gates)
    BY <1>4 DEF ShipMerge, ShipperKnows, Knows
  <2>3. \A g \in new.gates : \E h \in new.read..new.head : <<g, h>> \in new.proof
    BY <2>2
  <2>4. ASSUME new.head = new.read
        PROVE  /\ checks[new.head] = "green"
               /\ GatesRequiredAt(new.head, new.gates)
               /\ \A g \in new.gates : <<g, new.head>> \in new.proof
    <3>1. c.head = pr.head /\ pr.head \in Int
      BY <2>4, Bounds DEF TypeOK, Heads
    <3>2. \A h \in c.head..pr.head : h = pr.head
      BY <3>1
    <3>3. QED
      BY <2>2, <3>1, <3>2
  <2> HIDE DEF new
  <2>5. EvidenceIsCurrent'
    BY <2>1, <2>3 DEF EvidenceIsCurrent
  <2>6. UnmovedHeadIsReviewed'
    BY <2>1, <2>4 DEF UnmovedHeadIsReviewed, GatesRequiredAt
  <2>7. QED
    BY <2>5, <2>6
<1>5. merges' = merges \/ \E s \in Shippers : ShipMerge(s)
  BY DEF Next, Environment, Push, ComputeMergeable, ThreadChanges, PostByHand, CiConclude, vars,
         Review, ResolveHead, FetchHead, CheckPost, ScanPrior, WriteVerdict, ReviewStops,
         SwitchAccount, Shipping, ShipRead, ShipScope, ShipGate, ShipChecks, ShipConfirm,
         ShipRefuses, provider
<1>6. QED
  BY <1>3, <1>4, <1>5

LEMMA VerdictStep ==
  ASSUME TypeOK, VerdictNamesTheTreeRead, [Next]_vars
  PROVE  VerdictNamesTheTreeRead'
<1> USE DEF TypeOK, VerdictNamesTheTreeRead
<1>1. ASSUME NEW r \in Reviewers, Review(r)
      PROVE  VerdictNamesTheTreeRead'
  <2> DEFINE here == rev[r]
  <2>1. NoReview.pc = "idle" /\ here \in ReviewStates
    BY DEF NoReview
  <2>2. CASE ResolveHead(r)
    <3>1. PICK g \in Gates :
            rev' = [rev EXCEPT ![r] = [NoReview EXCEPT !.pc = "resolved", !.gate = g, !.head = pr.head]]
      BY <2>2 DEF ResolveHead
    <3>2. [NoReview EXCEPT !.pc = "resolved", !.gate = g, !.head = pr.head].pc = "resolved"
      BY DEF NoReview
    <3>3. QED
      BY <3>1, <3>2
  <2>3. CASE FetchHead(r)
    <3>1. \/ rev' = [rev EXCEPT ![r] = NoReview]
          \/ /\ rev' = [rev EXCEPT ![r] = [here EXCEPT !.pc = "reading", !.tree = pr.head]]
             /\ pr.head = here.head
      BY <2>3 DEF FetchHead
    <3>2. /\ [here EXCEPT !.pc = "reading", !.tree = pr.head].tree = pr.head
          /\ [here EXCEPT !.pc = "reading", !.tree = pr.head].head = here.head
      BY <2>1 DEF ReviewStates
    <3>3. QED
      BY <2>1, <3>1, <3>2
  <2>4. CASE CheckPost(r) \/ ScanPrior(r)
    <3>1. /\ rev'[r].pc = "idle" \/ (rev'[r].tree = here.tree /\ rev'[r].head = here.head)
          /\ here.pc \in {"reading", "checked"}
          /\ \A k \in Reviewers \ {r} : rev'[k] = rev[k]
      <4>1. CASE CheckPost(r)
        <5>1. PICK mark \in Marks, named \in IF here.gate = "code" THEN SUBSET threads ELSE {{}},
             prior \in {RoundsSoFar(comments, here.gate), 0} :
                \/ rev' = [rev EXCEPT ![r] = NoReview]
                \/ rev' = [rev EXCEPT ![r] = Composed(here, mark, named, prior)]
          BY <4>1, CheckPostGives
        <5>2. Composed(here, mark, named, prior).tree = here.tree
              /\ Composed(here, mark, named, prior).head = here.head
          BY <2>1 DEF ReviewStates, Composed
        <5>3. QED
          BY <2>1, <4>1, <5>1, <5>2 DEF CheckPost
      <4>2. CASE ScanPrior(r)
        <5> DEFINE v == [here EXCEPT !.pc = "scanned",
                                     !.prior = PriorMarker(comments, here.gate, account[r])]
        <5>1. v.tree = here.tree /\ v.head = here.head
          BY <2>1 DEF ReviewStates
        <5>2. rev' = [rev EXCEPT ![r] = v] /\ here.pc = "checked"
          BY <4>2 DEF ScanPrior
        <5> HIDE DEF v
        <5>3. QED
          BY <5>1, <5>2
      <4>3. QED
        BY <2>4, <4>1, <4>2
    <3>2. QED
      BY <3>1
  <2>5. CASE WriteVerdict(r) \/ ReviewStops(r)
    BY <2>1, <2>5 DEF WriteVerdict, ReviewStops
  <2>6. CASE SwitchAccount(r)
    BY <2>6 DEF SwitchAccount
  <2>7. QED
    BY <1>1, <2>2, <2>3, <2>4, <2>5, <2>6 DEF Review
<1>2. ASSUME NEW s \in Shippers, Shipping(s)
      PROVE  rev' = rev
  BY <1>2 DEF Shipping, ShipRead, ShipScope, ShipGate, ShipChecks, ShipMerge, ShipConfirm, ShipRefuses
<1>3. ASSUME Environment \/ (\E h \in Heads : CiConclude(h)) \/ UNCHANGED vars
      PROVE  rev' = rev
  BY <1>3 DEF Environment, Push, ComputeMergeable, ThreadChanges, PostByHand, CiConclude, vars
<1>4. QED
  BY <1>1, <1>2, <1>3 DEF Next

LEMMA ReportStep ==
  ASSUME TypeOK, ReportedMergeLanded, [Next]_vars
  PROVE  ReportedMergeLanded'
<1> USE DEF TypeOK, ReportedMergeLanded
<1>1. pr.merged => pr'.merged
  BY Onward
<1>2. CASE ship' = ship
  BY <1>1, <1>2
<1>3. ASSUME NEW s \in Shippers, Shipping(s)
      PROVE  ReportedMergeLanded'
  <2>1. ship'[s].outcome = "merged" => pr'.merged
    <3>1. NoShip.outcome = "none" /\ ship[s] \in ShipStates
      BY DEF NoShip
    <3>2. CASE ShipRead(s)
      BY <3>1, <3>2 DEF ShipRead, NoShip
    <3>3. CASE ShipScope(s)
      BY <1>1, <3>1, <3>3 DEF ShipScope, ShipStates
    <3>4. CASE ShipGate(s)
      <4>1. \A g : Resolved(ship[s], g).outcome = ship[s].outcome
        BY <3>1 DEF Resolved, ShipStates
      <4>2. QED
        BY <1>1, <3>1, <3>4, <4>1 DEF ShipGate
    <3>5. CASE ShipChecks(s)
      BY <1>1, <3>1, <3>5 DEF ShipChecks, ShipStates
    <3>6. CASE ShipMerge(s)
      BY <1>1, <3>1, <3>6 DEF ShipMerge, ShipStates, NoShip
    <3>7. CASE ShipConfirm(s)
      BY <1>1, <3>7 DEF ShipConfirm, NoShip
    <3>8. CASE ShipRefuses(s)
      BY <3>1, <3>8 DEF ShipRefuses
    <3>9. QED
      BY <1>3, <3>2, <3>3, <3>4, <3>5, <3>6, <3>7, <3>8 DEF Shipping
  <2>2. \A t \in Shippers \ {s} : ship'[t] = ship[t]
    BY <1>3 DEF Shipping, ShipRead, ShipScope, ShipGate, ShipChecks, ShipMerge, ShipConfirm,
                ShipRefuses
  <2>3. QED
    BY <1>1, <2>1, <2>2
<1>4. ship' = ship \/ \E s \in Shippers : Shipping(s)
  BY DEF Next, Environment, Push, ComputeMergeable, ThreadChanges, PostByHand, CiConclude, vars,
         Review, ResolveHead, FetchHead, CheckPost, ScanPrior, WriteVerdict, ReviewStops,
         SwitchAccount
<1>5. QED
  BY <1>2, <1>3, <1>4

LEMMA InitGateInv == Init => GateInv
<1>1. ASSUME Init
      PROVE  TypeOK /\ PriorIsPosted
  BY <1>1, Bounds, AccountAssumption, IdleStates DEF Init, TypeOK, PriorIsPosted, Heads
<1>2. ASSUME Init
      PROVE  ShipperKnows /\ EvidenceIsCurrent /\ UnmovedHeadIsReviewed
             /\ VerdictNamesTheTreeRead /\ ReportedMergeLanded
  BY <1>2 DEF Init, ShipperKnows, Knows, EvidenceIsCurrent, UnmovedHeadIsReviewed,
              VerdictNamesTheTreeRead, ReportedMergeLanded, NoShip, NoReview
<1>3. QED
  BY <1>1, <1>2 DEF GateInv

(* The invariant holds in every state. *)
THEOREM GateInvariant == Spec => []GateInv
<1>1. Init => GateInv
  BY InitGateInv
<1>2. GateInv /\ [Next]_vars => GateInv'
  BY TypedStep, KnowsStep, MergesStep, VerdictStep, ReportStep DEF GateInv
<1>3. QED
  BY <1>1, <1>2, PTL DEF Spec

(* Every variable stays in its type, at any number of pushes and comments: *)
(* what `verdict post` patches is a comment that is there.                 *)
THEOREM TypeCorrect == Spec => []TypeOK
<1>1. GateInv => TypeOK
  BY DEF GateInv
<1>2. QED
  BY <1>1, GateInvariant, PTL

(* A merge rests, on every gate its command found required, on a PASS by   *)
(* somebody with write permission other than the author at a head since    *)
(* the one the command started from: `ship-it merge` over one gate at a    *)
(* time.                                                                   *)
THEOREM MergeEvidenceCurrent == Spec => []EvidenceIsCurrent
<1>1. GateInv => EvidenceIsCurrent
  BY DEF GateInv
<1>2. QED
  BY <1>1, GateInvariant, PTL

(* A merge of the head its command started from had green checks and a     *)
(* PASS there on every gate that either side's policy requires.            *)
THEOREM UnmovedHeadReviewed == Spec => []UnmovedHeadIsReviewed
<1>1. GateInv => UnmovedHeadIsReviewed
  BY DEF GateInv
<1>2. QED
  BY <1>1, GateInvariant, PTL

(* A verdict names the head whose tree was read: review-head materialize.  *)
THEOREM VerdictTreeRead == Spec => []VerdictNamesTheTreeRead
<1>1. GateInv => VerdictNamesTheTreeRead
  BY DEF GateInv
<1>2. QED
  BY <1>1, GateInvariant, PTL

(* A merge reported by `ship-it merge` has landed. *)
THEOREM ReportedMerge == Spec => []ReportedMergeLanded
<1>1. GateInv => ReportedMergeLanded
  BY DEF GateInv
<1>2. QED
  BY <1>1, GateInvariant, PTL

-----------------------------------------------------------------------------
(***************************************************************************)
(* The approval of a protected change (ProtectedChange).                    *)
(*                                                                          *)
(* The evidence in hand knows, of each of its reads, what still holds at    *)
(* the later ones: the reviews it saw are all there, those it counted stand, *)
(* and an exception it took names the head it judges.  Nothing is decided   *)
(* before the last read.                                                    *)
(***************************************************************************)
Standing == {p \in gather.members \ {Author} : Stands(p, gather.pull)}

EvidenceStands ==
  /\ gather.pc \in {"comments", "decide"} => gather.approvals <= Cardinality(Standing)
  /\ gather.waived => gather.pc \in {"decide", "idle"} /\ gather.pull \in waivers
  /\ gather.pc # "idle" => gather.decision = "none"

PushesCounted == head + left.pushes = MaxPushes + 1

ChangeInv ==
  /\ ChangeTypeOK /\ PushesCounted /\ gather.seen <= Len(reviews)
  /\ EvidenceStands /\ DischargeIsEarned /\ GatesAnswerForTheBase

(* Of a reviewer's reviews the last one is counted. *)
LEMMA LatestIsLast ==
  ASSUME ChangeTypeOK, NEW p, \E i \in DOMAIN reviews : reviews[i].by = p
  PROVE  /\ LatestOf(p) \in 1..Len(reviews)
         /\ reviews[LatestOf(p)].by = p
         /\ \A j \in 1..Len(reviews) : reviews[j].by = p => j <= LatestOf(p)
<1> DEFINE S == {i \in DOMAIN reviews : reviews[i].by = p}
<1> DEFINE T == {Len(reviews) - i : i \in S}
<1>1. Len(reviews) \in Nat /\ DOMAIN reviews = 1..Len(reviews)
  BY DEF ChangeTypeOK
<1>2. T \subseteq Nat /\ T # {}
  <2>1. \A i \in S : Len(reviews) - i \in Nat
    BY <1>1
  <2>2. QED
    BY <2>1
<1>3. PICK x \in T : \A y \in T : x <= y
  <2> HIDE DEF T
  <2> QED
    BY <1>2, SmallestExists
<1>4. PICK i \in S : x = Len(reviews) - i
  BY <1>3
<1>5. ASSUME NEW j \in S
      PROVE  j <= i
  <2>1. Len(reviews) - i <= Len(reviews) - j
    BY <1>3, <1>4
  <2>2. QED
    BY <1>1, <2>1
<1>6. \E k \in DOMAIN reviews :
        reviews[k].by = p /\ \A j \in DOMAIN reviews : reviews[j].by = p => j <= k
  BY <1>5
<1>7. QED
  BY <1>1, <1>6 DEF LatestOf

(* Whoever is counted as approving has an approval that stands among the   *)
(* reviews read.                                                            *)
LEMMA CountedStand ==
  ASSUME ChangeTypeOK, ReadReviews
  PROVE  gather'.approvals \in Nat /\ gather'.approvals <= Cardinality(Standing')
<1> DEFINE counted == {p \in gather.members \ {Author} :
                         /\ \E i \in DOMAIN reviews : reviews[i].by = p
                         /\ reviews[LatestOf(p)].state = "APPROVED"
                         /\ reviews[LatestOf(p)].at = gather.pull}
<1>1. gather'.approvals = Cardinality(counted)
  BY DEF ReadReviews, CountApprovals, ChangeTypeOK, Evidence
<1>2. /\ reviews' = reviews /\ gather'.seen = Len(reviews)
      /\ gather'.members = gather.members /\ gather'.pull = gather.pull
  BY DEF ReadReviews, ChangeTypeOK, Evidence, pullRequest
<1>3. counted \subseteq Standing'
  <2> SUFFICES ASSUME NEW p \in counted
               PROVE  Stands(p, gather.pull)'
    BY <1>2 DEF Standing
  <2>1. /\ LatestOf(p) \in 1..Len(reviews)
        /\ reviews[LatestOf(p)].by = p
        /\ \A j \in 1..Len(reviews) : reviews[j].by = p => j <= LatestOf(p)
    BY LatestIsLast
  <2>2. Len(reviews) \in Nat
    BY DEF ChangeTypeOK
  <2>3. \A j \in (LatestOf(p) + 1)..Len(reviews) : reviews[j].by # p
    BY <2>1, <2>2
  <2>4. QED
    BY <1>2, <2>1, <2>3 DEF Stands
<1>4. IsFiniteSet(Standing')
  <2>1. Standing' \subseteq People
    BY <1>2 DEF Standing, ChangeTypeOK, Evidence
  <2>2. QED
    BY <2>1, ApprovalAssumption, FS_Subset
<1> HIDE DEF counted
<1>5. QED
  BY <1>1, <1>3, <1>4, FS_Subset, FS_CardinalityType

(* What people do later leaves the reviews that were read as they stood:   *)
(* a review is added after them, a dismissed one had been an approval.     *)
LEMMA StandingStays ==
  ASSUME ChangeTypeOK, gather.seen <= Len(reviews), UNCHANGED gather,
         \/ UNCHANGED reviews
         \/ \E p \in People, s \in States : PostReview(p, s)
         \/ \E i \in DOMAIN reviews : Dismiss(i)
  PROVE  /\ Standing' = Standing /\ gather.seen <= Len(reviews')
         /\ Len(reviews') >= Len(reviews)
         /\ \A i \in 1..Len(reviews) : reviews'[i].by = reviews[i].by /\ reviews'[i].at = reviews[i].at
<1>1. gather.seen \in Nat /\ Len(reviews) \in Nat /\ DOMAIN reviews = 1..Len(reviews)
  BY DEF ChangeTypeOK, Evidence
<1>2. \A i \in 1..Len(reviews) : reviews[i] \in PostedReview
  BY DEF ChangeTypeOK
<1> DEFINE Kept(i) ==
             /\ reviews'[i].by = reviews[i].by /\ reviews'[i].at = reviews[i].at
             /\ reviews'[i].state \in {"APPROVED", "DISMISSED"}
                  <=> reviews[i].state \in {"APPROVED", "DISMISSED"}
             /\ reviews'[i].state = "COMMENTED" <=> reviews[i].state = "COMMENTED"
<1>3. /\ Len(reviews') \in Nat /\ Len(reviews') >= Len(reviews)
      /\ \A i \in 1..Len(reviews) : Kept(i)
  <2>1. CASE UNCHANGED reviews
    BY <1>1, <2>1
  <2>2. CASE \E p \in People, s \in States : PostReview(p, s)
    <3>1. PICK p \in People, s \in States :
            reviews' = Append(reviews, [by |-> p, state |-> s, at |-> head])
      BY <2>2 DEF PostReview
    <3> DEFINE c == [by |-> p, state |-> s, at |-> head]
    <3>2. c \in PostedReview /\ reviews' = Append(reviews, c)
      BY <3>1 DEF ChangeTypeOK, PostedReview
    <3> HIDE DEF c
    <3>3. Len(reviews') = Len(reviews) + 1 /\ \A i \in 1..Len(reviews) : reviews'[i] = reviews[i]
      <4>1. reviews \in Seq(PostedReview)
        BY DEF ChangeTypeOK
      <4>2. Len(Append(reviews, c)) = Len(reviews) + 1
        BY <3>2, <4>1
      <4>3. \A i \in 1..Len(reviews) : Append(reviews, c)[i] = reviews[i]
        BY <3>2, <4>1
      <4>4. QED
        BY <3>2, <4>2, <4>3
    <3>4. QED
      BY <1>1, <3>3
  <2>3. CASE \E i \in DOMAIN reviews : Dismiss(i)
    <3>1. PICK i \in DOMAIN reviews :
            reviews[i].state = "APPROVED" /\ reviews' = [reviews EXCEPT ![i].state = "DISMISSED"]
      BY <2>3 DEF Dismiss
    <3>2. /\ Len(reviews') = Len(reviews)
          /\ \A j \in 1..Len(reviews) : j # i => reviews'[j] = reviews[j]
          /\ reviews'[i] = [reviews[i] EXCEPT !.state = "DISMISSED"]
      BY <1>1, <3>1 DEF ChangeTypeOK
    <3>3. Kept(i)
      <4>1. reviews[i] \in [by : People, state : States, at : 1..(MaxPushes + 1)]
        BY <1>1, <1>2 DEF PostedReview
      <4>2. /\ reviews'[i].by = reviews[i].by /\ reviews'[i].at = reviews[i].at
            /\ reviews'[i].state = "DISMISSED"
        BY <3>2, <4>1
      <4>3. reviews[i].state = "APPROVED"
        BY <3>1
      <4>4. QED
        BY <4>2, <4>3
    <3>4. ASSUME NEW k \in 1..Len(reviews)
          PROVE  Kept(k)
      <4>1. CASE k = i
        BY <3>3, <4>1
      <4>2. CASE k # i
        BY <3>2, <4>2
      <4>3. QED
        BY <4>1, <4>2
    <3> HIDE DEF Kept
    <3>5. QED
      BY <1>1, <3>2, <3>4
  <2>4. QED
    BY <2>1, <2>2, <2>3
<1>4. ASSUME NEW p
      PROVE  Stands(p, gather.pull)' <=> Stands(p, gather.pull)
  <2>1. \A i \in 1..gather.seen : i \in 1..Len(reviews)
    BY <1>1
  <2>2. \A i \in 1..gather.seen : \A j \in (i + 1)..gather.seen : j \in 1..gather.seen
    BY <1>1
  <2>3. \A i \in 1..gather.seen : Kept(i)
    BY <1>3, <2>1
  <2> HIDE DEF Kept
  <2>4. \A i \in 1..gather.seen : \A j \in (i + 1)..gather.seen : Kept(j)
    BY <2>2, <2>3
  <2>5. ASSUME NEW i \in 1..gather.seen
        PROVE  (/\ reviews[i].by = p /\ reviews[i].at = gather.pull
                /\ reviews[i].state \in {"APPROVED", "DISMISSED"}
                /\ \A j \in (i + 1)..gather.seen : reviews[j].by = p => reviews[j].state = "COMMENTED")
           <=> (/\ reviews'[i].by = p /\ reviews'[i].at = gather.pull
                /\ reviews'[i].state \in {"APPROVED", "DISMISSED"}
                /\ \A j \in (i + 1)..gather.seen : reviews'[j].by = p => reviews'[j].state = "COMMENTED")
    BY <2>3, <2>4 DEF Kept
  <2>6. QED
    BY <2>5 DEF Stands
<1>5. QED
  BY <1>1, <1>3, <1>4 DEF Standing

-----------------------------------------------------------------------------
LEMMA PolicyActions ==
  ASSUME ChangeNext
  PROVE  \/ PushChange \/ Waive
         \/ \E p \in People : EditRoster(p)
         \/ \E p \in People, s \in States : PostReview(p, s)
         \/ \E i \in DOMAIN reviews : Dismiss(i)
         \/ Route \/ FanoutCheck \/ \E tree \in {"base", "head"} : OwnershipCheck(tree)
         \/ ReadMembers \/ ReadPull \/ ReadReviews \/ ReadComments \/ Decide \/ ReadFails
BY DEF ChangeNext

LEMMA NoEvidenceTyped ==
  NoEvidence \in Evidence
BY ApprovalAssumption DEF NoEvidence, Evidence

(* What a read writes down is evidence of the right form. *)
LEMMA EvidenceTyped ==
  ASSUME ChangeTypeOK, PushesCounted,
         ReadMembers \/ ReadPull \/ ReadReviews \/ ReadComments \/ Decide \/ ReadFails
  PROVE  gather' \in Evidence
<1>1. gather \in Evidence /\ roster \in SUBSET People /\ head \in 0..(MaxPushes + 1)
  BY ApprovalAssumption DEF ChangeTypeOK
<1>2. CASE ReadMembers
  <2>1. gather' = [NoEvidence EXCEPT !.pc = "pull", !.members = roster]
    BY <1>2 DEF ReadMembers
  <2>2. QED
    BY <1>1, <2>1, NoEvidenceTyped DEF Evidence
<1>3. CASE ReadPull
  <2>1. gather' = [gather EXCEPT !.pc = "reviews", !.pull = head]
    BY <1>3 DEF ReadPull
  <2>2. QED
    BY <1>1, <2>1 DEF Evidence
<1>4. CASE ReadReviews
  <2>1. PICK next \in {"comments", "decide"} :
          gather' = [gather EXCEPT !.pc = next, !.seen = Len(reviews),
                                   !.approvals = CountApprovals(gather.members, gather.pull)]
    BY <1>4 DEF ReadReviews
  <2>2. CountApprovals(gather.members, gather.pull) \in Nat
    <3>1. gather'.approvals = CountApprovals(gather.members, gather.pull)
      BY <1>1, <2>1 DEF Evidence
    <3>2. QED
      BY <1>4, <3>1, CountedStand
  <2>3. Len(reviews) \in Nat
    BY DEF ChangeTypeOK
  <2> DEFINE n == CountApprovals(gather.members, gather.pull)
  <2> HIDE DEF n
  <2>4. QED
    BY <1>1, <2>1, <2>2, <2>3 DEF Evidence, n
<1>5. CASE ReadComments
  <2>1. gather' = [gather EXCEPT !.pc = "decide", !.waived = gather.pull \in waivers]
    BY <1>5 DEF ReadComments
  <2> DEFINE found == gather.pull \in waivers
  <2>2. found \in BOOLEAN
    OBVIOUS
  <2> HIDE DEF found
  <2>3. gather' = [gather EXCEPT !.pc = "decide", !.waived = found]
    BY <2>1 DEF found
  <2>4. QED
    BY <1>1, <2>2, <2>3 DEF Evidence
<1>6. CASE Decide
  <2>1. PICK answer \in {"discharge", "stop"} :
          gather' = [gather EXCEPT !.pc = "idle", !.decision = answer]
    BY <1>6 DEF Decide, DecideCpCardinality
  <2>2. QED
    BY <1>1, <2>1 DEF Evidence
<1>7. CASE ReadFails
  BY <1>7, NoEvidenceTyped DEF ReadFails
<1>8. QED
  BY <1>2, <1>3, <1>4, <1>5, <1>6, <1>7

(* The types, with the count of pushes that bounds the revision. *)
LEMMA ChangeTyped ==
  ASSUME ChangeTypeOK, PushesCounted, [ChangeNext]_changeVars
  PROVE  ChangeTypeOK' /\ PushesCounted'
<1>1. /\ MaxPushes \in Nat /\ MaxReviews \in Nat /\ MaxRosterEdits \in Nat /\ MaxGathers \in Nat
      /\ left \in Means /\ head \in 1..(MaxPushes + 1)
  BY ApprovalAssumption DEF ChangeTypeOK
<1>2. CASE UNCHANGED changeVars
  BY <1>2 DEF changeVars, ChangeTypeOK, PushesCounted
<1>3. CASE PushChange
  <2>1. /\ left' = [left EXCEPT !.pushes = left.pushes - 1] /\ left.pushes > 0 /\ head' = head + 1
        /\ change' \in Changes /\ verdict' = Unasked /\ UNCHANGED <<roster, reviews, waivers, gather>>
    BY <1>3 DEF PushChange
  <2>2. left' \in Means /\ left'.pushes = left.pushes - 1 /\ left.pushes \in 0..MaxPushes
    BY <1>1, <2>1 DEF Means
  <2>3. head' \in 1..(MaxPushes + 1) /\ PushesCounted'
    BY <1>1, <2>1, <2>2 DEF PushesCounted
  <2>4. QED
    BY <2>1, <2>2, <2>3 DEF ChangeTypeOK, Unasked
<1>4. CASE Waive
  BY <1>1, <1>4 DEF Waive, ChangeTypeOK, PushesCounted
<1>5. CASE \E p \in People : EditRoster(p)
  <2>1. /\ left' = [left EXCEPT !.roster = left.roster - 1] /\ left.roster > 0
        /\ roster' \subseteq People /\ UNCHANGED <<change, head, reviews, waivers, verdict, gather>>
    BY <1>5 DEF EditRoster, ChangeTypeOK
  <2>2. left' \in Means /\ left'.pushes = left.pushes
    BY <1>1, <2>1 DEF Means
  <2>3. QED
    BY <2>1, <2>2 DEF ChangeTypeOK, PushesCounted
<1>6. ASSUME NEW p \in People, NEW s \in States, PostReview(p, s)
      PROVE  ChangeTypeOK' /\ PushesCounted'
  <2> DEFINE c == [by |-> p, state |-> s, at |-> head]
  <2>1. /\ left' = [left EXCEPT !.reviews = left.reviews - 1] /\ left.reviews > 0
        /\ reviews' = Append(reviews, c) /\ UNCHANGED <<change, head, roster, waivers, verdict, gather>>
    BY <1>6 DEF PostReview
  <2>2. left' \in Means /\ left'.pushes = left.pushes
    BY <1>1, <2>1 DEF Means
  <2>3. c \in PostedReview
    BY <1>1 DEF PostedReview
  <2> HIDE DEF c
  <2>4. reviews' \in Seq(PostedReview)
    BY <2>1, <2>3 DEF ChangeTypeOK
  <2>5. QED
    BY <2>1, <2>2, <2>4 DEF ChangeTypeOK, PushesCounted
<1>7. ASSUME NEW i \in DOMAIN reviews, Dismiss(i)
      PROVE  ChangeTypeOK' /\ PushesCounted'
  <2> DEFINE c == [reviews[i] EXCEPT !.state = "DISMISSED"]
  <2>1. /\ reviews' = [reviews EXCEPT ![i] = c]
        /\ UNCHANGED <<change, head, roster, waivers, verdict, gather, left>>
    BY <1>7 DEF Dismiss
  <2>2. reviews[i] \in PostedReview
    BY DEF ChangeTypeOK
  <2>3. c \in PostedReview
    BY <2>2 DEF PostedReview, States
  <2> HIDE DEF c
  <2>4. reviews' \in Seq(PostedReview)
    BY <2>1, <2>3 DEF ChangeTypeOK
  <2>5. QED
    BY <2>1, <2>4 DEF ChangeTypeOK, PushesCounted
<1>8. CASE Route \/ FanoutCheck \/ \E tree \in {"base", "head"} : OwnershipCheck(tree)
  <2>1. verdict' \in [by : {"none", "route", "ownership", "fanout"},
                      says : {"none", "review-trivial", "full-review", "pass", "missing", "error"}]
    BY <1>8 DEF Route, FanoutCheck, OwnershipCheck, Answered, SelectTrivialDiffRoute
  <2>2. UNCHANGED <<change, head, roster, reviews, waivers, gather, left>>
    BY <1>8 DEF Route, FanoutCheck, OwnershipCheck
  <2>3. QED
    BY <2>1, <2>2 DEF ChangeTypeOK, PushesCounted
<1>9. CASE ReadMembers \/ ReadPull \/ ReadReviews \/ ReadComments \/ Decide \/ ReadFails
  <2>1. gather' \in Evidence
    BY <1>9, EvidenceTyped
  <2>2. UNCHANGED <<change, head, roster, reviews, waivers, verdict>>
    BY <1>9 DEF ReadMembers, ReadPull, ReadReviews, ReadComments, Decide, ReadFails, pullRequest
  <2>3. \/ left' = left
        \/ left.gathers > 0 /\ left' = [left EXCEPT !.gathers = left.gathers - 1]
    BY <1>9 DEF ReadMembers, ReadPull, ReadReviews, ReadComments, Decide, ReadFails
  <2>4. left' \in Means /\ left'.pushes = left.pushes
    BY <1>1, <2>3 DEF Means
  <2>5. QED
    BY <2>1, <2>2, <2>4 DEF ChangeTypeOK, PushesCounted
<1>10. QED
  BY <1>2, <1>3, <1>4, <1>5, <1>6, <1>7, <1>8, <1>9, PolicyActions

(* What the reads know. *)
LEMMA EvidenceStep ==
  ASSUME ChangeTypeOK, gather.seen <= Len(reviews), EvidenceStands, DischargeIsEarned,
         [ChangeNext]_changeVars
  PROVE  gather'.seen <= Len(reviews') /\ EvidenceStands' /\ DischargeIsEarned'
<1> DEFINE Goal == gather'.seen <= Len(reviews') /\ EvidenceStands' /\ DischargeIsEarned'
<1>1. Len(reviews) \in Nat
  BY DEF ChangeTypeOK
<1>2. ASSUME UNCHANGED gather, waivers \subseteq waivers',
             \/ UNCHANGED reviews
             \/ \E p \in People, s \in States : PostReview(p, s)
             \/ \E i \in DOMAIN reviews : Dismiss(i)
      PROVE  Goal
  <2>1. Standing' = Standing /\ gather.seen <= Len(reviews')
    BY <1>2, StandingStays
  <2>2. EvidenceStands'
    BY <1>2, <2>1 DEF EvidenceStands
  <2>3. DischargeIsEarned'
    BY <1>2, <2>1 DEF DischargeIsEarned, Standing
  <2>4. QED
    BY <1>2, <2>1, <2>2, <2>3
<1>3. CASE ReadMembers
  <2>1. /\ gather'.pc = "pull" /\ gather'.waived = FALSE /\ gather'.decision = "none" /\ gather'.seen = 0
        /\ reviews' = reviews
    BY <1>3 DEF ReadMembers, NoEvidence, pullRequest
  <2>2. QED
    BY <1>1, <2>1 DEF EvidenceStands, DischargeIsEarned
<1>4. CASE ReadFails
  <2>1. /\ gather'.pc = "idle" /\ gather'.waived = FALSE /\ gather'.decision = "none" /\ gather'.seen = 0
        /\ reviews' = reviews
    BY <1>4 DEF ReadFails, NoEvidence, pullRequest
  <2>2. QED
    BY <1>1, <2>1 DEF EvidenceStands, DischargeIsEarned
<1>5. CASE ReadPull
  <2>1. /\ gather'.pc = "reviews" /\ gather.pc = "pull" /\ gather'.waived = gather.waived
        /\ gather'.decision = gather.decision /\ gather'.seen = gather.seen
        /\ UNCHANGED <<reviews, waivers>>
    BY <1>5 DEF ReadPull, ChangeTypeOK, Evidence, pullRequest
  <2>2. ~ gather.waived
    BY <2>1 DEF EvidenceStands
  <2>3. QED
    BY <2>1, <2>2 DEF EvidenceStands, DischargeIsEarned
<1>6. CASE ReadReviews
  <2>1. /\ reviews' = reviews /\ waivers' = waivers /\ gather'.seen = Len(reviews)
        /\ gather'.waived = gather.waived /\ gather'.pull = gather.pull
        /\ gather'.decision = gather.decision /\ gather.pc = "reviews"
    BY <1>6 DEF ReadReviews, ChangeTypeOK, Evidence, pullRequest
  <2>2. gather'.approvals <= Cardinality(Standing')
    BY <1>6, CountedStand
  <2>3. QED
    BY <1>1, <2>1, <2>2 DEF EvidenceStands, DischargeIsEarned
<1>7. ASSUME gather'.seen = gather.seen, gather'.members = gather.members, gather'.pull = gather.pull,
             UNCHANGED <<reviews, waivers>>
      PROVE  Standing' = Standing
  BY <1>7 DEF Standing, Stands
<1>8. CASE ReadComments
  <2>1. /\ gather'.pc = "decide" /\ gather.pc = "comments" /\ gather'.waived = (gather.pull \in waivers)
        /\ gather'.approvals = gather.approvals /\ gather'.decision = gather.decision
        /\ gather'.seen = gather.seen /\ gather'.members = gather.members /\ gather'.pull = gather.pull
        /\ UNCHANGED <<reviews, waivers>>
    BY <1>8 DEF ReadComments, ChangeTypeOK, Evidence, pullRequest
  <2>2. QED
    BY <1>7, <2>1 DEF EvidenceStands, DischargeIsEarned
<1>9. CASE Decide
  <2>1. /\ gather'.pc = "idle" /\ gather.pc = "decide" /\ gather'.waived = gather.waived
        /\ gather'.decision = DecideCpCardinality(gather.members, Author, PolicyAtRef.approval.required,
                                                  gather.approvals, gather.waived)
        /\ gather'.seen = gather.seen /\ gather'.members = gather.members /\ gather'.pull = gather.pull
        /\ UNCHANGED <<reviews, waivers>>
    BY <1>9 DEF Decide, ChangeTypeOK, Evidence, pullRequest
  <2>2. Standing' = Standing
    BY <1>7, <2>1
  <2>3. EvidenceStands'
    BY <2>1 DEF EvidenceStands
  <2>4. ASSUME gather'.decision = "discharge"
        PROVE  \/ gather.members = {Author} /\ gather.pull \in waivers
               \/ Cardinality(Standing) >= BaseAgentPolicy.approval.required
    <3>1. \/ gather.members = {Author} /\ gather.waived
          \/ BaseAgentPolicy.approval.required <= gather.approvals
      BY <2>1, <2>4 DEF DecideCpCardinality, PolicyAtRef
    <3>2. gather.approvals \in Nat /\ gather.approvals <= Cardinality(Standing)
      BY <2>1 DEF EvidenceStands, ChangeTypeOK, Evidence
    <3>3. Cardinality(Standing) \in Nat
      <4>1. Standing \subseteq People
        BY DEF Standing, ChangeTypeOK, Evidence
      <4>2. QED
        BY <4>1, ApprovalAssumption, FS_Subset, FS_CardinalityType
    <3>4. CASE gather.members = {Author} /\ gather.waived
      BY <3>4 DEF EvidenceStands
    <3>5. CASE BaseAgentPolicy.approval.required <= gather.approvals
      BY <3>2, <3>3, <3>5, ApprovalAssumption
    <3>6. QED
      BY <3>1, <3>4, <3>5
  <2>5. DischargeIsEarned'
    BY <2>1, <2>2, <2>4 DEF DischargeIsEarned, Standing
  <2>6. QED
    BY <2>1, <2>3, <2>5
<1>10. CASE PushChange \/ Waive \/ (\E p \in People : EditRoster(p)) \/ UNCHANGED changeVars
            \/ Route \/ FanoutCheck \/ (\E tree \in {"base", "head"} : OwnershipCheck(tree))
  <2>1. UNCHANGED <<gather, reviews>> /\ waivers \subseteq waivers'
    BY <1>10 DEF PushChange, Waive, EditRoster, changeVars, Route, FanoutCheck, OwnershipCheck
  <2>2. QED
    BY <1>2, <2>1
<1>11. CASE (\E p \in People, s \in States : PostReview(p, s)) \/ \E i \in DOMAIN reviews : Dismiss(i)
  <2>1. UNCHANGED <<gather, waivers>>
    BY <1>11 DEF PostReview, Dismiss
  <2>2. QED
    BY <1>2, <1>11, <2>1
<1>12. QED
  BY <1>3, <1>4, <1>5, <1>6, <1>8, <1>9, <1>10, <1>11, PolicyActions

(* What a gate said of this head stays true until the next push. *)
LEMMA GatesStep ==
  ASSUME ChangeTypeOK, gather.seen <= Len(reviews), GatesAnswerForTheBase, [ChangeNext]_changeVars
  PROVE  GatesAnswerForTheBase'
<1>1. Len(reviews) \in Nat /\ DOMAIN reviews = 1..Len(reviews)
  BY DEF ChangeTypeOK
<1>2. CASE PushChange
  BY <1>2 DEF PushChange, Unasked, Answered, GatesAnswerForTheBase
<1>3. CASE Route
  <2>1. /\ verdict' = Answered("route", SelectTrivialDiffRoute(change, BaseAgentPolicy, TRUE,
                                                               Namespaces(change.paths)))
        /\ change' = change
    BY <1>3 DEF Route, PolicyAtRef
  <2>2. ASSUME verdict'.says = "review-trivial"
        PROVE  /\ Cardinality(change.paths) = 1 /\ change.paths \cap BaseAgentPolicy.control = {}
               /\ BaseAgentPolicy.guard.enabled => change.paths \cap BaseAgentPolicy.guard.records = {}
    <3>1. /\ ClassifyTrivialDiff(change, BaseAgentPolicy)
          /\ ProtectedChange(change.paths, BaseAgentPolicy) = "ordinary"
          /\ GuardCandidates(change.paths, BaseAgentPolicy) = {}
      BY <2>1, <2>2 DEF Answered, SelectTrivialDiffRoute
    <3>2. change.paths \cap BaseAgentPolicy.control = {}
      BY <3>1 DEF ProtectedChange, ProtectedPaths
    <3>3. QED
      BY <3>1, <3>2 DEF ClassifyTrivialDiff, GuardCandidates
  <2>3. verdict' # Answered("ownership", "pass")
    BY <2>1 DEF Answered
  <2>4. QED
    BY <2>1, <2>2, <2>3 DEF GatesAnswerForTheBase
<1>4. CASE FanoutCheck
  BY <1>4 DEF FanoutCheck, Answered, GatesAnswerForTheBase
<1>5. ASSUME NEW tree \in {"base", "head"}, OwnershipCheck(tree)
      PROVE  GatesAnswerForTheBase'
  <2> DEFINE rules == OwnershipRules(BaseAgentPolicy, "base")
  <2>1. /\ verdict'.says \in {"error", "pass", "missing"}
        /\ UNCHANGED <<change, head, reviews>>
    BY <1>5 DEF OwnershipCheck, Answered
  <2>2. ASSUME verdict' = Answered("ownership", "pass"), "owners" \notin change.paths
        PROVE  \A path \in change.paths : Matching(path, rules) # {} =>
                 \E p \in OwnersOf(path, rules), i \in DOMAIN reviews :
                   reviews[i].by = p /\ reviews[i].at = head
    <3>1. VerifyOwnership(change.paths, OwnershipRules(BaseAgentPolicy, tree),
                          BaseAgentPolicy.owners.source, ApproversAtHead)
      BY <1>5, <2>2 DEF OwnershipCheck, Answered, PolicyAtRef
    <3>2. OwnershipRules(BaseAgentPolicy, tree) = rules
      BY <2>2 DEF OwnershipRules, TreeOwners
    <3> HIDE DEF rules
    <3>3. ASSUME NEW path \in change.paths, Matching(path, rules) # {}
          PROVE  \E p \in OwnersOf(path, rules), i \in DOMAIN reviews :
                   reviews[i].by = p /\ reviews[i].at = head
      <4>1. OwnersOf(path, rules) \cap ApproversAtHead # {}
        BY <3>1, <3>2, <3>3 DEF VerifyOwnership
      <4>2. QED
        BY <4>1 DEF ApproversAtHead
    <3>4. QED
      BY <3>3
  <2>3. QED
    BY <2>1, <2>2 DEF GatesAnswerForTheBase, OwnershipRules, TreeOwners
<1>6. ASSUME UNCHANGED <<change, head, verdict>>, Len(reviews') \in Nat, DOMAIN reviews' = 1..Len(reviews'),
             Len(reviews) <= Len(reviews'),
             \A i \in 1..Len(reviews) : reviews'[i].by = reviews[i].by /\ reviews'[i].at = reviews[i].at
      PROVE  GatesAnswerForTheBase'
  <2>1. \A i \in DOMAIN reviews : i \in DOMAIN reviews' /\ reviews'[i].by = reviews[i].by
                                  /\ reviews'[i].at = reviews[i].at
    BY <1>1, <1>6
  <2>2. OwnershipRules(BaseAgentPolicy, "base")' = OwnershipRules(BaseAgentPolicy, "base")
    BY <1>6 DEF OwnershipRules, TreeOwners
  <2>3. QED
    BY <1>6, <2>1, <2>2 DEF GatesAnswerForTheBase
<1>7. CASE (\E p \in People, s \in States : PostReview(p, s)) \/ \E i \in DOMAIN reviews : Dismiss(i)
  <2>1. UNCHANGED <<change, head, verdict, gather>>
    BY <1>7 DEF PostReview, Dismiss
  <2>2. Len(reviews') \in Nat /\ DOMAIN reviews' = 1..Len(reviews')
    BY <1>7 DEF PostReview, Dismiss, ChangeTypeOK
  <2>3. QED
    BY <1>1, <1>6, <1>7, <2>1, <2>2, StandingStays
<1>8. CASE Waive \/ (\E p \in People : EditRoster(p)) \/ UNCHANGED changeVars
           \/ ReadMembers \/ ReadPull \/ ReadReviews \/ ReadComments \/ Decide \/ ReadFails
  <2>1. UNCHANGED <<change, head, verdict, reviews>>
    BY <1>8 DEF Waive, EditRoster, changeVars, ReadMembers, ReadPull, ReadReviews, ReadComments,
                Decide, ReadFails, pullRequest
  <2>2. QED
    BY <1>1, <1>6, <2>1
<1>9. QED
  BY <1>2, <1>3, <1>4, <1>5, <1>7, <1>8, PolicyActions

LEMMA ChangeInvStarts == ChangeInit => ChangeInv
<1> SUFFICES ASSUME ChangeInit
             PROVE  ChangeInv
  OBVIOUS
<1>1. left \in Means /\ PushesCounted
  BY ApprovalAssumption DEF ChangeInit, Means, PushesCounted
<1>2. ChangeTypeOK
  BY <1>1, NoEvidenceTyped, ApprovalAssumption DEF ChangeInit, ChangeTypeOK, Unasked
<1>3. gather.seen <= Len(reviews) /\ EvidenceStands /\ DischargeIsEarned /\ GatesAnswerForTheBase
  BY DEF ChangeInit, NoEvidence, Unasked, Answered, EvidenceStands, DischargeIsEarned, GatesAnswerForTheBase
<1>4. QED
  BY <1>1, <1>2, <1>3 DEF ChangeInv

(* The invariant holds in every state. *)
THEOREM ChangeInvariant == ChangeSpec => []ChangeInv
<1>1. ChangeInit => ChangeInv
  BY ChangeInvStarts
<1>2. ChangeInv /\ [ChangeNext]_changeVars => ChangeInv'
  BY ChangeTyped, EvidenceStep, GatesStep DEF ChangeInv
<1>3. QED
  BY <1>1, <1>2, PTL DEF ChangeSpec

(* A discharge of the hold on a protected change rests on approvals of the *)
(* head it names that stood when the reviews were read, or on the sole     *)
(* author's exception for that head, whatever happens between the four     *)
(* reads of cp-cardinality evidence-github-team.                           *)
THEOREM DischargeEarned == ChangeSpec => []DischargeIsEarned
<1>1. ChangeInv => DischargeIsEarned
  BY DEF ChangeInv
<1>2. QED
  BY <1>1, ChangeInvariant, PTL

(* The light review and a passing ownership verdict answer for the base's  *)
(* policy, whatever the pull request makes of the policy file: the         *)
(* `--policy-ref` of trivial-diff route and protected-ownership verify.    *)
THEOREM GatesJudgeByTheBase == ChangeSpec => []GatesAnswerForTheBase
<1>1. ChangeInv => GatesAnswerForTheBase
  BY DEF ChangeInv
<1>2. QED
  BY <1>1, ChangeInvariant, PTL

-----------------------------------------------------------------------------
(* The lint guards and pull requests that merge (RepoGuards).  What a fact *)
(* can be: one main began with, one an edit adds, a record or its row.     *)
Slugs == Prs \cup {a.slug : a \in AdrFiles(Seed)}

Universe ==
  Facts \cup [kind : {"record"}, file : Nat \cup {n.file : n \in ByHand}, id : Nat, slug : Slugs]
        \cup [kind : {"row"}, id : Nat, slug : Slugs]

Pull == [pc : {"absent", "open", "checked", "merged"}, added : SUBSET Universe,
         removed : SUBSET Universe, base : SUBSET Universe, seen : Nat, green : BOOLEAN]

RepoTypeOK ==
  /\ main \in SUBSET Universe
  /\ pulls \in [Prs \cup Repairs -> Pull]
  /\ landings \in Nat /\ overlapped \in BOOLEAN /\ moves \in Nat

(* What a pull request does to the records: nothing, or it adds its        *)
(* author's, or it gives the record of one slug a number later than all it *)
(* saw.                                                                    *)
Authored(p, c) ==
  \E a \in AdrFiles(c.added) : a.slug = p /\ p \in Prs /\ c.added = {a} /\ c.removed = {}

Renumbered(c) ==
  \E a \in AdrFiles(c.added), b \in AdrFiles(c.base) :
    /\ a.slug = b.slug /\ c.added = {a} /\ c.removed = {b}
    /\ \A r \in AdrFiles(c.base) : r.id < a.id

SparesRecords(c) == AdrFiles(c.added) = {} /\ AdrFiles(c.removed) = {}

OneEach(tree) == \A f, g \in tree : SamePlace(f, g) => f = g

Replaces(c) ==
  /\ OneEach(c.added)
  /\ \A f \in c.added, g \in Facts :
       SamePlace(f, g) /\ f # g => \E h \in c.removed : SamePlace(f, h) /\ f # h

PullsAreEdits ==
  \A p \in Prs \cup Repairs :
    /\ Replaces(pulls[p])
    /\ Authored(p, pulls[p]) \/ Renumbered(pulls[p]) \/ SparesRecords(pulls[p])

(* A slug has one record, whose number only grows, and none before its     *)
(* author's pull request is merged.                                        *)
SlugsAreKept(p, c, tree) ==
  /\ c.pc # "merged" => \A a \in AdrFiles(tree) : p \in Prs => a.slug # p
  /\ c.pc = "merged" => c.green
  /\ \A b \in AdrFiles(c.base) : b \in tree \/ \E r \in AdrFiles(tree) : r.slug = b.slug /\ b.id < r.id
  /\ c.green => \A a \in AdrFiles(c.added), b \in AdrFiles(c.base) : b \in tree /\ a.id = b.id => a = b

RecordsAreKept ==
  /\ \A a, b \in AdrFiles(main) : a.slug = b.slug => a = b
  /\ IsFiniteSet(AdrFiles(main))
  /\ \A p \in Prs \cup Repairs : SlugsAreKept(p, pulls[p], main)

(* What a green check of the present main says of the tree it would make.  *)
Judged(c, tree, when, moved, live) ==
  LET merged == (tree \ c.removed) \cup c.added
  IN /\ c.seen <= when
     /\ c.pc = "checked" /\ c.green /\ c.seen = when =>
          /\ TreePasses(merged)
          /\ \A f \in FeatureDefinitions(c.added) : ReachabilityCheck(merged, f.key)
          /\ moved = 0 => RoadmapCheck(merged, live)

Served(f, tree) ==
  f.exempt \/ ([kind |-> "consumer", symbol |-> f.symbol] \in tree /\ [kind |-> "journey", key |-> f.key] \in tree)

Unmake(c) == {f \in c.removed : f.kind \in {"consumer", "journey", "reachability"}}

FeaturesAreServed ==
  (\A p \in DOMAIN pulls : pulls[p].pc = "merged" => Unmake(pulls[p]) = {})
    /\ "disabled" \notin ReachabilityPolicy(main)
  => \A f \in FeatureDefinitions(main) : Served(f, main)

MainIsChecked ==
  /\ OneEach(main)
  /\ \A p \in Prs \cup Repairs : Judged(pulls[p], main, landings, moves, milestones)
  /\ ~overlapped => /\ TreePasses(main)
                    /\ moves = 0 => RoadmapCheck(main, milestones)
                    /\ FeaturesAreServed

RepoInv == RepoTypeOK /\ PullsAreEdits /\ RecordsAreKept /\ MainIsChecked

-----------------------------------------------------------------------------
LEMMA UniverseWellFormed ==
  \A f \in Universe : WellFormed(f) /\ (f.kind = "record" => f.slug \in Slugs /\ f.id \in Nat)
<1>1. ASSUME NEW f \in Facts
      PROVE  WellFormed(f) /\ (f.kind = "record" => f.slug \in Slugs /\ f.id \in Nat)
  <2>1. WellFormed(f)
    BY FactAssumption
  <2>2. f.kind = "record" => f.id \in Nat
    BY <2>1 DEF WellFormed
  <2>3. f.kind = "record" => f \in AdrFiles(Seed)
    <3>1. CASE f \in Seed
      BY <3>1 DEF AdrFiles, Of
    <3>2. CASE f \notin Seed
      <4>1. PICK e \in Edits : f \in e.added
        BY <3>2 DEF Facts
      <4>2. Of(e.added, "record") = {}
        BY EditAssumption
      <4>3. QED
        BY <4>1, <4>2 DEF Of
    <3>3. QED
      BY <3>1, <3>2
  <2>4. QED
    BY <2>1, <2>2, <2>3 DEF Slugs
<1>2. ASSUME NEW file, NEW id \in Nat, NEW slug \in Slugs
      PROVE  LET f == Record(file, id, slug)
             IN  WellFormed(f) /\ f.slug \in Slugs /\ f.id \in Nat
  BY DEF Record, WellFormed
<1>3. ASSUME NEW f \in [kind : {"record"}, file : Nat \cup {n.file : n \in ByHand}, id : Nat, slug : Slugs]
      PROVE  WellFormed(f) /\ f.slug \in Slugs /\ f.id \in Nat
  <2>1. f = Record(f.file, f.id, f.slug) /\ f.id \in Nat /\ f.slug \in Slugs
    BY DEF Record
  <2>2. QED
    BY <2>1, <1>2
<1>4. ASSUME NEW f \in [kind : {"row"}, id : Nat, slug : Slugs]
      PROVE  WellFormed(f) /\ f.kind # "record"
  BY DEF WellFormed
<1>5. QED
  BY <1>1, <1>3, <1>4 DEF Universe

(* Of finitely many records one has the highest number. *)
LEMMA HighestRecord ==
  ASSUME NEW S, IsFiniteSet(S), S # {}, \A a \in S : a.id \in Nat
  PROVE  \E a \in S : \A b \in S : b.id <= a.id
<1> DEFINE above(a) == {b \in S : b.id > a.id}
<1> DEFINE T == {Cardinality(above(a)) : a \in S}
<1>1. \A a \in S : IsFiniteSet(above(a)) /\ Cardinality(above(a)) \in Nat
  <2> TAKE a \in S
  <2>1. above(a) \in SUBSET S
    OBVIOUS
  <2>2. QED
    BY <2>1, FS_Subset, FS_CardinalityType
<1>2. T \in SUBSET Nat /\ T # {}
  BY <1>1
<1>3. PICK n \in T : \A m \in T : n <= m
  <2> HIDE DEF T
  <2> QED
    BY <1>2, SmallestExists
<1>4. PICK a \in S : n = Cardinality(above(a))
  BY <1>3
<1>5. ASSUME NEW b \in S, b.id > a.id
      PROVE  FALSE
  <2>1. above(b) \in SUBSET above(a)
    BY <1>5
  <2>2. b \in above(a) /\ b \notin above(b)
    BY <1>5
  <2>3. Cardinality(above(b)) <= Cardinality(above(a)) /\ Cardinality(above(a)) # Cardinality(above(b))
    <3> HIDE DEF above
    <3> QED
      BY <1>1, <2>1, <2>2, FS_Subset
  <2>4. Cardinality(above(a)) <= Cardinality(above(b))
    BY <1>3, <1>4
  <2> HIDE DEF above
  <2>5. QED
    BY <1>1, <2>3, <2>4
<1>6. QED
  BY <1>5

(* decisions-index next names a number later than every record's. *)
LEMMA NextIsLater ==
  ASSUME NEW tree, IsFiniteSet(AdrFiles(tree)), \A a \in AdrFiles(tree) : a.id \in Nat
  PROVE  NextAdrNumber(tree) \in Nat /\ \A a \in AdrFiles(tree) : a.id < NextAdrNumber(tree)
<1> DEFINE S == {0} \cup {a.id : a \in AdrFiles(tree)}
<1>1. \E x \in S : \A y \in S : x >= y
  <2>1. CASE AdrFiles(tree) = {}
    BY <2>1
  <2>2. CASE AdrFiles(tree) # {}
    <3>1. PICK a \in AdrFiles(tree) : \A b \in AdrFiles(tree) : b.id <= a.id
      BY <2>2, HighestRecord
    <3>2. a.id \in S /\ \A y \in S : a.id >= y
      BY <3>1
    <3>3. QED
      BY <3>2
  <2>3. QED
    BY <2>1, <2>2
<1>2. Max(S) \in S /\ \A y \in S : Max(S) >= y
  BY <1>1 DEF Max
<1>3. S \subseteq Nat
  OBVIOUS
<1>4. QED
  BY <1>2, <1>3 DEF NextAdrNumber

-----------------------------------------------------------------------------
(* What the guards say of main, in the words of the property. *)
LEMMA MainIsWellFormed ==
  ASSUME RepoTypeOK
  PROVE  \A f \in main : WellFormed(f)
  BY UniverseWellFormed DEF RepoTypeOK

LEMMA NumberedIfBuildable == DecisionsValidate(main) => RecordsAreNumbered
  BY DEF DecisionsValidate, Buildable, Mismatched, Duplicate, RecordsAreNumbered, AdrFiles

LEMMA ResolvedIfChecked ==
  ASSUME RepoTypeOK, PointerCheck(main)
  PROVE  PointersResolve
<1> SUFFICES ASSUME NEW f \in Of(main, "pointer"), f.path \notin Ignored
             PROVE  [kind |-> "path", path |-> f.path] \in main
  BY DEF PointersResolve
<1>1. PICK g \in Of(main, "path") : g.path = f.path
  BY DEF PointerCheck, StalePointers, PathRefs, Exists
<1>2. WellFormed(g) /\ g.kind = "path" /\ g \in main
  BY MainIsWellFormed DEF Of
<1>3. g = [kind |-> "path", path |-> f.path]
  BY <1>1, <1>2 DEF WellFormed
<1>4. QED
  BY <1>2, <1>3

LEMMA AgreeIfChecked ==
  ASSUME RepoTypeOK, PathFilterCheck(main)
  PROVE  FiltersAgree
<1>1. ASSUME NEW f \in Of(main, "glob")
      PROVE  f = [kind |-> "glob", file |-> f.file, glob |-> f.glob] /\ f.file \in {"ci.yml", "deploy.yml"}
  <2>1. WellFormed(f) /\ f.kind = "glob"
    BY MainIsWellFormed DEF Of
  <2>2. QED
    BY <2>1 DEF WellFormed
<1>2. \E f \in Of(main, "glob") : TRUE
  BY DEF PathFilterCheck, FilterList
<1>3. ASSUME NEW f \in Of(main, "glob"), NEW file \in {"ci.yml", "deploy.yml"}
      PROVE  [f EXCEPT !.file = file] \in main
  <2>1. f.glob \in FilterList(main, file)
    <3>1. f.glob \in FilterList(main, f.file)
      BY DEF FilterList
    <3>2. QED
      BY <1>1, <3>1 DEF PathFilterCheck
  <2>2. PICK g \in Of(main, "glob") : g.file = file /\ g.glob = f.glob
    BY <2>1 DEF FilterList
  <2>3. g = [kind |-> "glob", file |-> file, glob |-> f.glob]
    BY <1>1, <2>2
  <2>4. [f EXCEPT !.file = file] = [kind |-> "glob", file |-> file, glob |-> f.glob]
    BY <1>1
  <2>5. QED
    BY <2>2, <2>3, <2>4 DEF Of
<1>4. QED
  BY <1>2, <1>3 DEF FiltersAgree

LEMMA PinnedIfChecked ==
  ASSUME RepoTypeOK, PatchCheck(main)
  PROVE  PatchesArePinned
<1>1. ASSUME NEW f \in main, f.kind \in {"patch", "pin"}
      PROVE  f = [kind |-> f.kind, key |-> f.key]
  BY <1>1, MainIsWellFormed DEF WellFormed
<1>2. ASSUME NEW f \in Of(main, "patch")
      PROVE  [f EXCEPT !.kind = "pin"] \in main
  <2>1. PICK g \in Of(main, "pin") : g.key = f.key
    BY DEF PatchCheck, PatchedDependencies, PinMarkers
  <2>2. g = [kind |-> "pin", key |-> f.key] /\ f = [kind |-> "patch", key |-> f.key]
    BY <1>1, <2>1 DEF Of
  <2>3. [f EXCEPT !.kind = "pin"] = [kind |-> "pin", key |-> f.key]
    BY <2>2
  <2>4. QED
    BY <2>2, <2>3 DEF Of
<1>3. ASSUME NEW f \in Of(main, "pin")
      PROVE  [f EXCEPT !.kind = "patch"] \in main
  <2>1. PICK g \in Of(main, "patch") : g.key = f.key
    BY DEF PatchCheck, PatchedDependencies, PinMarkers
  <2>2. g = [kind |-> "patch", key |-> f.key] /\ f = [kind |-> "pin", key |-> f.key]
    BY <1>1, <2>1 DEF Of
  <2>3. [f EXCEPT !.kind = "patch"] = [kind |-> "patch", key |-> f.key]
    BY <2>2
  <2>4. QED
    BY <2>2, <2>3 DEF Of
<1>4. QED
  BY <1>2, <1>3 DEF PatchesArePinned

LEMMA DescribedIfChecked ==
  ASSUME RepoTypeOK, ReadmeCheck(main)
  PROVE  PackagesAreDescribed
<1>1. ASSUME NEW f \in main, f.kind \in {"package", "readme"}
      PROVE  f = [kind |-> f.kind, dir |-> f.dir]
  BY <1>1, MainIsWellFormed DEF WellFormed
<1> SUFFICES ASSUME NEW f \in Of(main, "package")
             PROVE  [f EXCEPT !.kind = "readme"] \in main
  BY DEF PackagesAreDescribed
<1>2. PICK g \in Of(main, "readme") : g.dir = f.dir
  BY DEF ReadmeCheck, Members, Described
<1>3. g = [kind |-> "readme", dir |-> f.dir] /\ f = [kind |-> "package", dir |-> f.dir]
  BY <1>1, <1>2 DEF Of
<1>4. [f EXCEPT !.kind = "readme"] = [kind |-> "readme", dir |-> f.dir]
  BY <1>3
<1>5. QED
  BY <1>3, <1>4 DEF Of

LEMMA SharedIfChecked == CatalogCheck(main) => DependenciesAreShared
<1> SUFFICES ASSUME CatalogCheck(main), CatalogPolicy(main) = {"enabled"}
             PROVE  \A f \in Of(main, "dependency") : Compliant(f)
  BY DEF DependenciesAreShared
<1>1. "disabled" \notin CatalogPolicy(main)
  OBVIOUS
<1>2. CatalogPolicy(main) # {"disabled"}
  BY <1>1
<1>3. QED
  BY <1>2 DEF CatalogCheck, Dependencies

LEMMA ClassifiedIfJudged == FanoutJudge(main) => AgentsAreClassified
  BY DEF FanoutJudge, AgentsAreClassified, Uncovered, Bridges, Defs, Roster, BRIDGE_NAMES, Of

LEMMA EvidencedIfLinted ==
  ASSUME OneEach(main), AdoptionCheck(main), LeakScan(main)
  PROVE  ClaimsAreEvidenced
<1>1. \A f, g \in Of(main, "adoption") : f = g
  BY DEF OneEach, SamePlace, Of
<1>2. ASSUME NEW d \in Of(main, "doc"), "path" \in d.leaks
      PROVE  d.selfExempt
  BY <1>2 DEF LeakScan, FindLeaks
<1>3. ASSUME NEW d \in Of(main, "doc"), NEW policy \in Of(main, "adoption"), policy.enabled,
             d.dir \in policy.globs, NEW c \in policy.concepts \cap d.claims
      PROVE  c \in d.evidence \/ ExemptionFor(d, c, policy)
  <2>1. LintAdoption(Corpus(main, policy), policy)
    BY <1>1, <1>3 DEF AdoptionCheck, AdoptionPolicy
  <2>2. d \in Corpus(main, policy)
    BY <1>3 DEF Corpus
  <2>3. QED
    BY <2>1, <2>2 DEF LintAdoption, IsClaimWithoutEvidence
<1>4. QED
  BY <1>2, <1>3 DEF ClaimsAreEvidenced

LEMMA TokensIfChecked ==
  ASSUME OneEach(main), TokenCheck(main)
  PROVE  TokensResolve
<1>1. \A f, g \in Of(main, "tokens") : f = g
  BY DEF OneEach, SamePlace, Of
<1> SUFFICES ASSUME NEW f \in Of(main, "css"), NEW policy \in Of(main, "tokens"), policy.enabled,
                    NEW t \in f.references \ policy.known
             PROVE  \E g \in Of(main, "css") : t \in g.declared
  BY DEF TokensResolve
<1>2. TokenJudge(CssFacts(main), policy)
  BY <1>1 DEF TokenCheck, TokenPolicy
<1>3. QED
  BY <1>2 DEF TokenJudge, CssFacts

LEMMA RoadmapIfChecked == RoadmapCheck(main, milestones) => RoadmapIsLive
<1> SUFFICES ASSUME RoadmapCheck(main, milestones)
             PROVE  RoadmapIsLive
  OBVIOUS
<1>1. ASSUME NEW row \in RoadmapRows(main)
      PROVE  /\ LegalState(row) /\ ~PinFault(row, milestones) /\ ~StateFault(row, milestones)
             /\ row.kind = "arc" \/ row.kind = "campaign"
  BY DEF RoadmapCheck, RoadmapRows, Arcs, Of
<1>2. PICK row \in Arcs(main) : row.state = "active"
  <2>1. Cardinality({row \in Arcs(main) : row.state = "active"}) = 1
    BY DEF RoadmapCheck
  <2>2. {row \in Arcs(main) : row.state = "active"} # {}
    BY <2>1, FS_EmptySet
  <2>3. QED
    BY <2>2
<1>3. row \in RoadmapRows(main)
  BY <1>2 DEF RoadmapRows
<1>4. ASSUME NEW r \in RoadmapRows(main), r.state # "queued"
      PROVE  r.milestone \in DOMAIN milestones
  <2>1. ~PinFault(r, milestones)
    BY <1>1
  <2>2. QED
    BY <2>1, <1>4 DEF PinFault
<1>5. milestones[row.milestone] = "open"
  <2>1. row.milestone \in DOMAIN milestones
    BY <1>2, <1>3, <1>4
  <2>2. ~StateFault(row, milestones)
    BY <1>1, <1>3
  <2>3. QED
    BY <1>2, <2>1, <2>2 DEF StateFault
<1>6. ASSUME NEW r \in RoadmapRows(main), r.milestone # 0, r.state # "queued"
      PROVE  (r.state = "active") = (milestones[r.milestone] = "open")
  <2>1. LegalState(r) /\ ~StateFault(r, milestones)
    BY <1>1
  <2>2. r.state = "active" \/ r.state = "done"
    <3>1. CASE r.kind = "arc"
      BY <1>6, <2>1, <3>1 DEF LegalState
    <3>2. CASE r.kind # "arc"
      BY <2>1, <3>2 DEF LegalState
    <3>3. QED
      BY <3>1, <3>2
  <2>3. r.milestone \in DOMAIN milestones
    BY <1>4, <1>6
  <2>4. QED
    BY <2>1, <2>2, <2>3 DEF StateFault
<1>7. QED
  BY <1>2, <1>5, <1>6 DEF RoadmapIsLive

LEMMA ReachedIfServed == FeaturesAreServed => FeaturesAreReached
  BY DEF FeaturesAreServed, FeaturesAreReached, Served, Unmake, FeatureDefinitions

(* Two records with one number were numbered in checkouts that lacked each *)
(* other.                                                                  *)
LEMMA SharedNumbersAreBlind ==
  ASSUME RepoTypeOK, PullsAreEdits, RecordsAreKept, NEW a \in AdrFiles(main), NEW b \in AdrFiles(main),
         NEW p \in DOMAIN pulls, a # b, a.id = b.id, a \in pulls[p].added
  PROVE  b \notin pulls[p].base
<1> DEFINE c == pulls[p]
<1>1. p \in Prs \cup Repairs
  BY DEF RepoTypeOK
<1>2. SlugsAreKept(p, c, main)
  BY <1>1 DEF RecordsAreKept
<1>3. a \in AdrFiles(c.added) /\ (b \in c.base => b \in AdrFiles(c.base))
  BY DEF AdrFiles, Of
<1>4. CASE Authored(p, c)
  <2>1. a.slug = p /\ p \in Prs
    BY <1>3, <1>4 DEF Authored
  <2>2. c.green
    BY <1>2, <2>1 DEF SlugsAreKept
  <2>3. b \in main
    BY DEF AdrFiles, Of
  <2>4. QED
    BY <1>2, <1>3, <2>2, <2>3 DEF SlugsAreKept
<1>5. CASE Renumbered(c)
  <2>1. \A r \in AdrFiles(c.base) : r.id < a.id
    BY <1>3, <1>5 DEF Renumbered
  <2>2. a.id \in Nat
    BY UniverseWellFormed DEF RepoTypeOK, AdrFiles, Of
  <2>3. QED
    BY <1>3, <2>1, <2>2
<1>6. CASE SparesRecords(c)
  BY <1>3, <1>6 DEF SparesRecords
<1>7. QED
  BY <1>1, <1>4, <1>5, <1>6 DEF PullsAreEdits

-----------------------------------------------------------------------------
(* Consumed and on a journey, by facts that have their fields. *)
LEMMA ServedIfDeclared ==
  ASSUME NEW tree \in SUBSET Universe, NEW f,
         f.exempt \/ (f.symbol \in ConsumedSymbols(tree) /\ f.key \in JourneyKeys(tree))
  PROVE  Served(f, tree)
<1>1. CASE f.exempt
  BY <1>1 DEF Served
<1>2. CASE f.symbol \in ConsumedSymbols(tree) /\ f.key \in JourneyKeys(tree)
  <2>1. PICK g \in Of(tree, "consumer") : g.symbol = f.symbol
    BY <1>2 DEF ConsumedSymbols
  <2>2. PICK h \in Of(tree, "journey") : h.key = f.key
    BY <1>2 DEF JourneyKeys
  <2>3. g = [kind |-> "consumer", symbol |-> f.symbol] /\ h = [kind |-> "journey", key |-> f.key]
    <3>1. WellFormed(g) /\ WellFormed(h) /\ g.kind = "consumer" /\ h.kind = "journey"
      BY UniverseWellFormed DEF Of
    <3>2. QED
      BY <2>1, <2>2, <3>1 DEF WellFormed
  <2>4. QED
    BY <2>1, <2>2, <2>3 DEF Served, Of
<1>3. QED
  BY <1>1, <1>2

LEMMA RepoInvHolds == RepoInit => RepoInv
<1> SUFFICES ASSUME RepoInit
             PROVE  RepoInv
  OBVIOUS
<1> USE DEF RepoInit
<1>1. ASSUME NEW p \in Prs \cup Repairs
      PROVE  pulls[p] = Absent
  OBVIOUS
<1>2. RepoTypeOK
  <2>1. Seed \in SUBSET Universe
    BY DEF Universe, Facts
  <2>2. Absent \in Pull
    BY DEF Absent, Pull
  <2>3. QED
    BY <2>1, <2>2 DEF RepoTypeOK
<1>3. PullsAreEdits
  BY <1>1 DEF PullsAreEdits, Replaces, OneEach, SparesRecords, Absent, AdrFiles, Of
<1>4. RecordsAreKept
  <2>1. \A a, b \in AdrFiles(main) : a.slug \notin Prs /\ (a.slug = b.slug => a = b)
    BY SeedAssumption
  <2>2. IsFiniteSet(AdrFiles(main))
    <3>1. AdrFiles(main) \in SUBSET Seed
      BY DEF AdrFiles, Of
    <3>2. QED
      BY <3>1, SeedAssumption, FS_Subset
  <2>3. ASSUME NEW p \in Prs \cup Repairs
        PROVE  SlugsAreKept(p, pulls[p], main)
    BY <1>1, <2>1 DEF SlugsAreKept, Absent, AdrFiles, Of
  <2>4. QED
    BY <2>1, <2>2, <2>3 DEF RecordsAreKept
<1>5. MainIsChecked
  <2>1. OneEach(main) /\ TreePasses(main) /\ RoadmapCheck(main, milestones)
    BY SeedAssumption DEF OneEach
  <2>2. ASSUME NEW p \in Prs \cup Repairs
        PROVE  Judged(pulls[p], main, landings, moves, milestones)
    BY <1>1 DEF Judged, Absent
  <2>3. FeaturesAreServed
    <3> SUFFICES ASSUME "disabled" \notin ReachabilityPolicy(main), NEW f \in FeatureDefinitions(main)
                 PROVE  Served(f, main)
      BY DEF FeaturesAreServed
    <3>1. ReachabilityCheck(main, f.key) /\ ReachabilityPolicy(main) # {"disabled"}
      BY SeedAssumption
    <3>2. PICK d \in FeatureDefinitions(main) :
            d.key = f.key /\ (d.exempt \/ (d.symbol \in ConsumedSymbols(main) /\ f.key \in JourneyKeys(main)))
      BY <3>1 DEF ReachabilityCheck
    <3>3. d = f
      BY <2>1, <3>2 DEF OneEach, SamePlace, FeatureDefinitions, Of
    <3>4. QED
      BY <1>2, <3>2, <3>3, ServedIfDeclared DEF RepoTypeOK
  <2>4. QED
    BY <2>1, <2>2, <2>3 DEF MainIsChecked
<1>6. QED
  BY <1>2, <1>3, <1>4, <1>5 DEF RepoInv

(* A pull request that is opened against main as it is. *)
LEMMA OpeningKeeps ==
  ASSUME RepoInv, NEW p \in Prs \cup Repairs, NEW added \in SUBSET Universe, NEW removed \in SUBSET Universe,
         Opens(p, added, removed), Replaces(pulls'[p]),
         Authored(p, pulls'[p]) \/ Renumbered(pulls'[p]) \/ SparesRecords(pulls'[p])
  PROVE  RepoInv'
<1> DEFINE c == [Absent EXCEPT !.pc = "open", !.added = added, !.removed = removed, !.base = main]
<1> USE DEF RepoInv
<1>1. /\ pulls[p].pc = "absent"
      /\ pulls' = [pulls EXCEPT ![p] = c]
      /\ UNCHANGED <<main, milestones, landings, overlapped, moves>>
  BY DEF Opens
<1>c. /\ c \in Pull /\ c.pc = "open" /\ c.added = added /\ c.removed = removed
      /\ c.base = main /\ c.seen = 0 /\ ~c.green
  BY DEF Absent, Pull, RepoTypeOK
<1> HIDE DEF c
<1>2. pulls'[p] = c /\ \A q \in Prs \cup Repairs : q # p => pulls'[q] = pulls[q]
  BY <1>1 DEF RepoTypeOK
<1>3. RepoTypeOK'
  BY <1>1, <1>c DEF RepoTypeOK
<1>4. PullsAreEdits'
  BY <1>2 DEF PullsAreEdits
<1>5. RecordsAreKept'
  <2>1. SlugsAreKept(p, c, main)
    <3>1. \A a \in AdrFiles(main) : p \in Prs => a.slug # p
      BY <1>1 DEF RecordsAreKept, SlugsAreKept
    <3>2. \A b \in AdrFiles(main) : b \in main
      BY DEF AdrFiles, Of
    <3>3. QED
      BY <1>c, <3>1, <3>2 DEF SlugsAreKept
  <2>2. ASSUME NEW q \in Prs \cup Repairs
        PROVE  SlugsAreKept(q, pulls'[q], main)
    BY <1>2, <2>1 DEF RecordsAreKept
  <2>3. QED
    BY <1>1, <2>2 DEF RecordsAreKept
<1>6. MainIsChecked'
  <2>1. ASSUME NEW q \in Prs \cup Repairs
        PROVE  Judged(pulls'[q], main, landings, moves, milestones)
    <3>1. CASE q = p
      BY <1>2, <1>c, <3>1 DEF Judged, RepoTypeOK
    <3>2. CASE q # p
      BY <1>2, <3>2 DEF MainIsChecked
    <3>3. QED
      BY <3>1, <3>2
  <2>2. FeaturesAreServed => FeaturesAreServed'
    <3>1. (\A q \in DOMAIN pulls' : pulls'[q].pc = "merged" => Unmake(pulls'[q]) = {})
             => (\A q \in DOMAIN pulls : pulls[q].pc = "merged" => Unmake(pulls[q]) = {})
      <4>1. DOMAIN pulls' = DOMAIN pulls /\ DOMAIN pulls = Prs \cup Repairs
        BY <1>1 DEF RepoTypeOK
      <4>2. QED
        BY <1>1, <1>2, <1>c, <4>1
    <3>2. QED
      BY <1>1, <3>1 DEF FeaturesAreServed
  <2>3. QED
    BY <1>1, <2>1, <2>2 DEF MainIsChecked
<1>7. QED
  BY <1>3, <1>4, <1>5, <1>6

LEMMA AuthoringKeeps ==
  ASSUME RepoInv, NEW p \in Prs, NEW n, NEW id \in Nat, n \in Nat \cup {m.file : m \in ByHand},
         Opens(p, {Record(n, id, p)}, {})
  PROVE  RepoInv'
<1> DEFINE a == Record(n, id, p)
<1>1. a \in Universe /\ a.kind = "record" /\ a.slug = p
  BY DEF Record, Universe, Slugs
<1>2. pulls'[p].added = {a} /\ pulls'[p].removed = {}
  BY DEF Opens, Absent, RepoInv, RepoTypeOK
<1> HIDE DEF a
<1>3. Replaces(pulls'[p])
  BY <1>1, <1>2 DEF Replaces, OneEach, SamePlace
<1>4. Authored(p, pulls'[p])
  BY <1>1, <1>2 DEF Authored, AdrFiles, Of
<1>5. Opens(p, {a}, {})
  BY DEF a
<1>6. QED
  BY <1>1, <1>3, <1>4, <1>5, OpeningKeeps

LEMMA IdsAreNumbers ==
  ASSUME RepoTypeOK
  PROVE  \A a \in AdrFiles(main) : a.id \in Nat /\ a.slug \in Slugs /\ a \in Universe /\ a.kind = "record"
  BY UniverseWellFormed DEF RepoTypeOK, AdrFiles, Of

LEMMA OpenActionsKeep ==
  ASSUME RepoInv, NEW p \in Prs \cup Repairs,
         (p \in Prs /\ (AddRecord(p) \/ WriteRecord(p) \/ EditTree(p))) \/ Generate(p) \/ Renumber(p)
  PROVE  RepoInv'
<1>0. IsFiniteSet(AdrFiles(main)) /\ \A a \in AdrFiles(main) : a.id \in Nat
  BY IdsAreNumbers DEF RepoInv, RecordsAreKept
<1>n. NextAdrNumber(main) \in Nat /\ \A a \in AdrFiles(main) : a.id < NextAdrNumber(main)
  BY <1>0, NextIsLater
<1>1. CASE p \in Prs /\ AddRecord(p)
  BY <1>1, <1>n, AuthoringKeeps DEF AddRecord
<1>2. CASE p \in Prs /\ WriteRecord(p)
  <2>1. PICK m \in ByHand : Opens(p, {Record(m.file, m.id, p)}, {})
    BY <1>2 DEF WriteRecord
  <2>2. m.id \in Nat
    BY FactAssumption
  <2>3. QED
    BY <1>2, <2>1, <2>2, AuthoringKeeps
<1>3. CASE p \in Prs /\ EditTree(p)
  <2>1. PICK e \in Edits : e.removed \subseteq main /\ Opens(p, e.added \ main, e.removed)
    BY <1>3 DEF EditTree
  <2>2. pulls'[p].added = e.added \ main /\ pulls'[p].removed = e.removed
    BY <2>1 DEF Opens, Absent, RepoInv, RepoTypeOK
  <2>3. e.added \ main \in SUBSET Universe /\ e.removed \in SUBSET Universe
    BY <2>1 DEF Universe, Facts, RepoInv, RepoTypeOK
  <2>4. SparesRecords(pulls'[p])
    BY <2>2, EditAssumption DEF SparesRecords, AdrFiles, Of
  <2>5. Replaces(pulls'[p])
    <3>1. \A f, g \in e.added : SamePlace(f, g) => f = g
      BY EditAssumption
    <3>2. \A f \in e.added, g \in Facts :
            SamePlace(f, g) /\ f # g => \E h \in e.removed : SamePlace(f, h) /\ f # h
      BY EditAssumption
    <3>3. QED
      BY <2>2, <3>1, <3>2 DEF Replaces, OneEach
  <2>6. QED
    BY <2>1, <2>3, <2>4, <2>5, OpeningKeeps
<1>4. CASE Generate(p)
  <2> DEFINE added == BuildIndex(main) \ main
  <2> DEFINE removed == Of(main, "row") \ BuildIndex(main)
  <2>1. Opens(p, added, removed)
    BY <1>4 DEF Generate
  <2>2. \A f \in added \cup removed : f \in Universe /\ f.kind = "row"
    <3>1. ASSUME NEW a \in AdrFiles(main)
          PROVE  Row(a) \in Universe /\ Row(a).kind = "row"
      BY IdsAreNumbers DEF Row, Universe, RepoInv
    <3>2. QED
      BY <3>1 DEF BuildIndex, Of, RepoInv, RepoTypeOK
  <2> HIDE DEF added, removed
  <2>3. pulls'[p].added = added /\ pulls'[p].removed = removed
    BY <2>1 DEF Opens, Absent, RepoInv, RepoTypeOK
  <2>4. SparesRecords(pulls'[p]) /\ Replaces(pulls'[p])
    BY <2>2, <2>3 DEF SparesRecords, AdrFiles, Of, Replaces, OneEach, SamePlace
  <2>5. QED
    BY <2>1, <2>2, <2>4, OpeningKeeps
<1>5. CASE Renumber(p)
  <2>1. PICK a \in Duplicate(main) :
          Opens(p, {Record(NextAdrNumber(main), NextAdrNumber(main), a.slug)}, {a})
    BY <1>5 DEF Renumber
  <2> DEFINE b == Record(NextAdrNumber(main), NextAdrNumber(main), a.slug)
  <2>2. a \in AdrFiles(main) /\ a \in Universe /\ a.slug \in Slugs /\ a.kind = "record"
    BY IdsAreNumbers DEF Duplicate, RepoInv
  <2>3. b \in Universe /\ b.kind = "record" /\ b.slug = a.slug /\ b.id = NextAdrNumber(main)
    BY <1>n, <2>2 DEF Record, Universe
  <2>4. Opens(p, {b}, {a})
    BY <2>1
  <2> HIDE DEF b
  <2>5. pulls'[p].added = {b} /\ pulls'[p].removed = {a} /\ pulls'[p].base = main
    BY <2>4 DEF Opens, Absent, RepoInv, RepoTypeOK
  <2>6. Renumbered(pulls'[p])
    <3>1. b \in AdrFiles(pulls'[p].added)
      BY <2>3, <2>5 DEF AdrFiles, Of
    <3>2. QED
      BY <1>n, <2>2, <2>3, <2>5, <3>1 DEF Renumbered
  <2>7. Replaces(pulls'[p])
    BY <2>2, <2>3, <2>5 DEF Replaces, OneEach, SamePlace
  <2>8. QED
    BY <2>2, <2>3, <2>4, <2>6, <2>7, OpeningKeeps
<1>6. QED
  BY <1>1, <1>2, <1>3, <1>4, <1>5

(* A check passes only on a tree whose records are numbered apart. *)
LEMMA CheckKeeps ==
  ASSUME RepoInv, NEW p \in Prs \cup Repairs, Check(p)
  PROVE  RepoInv'
<1> DEFINE green == AllGuards(Merged(main, p)) /\ FeaturesReachable(p)
<1> DEFINE c == [pulls[p] EXCEPT !.pc = "checked", !.seen = landings, !.green = green]
<1> USE DEF RepoInv
<1>1. /\ pulls[p].pc \in {"open", "checked"}
      /\ UNCHANGED <<main, milestones, landings, overlapped, moves>>
  BY DEF Check
<1>2. pulls'[p] = c /\ \A q \in Prs \cup Repairs : q # p => pulls'[q] = pulls[q]
  BY DEF Check, RepoTypeOK
<1>3. /\ c \in Pull /\ c.pc = "checked" /\ c.seen = landings /\ c.green = green
      /\ c.added = pulls[p].added /\ c.removed = pulls[p].removed /\ c.base = pulls[p].base
  <2>1. green \in BOOLEAN
    BY DEF AllGuards
  <2>2. pulls[p] \in Pull
    BY DEF RepoTypeOK
  <2> HIDE DEF green
  <2>3. QED
    BY <2>1, <2>2 DEF Pull, RepoTypeOK
<1>4. DOMAIN pulls' = Prs \cup Repairs /\ pulls' = [q \in Prs \cup Repairs |-> pulls'[q]]
  BY DEF Check, RepoTypeOK
<1> HIDE DEF c
<1>5. RepoTypeOK'
  <2>1. \A q \in Prs \cup Repairs : pulls'[q] \in Pull
    BY <1>2, <1>3 DEF RepoTypeOK
  <2>2. QED
    BY <1>1, <1>4, <2>1 DEF RepoTypeOK
<1>6. PullsAreEdits'
  <2>1. ASSUME NEW q \in Prs \cup Repairs
        PROVE  /\ pulls'[q].added = pulls[q].added /\ pulls'[q].removed = pulls[q].removed
               /\ pulls'[q].base = pulls[q].base
    BY <1>2, <1>3
  <2>2. QED
    BY <2>1 DEF PullsAreEdits, Replaces, Authored, Renumbered, SparesRecords
<1>7. RecordsAreKept'
  <2>1. ASSUME c.green, NEW a \in AdrFiles(c.added), NEW b \in AdrFiles(c.base), b \in main, a.id = b.id
        PROVE  a = b
    <3>1. CASE Authored(p, pulls[p])
      <4>1. a \in AdrFiles(Merged(main, p)) /\ b \in AdrFiles(Merged(main, p))
        BY <1>3, <2>1, <3>1 DEF Authored, Merged, AdrFiles, Of
      <4>2. Duplicate(Merged(main, p)) = {}
        BY <1>3, <2>1 DEF AllGuards, TreePasses, DecisionsValidate, Buildable
      <4>3. QED
        BY <2>1, <4>1, <4>2 DEF Duplicate
    <3>2. CASE Renumbered(pulls[p])
      <4>1. b.id < a.id
        BY <1>3, <3>2 DEF Renumbered, AdrFiles, Of
      <4>2. b \in AdrFiles(main)
        BY <2>1 DEF AdrFiles, Of
      <4>3. QED
        BY <2>1, <4>1, <4>2, IdsAreNumbers
    <3>3. CASE SparesRecords(pulls[p])
      BY <1>3, <3>3 DEF SparesRecords
    <3>4. QED
      BY <3>1, <3>2, <3>3 DEF PullsAreEdits
  <2>2. SlugsAreKept(p, pulls[p], main)
    BY DEF RecordsAreKept
  <2>3. SlugsAreKept(p, c, main)
    BY <1>1, <1>3, <2>1, <2>2 DEF SlugsAreKept
  <2>4. \A q \in Prs \cup Repairs : SlugsAreKept(q, pulls'[q], main)
    BY <1>2, <2>3 DEF RecordsAreKept
  <2>5. QED
    BY <1>1, <2>4 DEF RecordsAreKept
<1>8. MainIsChecked'
  <2>1. Judged(c, main, landings, moves, milestones)
    <3>1. Merged(main, p) = (main \ c.removed) \cup c.added
      BY <1>3 DEF Merged
    <3>2. c.green => /\ TreePasses(Merged(main, p)) /\ RoadmapCheck(Merged(main, p), milestones)
                     /\ \A f \in FeatureDefinitions(c.added) : ReachabilityCheck(Merged(main, p), f.key)
      BY <1>3 DEF AllGuards, FeaturesReachable
    <3>3. c.seen <= landings
      BY <1>3 DEF RepoTypeOK
    <3>4. QED
      BY <3>1, <3>2, <3>3 DEF Judged
  <2>2. \A q \in Prs \cup Repairs : Judged(pulls'[q], main, landings, moves, milestones)
    BY <1>2, <2>1 DEF MainIsChecked
  <2>3. FeaturesAreServed => FeaturesAreServed'
    <3>1. (\A q \in DOMAIN pulls' : pulls'[q].pc = "merged" => Unmake(pulls'[q]) = {})
             => (\A q \in DOMAIN pulls : pulls[q].pc = "merged" => Unmake(pulls[q]) = {})
      BY <1>1, <1>2, <1>4 DEF RepoTypeOK
    <3>2. QED
      BY <1>1, <3>1 DEF FeaturesAreServed
  <2>4. QED
    BY <1>1, <2>2, <2>3 DEF MainIsChecked
<1>9. QED
  BY <1>5, <1>6, <1>7, <1>8

(* What a merge makes of the records: one slug's record comes, or is       *)
(* replaced by a later one.                                                *)
LEMMA MergeKeepsRecords ==
  ASSUME RepoInv, NEW p \in Prs \cup Repairs, Merge(p)
  PROVE  RecordsAreKept'
<1> DEFINE c == pulls[p]
<1> USE DEF RepoInv
<1>1. c.pc = "checked" /\ c.green /\ Applies(p) /\ main' = (main \ c.removed) \cup c.added
  BY DEF Merge, Merged
<1>2. ASSUME NEW q \in Prs \cup Repairs
      PROVE  /\ pulls'[q].added = pulls[q].added /\ pulls'[q].base = pulls[q].base /\ pulls'[q].green = pulls[q].green
             /\ pulls'[q].pc = IF q = p THEN "merged" ELSE pulls[q].pc
  <2>1. pulls[q] \in Pull /\ pulls' = [pulls EXCEPT ![p].pc = "merged"]
    BY DEF Merge, RepoTypeOK
  <2>2. QED
    BY <2>1 DEF Pull, RepoTypeOK
<1>3. ASSUME NEW q \in Prs \cup Repairs
      PROVE  SlugsAreKept(q, pulls[q], main)
  BY DEF RecordsAreKept
<1>4. \A a, b \in AdrFiles(main) : a.slug = b.slug => a = b
  BY DEF RecordsAreKept
<1>fin. IsFiniteSet(AdrFiles(main))
  BY DEF RecordsAreKept
<1>ids. \A a \in AdrFiles(main) : a.id \in Nat
  BY IdsAreNumbers
(* What has to be shown of the records of the tree it makes. *)
<1>5. SUFFICES /\ \A a, b \in AdrFiles(main') : a.slug = b.slug => a = b
               /\ IsFiniteSet(AdrFiles(main'))
               /\ \A q \in Prs \cup Repairs :
                    /\ q # p /\ pulls[q].pc # "merged" /\ q \in Prs => \A a \in AdrFiles(main') : a.slug # q
                    /\ \A b \in AdrFiles(pulls[q].base) :
                         b \in main' \/ \E r \in AdrFiles(main') : r.slug = b.slug /\ b.id < r.id
                    /\ \A b \in AdrFiles(pulls[q].base) : b \in main' => b \in main
  <2>1. ASSUME NEW q \in Prs \cup Repairs
        PROVE  SlugsAreKept(q, pulls'[q], main')
    <3>1. pulls'[q].pc = "merged" => pulls'[q].green
      BY <1>1, <1>2, <1>3 DEF SlugsAreKept
    <3>2. ASSUME pulls'[q].green, NEW a \in AdrFiles(pulls'[q].added), NEW b \in AdrFiles(pulls'[q].base),
                 b \in main', a.id = b.id
          PROVE  a = b
      <4>1. b \in main
        BY <1>2, <1>5, <3>2
      <4>2. QED
        BY <1>2, <1>3, <3>2, <4>1 DEF SlugsAreKept
    <3>3. QED
      BY <1>2, <1>5, <3>1, <3>2 DEF SlugsAreKept
  <2>2. QED
    BY <1>5, <2>1 DEF RecordsAreKept
<1>6. CASE Authored(p, c)
  <2>1. PICK a \in AdrFiles(c.added) : a.slug = p /\ p \in Prs /\ c.added = {a} /\ c.removed = {}
    BY <1>6 DEF Authored
  <2>2. main' = main \cup {a} /\ AdrFiles(main') = AdrFiles(main) \cup {a}
    BY <1>1, <2>1 DEF AdrFiles, Of
  <2>3. \A b \in AdrFiles(main) : b.slug # p
    BY <1>1, <1>3, <2>1 DEF SlugsAreKept
  <2>4. IsFiniteSet(AdrFiles(main'))
    <3>1. IsFiniteSet(AdrFiles(main) \cup {a})
      BY <1>fin, FS_AddElement
    <3>2. QED
      BY <2>2, <3>1
  <2>5. ASSUME NEW q \in Prs \cup Repairs
        PROVE  /\ q # p /\ pulls[q].pc # "merged" /\ q \in Prs => \A r \in AdrFiles(main') : r.slug # q
               /\ \A b \in AdrFiles(pulls[q].base) :
                    b \in main' \/ \E r \in AdrFiles(main') : r.slug = b.slug /\ b.id < r.id
               /\ \A b \in AdrFiles(pulls[q].base) : b \in main' => b \in main
    <3>1. ASSUME NEW b \in AdrFiles(pulls[q].base), b \notin main
          PROVE  b.slug # p /\ b # a
      BY <1>3, <2>1, <2>3, <3>1 DEF SlugsAreKept
    <3>2. QED
      BY <1>3, <2>1, <2>2, <2>3, <3>1 DEF SlugsAreKept
  <2>6. \A r, s \in AdrFiles(main') : r.slug = s.slug => r = s
    BY <1>4, <2>1, <2>2, <2>3
  <2>7. QED
    BY <1>5, <2>4, <2>5, <2>6
<1>7. CASE Renumbered(c)
  <2>1. PICK a \in AdrFiles(c.added), d \in AdrFiles(c.base) :
          /\ a.slug = d.slug /\ c.added = {a} /\ c.removed = {d}
          /\ \A r \in AdrFiles(c.base) : r.id < a.id
    BY <1>7 DEF Renumbered
  <2>2. d.id < a.id /\ a.kind = "record" /\ d.kind = "record" /\ d.id \in Nat /\ a.id \in Nat
    BY <2>1, UniverseWellFormed DEF AdrFiles, Of, RepoTypeOK, Pull
  <2>3. CASE d \in main
    <3>1. \A r \in AdrFiles(main) : r.slug = a.slug => r = d
      BY <1>4, <2>1, <2>2, <2>3 DEF AdrFiles, Of
    <3>2. a \notin main
      BY <2>2, <3>1 DEF AdrFiles, Of
    <3>3. main' = (main \ {d}) \cup {a} /\ AdrFiles(main') = (AdrFiles(main) \ {d}) \cup {a}
      BY <1>1, <2>1, <2>2 DEF AdrFiles, Of
    <3>4. IsFiniteSet(AdrFiles(main'))
      <4>1. IsFiniteSet(AdrFiles(main) \ {d})
        BY <1>fin, FS_RemoveElement
      <4>2. IsFiniteSet((AdrFiles(main) \ {d}) \cup {a})
        BY <4>1, FS_AddElement
      <4>3. QED
        BY <3>3, <4>2
    <3>5. d \in AdrFiles(main)
      BY <2>2, <2>3 DEF AdrFiles, Of
    <3>6. ASSUME NEW q \in Prs \cup Repairs
          PROVE  /\ q # p /\ pulls[q].pc # "merged" /\ q \in Prs => \A r \in AdrFiles(main') : r.slug # q
                 /\ \A b \in AdrFiles(pulls[q].base) :
                      b \in main' \/ \E r \in AdrFiles(main') : r.slug = b.slug /\ b.id < r.id
                 /\ \A b \in AdrFiles(pulls[q].base) : b \in main' => b \in main
      <4>1. pulls[q].pc # "merged" /\ q \in Prs => \A r \in AdrFiles(main') : r.slug # q
        BY <1>3, <2>1, <3>3, <3>5 DEF SlugsAreKept
      <4>2. ASSUME NEW b \in AdrFiles(pulls[q].base)
            PROVE  b \in main' \/ \E r \in AdrFiles(main') : r.slug = b.slug /\ b.id < r.id
        <5>1. CASE b \in main
          BY <2>1, <2>2, <3>3, <5>1
        <5>2. CASE b \notin main
          <6>1. PICK r \in AdrFiles(main) : r.slug = b.slug /\ b.id < r.id
            BY <1>3, <5>2 DEF SlugsAreKept
          <6>2. b.id \in Nat
            BY UniverseWellFormed DEF AdrFiles, Of, RepoTypeOK, Pull
          <6>3. CASE r = d
            <7>1. a \in AdrFiles(main')
              BY <3>3
            <7>2. a.slug = b.slug
              BY <2>1, <6>1, <6>3
            <7>3. b.id < d.id
              BY <6>1, <6>3
            <7>4. b.id < a.id
              BY <2>2, <6>2, <7>3
            <7>5. QED
              BY <7>1, <7>2, <7>4
          <6>4. CASE r # d
            BY <3>3, <6>1, <6>4
          <6>5. QED
            BY <6>3, <6>4
        <5>3. QED
          BY <5>1, <5>2
      <4>3. ASSUME NEW b \in AdrFiles(pulls[q].base), b \in main', b \notin main
            PROVE  FALSE
        <5>1. b = a
          BY <3>3, <4>3
        <5>2. PICK r \in AdrFiles(main) : r.slug = a.slug /\ a.id < r.id
          BY <1>3, <4>3, <5>1 DEF SlugsAreKept
        <5>3. QED
          BY <2>2, <3>1, <5>2
      <4>4. QED
        BY <4>1, <4>2, <4>3
    <3>7. \A r, s \in AdrFiles(main') : r.slug = s.slug => r = s
      BY <1>4, <2>1, <3>1, <3>3
    <3>8. QED
      BY <1>5, <3>4, <3>6, <3>7
  <2>4. CASE a \in main
    <3>1. d \notin main
      BY <1>4, <2>1, <2>2, <2>4 DEF AdrFiles, Of
    <3>2. main' = main
      BY <1>1, <2>1, <2>4, <3>1
    <3>3. AdrFiles(main') = AdrFiles(main)
      BY <3>2
    <3>4. ASSUME NEW q \in Prs \cup Repairs
          PROVE  /\ q # p /\ pulls[q].pc # "merged" /\ q \in Prs => \A r \in AdrFiles(main') : r.slug # q
                 /\ \A b \in AdrFiles(pulls[q].base) :
                      b \in main' \/ \E r \in AdrFiles(main') : r.slug = b.slug /\ b.id < r.id
      BY <1>3, <3>2, <3>3 DEF SlugsAreKept
    <3>5. QED
      BY <1>4, <1>5, <1>fin, <3>2, <3>3, <3>4
  <2>5. QED
    BY <1>1, <2>1, <2>3, <2>4 DEF Applies
<1>8. CASE SparesRecords(c)
  <2>1. AdrFiles(main') = AdrFiles(main)
    BY <1>1, <1>8 DEF SparesRecords, AdrFiles, Of
  <2>2. \A q \in Prs \cup Repairs : \A b \in AdrFiles(pulls[q].base) : (b \in main' <=> b \in main)
    BY <2>1 DEF AdrFiles, Of
  <2>3. ASSUME NEW q \in Prs \cup Repairs
        PROVE  /\ q # p /\ pulls[q].pc # "merged" /\ q \in Prs => \A r \in AdrFiles(main') : r.slug # q
               /\ \A b \in AdrFiles(pulls[q].base) :
                    b \in main' \/ \E r \in AdrFiles(main') : r.slug = b.slug /\ b.id < r.id
    BY <1>3, <2>1, <2>2 DEF SlugsAreKept
  <2>4. QED
    BY <1>4, <1>5, <1>fin, <2>1, <2>2, <2>3
<1>9. QED
  BY <1>6, <1>7, <1>8 DEF PullsAreEdits

(* The tree a check passed is the one a merge makes, unless they overlap. *)
LEMMA MergeKeepsChecked ==
  ASSUME RepoInv, NEW p \in Prs \cup Repairs, Merge(p), RepoTypeOK'
  PROVE  MainIsChecked'
<1> DEFINE c == pulls[p]
<1> USE DEF RepoInv
<1>1. /\ c.pc = "checked" /\ c.green /\ main' = (main \ c.removed) \cup c.added
      /\ landings' = landings + 1 /\ overlapped' = (overlapped \/ c.seen # landings)
      /\ UNCHANGED <<milestones, moves>>
      /\ c.removed \subseteq main \/ c.added \subseteq main
  BY DEF Merge, Merged, Applies
<1>2. ASSUME NEW q \in Prs \cup Repairs
      PROVE  /\ pulls'[q].removed = pulls[q].removed /\ pulls'[q].seen = pulls[q].seen
             /\ pulls'[q].pc = IF q = p THEN "merged" ELSE pulls[q].pc
  <2>1. pulls[q] \in Pull /\ pulls' = [pulls EXCEPT ![p].pc = "merged"]
    BY DEF Merge, RepoTypeOK
  <2>2. QED
    BY <2>1 DEF Pull, RepoTypeOK
<1>3. OneEach(main')
  <2>1. Replaces(c)
    BY DEF PullsAreEdits
  <2>2. ASSUME NEW f \in c.added, NEW g \in main \ c.removed, SamePlace(f, g), f # g
        PROVE  FALSE
    <3>1. g \in Facts
      BY <2>2 DEF RepoTypeOK, Universe, SamePlace
    <3>2. PICK h \in c.removed : SamePlace(f, h) /\ f # h
      BY <2>1, <2>2, <3>1 DEF Replaces
    <3>3. CASE c.removed \subseteq main
      <4>1. SamePlace(h, g)
        BY <2>2, <3>2 DEF SamePlace
      <4>2. QED
        BY <2>2, <3>2, <3>3, <4>1 DEF MainIsChecked, OneEach
    <3>4. CASE c.added \subseteq main
      BY <2>2, <3>4 DEF MainIsChecked, OneEach
    <3>5. QED
      BY <1>1, <3>3, <3>4
  <2>3. \A f, g : SamePlace(f, g) => SamePlace(g, f)
    BY DEF SamePlace
  <2>4. QED
    BY <1>1, <2>1, <2>2, <2>3 DEF OneEach, Replaces, MainIsChecked
<1>4. \A q \in Prs \cup Repairs : Judged(pulls'[q], main', landings', moves', milestones')
  <2> TAKE q \in Prs \cup Repairs
  <2>1. pulls[q].seen <= landings /\ pulls[q].seen \in Nat /\ landings \in Nat
    BY DEF MainIsChecked, Judged, RepoTypeOK, Pull
  <2>2. pulls'[q].seen <= landings' /\ pulls'[q].seen # landings'
    BY <1>1, <1>2, <2>1
  <2>3. QED
    BY <2>2 DEF Judged
<1>5. ASSUME ~overlapped'
      PROVE  TreePasses(main') /\ (moves' = 0 => RoadmapCheck(main', milestones')) /\ FeaturesAreServed'
  <2>1. ~overlapped /\ c.seen = landings
    BY <1>1, <1>5
  <2>2. /\ TreePasses(main')
        /\ \A f \in FeatureDefinitions(c.added) : ReachabilityCheck(main', f.key)
        /\ moves = 0 => RoadmapCheck(main', milestones)
    BY <1>1, <2>1 DEF MainIsChecked, Judged
  <2>3. ASSUME \A q \in DOMAIN pulls' : pulls'[q].pc = "merged" => Unmake(pulls'[q]) = {},
               "disabled" \notin ReachabilityPolicy(main'), NEW f \in FeatureDefinitions(main')
        PROVE  Served(f, main')
    <3>1. \A q \in Prs \cup Repairs : (pulls[q].pc = "merged" \/ q = p) => Unmake(pulls[q]) = {}
      <4>1. DOMAIN pulls' = Prs \cup Repairs
        BY DEF RepoTypeOK
      <4>2. QED
        BY <1>2, <2>3, <4>1 DEF Unmake
    <3>2. \A g \in main : g.kind \in {"consumer", "journey", "reachability"} => g \in main'
      BY <1>1, <3>1 DEF Unmake
    <3>3. CASE f \in main
      <4>1. f \in FeatureDefinitions(main) /\ "disabled" \notin ReachabilityPolicy(main)
        BY <2>3, <3>2, <3>3 DEF FeatureDefinitions, ReachabilityPolicy, Of
      <4>2. Served(f, main)
        <5>1. DOMAIN pulls = Prs \cup Repairs
          BY DEF RepoTypeOK
        <5>2. QED
          BY <2>1, <3>1, <4>1, <5>1 DEF MainIsChecked, FeaturesAreServed
      <4>3. QED
        BY <3>2, <4>2 DEF Served
    <3>4. CASE f \in c.added
      <4>1. ReachabilityCheck(main', f.key) /\ ReachabilityPolicy(main') # {"disabled"}
        BY <2>2, <2>3, <3>4 DEF FeatureDefinitions, Of
      <4>2. PICK d \in FeatureDefinitions(main') :
              d.key = f.key /\ (d.exempt \/ (d.symbol \in ConsumedSymbols(main') /\ f.key \in JourneyKeys(main')))
        BY <4>1 DEF ReachabilityCheck
      <4>3. d = f
        BY <1>3, <2>3, <4>2 DEF OneEach, SamePlace, FeatureDefinitions, Of
      <4>4. QED
        BY <4>2, <4>3, ServedIfDeclared DEF RepoTypeOK
    <3>5. QED
      BY <1>1, <3>3, <3>4, <2>3 DEF FeatureDefinitions, Of
  <2>4. QED
    BY <1>1, <2>2, <2>3 DEF FeaturesAreServed
<1>6. QED
  BY <1>3, <1>4, <1>5 DEF MainIsChecked

LEMMA MergeKeeps ==
  ASSUME RepoInv, NEW p \in Prs \cup Repairs, Merge(p)
  PROVE  RepoInv'
<1> USE DEF RepoInv
<1>1. ASSUME NEW q \in Prs \cup Repairs
      PROVE  /\ pulls'[q] \in Pull /\ pulls'[q].added = pulls[q].added
             /\ pulls'[q].removed = pulls[q].removed /\ pulls'[q].base = pulls[q].base
  <2>1. pulls[q] \in Pull /\ pulls' = [pulls EXCEPT ![p].pc = "merged"]
    BY DEF Merge, RepoTypeOK
  <2>2. QED
    BY <2>1 DEF Pull, RepoTypeOK
<1>2. RepoTypeOK'
  <2>1. pulls' \in [Prs \cup Repairs -> Pull]
    <3>1. pulls' = [q \in Prs \cup Repairs |-> pulls'[q]]
      BY DEF Merge, RepoTypeOK
    <3>2. QED
      BY <1>1, <3>1
  <2>2. main' \in SUBSET Universe
    <3>1. pulls[p] \in Pull
      BY DEF RepoTypeOK
    <3>2. QED
      BY <3>1 DEF Merge, Merged, RepoTypeOK, Pull
  <2>3. QED
    BY <2>1, <2>2 DEF Merge, RepoTypeOK
<1>3. PullsAreEdits'
  BY <1>1 DEF PullsAreEdits, Replaces, Authored, Renumbered, SparesRecords
<1>4. QED
  BY <1>2, <1>3, MergeKeepsRecords, MergeKeepsChecked

LEMMA MovingKeeps ==
  ASSUME RepoInv, NEW m, MoveMilestone(m)
  PROVE  RepoInv'
<1> USE DEF RepoInv
<1>1. /\ UNCHANGED <<main, pulls, landings, overlapped>> /\ moves' = moves + 1
      /\ moves' \in Nat /\ moves' # 0
  BY DEF MoveMilestone, RepoTypeOK
<1>2. RepoTypeOK' /\ PullsAreEdits' /\ RecordsAreKept'
  BY <1>1 DEF RepoTypeOK, PullsAreEdits, RecordsAreKept
<1>3. \A q \in Prs \cup Repairs : Judged(pulls[q], main, landings, moves', milestones')
  BY <1>1 DEF MainIsChecked, Judged
<1>4. FeaturesAreServed => FeaturesAreServed'
  BY <1>1 DEF FeaturesAreServed
<1>5. MainIsChecked'
  BY <1>1, <1>3, <1>4 DEF MainIsChecked
<1>6. QED
  BY <1>2, <1>5

LEMMA RepoInvKept == RepoInv /\ [RepoNext]_repoVars => RepoInv'
<1> SUFFICES ASSUME RepoInv, [RepoNext]_repoVars
             PROVE  RepoInv'
  OBVIOUS
<1>1. CASE \E p \in Prs : AddRecord(p) \/ WriteRecord(p) \/ EditTree(p)
  BY <1>1, OpenActionsKeep
<1>2. CASE \E p \in Repairs : Generate(p) \/ Renumber(p)
  BY <1>2, OpenActionsKeep
<1>3. CASE \E p \in DOMAIN pulls : Check(p) \/ Merge(p)
  <2>1. DOMAIN pulls = Prs \cup Repairs
    BY DEF RepoInv, RepoTypeOK
  <2>2. QED
    BY <1>3, <2>1, CheckKeeps, MergeKeeps
<1>4. CASE \E m \in DOMAIN milestones : MoveMilestone(m)
  BY <1>4, MovingKeeps
<1>5. CASE UNCHANGED repoVars
  BY <1>5 DEF repoVars, RepoInv, RepoTypeOK, PullsAreEdits, RecordsAreKept, MainIsChecked, FeaturesAreServed
<1>6. QED
  BY <1>1, <1>2, <1>3, <1>4, <1>5 DEF RepoNext

(* Whatever pull requests are opened, checked and merged, in any order,    *)
(* main is broken only by those that passed side by side.                  *)
THEOREM MainBrokenByOverlap == RepoSpec => []BrokenMainWasOverlapped
<1>1. RepoInv => BrokenMainWasOverlapped
  <2> SUFFICES ASSUME RepoInv
               PROVE  BrokenMainWasOverlapped
    OBVIOUS
  <2> USE DEF RepoInv
  <2>1. ASSUME ~overlapped
        PROVE  /\ RecordsAreNumbered /\ PointersResolve /\ FiltersAgree
               /\ PatchesArePinned /\ PackagesAreDescribed /\ DependenciesAreShared
               /\ AgentsAreClassified /\ ClaimsAreEvidenced /\ TokensResolve
    <3>1. OneEach(main) /\ TreePasses(main)
      BY <2>1 DEF MainIsChecked
    <3>2. /\ DecisionsValidate(main) /\ PointerCheck(main) /\ PathFilterCheck(main) /\ PatchCheck(main)
          /\ ReadmeCheck(main) /\ CatalogCheck(main) /\ FanoutJudge(main)
          /\ AdoptionCheck(main) /\ TokenCheck(main) /\ LeakScan(main)
      BY <3>1 DEF TreePasses
    <3>3. QED
      BY <3>1, <3>2, NumberedIfBuildable, ResolvedIfChecked, AgreeIfChecked, PinnedIfChecked, DescribedIfChecked,
         SharedIfChecked, ClassifiedIfJudged, EvidencedIfLinted, TokensIfChecked
  <2>2. ~overlapped => FeaturesAreReached /\ (moves = 0 => RoadmapIsLive)
    BY ReachedIfServed, RoadmapIfChecked DEF MainIsChecked
  <2>3. \A a, b \in Of(main, "record"), p \in DOMAIN pulls :
          a # b /\ a.id = b.id /\ a \in pulls[p].added => b \notin pulls[p].base
    BY SharedNumbersAreBlind DEF AdrFiles
  <2>4. QED
    BY <2>1, <2>2, <2>3 DEF BrokenMainWasOverlapped
<1>2. QED
  BY <1>1, RepoInvHolds, RepoInvKept, PTL DEF RepoSpec

(***************************************************************************)
(* A poll of the merge queue (MergeQueue): what it prints, once GitHub has *)
(* caught up, was so while it looked.  The timeline, with what it does not *)
(* show yet, ends in what the queue last did; and a poll under way has     *)
(* seen what is so now, and each state the pull request was in before.     *)
(***************************************************************************)

EndsAsQueued ==
  /\ unshown # <<>> => (unshown[Len(unshown)] = "added_to_merge_queue" <=> queued)
  /\ unshown = <<>> /\ timeline # <<>> => (timeline[Len(timeline)].event = "added_to_merge_queue" <=> queued)
  /\ unshown = <<>> /\ timeline = <<>> => ~queued

TimelineIsOrdered == \A i, j \in DOMAIN timeline : i <= j => timeline[i].at <= timeline[j].at

PollHasSeen ==
  /\ poll.pc # "none" => Fate \in poll.during
  /\ poll.pc # "none" /\ poll.settled => Settled
  /\ poll.merged => state = "MERGED"
  /\ poll.pc = "timeline" /\ ~poll.merged /\ state = "MERGED" => {"queued", "merged"} \subseteq poll.during
  /\ poll.pc = "timeline" /\ poll.status = "QUEUED" /\ poll.settled => "queued" \in poll.during

QueueInv ==
  /\ QueueTypeOK
  /\ queued => state = "OPEN"
  /\ EndsAsQueued /\ TimelineIsOrdered /\ PollHasSeen
  /\ PollsAreTrue

LEMMA QueueInvInitially == QueueInit => QueueInv
<1> SUFFICES ASSUME QueueInit
             PROVE  QueueInv
  OBVIOUS
<1> USE DEF QueueInit, NoPoll
<1>1. QueueTypeOK
  <2>1. poll \in PollStates
    BY DEF PollStates
  <2>2. said \in Printed
    BY DEF Printed
  <2>3. timeline \in Seq(TimelineEntries) /\ unshown \in Seq(QueueEvents)
    OBVIOUS
  <2>4. QED
    BY <2>1, <2>2, <2>3 DEF QueueTypeOK
<1>2. EndsAsQueued /\ TimelineIsOrdered /\ PollHasSeen
  BY DEF EndsAsQueued, TimelineIsOrdered, PollHasSeen
<1>3. PollsAreTrue
  <2>1. said.outcome = "none"
    OBVIOUS
  <2>2. QED
    BY <2>1 DEF PollsAreTrue
<1>4. QED
  BY <1>1, <1>2, <1>3 DEF QueueInv

LEMMA FateTyped == Fate \in Fates
BY DEF Fate, Fates

(* On a timeline in order the latest event is the last one listed.         *)
LEMMA LatestEventIsLast ==
  ASSUME QueueTypeOK, TimelineIsOrdered, timeline # <<>>
  PROVE  LastMergeQueueEvent(timeline) = timeline[Len(timeline)].event
<1> DEFINE n == Len(timeline)
           Latest(i) == \A j \in DOMAIN timeline \ {i} :
                          timeline[j].at < timeline[i].at \/ (timeline[j].at = timeline[i].at /\ j < i)
<1>1. /\ n \in DOMAIN timeline /\ DOMAIN timeline = 1..n /\ n \in Nat
      /\ \A i \in DOMAIN timeline : timeline[i].at \in Nat
  <2>1. timeline \in Seq(TimelineEntries)
    BY DEF QueueTypeOK
  <2>2. n \in Nat /\ DOMAIN timeline = 1..n /\ (timeline # <<>> => n \in 1..n)
    BY <2>1, EmptySeq
  <2>3. \A i \in DOMAIN timeline : timeline[i] \in TimelineEntries
    BY <2>1
  <2>4. QED
    BY <2>2, <2>3 DEF TimelineEntries
<1>2. Latest(n)
  <2> SUFFICES ASSUME NEW j \in DOMAIN timeline, j # n
               PROVE  timeline[j].at < timeline[n].at \/ (timeline[j].at = timeline[n].at /\ j < n)
    OBVIOUS
  <2>1. j <= n /\ j \in Nat
    BY <1>1
  <2>2. timeline[j].at <= timeline[n].at
    BY <1>1, <2>1 DEF TimelineIsOrdered
  <2>3. QED
    BY <1>1, <2>1, <2>2
<1>3. ASSUME NEW i \in DOMAIN timeline, Latest(i)
      PROVE  i = n
  <2>1. CASE i # n
    <3>1. timeline[n].at < timeline[i].at \/ (timeline[n].at = timeline[i].at /\ n < i)
      BY <1>1, <1>3, <2>1
    <3>2. timeline[i].at <= timeline[n].at /\ i <= n
      BY <1>1 DEF TimelineIsOrdered
    <3>3. QED
      BY <1>1, <3>1, <3>2
  <2>2. QED
    BY <2>1
<1>4. (CHOOSE i \in DOMAIN timeline : Latest(i)) = n
  BY <1>1, <1>2, <1>3
<1>5. QED
  BY <1>4 DEF LastMergeQueueEvent

(* An event shown is the last of a timeline that stays in order.           *)
LEMMA ShownIsLast ==
  ASSUME QueueTypeOK, TimelineIsOrdered, NEW event \in QueueEvents, Shown(event)
  PROVE  /\ timeline' \in Seq(TimelineEntries) /\ timeline' # <<>>
         /\ timeline'[Len(timeline')].event = event
         /\ \A i \in DOMAIN timeline : i \in DOMAIN timeline' /\ timeline'[i] = timeline[i]
         /\ TimelineIsOrdered'
<1> DEFINE n == Len(timeline)
           last == IF timeline = <<>> THEN 0 ELSE timeline[n].at
<1>1. PICK later \in {0, 1} : timeline' = Append(timeline, [event |-> event, at |-> last + later])
  BY DEF Shown
<1>2. /\ n \in Nat /\ DOMAIN timeline = 1..n /\ last \in Nat
      /\ \A i \in DOMAIN timeline : timeline[i].at \in Nat
  <2>1. timeline \in Seq(TimelineEntries)
    BY DEF QueueTypeOK
  <2>2. n \in Nat /\ DOMAIN timeline = 1..n /\ (timeline # <<>> => n \in 1..n)
    BY <2>1, EmptySeq
  <2>3. \A i \in DOMAIN timeline : timeline[i] \in TimelineEntries
    BY <2>1
  <2>4. QED
    BY <2>2, <2>3 DEF TimelineEntries
<1>3. \A i \in DOMAIN timeline : timeline[i].at <= last
  BY <1>2 DEF TimelineIsOrdered
<1>4. timeline' \in Seq(TimelineEntries)
  <2>1. [event |-> event, at |-> last + later] \in TimelineEntries
    BY <1>2 DEF TimelineEntries
  <2>2. QED
    BY <1>1, <2>1 DEF QueueTypeOK
<1>5. /\ DOMAIN timeline' = 1..(n + 1) /\ Len(timeline') = n + 1
      /\ timeline'[n + 1] = [event |-> event, at |-> last + later]
      /\ \A i \in DOMAIN timeline : timeline'[i] = timeline[i]
  BY <1>1, <1>2 DEF QueueTypeOK
<1>6. TimelineIsOrdered'
  <2> SUFFICES ASSUME NEW i \in 1..(n + 1), NEW j \in 1..(n + 1), i <= j
               PROVE  timeline'[i].at <= timeline'[j].at
    BY <1>5 DEF TimelineIsOrdered
  <2>1. CASE j \in 1..n
    BY <1>2, <1>5, <2>1 DEF TimelineIsOrdered
  <2>2. CASE j = n + 1 /\ i \in 1..n
    BY <1>2, <1>3, <1>5, <2>2
  <2>3. CASE j = n + 1 /\ i = n + 1
    BY <1>2, <1>5, <2>3
  <2>4. QED
    BY <1>2, <2>1, <2>2, <2>3
<1>7. QED
  BY <1>2, <1>4, <1>5, <1>6

(* Whatever happens to the pull request, a poll under way sees it.         *)
LEMMA HappeningIsSeen ==
  ASSUME QueueInv, Witnessed, UNCHANGED said,
         state = "MERGED" => state' = "MERGED",
         state' = "MERGED" /\ state # "MERGED" => Fate = "queued",
         \A i \in DOMAIN timeline : i \in DOMAIN timeline' /\ timeline'[i] = timeline[i]
  PROVE  /\ poll' \in PollStates
         /\ PollHasSeen' /\ PollsAreTrue'
<1> USE DEF QueueInv
<1>1. Fate' \in Fates /\ Settled' \in BOOLEAN
  BY DEF Fate, Fates, Settled
<1>2. poll \in PollStates
  BY DEF QueueTypeOK
<1> USE DEF PollStates
<1>3. PollsAreTrue'
  BY DEF PollsAreTrue
<1>4. CASE poll.pc = "none"
  <2>1. poll' = poll
    BY <1>4 DEF Witnessed
  <2>2. PollHasSeen'
    BY <1>4, <2>1 DEF PollHasSeen
  <2>3. QED
    BY <1>2, <1>3, <2>1, <2>2
<1>5. CASE poll.pc # "none"
  <2>1. /\ poll' = [poll EXCEPT !.during = @ \cup {Fate'}, !.settled = @ /\ Settled']
        /\ poll'.pc = poll.pc /\ poll'.merged = poll.merged /\ poll'.status = poll.status
        /\ poll'.during = poll.during \cup {Fate'}
        /\ poll'.settled = (poll.settled /\ Settled')
    BY <1>2, <1>5 DEF Witnessed
  <2>2. state' = "MERGED" => Fate' = "merged"
    BY DEF Fate
  <2>3. PollHasSeen'
    BY <1>5, <2>1, <2>2 DEF PollHasSeen
  <2>4. QED
    BY <1>1, <1>2, <1>3, <2>1, <2>3
<1>6. QED
  BY <1>3, <1>4, <1>5

(* The queue acts: the event goes on the timeline, or waits to be shown.   *)
LEMMA HappensKeepsQueue ==
  ASSUME QueueInv, NEW event \in QueueEvents, Happens(event),
         queued' \in BOOLEAN, state' \in {"OPEN", "MERGED", "CLOSED"},
         event = "added_to_merge_queue" <=> queued', queued' => state' = "OPEN",
         state = "MERGED" => state' = "MERGED",
         state' = "MERGED" /\ state # "MERGED" => Fate = "queued"
  PROVE  QueueInv'
<1> USE DEF QueueInv
<1>1. UNCHANGED <<polls, said>> /\ Witnessed
  BY DEF Happens
<1>2. CASE unshown = <<>> /\ Shown(event) /\ UNCHANGED unshown /\ status' = IF queued' THEN "QUEUED" ELSE "CLEAN"
  <2>1. /\ timeline' \in Seq(TimelineEntries) /\ timeline' # <<>>
        /\ timeline'[Len(timeline')].event = event
        /\ \A i \in DOMAIN timeline : i \in DOMAIN timeline' /\ timeline'[i] = timeline[i]
        /\ TimelineIsOrdered'
    BY <1>2, ShownIsLast
  <2>2. poll' \in PollStates /\ PollHasSeen' /\ PollsAreTrue'
    BY <1>1, <2>1, HappeningIsSeen
  <2>3. QueueTypeOK'
    BY <1>1, <1>2, <2>1, <2>2 DEF QueueTypeOK
  <2>4. EndsAsQueued'
    BY <1>2, <2>1 DEF EndsAsQueued
  <2>5. QED
    BY <2>1, <2>2, <2>3, <2>4
<1>3. CASE unshown' = Append(unshown, event) /\ UNCHANGED <<status, timeline>>
  <2>1. /\ unshown' \in Seq(QueueEvents) /\ unshown' # <<>> /\ unshown'[Len(unshown')] = event
    <3>1. unshown \in Seq(QueueEvents)
      BY DEF QueueTypeOK
    <3>2. /\ unshown' \in Seq(QueueEvents) /\ Len(unshown') = Len(unshown) + 1 /\ Len(unshown) \in Nat
          /\ unshown'[Len(unshown) + 1] = event
      BY <1>3, <3>1
    <3>3. QED
      BY <3>2, EmptySeq
  <2>2. poll' \in PollStates /\ PollHasSeen' /\ PollsAreTrue'
    BY <1>1, <1>3, HappeningIsSeen
  <2>3. QueueTypeOK'
    BY <1>1, <1>3, <2>1, <2>2 DEF QueueTypeOK
  <2>4. EndsAsQueued' /\ TimelineIsOrdered'
    BY <1>3, <2>1 DEF EndsAsQueued, TimelineIsOrdered
  <2>5. QED
    BY <2>2, <2>3, <2>4
<1>4. QED
  BY <1>2, <1>3 DEF Happens

LEMMA ShowKeepsQueue ==
  ASSUME QueueInv, Show
  PROVE  QueueInv'
<1> USE DEF QueueInv
<1>1. UNCHANGED <<state, queued, status, said>> /\ Witnessed /\ Shown(Head(unshown)) /\ unshown # <<>>
      /\ unshown' = Tail(unshown)
  BY DEF Show
<1>2. /\ unshown \in Seq(QueueEvents) /\ Len(unshown) \in Nat \ {0}
      /\ Head(unshown) = unshown[1] /\ Head(unshown) \in QueueEvents
      /\ unshown' \in Seq(QueueEvents) /\ Len(unshown') = Len(unshown) - 1
      /\ \A i \in 1..(Len(unshown) - 1) : unshown'[i] = unshown[i + 1]
  <2>1. unshown \in Seq(QueueEvents)
    BY DEF QueueTypeOK
  <2>2. Len(unshown) \in Nat \ {0}
    BY <1>1, <2>1, EmptySeq
  <2>3. QED
    BY <1>1, <2>1, <2>2
<1>3. /\ timeline' \in Seq(TimelineEntries) /\ timeline' # <<>>
      /\ timeline'[Len(timeline')].event = Head(unshown)
      /\ \A i \in DOMAIN timeline : i \in DOMAIN timeline' /\ timeline'[i] = timeline[i]
      /\ TimelineIsOrdered'
  BY <1>1, <1>2, ShownIsLast
<1>4. poll' \in PollStates /\ PollHasSeen' /\ PollsAreTrue'
  BY <1>1, <1>3, HappeningIsSeen
<1>5. QueueTypeOK'
  BY <1>1, <1>2, <1>3, <1>4 DEF QueueTypeOK
<1>6. unshown[Len(unshown)] = "added_to_merge_queue" <=> queued
  BY <1>1 DEF EndsAsQueued
<1>7. EndsAsQueued'
  <2>1. CASE Len(unshown) = 1
    <3>1. Len(unshown') = 0 /\ Head(unshown) = unshown[Len(unshown)]
      BY <1>2, <2>1
    <3>2. unshown' = <<>>
      BY <1>2, <3>1, EmptySeq
    <3>3. QED
      BY <1>1, <1>3, <1>6, <3>1, <3>2 DEF EndsAsQueued
  <2>2. CASE Len(unshown) # 1
    <3>1. unshown'[Len(unshown')] = unshown[Len(unshown)]
      BY <1>2, <2>2
    <3>2. unshown' # <<>>
      BY <1>2, <2>2, EmptySeq
    <3>3. QED
      BY <1>1, <1>6, <3>1, <3>2 DEF EndsAsQueued
  <2>3. QED
    BY <2>1, <2>2
<1>8. QED
  BY <1>1, <1>3, <1>4, <1>5, <1>7

LEMMA ShowStatusKeepsQueue ==
  ASSUME QueueInv, ShowStatus
  PROVE  QueueInv'
<1> USE DEF QueueInv
<1>1. /\ UNCHANGED <<state, queued, timeline, unshown, said>> /\ Witnessed
      /\ status' \in {"CLEAN", "QUEUED"}
  BY DEF ShowStatus
<1>2. poll' \in PollStates /\ PollHasSeen' /\ PollsAreTrue'
  BY <1>1, HappeningIsSeen
<1>3. QueueTypeOK'
  BY <1>1, <1>2 DEF QueueTypeOK
<1>4. EndsAsQueued' /\ TimelineIsOrdered'
  BY <1>1 DEF EndsAsQueued, TimelineIsOrdered
<1>5. QED
  BY <1>1, <1>2, <1>3, <1>4

(* A step of a poll that prints nothing.                                   *)
LEMMA PollStepKeepsQueue ==
  ASSUME QueueInv, UNCHANGED <<queueVars, said>>, poll' \in PollStates, PollHasSeen'
  PROVE  QueueInv'
<1> USE DEF QueueInv, queueVars
<1>1. QueueTypeOK'
  BY DEF QueueTypeOK
<1>2. EndsAsQueued' /\ TimelineIsOrdered'
  BY DEF EndsAsQueued, TimelineIsOrdered
<1>3. PollsAreTrue'
  BY DEF PollsAreTrue
<1>4. QED
  BY <1>1, <1>2, <1>3

LEMMA PollStartsKeepsQueue ==
  ASSUME QueueInv, PollStarts
  PROVE  QueueInv'
<1> USE DEF QueueInv
<1>1. /\ UNCHANGED <<queueVars, said>>
      /\ poll' = [pc |-> "repo", merged |-> FALSE, status |-> "none", during |-> {Fate}, settled |-> Settled]
  BY DEF PollStarts, NoPoll
<1>2. Settled \in BOOLEAN
  BY DEF Settled
<1>3. poll' \in PollStates
  BY <1>1, <1>2, FateTyped DEF PollStates
<1>4. PollHasSeen'
  BY <1>1 DEF PollHasSeen, queueVars, Fate, Settled
<1>5. QED
  BY <1>1, <1>3, <1>4, PollStepKeepsQueue

LEMMA PollReadsKeepQueue ==
  ASSUME QueueInv, UNCHANGED <<queueVars, said>>,
         \/ poll.pc = "repo" /\ poll' = [poll EXCEPT !.pc = "state"]
         \/ ReadPrState
  PROVE  QueueInv'
<1> USE DEF QueueInv
<1>1. poll \in PollStates
  BY DEF QueueTypeOK
<1>2. Fate' = Fate /\ Settled' = Settled /\ state' = state
  BY DEF Fate, Settled, queueVars
<1>3. CASE poll.pc = "repo" /\ poll' = [poll EXCEPT !.pc = "state"]
  <2>1. poll' \in PollStates /\ PollHasSeen'
    BY <1>1, <1>2, <1>3 DEF PollStates, PollHasSeen
  <2>2. QED
    BY <2>1, PollStepKeepsQueue
<1>4. CASE ReadPrState
  <2>1. /\ poll' \in PollStates /\ poll'.pc = "timeline" /\ poll'.merged = (state = "MERGED")
        /\ poll'.status = status /\ poll'.during = poll.during /\ poll'.settled = poll.settled
        /\ poll.pc = "state"
    BY <1>1, <1>4 DEF ReadPrState, PollStates, QueueTypeOK
  <2>2. poll.settled /\ status = "QUEUED" => Fate = "queued"
    BY <2>1 DEF PollHasSeen, Settled, Fate, QueueTypeOK
  <2>3. PollHasSeen'
    BY <1>2, <2>1, <2>2 DEF PollHasSeen
  <2>4. QED
    BY <2>1, <2>3, PollStepKeepsQueue
<1>5. QED
  BY <1>3, <1>4

(* What a poll prints.                                                     *)
LEMMA PrintsKeepsQueue ==
  ASSUME QueueInv, poll.pc # "none", NEW outcome \in Fates, Prints(outcome),
         poll.settled => \/ outcome \in {"pending", Fate} \cup poll.during
                         \/ outcome = "ejected" /\ {"queued", "merged"} \subseteq poll.during,
         outcome = "merged" => state = "MERGED",
         outcome = "ejected" => \E i \in DOMAIN timeline : timeline[i].event = "removed_from_merge_queue"
  PROVE  QueueInv'
<1> USE DEF QueueInv
<1>1. /\ UNCHANGED queueVars
      /\ said' = [outcome |-> outcome, during |-> poll.during \cup {Fate}, settled |-> poll.settled]
      /\ poll' = [pc |-> "none", merged |-> FALSE, status |-> "none", during |-> {}, settled |-> TRUE]
  BY DEF Prints, NoPoll
<1>2. said' \in Printed /\ poll' \in PollStates
  BY <1>1, FateTyped DEF QueueTypeOK, PollStates, Printed
<1>3. QueueTypeOK'
  BY <1>1, <1>2 DEF QueueTypeOK, queueVars
<1>4. EndsAsQueued' /\ TimelineIsOrdered' /\ PollHasSeen'
  BY <1>1 DEF EndsAsQueued, TimelineIsOrdered, PollHasSeen, queueVars
<1>5. PollsAreTrue'
  BY <1>1 DEF PollsAreTrue, queueVars
<1>6. QED
  BY <1>1, <1>3, <1>4, <1>5 DEF queueVars

(* A timeline read when GitHub has caught up ends in what the queue did; a *)
(* pull request no longer queued, not merged when its state was read, was  *)
(* dropped, or has landed since.                                           *)
LEMMA ReadTimelineKeepsQueue ==
  ASSUME QueueInv, ReadTimeline
  PROVE  QueueInv'
<1> USE DEF QueueInv
<1>1. PICK readable \in BOOLEAN :
        Prints(Classify(poll.merged, IF readable THEN LastMergeQueueEvent(timeline) ELSE "null", poll.status))
  BY DEF ReadTimeline
<1> DEFINE event == IF readable THEN LastMergeQueueEvent(timeline) ELSE "null"
           outcome == Classify(poll.merged, event, poll.status)
<1>2. poll.pc = "timeline"
  BY DEF ReadTimeline
<1>3. /\ event \in QueueEvents \cup {"null"}
      /\ event # "null" => /\ timeline # <<>> /\ Len(timeline) \in DOMAIN timeline
                           /\ timeline[Len(timeline)].event = event
  <2>1. CASE timeline = <<>> \/ ~readable
    BY <2>1 DEF LastMergeQueueEvent
  <2>2. CASE timeline # <<>> /\ readable
    <3>1. timeline \in Seq(TimelineEntries)
      BY DEF QueueTypeOK
    <3>2. Len(timeline) \in DOMAIN timeline
      BY <2>2, <3>1, EmptySeq
    <3>3. timeline[Len(timeline)] \in TimelineEntries
      BY <3>1, <3>2
    <3>4. QED
      BY <2>2, <3>2, <3>3, LatestEventIsLast DEF TimelineEntries
  <2>3. QED
    BY <2>1, <2>2
<1>4. outcome \in Fates
  BY DEF Classify, Fates
<1>5. CASE outcome = "merged"
  <2>1. poll.merged
    BY <1>5 DEF Classify
  <2>2. state = "MERGED" /\ Fate = "merged"
    BY <2>1 DEF PollHasSeen, Fate
  <2>3. QED
    BY <1>1, <1>2, <1>4, <1>5, <2>2, PrintsKeepsQueue
<1>6. CASE outcome = "ejected"
  <2>1. ~poll.merged /\ event = "removed_from_merge_queue"
    BY <1>6 DEF Classify
  <2>2. \E i \in DOMAIN timeline : timeline[i].event = "removed_from_merge_queue"
    BY <1>3, <2>1
  <2>3. poll.settled => ~queued
    BY <1>2, <1>3, <2>1 DEF PollHasSeen, Settled, EndsAsQueued
  <2>4. poll.settled => Fate = "ejected" \/ {"queued", "merged"} \subseteq poll.during
    BY <1>2, <2>1, <2>2, <2>3 DEF PollHasSeen, Fate
  <2>5. QED
    BY <1>1, <1>2, <1>4, <1>6, <2>2, <2>4, PrintsKeepsQueue
<1>7. CASE outcome = "queued"
  <2>1. event = "added_to_merge_queue" \/ poll.status = "QUEUED"
    BY <1>7 DEF Classify
  <2>2. poll.settled /\ event = "added_to_merge_queue" => Fate = "queued"
    BY <1>2, <1>3 DEF PollHasSeen, Settled, EndsAsQueued, Fate
  <2>3. poll.settled /\ poll.status = "QUEUED" => "queued" \in poll.during
    BY <1>2 DEF PollHasSeen
  <2>4. QED
    BY <1>1, <1>2, <1>4, <1>7, <2>1, <2>2, <2>3, PrintsKeepsQueue
<1>8. CASE outcome = "pending"
  BY <1>1, <1>2, <1>4, <1>8, PrintsKeepsQueue
<1>9. QED
  BY <1>4, <1>5, <1>6, <1>7, <1>8 DEF Fates

LEMMA QueueInvInductive == QueueInv /\ [QueueNext]_mergeQueueVars => QueueInv'
<1> SUFFICES ASSUME QueueInv, [QueueNext]_mergeQueueVars
             PROVE  QueueInv'
  OBVIOUS
<1>1. CASE UNCHANGED mergeQueueVars
  <2>1. poll' \in PollStates /\ PollHasSeen'
    BY <1>1 DEF mergeQueueVars, QueueInv, QueueTypeOK, PollHasSeen, Fate, Settled
  <2>2. QED
    BY <1>1, <2>1, PollStepKeepsQueue DEF mergeQueueVars, queueVars
<1>2. CASE Enqueue
  BY <1>2, HappensKeepsQueue DEF Enqueue, QueueEvents
<1>3. CASE Dequeue
  BY <1>3, HappensKeepsQueue DEF Dequeue, QueueEvents, QueueInv
<1>4. CASE Land
  <2>1. Fate = "queued"
    BY <1>4 DEF Land, Fate, QueueInv
  <2>2. QED
    BY <1>4, <2>1, HappensKeepsQueue DEF Land, QueueEvents
<1>5. CASE Show
  BY <1>5, ShowKeepsQueue
<1>6. CASE ShowStatus
  BY <1>6, ShowStatusKeepsQueue
<1>7. CASE PollStarts
  BY <1>7, PollStartsKeepsQueue
<1>8. CASE ResolveRepo
  BY <1>8, PollReadsKeepQueue, PrintsKeepsQueue DEF ResolveRepo, Fates
<1>9. CASE ReadPrState
  BY <1>9, PollReadsKeepQueue DEF ReadPrState
<1>10. CASE StateUnreadable
  BY <1>10, PrintsKeepsQueue DEF StateUnreadable, Fates
<1>11. CASE ReadTimeline
  BY <1>11, ReadTimelineKeepsQueue
<1>12. QED
  BY <1>1, <1>2, <1>3, <1>4, <1>5, <1>6, <1>7, <1>8, <1>9, <1>10, <1>11 DEF QueueNext

(* Once GitHub has caught up, a poll of the merge queue prints what was so *)
(* while it looked, but for the landing between its two reads.             *)
THEOREM QueuePollsAreTrue == QueueSpec => []PollsAreTrue
<1>1. QueueInv => PollsAreTrue
  BY DEF QueueInv
<1>2. QED
  BY <1>1, QueueInvInitially, QueueInvInductive, PTL DEF QueueSpec
=============================================================================
