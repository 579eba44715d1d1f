------------------------------ MODULE EpicLock ------------------------------
(***************************************************************************)
(* The epic mutation lock: sessions that run `epic-lock acquire` and       *)
(* `epic-lock release` against one GitHub issue.  epic-lock/github.ts over *)
(* epic-lock/claim-resolution.ts and tracker/gh-io.ts.                     *)
(*                                                                         *)
(* GitHub offers no conditional write.  The lock is two layers: a shared   *)
(* label anyone may add, and claim comments, of which the earliest by an   *)
(* author with write permission decides.  Each gh call is a step of its    *)
(* own; any call may fail, before or after it took effect.                 *)
(*                                                                         *)
(* Comments are kept in (created_at, id) order, which is the order they    *)
(* were posted in, as the sequence of the sessions they name.              *)
(***************************************************************************)
EXTENDS Naturals, Sequences

CONSTANTS
  Sessions,
  Author,      \* session -> the login its gh calls are made under
  Writers,     \* the logins with write permission or better
  ProbesFail,  \* may a permission probe fail?
  MaxFaults    \* bound on failed calls and dead sessions

ASSUME AuthorAssumption == DOMAIN Author = Sessions
ASSUME ProbesAssumption == ProbesFail \in BOOLEAN
ASSUME FaultsAssumption == MaxFaults \in Nat

VARIABLES
  label,     \* is status:planning on the epic?
  comments,  \* the claim comments, oldest first
  pc,        \* session -> the gh call it makes next, or where it rests
  seen,      \* session -> the comments its checkpoint GET returned
  faults

vars == <<label, comments, pc, seen, faults>>

Acquiring == {"adding", "posting", "listing", "resolving", "retracting"}
Resting == {"idle", "dead"}
PCs == Acquiring \cup Resting \cup {"holding", "deleting", "unreleased"}

TypeOK ==
  /\ label \in BOOLEAN
  /\ comments \in Seq(Sessions)
  /\ pc \in [Sessions -> PCs]
  /\ seen \in [Sessions -> Seq(Sessions)]
  /\ faults \in 0..MaxFaults

Init ==
  /\ label = FALSE
  /\ comments = <<>>
  /\ pc = [s \in Sessions |-> "idle"]
  /\ seen = [s \in Sessions |-> <<>>]
  /\ faults = 0

-----------------------------------------------------------------------------
(* Claim resolution. *)

(* Faulty variant: any claim of one's own wins, earliest or not. *)
WinsAnyway(claims, authorized, s) ==
  Author[s] \in authorized /\ \E i \in DOMAIN claims : claims[i] = s

(* Faulty variant: only an uncontested claim wins. *)
WinsAlone(claims, authorized, s) ==
  Author[s] \in authorized /\ \A i \in DOMAIN claims : claims[i] = s

(* resolveWinner: s wrote the earliest comment of an authorized author. *)
Wins(claims, authorized, s) ==
  \E i \in DOMAIN claims :
    /\ claims[i] = s /\ Author[s] \in authorized
    /\ \A j \in 1..(i - 1) : Author[claims[j]] \notin authorized

ownClaims(s) == {i \in DOMAIN comments : comments[i] = s}

Without(claims, k) ==
  [i \in 1..(Len(claims) - 1) |-> IF i < k THEN claims[i] ELSE claims[i + 1]]

Goto(s, to) == pc' = [pc EXCEPT ![s] = to]

Fault == faults < MaxFaults /\ faults' = faults + 1

-----------------------------------------------------------------------------
(* acquire. *)

(* Rule 0: a label already there sends the arrival away with nothing done. *)
CheckLabel(s) ==
  /\ pc[s] = "idle" /\ ~ label
  /\ Goto(s, "adding")
  /\ UNCHANGED <<label, comments, seen, faults>>

AddLabel(s) ==
  /\ pc[s] = "adding"
  /\ label' = TRUE
  /\ Goto(s, "posting")
  /\ UNCHANGED <<comments, seen, faults>>

LabelMissing(s) ==
  /\ pc[s] = "adding" /\ Fault
  /\ label' \in {label, TRUE}
  /\ Goto(s, "idle")
  /\ UNCHANGED <<comments, seen>>

PostClaim(s) ==
  /\ pc[s] = "posting"
  /\ comments' = Append(comments, s)
  /\ Goto(s, "listing")
  /\ UNCHANGED <<label, seen, faults>>

(* The label is left for a co-racer, and so is a claim that did land. *)
ClaimPostFailed(s) ==
  /\ pc[s] = "posting" /\ Fault
  /\ comments' \in {comments, Append(comments, s)}
  /\ Goto(s, "idle")
  /\ UNCHANGED <<label, seen>>

ListComments(s) ==
  /\ pc[s] = "listing"
  /\ seen' = [seen EXCEPT ![s] = comments]
  /\ Goto(s, "resolving")
  /\ UNCHANGED <<label, comments, faults>>

ListFails(s) ==
  /\ pc[s] = "listing" /\ Fault
  /\ Goto(s, "idle")
  /\ UNCHANGED <<label, comments, seen>>

(* Faulty variant: a loser goes away without retracting. *)
DecideAndLeave(s, authorized) ==
  /\ pc[s] = "resolving"
  /\ Goto(s, IF Wins(seen[s], authorized, s) THEN "holding" ELSE "idle")
  /\ seen' = [seen EXCEPT ![s] = <<>>]
  /\ UNCHANGED <<label, comments>>

Decide(s, authorized) ==
  /\ pc[s] = "resolving"
  /\ Goto(s, IF Wins(seen[s], authorized, s) THEN "holding" ELSE "retracting")
  /\ seen' = [seen EXCEPT ![s] = <<>>]
  /\ UNCHANGED <<label, comments>>

Resolve(s) == Decide(s, Writers) /\ UNCHANGED faults

(* authorizedAuthors: a login whose permission probe fails is dropped. *)
ResolveUnprobed(s) ==
  /\ ProbesFail /\ Fault
  /\ \E unprobed \in SUBSET {Author[t] : t \in Sessions} : Decide(s, Writers \ unprobed)

(* Faulty variant: a loser deletes the winner's comment. *)
RetractWinner(s) ==
  /\ pc[s] = "retracting"
  /\ comments # <<>> /\ comments' = Without(comments, 1)
  /\ Goto(s, "idle")
  /\ UNCHANGED <<label, seen, faults>>

(* A loser takes back the comment this acquire posted, its latest, and     *)
(* never the label.                                                        *)
RetractClaim(s) ==
  /\ pc[s] = "retracting"
  /\ \E k \in ownClaims(s) :
       /\ \A j \in ownClaims(s) : j <= k
       /\ comments' = Without(comments, k)
  /\ Goto(s, "idle")
  /\ UNCHANGED <<label, seen, faults>>

(* A failed retraction is ignored, and may have taken the comment back. *)
RetractFails(s) ==
  /\ pc[s] = "retracting" /\ Fault
  /\ \/ UNCHANGED comments
     \/ \E k \in ownClaims(s) :
          (\A j \in ownClaims(s) : j <= k) /\ comments' = Without(comments, k)
  /\ Goto(s, "idle")
  /\ UNCHANGED <<label, seen>>

-----------------------------------------------------------------------------
(* release: by the holder, or again by one whose release failed. *)

ListOwnClaims(s) ==
  /\ pc[s] \in {"holding", "unreleased"}
  /\ Goto(s, "deleting")
  /\ UNCHANGED <<label, comments, seen, faults>>

(* All of a session's comments, concurrently, so in any order. *)
DeleteOwnClaim(s) ==
  /\ pc[s] = "deleting"
  /\ \E k \in ownClaims(s) : comments' = Without(comments, k)
  /\ UNCHANGED <<label, pc, seen, faults>>

(* The label goes last; finding it gone already is as good. *)
RemoveLabel(s) ==
  /\ pc[s] = "deleting" /\ ownClaims(s) = {}
  /\ label' = FALSE
  /\ Goto(s, "idle")
  /\ UNCHANGED <<comments, seen, faults>>

(* Every other failure is loud: release stops where it is, and what it was *)
(* deleting may be gone all the same.                                      *)
ReleaseFails(s) ==
  /\ pc[s] \in {"holding", "unreleased", "deleting"} /\ Fault
  /\ \/ UNCHANGED <<label, comments>>
     \/ /\ pc[s] = "deleting" /\ UNCHANGED label
        /\ \E k \in ownClaims(s) : comments' = Without(comments, k)
     \/ pc[s] = "deleting" /\ ownClaims(s) = {} /\ label' = FALSE /\ UNCHANGED comments
  /\ Goto(s, "unreleased")
  /\ UNCHANGED seen

-----------------------------------------------------------------------------
(* The environment. *)

(* A session that ends takes its id with it. *)
Die(s) ==
  /\ pc[s] # "dead" /\ Fault
  /\ Goto(s, "dead")
  /\ seen' = [seen EXCEPT ![s] = <<>>]
  /\ UNCHANGED <<label, comments>>

(* "A human clears a leaked label", when nobody is at work on the epic. *)
HumanClearsLabel ==
  /\ label /\ \A s \in Sessions : pc[s] \in Resting
  /\ label' = FALSE
  /\ UNCHANGED <<comments, pc, seen, faults>>

Session(s) ==
  \/ CheckLabel(s) \/ AddLabel(s) \/ PostClaim(s) \/ ListComments(s) \/ Resolve(s)
  \/ RetractClaim(s) \/ ListOwnClaims(s) \/ DeleteOwnClaim(s) \/ RemoveLabel(s)

GhFault(s) ==
  \/ LabelMissing(s) \/ ClaimPostFailed(s) \/ ListFails(s) \/ ResolveUnprobed(s)
  \/ RetractFails(s) \/ ReleaseFails(s) \/ Die(s)

Next ==
  \/ \E s \in Sessions : Session(s) \/ GhFault(s)
  \/ HumanClearsLabel

Spec == Init /\ [][Next]_vars

(* Planning runs are started again and again, finish what they start, and  *)
(* release on every exit; a human looks after an abandoned epic.           *)
FairSpec ==
  /\ Spec
  /\ \A s \in Sessions : WF_vars(Session(s))
  /\ WF_vars(HumanClearsLabel)

-----------------------------------------------------------------------------
Holders == {s \in Sessions : pc[s] = "holding"}

(* "Of any set of co-acquirers, exactly one plans": no two sessions were   *)
(* told the lock is theirs, whatever calls failed and whoever died.        *)
OneHolder == \A s, t \in Holders : s = t

(* A holder's claim stays the earliest until the holder releases: nobody's *)
(* release, retraction or late claim takes the lock from under it.         *)
HolderIsNeverEvicted ==
  \A s \in Holders : Wins(comments, Writers, s)

(* A claim ends with the run that posted it, unless a call failed or a     *)
(* session died: none is left to beat every later claim.                   *)
ClaimsEndWithRuns ==
  faults = 0 =>
    \A s \in Sessions : pc[s] \in {"idle", "adding", "posting"} => ownClaims(s) = {}

(* The epic is planned again and again: until a call fails or a session    *)
(* dies, no interleaving of co-acquirers wedges it for good.               *)
PlannableAgain == []<>(Holders # {} \/ faults > 0)

=============================================================================
