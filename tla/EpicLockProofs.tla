--------------------------- MODULE EpicLockProofs ---------------------------
(***************************************************************************)
(* Theorems about what sessions keep on one issue that each of them reads  *)
(* in one call and writes in another: the epic's lock (EpicLock), for any  *)
(* sessions, logins and fault bound, and a wayfinder map (WayfinderMap),   *)
(* for any sessions, tickets and edits by hand; about what is read of the  *)
(* intake stage before an issue is filed there (Intake), for any looks     *)
(* that overlap, titles and texts; and about the epic's ledger that the    *)
(* review-plan gate reads call by call (EpicPlan), for any plans, children *)
(* and edits, with the search for cycles it rests on (LedgerRules).        *)
(***************************************************************************)
EXTENDS EpicLock, WayfinderMap, Intake, EpicPlan, FiniteSetTheorems, WellFoundedInduction, TLAPS

(* The permission probes never fail, or cannot tell two sessions apart     *)
(* because all of them run under one login.                                *)
SafeProbes == ~ ProbesFail \/ \A s, t \in Sessions : Author[s] = Author[t]

-----------------------------------------------------------------------------
(* What appending and removing comments do. *)

LEMMA WithoutTyped ==
  ASSUME NEW claims \in Seq(Sessions), NEW k \in DOMAIN claims
  PROVE  /\ Without(claims, k) \in Seq(Sessions)
         /\ Len(Without(claims, k)) = Len(claims) - 1
         /\ \A i \in 1..(Len(claims) - 1) :
              Without(claims, k)[i] = IF i < k THEN claims[i] ELSE claims[i + 1]
BY DEF Without

(* A later comment does not dislodge the winner. *)
LEMMA WinnerSurvivesAppend ==
  ASSUME NEW claims \in Seq(Sessions), NEW s \in Sessions, NEW t \in Sessions,
         NEW A, Wins(claims, A, s)
  PROVE  Wins(Append(claims, t), A, s)
<1>1. PICK i \in DOMAIN claims : /\ claims[i] = s /\ Author[s] \in A
                                 /\ \A j \in 1..(i - 1) : Author[claims[j]] \notin A
      BY DEF Wins
<1>2. /\ i \in 1..Len(claims)
      /\ DOMAIN Append(claims, t) = 1..(Len(claims) + 1)
      /\ \A j \in 1..Len(claims) : Append(claims, t)[j] = claims[j]
      OBVIOUS
<1>3. i \in DOMAIN Append(claims, t) /\ \A j \in 1..(i - 1) : j \in 1..Len(claims)
      BY <1>2
<1> QED BY <1>1, <1>2, <1>3 DEF Wins

(* Removing somebody else's comment does not either. *)
LEMMA WinnerSurvivesRemoval ==
  ASSUME NEW claims \in Seq(Sessions), NEW s \in Sessions, NEW A,
         NEW k \in DOMAIN claims, claims[k] # s, Wins(claims, A, s)
  PROVE  Wins(Without(claims, k), A, s)
<1>1. PICK i \in DOMAIN claims : /\ claims[i] = s /\ Author[s] \in A
                                 /\ \A j \in 1..(i - 1) : Author[claims[j]] \notin A
      BY DEF Wins
<1> DEFINE rest == Without(claims, k)
           n == IF k < i THEN i - 1 ELSE i
<1>2. i \in 1..Len(claims) /\ k \in 1..Len(claims) /\ k # i
      BY <1>1
<1>3. /\ DOMAIN rest = 1..(Len(claims) - 1)
      /\ \A j \in 1..(Len(claims) - 1) : rest[j] = IF j < k THEN claims[j] ELSE claims[j + 1]
      BY DEF Without
<1>4. n \in DOMAIN rest /\ rest[n] = s
      BY <1>1, <1>2, <1>3
<1>5. \A j \in 1..(n - 1) : Author[rest[j]] \notin A
  <2> TAKE j \in 1..(n - 1)
  <2>1. j \in 1..(Len(claims) - 1)
        BY <1>2
  <2>2. CASE j < k
        BY <2>1, <2>2, <1>1, <1>2, <1>3
  <2>3. CASE ~ (j < k)
    <3>1. k < i /\ j + 1 \in 1..(i - 1)
          BY <2>3, <1>2
    <3> QED BY <3>1, <2>1, <2>3, <1>1, <1>3
  <2> QED BY <2>2, <2>3
<1> HIDE DEF rest, n
<1>6. \E m \in DOMAIN rest : /\ rest[m] = s /\ Author[s] \in A
                             /\ \A j \in 1..(m - 1) : Author[rest[j]] \notin A
      BY <1>1, <1>4, <1>5
<1> QED BY <1>6 DEF Wins, rest

(* There is one winner. *)
LEMMA WinnerIsUnique ==
  ASSUME NEW claims \in Seq(Sessions), NEW A, NEW s \in Sessions, NEW t \in Sessions,
         Wins(claims, A, s), Wins(claims, A, t)
  PROVE  s = t
<1>1. PICK i \in 1..Len(claims) : /\ claims[i] = s /\ Author[s] \in A
                                  /\ \A j \in 1..(i - 1) : Author[claims[j]] \notin A
      BY DEF Wins
<1>2. PICK j \in 1..Len(claims) : /\ claims[j] = t /\ Author[t] \in A
                                  /\ \A l \in 1..(j - 1) : Author[claims[l]] \notin A
      BY DEF Wins
<1>3. i \notin 1..(j - 1) /\ j \notin 1..(i - 1)
      BY <1>1, <1>2
<1>4. i = j
      BY <1>3
<1> QED BY <1>1, <1>2, <1>4

-----------------------------------------------------------------------------
(* Type correctness. *)

LEMMA TypeInductive == TypeOK /\ [Next]_vars => TypeOK'
<1> SUFFICES ASSUME TypeOK, [Next]_vars PROVE TypeOK'
    OBVIOUS
<1> USE FaultsAssumption DEF TypeOK, PCs, Acquiring, Resting, Goto, Fault
<1>1. CASE UNCHANGED vars
      BY <1>1 DEF vars
<1>2. CASE HumanClearsLabel
      BY <1>2 DEF HumanClearsLabel
<1>3. ASSUME NEW s \in Sessions, Session(s) PROVE TypeOK'
  <2>1. CASE CheckLabel(s)
        BY <2>1 DEF CheckLabel
  <2>2. CASE AddLabel(s)
        BY <2>2 DEF AddLabel
  <2>3. CASE PostClaim(s)
        BY <2>3 DEF PostClaim
  <2>4. CASE ListComments(s)
        BY <2>4 DEF ListComments
  <2>5. CASE Resolve(s)
        BY <2>5 DEF Resolve, Decide
  <2>6. CASE RetractClaim(s)
        BY <2>6, WithoutTyped DEF RetractClaim, ownClaims
  <2>7. CASE ListOwnClaims(s)
        BY <2>7 DEF ListOwnClaims
  <2>8. CASE DeleteOwnClaim(s)
        BY <2>8, WithoutTyped DEF DeleteOwnClaim, ownClaims
  <2>9. CASE RemoveLabel(s)
        BY <2>9 DEF RemoveLabel
  <2> QED BY <1>3, <2>1, <2>2, <2>3, <2>4, <2>5, <2>6, <2>7, <2>8, <2>9 DEF Session
<1>4. ASSUME NEW s \in Sessions, GhFault(s) PROVE TypeOK'
  <2>1. CASE LabelMissing(s)
    <3>1. label' \in BOOLEAN
          BY <2>1, Zenon DEF LabelMissing
    <3> QED BY <2>1, <3>1 DEF LabelMissing
  <2>2. CASE ClaimPostFailed(s)
    <3>1. comments' \in Seq(Sessions)
      <4>1. Append(comments, s) \in Seq(Sessions)
            OBVIOUS
      <4> QED BY <2>2, <4>1 DEF ClaimPostFailed
    <3> QED BY <2>2, <3>1 DEF ClaimPostFailed
  <2>3. CASE ListFails(s)
        BY <2>3 DEF ListFails
  <2>4. CASE ResolveUnprobed(s)
        BY <2>4 DEF ResolveUnprobed, Decide
  <2>5. CASE RetractFails(s)
        BY <2>5, WithoutTyped DEF RetractFails, ownClaims
  <2>6. CASE ReleaseFails(s)
    <3>1. comments' \in Seq(Sessions)
          BY <2>6, WithoutTyped DEF ReleaseFails, ownClaims
    <3>2. label' \in BOOLEAN
          BY <2>6, Zenon DEF ReleaseFails
    <3> QED BY <2>6, <3>1, <3>2 DEF ReleaseFails
  <2>7. CASE Die(s)
        BY <2>7 DEF Die
  <2> QED BY <1>4, <2>1, <2>2, <2>3, <2>4, <2>5, <2>6, <2>7 DEF GhFault
<1> HIDE DEF TypeOK, PCs, Acquiring, Resting, Goto, Fault
<1> QED BY <1>1, <1>2, <1>3, <1>4 DEF Next

LEMMA InitTyped == Init => TypeOK
<1> SUFFICES ASSUME Init PROVE TypeOK
    OBVIOUS
<1>1. label \in BOOLEAN
      BY DEF Init
<1>2. comments \in Seq(Sessions) /\ faults \in 0..MaxFaults
      BY FaultsAssumption DEF Init
<1>3. pc \in [Sessions -> PCs]
      BY DEF Init, PCs, Resting
<1>4. seen \in [Sessions -> Seq(Sessions)]
  <2>1. <<>> \in Seq(Sessions)
        OBVIOUS
  <2> QED BY <2>1 DEF Init
<1> QED BY <1>1, <1>2, <1>3, <1>4 DEF TypeOK

(* The state is well formed in every reachable state. *)
THEOREM TypeCorrect == Spec => []TypeOK
<1>1. Init => TypeOK
      BY InitTyped
<1> QED BY <1>1, TypeInductive, PTL DEF Spec

-----------------------------------------------------------------------------
(* One holder.  A session about to be told it won, or told so already, is  *)
(* the winner among the comments as they are NOW, not only as it read      *)
(* them: later comments do not beat it and nobody else deletes its own.    *)

Won(s) == /\ pc[s] = "resolving" /\ Wins(seen[s], Writers, s) => Wins(comments, Writers, s)
          /\ pc[s] = "holding" => Wins(comments, Writers, s)

LockInv == TypeOK /\ \A s \in Sessions : Won(s)

(* Under SafeProbes a failed probe makes nobody a winner who was not one.  *)
LEMMA UnprobedWinnerWins ==
  ASSUME SafeProbes, ProbesFail, NEW claims \in Seq(Sessions), NEW U,
         NEW s \in Sessions, Wins(claims, Writers \ U, s)
  PROVE  Wins(claims, Writers, s)
<1>1. PICK i \in 1..Len(claims) : /\ claims[i] = s /\ Author[s] \in Writers \ U
                                  /\ \A j \in 1..(i - 1) : Author[claims[j]] \notin Writers \ U
      BY DEF Wins
<1>2. \A j \in 1..(i - 1) : Author[claims[j]] \notin Writers
  <2> SUFFICES ASSUME NEW j \in 1..(i - 1) PROVE FALSE
      OBVIOUS
  <2>1. claims[j] \in Sessions
        OBVIOUS
  <2>2. Author[claims[j]] = Author[s]
        BY <2>1 DEF SafeProbes
  <2> QED BY <1>1, <2>2
<1> QED BY <1>1, <1>2 DEF Wins

(* A session that neither moves nor loses its place keeps its promise.     *)
LEMMA BystanderStillWon ==
  ASSUME NEW t \in Sessions, Won(t), pc'[t] = pc[t], seen'[t] = seen[t],
         Wins(comments, Writers, t) => Wins(comments, Writers, t)'
  PROVE  Won(t)'
BY DEF Won, Wins

LEMMA LockInductive ==
  ASSUME SafeProbes, LockInv, [Next]_vars
  PROVE  LockInv'
<1>1. TypeOK /\ TypeOK'
      BY TypeInductive DEF LockInv
<1>2. CASE UNCHANGED vars
      BY <1>2, <1>1 DEF LockInv, Won, vars, Wins
<1>3. CASE HumanClearsLabel
      BY <1>3, <1>1 DEF HumanClearsLabel, LockInv, Won, Wins
<1>4. ASSUME NEW s \in Sessions, Session(s) \/ GhFault(s) PROVE LockInv'
  <2>1. \A t \in Sessions \ {s} : pc'[t] = pc[t] /\ seen'[t] = seen[t]
        BY <1>4, <1>1 DEF Session, GhFault, Goto, TypeOK, CheckLabel, AddLabel, PostClaim,
           ListComments, Resolve, Decide, RetractClaim, ListOwnClaims, DeleteOwnClaim,
           RemoveLabel, LabelMissing, ClaimPostFailed, ListFails, ResolveUnprobed,
           RetractFails, ReleaseFails, Die
  <2>2. \/ comments' = comments
        \/ comments' = Append(comments, s)
        \/ \E k \in DOMAIN comments : comments[k] = s /\ comments' = Without(comments, k)
        BY <1>4 DEF Session, GhFault, ownClaims, CheckLabel, AddLabel, PostClaim,
           ListComments, Resolve, Decide, RetractClaim, ListOwnClaims, DeleteOwnClaim,
           RemoveLabel, LabelMissing, ClaimPostFailed, ListFails, ResolveUnprobed,
           RetractFails, ReleaseFails, Die
  <2>3. ASSUME NEW t \in Sessions \ {s}, Wins(comments, Writers, t)
        PROVE  Wins(comments', Writers, t)
        BY <2>2, <2>3, <1>1, WinnerSurvivesAppend, WinnerSurvivesRemoval DEF TypeOK
  <2>4. \A t \in Sessions \ {s} : Won(t)'
        BY <2>1, <2>3 DEF LockInv, Won, Wins
  <2>5. Won(s)'
    <3>1. CASE ListComments(s)
          BY <3>1, <1>1 DEF ListComments, Goto, TypeOK, Won, Wins
    <3>2. CASE Resolve(s)
          BY <3>2, <1>1 DEF Resolve, Decide, Goto, TypeOK, LockInv, Won, Wins
    <3>3. CASE ResolveUnprobed(s)
      <4>1. PICK U : Decide(s, Writers \ U)
            BY <3>3 DEF ResolveUnprobed
      <4>2. Wins(seen[s], Writers \ U, s) => Wins(seen[s], Writers, s)
            BY <3>3, <1>1, UnprobedWinnerWins DEF ResolveUnprobed, TypeOK
      <4>3. /\ pc[s] = "resolving" /\ comments' = comments
            /\ pc'[s] = IF Wins(seen[s], Writers \ U, s) THEN "holding" ELSE "retracting"
            BY <4>1, <1>1 DEF Decide, Goto, TypeOK
      <4> QED BY <4>2, <4>3 DEF LockInv, Won, Wins
    <3>4. ASSUME ~ ListComments(s), ~ Resolve(s), ~ ResolveUnprobed(s)
          PROVE  pc'[s] \notin {"resolving", "holding"}
          BY <3>4, <1>4, <1>1 DEF Session, GhFault, Goto, TypeOK, CheckLabel, AddLabel,
             PostClaim, RetractClaim, ListOwnClaims, DeleteOwnClaim, RemoveLabel,
             LabelMissing, ClaimPostFailed, ListFails, RetractFails, ReleaseFails, Die
    <3> QED BY <3>1, <3>2, <3>3, <3>4 DEF Won
  <2> QED BY <2>4, <2>5, <1>1 DEF LockInv
<1> QED BY <1>2, <1>3, <1>4 DEF Next

LEMMA LockInvariant == ASSUME SafeProbes PROVE Spec => []LockInv
<1>1. Init => LockInv
      BY InitTyped DEF Init, LockInv, Won
<1>2. LockInv /\ [Next]_vars => LockInv'
      BY LockInductive
<1> QED BY <1>1, <1>2, PTL DEF Spec

(* A holder's claim stays the earliest authorized one until it releases.   *)
THEOREM HolderStaysWinner ==
  ASSUME SafeProbes PROVE Spec => []HolderIsNeverEvicted
<1>1. LockInv => HolderIsNeverEvicted
      BY DEF LockInv, Won, HolderIsNeverEvicted, Holders
<1> QED BY <1>1, LockInvariant, PTL

(* No two sessions hold the lock at once, for any number of sessions,      *)
(* failed calls and deaths, as long as probes are safe.                    *)
THEOREM AtMostOneHolder ==
  ASSUME SafeProbes PROVE Spec => []OneHolder
<1>1. LockInv => OneHolder
      BY WinnerIsUnique DEF LockInv, Won, OneHolder, Holders, TypeOK
<1> QED BY <1>1, LockInvariant, PTL
-----------------------------------------------------------------------------
(* Claims end with their runs.  As long as nothing failed, a session has   *)
(* no comment before it posts one, and one at most from then on.           *)

NoClaim(claims, s) == \A i \in DOMAIN claims : claims[i] # s
OneClaim(claims, s) == \A i, j \in DOMAIN claims : claims[i] = s /\ claims[j] = s => i = j

Tidy(s) ==
  /\ pc[s] \in {"idle", "adding", "posting"} => NoClaim(comments, s)
  /\ pc[s] \in {"listing", "resolving", "retracting"} => OneClaim(comments, s)

TidyInv == TypeOK /\ (faults = 0 => \A s \in Sessions : Tidy(s))

LEMMA CountAfterAppend ==
  ASSUME NEW claims \in Seq(Sessions), NEW s \in Sessions, NEW t \in Sessions
  PROVE  /\ NoClaim(claims, s) /\ t # s => NoClaim(Append(claims, t), s)
         /\ OneClaim(claims, s) /\ t # s => OneClaim(Append(claims, t), s)
         /\ NoClaim(claims, s) => OneClaim(Append(claims, s), s)
<1>1. \A u : /\ DOMAIN Append(claims, u) = 1..(Len(claims) + 1)
             /\ \A i \in 1..Len(claims) : Append(claims, u)[i] = claims[i]
             /\ Append(claims, u)[Len(claims) + 1] = u
      OBVIOUS
<1>2. DOMAIN claims = 1..Len(claims)
      OBVIOUS
<1>3. \A i \in 1..(Len(claims) + 1) : i \in 1..Len(claims) \/ i = Len(claims) + 1
      OBVIOUS
<1> QED BY <1>1, <1>2, <1>3 DEF NoClaim, OneClaim

LEMMA CountAfterRemoval ==
  ASSUME NEW claims \in Seq(Sessions), NEW s \in Sessions, NEW k \in DOMAIN claims
  PROVE  /\ NoClaim(claims, s) => NoClaim(Without(claims, k), s)
         /\ OneClaim(claims, s) => OneClaim(Without(claims, k), s)
         /\ OneClaim(claims, s) /\ claims[k] = s => NoClaim(Without(claims, k), s)
<1> DEFINE rest == Without(claims, k)
           old(i) == IF i < k THEN i ELSE i + 1
<1>1. DOMAIN rest = 1..(Len(claims) - 1) /\ DOMAIN claims = 1..Len(claims)
      BY DEF Without
<1>2. \A i \in DOMAIN rest : /\ old(i) \in DOMAIN claims /\ old(i) # k
                             /\ rest[i] = claims[old(i)]
      BY <1>1 DEF Without
<1>3. \A i, j \in DOMAIN rest : old(i) = old(j) => i = j
      BY <1>1
<1> HIDE DEF rest, old
<1>4. /\ NoClaim(claims, s) => NoClaim(rest, s)
      /\ OneClaim(claims, s) => OneClaim(rest, s)
      /\ OneClaim(claims, s) /\ claims[k] = s => NoClaim(rest, s)
      BY <1>2, <1>3 DEF NoClaim, OneClaim
<1> QED BY <1>4 DEF rest

LEMMA TidyInductive ==
  ASSUME TidyInv, [Next]_vars
  PROVE  TidyInv'
<1>1. TypeOK /\ TypeOK'
      BY TypeInductive DEF TidyInv
<1>2. CASE UNCHANGED vars
      BY <1>2, <1>1 DEF TidyInv, Tidy, NoClaim, OneClaim, vars
<1>3. CASE HumanClearsLabel
      BY <1>3, <1>1 DEF HumanClearsLabel, TidyInv, Tidy, NoClaim, OneClaim
<1>4. ASSUME NEW s \in Sessions, GhFault(s) PROVE TidyInv'
  <2>1. faults' = faults + 1
        BY <1>4 DEF GhFault, Fault, LabelMissing, ClaimPostFailed, ListFails, ResolveUnprobed,
           RetractFails, ReleaseFails, Die
  <2> QED BY <2>1, <1>1, FaultsAssumption DEF TidyInv, TypeOK
<1>5. ASSUME NEW s \in Sessions, Session(s) PROVE TidyInv'
  <2> SUFFICES ASSUME faults' = 0 PROVE \A t \in Sessions : Tidy(t)'
      BY <1>1 DEF TidyInv
  <2>1. \A t \in Sessions : Tidy(t)
        BY <1>5 DEF TidyInv, Session, CheckLabel, AddLabel, PostClaim, ListComments,
           Resolve, RetractClaim, ListOwnClaims, DeleteOwnClaim, RemoveLabel
  <2>2. \A t \in Sessions \ {s} : pc'[t] = pc[t]
        BY <1>5, <1>1 DEF Session, Goto, TypeOK, CheckLabel, AddLabel, PostClaim, ListComments,
           Resolve, Decide, RetractClaim, ListOwnClaims, DeleteOwnClaim, RemoveLabel
  <2>3. \/ comments' = comments
        \/ comments' = Append(comments, s)
        \/ \E k \in DOMAIN comments : comments[k] = s /\ comments' = Without(comments, k)
        BY <1>5 DEF Session, ownClaims, CheckLabel, AddLabel, PostClaim, ListComments,
           Resolve, Decide, RetractClaim, ListOwnClaims, DeleteOwnClaim, RemoveLabel
  <2>4. \A t \in Sessions \ {s} :
          /\ NoClaim(comments, t) => NoClaim(comments', t)
          /\ OneClaim(comments, t) => OneClaim(comments', t)
        BY <2>3, <1>1, CountAfterAppend, CountAfterRemoval DEF TypeOK
  <2>5. \A t \in Sessions \ {s} : Tidy(t)'
        BY <2>1, <2>2, <2>4 DEF Tidy, NoClaim, OneClaim
  <2>6. Tidy(s)'
    <3> USE DEF Goto, TypeOK
    <3>1. CASE CheckLabel(s) \/ AddLabel(s)
          BY <3>1, <2>1, <1>1 DEF Tidy, NoClaim, OneClaim, CheckLabel, AddLabel
    <3>2. CASE PostClaim(s)
      <4>1. pc[s] = "posting" /\ pc'[s] = "listing" /\ comments' = Append(comments, s)
            BY <3>2, <1>1 DEF PostClaim
      <4>2. OneClaim(comments', s)
            BY <4>1, <2>1, <1>1, CountAfterAppend DEF Tidy
      <4> QED BY <4>1, <4>2 DEF Tidy, NoClaim, OneClaim
    <3>3. CASE ListComments(s) \/ Resolve(s)
          BY <3>3, <2>1, <1>1 DEF Tidy, NoClaim, OneClaim, ListComments, Resolve, Decide
    <3>4. CASE RetractClaim(s)
      <4>1. pc[s] = "retracting" /\ pc'[s] = "idle"
            BY <3>4, <1>1 DEF RetractClaim
      <4>2. PICK k \in DOMAIN comments : comments[k] = s /\ comments' = Without(comments, k)
            BY <3>4 DEF RetractClaim, ownClaims
      <4>3. NoClaim(comments', s)
            BY <4>1, <4>2, <2>1, <1>1, CountAfterRemoval DEF Tidy
      <4> QED BY <4>1, <4>3 DEF Tidy, NoClaim, OneClaim
    <3>5. CASE ListOwnClaims(s) \/ DeleteOwnClaim(s)
      <4>1. pc'[s] = "deleting"
            BY <3>5, <1>1 DEF ListOwnClaims, DeleteOwnClaim
      <4> QED BY <4>1 DEF Tidy
    <3>6. CASE RemoveLabel(s)
          BY <3>6, <1>1 DEF RemoveLabel, ownClaims, Tidy, NoClaim, OneClaim
    <3> QED BY <1>5, <3>1, <3>2, <3>3, <3>4, <3>5, <3>6 DEF Session
  <2> QED BY <2>5, <2>6
<1> QED BY <1>2, <1>3, <1>4, <1>5 DEF Next

(* No claim is left behind by a run that ended, unless a call failed or a  *)
(* session died: whatever the number of sessions and logins.               *)
THEOREM ClaimsNeverLeak == Spec => []ClaimsEndWithRuns
<1>1. Init => TidyInv
      BY InitTyped DEF Init, TidyInv, Tidy, NoClaim
<1>2. TidyInv /\ [Next]_vars => TidyInv'
      BY TidyInductive
<1>3. TidyInv => ClaimsEndWithRuns
      BY DEF TidyInv, Tidy, NoClaim, ClaimsEndWithRuns, ownClaims
<1> QED BY <1>1, <1>2, <1>3, PTL DEF Spec

-----------------------------------------------------------------------------
(* The wayfinder map. *)

Entries == Tickets \cup {0}
Body == [decisions : Seq(Entries), frontier : Seq(Entries), fog : Seq(Entries)]
SubIssueLists == {<<>>} \cup UNION {[S -> {"open", "closed"}] : S \in SUBSET Tickets}
RunType ==
  [pc : {"idle", "sub-issues", "compute", "re-read", "patch"}, ticket : Entries,
   spawn : Seq(Tickets), source : Body, next : Body, state : SubIssueLists]

MapTyped ==
  /\ body \in Body /\ subIssues \in SubIssueLists
  /\ run \in [Wayfinders -> RunType]

(* The lockstep rule of one body. *)
InLockstep(b) == \A t \in Opening \ ToSet(b.frontier) : t \in ToSet(b.decisions) \cap ToSet(b.fog)

(* It holds of every body a session has in hand, the one it read and the   *)
(* one it computed, so it holds whichever of them is written over which.   *)
HandsInLockstep ==
  /\ InLockstep(body)
  /\ \A s \in Wayfinders : /\ run[s].pc # "idle" => InLockstep(run[s].source)
                           /\ run[s].pc \in {"re-read", "patch"} => InLockstep(run[s].next)

(* Without a race the body that is about to be replaced is the one the     *)
(* answer was added to.                                                    *)
HandsAreFresh ==
  /\ \A s \in Wayfinders : run[s].pc \in {"re-read", "patch"} =>
       ToSet(run[s].next.decisions) = ToSet(run[s].source.decisions) \cup {run[s].ticket}
  /\ raced \/ /\ answered \subseteq ToSet(body.decisions)
              /\ \A s \in Wayfinders : run[s].pc = "patch" => run[s].source = body

MapInv == MapTyped /\ HandsInLockstep /\ HandsAreFresh

(* What appending, joining and removing do to the set of entries. *)
LEMMA AppendedSet ==
  ASSUME NEW S, NEW q \in Seq(S), NEW x \in S
  PROVE  Append(q, x) \in Seq(S) /\ ToSet(Append(q, x)) = ToSet(q) \cup {x}
<1>1. Append(q, x) \in Seq(S) /\ Len(Append(q, x)) = Len(q) + 1 /\ Len(q) \in Nat
  OBVIOUS
<1>2. \A i \in 1..Len(q) : Append(q, x)[i] = q[i]
  OBVIOUS
<1>3. Append(q, x)[Len(q) + 1] = x
  OBVIOUS
<1>4. DOMAIN q = 1..Len(q) /\ DOMAIN Append(q, x) = 1..(Len(q) + 1)
  OBVIOUS
<1>5. ToSet(q) \cup {x} \subseteq ToSet(Append(q, x))
  BY <1>1, <1>2, <1>3, <1>4 DEF ToSet
<1>6. ToSet(Append(q, x)) \subseteq ToSet(q) \cup {x}
  BY <1>1, <1>2, <1>3, <1>4 DEF ToSet
<1>7. QED
  BY <1>1, <1>5, <1>6

LEMMA JoinedSet ==
  ASSUME NEW S, NEW q \in Seq(S), NEW r \in Seq(S)
  PROVE  q \o r \in Seq(S) /\ ToSet(q) \subseteq ToSet(q \o r)
<1>1. q \o r \in Seq(S) /\ DOMAIN q = 1..Len(q) /\ DOMAIN (q \o r) = 1..(Len(q) + Len(r))
  OBVIOUS
<1>2. \A i \in 1..Len(q) : (q \o r)[i] = q[i]
  OBVIOUS
<1>3. QED
  BY <1>1, <1>2 DEF ToSet

LEMMA LeastOf ==
  ASSUME NEW S \in SUBSET Nat, S # {}
  PROVE  Min(S) \in S
<1>1. IsWellFoundedOn(OpToRel(<, Nat), Nat)
  BY NatLessThanWellFounded
<1>2. \E x \in S : \A y \in S : ~ (<<y, x>> \in OpToRel(<, Nat))
  BY <1>1, WFMin
<1>3. PICK x \in S : \A y \in S : ~ (<<y, x>> \in OpToRel(<, Nat))
  BY <1>2
<1>4. \A y \in S : ~ (y < x)
  BY <1>3 DEF OpToRel
<1>5. \A y \in S : x =< y
  BY <1>4
<1>6. QED
  BY <1>5 DEF Min

(* Taking the first t away takes nothing else. *)
LEMMA RemovedFirst ==
  ASSUME NEW S, NEW q \in Seq(S), NEW t
  PROVE  RemoveFirst(q, t) \in Seq(S) /\ ToSet(q) \ {t} \subseteq ToSet(RemoveFirst(q, t))
<1> DEFINE I == {i \in 1..Len(q) : q[i] = t}
           k == Min(I)
<1>1. CASE I = {}
  <2>1. RemoveFirst(q, t) = q
    BY <1>1 DEF RemoveFirst
  <2>2. QED
    BY <2>1
<1>2. CASE I # {}
  <2>1. k \in I
    <3>1. I \in SUBSET Nat
      OBVIOUS
    <3> HIDE DEF I
    <3>2. QED
      BY <1>2, <3>1, LeastOf
  <2>2. RemoveFirst(q, t) = SubSeq(q, 1, k - 1) \o SubSeq(q, k + 1, Len(q))
    BY <1>2, <2>1 DEF RemoveFirst, RemoveAt, SelectInSeq
  <2> HIDE DEF k
  <2> DEFINE before == SubSeq(q, 1, k - 1)
             after == SubSeq(q, k + 1, Len(q))
  <2>3. k \in 1..Len(q) /\ q[k] = t /\ Len(q) \in Nat
    BY <2>1
  <2>4. /\ before \in Seq(S) /\ Len(before) = k - 1
        /\ \A i \in 1..(k - 1) : before[i] = q[i]
    BY <2>3
  <2>5. /\ after \in Seq(S) /\ Len(after) = Len(q) - k
        /\ \A i \in 1..(Len(q) - k) : after[i] = q[k + i]
    BY <2>3
  <2> HIDE DEF before, after
  <2>6. /\ before \o after \in Seq(S) /\ Len(before \o after) = Len(q) - 1
        /\ \A i \in 1..(k - 1) : (before \o after)[i] = q[i]
        /\ \A i \in 1..(Len(q) - k) : (before \o after)[k - 1 + i] = q[k + i]
    <3>1. before \o after \in Seq(S) /\ Len(before \o after) = Len(before) + Len(after)
      <4>1. before \in Seq(S) /\ after \in Seq(S)
        BY <2>4, <2>5
      <4>2. QED
        BY <4>1
    <3>2. \A i \in 1..Len(before) : (before \o after)[i] = before[i]
      BY <2>4, <2>5
    <3>3. \A i \in 1..Len(after) : (before \o after)[Len(before) + i] = after[i]
      BY <2>4, <2>5
    <3>4. k - 1 + (Len(q) - k) = Len(q) - 1
      BY <2>3
    <3>5. Len(before \o after) = Len(q) - 1
      BY <2>4, <2>5, <3>1, <3>4
    <3>6. \A i \in 1..(k - 1) : (before \o after)[i] = q[i]
      BY <2>4, <3>2
    <3>7. \A i \in 1..(Len(q) - k) : (before \o after)[k - 1 + i] = q[k + i]
      BY <2>4, <2>5, <3>3
    <3>8. QED
      BY <3>1, <3>5, <3>6, <3>7
  <2>7. ASSUME NEW u \in ToSet(q) \ {t}
        PROVE  u \in ToSet(before \o after)
    <3>1. PICK i \in 1..Len(q) : q[i] = u
      BY DEF ToSet
    <3>2. i # k
      BY <2>3, <3>1
    <3>3. DOMAIN (before \o after) = 1..(Len(q) - 1)
      BY <2>6
    <3>4. CASE i < k
      <4>1. i \in 1..(k - 1) /\ i \in 1..(Len(q) - 1)
        BY <2>3, <3>1, <3>4
      <4>2. QED
        BY <2>6, <3>1, <3>3, <4>1 DEF ToSet
    <3>5. CASE i > k
      <4>1. i - k \in 1..(Len(q) - k) /\ k + (i - k) = i /\ k - 1 + (i - k) = i - 1
        BY <2>3, <3>1, <3>5
      <4>2. (before \o after)[i - 1] = u
        BY <2>6, <3>1, <4>1
      <4>3. i - 1 \in 1..(Len(q) - 1)
        BY <2>3, <3>1, <3>5
      <4>4. QED
        BY <3>3, <4>2, <4>3 DEF ToSet
    <3>6. QED
      BY <2>3, <3>1, <3>2, <3>4, <3>5
  <2>8. QED
    BY <2>2, <2>6, <2>7 DEF before, after
<1>3. QED
  BY <1>1, <1>2

LEMMA Graduated ==
  ASSUME NEW b \in Body, NEW t \in Entries, NEW spawn \in Seq(Tickets)
  PROVE  /\ GraduateBody(b, t, spawn) \in Body
         /\ ToSet(GraduateBody(b, t, spawn).decisions) = ToSet(b.decisions) \cup {t}
         /\ InLockstep(b) => InLockstep(GraduateBody(b, t, spawn))
<1> DEFINE g == GraduateBody(b, t, spawn)
<1>1. b.decisions \in Seq(Entries) /\ b.frontier \in Seq(Entries) /\ b.fog \in Seq(Entries)
  BY DEF Body
<1>2. spawn \in Seq(Entries)
  BY DEF Entries
<1>3. /\ g.decisions = Append(b.decisions, t) /\ g.fog = Append(b.fog, t)
      /\ g.frontier = RemoveFirst(b.frontier, t) \o spawn
  BY DEF GraduateBody
<1>4. g.decisions \in Seq(Entries) /\ ToSet(g.decisions) = ToSet(b.decisions) \cup {t}
  BY <1>1, <1>3, AppendedSet
<1>5. g.fog \in Seq(Entries) /\ ToSet(g.fog) = ToSet(b.fog) \cup {t}
  BY <1>1, <1>3, AppendedSet
<1>6. RemoveFirst(b.frontier, t) \in Seq(Entries) /\ ToSet(b.frontier) \ {t} \subseteq ToSet(RemoveFirst(b.frontier, t))
  BY <1>1, RemovedFirst
<1>7. g.frontier \in Seq(Entries) /\ ToSet(b.frontier) \ {t} \subseteq ToSet(g.frontier)
  BY <1>2, <1>3, <1>6, JoinedSet
<1>8. g \in Body
  BY <1>4, <1>5, <1>7 DEF GraduateBody, Body
<1>9. InLockstep(b) => InLockstep(g)
  BY <1>4, <1>5, <1>7 DEF InLockstep
<1>10. QED
  BY <1>4, <1>8, <1>9

LEMMA ChartedInLockstep == MapInit => MapInv
<1> SUFFICES ASSUME MapInit
             PROVE  MapInv
  OBVIOUS
<1> DEFINE q == SetToSeq(Opening)
<1>1. q \in Seq(Opening) /\ ToSet(q) = Opening
  <2> DEFINE n == Cardinality(Opening)
  <2>1. n \in Nat /\ ExistsBijection(1..n, Opening)
    BY OpeningAssumption, FS_CardinalityType
  <2>2. \E f \in [1..n -> Opening] : IsInjective(f)
    BY <2>1 DEF ExistsBijection, Bijection, Injection
  <2>3. q \in Injection(1..n, Opening)
    BY <2>2 DEF SetToSeq, Injection
  <2>4. IsFiniteSet(1..n) /\ Cardinality(1..n) = n
    BY <2>1, FS_Interval
  <2>5. q \in Surjection(1..n, Opening)
    BY <2>3, <2>4, OpeningAssumption, FS_Injection
  <2>6. q \in [1..n -> Opening] /\ DOMAIN q = 1..n
    BY <2>3 DEF Injection
  <2> HIDE DEF q, n
  <2>7. ToSet(q) = Opening
    BY <2>5, <2>6 DEF ToSet, Surjection
  <2>8. q \in Seq(Opening)
    BY <2>1, <2>6
  <2>9. QED
    BY <2>7, <2>8
<1> HIDE DEF q
<1>2. q \in Seq(Entries) /\ <<>> \in Seq(Entries) /\ <<>> \in Seq(Tickets)
  BY <1>1, OpeningAssumption DEF Entries
<1>3. Empty \in Body
  BY <1>2 DEF Empty, Body
<1>4. body \in Body /\ body.frontier = q
  BY <1>2, <1>3 DEF MapInit, q, Body, Empty
<1>5. subIssues \in SubIssueLists
  BY OpeningAssumption DEF MapInit, SubIssueLists
<1>6. Unstarted \in RunType
  BY <1>2, <1>3 DEF Unstarted, RunType, Entries, SubIssueLists
<1>7. MapTyped
  BY <1>4, <1>5, <1>6 DEF MapInit, MapTyped
<1>8. HandsInLockstep
  BY <1>1, <1>4 DEF MapInit, HandsInLockstep, InLockstep, Unstarted
<1>9. HandsAreFresh
  BY DEF MapInit, HandsAreFresh, Unstarted
<1>10. QED
  BY <1>7, <1>8, <1>9 DEF MapInv

(* What a session has in hand changes; the map does not. *)
LEMMA HandChanges ==
  ASSUME MapInv, NEW s \in Wayfinders, NEW r \in RunType, Goes(s, r),
         UNCHANGED <<body, subIssues, answered, raced>>,
         r.pc # "idle" => InLockstep(r.source),
         r.pc \in {"re-read", "patch"} =>
           /\ InLockstep(r.next)
           /\ ToSet(r.next.decisions) = ToSet(r.source.decisions) \cup {r.ticket},
         r.pc = "patch" => r.source = body
  PROVE  MapInv'
<1>1. run' = [run EXCEPT ![s] = r] /\ run \in [Wayfinders -> RunType]
  BY DEF Goes, MapInv, MapTyped
<1>2. run'[s] = r /\ \A t \in Wayfinders \ {s} : run'[t] = run[t]
  BY <1>1
<1>3. MapTyped'
  BY <1>1 DEF MapInv, MapTyped
<1>4. HandsInLockstep'
  BY <1>2 DEF MapInv, HandsInLockstep, InLockstep
<1>5. HandsAreFresh'
  BY <1>2 DEF MapInv, HandsAreFresh
<1>6. QED
  BY <1>3, <1>4, <1>5 DEF MapInv

LEMMA MapInvInductive == MapInv /\ [MapNext]_mapVars => MapInv'
<1> SUFFICES ASSUME MapInv, [MapNext]_mapVars
             PROVE  MapInv'
  OBVIOUS
<1>1. /\ MapTyped /\ HandsInLockstep /\ HandsAreFresh
      /\ run \in [Wayfinders -> RunType] /\ body \in Body /\ subIssues \in SubIssueLists
  BY DEF MapInv, MapTyped
<1>2. Unstarted \in RunType /\ Unstarted.pc = "idle"
  BY DEF Unstarted, Empty, Body, RunType, Entries, SubIssueLists
<1>3. CASE UNCHANGED mapVars
  BY <1>3 DEF mapVars, MapInv, MapTyped, HandsInLockstep, InLockstep, HandsAreFresh
<1>4. ASSUME NEW s \in Wayfinders, ReadBody(s)
      PROVE  MapInv'
  <2>1. PICK t \in Tickets : \E spawn \in {<<>>} \cup {<<u>> : u \in Tickets \ {t}} :
          Goes(s, [Unstarted EXCEPT !.pc = "sub-issues", !.ticket = t, !.spawn = spawn, !.source = body])
    BY <1>4 DEF ReadBody
  <2>0. PICK spawn \in {<<>>} \cup {<<u>> : u \in Tickets \ {t}} :
          Goes(s, [Unstarted EXCEPT !.pc = "sub-issues", !.ticket = t, !.spawn = spawn, !.source = body])
    BY <2>1
  <2> DEFINE r == [Unstarted EXCEPT !.pc = "sub-issues", !.ticket = t, !.spawn = spawn, !.source = body]
  <2>2. spawn \in Seq(Tickets) /\ t \in Entries
    <3>1. \A u \in Tickets : <<u>> \in Seq(Tickets)
      OBVIOUS
    <3>2. spawn = <<>> \/ \E u \in Tickets : spawn = <<u>>
      OBVIOUS
    <3>3. <<>> \in Seq(Tickets)
      OBVIOUS
    <3>4. QED
      BY <3>1, <3>2, <3>3 DEF Entries
  <2>3. r \in RunType /\ r.pc = "sub-issues" /\ r.source = body
    BY <1>1, <1>2, <2>2 DEF RunType
  <2> HIDE DEF r
  <2>4. QED
    BY <1>1, <1>4, <2>0, <2>3, HandChanges DEF ReadBody, r, HandsInLockstep
<1>5. ASSUME NEW s \in Wayfinders, ReadSubIssues(s)
      PROVE  MapInv'
  <2> DEFINE r == [run[s] EXCEPT !.pc = "compute", !.state = subIssues]
  <2>1. r \in RunType /\ r.pc = "compute" /\ r.source = run[s].source
    BY <1>1 DEF RunType
  <2>2. Goes(s, r) /\ InLockstep(run[s].source)
    BY <1>1, <1>5 DEF ReadSubIssues, HandsInLockstep
  <2> HIDE DEF r
  <2>3. QED
    BY <1>5, <2>1, <2>2, HandChanges DEF ReadSubIssues
<1>6. ASSUME NEW s \in Wayfinders, Compute(s)
      PROVE  MapInv'
  <2> DEFINE b == run[s].source
             g == GraduateBody(b, run[s].ticket, run[s].spawn)
             r == [run[s] EXCEPT !.pc = "re-read", !.next = g]
  <2>1. run[s] \in RunType
    BY <1>1
  <2>2. b \in Body /\ run[s].ticket \in Entries /\ run[s].spawn \in Seq(Tickets)
    BY <2>1 DEF RunType
  <2>3. InLockstep(b)
    BY <1>1, <1>6 DEF Compute, HandsInLockstep
  <2>4. g \in Body /\ ToSet(g.decisions) = ToSet(b.decisions) \cup {run[s].ticket} /\ InLockstep(g)
    BY <2>2, <2>3, Graduated
  <2>5. Goes(s, r) \/ Goes(s, Unstarted)
    BY <1>6 DEF Compute
  <2> HIDE DEF g
  <2>6. r \in RunType /\ r.pc = "re-read" /\ r.next = g /\ r.source = b /\ r.ticket = run[s].ticket
    BY <2>1, <2>4 DEF RunType
  <2> HIDE DEF r, b
  <2>7. QED
    BY <1>2, <1>6, <2>3, <2>4, <2>5, <2>6, HandChanges DEF Compute
<1>7. ASSUME NEW s \in Wayfinders, BodyPrecondition(s)
      PROVE  MapInv'
  <2> DEFINE r == [run[s] EXCEPT !.pc = "patch"]
  <2>1. run[s] \in RunType
    BY <1>1
  <2>2. /\ r \in RunType /\ r.pc = "patch" /\ r.next = run[s].next /\ r.source = run[s].source
        /\ r.ticket = run[s].ticket
    BY <2>1 DEF RunType
  <2>3. /\ InLockstep(run[s].source) /\ InLockstep(run[s].next)
        /\ ToSet(run[s].next.decisions) = ToSet(run[s].source.decisions) \cup {run[s].ticket}
    BY <1>1, <1>7 DEF BodyPrecondition, HandsInLockstep, HandsAreFresh
  <2>4. (Goes(s, r) /\ body = run[s].source) \/ Goes(s, Unstarted)
    BY <1>7 DEF BodyPrecondition
  <2> HIDE DEF r
  <2>5. QED
    BY <1>2, <1>7, <2>2, <2>3, <2>4, HandChanges DEF BodyPrecondition
<1>8. ASSUME NEW s \in Wayfinders, ReplaceMapBody(s)
      PROVE  MapInv'
  <2>1. run[s] \in RunType /\ run[s].pc = "patch"
    BY <1>1, <1>8 DEF ReplaceMapBody
  <2>2. /\ body' = run[s].next /\ answered' = answered \cup {run[s].ticket}
        /\ run' = [run EXCEPT ![s] = Unstarted] /\ UNCHANGED subIssues
        /\ raced' = (raced \/ \E t \in Wayfinders \ {s} : run[t].pc = "patch")
    BY <1>8 DEF ReplaceMapBody, Writes, Goes
  <2>3. run'[s] = Unstarted /\ \A t \in Wayfinders \ {s} : run'[t] = run[t]
    BY <1>1, <2>2
  <2>4. MapTyped'
    BY <1>1, <1>2, <2>1, <2>2 DEF MapTyped, RunType
  <2>5. HandsInLockstep'
    BY <1>1, <1>2, <2>1, <2>2, <2>3 DEF HandsInLockstep, InLockstep
  <2>6. HandsAreFresh'
    BY <1>1, <1>2, <2>1, <2>2, <2>3 DEF HandsAreFresh
  <2>7. QED
    BY <2>4, <2>5, <2>6 DEF MapInv
<1>9. ASSUME NEW s \in Wayfinders, Stop(s)
      PROVE  MapInv'
  BY <1>2, <1>9, HandChanges DEF Stop
<1>10. ASSUME EditByHand
       PROVE  MapInv'
  <2>1. UNCHANGED <<run, answered>>
    BY <1>10 DEF EditByHand
  <2>2. CASE UNCHANGED <<body, raced>>
    <3>1. subIssues' \in SubIssueLists
      <4>1. /\ DOMAIN subIssues \subseteq Tickets
            /\ \A u \in DOMAIN subIssues : subIssues[u] \in {"open", "closed"}
            /\ subIssues = <<>> \/ subIssues = [u \in DOMAIN subIssues |-> subIssues[u]]
        <5>1. CASE subIssues = <<>>
          BY <5>1
        <5>2. CASE subIssues \in UNION {[S -> {"open", "closed"}] : S \in SUBSET Tickets}
          BY <5>2
        <5>3. QED
          BY <1>1, <5>1, <5>2 DEF SubIssueLists
      <4>2. ASSUME NEW t \in Tickets \ DOMAIN subIssues,
                   subIssues' = [u \in DOMAIN subIssues \cup {t} |-> IF u = t THEN "open" ELSE subIssues[u]]
            PROVE  subIssues' \in SubIssueLists
        <5>1. DOMAIN subIssues \cup {t} \in SUBSET Tickets
          BY <4>1
        <5>2. subIssues' \in [DOMAIN subIssues \cup {t} -> {"open", "closed"}]
          BY <4>1, <4>2
        <5>3. QED
          BY <5>1, <5>2 DEF SubIssueLists
      <4>3. ASSUME NEW t \in DOMAIN subIssues, subIssues' = [subIssues EXCEPT ![t] = "closed"]
            PROVE  subIssues' \in SubIssueLists
        BY <1>1, <4>1, <4>3 DEF SubIssueLists
      <4>4. QED
        BY <1>1, <1>10, <4>2, <4>3 DEF EditByHand, Writes
    <3>2. QED
      BY <1>1, <2>1, <2>2, <3>1 DEF MapInv, MapTyped, HandsInLockstep, InLockstep, HandsAreFresh
  <2>3. ASSUME NEW t \in ToSet(body.frontier) \cup {0},
               Writes(Wayfinders, [body EXCEPT !.frontier = Append(@, t)]), UNCHANGED subIssues
        PROVE  MapInv'
    <3>1. body.frontier \in Seq(Entries) /\ t \in Entries
      BY <1>1 DEF Body, Entries, ToSet
    <3>2. Append(body.frontier, t) \in Seq(Entries) /\ ToSet(Append(body.frontier, t)) = ToSet(body.frontier) \cup {t}
      BY <3>1, AppendedSet
    <3>3. /\ body' \in Body /\ body'.decisions = body.decisions /\ body'.fog = body.fog
          /\ ToSet(body'.frontier) = ToSet(body.frontier) \cup {t}
      BY <1>1, <2>3, <3>2 DEF Writes, Body
    <3>4. raced' = (raced \/ \E u \in Wayfinders : run[u].pc = "patch")
      BY <2>3 DEF Writes
    <3>5. MapTyped' /\ HandsInLockstep'
      BY <1>1, <2>1, <2>3, <3>3 DEF MapTyped, HandsInLockstep, InLockstep
    <3>6. HandsAreFresh'
      BY <1>1, <2>1, <3>3, <3>4 DEF HandsAreFresh
    <3>7. QED
      BY <3>5, <3>6 DEF MapInv
  <2>4. QED
    BY <1>10, <2>2, <2>3 DEF EditByHand
<1>11. QED
  BY <1>3, <1>4, <1>5, <1>6, <1>7, <1>8, <1>9, <1>10 DEF MapNext, Graduate

LEMMA MapInvariant == MapSpec => []MapInv
<1>1. QED
  BY ChartedInLockstep, MapInvInductive, PTL DEF MapSpec

(* A ticket the map was charted with leaves the frontier only together     *)
(* with its answer reaching the log and the fog, whichever of the bodies   *)
(* that sessions computed is written over which (graduateBody).            *)
THEOREM LockstepHolds == MapSpec => []Lockstep
<1>1. MapInv => Lockstep
  BY DEF MapInv, HandsInLockstep, InLockstep, Lockstep
<1>2. QED
  BY <1>1, MapInvariant, PTL

(* An answer reported done stays in the log unless a write fell between    *)
(* another session's re-read and its write (bodyPrecondition).             *)
THEOREM AnswersStay == MapSpec => []AnswersOutliveOverlap
<1>1. MapInv => AnswersOutliveOverlap
  BY DEF MapInv, HandsAreFresh, AnswersOutliveOverlap
<1>2. QED
  BY <1>1, MapInvariant, PTL

-----------------------------------------------------------------------------
(* Looks at the stage.  What stood there throughout is in the stage's list   *)
(* once that is read, and an issue keeps its title and stays an issue.       *)
Texts == Titles \cup {<<>>}

Issues == [title : Texts, pull : BOOLEAN, open : BOOLEAN, queued : BOOLEAN]

Leaks    == MACHINE_LOCAL_PATH_PATTERNS \cup TEMP_PATH_PATTERNS
SomeText == [title : SUBSET Leaks, body : SUBSET Leaks, redacted : BOOLEAN]
Verbs    == {"dedup", "check"}
Answers  == {"none", "nothing", "candidates", "unknown", "indeterminate"}

Looks == [pc : {"idle", "reads", "answered", "filed"}, verb : Verbs, query : Texts, exclude : Nat,
          waits : SUBSET {"queue", "search"}, queue : SUBSET Nat, search : SUBSET Nat, known : SUBSET Nat,
          answer : Answers, list : Seq(Nat),
          text : SomeText]

IntakeTypeOK == issues \in Seq(Issues) /\ look \in [Lookers -> Looks]

NoPulls == {n \in Numbers : ~issues[n].pull}

LookIsFair(c) ==
  /\ c.known \subseteq Numbers /\ ToSet(c.list) \cup c.queue \cup c.search \subseteq NoPulls
  /\ c.pc = "reads" => c.known \subseteq ListStage /\ ("queue" \in c.waits \/ c.known \subseteq c.queue)

MissesNothing(c) ==
  c.pc = "answered" /\ c.answer \in {"none", "nothing", "candidates"} =>
    /\ \A n \in c.known \ {c.exclude} :
         \/ TitleScore(n, c.query) = 0 \/ n \in ToSet(c.list)
         \/ Len(c.list) = Limit /\ \A m \in ToSet(c.list) : TitleScore(m, c.query) >= TitleScore(n, c.query)
    /\ \A m \in ToSet(c.list) : ~issues[m].pull /\ m # c.exclude

IsClean(text) ==
  /\ text.title # {} => text.redacted
  /\ text.body \subseteq {"inner"} /\ (text.body # {} => text.redacted)

LookInv(c) == LookIsFair(c) /\ MissesNothing(c) /\ IsClean(c.text)

IntakeInv ==
  /\ IntakeTypeOK
  /\ index \subseteq NoPulls
  /\ \A l \in Lookers : LookInv(look[l])

(* The score of a title is a number, for a text has so many words.           *)
LEMMA ScoreIsNumber ==
  ASSUME NEW title, NEW query \in Texts
  PROVE  Score(title, query) \in Nat
<1> DEFINE Kept == {i \in DOMAIN query : /\ query[i] \notin STOPWORDS \cup ShortWords
                                         /\ \A j \in 1..(i - 1) : query[j] # query[i]}
           Taken == {i \in Kept : Cardinality({j \in Kept : j < i}) < MAX_QUERY_TOKENS}
           f     == [i \in Taken |-> query[i]]
           T     == Tokenize(query)
<1>1. query \in Seq(STRING)
  <2>1. <<>> \in Seq(STRING)
    OBVIOUS
  <2>. QED BY <2>1, TitlesAssumption DEF Texts
<1>2. IsFiniteSet(DOMAIN query)
  <2>1. Len(query) \in Nat /\ DOMAIN query = 1..Len(query)
    BY <1>1
  <2>. QED BY <2>1, FS_Interval
<1>3. IsFiniteSet(Taken)
  BY <1>2, FS_Subset
<1>4. T = {query[i] : i \in Taken}
  BY DEF Tokenize
<1> HIDE DEF Taken, T
<1>5. f \in Surjection(Taken, T)
  BY <1>4 DEF Surjection
<1>6. IsFiniteSet(T)
  BY <1>3, <1>5, FS_Surjection
<1>7. {t \in T : \E w \in Tokenize(title) : TokensRelated(t, w)} \in SUBSET T
  OBVIOUS
<1>8. Cardinality({t \in T : \E w \in Tokenize(title) : TokensRelated(t, w)}) \in Nat
  BY <1>6, <1>7, FS_Subset, FS_CardinalityType
<1>. QED BY <1>8 DEF Score, T

(* Of any finite set of issues the list has the first, each once and in      *)
(* order, and leaves one out only for as many as fit that come before it:    *)
(* since they are in a row, each has a place of its own.                     *)
LEMMA PlacesAreTaken ==
  ASSUME NEW kept \in SUBSET Numbers, IsFiniteSet(kept), NEW query,
         \A n \in kept : n \in Nat /\ TitleScore(n, query) \in Nat
  PROVE  LET Place(n) == Cardinality({m \in kept : Ahead(m, n, query)}) + 1
         IN  /\ \A n \in kept : Place(n) \in 1..Cardinality(kept)
             /\ \A k \in 1..Cardinality(kept) : \E n \in kept : Place(n) = k
             /\ \A m, n \in kept : /\ Place(m) = Place(n) => m = n
                                   /\ Place(m) < Place(n) => Ahead(m, n, query)
<1> DEFINE Before(n) == {m \in kept : Ahead(m, n, query)}
           Place(n)  == Cardinality(Before(n)) + 1
           N         == Cardinality(kept)
           f         == [n \in kept |-> Place(n)]
<1>1. N \in Nat
  BY FS_CardinalityType
<1>2. \A n \in kept : IsFiniteSet(Before(n)) /\ Cardinality(Before(n)) \in Nat
  <2> TAKE n \in kept
  <2>1. Before(n) \in SUBSET kept
    OBVIOUS
  <2>. QED BY <2>1, FS_Subset, FS_CardinalityType
<1>3. \A n \in kept : n \notin Before(n)
  BY DEF Ahead
<1>4. \A n \in kept : Cardinality(Before(n)) < N
  <2> TAKE n \in kept
  <2>1. Before(n) \in SUBSET kept /\ Before(n) # kept
    BY <1>3
  <2> HIDE DEF Before
  <2>2. Cardinality(Before(n)) <= N /\ (Cardinality(kept) = Cardinality(Before(n)) => kept = Before(n))
    BY <2>1, FS_Subset
  <2>. QED BY <1>1, <1>2, <2>1, <2>2
<1>5. ASSUME NEW m \in kept, NEW n \in kept, Ahead(m, n, query) PROVE Cardinality(Before(m)) < Cardinality(Before(n))
  <2>1. Before(m) \subseteq Before(n)
    BY <1>5 DEF Ahead
  <2>2. m \in Before(n) /\ m \notin Before(m)
    BY <1>3, <1>5
  <2> HIDE DEF Before
  <2>3. Before(m) \in SUBSET Before(n) /\ Before(m) # Before(n)
    BY <2>1, <2>2
  <2>4. Cardinality(Before(m)) <= Cardinality(Before(n))
        /\ (Cardinality(Before(n)) = Cardinality(Before(m)) => Before(n) = Before(m))
    BY <1>2, <2>3, FS_Subset
  <2>. QED BY <1>2, <2>3, <2>4
<1>6. \A m, n \in kept : m = n \/ Ahead(m, n, query) \/ Ahead(n, m, query)
  BY DEF Ahead
<1>7. \A n \in kept : Place(n) \in 1..N
  <2> HIDE DEF Before, N
  <2>. QED BY <1>1, <1>2, <1>4 DEF N
<1>8. ASSUME NEW m \in kept, NEW n \in kept, Place(m) = Place(n) PROVE m = n
  <2>1. Cardinality(Before(m)) + 1 = Cardinality(Before(n)) + 1
    BY <1>8
  <2> HIDE DEF Before
  <2>2. ~ Ahead(m, n, query) /\ ~ Ahead(n, m, query)
    BY <1>2, <1>5, <2>1
  <2>. QED BY <1>6, <2>2
<1>9. f \in Injection(kept, 1..N)
  <2> HIDE DEF Place, N
  <2>1. f \in [kept -> 1..N]
    BY <1>7
  <2>2. \A m, n \in kept : f[m] = f[n] => m = n
    BY <1>8
  <2> HIDE DEF f
  <2>. QED BY <2>1, <2>2 DEF Injection, IsInjective
<1>10. f \in Surjection(kept, 1..N)
  <2>1. IsFiniteSet(1..N) /\ Cardinality(1..N) = N
    BY <1>1, FS_Interval
  <2> HIDE DEF f, N
  <2>. QED BY <1>9, <2>1, FS_Injection DEF N
<1>11. \A k \in 1..N : \E n \in kept : Place(n) = k
  <2> TAKE k \in 1..N
  <2>1. \E n \in kept : f[n] = k
    BY <1>10 DEF Surjection
  <2>. QED BY <2>1
<1>12. ASSUME NEW m \in kept, NEW n \in kept, Place(m) < Place(n) PROVE Ahead(m, n, query)
  <2>1. Cardinality(Before(m)) + 1 < Cardinality(Before(n)) + 1
    BY <1>12
  <2> HIDE DEF Before
  <2>2. m # n /\ ~ Ahead(n, m, query)
    BY <1>2, <1>5, <2>1
  <2>. QED BY <1>6, <2>2
<1>. QED BY <1>7, <1>8, <1>11, <1>12

LEMMA ListIsRanked ==
  ASSUME NEW kept \in SUBSET Numbers, IsFiniteSet(kept), NEW query,
         \A n \in kept : n \in Nat /\ TitleScore(n, query) \in Nat
  PROVE  /\ Ranked(kept, query) \in Seq(kept)
         /\ \A n \in kept \ ToSet(Ranked(kept, query)) :
              /\ Len(Ranked(kept, query)) = Limit
              /\ \A m \in ToSet(Ranked(kept, query)) : TitleScore(m, query) >= TitleScore(n, query)
<1> DEFINE Place(n) == Cardinality({m \in kept : Ahead(m, n, query)}) + 1
           N        == Cardinality(kept)
           length   == IF N < Limit THEN N ELSE Limit
           list     == [k \in 1..length |-> CHOOSE n \in kept : Place(n) = k]
<1>1. N \in Nat
  BY FS_CardinalityType
<1>2. length \in Nat /\ length <= N /\ (length = N \/ length = Limit)
  BY <1>1, LimitAssumption
<1>3. /\ \A n \in kept : Place(n) \in 1..N
      /\ \A k \in 1..N : \E n \in kept : Place(n) = k
      /\ \A m, n \in kept : /\ Place(m) = Place(n) => m = n
                            /\ Place(m) < Place(n) => Ahead(m, n, query)
  BY PlacesAreTaken
<1>4. Ranked(kept, query) = list
  BY DEF Ranked
<1> HIDE DEF Place, N, length
<1>5. \A k \in 1..length : list[k] \in kept /\ Place(list[k]) = k
  <2> TAKE k \in 1..length
  <2>1. \E n \in kept : Place(n) = k
    BY <1>1, <1>2, <1>3
  <2>. QED BY <2>1
<1>6. list \in Seq(kept) /\ Len(list) = length
  BY <1>2, <1>5
<1>7. ToSet(list) = {list[k] : k \in 1..length}
  BY <1>6 DEF ToSet
<1>8. ASSUME NEW n \in kept, n \notin ToSet(list)
      PROVE  Len(list) = Limit /\ \A m \in ToSet(list) : TitleScore(m, query) >= TitleScore(n, query)
  <2>1. Place(n) \in 1..N
    BY <1>3
  <2>2. ASSUME Place(n) <= length PROVE FALSE
    <3>1. Place(n) \in 1..length
      BY <1>1, <1>2, <2>1, <2>2
    <3>2. list[Place(n)] = n
      BY <1>3, <1>5, <3>1
    <3>. QED BY <1>7, <1>8, <3>1, <3>2
  <2>3. length < Place(n) /\ length = Limit
    BY <1>1, <1>2, <2>1, <2>2
  <2>4. ASSUME NEW m \in ToSet(list) PROVE TitleScore(m, query) >= TitleScore(n, query)
    <3>1. m \in kept /\ Place(m) \in 1..length
      BY <1>5, <1>7
    <3>2. Ahead(m, n, query)
      BY <1>2, <1>3, <2>1, <2>3, <3>1
    <3>. QED BY <3>1, <3>2 DEF Ahead
  <2>. QED BY <1>6, <2>3, <2>4
<1>. QED BY <1>4, <1>6, <1>8

LEMMA IdleLook ==
  /\ Idle \in Looks
  /\ Idle.pc = "idle" /\ Idle.waits = {} /\ Idle.queue = {} /\ Idle.search = {} /\ Idle.known = {}
  /\ Idle.answer = "none" /\ Idle.list = <<>> /\ Idle.text = NoText
  /\ ToSet(<<>>) = {} /\ IsClean(NoText)
<1>1. /\ Idle.pc = "idle" /\ Idle.waits = {} /\ Idle.queue = {} /\ Idle.search = {} /\ Idle.known = {}
      /\ Idle.answer = "none" /\ Idle.list = <<>> /\ Idle.text = NoText
  BY DEF Idle
<1>2. /\ Idle.verb \in Verbs /\ Idle.query \in Texts /\ Idle.exclude \in Nat
      /\ Idle.answer \in Answers
  BY DEF Idle, Texts, Verbs, Answers
<1>3. /\ Idle.waits \in SUBSET {"queue", "search"} /\ Idle.queue \in SUBSET Nat /\ Idle.search \in SUBSET Nat
      /\ Idle.known \in SUBSET Nat
  BY <1>1
<1>4. Idle.list \in Seq(Nat)
  <2>1. <<>> \in Seq(Nat)
    OBVIOUS
  <2>. QED BY <1>1, <2>1
<1>5. Idle.text \in SomeText
  <2>1. NoText \in SomeText
    BY DEF NoText, SomeText
  <2>. QED BY <1>1, <2>1
<1>6. Idle = [pc |-> Idle.pc, verb |-> Idle.verb, query |-> Idle.query, exclude |-> Idle.exclude, waits |-> Idle.waits,
              queue |-> Idle.queue, search |-> Idle.search, known |-> Idle.known, answer |-> Idle.answer,
              list |-> Idle.list, text |-> Idle.text]
  BY DEF Idle
<1>7. Idle \in Looks
  BY <1>1, <1>2, <1>3, <1>4, <1>5, <1>6 DEF Looks
<1>8. ToSet(<<>>) = {} /\ IsClean(NoText)
  BY DEF ToSet, IsClean, NoText
<1>. QED BY <1>1, <1>7, <1>8

(* Of a look that has concluded nothing there is nothing to say.             *)
LEMMA IdleIsTrue == LookInv(Idle)
BY IdleLook DEF LookInv, LookIsFair, MissesNothing

LEMMA IntakeInitially == IntakeInit => IntakeInv
<1> SUFFICES ASSUME IntakeInit PROVE IntakeInv
  OBVIOUS
<1>1. <<>> \in Seq(Issues)
  OBVIOUS
<1>2. IntakeTypeOK
  BY <1>1, IdleLook DEF IntakeInit, IntakeTypeOK
<1>3. \A l \in Lookers : look[l] = Idle
  BY DEF IntakeInit
<1>. QED BY <1>2, <1>3, IdleIsTrue DEF IntakeInv, IntakeInit

(* Only the look of one changes.                                             *)
LEMMA OneLookChanges ==
  ASSUME IntakeInv, NEW l \in Lookers, NEW c \in Looks, look' = [look EXCEPT ![l] = c],
         UNCHANGED <<issues, index>>, LookInv(c)
  PROVE  IntakeInv'
<1>1. IntakeTypeOK'
  BY DEF IntakeInv, IntakeTypeOK
<1>2. ASSUME NEW k \in Lookers PROVE LookInv(look[k])'
  <2>1. look'[k] \in {c, look[k]} /\ LookInv(look'[k])
    BY DEF IntakeInv, IntakeTypeOK
  <2>. QED BY <2>1 DEF LookInv, LookIsFair, MissesNothing, NoPulls, Numbers, ListStage, TitleScore, IsClean
<1>. QED BY <1>1, <1>2 DEF IntakeInv, NoPulls, Numbers

(* Issues come and leave the stage, but keep their titles.                   *)
BoardMoves ==
  /\ issues' \in Seq(Issues) /\ Numbers \subseteq Numbers'
  /\ \A n \in Numbers : issues'[n].title = issues[n].title /\ issues'[n].pull = issues[n].pull

LEMMA LooksOutlastMoves ==
  ASSUME BoardMoves, NEW c \in Looks, LookInv(c), NEW kept \in SUBSET c.known,
         c.pc = "reads" => kept \subseteq ListStage'
  PROVE  LookInv([c EXCEPT !.known = kept])'
<1> DEFINE d == [c EXCEPT !.known = kept]
<1>1. /\ d.pc = c.pc /\ d.query = c.query /\ d.exclude = c.exclude /\ d.waits = c.waits /\ d.queue = c.queue
      /\ d.search = c.search /\ d.answer = c.answer /\ d.list = c.list /\ d.text = c.text /\ d.known = kept
  BY DEF Looks
<1> HIDE DEF d
<1>2. \A n \in Numbers, query \in {c.query} : TitleScore(n, query)' = TitleScore(n, query)
  BY DEF BoardMoves, TitleScore
<1>3. NoPulls \subseteq NoPulls'
  BY DEF BoardMoves, NoPulls
<1>4. LookIsFair(d)'
  BY <1>1, <1>3 DEF LookInv, LookIsFair, BoardMoves
<1>5. MissesNothing(d)'
  <2>1. SUFFICES ASSUME c.pc = "answered", c.answer \in {"none", "nothing", "candidates"}
                 PROVE  /\ \A n \in kept \ {c.exclude} :
                             \/ TitleScore(n, c.query)' = 0 \/ n \in ToSet(c.list)
                             \/ /\ Len(c.list) = Limit
                                /\ \A m \in ToSet(c.list) : TitleScore(m, c.query)' >= TitleScore(n, c.query)'
                        /\ \A m \in ToSet(c.list) : ~issues'[m].pull /\ m # c.exclude
    BY <1>1 DEF MissesNothing
  <2>2. c.known \subseteq Numbers /\ ToSet(c.list) \subseteq NoPulls
    BY DEF LookInv, LookIsFair
  <2>3. NoPulls \subseteq Numbers
    BY DEF NoPulls
  <2>. QED BY <1>2, <2>1, <2>2, <2>3 DEF LookInv, MissesNothing, BoardMoves
<1>6. IsClean(d.text)
  BY <1>1 DEF LookInv
<1>. QED BY <1>4, <1>5, <1>6 DEF LookInv, d

(* What the actions of one look make of it.                                  *)
LEMMA AskKeeps ==
  ASSUME IntakeInv, NEW l \in Lookers, NEW verb \in Verbs, NEW query \in Texts, NEW exclude \in Nat,
         Ask(l, verb, query, exclude)
  PROVE  IntakeInv'
<1> DEFINE asked == [Idle EXCEPT !.verb = verb, !.query = query, !.exclude = exclude, !.known = ListStage]
           vague == [asked EXCEPT !.pc = "answered", !.answer = "indeterminate"]
           mute  == [asked EXCEPT !.pc = "answered", !.answer = "nothing"]
           reads == [asked EXCEPT !.pc = "reads", !.waits = {"queue", "search"}]
           c     == IF verb = "dedup" /\ ~CanDiscriminate(Tokenize(query)) THEN vague
                    ELSE IF Tokenize(query) = {} THEN mute ELSE reads
<1>1. look' = [look EXCEPT ![l] = c] /\ UNCHANGED <<issues, index>>
  BY DEF Ask
<1>2. ListStage \subseteq Numbers /\ ListStage \subseteq Nat
  BY DEF ListStage, Numbers, IntakeInv, IntakeTypeOK
<1>3. asked \in Looks
  BY <1>2, IdleLook DEF Looks
<1>4. /\ asked.query = query /\ asked.exclude = exclude /\ asked.known = ListStage /\ asked.waits = {}
      /\ asked.queue = {} /\ asked.search = {} /\ asked.list = <<>> /\ asked.text = NoText
  BY IdleLook DEF Looks
<1> HIDE DEF asked
<1>5. vague \in Looks /\ LookInv(vague)
  <2>1. /\ vague.pc = "answered" /\ vague.answer = "indeterminate" /\ vague.known = ListStage
        /\ vague.queue = {} /\ vague.search = {} /\ vague.list = <<>> /\ vague.text = NoText
    BY <1>3, <1>4 DEF Looks
  <2>2. vague \in Looks
    BY <1>3 DEF Looks, Answers
  <2> HIDE DEF vague
  <2>. QED BY <1>2, <2>1, <2>2, IdleLook DEF LookInv, LookIsFair, MissesNothing
<1>6. ASSUME Tokenize(query) = {} PROVE mute \in Looks /\ LookInv(mute)
  <2>1. /\ mute.pc = "answered" /\ mute.known = ListStage /\ mute.query = query
        /\ mute.queue = {} /\ mute.search = {} /\ mute.list = <<>> /\ mute.text = NoText
    BY <1>3, <1>4 DEF Looks
  <2>2. mute \in Looks
    BY <1>3 DEF Looks, Answers
  <2>3. \A n \in Numbers : TitleScore(n, query) = 0
    BY <1>6, FS_EmptySet DEF TitleScore, Score
  <2> HIDE DEF mute
  <2>. QED BY <1>2, <2>1, <2>2, <2>3, IdleLook DEF LookInv, LookIsFair, MissesNothing
<1>7. reads \in Looks /\ LookInv(reads)
  <2>1. /\ reads.pc = "reads" /\ reads.known = ListStage /\ reads.waits = {"queue", "search"}
        /\ reads.queue = {} /\ reads.search = {} /\ reads.list = <<>> /\ reads.text = NoText
    BY <1>3, <1>4 DEF Looks
  <2>2. reads \in Looks
    BY <1>3 DEF Looks
  <2> HIDE DEF reads
  <2>. QED BY <1>2, <2>1, <2>2, IdleLook DEF LookInv, LookIsFair, MissesNothing
<1> HIDE DEF vague, mute, reads
<1>8. c \in Looks /\ LookInv(c)
  BY <1>5, <1>6, <1>7
<1> HIDE DEF c
<1>. QED BY <1>1, <1>8, OneLookChanges

LEMMA ReadQueueKeeps == ASSUME IntakeInv, NEW l \in Lookers, ReadQueue(l) PROVE IntakeInv'
<1> DEFINE c == [look[l] EXCEPT !.queue = ListStage, !.waits = @ \ {"queue"}]
<1>1. look[l] \in Looks /\ LookInv(look[l])
  BY DEF IntakeInv, IntakeTypeOK
<1>2. ListStage \subseteq NoPulls /\ ListStage \subseteq Nat
  BY DEF ListStage, NoPulls, Numbers, IntakeInv, IntakeTypeOK
<1>3. look' = [look EXCEPT ![l] = c] /\ UNCHANGED <<issues, index>>
  BY DEF ReadQueue, IntakeInv, IntakeTypeOK
<1>4. c \in Looks
  BY <1>1, <1>2 DEF Looks
<1>5. LookInv(c)
  BY <1>1, <1>2 DEF Looks, LookInv, LookIsFair, MissesNothing
<1> HIDE DEF c
<1>. QED BY <1>3, <1>4, <1>5, OneLookChanges

LEMMA ReadSearchKeeps == ASSUME IntakeInv, NEW l \in Lookers, ReadSearch(l) PROVE IntakeInv'
<1>1. PICK found \in Search(look[l].query) :
        look' = [look EXCEPT ![l].search = found, ![l].waits = @ \ {"search"}]
  BY DEF ReadSearch
<1> DEFINE c == [look[l] EXCEPT !.search = found, !.waits = @ \ {"search"}]
<1>2. look[l] \in Looks /\ LookInv(look[l])
  BY DEF IntakeInv, IntakeTypeOK
<1>3. found \subseteq NoPulls
  BY DEF Search, IntakeInv
<1>4. NoPulls \subseteq Nat
  BY DEF NoPulls, Numbers, IntakeInv, IntakeTypeOK
<1>5. look' = [look EXCEPT ![l] = c] /\ UNCHANGED <<issues, index>>
  BY <1>1 DEF ReadSearch, IntakeInv, IntakeTypeOK
<1>6. c \in Looks
  BY <1>2, <1>3, <1>4 DEF Looks
<1>7. LookInv(c)
  BY <1>2, <1>3 DEF Looks, LookInv, LookIsFair, MissesNothing
<1> HIDE DEF c
<1>. QED BY <1>5, <1>6, <1>7, OneLookChanges

(* A look concludes with a list of issues it was shown, and fairly.          *)
LEMMA ConclusionKeeps ==
  ASSUME IntakeInv, NEW l \in Lookers, NEW answer \in Answers, NEW list \in Seq(NoPulls),
         Concludes(l, answer, list), UNCHANGED <<issues, index>>,
         answer \in {"none", "nothing", "candidates"} =>
           /\ \A n \in look[l].known \ {look[l].exclude} :
                \/ TitleScore(n, look[l].query) = 0 \/ n \in ToSet(list)
                \/ /\ Len(list) = Limit
                   /\ \A m \in ToSet(list) : TitleScore(m, look[l].query) >= TitleScore(n, look[l].query)
           /\ \A m \in ToSet(list) : m # look[l].exclude
  PROVE  IntakeInv'
<1> DEFINE c == [look[l] EXCEPT !.pc = "answered", !.answer = answer, !.list = list,
                                !.waits = {}, !.queue = {}, !.search = {}]
<1>1. look[l] \in Looks /\ LookInv(look[l])
  BY DEF IntakeInv, IntakeTypeOK
<1>2. look' = [look EXCEPT ![l] = c]
  BY DEF Concludes, IntakeInv, IntakeTypeOK
<1>3. NoPulls \subseteq Nat
  BY DEF NoPulls, Numbers, IntakeInv, IntakeTypeOK
<1> DEFINE S == NoPulls
<1> HIDE DEF S
<1>4. list \in Seq(Nat)
  <2>1. list \in Seq(S) /\ S \subseteq Nat
    BY <1>3 DEF S
  <2>2. Len(list) \in Nat /\ list \in [1..Len(list) -> S]
    BY <2>1
  <2>3. list \in [1..Len(list) -> Nat]
    BY <2>1, <2>2
  <2>. QED BY <2>2, <2>3
<1>5. ToSet(list) \subseteq NoPulls
  BY DEF ToSet
<1>6. c \in Looks
  BY <1>1, <1>4 DEF Looks
<1>7. /\ c.pc = "answered" /\ c.answer = answer /\ c.list = list /\ c.waits = {} /\ c.queue = {} /\ c.search = {}
      /\ c.query = look[l].query /\ c.exclude = look[l].exclude /\ c.known = look[l].known /\ c.text = look[l].text
  BY <1>1 DEF Looks
<1> HIDE DEF c
<1>8. LookIsFair(c)
  BY <1>1, <1>5, <1>7 DEF LookInv, LookIsFair
<1>9. MissesNothing(c)
  BY <1>5, <1>7 DEF MissesNothing, NoPulls
<1>10. LookInv(c)
  BY <1>1, <1>7, <1>8, <1>9 DEF LookInv
<1>. QED BY <1>2, <1>6, <1>10, OneLookChanges

LEMMA ReadFailsKeeps == ASSUME IntakeInv, NEW l \in Lookers, ReadFails(l) PROVE IntakeInv'
<1>1. <<>> \in Seq(NoPulls)
  OBVIOUS
<1>2. Concludes(l, "unknown", <<>>) /\ UNCHANGED <<issues, index>>
  BY DEF ReadFails
<1>3. "unknown" \in Answers /\ "unknown" \notin {"none", "nothing", "candidates"}
  BY DEF Answers
<1>. QED BY <1>1, <1>2, <1>3, ConclusionKeeps

LEMMA RankKeeps == ASSUME IntakeInv, NEW l \in Lookers, Rank(l) PROVE IntakeInv'
<1> DEFINE query == look[l].query
           queue == look[l].queue
           search == look[l].search
           exclude == look[l].exclude
           kept  == {n \in queue : TitleScore(n, query) > 0 /\ n # exclude} \cup {n \in search : n # exclude}
           list  == Ranked(kept, query)
           answer == IF list # <<>> THEN "candidates" ELSE IF look[l].verb = "dedup" THEN "none" ELSE "nothing"
<1>1. Concludes(l, answer, list) /\ UNCHANGED <<issues, index>>
  BY DEF Rank, RankCandidates
<1>2. look[l] \in Looks /\ LookInv(look[l])
  BY DEF IntakeInv, IntakeTypeOK
<1>3. look[l].pc = "reads" /\ look[l].waits = {}
  BY DEF Rank
<1>4. look[l].known \subseteq queue /\ look[l].known \subseteq Numbers
  BY <1>2, <1>3 DEF LookInv, LookIsFair
<1>5. queue \cup search \subseteq NoPulls
  BY <1>2 DEF LookInv, LookIsFair
<1>6. query \in Texts
  BY <1>2 DEF Looks
<1>7. IsFiniteSet(Numbers) /\ Numbers \subseteq Nat
  <2>1. Len(issues) \in Nat /\ Numbers = 1..Len(issues)
    BY DEF IntakeInv, IntakeTypeOK, Numbers
  <2>. QED BY <2>1, FS_Interval
<1>8. NoPulls \subseteq Numbers
  BY DEF NoPulls
<1>9. kept \subseteq NoPulls /\ \A n \in kept : n # exclude
  BY <1>5
<1>10. \A n \in Numbers : TitleScore(n, query) \in Nat
  BY <1>6, ScoreIsNumber DEF TitleScore
<1>11. \A n \in look[l].known \ {exclude} : TitleScore(n, query) = 0 \/ n \in kept
  BY <1>4, <1>10
<1>12. answer \in Answers
  BY DEF Answers
<1> HIDE DEF kept, answer, query, queue, search, exclude
<1>13. kept \in SUBSET Numbers /\ IsFiniteSet(kept)
  BY <1>7, <1>8, <1>9, FS_Subset
<1>14. /\ list \in Seq(kept)
       /\ \A n \in kept \ ToSet(list) :
            Len(list) = Limit /\ \A m \in ToSet(list) : TitleScore(m, query) >= TitleScore(n, query)
  <2>1. \A n \in kept : n \in Nat /\ TitleScore(n, query) \in Nat
    BY <1>7, <1>10, <1>13
  <2>. QED BY <1>13, <2>1, ListIsRanked
<1> HIDE DEF list
<1>15. list \in Seq(NoPulls) /\ ToSet(list) \subseteq kept
  BY <1>9, <1>14 DEF ToSet
<1>16. \A n \in look[l].known \ {exclude} :
         \/ TitleScore(n, query) = 0 \/ n \in ToSet(list)
         \/ Len(list) = Limit /\ \A m \in ToSet(list) : TitleScore(m, query) >= TitleScore(n, query)
  BY <1>11, <1>14
<1>17. \A m \in ToSet(list) : m # exclude
  BY <1>9, <1>15
<1>. QED BY <1>1, <1>12, <1>15, <1>16, <1>17, ConclusionKeeps DEF query, exclude

LEMMA LeaveKeeps == ASSUME IntakeInv, NEW l \in Lookers, Leave(l) PROVE IntakeInv'
BY IdleLook, IdleIsTrue, OneLookChanges DEF Leave

(* The board moves under the looks.                                          *)
LEMMA LooksGoOn ==
  ASSUME IntakeInv, BoardMoves, NEW l \in Lookers, look'[l] = look[l],
         look[l].pc = "reads" => look[l].known \subseteq ListStage'
  PROVE  look'[l] \in Looks /\ LookInv(look[l])'
<1>1. look[l] \in Looks /\ LookInv(look[l])
  BY DEF IntakeInv, IntakeTypeOK
<1>2. [look[l] EXCEPT !.known = look[l].known] = look[l]
  BY <1>1 DEF Looks
<1> DEFINE c == look[l]
<1>3. LookInv([c EXCEPT !.known = c.known])'
  <2> HIDE DEF c
  <2>. QED BY <1>1, LooksOutlastMoves DEF c
<1>. QED BY <1>1, <1>2, <1>3

LEMMA IndexKeeps == ASSUME IntakeInv, BoardMoves, index' = index PROVE index' \subseteq NoPulls'
BY DEF IntakeInv, BoardMoves, NoPulls

(* An issue is added at the end, so those there were stand as they stood.    *)
LEMMA AddingMoves ==
  ASSUME IntakeInv, NEW issue \in Issues, issues' = Append(issues, issue)
  PROVE  BoardMoves /\ ListStage \subseteq ListStage'
<1>1. /\ issues \in Seq(Issues) /\ issues' \in Seq(Issues) /\ Len(issues) \in Nat
      /\ Numbers = 1..Len(issues) /\ Numbers' = 1..(Len(issues) + 1)
      /\ \A n \in Numbers : issues'[n] = issues[n]
  BY DEF IntakeInv, IntakeTypeOK, Numbers
<1>2. Numbers \subseteq Numbers'
  BY <1>1
<1>. QED BY <1>1, <1>2 DEF BoardMoves, ListStage

LEMMA OpenedKeeps == ASSUME IntakeInv, NEW title \in Titles, Opened(title) PROVE IntakeInv'
<1>1. PICK pull \in BOOLEAN :
        issues' = Append(issues, [title |-> title, pull |-> pull, open |-> TRUE, queued |-> TRUE])
  BY DEF Opened
<1>2. index' = index /\ look' = look
  BY DEF Opened
<1>3. BoardMoves /\ ListStage \subseteq ListStage'
  BY <1>1, AddingMoves DEF Issues, Texts
<1>4. \A l \in Lookers : look'[l] \in Looks /\ LookInv(look[l])'
  BY <1>2, <1>3, LooksGoOn DEF IntakeInv, LookInv, LookIsFair
<1>. QED BY <1>2, <1>3, <1>4, IndexKeeps DEF IntakeInv, IntakeTypeOK, BoardMoves

(* What passes the check on its way out is clean.                            *)
LEMMA WhatIsFiledIsClean ==
  ASSUME NEW report \in Bodies, NEW prefix, NEW leaks \in {{}, {"path"}}, NEW redact \in BOOLEAN,
         CheckFileInput([prefix |-> prefix, leaks |-> leaks], report, redact) = "none"
  PROVE  IsClean([title |-> leaks, body |-> IF redact THEN RedactLeaks(report.leaks) ELSE report.leaks,
                  redacted |-> redact])
<1>1. report.leaks \subseteq {"path", "temp", "inner"}
  BY BodiesAssumption DEF MACHINE_LOCAL_PATH_PATTERNS, TEMP_PATH_PATTERNS
<1>2. RedactLeaks(report.leaks) \subseteq {"inner"}
  BY <1>1 DEF RedactLeaks, FindCommentLeaks, MACHINE_LOCAL_PATH_PATTERNS, TEMP_PATH_PATTERNS
<1>3. ASSUME ~redact PROVE leaks = {} /\ report.leaks = {}
  <2>1. FindCommentLeaks(leaks \cup report.leaks) = {}
    BY <1>3 DEF CheckFileInput
  <2>. QED BY <1>1, <2>1 DEF FindCommentLeaks, MACHINE_LOCAL_PATH_PATTERNS, TEMP_PATH_PATTERNS
<1>. QED BY <1>2, <1>3 DEF IsClean

LEMMA FileKeeps ==
  ASSUME IntakeInv, NEW l \in Lookers, NEW report \in Bodies, NEW redact \in BOOLEAN, File(l, report, redact)
  PROVE  IntakeInv'
<1>1. PICK prefix \in {"none", "area", "bug"}, leaks \in {{}, {"path"}} :
        IF CheckFileInput([prefix |-> prefix, leaks |-> leaks], report, redact) # "none"
        THEN look' = [look EXCEPT ![l] = Idle] /\ UNCHANGED issues
        ELSE /\ issues' = Append(issues, [title |-> look[l].query, pull |-> FALSE, open |-> TRUE, queued |-> TRUE])
             /\ look' = [look EXCEPT ![l] = [Idle EXCEPT !.pc = "filed", !.text =
                  [title |-> leaks, body |-> IF redact THEN RedactLeaks(report.leaks) ELSE report.leaks, redacted |-> redact]]]
  BY DEF File
<1>2. index' = index
  BY DEF File
<1>3. CASE CheckFileInput([prefix |-> prefix, leaks |-> leaks], report, redact) # "none"
  BY <1>1, <1>2, <1>3, IdleLook, IdleIsTrue, OneLookChanges
<1>4. CASE CheckFileInput([prefix |-> prefix, leaks |-> leaks], report, redact) = "none"
  <2> DEFINE text == [title |-> leaks, body |-> IF redact THEN RedactLeaks(report.leaks) ELSE report.leaks,
                      redacted |-> redact]
             c    == [Idle EXCEPT !.pc = "filed", !.text = text]
             issue == [title |-> look[l].query, pull |-> FALSE, open |-> TRUE, queued |-> TRUE]
  <2>1. issues' = Append(issues, issue) /\ look' = [look EXCEPT ![l] = c]
    BY <1>1, <1>4
  <2>2. IsClean(text)
    BY <1>4, WhatIsFiledIsClean
  <2>3. text \in SomeText
    BY BodiesAssumption DEF SomeText, Leaks, RedactLeaks, MACHINE_LOCAL_PATH_PATTERNS
  <2>4. c \in Looks
    BY <2>3, IdleLook DEF Looks
  <2>5. /\ c.pc = "filed" /\ c.waits = {} /\ c.queue = {} /\ c.search = {} /\ c.known = {}
        /\ c.list = <<>> /\ c.text = text
    BY IdleLook DEF Looks
  <2>6. issue \in Issues
    BY DEF Issues, Looks, IntakeInv, IntakeTypeOK
  <2> HIDE DEF text, c, issue
  <2>7. BoardMoves /\ ListStage \subseteq ListStage'
    BY <2>1, <2>6, AddingMoves
  <2>8. LookInv(c)'
    BY <2>2, <2>5, IdleLook DEF LookInv, LookIsFair, MissesNothing
  <2>9. ASSUME NEW k \in Lookers PROVE look'[k] \in Looks /\ LookInv(look[k])'
    <3>1. CASE k = l
      <4>1. look'[k] = c
        BY <2>1, <3>1 DEF IntakeInv, IntakeTypeOK
      <4>2. LookInv(look[k])' <=> LookInv(c)'
        BY <4>1 DEF LookInv, LookIsFair, MissesNothing
      <4>. QED BY <2>4, <2>8, <4>1, <4>2
    <3>2. CASE k # l
      <4>1. look'[k] = look[k]
        BY <2>1, <3>2 DEF IntakeInv, IntakeTypeOK
      <4>. QED BY <2>7, <4>1, LooksGoOn DEF IntakeInv, LookInv, LookIsFair
    <3>. QED BY <3>1, <3>2
  <2>10. look' \in [Lookers -> Looks]
    BY <2>1, <2>4 DEF IntakeInv, IntakeTypeOK
  <2>. QED BY <1>2, <2>7, <2>9, <2>10, IndexKeeps DEF IntakeInv, IntakeTypeOK, BoardMoves
<1>. QED BY <1>3, <1>4

(* An issue that leaves the stage is no longer one that stood there all along. *)
LEMMA UnqueueKeeps == ASSUME IntakeInv, NEW n \in Numbers, Unqueue(n) PROVE IntakeInv'
<1>1. /\ issues' \in Seq(Issues) /\ Numbers' = Numbers
      /\ \A m \in Numbers : issues'[m].title = issues[m].title /\ issues'[m].pull = issues[m].pull
      /\ \A m \in Numbers : m # n => issues'[m] = issues[m]
  <2>1. issues \in Seq(Issues) /\ Numbers = 1..Len(issues) /\ Len(issues) \in Nat /\ issues[n] \in Issues
    BY DEF IntakeInv, IntakeTypeOK, Numbers
  <2>2. PICK issue : /\ issue \in {[issues[n] EXCEPT !.queued = FALSE], [issues[n] EXCEPT !.queued = FALSE, !.open = FALSE]}
                     /\ issues' = [issues EXCEPT ![n] = issue]
    BY DEF Unqueue
  <2>3. issue \in Issues /\ issue.title = issues[n].title /\ issue.pull = issues[n].pull
    BY <2>1, <2>2 DEF Issues
  <2>4. issues' \in [1..Len(issues) -> Issues]
    BY <2>1, <2>2, <2>3 DEF Numbers
  <2>5. issues' \in Seq(Issues) /\ DOMAIN issues' = DOMAIN issues
    BY <2>1, <2>4 DEF Numbers
  <2>. QED BY <2>1, <2>2, <2>3, <2>5 DEF Numbers
<1>2. BoardMoves
  BY <1>1 DEF BoardMoves
<1>3. ListStage \ {n} \subseteq ListStage'
  BY <1>1 DEF ListStage
<1>4. ASSUME NEW l \in Lookers PROVE look'[l] \in Looks /\ LookInv(look[l])'
  <2>1. PICK c \in Looks : c = look[l] /\ LookInv(c)
    BY DEF IntakeInv, IntakeTypeOK
  <2> DEFINE kept == IF c.pc = "reads" THEN c.known \ {n} ELSE c.known
             d    == [c EXCEPT !.known = kept]
  <2>2. look'[l] = d
    BY <2>1 DEF Unqueue
  <2>3. kept \in SUBSET c.known
    OBVIOUS
  <2>4. c.pc = "reads" => kept \subseteq ListStage'
    BY <1>3, <2>1 DEF LookInv, LookIsFair
  <2>5. d \in Looks
    BY <2>3 DEF Looks
  <2> HIDE DEF kept
  <2>6. LookInv(d)'
    BY <1>2, <2>1, <2>3, <2>4, LooksOutlastMoves
  <2> HIDE DEF d
  <2>7. LookInv(look[l])' <=> LookInv(d)'
    BY <2>2 DEF LookInv, LookIsFair, MissesNothing
  <2>. QED BY <2>2, <2>5, <2>6, <2>7
<1>5. look' \in [Lookers -> Looks]
  <2>1. look' = [l \in Lookers |-> look'[l]]
    BY DEF Unqueue
  <2>. QED BY <1>4, <2>1
<1>6. index' = index
  BY DEF Unqueue
<1>. QED BY <1>1, <1>2, <1>4, <1>5, <1>6, IndexKeeps DEF IntakeInv, IntakeTypeOK

LEMMA ReindexKeeps == ASSUME IntakeInv, Reindex PROVE IntakeInv'
<1>1. issues' = issues /\ look' = look /\ index' \subseteq NoPulls
  BY DEF Reindex, NoPulls
<1>2. \A l \in Lookers : LookInv(look[l])'
  BY <1>1 DEF IntakeInv, LookInv, LookIsFair, MissesNothing, NoPulls, Numbers, ListStage, TitleScore
<1>. QED BY <1>1, <1>2 DEF IntakeInv, IntakeTypeOK, NoPulls, Numbers

LEMMA IntakeInductive == IntakeInv /\ [IntakeNext]_intakeVars => IntakeInv'
<1> SUFFICES ASSUME IntakeInv, [IntakeNext]_intakeVars PROVE IntakeInv'
  OBVIOUS
<1>1. ASSUME NEW l \in Lookers, NEW title \in Titles, Ask(l, "dedup", title, 0) PROVE IntakeInv'
  <2>1. "dedup" \in Verbs /\ title \in Texts
    BY DEF Verbs, Texts
  <2>. QED BY <1>1, <2>1, AskKeeps
<1>2. ASSUME NEW l \in Lookers, NEW n \in ListStage, Ask(l, "check", issues[n].title, n) PROVE IntakeInv'
  <2>1. "check" \in Verbs
    BY DEF Verbs
  <2>2. issues[n].title \in Texts /\ n \in Nat
    <3>1. issues \in Seq(Issues) /\ n \in 1..Len(issues) /\ Len(issues) \in Nat
      BY DEF ListStage, Numbers, IntakeInv, IntakeTypeOK
    <3>2. issues[n] \in Issues
      BY <3>1
    <3>. QED BY <3>1, <3>2 DEF Issues
  <2>. QED BY <1>2, <2>1, <2>2, AskKeeps
<1>3. ASSUME NEW l \in Lookers, Acts(l) PROVE IntakeInv'
  BY <1>1, <1>2, <1>3, ReadQueueKeeps, ReadSearchKeeps, ReadFailsKeeps, RankKeeps, LeaveKeeps, FileKeeps DEF Acts
<1>4. CASE UNCHANGED intakeVars
  <2>1. issues' = issues /\ index' = index /\ look' = look
    BY <1>4 DEF intakeVars
  <2>2. \A l \in Lookers : LookInv(look[l])'
    BY <2>1 DEF IntakeInv, LookInv, LookIsFair, MissesNothing, NoPulls, Numbers, ListStage, TitleScore
  <2>. QED BY <2>1, <2>2 DEF IntakeInv, IntakeTypeOK, NoPulls, Numbers
<1>. QED BY <1>3, <1>4, UnqueueKeeps, OpenedKeeps, ReindexKeeps DEF IntakeNext

(* A look at the stage tells the truth, and what is filed after it is clean: *)
(* whatever the looks overlap with, what stood on the stage all along and    *)
(* shares a word with the question is on the list or outranked by a full one. *)
THEOREM LooksAreTrue == IntakeSpec => []IntakeIsTrue
<1>1. IntakeInv => IntakeIsTrue
  BY DEF IntakeInv, LookInv, MissesNothing, IsClean, IntakeIsTrue, LooksMissNothing, FiledIsClean
<1>. QED BY <1>1, IntakeInitially, IntakeInductive, PTL DEF IntakeSpec

-----------------------------------------------------------------------------
(* The search for cycles.  What is black has been left, and so has what it   *)
(* waits on; what an edge that was looked at leads to is black too or above  *)
(* it on the stack, unless a cycle was recorded.                             *)
BlackIn(nodes, s) == nodes \ (s.white \cup ToSet(s.stack))

SearchOK(nodes, edges, s) ==
  /\ s \in [white : SUBSET nodes, stack : Seq(nodes), left : SUBSET edges, cycles : SUBSET SUBSET nodes]
  /\ \A i \in DOMAIN s.stack : s.stack[i] \notin s.white
  /\ \A i, j \in DOMAIN s.stack : s.stack[i] = s.stack[j] => i = j
  /\ s.cycles = {} =>
       /\ \A e \in edges \ s.left :
            \/ e[2] \in BlackIn(nodes, s)
            \/ \E i, j \in DOMAIN s.stack : i < j /\ s.stack[i] = e[1] /\ s.stack[j] = e[2]
       /\ \A e \in edges : e[1] \in BlackIn(nodes, s) => e[2] \in BlackIn(nodes, s)
       /\ \A b \in BlackIn(nodes, s) : ~WaitsForever(edges, b)

GraphOK(nodes, edges) ==
  /\ nodes = UNION {{e[1], e[2]} : e \in edges}
  /\ edges \in SUBSET (nodes \X nodes) /\ nodes \in SUBSET Nat
  /\ IsFiniteSet(nodes) /\ IsFiniteSet(edges)

Turns(s) == Cardinality(s.left) + 2 * Cardinality(s.white) + Len(s.stack)
Done(s) == s.white = {} /\ s.stack = <<>>

LEMMA EnteredOK ==
  ASSUME NEW nodes, NEW edges, GraphOK(nodes, edges), NEW s, SearchOK(nodes, edges, s),
         NEW n \in s.white, NEW t,
         NEW left \in SUBSET s.left, t = Entered([s EXCEPT !.left = left], n),
         \A e \in s.left \ left : Len(s.stack) > 0 /\ e = <<s.stack[Len(s.stack)], n>>
  PROVE  SearchOK(nodes, edges, t)
<1> DEFINE top == Len(s.stack) + 1
<1>1. /\ s.stack \in Seq(nodes) /\ n \in nodes /\ s.white \in SUBSET nodes /\ s.left \in SUBSET edges
  BY DEF SearchOK
<1>2. t = [white |-> s.white \ {n}, stack |-> Append(s.stack, n), left |-> left, cycles |-> s.cycles]
  BY DEF Entered, SearchOK
<1> DEFINE grown == Append(s.stack, n)
<1>3. /\ t.stack \in Seq(nodes) /\ DOMAIN t.stack = 1..top /\ DOMAIN s.stack = 1 .. top - 1
      /\ t.stack[top] = n /\ \A i \in DOMAIN s.stack : t.stack[i] = s.stack[i]
      /\ Len(s.stack) \in Nat
  <2>1. /\ grown \in Seq(nodes) /\ DOMAIN grown = 1..top /\ DOMAIN s.stack = 1 .. top - 1
        /\ grown[top] = n /\ \A i \in DOMAIN s.stack : grown[i] = s.stack[i]
        /\ Len(s.stack) \in Nat
    BY <1>1
  <2>2. t.stack = grown
    BY <1>2
  <2> HIDE DEF grown
  <2>. QED BY <2>1, <2>2
<1>10. \A i \in DOMAIN t.stack : i = top \/ i \in DOMAIN s.stack
  BY <1>3
<1>4. t \in [white : SUBSET nodes, stack : Seq(nodes), left : SUBSET edges, cycles : SUBSET SUBSET nodes]
  BY <1>1, <1>2, <1>3 DEF SearchOK
<1>11. \A i \in DOMAIN s.stack : s.stack[i] \notin s.white
  BY DEF SearchOK
<1>5. \A i \in DOMAIN t.stack : t.stack[i] \notin t.white
  BY <1>2, <1>3, <1>10, <1>11
<1>6. \A i, j \in DOMAIN t.stack : t.stack[i] = t.stack[j] => i = j
  <2>1. \A i, j \in DOMAIN s.stack : s.stack[i] = s.stack[j] => i = j
    BY DEF SearchOK
  <2>2. \A i \in DOMAIN s.stack : t.stack[i] # n
    BY <1>3, <1>11
  <2>. QED BY <1>3, <1>10, <2>1, <2>2
<1>7. ToSet(t.stack) = ToSet(s.stack) \cup {n}
  <2>1. top \in DOMAIN t.stack /\ \A i \in DOMAIN s.stack : i \in DOMAIN t.stack
    BY <1>3
  <2>2. \A x : x \in ToSet(t.stack) <=> x \in ToSet(s.stack) \/ x = n
    BY <1>3, <1>10, <2>1 DEF ToSet
  <2>. QED BY <2>2
<1>8. BlackIn(nodes, t) = BlackIn(nodes, s)
  <2>1. t.white = s.white \ {n}
    BY <1>2
  <2>. QED BY <1>1, <1>7, <2>1 DEF BlackIn
<1>9. ASSUME s.cycles = {}, NEW e \in edges \ t.left
      PROVE  \/ e[2] \in BlackIn(nodes, t)
             \/ \E i, j \in DOMAIN t.stack : i < j /\ t.stack[i] = e[1] /\ t.stack[j] = e[2]
  <2>1. CASE e \in s.left
    <3>1. Len(s.stack) > 0 /\ e = <<s.stack[Len(s.stack)], n>>
      BY <1>2, <1>9, <2>1
    <3>2. top - 1 \in DOMAIN s.stack /\ top - 1 \in DOMAIN t.stack /\ top \in DOMAIN t.stack
      BY <1>3, <3>1
    <3>3. t.stack[top - 1] = e[1] /\ t.stack[top] = e[2] /\ top - 1 < top
      BY <1>3, <3>1, <3>2
    <3>. QED BY <3>2, <3>3
  <2>2. CASE e \notin s.left
    <3>1. \/ e[2] \in BlackIn(nodes, s)
          \/ \E i, j \in DOMAIN s.stack : i < j /\ s.stack[i] = e[1] /\ s.stack[j] = e[2]
      BY <1>9, <2>2 DEF SearchOK
    <3>2. DOMAIN s.stack \subseteq DOMAIN t.stack
      BY <1>3
    <3>. QED BY <1>3, <1>8, <3>1, <3>2
  <2>. QED BY <2>1, <2>2
<1>12. t.cycles = s.cycles
  BY <1>2
<1>13. s.cycles = {} =>
         /\ \A e \in edges : e[1] \in BlackIn(nodes, t) => e[2] \in BlackIn(nodes, t)
         /\ \A b \in BlackIn(nodes, t) : ~WaitsForever(edges, b)
  BY <1>8 DEF SearchOK
<1>. QED BY <1>4, <1>5, <1>6, <1>9, <1>12, <1>13 DEF SearchOK

LEMMA LeftOK ==
  ASSUME NEW nodes, NEW edges, GraphOK(nodes, edges), NEW s, SearchOK(nodes, edges, s),
         s.stack # <<>>, {e \in s.left : e[1] = s.stack[Len(s.stack)]} = {},
         NEW t, t = [s EXCEPT !.stack = SubSeq(@, 1, Len(@) - 1)]
  PROVE  SearchOK(nodes, edges, t)
<1> DEFINE len == Len(s.stack)
           top == s.stack[len]
<1>1. s.stack \in Seq(nodes) /\ s.left \in SUBSET edges
  BY DEF SearchOK
<1>2. len \in Nat \ {0} /\ DOMAIN s.stack = 1..len /\ top \in nodes
  BY <1>1
<1>3. t = [white |-> s.white, stack |-> SubSeq(s.stack, 1, len - 1), left |-> s.left, cycles |-> s.cycles]
  BY DEF SearchOK
<1>4. /\ t.stack \in Seq(nodes) /\ DOMAIN t.stack = 1 .. len - 1
      /\ \A i \in DOMAIN t.stack : t.stack[i] = s.stack[i]
  BY <1>1, <1>2, <1>3
<1>5. t \in [white : SUBSET nodes, stack : Seq(nodes), left : SUBSET edges, cycles : SUBSET SUBSET nodes]
  BY <1>3, <1>4 DEF SearchOK
<1>6. \A i \in DOMAIN t.stack : t.stack[i] \notin t.white
  BY <1>2, <1>3, <1>4 DEF SearchOK
<1>7. \A i, j \in DOMAIN t.stack : t.stack[i] = t.stack[j] => i = j
  BY <1>2, <1>4 DEF SearchOK
<1>8. ToSet(t.stack) = ToSet(s.stack) \ {top}
  <2>1. \A i \in DOMAIN t.stack : s.stack[i] # top
    BY <1>2, <1>4 DEF SearchOK
  <2>2. \A i \in DOMAIN s.stack : i = len \/ i \in DOMAIN t.stack
    BY <1>2, <1>4
  <2>. QED BY <1>2, <1>4, <2>1, <2>2 DEF ToSet
<1>9. top \notin s.white /\ top \in ToSet(s.stack)
  BY <1>2 DEF SearchOK, ToSet
<1>10. BlackIn(nodes, t) = BlackIn(nodes, s) \cup {top} /\ top \notin BlackIn(nodes, s)
  BY <1>2, <1>3, <1>8, <1>9 DEF BlackIn
<1> HIDE DEF top
<1>11. ASSUME s.cycles = {}
       PROVE  /\ \A e \in edges \ t.left :
                   \/ e[2] \in BlackIn(nodes, t)
                   \/ \E i, j \in DOMAIN t.stack : i < j /\ t.stack[i] = e[1] /\ t.stack[j] = e[2]
              /\ \A e \in edges : e[1] \in BlackIn(nodes, t) => e[2] \in BlackIn(nodes, t)
              /\ \A b \in BlackIn(nodes, t) : ~WaitsForever(edges, b)
  <2>1. ASSUME NEW e \in edges \ t.left
        PROVE  \/ e[2] \in BlackIn(nodes, t)
               \/ \E i, j \in DOMAIN t.stack : i < j /\ t.stack[i] = e[1] /\ t.stack[j] = e[2]
    <3>1. \/ e[2] \in BlackIn(nodes, s)
          \/ \E i, j \in DOMAIN s.stack : i < j /\ s.stack[i] = e[1] /\ s.stack[j] = e[2]
      BY <1>3, <1>11, <2>1 DEF SearchOK
    <3>2. ASSUME NEW i \in DOMAIN s.stack, NEW j \in DOMAIN s.stack, i < j, s.stack[i] = e[1], s.stack[j] = e[2]
          PROVE  \/ e[2] \in BlackIn(nodes, t)
                 \/ i \in DOMAIN t.stack /\ j \in DOMAIN t.stack /\ t.stack[i] = e[1] /\ t.stack[j] = e[2]
      <4>1. CASE j = len
        BY <1>10, <3>2, <4>1 DEF top
      <4>2. CASE j # len
        BY <1>2, <1>4, <3>2, <4>2
      <4>. QED BY <4>1, <4>2
    <3>. QED BY <1>10, <3>1, <3>2
  <2>2. ASSUME NEW e \in edges, e[1] = top PROVE e[2] \in BlackIn(nodes, s)
    <3>1. e \notin s.left
      BY <2>2 DEF top
    <3>2. \/ e[2] \in BlackIn(nodes, s)
          \/ \E i, j \in DOMAIN s.stack : i < j /\ s.stack[i] = e[1] /\ s.stack[j] = e[2]
      BY <1>11, <3>1 DEF SearchOK
    <3>3. \A i, j \in DOMAIN s.stack : i < j => s.stack[i] # top
      BY <1>2 DEF SearchOK, top
    <3>. QED BY <2>2, <3>2, <3>3
  <2>3. \A e \in edges : e[1] \in BlackIn(nodes, s) => e[2] \in BlackIn(nodes, s)
    BY <1>11 DEF SearchOK
  <2>4. \A e \in edges : e[1] \in BlackIn(nodes, t) => e[2] \in BlackIn(nodes, t)
    BY <1>10, <2>2, <2>3
  <2>5. ~WaitsForever(edges, top)
    <3>1. \A e \in edges : e[1] \in BlackIn(nodes, s) \cup {top} => e[2] \in BlackIn(nodes, s)
      BY <2>2, <2>3
    <3>2. BlackIn(nodes, s) \in SUBSET UNION {{e[1], e[2]} : e \in edges}
      BY DEF BlackIn, GraphOK
    <3>. QED BY <1>10, <3>1, <3>2 DEF WaitsForever
  <2>6. \A b \in BlackIn(nodes, s) : ~WaitsForever(edges, b)
    BY <1>11 DEF SearchOK
  <2>. QED BY <1>10, <2>1, <2>4, <2>5, <2>6
<1>. QED BY <1>3, <1>5, <1>6, <1>7, <1>11 DEF SearchOK

LEMMA LenOfFront ==
  ASSUME NEW S, NEW q \in Seq(S), q # <<>>
  PROVE  Len(SubSeq(q, 1, Len(q) - 1)) = Len(q) - 1
<1> DEFINE front == SubSeq(q, 1, Len(q) - 1)
<1>1. Len(q) \in Nat \ {0}
  OBVIOUS
<1>2. front \in Seq(S) /\ DOMAIN front = 1 .. Len(q) - 1
  BY <1>1
<1> HIDE DEF front
<1>3. Len(front) \in Nat /\ DOMAIN front = 1 .. Len(front)
  BY <1>2
<1>4. \A i \in Nat \ {0} : i <= Len(front) <=> i <= Len(q) - 1
  BY <1>1, <1>2, <1>3
<1>5. Len(front) = Len(q) - 1
  BY <1>1, <1>3, <1>4
<1>. QED BY <1>5 DEF front

LEMMA FewerTurns ==
  ASSUME NEW a \in Nat, NEW d \in Nat, a <= d, NEW b \in Nat, b >= 1, NEW c \in Nat
  PROVE  /\ d + 2 * b + c \in Nat /\ a + 2 * (b - 1) + (c + 1) \in Nat
         /\ a + 2 * (b - 1) + (c + 1) < d + 2 * b + c
OBVIOUS

LEMMA TurnsOfEntered ==
  ASSUME NEW nodes, NEW edges, GraphOK(nodes, edges), NEW s, SearchOK(nodes, edges, s),
         NEW n \in s.white, NEW left \in SUBSET s.left,
         NEW t, t = Entered([s EXCEPT !.left = left], n)
  PROVE  Turns(s) \in Nat /\ Turns(t) \in Nat /\ Turns(t) < Turns(s)
<1>1. /\ t.left = left /\ t.white = s.white \ {n} /\ t.stack = Append(s.stack, n)
      /\ s.stack \in Seq(nodes) /\ s.white \in SUBSET nodes /\ s.left \in SUBSET edges
  BY DEF Entered, SearchOK
<1>2. IsFiniteSet(s.white) /\ IsFiniteSet(s.left)
  BY <1>1, FS_Subset DEF GraphOK
<1>3. Cardinality(s.white) \in Nat /\ Cardinality(s.left) \in Nat
  BY <1>2, FS_CardinalityType
<1>4. Cardinality(left) \in Nat /\ Cardinality(left) <= Cardinality(s.left)
  BY <1>2, FS_Subset, FS_CardinalityType
<1>5. Cardinality(s.white \ {n}) = Cardinality(s.white) - 1 /\ Cardinality(s.white) >= 1
  <2>1. IsFiniteSet(s.white \ {n}) /\ Cardinality(s.white \ {n}) = Cardinality(s.white) - 1
    BY <1>2, FS_RemoveElement
  <2>2. Cardinality(s.white \ {n}) \in Nat
    BY <2>1, FS_CardinalityType
  <2>. QED BY <1>3, <2>1, <2>2
<1>6. Len(s.stack) \in Nat /\ Len(t.stack) = Len(s.stack) + 1
  BY <1>1
<1>7. Turns(s) = Cardinality(s.left) + 2 * Cardinality(s.white) + Len(s.stack)
  BY DEF Turns
<1>8. Turns(t) = Cardinality(left) + 2 * (Cardinality(s.white) - 1) + (Len(s.stack) + 1)
  BY <1>1, <1>5, <1>6 DEF Turns
<1> DEFINE a == Cardinality(left)
           d == Cardinality(s.left)
           b == Cardinality(s.white)
           c == Len(s.stack)
<1>9. a \in Nat /\ d \in Nat /\ a <= d /\ b \in Nat /\ b >= 1 /\ c \in Nat
  BY <1>3, <1>4, <1>5, <1>6
<1>10. Turns(s) = d + 2 * b + c /\ Turns(t) = a + 2 * (b - 1) + (c + 1)
  BY <1>7, <1>8
<1> HIDE DEF a, b, c, d
<1>. QED BY <1>9, <1>10, FewerTurns

LEMMA TurnOK ==
  ASSUME NEW nodes, NEW edges, GraphOK(nodes, edges), NEW s, SearchOK(nodes, edges, s)
  PROVE  /\ SearchOK(nodes, edges, SearchStep(s))
         /\ Turns(s) \in Nat /\ Turns(SearchStep(s)) \in Nat
         /\ Done(s) => SearchStep(s) = s
         /\ ~Done(s) => Turns(SearchStep(s)) < Turns(s)
<1> DEFINE len  == Len(s.stack)
           top  == s.stack[len]
           next == {e[2] : e \in {e \in s.left : e[1] = top}}
           n    == Min(next)
           looked == [s EXCEPT !.left = @ \ {<<top, n>>}]
           t    == SearchStep(s)
<1>1. /\ s \in [white : SUBSET nodes, stack : Seq(nodes), left : SUBSET edges, cycles : SUBSET SUBSET nodes]
      /\ s.stack \in Seq(nodes) /\ s.white \in SUBSET nodes /\ s.left \in SUBSET edges
      /\ nodes \in SUBSET Nat /\ edges \in SUBSET (nodes \X nodes)
  BY DEF SearchOK, GraphOK
<1>2. IsFiniteSet(s.white) /\ IsFiniteSet(s.left)
  BY <1>1, FS_Subset DEF GraphOK
<1>3. /\ Cardinality(s.white) \in Nat /\ Cardinality(s.left) \in Nat /\ len \in Nat
      /\ Turns(s) = Cardinality(s.left) + 2 * Cardinality(s.white) + len
  BY <1>1, <1>2, FS_CardinalityType DEF Turns
<1>4. CASE s.stack = <<>> /\ s.white = {}
  BY <1>3, <1>4 DEF Done, SearchStep
<1>5. CASE s.stack = <<>> /\ s.white # {}
  <2>1. Min(s.white) \in s.white
    <3>1. s.white \in SUBSET Nat
      BY <1>1
    <3>. QED BY <1>5, <3>1, LeastOf
  <2>2. t = Entered([s EXCEPT !.left = s.left], Min(s.white))
    <3>1. [s EXCEPT !.left = s.left] = s
      BY <1>1
    <3>. QED BY <1>5, <3>1 DEF SearchStep
  <2> HIDE DEF t
  <2>3. SearchOK(nodes, edges, t) /\ Turns(t) \in Nat /\ Turns(t) < Turns(s)
    BY <2>1, <2>2, EnteredOK, TurnsOfEntered
  <2>. QED BY <1>3, <1>5, <2>3 DEF Done, t
<1>6. CASE s.stack # <<>>
  <2>1. len \in Nat \ {0} /\ DOMAIN s.stack = 1..len /\ top \in nodes /\ ~Done(s)
    BY <1>1, <1>6 DEF Done
  <2>2. CASE next = {}
    <3>1. t = [s EXCEPT !.stack = SubSeq(@, 1, Len(@) - 1)]
      BY <1>6, <2>2 DEF SearchStep
    <3>2. {e \in s.left : e[1] = s.stack[Len(s.stack)]} = {}
      BY <2>2
    <3> HIDE DEF t
    <3>3. SearchOK(nodes, edges, t)
      BY <1>6, <3>1, <3>2, LeftOK
    <3>4. t.left = s.left /\ t.white = s.white /\ t.stack = SubSeq(s.stack, 1, len - 1)
      BY <1>1, <3>1
    <3>5. Len(t.stack) = len - 1
      <4>1. Len(SubSeq(s.stack, 1, len - 1)) = len - 1
        BY <1>1, <1>6, LenOfFront
      <4>. QED BY <3>4, <4>1
    <3>6. Turns(t) = Cardinality(s.left) + 2 * Cardinality(s.white) + (len - 1)
      BY <3>4, <3>5 DEF Turns
    <3>. QED BY <1>3, <2>1, <3>3, <3>6 DEF t
  <2>3. CASE next # {}
    <3>1. next \in SUBSET nodes
      BY <1>1
    <3>2. n \in next
      <4> HIDE DEF next
      <4>1. next \in SUBSET Nat
        BY <1>1, <3>1
      <4>. QED BY <2>3, <4>1, LeastOf
    <3>3. <<top, n>> \in s.left /\ n \in nodes
      <4>1. PICK e \in s.left : e[1] = top /\ e[2] = n
        BY <3>2
      <4>2. e = <<top, n>>
        BY <1>1, <4>1
      <4>. QED BY <3>1, <3>2, <4>1, <4>2
    <3> DEFINE left == s.left \ {<<top, n>>}
    <3>4. looked = [s EXCEPT !.left = left] /\ left \in SUBSET s.left
      OBVIOUS
    <3>5. IsFiniteSet(left) /\ Cardinality(left) \in Nat /\ Cardinality(left) = Cardinality(s.left) - 1
      <4> DEFINE edge == <<top, n>>
      <4>1. edge \in s.left
        BY <3>3
      <4> HIDE DEF edge
      <4>2. IsFiniteSet(s.left \ {edge}) /\ Cardinality(s.left \ {edge}) = Cardinality(s.left) - 1
        BY <1>2, <4>1, FS_RemoveElement
      <4>3. Cardinality(s.left \ {edge}) \in Nat
        BY <4>2, FS_CardinalityType
      <4>. QED BY <4>2, <4>3 DEF edge
    <3>6. CASE n \in s.white /\ n \notin ToSet(s.stack)
      <4>1. t = Entered([s EXCEPT !.left = left], n)
        BY <1>6, <2>3, <3>6 DEF SearchStep
      <4>2. \A e \in s.left \ left : Len(s.stack) > 0 /\ e = <<s.stack[Len(s.stack)], n>>
        BY <2>1
      <4> HIDE DEF t, left
      <4>3. SearchOK(nodes, edges, t) /\ Turns(t) \in Nat /\ Turns(t) < Turns(s)
        BY <3>4, <3>6, <4>1, <4>2, EnteredOK, TurnsOfEntered
      <4>. QED BY <1>3, <2>1, <4>3 DEF t
    <3>7. ASSUME NEW cycles \in SUBSET SUBSET nodes, t = [white |-> s.white, stack |-> s.stack, left |-> left, cycles |-> cycles],
                 cycles = {} => s.cycles = {} /\ n \in BlackIn(nodes, s)
          PROVE  SearchOK(nodes, edges, t) /\ Turns(t) \in Nat /\ Turns(t) < Turns(s)
      <4> HIDE DEF t, n, top, left
      <4>1. t.white = s.white /\ t.stack = s.stack /\ t.left = left /\ t.cycles = cycles
        BY <3>7
      <4>2. BlackIn(nodes, t) = BlackIn(nodes, s)
        BY <4>1 DEF BlackIn
      <4>3. t \in [white : SUBSET nodes, stack : Seq(nodes), left : SUBSET edges, cycles : SUBSET SUBSET nodes]
        BY <1>1, <3>4, <3>7
      <4>4. ASSUME cycles = {}, NEW e \in edges \ left
            PROVE  \/ e[2] \in BlackIn(nodes, s)
                   \/ \E i, j \in DOMAIN s.stack : i < j /\ s.stack[i] = e[1] /\ s.stack[j] = e[2]
        <5>1. CASE e \in s.left
          <6>1. e = <<top, n>>
            BY <4>4, <5>1 DEF left
          <6>. QED BY <3>7, <4>4, <6>1
        <5>2. CASE e \notin s.left
          BY <3>7, <4>4, <5>2 DEF SearchOK
        <5>. QED BY <5>1, <5>2
      <4>5. SearchOK(nodes, edges, t)
        BY <3>7, <4>1, <4>2, <4>3, <4>4 DEF SearchOK
      <4>6. Turns(t) = (Cardinality(s.left) - 1) + 2 * Cardinality(s.white) + len
        BY <3>5, <4>1 DEF Turns
      <4>7. Cardinality(s.left) - 1 \in Nat
        BY <3>5
      <4>. QED BY <1>3, <4>5, <4>6, <4>7
    <3>8. CASE n \in ToSet(s.stack)
      <4> DEFINE cycle == ClosedBy(s.stack, n)
      <4>1. cycle \in SUBSET nodes
        <5>1. PICK i \in DOMAIN s.stack : s.stack[i] = n
          BY <3>8 DEF ToSet
        <5> DEFINE from == CHOOSE j \in DOMAIN s.stack : s.stack[j] = n
        <5>2. from \in DOMAIN s.stack
          BY <5>1
        <5>3. cycle = {s.stack[j] : j \in from..len}
          BY DEF ClosedBy
        <5> HIDE DEF from, cycle
        <5>4. \A j \in from..len : s.stack[j] \in nodes
          BY <1>1, <2>1, <5>2
        <5>. QED BY <5>3, <5>4
      <4>2. t = [white |-> s.white, stack |-> s.stack, left |-> left, cycles |-> s.cycles \cup {cycle}]
        BY <1>1, <1>6, <2>3, <3>8 DEF SearchStep
      <4> DEFINE cycles == s.cycles \cup {cycle}
      <4>4. cycles \in SUBSET SUBSET nodes /\ cycles # {}
        BY <1>1, <4>1
      <4>5. t = [white |-> s.white, stack |-> s.stack, left |-> left, cycles |-> cycles]
        BY <4>2
      <4> HIDE DEF t, n, left, cycle, cycles
      <4>3. SearchOK(nodes, edges, t) /\ Turns(t) \in Nat /\ Turns(t) < Turns(s)
        BY <3>7, <4>4, <4>5
      <4>. QED BY <1>3, <2>1, <4>3 DEF t
    <3>9. CASE n \notin ToSet(s.stack) /\ n \notin s.white
      <4>1. n \in BlackIn(nodes, s)
        BY <3>3, <3>9 DEF BlackIn
      <4>2. t = [white |-> s.white, stack |-> s.stack, left |-> left, cycles |-> s.cycles]
        BY <1>1, <1>6, <2>3, <3>9 DEF SearchStep
      <4> HIDE DEF t, n, left
      <4>3. SearchOK(nodes, edges, t) /\ Turns(t) \in Nat /\ Turns(t) < Turns(s)
        BY <1>1, <3>7, <4>1, <4>2
      <4>. QED BY <1>3, <2>1, <4>3 DEF t
    <3>. QED BY <3>6, <3>8, <3>9
  <2>. QED BY <2>2, <2>3
<1>. QED BY <1>4, <1>5, <1>6

(* What holds at 0 and from each turn to the next holds at every turn.       *)
LEMMA TurnByTurn ==
  ASSUME NEW turns \in Nat, NEW S, 0 \in S, \A k \in 0 .. turns - 1 : k \in S => k + 1 \in S
  PROVE  \A k \in 0..turns : k \in S
<1> DEFINE T == (0..turns) \ S
<1>1. SUFFICES ASSUME T # {} PROVE FALSE
  OBVIOUS
<1>2. T \in SUBSET Nat
  OBVIOUS
<1>3. PICK m \in T : \A j \in T : m <= j
  <2>1. IsWellFoundedOn(OpToRel(<, Nat), Nat)
    BY NatLessThanWellFounded
  <2> HIDE DEF T
  <2>2. PICK m \in T : \A j \in T : ~ (<<j, m>> \in OpToRel(<, Nat))
    BY <1>1, <1>2, <2>1, WFMin
  <2>3. \A j \in T : ~ (j < m)
    BY <1>2, <2>2 DEF OpToRel
  <2>4. \A j \in T : m <= j
    BY <1>2, <2>3
  <2>. QED BY <2>4
<1>4. m # 0 /\ m \in 1..turns /\ m \notin S
  OBVIOUS
<1>5. m - 1 \in 0 .. turns - 1 /\ m - 1 \notin T
  BY <1>3, <1>4
<1>6. m - 1 \in S
  BY <1>4, <1>5
<1>7. (m - 1) + 1 \in S
  BY <1>5, <1>6
<1>. QED BY <1>4, <1>7

SearchFrom(turns, start) == CHOOSE f : f = [k \in 0..turns |-> IF k = 0 THEN start ELSE SearchStep(f[k - 1])]

LEMMA SearchIsDefined ==
  ASSUME NEW turns \in Nat, NEW start
  PROVE  /\ SearchFrom(turns, start)[0] = start
         /\ \A k \in 1..turns : SearchFrom(turns, start)[k] = SearchStep(SearchFrom(turns, start)[k - 1])
<1> DEFINE search == SearchFrom(turns, start)
           Is(f, m) == f = [k \in 0..m |-> IF k = 0 THEN start ELSE SearchStep(f[k - 1])]
           S == {m \in 0..turns : \E f : Is(f, m)}
<1>1. 0 \in S
  <2> DEFINE f == [k \in 0..0 |-> start]
  <2>1. Is(f, 0)
    OBVIOUS
  <2> HIDE DEF f
  <2>2. \E f0 : Is(f0, 0)
    BY <2>1
  <2> HIDE DEF Is
  <2>. QED BY <2>2
<1>2. ASSUME NEW m \in 0 .. turns - 1, m \in S PROVE m + 1 \in S
  <2>1. PICK f : Is(f, m)
    BY <1>2
  <2> DEFINE g == [k \in 0 .. m + 1 |-> IF k = m + 1 THEN SearchStep(f[m]) ELSE f[k]]
  <2>2. /\ DOMAIN f = 0..m
        /\ \A k \in 0..m : f[k] = IF k = 0 THEN start ELSE SearchStep(f[k - 1])
    <3> DEFINE h == [k \in 0..m |-> IF k = 0 THEN start ELSE SearchStep(f[k - 1])]
    <3>1. f = h
      BY <2>1
    <3>2. DOMAIN h = 0..m /\ \A k \in 0..m : h[k] = IF k = 0 THEN start ELSE SearchStep(f[k - 1])
      OBVIOUS
    <3> HIDE DEF h
    <3>. QED BY <3>1, <3>2
  <2>3. \A k \in 0 .. m + 1 : g[k] = IF k = 0 THEN start ELSE SearchStep(g[k - 1])
    <3> TAKE k \in 0 .. m + 1
    <3>1. CASE k = m + 1
      BY <3>1
    <3>2. CASE k # m + 1
      <4>1. k \in 0..m /\ g[k] = f[k]
        BY <3>2
      <4>2. k # 0 => k - 1 \in 0 .. m + 1 /\ k - 1 # m + 1 /\ g[k - 1] = f[k - 1]
        BY <4>1
      <4>. QED BY <2>2, <4>1, <4>2
    <3>. QED BY <3>1, <3>2
  <2>4. g = [k \in 0 .. m + 1 |-> IF k = 0 THEN start ELSE SearchStep(g[k - 1])]
    <3>1. g = [k \in 0 .. m + 1 |-> g[k]]
      OBVIOUS
    <3> HIDE DEF g
    <3>. QED BY <2>3, <3>1
  <2> HIDE DEF g
  <2>5. \E f0 : Is(f0, m + 1)
    BY <2>4
  <2>6. m + 1 \in 0..turns
    OBVIOUS
  <2>. QED BY <2>5, <2>6
<1>3. turns \in S
  <2> HIDE DEF S
  <2>1. \A k \in 0..turns : k \in S
    BY <1>1, <1>2, TurnByTurn
  <2>. QED BY <2>1
<1>4. PICK f : Is(f, turns)
  BY <1>3
<1>5. search = CHOOSE f0 : Is(f0, turns)
  BY DEF SearchFrom
<1> HIDE DEF search
<1>6. Is(search, turns)
  <2> HIDE DEF Is
  <2>. QED BY <1>4, <1>5
<1> DEFINE h == [k \in 0..turns |-> IF k = 0 THEN start ELSE SearchStep(search[k - 1])]
<1>7. \A k \in 0..turns : h[k] = IF k = 0 THEN start ELSE SearchStep(search[k - 1])
  OBVIOUS
<1>8. search = h
  BY <1>6
<1> HIDE DEF h
<1>9. search[0] = start
  <2>1. 0 \in 0..turns
    OBVIOUS
  <2>. QED BY <1>7, <1>8, <2>1
<1>10. ASSUME NEW k \in 1..turns PROVE search[k] = SearchStep(search[k - 1])
  <2>1. k \in 0..turns /\ k # 0
    OBVIOUS
  <2>. QED BY <1>7, <1>8, <2>1
<1>. QED BY <1>9, <1>10 DEF search

(* What findCycles finds no cycle in has none: from no node can one come     *)
(* back to it by what it waits on.                                           *)
LEMMA CyclesAreFound ==
  ASSUME NEW nodes, NEW edges, GraphOK(nodes, edges), FindCycles(edges) = {}
  PROVE  \A n : ~WaitsForever(edges, n)
<1> DEFINE turns  == Cardinality(edges) + 2 * Cardinality(nodes)
           start  == [white |-> nodes, stack |-> <<>>, left |-> edges, cycles |-> {}]
           search == SearchFrom(turns, start)
           S == {k \in 0..turns : /\ SearchOK(nodes, edges, search[k])
                                  /\ Done(search[k]) \/ Turns(search[k]) + k <= turns}
<1>1. FindCycles(edges) = search[turns].cycles
  BY DEF FindCycles, SearchFrom, GraphOK
<1>2. Cardinality(edges) \in Nat /\ Cardinality(nodes) \in Nat
  BY FS_CardinalityType DEF GraphOK
<1>3. turns \in Nat
  BY <1>2
<1>4. SearchOK(nodes, edges, start) /\ Turns(start) = turns
  <2>1. start \in [white : SUBSET nodes, stack : Seq(nodes), left : SUBSET edges, cycles : SUBSET SUBSET nodes]
    OBVIOUS
  <2>2. DOMAIN start.stack = {} /\ BlackIn(nodes, start) = {} /\ edges \ start.left = {}
    BY DEF BlackIn
  <2>3. Len(start.stack) = 0
    OBVIOUS
  <2>4. Turns(start) = turns
    BY <1>2, <2>3 DEF Turns
  <2> HIDE DEF start
  <2>. QED BY <2>1, <2>2, <2>4 DEF SearchOK
<1> HIDE DEF turns, start
<1>5. search[0] = start /\ \A k \in 1..turns : search[k] = SearchStep(search[k - 1])
  BY <1>3, SearchIsDefined
<1> HIDE DEF search
<1>6. 0 \in S
  BY <1>3, <1>4, <1>5
<1>7. ASSUME NEW k \in 0 .. turns - 1, k \in S PROVE k + 1 \in S
  <2>1. k + 1 \in 1..turns /\ (k + 1) - 1 = k
    BY <1>3
  <2>2. search[k + 1] = SearchStep(search[k])
    BY <1>5, <2>1
  <2>3. /\ SearchOK(nodes, edges, SearchStep(search[k]))
        /\ Turns(search[k]) \in Nat /\ Turns(SearchStep(search[k])) \in Nat
        /\ Done(search[k]) => SearchStep(search[k]) = search[k]
        /\ ~Done(search[k]) => Turns(SearchStep(search[k])) < Turns(search[k])
    BY <1>7, TurnOK
  <2>4. ~Done(search[k]) => Turns(search[k]) + k <= turns
    BY <1>7
  <2>5. ~Done(search[k]) => Turns(search[k + 1]) + (k + 1) <= turns
    BY <1>3, <2>2, <2>3, <2>4
  <2>6. Done(search[k]) => Done(search[k + 1])
    BY <2>2, <2>3
  <2>. QED BY <1>3, <2>1, <2>2, <2>3, <2>5, <2>6
<1>8. turns \in S
  <2> HIDE DEF S
  <2>1. \A k \in 0..turns : k \in S
    BY <1>3, <1>6, <1>7, TurnByTurn
  <2>. QED BY <1>3, <2>1
<1> DEFINE last == search[turns]
<1>9. SearchOK(nodes, edges, last) /\ (Done(last) \/ Turns(last) + turns <= turns)
  BY <1>8
<1> HIDE DEF last
<1>10. Done(last)
  <2>1. /\ Turns(last) \in Nat
        /\ Turns(SearchStep(last)) \in Nat
        /\ ~Done(last) => Turns(SearchStep(last)) < Turns(last)
    BY <1>9, TurnOK
  <2>. QED BY <1>3, <1>9, <2>1
<1>11. last.cycles = {} /\ BlackIn(nodes, last) = nodes
  BY <1>1, <1>10 DEF last, Done, BlackIn, ToSet
<1>12. \A n \in nodes : ~WaitsForever(edges, n)
  BY <1>9, <1>11 DEF SearchOK
<1>13. ASSUME NEW n, n \notin nodes PROVE ~WaitsForever(edges, n)
  <2>1. \A e \in edges : e[1] \in {} \cup {n} => e[2] \in {}
    BY <1>13 DEF GraphOK
  <2>. QED BY <2>1 DEF WaitsForever
<1>. QED BY <1>12, <1>13

-----------------------------------------------------------------------------
(* What the floor passes can be executed.                                    *)
SectionOK(phases) ==
  /\ Len(phases) \in Nat /\ DOMAIN phases = 1..Len(phases)
  /\ Nodes(phases) \in SUBSET Nat /\ IsFiniteSet(Nodes(phases))

LEMMA WaitsAreLowered ==
  ASSUME NEW phases, SectionOK(phases)
  PROVE  Waits(phases) = LowerEdges(phases)
<1> DEFINE Reason(n, m) ==
             \E k \in DOMAIN phases : \E row \in phases[k] :
               /\ row.issue = n
               /\ \/ m \in row.requires
                  \/ row.requires = {} /\ \E j \in 1..(k - 1) : \E other \in phases[j] : other.issue = m
<1>1. \A n, m : Reason(n, m) => n \in Nodes(phases) /\ m \in Nodes(phases)
  <2> SUFFICES ASSUME NEW n, NEW m, NEW k \in DOMAIN phases, NEW row \in phases[k], row.issue = n,
                      \/ m \in row.requires
                      \/ row.requires = {} /\ \E j \in 1..(k - 1) : \E other \in phases[j] : other.issue = m
               PROVE  n \in Nodes(phases) /\ m \in Nodes(phases)
    OBVIOUS
  <2>1. \A j \in 1..(k - 1) : j \in DOMAIN phases
    BY DEF SectionOK
  <2>2. \A j \in DOMAIN phases : \A other \in phases[j] : {other.issue} \cup other.requires \subseteq Nodes(phases)
    BY DEF Nodes
  <2>. QED BY <2>1, <2>2
<1>2. \A e : e \in Waits(phases) <=> \E n, m : e = <<n, m>> /\ n # m /\ Reason(n, m)
  <2> HIDE DEF Reason
  <2>1. Waits(phases) = {e \in Nodes(phases) \X Nodes(phases) : e[2] # e[1] /\ Reason(e[1], e[2])}
    BY DEF Waits, Reason
  <2>. QED BY <1>1, <2>1
<1>3. \A e : e \in LowerEdges(phases) <=> \E n, m : e = <<n, m>> /\ n # m /\ Reason(n, m)
  <2> DEFINE earlier(k) == {row.issue : row \in UNION {phases[j] : j \in 1..(k - 1)}}
             waits(k, row) == IF row.requires # {} THEN row.requires ELSE earlier(k)
  <2>1. LowerEdges(phases)
          = {e \in UNION {UNION {{<<row.issue, r>> : r \in waits(k, row)} : row \in phases[k]}
                          : k \in DOMAIN phases} : e[1] # e[2]}
    BY DEF LowerEdges
  <2>2. \A k, row, m : m \in waits(k, row) <=>
          \/ m \in row.requires
          \/ row.requires = {} /\ \E j \in 1..(k - 1) : \E other \in phases[j] : other.issue = m
    OBVIOUS
  <2> HIDE DEF waits, earlier
  <2>3. \A e : e \in UNION {UNION {{<<row.issue, r>> : r \in waits(k, row)} : row \in phases[k]} : k \in DOMAIN phases}
              <=> \E k \in DOMAIN phases : \E row \in phases[k] : \E m \in waits(k, row) : e = <<row.issue, m>>
    OBVIOUS
  <2>4. \A e : e \in LowerEdges(phases) <=>
          \E k \in DOMAIN phases : \E row \in phases[k] : \E m \in waits(k, row) :
            e = <<row.issue, m>> /\ row.issue # m
    BY <2>1, <2>3
  <2>. QED BY <2>2, <2>4
<1> HIDE DEF Reason
<1>. QED BY <1>2, <1>3

LEMMA SectionsAreGraphs ==
  ASSUME NEW phases, SectionOK(phases)
  PROVE  GraphOK(UNION {{e[1], e[2]} : e \in LowerEdges(phases)}, LowerEdges(phases))
<1> DEFINE edges == LowerEdges(phases)
           nodes == UNION {{e[1], e[2]} : e \in edges}
           named == Nodes(phases)
<1>1. edges \in SUBSET (named \X named)
  BY WaitsAreLowered DEF Waits
<1> HIDE DEF edges
<1>2. edges \in SUBSET (nodes \X nodes) /\ nodes \in SUBSET named
  <2>1. \A e \in edges : e = <<e[1], e[2]>> /\ e[1] \in named /\ e[2] \in named
    BY <1>1
  <2>. QED BY <2>1
<1>3. IsFiniteSet(named) /\ named \in SUBSET Nat
  BY DEF SectionOK
<1> HIDE DEF named
<1>4. IsFiniteSet(named \X named)
  BY <1>3, FS_Product
<1>5. IsFiniteSet(edges)
  BY <1>1, <1>4, FS_Subset
<1>6. IsFiniteSet(nodes)
  <2> HIDE DEF nodes
  <2>. QED BY <1>2, <1>3, FS_Subset
<1>7. nodes \in SUBSET Nat
  BY <1>2, <1>3
<1>8. GraphOK(nodes, edges)
  BY <1>2, <1>5, <1>6, <1>7 DEF GraphOK
<1>. QED BY <1>8 DEF edges

LEMMA FloorIsSound ==
  ASSUME NEW ledger, ValidateLedger(ledger, Epic) = {}
  PROVE  /\ DOMAIN ledger.children # {} /\ ledger.present
         /\ FindCycles(LowerEdges(ledger.phases)) = {}
         /\ Nodes(ledger.phases) \subseteq DOMAIN ledger.children \cup {Epic} \cup ledger.external
         /\ DOMAIN ledger.children \subseteq Nodes(ledger.phases)
         /\ ledger.stories # {}
         /\ ledger.stories \subseteq UNION {ledger.children[n].stories : n \in DOMAIN ledger.children}
         /\ \A n \in DOMAIN ledger.children :
              LET child == ledger.children[n]
              IN  /\ child.criteria # 0 /\ child.labelled /\ child.stories # {"absent"}
                  /\ "needs-triage" \notin child.stages
                  /\ ledger.cycleDoc => child.containment \notin {"absent", "none"}
<1> DEFINE those   == DOMAIN ledger.children
           nodes   == IF ledger.present THEN Nodes(ledger.phases) ELSE {}
           edges   == IF ledger.present THEN LowerEdges(ledger.phases) ELSE {}
           covered == UNION {ledger.children[n].stories : n \in those}
<1>1. those # {}
  BY DEF ValidateLedger
<1>2. /\ (IF ledger.present THEN {} ELSE {Defect("MISSING_DEPS_SECTION", {Epic})}) = {}
      /\ {Defect("DEP_CYCLE", c) : c \in FindCycles(edges)} = {}
      /\ Each("DANGLING_DEP", nodes \ (those \cup {Epic} \cup ledger.external)) = {}
      /\ (IF ledger.present THEN Each("ORPHAN_CHILD", those \ nodes) ELSE {}) = {}
      /\ (IF ledger.stories = {} THEN {Defect("MISSING_STORIES_SECTION", {Epic})} ELSE {}) = {}
      /\ {Defect("UNCOVERED_STORY", {s}) : s \in ledger.stories \ covered} = {}
      /\ UNION {ChildDefects(ledger, n) : n \in those} = {}
  <2>1. ValidateLedger(ledger, Epic) =
          (IF ledger.present THEN {} ELSE {Defect("MISSING_DEPS_SECTION", {Epic})})
          \cup {Defect("DEP_CYCLE", c) : c \in FindCycles(edges)}
          \cup Each("DANGLING_DEP", nodes \ (those \cup {Epic} \cup ledger.external))
          \cup (IF ledger.present THEN Each("ORPHAN_CHILD", those \ nodes) ELSE {})
          \cup (IF ledger.stories = {} THEN {Defect("MISSING_STORIES_SECTION", {Epic})} ELSE {})
          \cup {Defect("UNCOVERED_STORY", {s}) : s \in ledger.stories \ covered}
          \cup UNION {ChildDefects(ledger, n) : n \in those}
    BY <1>1 DEF ValidateLedger
  <2> HIDE DEF those, nodes, edges, covered
  <2>. QED BY <2>1
<1>3. ledger.present /\ ledger.stories # {}
  BY <1>2
<1>4. nodes = Nodes(ledger.phases) /\ edges = LowerEdges(ledger.phases)
  BY <1>3
<1> HIDE DEF those, nodes, edges, covered
<1>5. FindCycles(edges) = {}
  BY <1>2
<1>6. nodes \subseteq those \cup {Epic} \cup ledger.external
  BY <1>2 DEF Each
<1>7. those \subseteq nodes
  BY <1>2, <1>3 DEF Each
<1>8. ledger.stories \subseteq covered
  BY <1>2
<1>9. ASSUME NEW n \in those
      PROVE  LET child == ledger.children[n]
             IN  /\ child.criteria # 0 /\ child.labelled /\ child.stories # {"absent"}
                 /\ "needs-triage" \notin child.stages
                 /\ ledger.cycleDoc => child.containment \notin {"absent", "none"}
  <2> DEFINE child == ledger.children[n]
  <2>1. ChildDefects(ledger, n) = {}
    BY <1>2, <1>9
  <2>2. \A type \in {"ZERO_AC", "MISSING_STORY", "MISSING_LABEL", "MISSING_CONTAINMENT", "NEEDS_TRIAGE_LABEL"} :
          ~ \/ type = "ZERO_AC" /\ child.criteria = 0
            \/ type = "MISSING_STORY" /\ ledger.stories # {} /\ child.stories = {"absent"}
            \/ type = "MISSING_LABEL" /\ ~child.labelled
            \/ type = "MISSING_CONTAINMENT" /\ ledger.cycleDoc /\ child.containment \in {"absent", "none"}
            \/ type = "NEEDS_TRIAGE_LABEL" /\ "needs-triage" \in child.stages
    <3> TAKE type \in {"ZERO_AC", "MISSING_STORY", "MISSING_LABEL", "MISSING_CONTAINMENT", "NEEDS_TRIAGE_LABEL"}
    <3>1. Defect(type, {n}).type = type
      BY DEF Defect
    <3>2. Defect(type, {n}) \in {Defect("ZERO_AC", {n}), Defect("MISSING_STORY", {n}), Defect("MISSING_LABEL", {n}),
                                 Defect("MISSING_CONTAINMENT", {n}), Defect("NEEDS_TRIAGE_LABEL", {n})}
      OBVIOUS
    <3>3. Defect(type, {n}) \notin ChildDefects(ledger, n)
      BY <2>1
    <3>. QED BY <3>1, <3>2, <3>3 DEF ChildDefects
  <2>. QED BY <1>3, <2>2
<1>. QED BY <1>1, <1>3, <1>4, <1>5, <1>6, <1>7, <1>8, <1>9 DEF those, covered

-----------------------------------------------------------------------------
(* The gate on one epic.                                                     *)
KidType == [criteria : {0, 1}, stories : SUBSET (Stories \cup {"absent"}), labelled : BOOLEAN,
            containment : {"flag", "absent", "none", "exempt"}, stages : SUBSET Stages]

PlanTypes ==
  /\ epic \in [plan : Plans, stories : SUBSET Stories, parked : BOOLEAN]
  /\ linked \subseteq Kids /\ kids \in [Kids -> KidType]
  /\ read = [present |-> read.present, phases |-> read.phases, stories |-> read.stories,
             children |-> read.children, external |-> read.external, cycleDoc |-> CycleDoc]
  /\ DOMAIN read.children \subseteq Kids /\ read.external \cap DOMAIN read.children = {}
  /\ call \in {"list", "children"} => read.external = {}
  /\ todo \subseteq Kids /\ flipped \subseteq Kids /\ quiet \in BOOLEAN
  /\ prev.known \in BOOLEAN /\ replans \in Nat
  /\ edits \in 0..MaxEdits /\ runs \in 0..MaxRuns

(* What the gate has read is what the epic and its children still are, and   *)
(* what it is flipping, or has flipped, is a plan that can be executed.      *)
ReadingIsTrue ==
  /\ call \in {"list", "children"} =>
       read.present = epic.plan.present /\ read.phases = epic.plan.phases /\ read.stories = epic.stories
  /\ call = "list" => DOMAIN read.children = {}
  /\ call = "children" => /\ DOMAIN read.children \cup todo = linked
                          /\ \A n \in DOMAIN read.children : read.children[n] = kids[n]
  /\ call = "flip" \/ flipped # {} => Executable

PlanInv == PlanTypes /\ (quiet => ReadingIsTrue)

LEMMA ExecutableStays ==
  ASSUME Executable, linked' = linked, epic.plan = epic'.plan, epic.stories = epic'.stories,
         \A n \in linked :
           /\ kids'[n].criteria = kids[n].criteria /\ kids'[n].labelled = kids[n].labelled
           /\ kids'[n].stories = kids[n].stories /\ kids'[n].containment = kids[n].containment
           /\ "needs-triage" \in kids'[n].stages => "needs-triage" \in kids[n].stages
  PROVE  Executable'
<1>1. UNION {kids'[n].stories : n \in linked'} = UNION {kids[n].stories : n \in linked}
  OBVIOUS
<1>. QED BY <1>1 DEF Executable

LEMMA PlanInitOK ==
  ASSUME PlanInit PROVE PlanInv
<1>1. kids \in [Kids -> KidType]
  <2>1. Child \in KidType /\ Stub \in KidType
    BY DEF Child, Stub, KidType, Stages
  <2>. QED BY <2>1 DEF PlanInit
<1>2. epic \in [plan : Plans, stories : SUBSET Stories, parked : BOOLEAN] /\ linked \subseteq Kids
  BY DEF PlanInit
<1>3. /\ read = [present |-> read.present, phases |-> read.phases, stories |-> read.stories,
                 children |-> read.children, external |-> read.external, cycleDoc |-> CycleDoc]
      /\ DOMAIN read.children = {} /\ read.external = {}
  BY DEF PlanInit, Nothing
<1>4. /\ todo \subseteq Kids /\ flipped = {} /\ quiet \in BOOLEAN /\ call = "idle"
      /\ prev.known \in BOOLEAN /\ replans \in Nat
      /\ edits \in 0..MaxEdits /\ runs \in 0..MaxRuns
  BY LoopAssumption DEF PlanInit, NoPass
<1>. QED BY <1>1, <1>2, <1>3, <1>4 DEF PlanInv, PlanTypes, ReadingIsTrue

LEMMA ReadEpicOK ==
  ASSUME PlanInv, ReadEpic PROVE PlanInv'
<1>1. read' = [present |-> epic.plan.present, phases |-> epic.plan.phases, stories |-> epic.stories,
               children |-> <<>>, external |-> {}, cycleDoc |-> CycleDoc]
  BY DEF ReadEpic, Nothing
<1>2. DOMAIN read'.children = {} /\ read'.external = {}
  BY <1>1
<1>3. /\ call' = "list" /\ flipped' = {} /\ quiet' = TRUE
      /\ UNCHANGED <<epic, linked, kids, todo, prev, replans, edits, runs>>
  BY DEF ReadEpic, board, memory
<1>4. PlanTypes'
  BY <1>1, <1>2, <1>3 DEF PlanInv, PlanTypes
<1>5. ReadingIsTrue'
  BY <1>1, <1>2, <1>3 DEF ReadingIsTrue
<1>. QED BY <1>4, <1>5 DEF PlanInv

LEMMA ListSubIssuesOK ==
  ASSUME PlanInv, ListSubIssues PROVE PlanInv'
<1>1. Executable => Executable'
  BY DEF ListSubIssues, board, Executable
<1>. QED BY <1>1 DEF PlanInv, PlanTypes, ReadingIsTrue, ListSubIssues, board, memory

LEMMA ReadChildOK ==
  ASSUME PlanInv, ReadChild PROVE PlanInv'
<1>1. Executable => Executable'
  BY DEF ReadChild, board, Executable
<1>2. PICK n \in todo :
        /\ read' = [read EXCEPT !.children = [c \in DOMAIN @ \cup {n} |-> IF c = n THEN kids[n] ELSE @[c]]]
        /\ todo' = todo \ {n}
  BY DEF ReadChild
<1>3. /\ call = "children" /\ n \in Kids /\ DOMAIN read.children \subseteq Kids
      /\ UNCHANGED <<board, call, flipped, quiet, memory, edits, runs>>
  BY DEF ReadChild, PlanInv, PlanTypes
<1> DEFINE grown == [c \in DOMAIN read.children \cup {n} |-> IF c = n THEN kids[n] ELSE read.children[c]]
<1>4. DOMAIN grown = DOMAIN read.children \cup {n}
      /\ \A c \in DOMAIN grown : grown[c] = IF c = n THEN kids[n] ELSE read.children[c]
  OBVIOUS
<1>5. read' = [present |-> read.present, phases |-> read.phases, stories |-> read.stories,
               children |-> grown, external |-> read.external, cycleDoc |-> CycleDoc]
  <2>1. read = [present |-> read.present, phases |-> read.phases, stories |-> read.stories,
                children |-> read.children, external |-> read.external, cycleDoc |-> CycleDoc]
    BY DEF PlanInv, PlanTypes
  <2>2. read' = [read EXCEPT !.children = grown]
    BY <1>2
  <2> HIDE DEF grown
  <2>. QED BY <2>1, <2>2
<1> HIDE DEF grown
<1>6. PlanTypes'
  BY <1>2, <1>3, <1>4, <1>5 DEF PlanInv, PlanTypes, board, memory
<1>7. quiet => ReadingIsTrue'
  <2> SUFFICES ASSUME quiet PROVE ReadingIsTrue'
    OBVIOUS
  <2>1. /\ DOMAIN read.children \cup todo = linked
        /\ \A c \in DOMAIN read.children : read.children[c] = kids[c]
        /\ read.present = epic.plan.present /\ read.phases = epic.plan.phases /\ read.stories = epic.stories
        /\ flipped # {} => Executable
    BY <1>3 DEF PlanInv, ReadingIsTrue
  <2>2. DOMAIN read'.children \cup todo' = linked
    BY <1>2, <1>4, <1>5, <2>1
  <2>3. \A c \in DOMAIN read'.children : read'.children[c] = kids[c]
    BY <1>4, <1>5, <2>1
  <2>. QED BY <1>1, <1>3, <1>5, <2>1, <2>2, <2>3 DEF ReadingIsTrue, board
<1>. QED BY <1>3, <1>6, <1>7 DEF PlanInv

(* What the gate passes, having read it undisturbed, can be executed.        *)
LEMMA PassIsExecutable ==
  ASSUME PlanInv, quiet, call = "children", todo = {},
         ValidateLedger(ResolveExternalRefs(read), Epic) = {}
  PROVE  Executable
<1> DEFINE ledger == ResolveExternalRefs(read)
           phases == epic.plan.phases
           edges  == LowerEdges(phases)
<1>1. ledger = [present |-> epic.plan.present, phases |-> phases, stories |-> epic.stories,
                children |-> read.children, external |-> ledger.external, cycleDoc |-> CycleDoc]
  <2>1. read = [present |-> epic.plan.present, phases |-> phases, stories |-> epic.stories,
                children |-> read.children, external |-> read.external, cycleDoc |-> CycleDoc]
    BY DEF PlanInv, PlanTypes, ReadingIsTrue
  <2>. QED BY <2>1 DEF ResolveExternalRefs
<1>2. /\ DOMAIN read.children = linked /\ linked \subseteq Kids
      /\ \A n \in linked : read.children[n] = kids[n] /\ kids[n] \in KidType
  BY DEF PlanInv, PlanTypes, ReadingIsTrue
<1>3. ledger.present => ledger.external = Nodes(phases) \ (linked \cup {Epic} \cup Absent)
  <2>1. /\ read = [present |-> epic.plan.present, phases |-> phases, stories |-> epic.stories,
                   children |-> read.children, external |-> read.external, cycleDoc |-> CycleDoc]
        /\ DOMAIN read.children = linked
    BY <1>2 DEF PlanInv, PlanTypes, ReadingIsTrue
  <2>. QED BY <2>1 DEF ResolveExternalRefs
<1>4. epic.plan \in Plans
  BY DEF PlanInv, PlanTypes
<1>5. SectionOK(phases)
  <2>1. phases \in Seq(SUBSET [issue : Nat, requires : SUBSET Nat]) /\ IsFiniteSet(Nodes(phases))
    BY <1>4, PlansAssumption
  <2> HIDE DEF phases
  <2>2. Len(phases) \in Nat /\ DOMAIN phases = 1..Len(phases)
    BY <2>1
  <2>3. \A k \in DOMAIN phases : \A row \in phases[k] : row.issue \in Nat /\ row.requires \in SUBSET Nat
    BY <2>1
  <2>4. Nodes(phases) \in SUBSET Nat
    BY <2>3 DEF Nodes
  <2>. QED BY <2>1, <2>2, <2>4 DEF SectionOK
<1>6. /\ DOMAIN ledger.children # {} /\ ledger.present
      /\ FindCycles(LowerEdges(ledger.phases)) = {}
      /\ Nodes(ledger.phases) \subseteq DOMAIN ledger.children \cup {Epic} \cup ledger.external
      /\ DOMAIN ledger.children \subseteq Nodes(ledger.phases)
      /\ ledger.stories # {}
      /\ ledger.stories \subseteq UNION {ledger.children[n].stories : n \in DOMAIN ledger.children}
      /\ \A n \in DOMAIN ledger.children :
           LET child == ledger.children[n]
           IN  /\ child.criteria # 0 /\ child.labelled /\ child.stories # {"absent"}
               /\ "needs-triage" \notin child.stages
               /\ ledger.cycleDoc => child.containment \notin {"absent", "none"}
  <2> HIDE DEF ledger
  <2>1. ValidateLedger(ledger, Epic) = {}
    BY DEF ledger
  <2>. QED BY <2>1, FloorIsSound
<1> HIDE DEF ledger
<1>7. /\ linked # {} /\ epic.plan.present /\ FindCycles(edges) = {}
      /\ Nodes(phases) \subseteq linked \cup {Epic} \cup ledger.external
      /\ linked \subseteq Nodes(phases) /\ epic.stories # {}
  BY <1>1, <1>2, <1>6
<1>8. epic.stories \subseteq UNION {kids[n].stories : n \in linked}
  BY <1>1, <1>2, <1>6
<1>9. \A n \in linked :
        /\ kids[n].criteria # 0 /\ kids[n].labelled /\ kids[n].stories # {"absent"}
        /\ "needs-triage" \notin kids[n].stages
        /\ CycleDoc => kids[n].containment \notin {"absent", "none"}
  BY <1>1, <1>2, <1>6
<1>10. Nodes(phases) \cap Absent = {}
  BY <1>2, <1>3, <1>6, <1>7, AbsentAssumption
<1>11. \A n : ~WaitsForever(Waits(phases), n)
  BY <1>5, <1>7, WaitsAreLowered, SectionsAreGraphs, CyclesAreFound
<1> HIDE DEF edges
<1>12. \A n \in linked : kids[n].criteria > 0 /\ (CycleDoc => kids[n].containment \in {"flag", "exempt"})
  BY <1>2, <1>9 DEF KidType
<1>. QED BY <1>7, <1>8, <1>9, <1>10, <1>11, <1>12 DEF Executable

LEMMA JudgeOK ==
  ASSUME PlanInv, Judge PROVE PlanInv'
<1> DEFINE ledger == ResolveExternalRefs(read)
           defects == ValidateLedger(ledger, Epic)
<1>1. /\ call = "children" /\ todo = {} /\ read' = ledger
      /\ UNCHANGED <<board, flipped, quiet, edits, runs>>
      /\ \/ /\ defects = {} /\ call' = "flip" /\ todo' = PlannedChildren(ledger) /\ UNCHANGED memory
         \/ /\ defects # {} /\ call' = AfterFail(defects) /\ prev' = [known |-> TRUE, defects |-> defects]
            /\ replans' = IF AfterFail(defects) = "replan" THEN replans + 1 ELSE replans
            /\ UNCHANGED todo
  BY DEF Judge
<1>2. /\ ledger = [present |-> read.present, phases |-> read.phases, stories |-> read.stories,
                   children |-> read.children, external |-> ledger.external, cycleDoc |-> CycleDoc]
      /\ ledger.external \cap DOMAIN read.children = {} /\ DOMAIN read.children \subseteq Kids
  <2>1. read = [present |-> read.present, phases |-> read.phases, stories |-> read.stories,
                children |-> read.children, external |-> read.external, cycleDoc |-> CycleDoc]
        /\ DOMAIN read.children \subseteq Kids
    BY DEF PlanInv, PlanTypes
  <2> DEFINE outside == (IF read.present THEN Nodes(read.phases) ELSE {})
                          \ (DOMAIN read.children \cup {Epic} \cup Absent)
  <2>2. ledger = [read EXCEPT !.external = outside] /\ outside \cap DOMAIN read.children = {}
    BY DEF ResolveExternalRefs
  <2> HIDE DEF outside, ledger
  <2>. QED BY <2>1, <2>2
<1>3. PlannedChildren(ledger) \subseteq Kids
  <2> HIDE DEF ledger
  <2>1. DOMAIN ledger.children = DOMAIN read.children
    BY <1>2
  <2>. QED BY <1>2, <2>1 DEF PlannedChildren
<1>4. quiet /\ defects = {} => Executable
  BY <1>1, PassIsExecutable DEF PlanInv
<1>5. Executable => Executable'
  BY <1>1 DEF board, Executable
<1> HIDE DEF ledger, defects
<1>6. call' = "flip" \/ call' \in {"park.comment", "replan"}
  BY <1>1 DEF AfterFail
<1>7. call' = "flip" => defects = {}
  BY <1>1 DEF AfterFail
<1>8. prev'.known \in BOOLEAN /\ replans' \in Nat
  <2>1. prev.known \in BOOLEAN /\ replans \in Nat /\ replans + 1 \in Nat
    BY DEF PlanInv, PlanTypes
  <2>2. CASE prev' = prev /\ replans' = replans
    BY <2>1, <2>2
  <2>3. CASE /\ prev' = [known |-> TRUE, defects |-> defects]
             /\ replans' = IF AfterFail(defects) = "replan" THEN replans + 1 ELSE replans
    <3>1. prev'.known = TRUE
      BY <2>3
    <3>2. replans' \in Nat
      BY <2>1, <2>3
    <3>. QED BY <3>1, <3>2
  <2>. QED BY <1>1, <2>2, <2>3 DEF memory
<1>9. PlanTypes'
  BY <1>1, <1>2, <1>3, <1>6, <1>8 DEF PlanInv, PlanTypes, board
<1>10. quiet => ReadingIsTrue'
  BY <1>1, <1>4, <1>5, <1>6, <1>7 DEF PlanInv, ReadingIsTrue
<1>. QED BY <1>1, <1>9, <1>10 DEF PlanInv

(* A flip changes the stages of one child, and adds no need of triage.       *)
LEMMA FlipOK ==
  ASSUME PlanInv, call = "flip", NEW n \in Kids, NEW stages \in SUBSET Stages,
         "needs-triage" \in stages => "needs-triage" \in kids[n].stages,
         kids' = [kids EXCEPT ![n].stages = stages], todo' \subseteq Kids, flipped' \subseteq Kids,
         UNCHANGED <<epic, linked, call, read, quiet, memory, edits, runs>>
  PROVE  PlanInv'
<1>1. kids \in [Kids -> KidType] /\ linked \subseteq Kids
  BY DEF PlanInv, PlanTypes
<1>2. kids[n] = [criteria |-> kids[n].criteria, stories |-> kids[n].stories, labelled |-> kids[n].labelled,
                 containment |-> kids[n].containment, stages |-> kids[n].stages]
  BY <1>1 DEF KidType
<1>3. kids'[n] = [criteria |-> kids[n].criteria, stories |-> kids[n].stories, labelled |-> kids[n].labelled,
                  containment |-> kids[n].containment, stages |-> stages]
  BY <1>1, <1>2
<1>4. kids'[n] \in KidType
  BY <1>1, <1>3 DEF KidType
<1>5. kids' \in [Kids -> KidType] /\ \A m \in Kids : m # n => kids'[m] = kids[m]
  <2>1. kids' = [kids EXCEPT ![n] = kids'[n]]
    BY <1>1
  <2>. QED BY <1>1, <1>4, <2>1
<1>6. Executable => Executable'
  <2>1. \A m \in linked :
           /\ kids'[m].criteria = kids[m].criteria /\ kids'[m].labelled = kids[m].labelled
           /\ kids'[m].stories = kids[m].stories /\ kids'[m].containment = kids[m].containment
           /\ "needs-triage" \in kids'[m].stages => "needs-triage" \in kids[m].stages
    BY <1>1, <1>3, <1>5
  <2>. QED BY <2>1, ExecutableStays
<1>7. PlanTypes'
  BY <1>5 DEF PlanInv, PlanTypes, memory
<1>8. quiet => ReadingIsTrue'
  BY <1>6 DEF PlanInv, ReadingIsTrue
<1>. QED BY <1>7, <1>8 DEF PlanInv

LEMMA AddTriagedOK ==
  ASSUME PlanInv, AddTriaged PROVE PlanInv'
<1>1. PICK n \in todo \ flipped :
        kids' = [kids EXCEPT ![n].stages = @ \cup {"triaged"}] /\ flipped' = flipped \cup {n}
  BY DEF AddTriaged
<1>2. n \in Kids /\ todo \subseteq Kids /\ flipped \subseteq Kids /\ kids \in [Kids -> KidType]
  BY DEF PlanInv, PlanTypes
<1>3. kids[n].stages \in SUBSET Stages
  BY <1>2 DEF KidType
<1> DEFINE stages == kids[n].stages \cup {"triaged"}
<1>4. stages \in SUBSET Stages /\ ("needs-triage" \in stages => "needs-triage" \in kids[n].stages)
  BY <1>3 DEF Stages
<1>5. kids' = [kids EXCEPT ![n].stages = stages]
  BY <1>1
<1>6. call = "flip" /\ UNCHANGED <<epic, linked, call, read, todo, quiet, memory, edits, runs>>
  BY DEF AddTriaged
<1> HIDE DEF stages
<1>. QED BY <1>1, <1>2, <1>4, <1>5, <1>6, FlipOK

LEMMA RemovePlannedOK ==
  ASSUME PlanInv, RemovePlanned PROVE PlanInv'
<1>1. PICK n \in todo \cap flipped :
        kids' = [kids EXCEPT ![n].stages = @ \ {"planned"}] /\ todo' = todo \ {n}
  BY DEF RemovePlanned
<1>2. n \in Kids /\ todo \subseteq Kids /\ flipped \subseteq Kids /\ kids \in [Kids -> KidType]
  BY DEF PlanInv, PlanTypes
<1>3. kids[n].stages \in SUBSET Stages
  BY <1>2 DEF KidType
<1> DEFINE stages == kids[n].stages \ {"planned"}
<1>4. stages \in SUBSET Stages /\ ("needs-triage" \in stages => "needs-triage" \in kids[n].stages)
  BY <1>3
<1>5. kids' = [kids EXCEPT ![n].stages = stages]
  BY <1>1
<1>6. call = "flip" /\ UNCHANGED <<epic, linked, call, read, flipped, quiet, memory, edits, runs>>
  BY DEF RemovePlanned
<1> HIDE DEF stages
<1>. QED BY <1>1, <1>2, <1>4, <1>5, <1>6, FlipOK

(* The calls that read nothing and flip nothing.                             *)
LEMMA OtherCallsOK ==
  ASSUME PlanInv, Start \/ PostPass \/ PostParked \/ ParkNeedsInfo \/ RePlanned \/ Fail
  PROVE  PlanInv'
<1>1. Executable => Executable'
  <2>1. /\ linked' = linked /\ kids' = kids /\ epic'.plan = epic.plan /\ epic'.stories = epic.stories
    BY DEF PlanInv, PlanTypes, Start, PostPass, PostParked, ParkNeedsInfo, RePlanned, Fail, board
  <2>. QED BY <2>1, ExecutableStays
<1>2. call' \notin {"list", "children", "flip"}
  BY DEF Start, PostPass, PostParked, ParkNeedsInfo, RePlanned, Fail
<1>3. /\ UNCHANGED <<linked, kids, read, todo, flipped, quiet, edits>>
      /\ epic' \in [plan : Plans, stories : SUBSET Stories, parked : BOOLEAN]
      /\ prev'.known \in BOOLEAN /\ replans' \in Nat /\ runs' \in 0..MaxRuns
  <2>1. CASE Start
    <3>1. runs \in 0..MaxRuns /\ runs > 0 /\ runs' = runs - 1
      BY <2>1 DEF PlanInv, PlanTypes, Start
    <3>2. runs' \in 0..MaxRuns
      BY <3>1, LoopAssumption
    <3>. QED BY <2>1, <3>2 DEF PlanInv, PlanTypes, Start, board, NoPass
  <2>2. CASE PostPass \/ PostParked \/ ParkNeedsInfo \/ RePlanned \/ Fail
    BY <2>2 DEF PlanInv, PlanTypes, PostPass, PostParked, ParkNeedsInfo, RePlanned, Fail, board, memory
  <2>. QED BY <2>1, <2>2
<1>4. PlanTypes'
  BY <1>2, <1>3 DEF PlanInv, PlanTypes
<1>5. quiet => ReadingIsTrue'
  BY <1>1, <1>2, <1>3 DEF PlanInv, ReadingIsTrue
<1>. QED BY <1>3, <1>4, <1>5 DEF PlanInv

LEMMA EditOK ==
  ASSUME PlanInv, Edit PROVE PlanInv'
<1>1. /\ epic \in [plan : Plans, stories : SUBSET Stories, parked : BOOLEAN]
      /\ linked \subseteq Kids /\ kids \in [Kids -> KidType] /\ edits \in 0..MaxEdits
  BY DEF PlanInv, PlanTypes
<1>2. epic' \in [plan : Plans, stories : SUBSET Stories, parked : BOOLEAN] /\ linked' \subseteq Kids
  BY <1>1 DEF Edit
<1>3. kids' \in [Kids -> KidType]
  <2>1. CASE kids' = kids
    BY <1>1, <2>1
  <2>2. ASSUME NEW n \in Kids,
               \/ \E c \in {0, 1} : kids' = [kids EXCEPT ![n].criteria = c]
               \/ \E s \in {{}, Stories} : kids' = [kids EXCEPT ![n].stories = s]
               \/ \E l \in BOOLEAN : kids' = [kids EXCEPT ![n].labelled = l]
               \/ \E c \in {"none", "exempt"} : kids' = [kids EXCEPT ![n].containment = c]
               \/ kids' = [kids EXCEPT ![n].stages = @ \cup {"needs-triage"}]
        PROVE  kids' \in [Kids -> KidType]
    <3>1. kids[n] \in KidType
      BY <1>1
    <3>2. kids'[n] \in KidType
      <4>1. \/ \E c \in {0, 1} : kids'[n] = [kids[n] EXCEPT !.criteria = c]
            \/ \E s \in {{}, Stories} : kids'[n] = [kids[n] EXCEPT !.stories = s]
            \/ \E l \in BOOLEAN : kids'[n] = [kids[n] EXCEPT !.labelled = l]
            \/ \E c \in {"none", "exempt"} : kids'[n] = [kids[n] EXCEPT !.containment = c]
            \/ kids'[n] = [kids[n] EXCEPT !.stages = @ \cup {"needs-triage"}]
        BY <1>1, <2>2
      <4>2. \A c \in {0, 1} : [kids[n] EXCEPT !.criteria = c] \in KidType
        BY <3>1 DEF KidType
      <4>3. \A s \in {{}, Stories} : [kids[n] EXCEPT !.stories = s] \in KidType
        BY <3>1 DEF KidType
      <4>4. \A l \in BOOLEAN : [kids[n] EXCEPT !.labelled = l] \in KidType
        BY <3>1 DEF KidType
      <4>5. \A c \in {"none", "exempt"} : [kids[n] EXCEPT !.containment = c] \in KidType
        BY <3>1 DEF KidType
      <4>6. [kids[n] EXCEPT !.stages = @ \cup {"needs-triage"}] \in KidType
        BY <3>1 DEF KidType, Stages
      <4>. QED BY <4>1, <4>2, <4>3, <4>4, <4>5, <4>6
    <3>3. kids' = [kids EXCEPT ![n] = kids'[n]]
      BY <1>1, <2>2
    <3>. QED BY <1>1, <3>2, <3>3
  <2>. QED BY <2>1, <2>2 DEF Edit
<1>4. /\ quiet' = FALSE /\ UNCHANGED <<call, read, todo, flipped, prev, replans, runs>>
      /\ edits' = edits - 1 /\ edits > 0
  BY DEF Edit, memory
<1>5. edits' \in 0..MaxEdits
  BY <1>1, <1>4, LoopAssumption
<1>. QED BY <1>2, <1>3, <1>4, <1>5 DEF PlanInv, PlanTypes

LEMMA PlanStepOK ==
  ASSUME PlanInv, [PlanNext]_planVars PROVE PlanInv'
<1>1. CASE PlanNext
  BY <1>1, ReadEpicOK, ListSubIssuesOK, ReadChildOK, JudgeOK, AddTriagedOK, RemovePlannedOK, OtherCallsOK,
     EditOK DEF PlanNext, Loop
<1>2. CASE UNCHANGED planVars
  BY <1>2 DEF planVars, PlanInv, PlanTypes, ReadingIsTrue, Executable
<1>. QED BY <1>1, <1>2

(* Every variable of the re-plan loop stays in its type, and no issue is at  *)
(* once a child of the ledger the gate reads and external to it.             *)
THEOREM PlanningTypes == PlanSpec => []PlanTypeOK
<1>1. PlanInit => PlanInv
  BY PlanInitOK
<1>2. PlanInv /\ [PlanNext]_planVars => PlanInv'
  BY PlanStepOK
<1>3. PlanInv => PlanTypeOK
  BY DEF PlanInv, PlanTypes, PlanTypeOK, KidType
<1>. QED BY <1>1, <1>2, <1>3, PTL DEF PlanSpec

(* Whatever the epic, its plan and the edits: as long as nobody edits it     *)
(* under the gate, what the gate makes pickable is a plan no child of which  *)
(* waits for itself or for what does not exist, with every story and child   *)
(* accounted for.                                                            *)
THEOREM PickablesAreSound == PlanSpec => []PickableIsSound
<1>1. PlanInit => PlanInv
  BY PlanInitOK
<1>2. PlanInv /\ [PlanNext]_planVars => PlanInv'
  BY PlanStepOK
<1>3. PlanInv => PickableIsSound
  BY DEF PlanInv, ReadingIsTrue, PickableIsSound
<1>. QED BY <1>1, <1>2, <1>3, PTL DEF PlanSpec
=============================================================================
