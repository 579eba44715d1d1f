--------------------------- MODULE WorkItemsProofs --------------------------
(***************************************************************************)
(* Theorems about the issue board, for any number of sessions, issues,     *)
(* pull requests and verbs, each of which may stop between any two calls   *)
(* (WorkItems), and about the shim before gh on a session's path, for any  *)
(* calls, policies and lints (GhShim).                                     *)
(***************************************************************************)
EXTENDS WorkItems, GhShim, WellFoundedInduction, TLAPS

(* What a job names is there, when `n` issues are filed. *)
JobKnows(j, n) ==
  /\ j.issue \in 0..n /\ j.dup \in 0..n
  /\ j.pc \notin {"idle", "next.probe", "scan.snapshot", "scan.file"} => j.issue # None
  /\ j.pc = "kill.fold" => j.dup # None
  /\ j.pc = "next.probe" => j.rows \subseteq [issue : 1..n, band : Bands]
  /\ j.pc \in {"scan.snapshot", "scan.file"} => j.cmd = "scan" /\ j.rows \subseteq Prs

JobsKnow == \A s \in Sessions : JobKnows(job[s], Len(issues))

(* Why there is one holder: who holds has the oldest claim, and is not     *)
(* about to take it away.                                                  *)
HoldersWin ==
  \A s \in Sessions : \A i \in holds[s] : claims[i] # <<>> /\ claims[i][1] = s

ClaimantsDoNotHold ==
  \A s \in Sessions :
    job[s].pc \in {"claim.post", "claim.check", "claim.retract", "release.delete"}
      => job[s].issue \notin holds[s]

-----------------------------------------------------------------------------
LEMMA Constants ==
  MaxIssues \in Nat \ {0} /\ MaxJobs \in Nat /\ AnyUnit \in Units
BY BoundsAssumption, UnitsAssumption DEF AnyUnit

LEMMA IdleTyped == Idle \in JobType /\ \A n \in Nat : JobKnows(Idle, n)
<1>1. Idle \in JobType
  <2>1. AnyUnit \in Units
    BY Constants
  <2>2. 0 \in Numbers \cup {None} /\ "triaged" \in Stages /\ "agent" \in Audiences /\ 3 \in Bands
    BY DEF None, Stages, Audiences, Bands
  <2>2a. "none" \in Verbs /\ "idle" \in Places
    BY DEF Verbs, Places
  <2>3. QED
    BY <2>1, <2>2, <2>2a DEF JobType, Idle, None
<1>2. ASSUME NEW n \in Nat
      PROVE  JobKnows(Idle, n)
  BY <1>2 DEF Idle, JobKnows, None
<1>3. QED
  BY <1>1, <1>2

(* What is filed stays filed, under its number. *)
Grows == issues' \in Seq(IssueType) /\ Len(issues') \in Numbers /\ Len(issues) <= Len(issues')

LEMMA Filing ==
  ASSUME TypeOK, NEW rec \in IssueType, CreateIssue(rec)
  PROVE  Grows /\ issues' = Append(issues, rec)
BY Constants DEF TypeOK, CreateIssue, Grows, Numbers

LEMMA Editing ==
  ASSUME TypeOK, NEW i \in Filed, NEW rec \in IssueType, issues' = [issues EXCEPT ![i] = rec]
  PROVE  Grows
BY DEF TypeOK, Grows, Filed, Numbers

LEMMA FreshTyped ==
  ASSUME NEW by \in Audiences, NEW stages \in SUBSET Stages, NEW unit \in Units
  PROVE  Issue(by, stages, unit) \in IssueType
BY Constants DEF Issue, IssueType, None, Audiences, Numbers

(* A job that moves to a state of the right form keeps what jobs know. *)
LEMMA JobMoves ==
  ASSUME TypeOK, JobsKnow, Grows, NEW s \in Sessions, NEW j \in JobType,
         JobKnows(j, Len(issues')), job' = [job EXCEPT ![s] = j]
  PROVE  job' \in [Sessions -> JobType] /\ JobsKnow'
<1>1. \A t \in Sessions : JobKnows(job[t], Len(issues'))
  <2>1. Len(issues) \in Nat /\ Len(issues') \in Nat /\ Len(issues) <= Len(issues')
    BY DEF TypeOK, Grows, Numbers
  <2>2. 0..Len(issues) \subseteq 0..Len(issues') /\ 1..Len(issues) \subseteq 1..Len(issues')
    BY <2>1
  <2>3. QED
    BY <2>2 DEF JobsKnow, JobKnows
<1>2. QED
  BY <1>1 DEF TypeOK, JobsKnow

LEMMA Stays ==
  ASSUME TypeOK, UNCHANGED issues
  PROVE  Grows
BY DEF TypeOK, Grows, Numbers

LEMMA JobEnds ==
  ASSUME TypeOK, JobsKnow, Grows, NEW s \in Sessions, Ends(s)
  PROVE  job' \in [Sessions -> JobType] /\ JobsKnow'
<1>1. Len(issues') \in Nat
  BY DEF Grows, Numbers
<1>2. QED
  BY <1>1, IdleTyped, JobMoves DEF Ends

LEMMA JobGoes ==
  ASSUME TypeOK, JobsKnow, Grows, NEW s \in Sessions, NEW pc \in Places, Goes(s, pc),
         job[s].pc \notin {"idle", "next.probe", "scan.snapshot", "scan.file"},
         pc \notin {"kill.fold", "next.probe", "scan.snapshot", "scan.file"}
  PROVE  job' \in [Sessions -> JobType] /\ JobsKnow'
<1> DEFINE here == job[s]
<1> DEFINE j == [here EXCEPT !.pc = pc]
<1>1. here \in JobType /\ JobKnows(here, Len(issues))
  BY DEF TypeOK, JobsKnow
<1>2. j \in JobType /\ j.pc = pc /\ j.issue = here.issue /\ j.dup = here.dup
  <2> HIDE DEF here
  <2> QED
    BY <1>1 DEF JobType
<1>3. 0..Len(issues) \subseteq 0..Len(issues')
  BY DEF TypeOK, Grows, Numbers
<1>4. JobKnows(j, Len(issues'))
  <2> HIDE DEF j
  <2> QED
    BY <1>1, <1>2, <1>3 DEF JobKnows
<1>5. job' = [job EXCEPT ![s] = j]
  BY DEF Goes
<1> HIDE DEF j
<1>6. QED
  BY <1>2, <1>4, <1>5, JobMoves

-----------------------------------------------------------------------------
(* What the verbs file and what they write is an issue. *)
LEMMA FiledTyped ==
  ASSUME NEW j \in JobType
  PROVE  /\ SplitChild(j) \in IssueType /\ EpicChild(j) \in IssueType
         /\ \A p \in Prs : HealItem(p) \in IssueType
<1>1. AnyUnit \in Units /\ j.unit \in Units /\ j.issue \in Numbers \cup {None}
  BY Constants DEF JobType
<1>2. Issue("agent", {"needs-triage"}, j.unit) \in IssueType
  BY <1>1, FreshTyped DEF Audiences, Stages
<1>3. Issue("agent", {"triaged"}, j.unit) \in IssueType /\ Issue("agent", {"triaged"}, AnyUnit) \in IssueType
  BY <1>1, FreshTyped DEF Audiences, Stages
<1>4. ASSUME NEW rec \in IssueType, NEW i \in Numbers \cup {None}
      PROVE  /\ [rec EXCEPT !.splitFrom = i] \in IssueType
             /\ [rec EXCEPT !.childOf = 1] \in IssueType
  BY DEF IssueType
<1>5. ASSUME NEW rec \in IssueType, NEW heals \in SUBSET Prs, NEW bands \in SUBSET Bands
      PROVE  [rec EXCEPT !.heals = heals, !.bands = bands] \in IssueType
  BY DEF IssueType
<1>6. {1} \in SUBSET Bands
  BY DEF Bands
<1>7. QED
  BY <1>1, <1>2, <1>3, <1>4, <1>5, <1>6 DEF SplitChild, EpicChild, HealItem

LEMMA EditsTyped ==
  ASSUME NEW rec \in IssueType, NEW j \in JobType, NEW i \in Numbers
  PROVE  /\ LabelsAdded(rec, j) \in IssueType /\ QueueLabelRemoved(rec) \in IssueType
         /\ ComposeEnriched(rec, j) \in IssueType /\ ComposePlan(rec, j) \in IssueType
         /\ Folded(rec, i) \in IssueType /\ Closed(rec, j) \in IssueType
<1>1. LabelsAdded(rec, j) \in IssueType
  BY DEF LabelsAdded, IssueType, JobType
<1>2. QueueLabelRemoved(rec) \in IssueType /\ Folded(rec, i) \in IssueType
  BY DEF QueueLabelRemoved, Folded, IssueType
<1>3. j.wraps + 1 \in Nat /\ j.wraps \in Nat /\ j.planned \in BOOLEAN
  BY DEF JobType
<1>4. ASSUME NEW wraps \in Nat, NEW planned \in BOOLEAN
      PROVE  [rec EXCEPT !.wraps = wraps, !.planned = planned] \in IssueType
  BY DEF IssueType
<1>5. ComposeEnriched(rec, j) \in IssueType /\ ComposePlan(rec, j) \in IssueType
  BY <1>3, <1>4 DEF ComposeEnriched, ComposePlan
<1>6. Closed(rec, j) \in IssueType
  BY DEF Closed, IssueType, JobType
<1>7. QED
  BY <1>1, <1>2, <1>5, <1>6

(* What a step does to the issues. *)
LEMMA IssuesStep ==
  ASSUME TypeOK, JobsKnow, [Next]_vars
  PROVE  Grows
<1>1. ASSUME NEW s \in Sessions, File(s)
      PROVE  Grows
  BY <1>1, FreshTyped, Filing DEF File, Audiences, Stages
<1>2. ASSUME NEW s \in Sessions, job[s] \in JobType, SplitCreate(s) \/ ChildCreate(s)
      PROVE  Grows
  BY <1>2, FiledTyped, Filing DEF SplitCreate, ChildCreate
<1>4. ASSUME NEW s \in Sessions, job[s] \in JobType, job[s].pc = "scan.file" => job[s].rows \subseteq Prs,
             CreateHealItem(s)
      PROVE  Grows
  <2>1. CASE job[s].rows = {}
    BY <1>4, <2>1, Stays DEF CreateHealItem
  <2>2. CASE job[s].rows # {}
    BY <1>4, <2>2, FiledTyped, Filing DEF CreateHealItem
  <2>3. QED
    BY <2>1, <2>2
<1>5. ASSUME NEW s \in Sessions, job[s] \in JobType, job[s].issue \in Filed, job[s].issue \in Numbers,
             issues[job[s].issue] \in IssueType, AddLabels(s) \/ RemoveQueueLabel(s) \/ ReplaceBody(s) \/ Close(s)
      PROVE  Grows
  BY <1>5, EditsTyped, Editing, Stays DEF AddLabels, RemoveQueueLabel, ReplaceBody, Close
<1>6. ASSUME NEW s \in Sessions, job[s] \in JobType, job[s].dup \in Filed, job[s].issue \in Numbers,
             issues[job[s].dup] \in IssueType, KillFold(s)
      PROVE  Grows
  BY <1>6, EditsTyped, Editing DEF KillFold
<1>8. ASSUME NEW s \in Sessions
      PROVE  /\ job[s] \in JobType
             /\ job[s].pc = "scan.file" => job[s].rows \subseteq Prs
             /\ job[s].pc \notin {"idle", "next.probe", "scan.snapshot", "scan.file"}
                  => /\ job[s].issue \in Filed \cap Numbers
                     /\ issues[job[s].issue] \in IssueType
             /\ job[s].pc = "kill.fold" => job[s].dup \in Filed /\ issues[job[s].dup] \in IssueType
  BY Constants DEF TypeOK, JobsKnow, JobKnows, Filed, None, Numbers
<1>9. ASSUME NEW s \in Sessions,
             \/ SplitCheck(s) \/ Triage(s) \/ EnrichRead(s) \/ KillRead(s) \/ Graduate(s)
             \/ Claiming(s) \/ Executing(s) \/ ChildList(s) \/ LinkSubIssue(s) \/ WriteRead(s)
             \/ ScanList(s) \/ ScanSnapshot(s) \/ Stop(s)
      PROVE  UNCHANGED issues
  BY <1>9 DEF SplitCheck, Triage, EnrichRead, KillRead, Graduate, Claiming, ClaimRead, ClaimPost,
              ClaimCheck, ClaimRetract, ReleaseList, Executing, NextList, NextProbe, OpenPrCheck,
              OpenPullRequest, ChildList, LinkSubIssue, WriteRead, ScanList, ScanSnapshot, Stop, board
<1>10. CASE PrChanges \/ UNCHANGED vars
  BY <1>10, Stays DEF PrChanges, vars
<1>11. ASSUME NEW s \in Sessions, AddLabels(s) \/ RemoveQueueLabel(s) \/ ReplaceBody(s) \/ KillFold(s) \/ Close(s)
       PROVE  Grows
  <2>1. job[s].pc \notin {"idle", "next.probe", "scan.snapshot", "scan.file"}
    BY <1>11 DEF AddLabels, RemoveQueueLabel, ReplaceBody, KillFold, Close
  <2>2. KillFold(s) => job[s].pc = "kill.fold"
    BY DEF KillFold
  <2>3. QED
    BY <1>5, <1>6, <1>8, <1>11, <2>1, <2>2
<1>12. ASSUME NEW s \in Sessions, Intake(s) \/ Claiming(s) \/ Executing(s) \/ Planner(s) \/ Healing(s) \/ Stop(s)
       PROVE  Grows
  BY <1>1, <1>2, <1>4, <1>8, <1>9, <1>11, <1>12, Stays DEF Intake, Planner, Healing
<1>13. QED
  BY <1>10, <1>12 DEF Next


-----------------------------------------------------------------------------
LEMMA FiledNumbers ==
  ASSUME TypeOK
  PROVE  /\ Len(issues) \in Nat /\ Filed = 1..Len(issues) /\ Filed \subseteq Numbers
         /\ None \notin Filed /\ 1 \in Filed
         /\ \A i \in Filed : issues[i] \in IssueType
BY Constants DEF TypeOK, Filed, Numbers, None

LEMMA BandTyped ==
  ASSUME TypeOK, NEW i \in Filed
  PROVE  BandOf(i) \in Bands
<1>1. issues[i].bands \subseteq 0..3
  BY FiledNumbers DEF IssueType, Bands
<1>2. ASSUME NEW B, B \subseteq 0..3, B # {}
      PROVE  \E b \in B : \A c \in B : b <= c
  <2>1. CASE 0 \in B
    BY <1>2, <2>1
  <2>2. CASE 0 \notin B /\ 1 \in B
    BY <1>2, <2>2
  <2>3. CASE 0 \notin B /\ 1 \notin B /\ 2 \in B
    BY <1>2, <2>3
  <2>4. CASE 0 \notin B /\ 1 \notin B /\ 2 \notin B
    <3>1. \A b \in B : b = 3
      BY <1>2, <2>4
    <3>2. PICK b \in B : TRUE
      BY <1>2
    <3>3. \A c \in B : b <= c
      BY <3>1
    <3>4. QED
      BY <3>3
  <2>5. QED
    BY <2>1, <2>2, <2>3, <2>4
<1>3. CASE issues[i].bands = {}
  BY <1>3 DEF BandOf, Bands
<1>4. CASE issues[i].bands # {}
  <2>1. \E b \in issues[i].bands : \A c \in issues[i].bands : b <= c
    BY <1>1, <1>2, <1>4
  <2>2. BandOf(i) = CHOOSE b \in issues[i].bands : \A c \in issues[i].bands : b <= c
    BY <1>4, Zenon DEF BandOf
  <2>3. BandOf(i) \in issues[i].bands
    BY <2>1, <2>2, Zenon
  <2>4. QED
    BY <1>1, <2>3 DEF Bands
<1>5. QED
  BY <1>3, <1>4

LEMMA Listed ==
  ASSUME TypeOK
  PROVE  /\ RankCandidates \subseteq [issue : 1..Len(issues), band : Bands]
         /\ RankCandidates \subseteq Rows
         /\ HealTargets \subseteq Prs
<1>1. RankCandidates \subseteq [issue : Filed, band : Bands]
  BY BandTyped DEF RankCandidates
<1>2. HealTargets \subseteq Prs
  BY FiledNumbers DEF HealTargets, IssueType
<1>3. [issue : Filed, band : Bands] \subseteq [issue : Numbers, band : Bands]
  BY FiledNumbers
<1>4. QED
  BY <1>1, <1>2, <1>3, FiledNumbers DEF Rows

(* A verb that starts, with what it read. *)
LEMMA JobStarts ==
  ASSUME TypeOK, JobsKnow, UNCHANGED issues, NEW s \in Sessions, NEW j \in JobType,
         JobKnows(j, Len(issues)), Starts(s, j)
  PROVE  job' \in [Sessions -> JobType] /\ JobsKnow'
BY JobMoves, Stays DEF Starts

LEMMA Knows ==
  ASSUME NEW n \in Nat, NEW j, j.issue \in 1..n, j.dup \in 0..n, j.pc = "kill.fold" => j.dup # None,
         j.pc \notin {"next.probe", "scan.snapshot", "scan.file"}
  PROVE  JobKnows(j, n)
BY DEF JobKnows, None

LEMMA JobsStep ==
  ASSUME TypeOK, JobsKnow, [Next]_vars
  PROVE  job' \in [Sessions -> JobType] /\ JobsKnow'
<1> DEFINE idle == Idle
<1> DEFINE n == Len(issues)
<1>1. idle \in JobType /\ idle.dup = 0 /\ n \in Nat
  BY IdleTyped, FiledNumbers DEF Idle, None
<1>2. \A i \in Filed : i \in Numbers /\ i \in 1..n /\ i # 0
  BY FiledNumbers
<1>3. Grows /\ Len(issues') \in Nat
  BY IssuesStep DEF Grows, Numbers
<1> DEFINE Good == job' \in [Sessions -> JobType] /\ JobsKnow'
<1>4. ASSUME NEW s \in Sessions, SplitCheck(s)
      PROVE  Good
  <2>1. PICK i \in Filed, u \in Units, pc \in {"split.create", "idle"} :
          Starts(s, [Idle EXCEPT !.cmd = "split", !.pc = pc, !.issue = i, !.unit = u])
    BY <1>4 DEF SplitCheck
  <2> DEFINE j == [idle EXCEPT !.cmd = "split", !.pc = pc, !.issue = i, !.unit = u]
  <2>1b. "split" \in Verbs /\ pc \in Places
    BY DEF Verbs, Places
  <2>2. j \in JobType /\ j.issue = i /\ j.dup = 0 /\ j.pc = pc
    <3> HIDE DEF idle
    <3> QED
      BY <1>1, <1>2, <2>1b DEF JobType
  <2>3. Starts(s, j)
    BY <2>1
  <2> HIDE DEF j
  <2>4. QED
    BY <1>1, <1>2, <1>4, <2>2, <2>3, Knows, JobStarts DEF SplitCheck, board
<1>5. ASSUME NEW s \in Sessions, ClaimRead(s)
      PROVE  Good
  <2>1. PICK i \in Filed, pc \in {"claim.post", "idle"} :
          Starts(s, [Idle EXCEPT !.cmd = "claim", !.issue = i, !.pc = pc])
    BY <1>5 DEF ClaimRead
  <2> DEFINE j == [idle EXCEPT !.cmd = "claim", !.issue = i, !.pc = pc]
  <2>1b. "claim" \in Verbs /\ pc \in Places
    BY DEF Verbs, Places
  <2>2. j \in JobType /\ j.issue = i /\ j.dup = 0 /\ j.pc = pc
    <3> HIDE DEF idle
    <3> QED
      BY <1>1, <1>2, <2>1b DEF JobType
  <2>3. Starts(s, j)
    BY <2>1
  <2> HIDE DEF j
  <2>4. QED
    BY <1>1, <1>2, <1>5, <2>2, <2>3, Knows, JobStarts DEF ClaimRead, board
<1>6. ASSUME NEW s \in Sessions, ReleaseList(s)
      PROVE  Good
  <2>1. PICK i \in Filed :
          Starts(s, [Idle EXCEPT !.cmd = "release", !.pc = "release.delete", !.issue = i])
    BY <1>6 DEF ReleaseList
  <2> DEFINE j == [idle EXCEPT !.cmd = "release", !.pc = "release.delete", !.issue = i]
  <2>1b. "release" \in Verbs /\ "release.delete" \in Places
    BY DEF Verbs, Places
  <2>2. j \in JobType /\ j.issue = i /\ j.dup = 0 /\ j.pc = "release.delete"
    <3> HIDE DEF idle
    <3> QED
      BY <1>1, <1>2, <2>1b DEF JobType
  <2>3. Starts(s, j)
    BY <2>1
  <2> HIDE DEF j
  <2>4. QED
    BY <1>1, <1>2, <1>6, <2>2, <2>3, Knows, JobStarts DEF ReleaseList, board
<1>7. ASSUME NEW s \in Sessions, Triage(s)
      PROVE  Good
  <2>1. PICK i \in Filed, band \in {0, 2}, stage \in {"triaged", "needs-info"}, who \in Audiences :
          Starts(s, [Idle EXCEPT !.cmd = "triage", !.pc = "labels.add", !.issue = i,
                                 !.band = band, !.stage = stage, !.audience = who])
    BY <1>7 DEF Triage
  <2> DEFINE j == [idle EXCEPT !.cmd = "triage", !.pc = "labels.add", !.issue = i,
                                 !.band = band, !.stage = stage, !.audience = who]
  <2>1b. "triage" \in Verbs /\ "labels.add" \in Places /\ band \in Bands /\ stage \in Stages /\ who \in Audiences
    BY DEF Verbs, Places, Bands, Stages, Audiences
  <2>2. j \in JobType /\ j.issue = i /\ j.dup = 0 /\ j.pc = "labels.add"
    <3> HIDE DEF idle
    <3> QED
      BY <1>1, <1>2, <2>1b DEF JobType
  <2>3. Starts(s, j)
    BY <2>1
  <2> HIDE DEF j
  <2>4. QED
    BY <1>1, <1>2, <1>7, <2>2, <2>3, Knows, JobStarts DEF Triage, board
<1>8. ASSUME NEW s \in Sessions, Graduate(s)
      PROVE  Good
  <2>1. PICK i \in Filed :
          Starts(s, [Idle EXCEPT !.cmd = "graduate", !.pc = "graduate.close",
                                             !.issue = i])
    BY <1>8 DEF Graduate
  <2> DEFINE j == [idle EXCEPT !.cmd = "graduate", !.pc = "graduate.close",
                                             !.issue = i]
  <2>1b. "graduate" \in Verbs /\ "graduate.close" \in Places
    BY DEF Verbs, Places
  <2>2. j \in JobType /\ j.issue = i /\ j.dup = 0 /\ j.pc = "graduate.close"
    <3> HIDE DEF idle
    <3> QED
      BY <1>1, <1>2, <2>1b DEF JobType
  <2>3. Starts(s, j)
    BY <2>1
  <2> HIDE DEF j
  <2>4. QED
    BY <1>1, <1>2, <1>8, <2>2, <2>3, Knows, JobStarts DEF Graduate, board
<1>9. ASSUME NEW s \in Sessions, OpenPrCheck(s)
      PROVE  Good
  <2>1. PICK i \in Filed :
          Starts(s, [Idle EXCEPT !.cmd = "open-pr", !.pc = "pr.open", !.issue = i])
    BY <1>9 DEF OpenPrCheck
  <2> DEFINE j == [idle EXCEPT !.cmd = "open-pr", !.pc = "pr.open", !.issue = i]
  <2>1b. "open-pr" \in Verbs /\ "pr.open" \in Places
    BY DEF Verbs, Places
  <2>2. j \in JobType /\ j.issue = i /\ j.dup = 0 /\ j.pc = "pr.open"
    <3> HIDE DEF idle
    <3> QED
      BY <1>1, <1>2, <2>1b DEF JobType
  <2>3. Starts(s, j)
    BY <2>1
  <2> HIDE DEF j
  <2>4. QED
    BY <1>1, <1>2, <1>9, <2>2, <2>3, Knows, JobStarts DEF OpenPrCheck, board
<1>10. ASSUME NEW s \in Sessions, ChildList(s)
      PROVE  Good
  <2>1. PICK u \in Units, pc \in {"idle", "child.create"} :
          Starts(s, [Idle EXCEPT !.cmd = "child", !.unit = u, !.issue = 1, !.pc = pc])
    BY <1>10 DEF ChildList
  <2> DEFINE j == [idle EXCEPT !.cmd = "child", !.unit = u, !.issue = 1, !.pc = pc]
  <2>1b. "child" \in Verbs /\ pc \in Places /\ 1 \in Filed
    BY FiledNumbers DEF Verbs, Places
  <2>2. j \in JobType /\ j.issue = 1 /\ j.dup = 0 /\ j.pc = pc
    <3> HIDE DEF idle
    <3> QED
      BY <1>1, <1>2, <2>1b DEF JobType
  <2>3. Starts(s, j)
    BY <2>1
  <2> HIDE DEF j
  <2>4. QED
    BY <1>1, <1>2, <1>10, <2>2, <2>1b, <2>3, Knows, JobStarts DEF ChildList, board
<1>11. ASSUME NEW s \in Sessions, EnrichRead(s)
      PROVE  Good
  <2>1. PICK i \in Filed :
          Starts(s, [Idle EXCEPT !.cmd = "enrich", !.pc = "enrich.write", !.issue = i,
                                 !.wraps = issues[i].wraps, !.planned = issues[i].planned])
    BY <1>11 DEF EnrichRead
  <2>1a. issues[i].wraps \in Nat /\ issues[i].planned \in BOOLEAN
    BY FiledNumbers DEF IssueType
  <2> DEFINE j == [idle EXCEPT !.cmd = "enrich", !.pc = "enrich.write", !.issue = i,
                                 !.wraps = issues[i].wraps, !.planned = issues[i].planned]
  <2>1b. "enrich" \in Verbs /\ "enrich.write" \in Places
    BY DEF Verbs, Places
  <2>2. j \in JobType /\ j.issue = i /\ j.dup = 0 /\ j.pc = "enrich.write"
    <3> HIDE DEF idle
    <3> QED
      BY <1>1, <1>2, <2>1a, <2>1b DEF JobType
  <2>3. Starts(s, j)
    BY <2>1
  <2> HIDE DEF j
  <2>4. QED
    BY <1>1, <1>2, <1>11, <2>2, <2>3, Knows, JobStarts DEF EnrichRead, board
<1>12. ASSUME NEW s \in Sessions, KillRead(s)
      PROVE  Good
  <2>1. PICK i \in Filed, d \in Filed \cup {None}, pc \in {"kill.close", "kill.fold"} :
          /\ pc = "kill.fold" => d # None
          /\ Starts(s, [Idle EXCEPT !.cmd = "kill", !.pc = pc, !.issue = i, !.dup = d])
    BY <1>12 DEF KillRead
  <2> DEFINE j == [idle EXCEPT !.cmd = "kill", !.pc = pc,
                                 !.issue = i, !.dup = d]
  <2>1b. "kill" \in Verbs /\ pc \in Places /\ d \in Numbers \cup {None} /\ d \in 0..n
        /\ (pc = "kill.fold" => d # None)
    BY <1>1, <1>2, <2>1 DEF Verbs, Places, None
  <2>2. j \in JobType /\ j.issue = i /\ j.dup = d /\ j.pc = pc /\ (pc = "kill.fold" => d # None)
    <3> HIDE DEF idle
    <3> QED
      BY <1>1, <1>2, <2>1b DEF JobType
  <2>3. Starts(s, j)
    BY <2>1
  <2> HIDE DEF j
  <2>4. QED
    BY <1>1, <1>2, <1>12, <2>2, <2>1b, <2>3, Knows, JobStarts DEF KillRead, board
<1>13. ASSUME NEW s \in Sessions, WriteRead(s)
      PROVE  Good
  <2> DEFINE j == [idle EXCEPT !.cmd = "write", !.pc = "plan.write", !.issue = 1,
                               !.wraps = issues[1].wraps, !.planned = issues[1].planned]
  <2>1. issues[1].wraps \in Nat /\ issues[1].planned \in BOOLEAN /\ 1 \in Filed
    BY FiledNumbers DEF IssueType
  <2>2. j \in JobType /\ j.issue = 1 /\ j.dup = 0 /\ j.pc = "plan.write"
    <3> HIDE DEF idle
    <3> QED
      BY <1>1, <1>2, <2>1 DEF JobType, Verbs, Places
  <2>3. Starts(s, j)
    BY <1>13 DEF WriteRead
  <2> HIDE DEF j
  <2>4. QED
    BY <1>1, <1>2, <1>13, <2>1, <2>2, <2>3, Knows, JobStarts DEF WriteRead, board
<1>14. ASSUME NEW s \in Sessions, NextList(s)
      PROVE  Good
  <2> DEFINE j == [idle EXCEPT !.cmd = "next", !.pc = "next.probe", !.rows = RankCandidates]
  <2>1. j \in JobType /\ j.issue = idle.issue /\ j.dup = 0 /\ j.pc = "next.probe" /\ j.rows = RankCandidates
    <3> HIDE DEF idle
    <3> QED
      BY <1>1, Listed DEF JobType, Verbs, Places
  <2>2. Starts(s, j)
    BY <1>14 DEF NextList
  <2>3. JobKnows(j, n)
    <3>1. j.issue = 0
      BY <2>1 DEF Idle, None
    <3> HIDE DEF j
    <3>2. QED
      BY <1>1, <2>1, <3>1, Listed DEF JobKnows, None
  <2> HIDE DEF j
  <2>4. QED
    BY <1>14, <2>1, <2>2, <2>3, JobStarts DEF NextList, board
<1>15. ASSUME NEW s \in Sessions, ScanList(s)
      PROVE  Good
  <2> DEFINE j == [idle EXCEPT !.cmd = "scan", !.pc = "scan.snapshot", !.rows = HealTargets]
  <2>1. j \in JobType /\ j.issue = idle.issue /\ j.dup = 0 /\ j.pc = "scan.snapshot"
        /\ j.rows = HealTargets /\ j.cmd = "scan"
    <3> HIDE DEF idle
    <3> QED
      BY <1>1, Listed DEF JobType, Verbs, Places, Rows
  <2>2. Starts(s, j)
    BY <1>15 DEF ScanList
  <2>3. JobKnows(j, n)
    <3>1. j.issue = 0
      BY <2>1 DEF Idle, None
    <3> HIDE DEF j
    <3>2. QED
      BY <1>1, <2>1, <3>1, Listed DEF JobKnows, None
  <2> HIDE DEF j
  <2>4. QED
    BY <1>15, <2>1, <2>2, <2>3, JobStarts DEF ScanList, board
<1>16. ASSUME NEW s \in Sessions,
              \/ ClaimPost(s) \/ ClaimCheck(s) \/ AddLabels(s) \/ RemoveQueueLabel(s) \/ KillFold(s)
       PROVE  Good
  <2>1. \/ Ends(s)
        \/ \E pc \in {"claim.check", "claim.retract", "labels.remove", "child.link", "kill.close"} :
             Goes(s, pc)
    BY <1>16 DEF ClaimPost, ClaimCheck, AddLabels, RemoveQueueLabel, KillFold
  <2>2. job[s].pc \notin {"idle", "next.probe", "scan.snapshot", "scan.file"}
    BY <1>16 DEF ClaimPost, ClaimCheck, AddLabels, RemoveQueueLabel, KillFold
  <2>3. QED
    BY <1>3, <2>1, <2>2, JobEnds, JobGoes DEF Places
<1>17. ASSUME NEW s \in Sessions, ChildCreate(s)
       PROVE  Good
  <2> DEFINE here == job[s]
  <2> DEFINE j == [here EXCEPT !.pc = "labels.add", !.issue = n + 1, !.band = 2]
  <2>1. here \in JobType /\ JobKnows(here, n)
    BY DEF TypeOK, JobsKnow
  <2>2. Len(issues') = n + 1 /\ n + 1 \in Numbers
    BY <1>17, <1>1, Constants DEF ChildCreate, CreateIssue, Numbers, TypeOK
  <2>2a. "labels.add" \in Places /\ 2 \in Bands
    BY DEF Places, Bands
  <2>3. j \in JobType /\ j.issue = n + 1 /\ j.dup = here.dup /\ j.pc = "labels.add"
    <3> HIDE DEF here
    <3> QED
      BY <2>1, <2>2, <2>2a DEF JobType
  <2>4. JobKnows(j, n + 1)
    <3>1. j.dup \in 0..(n + 1)
      BY <1>1, <2>1, <2>3 DEF JobKnows
    <3> HIDE DEF j
    <3>2. QED
      BY <1>1, <2>3, <3>1, Knows
  <2>5. job' = [job EXCEPT ![s] = j]
    BY <1>17 DEF ChildCreate
  <2> HIDE DEF j
  <2>6. QED
    BY <1>3, <2>2, <2>3, <2>4, <2>5, JobMoves
<1>18. ASSUME NEW s \in Sessions, NEW p, job' = [job EXCEPT ![s].rows = @ \ {p}]
       PROVE  Good
  <2> DEFINE here == job[s]
  <2> DEFINE j == [here EXCEPT !.rows = @ \ {p}]
  <2>1. here \in JobType /\ JobKnows(here, n)
    BY DEF TypeOK, JobsKnow
  <2>2. /\ j \in JobType /\ j.issue = here.issue /\ j.dup = here.dup /\ j.pc = here.pc /\ j.cmd = here.cmd
        /\ j.rows \subseteq here.rows
    <3> HIDE DEF here
    <3> QED
      BY <2>1 DEF JobType
  <2>3. 0..n \subseteq 0..Len(issues') /\ 1..n \subseteq 1..Len(issues')
    BY <1>1, <1>3 DEF Grows
  <2>4. JobKnows(j, Len(issues'))
    <3> HIDE DEF j, here
    <3> QED
      BY <2>1, <2>2, <2>3 DEF JobKnows
  <2>5. job' = [job EXCEPT ![s] = j]
    BY <1>18
  <2> HIDE DEF j
  <2>6. QED
    BY <1>3, <2>2, <2>4, <2>5, JobMoves
<1>19. ASSUME NEW s \in Sessions, ScanSnapshot(s)
       PROVE  Good
  <2> DEFINE here == job[s]
  <2> DEFINE rows == PlanHealItems(red, here.rows)
  <2> DEFINE j == [here EXCEPT !.pc = "scan.file", !.rows = rows]
  <2>1. here \in JobType /\ JobKnows(here, n) /\ here.pc = "scan.snapshot" /\ rows \subseteq Prs
    BY <1>19 DEF TypeOK, JobsKnow, ScanSnapshot, PlanHealItems
  <2>5. job' = [job EXCEPT ![s] = j]
    BY <1>19 DEF ScanSnapshot
  <2> HIDE DEF rows
  <2>2. /\ j \in JobType /\ j.issue = here.issue /\ j.dup = here.dup /\ j.pc = "scan.file"
        /\ j.cmd = here.cmd /\ j.rows = rows
    <3> HIDE DEF here
    <3> QED
      BY <2>1 DEF JobType, Places, Rows
  <2>3. UNCHANGED issues
    BY <1>19 DEF ScanSnapshot, board
  <2>4. JobKnows(j, Len(issues'))
    <3> HIDE DEF j, here
    <3> QED
      BY <2>1, <2>2, <2>3 DEF JobKnows
  <2> HIDE DEF j
  <2>6. QED
    BY <1>3, <2>2, <2>4, <2>5, JobMoves
<1>20. ASSUME NEW s \in Sessions,
              \/ SplitCreate(s) \/ ClaimRetract(s) \/ ReplaceBody(s) \/ Close(s) \/ OpenPullRequest(s)
              \/ LinkSubIssue(s) \/ Stop(s) \/ NextProbe(s) \/ CreateHealItem(s)
       PROVE  Good
  <2>1. Ends(s) \/ \E p : job' = [job EXCEPT ![s].rows = @ \ {p}]
    BY <1>20 DEF SplitCreate, ClaimRetract, ReplaceBody, Close, OpenPullRequest, LinkSubIssue, Stop,
                 NextProbe, CreateHealItem
  <2>2. QED
    BY <1>3, <1>18, <2>1, JobEnds
<1>21. ASSUME UNCHANGED job
       PROVE  Good
  <2>1. ASSUME NEW s \in Sessions
        PROVE  JobKnows(job[s], Len(issues'))
    <3>1. 0..n \subseteq 0..Len(issues') /\ 1..n \subseteq 1..Len(issues')
      BY <1>1, <1>3 DEF Grows
    <3>2. QED
      BY <3>1 DEF JobsKnow, JobKnows
  <2>2. QED
    BY <1>21, <2>1 DEF JobsKnow, TypeOK
<1>22. ASSUME NEW s \in Sessions, File(s)
       PROVE  Good
  BY <1>21, <1>22 DEF File
<1>23. CASE PrChanges \/ UNCHANGED vars
  BY <1>21, <1>23 DEF PrChanges, vars
<1>24. ASSUME NEW s \in Sessions, Intake(s) \/ Claiming(s) \/ Executing(s) \/ Planner(s) \/ Healing(s) \/ Stop(s)
       PROVE  Good
  BY <1>4, <1>5, <1>6, <1>7, <1>8, <1>9, <1>10, <1>11, <1>12, <1>13, <1>14, <1>15, <1>16, <1>17, <1>19,
     <1>20, <1>22, <1>24 DEF Intake, Claiming, Executing, Planner, Healing
<1>25. QED
  BY <1>23, <1>24 DEF Next

-----------------------------------------------------------------------------
(* Taking a later claim away leaves the oldest one where it is. *)
LEMMA RemoveAtKeeps ==
  ASSUME NEW S, NEW seq \in Seq(S), NEW k \in 1..Len(seq)
  PROVE  /\ RemoveAt(seq, k) \in Seq(S)
         /\ k # 1 => RemoveAt(seq, k) # <<>> /\ RemoveAt(seq, k)[1] = seq[1]
<1> DEFINE front == SubSeq(seq, 1, k - 1)
<1> DEFINE back == SubSeq(seq, k + 1, Len(seq))
<1>1. front \in Seq(S) /\ Len(front) = k - 1
  OBVIOUS
<1>2. back \in Seq(S)
  OBVIOUS
<1>3. k # 1 => front[1] = seq[1]
  OBVIOUS
<1>4. RemoveAt(seq, k) = front \o back
  BY DEF RemoveAt
<1> HIDE DEF front, back
<1>5. /\ front \o back \in Seq(S)
      /\ Len(front) > 0 => front \o back # <<>> /\ (front \o back)[1] = front[1]
  BY <1>1, <1>2
<1>6. QED
  BY <1>1, <1>3, <1>4, <1>5

(* The steps that touch claims or what a session was told it holds. *)
LEMMA ClaimsAlone ==
  ASSUME [Next]_vars
  PROVE  \/ UNCHANGED <<claims, holds>>
         \/ \E s \in Sessions : ClaimRead(s) \/ ClaimPost(s) \/ ClaimCheck(s) \/ ClaimRetract(s) \/ ReleaseList(s)
<1>1. ASSUME NEW s \in Sessions, Intake(s)
      PROVE  UNCHANGED <<claims, holds>>
  BY <1>1 DEF Intake, File, SplitCheck, SplitCreate, Triage, AddLabels, RemoveQueueLabel, EnrichRead,
              ReplaceBody, KillRead, KillFold, Close, Graduate, board
<1>2. ASSUME NEW s \in Sessions, Executing(s) \/ Planner(s) \/ Healing(s) \/ Stop(s)
      PROVE  UNCHANGED <<claims, holds>>
  BY <1>2 DEF Executing, NextList, NextProbe, OpenPrCheck, OpenPullRequest, Planner, ChildList,
              ChildCreate, LinkSubIssue, WriteRead, Healing, ScanList, ScanSnapshot, CreateHealItem,
              Stop, board
<1>3. CASE PrChanges \/ UNCHANGED vars
  BY <1>3 DEF PrChanges, vars
<1>4. QED
  BY <1>1, <1>2, <1>3 DEF Next, Claiming

LEMMA BoardStep ==
  ASSUME TypeOK, JobsKnow, [Next]_vars
  PROVE  /\ claims' \in [Numbers -> Seq(Sessions)]
         /\ holds' \in [Sessions -> SUBSET (Filed')]
<1>1. Filed \subseteq Filed' /\ Filed \subseteq Numbers
  BY IssuesStep, FiledNumbers DEF Grows, Filed
<1>2. claims \in [Numbers -> Seq(Sessions)] /\ holds \in [Sessions -> SUBSET Filed]
  BY DEF TypeOK
<1>3. ASSUME NEW s \in Sessions, job[s].pc \in {"claim.post", "claim.check", "claim.retract", "release.delete"}
      PROVE  job[s].issue \in Filed
  BY <1>3 DEF JobsKnow, JobKnows, Filed, None, TypeOK, Numbers
<1>4. ASSUME NEW s \in Sessions, ClaimRead(s) \/ ClaimCheck(s) \/ ReleaseList(s)
      PROVE  claims' = claims /\ holds' \in [Sessions -> SUBSET Filed]
  <2>1. CASE ClaimRead(s)
    BY <1>2, <2>1 DEF ClaimRead, board
  <2>2. CASE ClaimCheck(s)
    BY <1>2, <1>3, <2>2 DEF ClaimCheck, board
  <2>3. CASE ReleaseList(s)
    BY <1>2, <2>3 DEF ReleaseList, board
  <2>4. QED
    BY <1>4, <2>1, <2>2, <2>3
<1>5. ASSUME NEW s \in Sessions, ClaimPost(s)
      PROVE  claims' \in [Numbers -> Seq(Sessions)] /\ holds' = holds
  BY <1>1, <1>2, <1>3, <1>5 DEF ClaimPost
<1>6. ASSUME NEW s \in Sessions, ClaimRetract(s)
      PROVE  claims' \in [Numbers -> Seq(Sessions)] /\ holds' = holds
  <2>1. claims' = claims
        \/ \E k \in OwnClaims(job[s].issue, s) :
             claims' = [claims EXCEPT ![job[s].issue] = RemoveAt(claims[job[s].issue], k)]
    BY <1>6 DEF ClaimRetract
  <2>2. job[s].issue \in Numbers /\ OwnClaims(job[s].issue, s) \subseteq 1..Len(claims[job[s].issue])
    BY <1>1, <1>2, <1>3, <1>6 DEF ClaimRetract, OwnClaims
  <2>3. \A k \in OwnClaims(job[s].issue, s) : RemoveAt(claims[job[s].issue], k) \in Seq(Sessions)
    BY <1>2, <2>2, RemoveAtKeeps
  <2>4. claims' \in [Numbers -> Seq(Sessions)]
    BY <1>2, <2>1, <2>2, <2>3
  <2>5. QED
    BY <1>6, <2>4 DEF ClaimRetract
<1>7. QED
  BY <1>1, <1>2, <1>4, <1>5, <1>6, ClaimsAlone

LEMMA OverlapStep ==
  ASSUME [Next]_vars
  PROVE  UNCHANGED overlap \/ \E s \in Sessions : ScanList(s)
BY DEF Next, vars, board, Intake, File, SplitCheck, SplitCreate, Triage, AddLabels, RemoveQueueLabel,
       EnrichRead, ReplaceBody, KillRead, KillFold, Close, Graduate, Claiming, ClaimRead, ClaimPost,
       ClaimCheck, ClaimRetract, ReleaseList, Executing, NextList, NextProbe, OpenPrCheck,
       OpenPullRequest, Planner, ChildList, ChildCreate, LinkSubIssue, WriteRead, Healing,
       ScanSnapshot, CreateHealItem, Stop, PrChanges

LEMMA RestStep ==
  ASSUME TypeOK, JobsKnow, [Next]_vars
  PROVE  /\ children' \subseteq Filed'
         /\ opened' \subseteq [issue : Filed', by : Sessions]
         /\ picked' \in [Sessions -> Filed' \cup {None}]
         /\ overlap' \in BOOLEAN /\ jobs' \in 0..MaxJobs
<1>1. Filed \subseteq Filed'
  BY IssuesStep, FiledNumbers DEF Grows, Filed
<1>2. ASSUME NEW s \in Sessions, job[s].pc \in {"pr.open", "child.link"}
      PROVE  job[s].issue \in Filed
  BY <1>2 DEF JobsKnow, JobKnows, Filed, None, TypeOK, Numbers
<1>3. \/ UNCHANGED children
      \/ \E s \in Sessions : job[s].pc = "child.link" /\ children' = children \cup {job[s].issue}
  BY DEF Next, vars, board, Intake, File, SplitCheck, SplitCreate, Triage, AddLabels, RemoveQueueLabel,
         EnrichRead, ReplaceBody, KillRead, KillFold, Close, Graduate, Claiming, ClaimRead, ClaimPost,
         ClaimCheck, ClaimRetract, ReleaseList, Executing, NextList, NextProbe, OpenPrCheck,
         OpenPullRequest, Planner, ChildList, ChildCreate, LinkSubIssue, WriteRead, Healing, ScanList,
         ScanSnapshot, CreateHealItem, Stop, PrChanges
<1>4. \/ UNCHANGED opened
      \/ \E s \in Sessions : /\ job[s].pc = "pr.open"
                             /\ opened' = opened \cup {[issue |-> job[s].issue, by |-> s]}
  BY DEF Next, vars, board, Intake, File, SplitCheck, SplitCreate, Triage, AddLabels, RemoveQueueLabel,
         EnrichRead, ReplaceBody, KillRead, KillFold, Close, Graduate, Claiming, ClaimRead, ClaimPost,
         ClaimCheck, ClaimRetract, ReleaseList, Executing, NextList, NextProbe, OpenPrCheck,
         OpenPullRequest, Planner, ChildList, ChildCreate, LinkSubIssue, WriteRead, Healing, ScanList,
         ScanSnapshot, CreateHealItem, Stop, PrChanges
<1>5. \/ UNCHANGED picked
      \/ \E s \in Sessions : NextProbe(s)
  BY DEF Next, vars, board, Intake, File, SplitCheck, SplitCreate, Triage, AddLabels, RemoveQueueLabel,
         EnrichRead, ReplaceBody, KillRead, KillFold, Close, Graduate, Claiming, ClaimRead, ClaimPost,
         ClaimCheck, ClaimRetract, ReleaseList, Executing, NextList, OpenPrCheck,
         OpenPullRequest, Planner, ChildList, ChildCreate, LinkSubIssue, WriteRead, Healing, ScanList,
         ScanSnapshot, CreateHealItem, Stop, PrChanges
<1>6. UNCHANGED overlap \/ \E s \in Sessions : ScanList(s)
  BY OverlapStep
<1> DEFINE Spent == jobs > 0 /\ jobs' = jobs - 1
<1>7. UNCHANGED jobs \/ Spent
  <2>1. ASSUME NEW s \in Sessions, Intake(s) \/ Claiming(s)
        PROVE  UNCHANGED jobs \/ Spent
    BY <2>1 DEF Intake, File, SplitCheck, SplitCreate, Triage, AddLabels, RemoveQueueLabel, EnrichRead,
                ReplaceBody, KillRead, KillFold, Close, Graduate, Claiming, ClaimRead, ClaimPost,
                ClaimCheck, ClaimRetract, ReleaseList, Starts
  <2>2. ASSUME NEW s \in Sessions, Executing(s) \/ Planner(s) \/ Healing(s) \/ Stop(s)
        PROVE  UNCHANGED jobs \/ Spent
    BY <2>2 DEF Executing, NextList, NextProbe, OpenPrCheck, OpenPullRequest, Planner, ChildList,
                ChildCreate, LinkSubIssue, WriteRead, Healing, ScanList, ScanSnapshot, CreateHealItem,
                Stop, Starts
  <2>3. CASE PrChanges \/ UNCHANGED vars
    BY <2>3 DEF PrChanges, vars
  <2> HIDE DEF Spent
  <2>4. QED
    BY <2>1, <2>2, <2>3 DEF Next
<1>8. children' \subseteq Filed' /\ opened' \subseteq [issue : Filed', by : Sessions]
  BY <1>1, <1>2, <1>3, <1>4 DEF TypeOK
<1>9. picked' \in [Sessions -> Filed' \cup {None}]
  <2>1. ASSUME NEW s \in Sessions, NextProbe(s)
        PROVE  picked' \in [Sessions -> Filed \cup {None}]
    <3>1. \A r \in job[s].rows : r.issue \in Filed
      BY <2>1, FiledNumbers DEF NextProbe, JobsKnow, JobKnows
    <3>2. picked' = picked \/ \E i \in Filed \cup {None} : picked' = [picked EXCEPT ![s] = i]
      BY <2>1, <3>1 DEF NextProbe
    <3>3. QED
      BY <3>2 DEF TypeOK
  <2>2. QED
    BY <1>1, <1>5, <2>1 DEF TypeOK
<1>10. overlap' \in BOOLEAN
  <2>1. ASSUME NEW s \in Sessions, ScanList(s)
        PROVE  overlap' \in BOOLEAN
    BY <2>1 DEF ScanList
  <2>2. QED
    BY <1>6, <2>1 DEF TypeOK
<1>11. jobs' \in 0..MaxJobs
  BY <1>7, Constants DEF TypeOK
<1>12. QED
  BY <1>8, <1>9, <1>10, <1>11

-----------------------------------------------------------------------------
LEMMA TypeInit == Init => TypeOK /\ JobsKnow /\ HoldersWin /\ ClaimantsDoNotHold
<1> SUFFICES ASSUME Init
             PROVE  TypeOK /\ JobsKnow /\ HoldersWin /\ ClaimantsDoNotHold
  OBVIOUS
<1>1. PICK u \in Units : issues = <<Issue("human", {"needs-triage"}, u)>>
  BY DEF Init
<1> DEFINE first == Issue("human", {"needs-triage"}, u)
<1>2. first \in IssueType
  BY FreshTyped DEF Audiences, Stages
<1> HIDE DEF first
<1>3. issues \in Seq(IssueType) /\ Len(issues) = 1 /\ Len(issues) \in Numbers
  BY <1>1, <1>2, Constants DEF first, Numbers
<1>4. job \in [Sessions -> JobType] /\ \A s \in Sessions : job[s] = Idle
  BY IdleTyped DEF Init
<1>5. JobsKnow
  BY <1>3, <1>4, IdleTyped DEF JobsKnow
<1>6. \A s \in Sessions : job[s].issue = None /\ job[s].dup = None /\ job[s].pc = "idle"
  BY <1>4 DEF Idle
<1>7. /\ claims \in [Numbers -> Seq(Sessions)] /\ children \subseteq Filed
      /\ opened \subseteq [issue : Filed, by : Sessions] /\ holds \in [Sessions -> SUBSET Filed]
      /\ picked \in [Sessions -> Filed \cup {None}] /\ overlap \in BOOLEAN /\ jobs \in 0..MaxJobs
  <2>1. claims \in [Numbers -> Seq(Sessions)]
    BY DEF Init
  <2>2. children = {} /\ opened = {} /\ jobs = MaxJobs
    BY DEF Init
  <2>3. holds = [s \in Sessions |-> {}] /\ picked = [s \in Sessions |-> None]
    BY DEF Init
  <2>4. overlap \in BOOLEAN
    BY Zenon DEF Init
  <2>5. holds \in [Sessions -> SUBSET Filed] /\ picked \in [Sessions -> Filed \cup {None}]
    BY <2>3
  <2>6. jobs \in 0..MaxJobs
    BY <2>2, Constants
  <2>7. QED
    BY <2>1, <2>2, <2>4, <2>5, <2>6
<1>8. TypeOK
  BY <1>3, <1>4, <1>6, <1>7 DEF TypeOK
<1>9. HoldersWin /\ ClaimantsDoNotHold
  BY DEF Init, HoldersWin, ClaimantsDoNotHold
<1>10. QED
  BY <1>5, <1>8, <1>9

LEMMA TypeStep ==
  ASSUME TypeOK, JobsKnow, [Next]_vars
  PROVE  TypeOK' /\ JobsKnow'
<1>1. \A s \in Sessions : job'[s].issue \in (Filed' \cup {None}) /\ job'[s].dup \in (Filed' \cup {None})
  BY IssuesStep, JobsStep DEF JobsKnow, JobKnows, Filed, None, Grows, Numbers
<1>2. QED
  BY <1>1, IssuesStep, JobsStep, BoardStep, RestStep DEF TypeOK, Grows

(* Whatever the sessions do, and wherever they stop, what a job, a claim,  *)
(* a pull request or an epic names is an issue that was filed.             *)
THEOREM TypeCorrect == Spec => []TypeOK
<1> DEFINE Inv == TypeOK /\ JobsKnow
<1>1. Init => Inv
  BY TypeInit
<1>2. Inv /\ [Next]_vars => Inv'
  BY TypeStep
<1>3. Inv => TypeOK
  OBVIOUS
<1> HIDE DEF Inv
<1>4. QED
  BY <1>1, <1>2, <1>3, PTL DEF Spec

-----------------------------------------------------------------------------
(* Where the verbs go that the invariants say nothing about. *)
Elsewhere == {"idle", "split.create", "labels.add", "labels.remove", "next.probe", "pr.open",
              "child.create", "child.link"}

(* A step moves one session's job at most. *)
LEMMA OneMoves ==
  ASSUME TypeOK, [Next]_vars
  PROVE  \/ UNCHANGED job
         \/ \E s \in Sessions :
              /\ Intake(s) \/ Claiming(s) \/ Executing(s) \/ Planner(s) \/ Healing(s) \/ Stop(s)
              /\ \A t \in Sessions \ {s} : job'[t] = job[t]
<1>1. job = [t \in Sessions |-> job[t]]
  BY DEF TypeOK
<1>2. ASSUME NEW s \in Sessions, Intake(s) \/ Claiming(s)
      PROVE  \A t \in Sessions \ {s} : job'[t] = job[t]
  BY <1>1, <1>2 DEF Intake, File, SplitCheck, SplitCreate, Triage, AddLabels, RemoveQueueLabel, EnrichRead,
              ReplaceBody, KillRead, KillFold, Close, Graduate, Claiming, ClaimRead, ClaimPost,
              ClaimCheck, ClaimRetract, ReleaseList, Starts, Goes, Ends
<1>3. ASSUME NEW s \in Sessions, Executing(s) \/ Planner(s) \/ Healing(s) \/ Stop(s)
      PROVE  \A t \in Sessions \ {s} : job'[t] = job[t]
  BY <1>1, <1>3 DEF Executing, NextList, NextProbe, OpenPrCheck, OpenPullRequest, Planner, ChildList,
              ChildCreate, LinkSubIssue, WriteRead, Healing, ScanList, ScanSnapshot, CreateHealItem,
              Stop, Starts, Goes, Ends
<1>4. CASE PrChanges \/ UNCHANGED vars
  BY <1>4 DEF PrChanges, vars
<1>5. QED
  BY <1>2, <1>3, <1>4 DEF Next

LEMMA WhoMoves ==
  ASSUME TypeOK, [Next]_vars, NEW t \in Sessions
  PROVE  \/ job'[t] = job[t] \/ job'[t].pc \in Elsewhere
         \/ ClaimRead(t) \/ ClaimPost(t) \/ ClaimCheck(t) \/ ReleaseList(t)
         \/ EnrichRead(t) \/ WriteRead(t) \/ KillRead(t) \/ KillFold(t) \/ Graduate(t)
         \/ ScanList(t) \/ ScanSnapshot(t) \/ CreateHealItem(t)
<1>1. job = [s \in Sessions |-> job[s]] /\ job[t] \in JobType
  BY DEF TypeOK
<1>2. ASSUME SplitCheck(t) \/ Triage(t) \/ NextList(t) \/ OpenPrCheck(t) \/ ChildList(t)
      PROVE  job'[t].pc \in Elsewhere
  <2>1. ASSUME NEW j, Starts(t, j), j.pc \in Elsewhere
        PROVE  job'[t].pc \in Elsewhere
    BY <1>1, <2>1 DEF Starts
  <2>2. CASE SplitCheck(t)
    BY <2>1, <2>2 DEF SplitCheck, Idle, Elsewhere
  <2>3. CASE Triage(t)
    BY <2>1, <2>3 DEF Triage, Idle, Elsewhere
  <2>4. CASE NextList(t) \/ OpenPrCheck(t)
    BY <2>1, <2>4 DEF NextList, OpenPrCheck, Idle, Elsewhere
  <2>5. CASE ChildList(t)
    BY <2>1, <2>5 DEF ChildList, Idle, Elsewhere
  <2>6. QED
    BY <1>2, <2>2, <2>3, <2>4, <2>5
<1>3. ASSUME Ends(t)
      PROVE  job'[t].pc \in Elsewhere
  BY <1>1, <1>3 DEF Ends, Idle, Elsewhere
<1>4. ASSUME AddLabels(t) \/ RemoveQueueLabel(t) \/ ChildCreate(t) \/ NextProbe(t)
      PROVE  job'[t].pc \in Elsewhere
  BY <1>1, <1>3, <1>4 DEF AddLabels, RemoveQueueLabel, ChildCreate, NextProbe, Goes, Elsewhere, JobType
<1>5. ASSUME SplitCreate(t) \/ ReplaceBody(t) \/ Close(t) \/ ClaimRetract(t) \/ OpenPullRequest(t)
               \/ LinkSubIssue(t) \/ Stop(t)
      PROVE  job'[t].pc \in Elsewhere
  BY <1>3, <1>5 DEF SplitCreate, ReplaceBody, Close, ClaimRetract, OpenPullRequest, LinkSubIssue, Stop
<1>6. ASSUME File(t)
      PROVE  job'[t] = job[t]
  BY <1>6 DEF File
<1>7. QED
  BY <1>2, <1>4, <1>5, <1>6, OneMoves DEF Intake, Claiming, Executing, Planner, Healing

LEMMA Destinations ==
  ASSUME TypeOK, JobsKnow, NEW t \in Sessions
  PROVE  /\ ClaimRead(t) => job'[t].pc \in {"claim.post", "idle"}
         /\ ClaimPost(t) => job'[t].pc = "claim.check"
         /\ ClaimCheck(t) => job'[t].pc \in {"idle", "claim.retract"}
         /\ ReleaseList(t) => job'[t].pc = "release.delete"
         /\ EnrichRead(t) => job'[t].pc = "enrich.write"
         /\ WriteRead(t) => job'[t].pc = "plan.write"
         /\ KillRead(t) => job'[t].pc \in {"kill.fold", "kill.close"}
         /\ KillFold(t) => job'[t].pc = "kill.close"
         /\ Graduate(t) => job'[t].pc = "graduate.close"
         /\ ScanList(t) => job'[t].pc = "scan.snapshot"
         /\ ScanSnapshot(t) => job'[t].pc = "scan.file"
         /\ CreateHealItem(t) => job'[t].pc \in {"idle", "scan.file"}
<1>1. job = [s \in Sessions |-> job[s]] /\ job[t] \in JobType
  BY DEF TypeOK
<1>2. ASSUME NEW j, Starts(t, j)
      PROVE  job'[t] = j
  BY <1>1, <1>2 DEF Starts
<1>3. Ends(t) => job'[t].pc = "idle"
  BY <1>1 DEF Ends, Idle
<1>4. ASSUME NEW pc, Goes(t, pc)
      PROVE  job'[t].pc = pc
  BY <1>1, <1>4 DEF Goes, JobType
<1>5. ClaimRead(t) => job'[t].pc \in {"claim.post", "idle"}
  BY <1>2 DEF ClaimRead, Idle
<1>6. ReleaseList(t) => job'[t].pc = "release.delete"
  BY <1>2 DEF ReleaseList, Idle
<1>7. /\ EnrichRead(t) => job'[t].pc = "enrich.write"
      /\ WriteRead(t) => job'[t].pc = "plan.write"
  BY <1>2 DEF EnrichRead, WriteRead, Idle
<1>8. /\ KillRead(t) => job'[t].pc \in {"kill.fold", "kill.close"}
      /\ Graduate(t) => job'[t].pc = "graduate.close"
  BY <1>2 DEF KillRead, Graduate, Idle
<1>9. ScanList(t) => job'[t].pc = "scan.snapshot"
  BY <1>2 DEF ScanList, Idle
<1>10. /\ ClaimPost(t) => job'[t].pc = "claim.check"
       /\ ClaimCheck(t) => job'[t].pc \in {"idle", "claim.retract"}
       /\ KillFold(t) => job'[t].pc = "kill.close"
  BY <1>3, <1>4 DEF ClaimPost, ClaimCheck, KillFold
<1>11. /\ ScanSnapshot(t) => job'[t].pc = "scan.file"
       /\ CreateHealItem(t) => job'[t].pc \in {"idle", "scan.file"}
  BY <1>1, <1>3 DEF ScanSnapshot, CreateHealItem, JobType
<1>12. QED
  BY <1>5, <1>6, <1>7, <1>8, <1>9, <1>10, <1>11

-----------------------------------------------------------------------------
(* One holder: the oldest claim decides, and only its poster takes it away. *)
InClaim == {"claim.post", "claim.check", "claim.retract", "release.delete"}

LEMMA WinnerFirst ==
  ASSUME TypeOK, NEW i \in Numbers
  PROVE  /\ claims[i] \in Seq(Sessions)
         /\ Winner(i) = {} <=> claims[i] = <<>>
         /\ \A s \in Sessions : Winner(i) = {s} => claims[i] # <<>> /\ claims[i][1] = s
<1>1. claims[i] \in Seq(Sessions)
  BY DEF TypeOK
<1>2. CASE claims[i] = <<>>
  BY <1>1, <1>2 DEF Winner
<1>3. CASE claims[i] # <<>>
  <2>1. Winner(i) = {claims[i][1]}
    BY <1>1, <1>3 DEF Winner
  <2>2. QED
    BY <1>1, <1>3, <2>1
<1>4. QED
  BY <1>1, <1>2, <1>3

LEMMA HoldersStep ==
  ASSUME TypeOK, JobsKnow, HoldersWin, ClaimantsDoNotHold, [Next]_vars
  PROVE  HoldersWin'
<1> USE DEF HoldersWin
<1>1. /\ claims \in [Numbers -> Seq(Sessions)] /\ holds \in [Sessions -> SUBSET Filed]
      /\ Filed \subseteq Numbers
  BY FiledNumbers DEF TypeOK
<1>2. ASSUME NEW s \in Sessions, job[s].pc \in InClaim
      PROVE  job[s].issue \in Numbers /\ job[s].issue \notin holds[s]
  BY <1>2, FiledNumbers DEF JobsKnow, JobKnows, None, InClaim, ClaimantsDoNotHold
<1>3. CASE UNCHANGED <<claims, holds>>
  BY <1>3
<1>4. ASSUME NEW s \in Sessions, ClaimRead(s)
      PROVE  HoldersWin'
  <2>1. PICK i \in Filed : holds' = [holds EXCEPT ![s] = IF Winner(i) = {s} THEN holds[s] \cup {i} ELSE holds[s]]
    BY <1>4 DEF ClaimRead
  <2>2. claims' = claims
    BY <1>4 DEF ClaimRead, board
  <2>3. QED
    BY <1>1, <2>1, <2>2, WinnerFirst
<1>5. ASSUME NEW s \in Sessions, ClaimPost(s)
      PROVE  HoldersWin'
  <2> DEFINE i == job[s].issue
  <2>1. i \in Numbers /\ claims' = [claims EXCEPT ![i] = Append(claims[i], s)] /\ holds' = holds
    BY <1>2, <1>5 DEF ClaimPost, InClaim
  <2>2. ASSUME NEW c \in Seq(Sessions), c # <<>>
        PROVE  Append(c, s) # <<>> /\ Append(c, s)[1] = c[1]
    BY <2>2
  <2> HIDE DEF i
  <2>3. QED
    BY <1>1, <2>1, <2>2
<1>6. ASSUME NEW s \in Sessions, ClaimCheck(s)
      PROVE  HoldersWin'
  <2> DEFINE i == job[s].issue
  <2>1. /\ i \in Numbers /\ claims' = claims
        /\ \/ holds' = holds
           \/ Winner(i) = {s} /\ holds' = [holds EXCEPT ![s] = holds[s] \cup {i}]
    BY <1>2, <1>6 DEF ClaimCheck, InClaim, board
  <2> HIDE DEF i
  <2>2. QED
    BY <1>1, <2>1, WinnerFirst
<1>7. ASSUME NEW s \in Sessions, ClaimRetract(s)
      PROVE  HoldersWin'
  <2> DEFINE i == job[s].issue
  <2>1. i \in Numbers /\ i \notin holds[s] /\ holds' = holds
    BY <1>2, <1>7 DEF ClaimRetract, InClaim
  <2>2. CASE claims' = claims
    BY <2>1, <2>2
  <2>3. CASE claims' # claims
    <3>1. PICK k \in OwnClaims(i, s) : claims' = [claims EXCEPT ![i] = RemoveAt(claims[i], k)]
      BY <1>7, <2>3 DEF ClaimRetract
    <3>2. k \in 1..Len(claims[i]) /\ claims[i][k] = s
      BY <1>1, <2>1 DEF OwnClaims
    <3> HIDE DEF i
    <3>3. k # 1 => RemoveAt(claims[i], k) # <<>> /\ RemoveAt(claims[i], k)[1] = claims[i][1]
      BY <1>1, <2>1, <3>2, RemoveAtKeeps
    <3>4. ASSUME NEW t \in Sessions, i \in holds[t]
          PROVE  k # 1
      BY <2>1, <3>2, <3>4
    <3>5. QED
      BY <1>1, <2>1, <3>1, <3>3, <3>4
  <2>4. QED
    BY <2>2, <2>3
<1>8. ASSUME NEW s \in Sessions, ReleaseList(s)
      PROVE  HoldersWin'
  BY <1>1, <1>8 DEF ReleaseList, board
<1>9. QED
  BY <1>3, <1>4, <1>5, <1>6, <1>7, <1>8, ClaimsAlone

LEMMA ClaimantsStep ==
  ASSUME TypeOK, JobsKnow, HoldersWin, ClaimantsDoNotHold, [Next]_vars
  PROVE  ClaimantsDoNotHold'
<1> SUFFICES ASSUME NEW t \in Sessions, job'[t].pc \in InClaim
             PROVE  job'[t].issue \notin holds'[t]
  BY DEF ClaimantsDoNotHold, InClaim
<1>1. job = [s \in Sessions |-> job[s]] /\ job[t] \in JobType /\ holds \in [Sessions -> SUBSET Filed]
  BY DEF TypeOK
<1>2. CASE ClaimRead(t)
  <2>1. PICK i \in Filed :
          /\ job' = [job EXCEPT ![t] = [Idle EXCEPT !.cmd = "claim", !.issue = i,
                                          !.pc = IF Winner(i) = {} THEN "claim.post" ELSE "idle"]]
          /\ holds' = [holds EXCEPT ![t] = IF Winner(i) = {t} THEN @ \cup {i} ELSE @]
    BY <1>2 DEF ClaimRead, Starts
  <2>2. Winner(i) = {} /\ job'[t].issue = i
    BY <1>1, <2>1 DEF Idle, InClaim
  <2>3. holds' = holds
    BY <1>1, <2>1, <2>2
  <2>4. QED
    BY <2>2, <2>3, WinnerFirst, FiledNumbers DEF HoldersWin
<1>3. CASE ClaimPost(t)
  BY <1>1, <1>3 DEF ClaimPost, Goes, ClaimantsDoNotHold, JobType
<1>4. CASE ClaimCheck(t)
  <2>1. job' # [job EXCEPT ![t] = Idle]
    BY <1>1 DEF Idle, InClaim
  <2>2. QED
    BY <1>1, <1>4, <2>1 DEF ClaimCheck, Goes, Ends, ClaimantsDoNotHold, JobType
<1>5. CASE ReleaseList(t)
  <2>1. PICK i \in Filed :
          /\ job' = [job EXCEPT ![t] = [Idle EXCEPT !.cmd = "release", !.pc = "release.delete", !.issue = i]]
          /\ holds' = [holds EXCEPT ![t] = @ \ {i}]
    BY <1>5 DEF ReleaseList, Starts
  <2>2. job'[t].issue = i
    BY <1>1, <2>1 DEF Idle
  <2>3. QED
    BY <1>1, <2>1, <2>2
<1>6. CASE job'[t] = job[t] /\ ~ClaimRead(t) /\ ~ClaimCheck(t)
  <2>1. holds'[t] \subseteq holds[t]
    <3>1. ASSUME NEW s \in Sessions, s # t, ClaimRead(s) \/ ClaimCheck(s) \/ ReleaseList(s)
          PROVE  holds'[t] = holds[t]
      BY <1>1, <3>1 DEF ClaimRead, ClaimCheck, ReleaseList
    <3>2. ASSUME ReleaseList(t)
          PROVE  holds'[t] \subseteq holds[t]
      BY <1>1, <3>2 DEF ReleaseList
    <3>3. ASSUME NEW s \in Sessions, ClaimPost(s) \/ ClaimRetract(s)
          PROVE  holds' = holds
      BY <3>3 DEF ClaimPost, ClaimRetract
    <3>4. QED
      BY <1>6, <3>1, <3>2, <3>3, ClaimsAlone
  <2>2. QED
    BY <1>6, <2>1 DEF ClaimantsDoNotHold, InClaim
<1>7. CASE \/ EnrichRead(t) \/ WriteRead(t) \/ KillRead(t) \/ KillFold(t) \/ Graduate(t)
           \/ ScanList(t) \/ ScanSnapshot(t) \/ CreateHealItem(t)
  BY <1>7, Destinations DEF InClaim
<1>8. CASE job'[t].pc \in Elsewhere
  BY <1>8 DEF Elsewhere, InClaim
<1>9. QED
  BY <1>2, <1>3, <1>4, <1>5, <1>6, <1>7, <1>8, WhoMoves

(* However many sessions claim, retract, release or stop half-way, two of  *)
(* them never both believe they hold an issue.                             *)
THEOREM OneSessionHolds == Spec => []OneHolder
<1> DEFINE Inv == TypeOK /\ JobsKnow /\ HoldersWin /\ ClaimantsDoNotHold
<1>1. Init => Inv
  BY TypeInit
<1>2. Inv /\ [Next]_vars => Inv'
  BY TypeStep, HoldersStep, ClaimantsStep
<1>3. Inv => OneHolder
  BY DEF HoldersWin, OneHolder
<1> HIDE DEF Inv
<1>4. QED
  BY <1>1, <1>2, <1>3, PTL DEF Spec

-----------------------------------------------------------------------------
(* What an edit leaves alone. *)
Only(e, rec) ==
  e.by = rec.by /\ e.folded = rec.folded /\ e.heals = rec.heals /\ (e.open => rec.open)
SameFate(e, rec) == e.reason = rec.reason /\ e.duplicateOf = rec.duplicateOf

LEMMA EditFields ==
  ASSUME NEW rec \in IssueType, NEW j \in JobType
  PROVE  /\ Only(LabelsAdded(rec, j), rec) /\ SameFate(LabelsAdded(rec, j), rec)
         /\ LabelsAdded(rec, j).wraps = rec.wraps
         /\ Only(QueueLabelRemoved(rec), rec) /\ SameFate(QueueLabelRemoved(rec), rec)
         /\ QueueLabelRemoved(rec).wraps = rec.wraps
         /\ Only(ComposeEnriched(rec, j), rec) /\ SameFate(ComposeEnriched(rec, j), rec)
         /\ ComposeEnriched(rec, j).wraps = j.wraps + 1
         /\ Only(ComposePlan(rec, j), rec) /\ SameFate(ComposePlan(rec, j), rec)
         /\ ComposePlan(rec, j).wraps = j.wraps
         /\ Only(Closed(rec, j), rec) /\ Closed(rec, j).wraps = rec.wraps
         /\ j.cmd = "kill" => Closed(rec, j).duplicateOf = j.dup
         /\ j.cmd # "kill" => /\ Closed(rec, j).duplicateOf = rec.duplicateOf
                              /\ Closed(rec, j).reason = "completed"
<1>1. /\ Only(LabelsAdded(rec, j), rec) /\ SameFate(LabelsAdded(rec, j), rec)
      /\ LabelsAdded(rec, j).wraps = rec.wraps
  BY DEF LabelsAdded, IssueType, Only, SameFate
<1>2. /\ Only(QueueLabelRemoved(rec), rec) /\ SameFate(QueueLabelRemoved(rec), rec)
      /\ QueueLabelRemoved(rec).wraps = rec.wraps
  BY DEF QueueLabelRemoved, IssueType, Only, SameFate
<1>3. /\ Only(ComposeEnriched(rec, j), rec) /\ SameFate(ComposeEnriched(rec, j), rec)
      /\ ComposeEnriched(rec, j).wraps = j.wraps + 1
  BY DEF ComposeEnriched, IssueType, Only, SameFate
<1>4. /\ Only(ComposePlan(rec, j), rec) /\ SameFate(ComposePlan(rec, j), rec)
      /\ ComposePlan(rec, j).wraps = j.wraps
  BY DEF ComposePlan, IssueType, Only, SameFate
<1>5. /\ Only(Closed(rec, j), rec) /\ Closed(rec, j).wraps = rec.wraps
      /\ j.cmd = "kill" => Closed(rec, j).duplicateOf = j.dup
      /\ j.cmd # "kill" => /\ Closed(rec, j).duplicateOf = rec.duplicateOf
                           /\ Closed(rec, j).reason = "completed"
  BY DEF Closed, IssueType, Only
<1>6. QED
  BY <1>1, <1>2, <1>3, <1>4, <1>5

LEMMA FoldFields ==
  ASSUME NEW rec \in IssueType, NEW i \in Numbers
  PROVE  LET e == Folded(rec, i)
         IN  /\ e.by = rec.by /\ e.heals = rec.heals /\ e.folded = rec.folded \cup {i}
             /\ e.open = rec.open /\ e.wraps = rec.wraps /\ SameFate(e, rec)
BY DEF Folded, IssueType, SameFate

(* An issue as it is filed. *)
NewIssue(rec) ==
  /\ rec.wraps = 0 /\ rec.reason = "none" /\ rec.duplicateOf = None /\ rec.folded = {} /\ rec.open = TRUE

LEMMA NewFields ==
  ASSUME NEW stages \in SUBSET Stages, NEW unit \in Units, NEW j \in JobType
  PROVE  /\ \A e \in {Issue("agent", stages, unit), SplitChild(j), EpicChild(j)} : NewIssue(e) /\ e.heals = {}
BY DEF NewIssue, Issue, SplitChild, EpicChild

LEMMA HealFields ==
  ASSUME NEW p \in Prs
  PROVE  NewIssue(HealItem(p)) /\ HealItem(p).heals = {p}
BY DEF NewIssue, Issue, HealItem

Edits(s) == AddLabels(s) \/ RemoveQueueLabel(s) \/ ReplaceBody(s) \/ KillFold(s) \/ Close(s)

LEMMA IssueChange ==
  ASSUME TypeOK, JobsKnow, [Next]_vars
  PROVE  \/ UNCHANGED issues
         \/ \E rec \in IssueType : NewIssue(rec) /\ rec.heals = {} /\ issues' = Append(issues, rec)
         \/ \E s \in Sessions : /\ CreateHealItem(s)
                                /\ \E p \in job[s].rows : /\ issues' = Append(issues, HealItem(p))
                                                          /\ job' = [job EXCEPT ![s].rows = @ \ {p}]
                                                          /\ p \in Prs
         \/ \E s \in Sessions : Edits(s)
<1> DEFINE Files(rec) == NewIssue(rec) /\ rec.heals = {} /\ issues' = Append(issues, rec)
<1>1. ASSUME NEW s \in Sessions
      PROVE  job[s] \in JobType /\ (job[s].pc = "scan.file" => job[s].rows \subseteq Prs)
  BY DEF TypeOK, JobsKnow, JobKnows
<1>2. ASSUME NEW s \in Sessions, File(s)
      PROVE  \E rec \in IssueType : Files(rec)
  <2>1. PICK u \in Units : issues' = Append(issues, Issue("agent", {"needs-triage"}, u))
    BY <1>2 DEF File, CreateIssue
  <2> DEFINE rec == Issue("agent", {"needs-triage"}, u)
  <2>2. rec \in IssueType
    BY FreshTyped DEF Audiences, Stages
  <2>3. Files(rec)
    BY <1>1, <2>1, NewFields DEF Stages
  <2> HIDE DEF rec, Files
  <2>4. QED
    BY <2>2, <2>3
<1>3. ASSUME NEW s \in Sessions, SplitCreate(s) \/ ChildCreate(s)
      PROVE  \E rec \in IssueType : Files(rec)
  <2>1. /\ SplitChild(job[s]) \in IssueType /\ EpicChild(job[s]) \in IssueType
        /\ NewIssue(SplitChild(job[s])) /\ SplitChild(job[s]).heals = {}
        /\ NewIssue(EpicChild(job[s])) /\ EpicChild(job[s]).heals = {}
    BY <1>1, FiledTyped, NewFields, Constants
  <2>2. issues' = Append(issues, SplitChild(job[s])) \/ issues' = Append(issues, EpicChild(job[s]))
    BY <1>3 DEF SplitCreate, ChildCreate, CreateIssue
  <2>3. QED
    BY <2>1, <2>2
<1>4. ASSUME NEW s \in Sessions, CreateHealItem(s)
      PROVE  \/ UNCHANGED issues
             \/ \E p \in job[s].rows : /\ issues' = Append(issues, HealItem(p))
                                       /\ job' = [job EXCEPT ![s].rows = @ \ {p}]
                                       /\ p \in Prs
  BY <1>1, <1>4 DEF CreateHealItem, CreateIssue
<1>5. ASSUME NEW s \in Sessions,
             \/ SplitCheck(s) \/ Triage(s) \/ EnrichRead(s) \/ KillRead(s) \/ Graduate(s)
             \/ Claiming(s) \/ Executing(s) \/ ChildList(s) \/ LinkSubIssue(s) \/ WriteRead(s)
             \/ ScanList(s) \/ ScanSnapshot(s) \/ Stop(s)
      PROVE  UNCHANGED issues
  BY <1>5 DEF SplitCheck, Triage, EnrichRead, KillRead, Graduate, Claiming, ClaimRead, ClaimPost,
              ClaimCheck, ClaimRetract, ReleaseList, Executing, NextList, NextProbe, OpenPrCheck,
              OpenPullRequest, ChildList, LinkSubIssue, WriteRead, ScanList, ScanSnapshot, Stop, board
<1>6. CASE PrChanges \/ UNCHANGED vars
  BY <1>6 DEF PrChanges, vars
<1>7. QED
  BY <1>2, <1>3, <1>4, <1>5, <1>6 DEF Next, Intake, Planner, Healing, Edits

(* What an edit writes, and where. *)
LEMMA EditIsOne ==
  ASSUME TypeOK, JobsKnow, NEW s \in Sessions, Edits(s)
  PROVE  /\ job[s] \in JobType /\ job[s].issue \in Filed /\ job[s].issue \in Numbers
         /\ \/ UNCHANGED issues
            \/ issues' = [issues EXCEPT ![job[s].issue] = LabelsAdded(issues[job[s].issue], job[s])]
            \/ issues' = [issues EXCEPT ![job[s].issue] = QueueLabelRemoved(issues[job[s].issue])]
            \/ /\ ReplaceBody(s) /\ job[s].cmd = "enrich"
               /\ issues' = [issues EXCEPT ![job[s].issue] = ComposeEnriched(issues[job[s].issue], job[s])]
            \/ /\ ReplaceBody(s) /\ job[s].cmd # "enrich"
               /\ issues' = [issues EXCEPT ![job[s].issue] = ComposePlan(issues[job[s].issue], job[s])]
            \/ /\ KillFold(s) /\ job[s].dup \in Filed
               /\ issues' = [issues EXCEPT ![job[s].dup] = Folded(issues[job[s].dup], job[s].issue)]
            \/ /\ Close(s)
               /\ issues' = [issues EXCEPT ![job[s].issue] = Closed(issues[job[s].issue], job[s])]
<1>1. job[s].pc \notin {"idle", "next.probe", "scan.snapshot", "scan.file"}
  BY DEF Edits, AddLabels, RemoveQueueLabel, ReplaceBody, KillFold, Close
<1>2. job[s] \in JobType /\ job[s].issue \in Filed /\ job[s].issue \in Numbers
  BY <1>1, FiledNumbers DEF TypeOK, JobsKnow, JobKnows, None
<1>3. KillFold(s) => job[s].dup \in Filed
  BY FiledNumbers DEF KillFold, TypeOK, JobsKnow, JobKnows, None
<1>4. QED
  BY <1>2, <1>3 DEF Edits, AddLabels, RemoveQueueLabel, ReplaceBody, KillFold, Close

(* Who filed an issue and what it heals stay, what was folded into it is   *)
(* kept, and a closed issue is not opened again.                           *)
Kept(i) ==
  /\ issues'[i].by = issues[i].by /\ issues'[i].heals = issues[i].heals
  /\ issues[i].folded \subseteq issues'[i].folded
  /\ issues'[i].open => issues[i].open

LEMMA IssuesKept ==
  ASSUME TypeOK, JobsKnow, [Next]_vars
  PROVE  \A i \in Filed : i \in Filed' /\ Kept(i)
<1>1. issues \in Seq(IssueType)
  BY DEF TypeOK
<1>2. CASE UNCHANGED issues
  BY <1>2 DEF Kept, Filed
<1>3. ASSUME NEW rec, issues' = Append(issues, rec)
      PROVE  \A i \in Filed : i \in Filed' /\ Kept(i)
  <2>1. \A i \in Filed : i \in Filed' /\ issues'[i] = issues[i]
    BY <1>1, <1>3 DEF Filed
  <2>2. QED
    BY <2>1 DEF Kept
<1>4. ASSUME NEW n \in Filed, NEW e, issues' = [issues EXCEPT ![n] = e],
             e.by = issues[n].by, e.heals = issues[n].heals, issues[n].folded \subseteq e.folded,
             e.open => issues[n].open
      PROVE  \A i \in Filed : i \in Filed' /\ Kept(i)
  BY <1>4 DEF Kept, Filed
<1>5. ASSUME NEW s \in Sessions, Edits(s), issues' # issues
      PROVE  \A i \in Filed : i \in Filed' /\ Kept(i)
  <2> DEFINE n == job[s].issue
  <2>1. issues[n] \in IssueType /\ (job[s].dup \in Filed => issues[job[s].dup] \in IssueType)
    BY <1>5, EditIsOne, FiledNumbers
  <2>2. n \in Filed /\ n \in Numbers /\ job[s] \in JobType
    BY <1>5, EditIsOne
  <2> DEFINE rec == issues[n]
  <2>3. ASSUME NEW e, Only(e, rec), issues' = [issues EXCEPT ![n] = e]
        PROVE  \A i \in Filed : i \in Filed' /\ Kept(i)
    <3> HIDE DEF n
    <3> QED
      BY <1>4, <2>2, <2>3 DEF Only
  <2>4. ASSUME job[s].dup \in Filed,
               issues' = [issues EXCEPT ![job[s].dup] = Folded(issues[job[s].dup], n)]
        PROVE  \A i \in Filed : i \in Filed' /\ Kept(i)
    <3> DEFINE e == Folded(issues[job[s].dup], n)
    <3>1. /\ e.by = issues[job[s].dup].by /\ e.heals = issues[job[s].dup].heals
          /\ issues[job[s].dup].folded \subseteq e.folded /\ (e.open => issues[job[s].dup].open)
      BY <2>1, <2>2, <2>4, FoldFields
    <3> HIDE DEF n, e
    <3>2. QED
      BY <1>4, <2>4, <3>1 DEF e
  <2>5. /\ Only(LabelsAdded(rec, job[s]), rec) /\ Only(QueueLabelRemoved(rec), rec)
         /\ Only(ComposeEnriched(rec, job[s]), rec) /\ Only(ComposePlan(rec, job[s]), rec)
         /\ Only(Closed(rec, job[s]), rec)
    BY <2>1, <2>2, EditFields
  <2>6. QED
    BY <1>5, <2>3, <2>4, <2>5, EditIsOne
<1>6. QED
  BY <1>2, <1>3, <1>5, IssueChange

-----------------------------------------------------------------------------
(* Preserved once: an enrichment composes from a text without a preserve   *)
(* block, and a plan from one with a block at most.                        *)
TextsRead ==
  \A s \in Sessions :
    /\ job[s].pc = "enrich.write" => job[s].cmd = "enrich" /\ job[s].wraps = 0
    /\ job[s].pc = "plan.write" => job[s].cmd = "write" /\ job[s].wraps <= 1

LEMMA TextsStep ==
  ASSUME TypeOK, JobsKnow, TextsRead, PreservedOnce, [Next]_vars
  PROVE  TextsRead'
<1> SUFFICES ASSUME NEW t \in Sessions
             PROVE  /\ job'[t].pc = "enrich.write" => job'[t].cmd = "enrich" /\ job'[t].wraps = 0
                    /\ job'[t].pc = "plan.write" => job'[t].cmd = "write" /\ job'[t].wraps <= 1
  BY DEF TextsRead
<1>1. job = [s \in Sessions |-> job[s]]
  BY DEF TypeOK
<1>2. ASSUME EnrichRead(t)
      PROVE  job'[t].pc = "enrich.write" /\ job'[t].cmd = "enrich" /\ job'[t].wraps = 0
  <2>1. PICK i \in Filed :
          /\ ~HasPreserveBlock(issues[i])
          /\ job' = [job EXCEPT ![t] = [Idle EXCEPT !.cmd = "enrich", !.pc = "enrich.write", !.issue = i,
                                 !.wraps = issues[i].wraps, !.planned = issues[i].planned]]
    BY <1>2 DEF EnrichRead, Starts
  <2>2. issues[i].wraps = 0
    <3>1. issues[i].wraps \in Nat
      BY FiledNumbers DEF IssueType
    <3>2. QED
      BY <2>1, <3>1 DEF HasPreserveBlock
  <2>3. QED
    BY <1>1, <2>1, <2>2 DEF Idle
<1>3. ASSUME WriteRead(t)
      PROVE  job'[t].pc = "plan.write" /\ job'[t].cmd = "write" /\ job'[t].wraps <= 1
  <2>1. issues[1].wraps <= 1
    BY FiledNumbers DEF PreservedOnce
  <2>2. QED
    BY <1>1, <1>3, <2>1 DEF WriteRead, Starts, Idle
<1>4. CASE job'[t] = job[t]
  BY <1>4 DEF TextsRead
<1>5. CASE job'[t].pc \in Elsewhere
  BY <1>5 DEF Elsewhere
<1>6. QED
  BY <1>2, <1>3, <1>4, <1>5, WhoMoves, Destinations

LEMMA PreservedStep ==
  ASSUME TypeOK, JobsKnow, TextsRead, PreservedOnce, [Next]_vars
  PROVE  PreservedOnce'
<1>1. issues \in Seq(IssueType)
  BY DEF TypeOK
<1>2. CASE UNCHANGED issues
  BY <1>2 DEF PreservedOnce, Filed
<1>3. ASSUME NEW rec, rec.wraps = 0, issues' = Append(issues, rec)
      PROVE  PreservedOnce'
  <2>1. \A i \in Filed' : issues'[i] = rec \/ (i \in Filed /\ issues'[i] = issues[i])
    BY <1>1, <1>3 DEF Filed
  <2>2. ASSUME NEW i \in Filed'
        PROVE  issues'[i].wraps <= 1
    <3>1. CASE issues'[i] = rec
      BY <1>3, <3>1
    <3>2. CASE i \in Filed /\ issues'[i] = issues[i]
      BY <3>2 DEF PreservedOnce
    <3>3. QED
      BY <2>1, <3>1, <3>2
  <2>3. QED
    BY <2>2 DEF PreservedOnce
<1>4. ASSUME NEW n \in Filed, NEW e, e.wraps <= 1, issues' = [issues EXCEPT ![n] = e]
      PROVE  PreservedOnce'
  BY <1>4 DEF PreservedOnce, Filed
<1>5. ASSUME NEW s \in Sessions, Edits(s), issues' # issues
      PROVE  PreservedOnce'
  <2> DEFINE n == job[s].issue
  <2> DEFINE rec == issues[n]
  <2>1. n \in Filed /\ n \in Numbers /\ job[s] \in JobType /\ rec \in IssueType /\ rec.wraps <= 1
    BY <1>5, EditIsOne, FiledNumbers DEF PreservedOnce
  <2>2. /\ LabelsAdded(rec, job[s]).wraps <= 1 /\ QueueLabelRemoved(rec).wraps <= 1
        /\ Closed(rec, job[s]).wraps <= 1
    BY <2>1, EditFields
  <2>3. ASSUME ReplaceBody(s)
        PROVE  /\ job[s].cmd = "enrich" => ComposeEnriched(rec, job[s]).wraps <= 1
               /\ job[s].cmd # "enrich" => ComposePlan(rec, job[s]).wraps <= 1
    BY <2>1, <2>3, EditFields DEF ReplaceBody, TextsRead
  <2>4. ASSUME job[s].dup \in Filed
        PROVE  Folded(issues[job[s].dup], n).wraps <= 1
    <3>1. issues[job[s].dup] \in IssueType /\ issues[job[s].dup].wraps <= 1
      BY <2>4, FiledNumbers DEF PreservedOnce
    <3>2. QED
      BY <2>1, <3>1, FoldFields
  <2>5. QED
    BY <1>4, <1>5, <2>1, <2>2, <2>3, <2>4, EditIsOne
<1>6. QED
  BY <1>2, <1>3, <1>5, IssueChange, HealFields DEF NewIssue

(* However enrichments and plan writes interleave, no issue preserves the  *)
(* original text twice.                                                    *)
THEOREM TextPreservedOnce == Spec => []PreservedOnce
<1> DEFINE Inv == TypeOK /\ JobsKnow /\ TextsRead /\ PreservedOnce
<1>1. Init => Inv
  <2> SUFFICES ASSUME Init
               PROVE  TextsRead /\ PreservedOnce
    BY TypeInit
  <2>1. TextsRead
    BY DEF Init, TextsRead, Idle
  <2>2. PreservedOnce
    BY DEF Init, PreservedOnce, Filed, Issue
  <2>3. QED
    BY <2>1, <2>2
<1>2. Inv /\ [Next]_vars => Inv'
  BY TypeStep, TextsStep, PreservedStep
<1>3. Inv => PreservedOnce
  OBVIOUS
<1> HIDE DEF Inv
<1>4. QED
  BY <1>1, <1>2, <1>3, PTL DEF Spec

-----------------------------------------------------------------------------
(* Folded before closed: a kill has folded its issue by the time it comes  *)
(* to close it, and what was folded is kept.                               *)
KillsKnow ==
  \A s \in Sessions :
    /\ job[s].pc \in {"kill.fold", "kill.close"} =>
         job[s].cmd = "kill" /\ job[s].issue \in Filed /\ issues[job[s].issue].by = "agent"
    /\ job[s].pc = "kill.close" /\ job[s].dup # None =>
         job[s].dup \in Filed /\ job[s].issue \in issues[job[s].dup].folded
    /\ job[s].pc = "graduate.close" => job[s].cmd = "graduate"

SurvivorsFiled == \A i \in Filed : issues[i].duplicateOf \in Filed \cup {None}

LEMMA KillsStep ==
  ASSUME TypeOK, JobsKnow, KillsKnow, [Next]_vars
  PROVE  KillsKnow'
<1> DEFINE Knows1(t) ==
      /\ job[t].pc \in {"kill.fold", "kill.close"} =>
           job[t].cmd = "kill" /\ job[t].issue \in Filed /\ issues[job[t].issue].by = "agent"
      /\ job[t].pc = "kill.close" /\ job[t].dup # None =>
           job[t].dup \in Filed /\ job[t].issue \in issues[job[t].dup].folded
      /\ job[t].pc = "graduate.close" => job[t].cmd = "graduate"
<1> SUFFICES ASSUME NEW t \in Sessions
             PROVE  Knows1(t)'
  BY DEF KillsKnow
<1>1. job = [s \in Sessions |-> job[s]] /\ job[t] \in JobType
  BY DEF TypeOK
<1>2. CASE KillRead(t)
  <2>1. PICK i \in Filed, d \in Filed \cup {None} :
          /\ issues[i].by = "agent"
          /\ job' = [job EXCEPT ![t] =
                       [Idle EXCEPT !.cmd = "kill", !.pc = IF d = None THEN "kill.close" ELSE "kill.fold",
                                    !.issue = i, !.dup = d]]
    BY <1>2 DEF KillRead, Starts
  <2>2. issues' = issues
    BY <1>2 DEF KillRead, board
  <2>3. /\ job'[t].cmd = "kill" /\ job'[t].issue = i /\ job'[t].dup = d
        /\ job'[t].pc = IF d = None THEN "kill.close" ELSE "kill.fold"
    BY <1>1, <2>1 DEF Idle
  <2>4. QED
    BY <2>1, <2>2, <2>3 DEF Filed
<1>3. CASE KillFold(t)
  <2> DEFINE here == job[t]
  <2>1. here \in JobType /\ here.pc = "kill.fold" /\ job' = [job EXCEPT ![t] = [here EXCEPT !.pc = "kill.close"]]
    BY <1>1, <1>3 DEF KillFold, Goes
  <2>2. here.cmd = "kill" /\ here.issue \in Filed /\ issues[here.issue].by = "agent" /\ here.issue \in Numbers
    BY <2>1, FiledNumbers DEF KillsKnow
  <2>3. here.dup \in Filed
    BY <2>1, FiledNumbers DEF JobsKnow, JobKnows, None
  <2>4. issues' = [issues EXCEPT ![here.dup] = Folded(issues[here.dup], here.issue)]
    BY <1>3 DEF KillFold
  <2>5. here.issue \in issues'[here.dup].folded
    BY <2>2, <2>3, <2>4, FoldFields, FiledNumbers DEF Filed
  <2>6. /\ job'[t].pc = "kill.close" /\ job'[t].cmd = here.cmd /\ job'[t].issue = here.issue
        /\ job'[t].dup = here.dup
    <3> HIDE DEF here
    <3> QED
      BY <1>1, <2>1 DEF JobType
  <2>7. /\ here.issue \in Filed' /\ issues'[here.issue].by = issues[here.issue].by
        /\ here.dup \in Filed'
    BY <2>2, <2>3, IssuesKept DEF Kept
  <2> HIDE DEF here
  <2>8. QED
    BY <2>2, <2>5, <2>6, <2>7
<1>4. CASE Graduate(t)
  <2>1. job'[t].cmd = "graduate" /\ job'[t].pc = "graduate.close"
    BY <1>1, <1>4 DEF Graduate, Starts, Idle
  <2>2. QED
    BY <2>1
<1>5. CASE job'[t] = job[t]
  <2>1. \A i \in Filed : /\ i \in Filed' /\ issues'[i].by = issues[i].by
                         /\ issues[i].folded \subseteq issues'[i].folded
    BY IssuesKept DEF Kept
  <2>2. QED
    BY <1>5, <2>1 DEF KillsKnow
<1>6. CASE job'[t].pc \in Elsewhere \cup InClaim \cup {"enrich.write", "plan.write", "scan.snapshot", "scan.file"}
  BY <1>6 DEF Elsewhere, InClaim
<1>7. QED
  <2>1. \/ ClaimRead(t) \/ ClaimPost(t) \/ ClaimCheck(t) \/ ReleaseList(t)
        \/ EnrichRead(t) \/ WriteRead(t)
        \/ ScanList(t) \/ ScanSnapshot(t) \/ CreateHealItem(t)
        => job'[t].pc \in Elsewhere \cup InClaim \cup {"enrich.write", "plan.write", "scan.snapshot", "scan.file"}
    BY Destinations DEF Elsewhere, InClaim
  <2>2. QED
    BY <1>2, <1>3, <1>4, <1>5, <1>6, <2>1, WhoMoves

LEMMA LostStep ==
  ASSUME TypeOK, JobsKnow, KillsKnow, SurvivorsFiled, NothingKilledIsLost, [Next]_vars
  PROVE  SurvivorsFiled' /\ NothingKilledIsLost'
<1> DEFINE Sound(i) ==
      /\ issues[i].duplicateOf \in Filed \cup {None}
      /\ issues[i].reason = "not_planned" =>
           /\ issues[i].by = "agent"
           /\ issues[i].duplicateOf # None => i \in issues[issues[i].duplicateOf].folded
<1>1. \A i \in Filed : Sound(i)
  BY DEF SurvivorsFiled, NothingKilledIsLost
<1>2. \A i \in Filed : i \in Filed' /\ Kept(i)
  BY IssuesKept
(* An issue whose fate the step leaves alone stays sound. *)
<1>3. ASSUME NEW i \in Filed, SameFate(issues'[i], issues[i])
      PROVE  Sound(i)'
  <2>1. issues'[i].duplicateOf \in Filed \cup {None}
    BY <1>1, <1>3 DEF SameFate
  <2>2. Filed \subseteq Filed'
    BY <1>2
  <2>3. ASSUME issues'[i].reason = "not_planned", issues'[i].duplicateOf # None
        PROVE  i \in issues'[issues'[i].duplicateOf].folded
    BY <1>1, <1>2, <1>3, <2>1, <2>3 DEF SameFate, Kept
  <2>4. issues'[i].reason = "not_planned" => issues'[i].by = "agent"
    BY <1>1, <1>2, <1>3 DEF SameFate, Kept
  <2>5. QED
    BY <2>1, <2>2, <2>3, <2>4
<1>4. ASSUME NEW i \in Filed', NewIssue(issues'[i])
      PROVE  Sound(i)'
  BY <1>4 DEF NewIssue
<1>5. ASSUME \A i \in Filed' : Sound(i)'
      PROVE  SurvivorsFiled' /\ NothingKilledIsLost'
  BY <1>5 DEF SurvivorsFiled, NothingKilledIsLost
<1> HIDE DEF Sound
<1>6. issues \in Seq(IssueType)
  BY DEF TypeOK
<1>7. CASE UNCHANGED issues
  <2>1. \A i \in Filed' : i \in Filed /\ SameFate(issues'[i], issues[i])
    BY <1>7 DEF Filed, SameFate
  <2>2. QED
    BY <1>3, <1>5, <2>1
<1>8. ASSUME NEW rec, NewIssue(rec), issues' = Append(issues, rec)
      PROVE  SurvivorsFiled' /\ NothingKilledIsLost'
  <2>1. \A i \in Filed' : issues'[i] = rec \/ (i \in Filed /\ issues'[i] = issues[i])
    BY <1>6, <1>8 DEF Filed
  <2>2. ASSUME NEW i \in Filed'
        PROVE  Sound(i)'
    <3>1. CASE issues'[i] = rec
      BY <1>4, <1>8, <3>1
    <3>2. CASE i \in Filed /\ issues'[i] = issues[i]
      BY <1>3, <3>2 DEF SameFate
    <3>3. QED
      BY <2>1, <3>1, <3>2
  <2>3. QED
    BY <1>5, <2>2
<1>9. ASSUME NEW n \in Filed, NEW e, issues' = [issues EXCEPT ![n] = e], SameFate(e, issues[n]) \/ Sound(n)'
      PROVE  SurvivorsFiled' /\ NothingKilledIsLost'
  <2>1. Filed' = Filed /\ issues'[n] = e /\ \A i \in Filed \ {n} : issues'[i] = issues[i]
    BY <1>6, <1>9 DEF Filed
  <2>2. ASSUME NEW i \in Filed
        PROVE  Sound(i)'
    <3>1. CASE i # n
      BY <1>3, <2>1, <3>1 DEF SameFate
    <3>2. CASE i = n
      BY <1>3, <1>9, <2>1, <3>2
    <3>3. QED
      BY <3>1, <3>2
  <2>3. QED
    BY <1>5, <2>1, <2>2
<1>10. ASSUME NEW s \in Sessions, Edits(s), issues' # issues
       PROVE  SurvivorsFiled' /\ NothingKilledIsLost'
  <2>1. PICK n \in Filed : n = job[s].issue
    BY <1>10, EditIsOne
  <2>2. PICK j \in JobType : j = job[s]
    BY <1>10, EditIsOne
  <2>3. PICK rec \in IssueType : rec = issues[n]
    BY <2>1, <1>6 DEF Filed
  <2>4. n \in Numbers /\ Filed \subseteq Numbers
    BY FiledNumbers
  <2>5. /\ SameFate(LabelsAdded(rec, j), rec) /\ SameFate(QueueLabelRemoved(rec), rec)
        /\ SameFate(ComposeEnriched(rec, j), rec) /\ SameFate(ComposePlan(rec, j), rec)
    BY EditFields
  <2>6. ASSUME NEW e, issues' = [issues EXCEPT ![n] = e], SameFate(e, rec)
        PROVE  SurvivorsFiled' /\ NothingKilledIsLost'
    BY <1>9, <2>3, <2>6
  <2>7. ASSUME NEW d \in Filed, issues' = [issues EXCEPT ![d] = Folded(issues[d], n)]
        PROVE  SurvivorsFiled' /\ NothingKilledIsLost'
    <3>1. SameFate(Folded(issues[d], n), issues[d])
      BY <1>6, <2>4, FoldFields DEF Filed
    <3>2. QED
      BY <1>9, <2>7, <3>1
  <2>8. CASE Close(s) /\ issues' = [issues EXCEPT ![n] = Closed(rec, j)]
    <3>1. issues'[n] = Closed(rec, j)
      BY <1>6, <2>8 DEF Filed
    <3>2. CASE j.cmd # "kill"
      <4>1. issues'[n].duplicateOf = rec.duplicateOf /\ issues'[n].reason = "completed"
        BY <3>1, <3>2, EditFields
      <4>2. issues'[n].duplicateOf \in Filed \cup {None}
        BY <1>1, <2>3, <4>1 DEF Sound
      <4>3. issues'[n].duplicateOf \in Filed' \cup {None}
        BY <1>2, <4>2
      <4>4. Sound(n)'
        <5>1. issues'[n].reason # "not_planned"
          BY <4>1
        <5>2. QED
          BY <4>3, <5>1 DEF Sound
      <4>5. QED
        BY <1>9, <2>8, <4>4
    <3>3. CASE j.cmd = "kill"
      <4> DEFINE d == j.dup
      <4>1. job[s].pc = "kill.close"
        BY <2>2, <2>8, <3>3 DEF Close, KillsKnow
      <4>2. issues'[n].duplicateOf = d
        BY <3>1, <3>3, EditFields
      <4>3. rec.by = "agent" /\ (d # None => d \in Filed /\ n \in issues[d].folded)
        BY <2>1, <2>2, <2>3, <4>1 DEF KillsKnow
      <4>4. issues'[n].by = "agent" /\ (d # None => d \in Filed' /\ n \in issues'[d].folded)
        BY <1>2, <2>3, <4>3 DEF Kept
      <4> HIDE DEF d
      <4>5. issues'[n].duplicateOf \in Filed' \cup {None}
        BY <4>2, <4>4
      <4>6. issues'[n].duplicateOf # None => n \in issues'[issues'[n].duplicateOf].folded
        BY <4>2, <4>4
      <4>7. Sound(n)'
        BY <4>4, <4>5, <4>6 DEF Sound
      <4>8. QED
        BY <1>9, <2>8, <4>7
    <3>4. QED
      BY <3>2, <3>3
  <2>9. QED
    BY <1>7, <1>10, <2>1, <2>2, <2>3, <2>5, <2>6, <2>7, <2>8, EditIsOne
<1>11. QED
  BY <1>7, <1>8, <1>10, IssueChange, HealFields

(* Wherever a kill stops, what was closed as a duplicate was folded into   *)
(* its survivor first, and nothing a person filed is closed as not planned. *)
THEOREM KilledIsFolded == Spec => []NothingKilledIsLost
<1> DEFINE Inv == TypeOK /\ JobsKnow /\ KillsKnow /\ SurvivorsFiled /\ NothingKilledIsLost
<1>1. Init => Inv
  <2> SUFFICES ASSUME Init
               PROVE  KillsKnow /\ SurvivorsFiled /\ NothingKilledIsLost
    BY TypeInit
  <2>1. KillsKnow
    BY DEF Init, KillsKnow, Idle
  <2>2. SurvivorsFiled /\ NothingKilledIsLost
    BY DEF Init, SurvivorsFiled, NothingKilledIsLost, Filed, Issue
  <2>3. QED
    BY <2>1, <2>2
<1>2. Inv /\ [Next]_vars => Inv'
  BY TypeStep, KillsStep, LostStep
<1>3. Inv => NothingKilledIsLost
  OBVIOUS
<1> HIDE DEF Inv
<1>4. QED
  BY <1>1, <1>2, <1>3, PTL DEF Spec

-----------------------------------------------------------------------------
(* Healed once: without overlapping scans, the one scan under way knows    *)
(* every target healed so far, and files none of them again.               *)
InScan == {"scan.snapshot", "scan.file"}

OneScan ==
  ~overlap => \A s, t \in Sessions : job[s].pc \in InScan /\ job[t].pc \in InScan => s = t

ScansKnow ==
  ~overlap => \A s \in Sessions :
    /\ job[s].pc = "scan.snapshot" => HealTargets \subseteq job[s].rows
    /\ job[s].pc = "scan.file" => job[s].rows \cap HealTargets = {}

Heals(i, p) == issues[i].open /\ p \in issues[i].heals

(* Only a scan that files makes an issue heal what it did not, and that    *)
(* issue is new.                                                           *)
LEMMA HealsStep ==
  ASSUME TypeOK, JobsKnow, [Next]_vars, NEW i \in Filed', NEW p, Heals(i, p)'
  PROVE  \/ i \in Filed /\ Heals(i, p)
         \/ /\ i = Len(issues) + 1
            /\ \E s \in Sessions : /\ CreateHealItem(s) /\ p \in job[s].rows
                                   /\ job' = [job EXCEPT ![s].rows = @ \ {p}]
<1>1. issues \in Seq(IssueType) /\ i \in Nat
  BY IssuesStep, TypeStep DEF TypeOK, Filed
<1>2. CASE i \in Filed
  BY <1>2, IssuesKept DEF Kept, Heals
<1>3. CASE i \notin Filed
  <2>1. ~ UNCHANGED issues
    BY <1>3 DEF Filed
  <2>2. ASSUME NEW rec, issues' = Append(issues, rec)
        PROVE  i = Len(issues) + 1 /\ issues'[i] = rec
    BY <1>1, <1>3, <2>2 DEF Filed
  <2>3. ASSUME NEW s \in Sessions, Edits(s)
        PROVE  FALSE
    <3>1. Filed' = Filed
      BY <1>1, <2>1, <2>3, EditIsOne DEF Filed
    <3>2. QED
      BY <1>3, <3>1
  <2>4. ASSUME NEW rec, rec.heals = {}, issues' = Append(issues, rec)
        PROVE  FALSE
    BY <2>2, <2>4 DEF Heals
  <2>5. ASSUME NEW s \in Sessions, CreateHealItem(s), NEW q \in job[s].rows, q \in Prs,
               issues' = Append(issues, HealItem(q)), job' = [job EXCEPT ![s].rows = @ \ {q}]
        PROVE  /\ i = Len(issues) + 1
               /\ CreateHealItem(s) /\ p \in job[s].rows /\ job' = [job EXCEPT ![s].rows = @ \ {p}]
    <3>1. i = Len(issues) + 1 /\ issues'[i].heals = {q}
      BY <2>2, <2>5, HealFields
    <3>2. p = q
      BY <3>1 DEF Heals
    <3>3. QED
      BY <2>5, <3>1, <3>2
  <2>6. QED
    BY <2>1, <2>3, <2>4, <2>5, IssueChange
<1>4. QED
  BY <1>2, <1>3

(* A scan begins where it lists, and an overlap is never forgotten. *)
LEMMA OneScanStep ==
  ASSUME TypeOK, JobsKnow, OneScan, [Next]_vars
  PROVE  OneScan' /\ (overlap => overlap')
<1>1. job = [s \in Sessions |-> job[s]]
  BY DEF TypeOK
<1>2. overlap => overlap'
  BY OverlapStep DEF ScanList, TypeOK
<1>3. ASSUME NEW t \in Sessions, job'[t].pc \in InScan
      PROVE  job[t].pc \in InScan \/ ScanList(t)
  <2>1. CASE ScanSnapshot(t) \/ CreateHealItem(t)
    BY <2>1 DEF ScanSnapshot, CreateHealItem, InScan
  <2>2. QED
    BY <1>3, <2>1, WhoMoves, Destinations DEF InScan, Elsewhere
<1>4. ASSUME NEW t \in Sessions, ScanList(t), ~overlap'
      PROVE  \A s \in Sessions \ {t} : job'[s].pc \notin InScan
  <2>1. \A s \in Sessions \ {t} : job'[s] = job[s]
    BY <1>1, <1>4 DEF ScanList, Starts
  <2>2. \A s \in Sessions : job[s].cmd # "scan"
    BY <1>4 DEF ScanList, Scanning
  <2>3. QED
    BY <2>1, <2>2 DEF JobsKnow, JobKnows, InScan
<1>5. QED
  BY <1>2, <1>3, <1>4 DEF OneScan


LEMMA ScansStep ==
  ASSUME TypeOK, JobsKnow, OneScan, ScansKnow, [Next]_vars
  PROVE  ScansKnow'
<1>1. job = [s \in Sessions |-> job[s]] /\ \A s \in Sessions : job[s] \in JobType
  BY DEF TypeOK
<1> SUFFICES ASSUME ~overlap', NEW t \in Sessions
             PROVE  /\ job'[t].pc = "scan.snapshot" => HealTargets' \subseteq job'[t].rows
                    /\ job'[t].pc = "scan.file" => job'[t].rows \cap HealTargets' = {}
  BY DEF ScansKnow
<1>2. ~overlap /\ OneScan'
  BY OneScanStep
(* What is healed after the step was healed before it, or is what the scan *)
(* of session s files.                                                     *)
<1> DEFINE FiledBy(s, p) == /\ CreateHealItem(s) /\ p \in job[s].rows
                            /\ job' = [job EXCEPT ![s].rows = @ \ {p}]
<1>3. ASSUME NEW p \in HealTargets'
      PROVE  p \in HealTargets \/ \E s \in Sessions : FiledBy(s, p)
  <2>1. PICK i \in Filed' : Heals(i, p)'
    BY <1>3 DEF HealTargets, Heals
  <2>2. i \in Filed /\ Heals(i, p) => p \in HealTargets
    BY DEF HealTargets, Heals
  <2>3. QED
    BY <2>1, <2>2, HealsStep
(* Another session's scan does not file meanwhile. *)
<1>4. ASSUME NEW s \in Sessions, NEW p, FiledBy(s, p), job'[t].pc \in InScan
      PROVE  s = t
  <2>1. job'[s].pc = "scan.file" /\ job[s].pc = "scan.file"
    BY <1>1, <1>4 DEF CreateHealItem, JobType
  <2>2. QED
    BY <1>2, <1>4, <2>1 DEF OneScan, InScan
<1>5. CASE ScanList(t)
  <2>1. job'[t].rows = HealTargets /\ job'[t].pc = "scan.snapshot" /\ UNCHANGED issues
    BY <1>1, <1>5 DEF ScanList, Starts, Idle, board
  <2>2. HealTargets' = HealTargets
    BY <2>1 DEF HealTargets, Filed
  <2>3. QED
    BY <2>1, <2>2
<1>6. CASE ScanSnapshot(t)
  <2> DEFINE here == job[t]
  <2>1. /\ here \in JobType /\ here.pc = "scan.snapshot" /\ UNCHANGED issues
        /\ job' = [job EXCEPT ![t] = [here EXCEPT !.pc = "scan.file", !.rows = PlanHealItems(red, here.rows)]]
    BY <1>1, <1>6 DEF ScanSnapshot, board
  <2>2. HealTargets \subseteq here.rows
    BY <1>2, <2>1 DEF ScansKnow
  <2>3. PlanHealItems(red, here.rows) \cap here.rows = {}
    BY DEF PlanHealItems
  <2> HIDE DEF here
  <2>4. job'[t].pc = "scan.file" /\ job'[t].rows = PlanHealItems(red, here.rows)
    BY <1>1, <2>1 DEF JobType
  <2>5. HealTargets' = HealTargets
    BY <2>1 DEF HealTargets, Filed
  <2>6. QED
    BY <2>2, <2>3, <2>4, <2>5
<1>7. CASE CreateHealItem(t)
  <2>1. job[t].pc = "scan.file" /\ job[t].rows \cap HealTargets = {}
    BY <1>2, <1>7 DEF CreateHealItem, ScansKnow
  <2>2. CASE Ends(t)
    <3>1. job'[t].pc = "idle"
      BY <1>1, <2>2 DEF Ends, Idle
    <3>2. QED
      BY <3>1
  <2>3. ASSUME NEW p, job' = [job EXCEPT ![t].rows = @ \ {p}]
        PROVE  /\ job'[t].pc = "scan.file" /\ job'[t].rows = job[t].rows \ {p}
    BY <1>1, <2>1, <2>3 DEF JobType
  <2>4. ASSUME NEW p, job' = [job EXCEPT ![t].rows = @ \ {p}], NEW q \in HealTargets'
        PROVE  q \notin job'[t].rows
    <3>1. job'[t].pc \in InScan /\ job'[t].rows \subseteq job[t].rows
      BY <2>3, <2>4 DEF InScan
    <3>2. CASE q \in HealTargets
      BY <2>1, <3>1, <3>2
    <3>3. CASE \E s \in Sessions : FiledBy(s, q)
      <4>1. FiledBy(t, q)
        BY <1>4, <3>1, <3>3
      <4>2. job'[t].rows = job[t].rows \ {q}
        BY <2>3, <4>1
      <4>3. QED
        BY <4>2
    <3>4. QED
      BY <1>3, <2>4, <3>2, <3>3
  <2>5. QED
    BY <1>7, <2>2, <2>3, <2>4 DEF CreateHealItem
<1>8. CASE job'[t] = job[t]
  <2>1. ASSUME job'[t].pc \in InScan
        PROVE  HealTargets' \subseteq HealTargets
    <3>1. ASSUME NEW s \in Sessions, NEW p, FiledBy(s, p)
          PROVE  FALSE
      <4>1. FiledBy(t, p)
        BY <1>4, <2>1, <3>1
      <4>2. job'[t].rows = job[t].rows \ {p} /\ p \in job[t].rows
        BY <1>1, <4>1 DEF JobType
      <4>3. QED
        BY <1>8, <4>2
    <3>2. QED
      BY <1>3, <3>1
  <2>2. QED
    BY <1>2, <1>8, <2>1 DEF ScansKnow, InScan
<1>9. CASE job'[t].pc \notin InScan
  BY <1>9 DEF InScan
<1>10. QED
  BY <1>5, <1>6, <1>7, <1>8, <1>9, WhoMoves, Destinations DEF InScan, Elsewhere

LEMMA HealedStep ==
  ASSUME TypeOK, JobsKnow, ScansKnow, HealedOnce, [Next]_vars
  PROVE  HealedOnce'
<1> SUFFICES ASSUME ~overlap', NEW i \in Filed', NEW j \in Filed', NEW p, Heals(i, p)', Heals(j, p)'
             PROVE  i = j
  BY DEF HealedOnce, Heals
<1>1. ~overlap
  BY OverlapStep DEF ScanList, TypeOK
<1> DEFINE Late(k) == k = Len(issues) + 1 /\ \E s \in Sessions : CreateHealItem(s) /\ p \in job[s].rows
<1>2. (i \in Filed /\ Heals(i, p)) \/ Late(i)
  BY HealsStep
<1>3. (j \in Filed /\ Heals(j, p)) \/ Late(j)
  BY HealsStep
(* A scan files nothing that is healed already. *)
<1>4. ASSUME NEW k \in Filed, Heals(k, p), NEW s \in Sessions, CreateHealItem(s), p \in job[s].rows
      PROVE  FALSE
  <2>1. p \in HealTargets
    BY <1>4 DEF HealTargets, Heals
  <2>2. QED
    BY <1>1, <1>4, <2>1 DEF ScansKnow, CreateHealItem
<1>5. CASE i \in Filed /\ Heals(i, p) /\ j \in Filed /\ Heals(j, p)
  BY <1>1, <1>5 DEF HealedOnce, Heals
<1>6. QED
  BY <1>2, <1>3, <1>4, <1>5

(* However scans, kills and closes interleave, scans that do not overlap   *)
(* leave one open heal item for a pull request at most.                    *)
THEOREM NeverHealedTwice == Spec => []HealedOnce
<1> DEFINE Inv == TypeOK /\ JobsKnow /\ OneScan /\ ScansKnow /\ HealedOnce
<1>1. Init => Inv
  <2> SUFFICES ASSUME Init
               PROVE  OneScan /\ ScansKnow /\ HealedOnce
    BY TypeInit
  <2>1. \A s \in Sessions : job[s].pc = "idle"
    BY DEF Init, Idle
  <2>2. OneScan /\ ScansKnow
    BY <2>1 DEF OneScan, ScansKnow, InScan
  <2>3. HealedOnce
    BY DEF Init, HealedOnce, Filed
  <2>4. QED
    BY <2>2, <2>3
<1>2. Inv /\ [Next]_vars => Inv'
  BY TypeStep, OneScanStep, ScansStep, HealedStep
<1>3. Inv => HealedOnce
  OBVIOUS
<1> HIDE DEF Inv
<1>4. QED
  BY <1>1, <1>2, <1>3, PTL DEF Spec

-----------------------------------------------------------------------------
(* The gh shim: what a call was made into is decided in one step, so the     *)
(* lemmas are about the router.  Only what the lint passed is older.         *)
ShimInv ==
  /\ RunsWhatWasAsked
  /\ lastCall.call \subseteq Calls
  /\ \A call \in clean.calls, p \in clean.under : call \notin ConfiguredPatterns(p)
  /\ lastCall.outcome = "blocked" /\ lastCall.under.forbid =>
       \A call \in lastCall.call :
         \/ call \in ConfiguredPatterns(lastCall.under)
         \/ call.sub = "edit" /\ ~lastCall.under.rewrite
         \/ call.sub = "view"

(* The first of several words. *)
LEMMA FirstExists ==
  ASSUME NEW S \in SUBSET Nat, S # {}
  PROVE  \E x \in S : \A y \in S : x <= y
<1> DEFINE R == OpToRel(<, Nat)
<1>1. IsWellFoundedOn(R, Nat)
  BY NatLessThanWellFounded
<1>2. PICK x \in S : \A y \in S : ~ (<<y, x>> \in R)
  <2> HIDE DEF R
  <2>. QED BY <1>1, WFMin
<1>3. \A y \in S : ~ (y < x)
  BY <1>2 DEF OpToRel
<1>. QED BY <1>3

LEMMA ThroughIsMeant ==
  ASSUME NEW call
  PROVE  /\ Through(call).kind = "passthrough" /\ Through(call).repo = Meant(call).repo
         /\ Through(call).targets = Meant(call).targets /\ Through(call).fields = Meant(call).fields
         /\ Through(call).stripped = {} /\ Named(call) \cap RestFields \subseteq Meant(call).fields
<1>1. \A f \in RestFields : LongName(f) = f /\ f \notin {"", "--repo"}
  BY DEF RestFields, LongName
<1>2. Named(call) \cap RestFields \subseteq Meant(call).fields
  BY <1>1 DEF Meant
<1>. QED BY <1>2 DEF Through

(* A flag with a value is in the call, and gh means it.                      *)
LEMMA HasIsMeant ==
  ASSUME NEW call, NEW f \in RestFields, FlagValue(call.rest, f) # "none"
  PROVE  f \in Meant(call).fields
<1>1. PICK i \in DOMAIN call.rest : call.rest[i].flag = f
  BY DEF FlagValue
<1>2. f \in Named(call)
  BY <1>1 DEF Named
<1>3. f \notin {"", "--repo"} /\ LongName(f) = f
  BY DEF RestFields, LongName
<1>. QED BY <1>2, <1>3 DEF Meant

(* What the router makes of an edit, a call at a time.                       *)
RoutedRight(call, p, repo, route) ==
  /\ route.fields \subseteq Meant(call).fields
  /\ route.stripped \subseteq Meant(call).fields \cup p.unsupported
  /\ route.kind = "rewrite" /\ Ordered(call) => route.targets \subseteq Meant(call).targets
  /\ route.repo = Meant(call).repo \/ (route.repo = repo /\ repo # "none")
  /\ call.sub = "edit" /\ route.kind = "rewrite" /\ "--milestone" \in route.fields
       => FlagValue(call.rest, "--milestone") \in Numerals
  /\ Named(call) \cap RestFields \subseteq route.fields \cup route.stripped

LEMMA EditIsRight ==
  ASSUME NEW call \in Calls, NEW p, NEW repo, NEW exists \in BOOLEAN,
         RouteEdit(call, repo, p, exists).kind # "block"
  PROVE  RoutedRight(call, p, repo, RouteEdit(call, repo, p, exists)) /\ repo # "none"
<1> DEFINE numbers  == {i \in Words(call.rest) : call.rest[i].value \in Numerals}
           target   == call.rest[CHOOSE i \in numbers : \A j \in numbers : i <= j].value
           Has(f)   == FlagValue(call.rest, f) # "none"
           fields   == {f \in {"--body-file", "--body", "--title"} : Has(f)}
                         \cup (IF NumericMilestone(call.rest) THEN {"--milestone"} ELSE {})
           stripped == {f \in {"--milestone", "--add-project", "--remove-project"} : Has(f)} \ fields
           route    == RouteEdit(call, repo, p, exists)
<1>1. /\ repo # "none" /\ numbers # {}
      /\ route = [kind |-> "rewrite", repo |-> repo, targets |-> {target}, fields |-> fields, stripped |-> stripped]
  BY DEF RouteEdit, Blocked
<1>2. \A f \in RestFields : Has(f) => f \in Meant(call).fields
  BY HasIsMeant
<1>3. NumericMilestone(call.rest) => FlagValue(call.rest, "--milestone") \in Numerals
  BY DEF NumericMilestone
<1>4. NumericMilestone(call.rest) => Has("--milestone")
  BY <1>3, NumeralsAssumption DEF NumericMilestone
<1>5. fields \subseteq Meant(call).fields /\ stripped \subseteq Meant(call).fields
  BY <1>2, <1>4 DEF RestFields
<1>6. Named(call) \cap RestFields \subseteq fields \cup stripped
  <2>1. \A f \in RestFields \cap Named(call) : Has(f)
    BY CallsAssumption
  <2>. QED BY <2>1 DEF RestFields
<1>7. ASSUME Ordered(call) PROVE target \in Meant(call).targets
  <2> DEFINE i == CHOOSE i \in numbers : \A j \in numbers : i <= j
  <2>1. numbers \subseteq Nat
    <3>1. call.rest \in Seq([flag : STRING, value : STRING])
      BY CallsAssumption
    <3>2. DOMAIN call.rest \subseteq Nat
      BY <3>1
    <3>. QED BY <3>2 DEF Words
  <2>2. \E k \in numbers : \A j \in numbers : k <= j
    BY <1>1, <2>1, FirstExists
  <2>3. i \in numbers
    BY <2>2
  <2> HIDE DEF i
  <2>4. i \in Words(call.rest) /\ call.rest[i].value \in Numerals
    BY <2>3
  <2>5. i = 1 \/ call.rest[i - 1].flag = "" \/ call.rest[i - 1].value # ""
    BY <1>7, <2>4 DEF Ordered
  <2>6. target = call.rest[i].value
    BY DEF i
  <2>7. i \in {j \in Words(call.rest) : j = 1 \/ call.rest[j - 1].flag = "" \/ call.rest[j - 1].value # ""}
    BY <2>4, <2>5
  <2>8. call.rest[i].value \in Meant(call).targets
    BY <2>7 DEF Meant
  <2>. QED BY <2>6, <2>8
<1> HIDE DEF fields, stripped, target
<1>8. RoutedRight(call, p, repo, route)
  <2>1. "--milestone" \in fields => FlagValue(call.rest, "--milestone") \in Numerals
    BY <1>3 DEF fields
  <2>. QED BY <1>1, <1>5, <1>6, <1>7, <2>1 DEF RoutedRight
<1>. QED BY <1>1, <1>8

LEMMA ViewIsRight ==
  ASSUME NEW call \in Calls, NEW p, NEW repo, RouteView(call, p).kind # "block", call.sub = "view"
  PROVE  RoutedRight(call, p, repo, RouteView(call, p))
<1> DEFINE asked    == IF FlagValue(call.rest, "--json") = "none" THEN {} ELSE JsonFields[FlagValue(call.rest, "--json")]
           stripped == asked \cap p.unsupported
<1>1. \/ RouteView(call, p) = Through(call)
      \/ RouteView(call, p) = [Through(call) EXCEPT !.kind = "rewrite", !.stripped = stripped]
  BY DEF RouteView, Blocked
<1>. QED BY <1>1, ThroughIsMeant DEF RoutedRight, Through

(* What is let through, rewritten or blocked of a call: a block has a reason *)
(* that the lint looks for, but for an edit and a view.                      *)
LEMMA RouterIsRight ==
  ASSUME NEW call \in Calls, NEW p, NEW repo, NEW exists \in BOOLEAN,
         RouteGh(call, p, repo, exists).kind # "block"
  PROVE  /\ RoutedRight(call, p, repo, RouteGh(call, p, repo, exists))
         /\ p.enabled /\ p.mode = "rest-only" => call.verb \notin p.blockVerbs
<1> DEFINE route == RouteGh(call, p, repo, exists)
<1>1. Through(call).kind = "passthrough" /\ RoutedRight(call, p, repo, Through(call))
  BY ThroughIsMeant DEF RoutedRight
<1>2. CASE ~p.enabled \/ p.mode # "rest-only"
  BY <1>1, <1>2 DEF RouteGh
<1>3. CASE p.enabled /\ p.mode = "rest-only"
  <2>1. call.verb \notin p.blockVerbs
    BY <1>3 DEF RouteGh, Blocked
  <2>2. \/ route = Through(call)
        \/ route = RouteEdit(call, repo, p, exists)
        \/ route = RouteView(call, p) /\ call.sub = "view"
    BY <1>3 DEF RouteGh, Blocked
  <2>3. RoutedRight(call, p, repo, route)
    BY <2>2, <1>1, EditIsRight, ViewIsRight
  <2>. QED BY <2>1, <2>3
<1>. QED BY <1>2, <1>3

LEMMA BlocksAreNamed ==
  ASSUME NEW call \in Calls, NEW p, NEW repo, NEW exists \in BOOLEAN,
         RouteGh(call, p, repo, exists).kind = "block", p.forbid
  PROVE  \/ call \in ConfiguredPatterns(p)
         \/ call.sub = "edit" /\ ~p.rewrite
         \/ call.sub = "view"
<1>1. Through(call).kind # "block"
  BY DEF Through
<1>. QED BY <1>1 DEF RouteGh, ConfiguredPatterns

LEMMA ShimInitially == ShimInit => ShimInv
  BY DEF ShimInit, ShimInv, RunsWhatWasAsked, NoLint, Quiet

LEMMA EditPolicyKeeps == ASSUME ShimInv, EditPolicy PROVE ShimInv'
  BY DEF EditPolicy, ShimInv, RunsWhatWasAsked, Quiet

(* What the lint passed names no call that the policy it read forbids.       *)
LEMMA LintKeeps ==
  ASSUME ShimInv, NEW files \in Corpora, NEW inGit \in BOOLEAN, LintSkills(files, inGit) PROVE ShimInv'
<1> DEFINE p == IF inGit THEN ReadGhCompatibilityPolicy(policy) ELSE DEFAULT_GH_COMPATIBILITY_POLICY
<1>1. lastCall' = Quiet
  BY DEF LintSkills
<1>2. ASSUME NEW call \in (clean').calls, NEW q \in (clean').under PROVE call \notin ConfiguredPatterns(q)
  <2>1. clean' # NoLint
    BY <1>2 DEF NoLint
  <2>2. LintCorpus(files, p)
    BY <2>1 DEF LintSkills
  <2>3. clean' = [calls |-> UNION {f.calls : f \in {g \in files : ~g.exempt}}, under |-> {p}]
    BY <2>1 DEF LintSkills
  <2>4. q = p
    BY <2>3
  <2>5. PICK f \in {g \in files : ~g.exempt} : call \in f.calls
    BY <2>3
  <2>6. f.calls \cap ConfiguredPatterns(p) = {}
    BY <2>2, <2>5 DEF LintCorpus
  <2>. QED BY <2>4, <2>5, <2>6
<1>. QED BY <1>1, <1>2 DEF ShimInv, RunsWhatWasAsked, Quiet

LEMMA GhKeeps ==
  ASSUME ShimInv, NEW call \in Calls, NEW gh \in {"works", "lost", "absent"},
         NEW inGit \in BOOLEAN, NEW exists \in BOOLEAN, Gh(call, gh, inGit, exists)
  PROVE  ShimInv'
<1> DEFINE p     == ReadGhCompatibilityPolicy(policy)
           repo  == ResolveRepository(p, gh)
           route == RouteGh(call, p, repo, exists)
           off   == [Quiet EXCEPT !.call = {call}, !.outcome = "disabled"]
           Says(outcome) == [call |-> {call}, outcome |-> outcome, route |-> route, under |-> p]
<1>1. /\ UNCHANGED clean
      /\ \/ lastCall' = off
         \/ lastCall' = Says("blocked") /\ route.kind = "block"
         \/ lastCall' = Says("no gh")
         \/ lastCall' = Says("ran") /\ route.kind # "block" /\ p.enabled
  BY DEF Gh
<1>2. off.call = {call} /\ off.outcome = "disabled"
  BY DEF Quiet
<1>3. \A o \in {"blocked", "no gh", "ran"} :
        Says(o).call = {call} /\ Says(o).outcome = o /\ Says(o).route = route /\ Says(o).under = p
  OBVIOUS
<1> HIDE DEF p, repo, route, off, Says
<1>4. UNCHANGED clean /\ (lastCall').call = {call}
  BY <1>1, <1>2, <1>3
<1>5. (lastCall').outcome = "ran" => lastCall' = Says("ran") /\ route.kind # "block" /\ p.enabled
  BY <1>1, <1>2, <1>3
<1>6. (lastCall').outcome = "blocked" => lastCall' = Says("blocked") /\ route.kind = "block"
  BY <1>1, <1>2, <1>3
<1>7. p.repo = "none" => repo \in {"here", "none"}
  BY DEF ResolveRepository, repo
<1>8. ASSUME (lastCall').outcome = "ran" PROVE RunsWhatWasAsked'
  <2>1. /\ RoutedRight(call, p, repo, route)
        /\ p.mode = "rest-only" => call.verb \notin p.blockVerbs
    BY <1>5, <1>8, RouterIsRight DEF route
  <2>2. /\ (lastCall').route = route /\ (lastCall').under = p
    BY <1>5, <1>8, <1>3
  <2>3. p.repo = "none" /\ {"--repo", "-R"} \cap Named(call) = {} => route.repo = Meant(call).repo
    <3>1. {"--repo", "-R"} \cap Named(call) = {} => Meant(call).repo = "here"
      BY DEF Meant, Named, LongName
    <3>. QED BY <1>7, <2>1, <3>1 DEF RoutedRight
  <2>. QED BY <1>4, <2>1, <2>2, <2>3 DEF RunsWhatWasAsked, RoutedRight
<1>9. (lastCall').outcome # "ran" => RunsWhatWasAsked'
  BY DEF RunsWhatWasAsked
<1>10. (lastCall').outcome = "blocked" /\ (lastCall').under.forbid =>
        \/ call \in ConfiguredPatterns((lastCall').under)
        \/ call.sub = "edit" /\ ~(lastCall').under.rewrite
        \/ call.sub = "view"
  <2>1. SUFFICES ASSUME (lastCall').outcome = "blocked", p.forbid
                 PROVE  call \in ConfiguredPatterns(p) \/ (call.sub = "edit" /\ ~p.rewrite) \/ call.sub = "view"
    BY <1>6, <1>3
  <2>2. route.kind = "block"
    BY <1>6, <2>1
  <2>. QED BY <2>1, <2>2, BlocksAreNamed DEF route
<1>. QED BY <1>4, <1>8, <1>9, <1>10 DEF ShimInv

LEMMA ShimInductive == ShimInv /\ [ShimNext]_shimVars => ShimInv'
<1> SUFFICES ASSUME ShimInv, [ShimNext]_shimVars PROVE ShimInv'
  OBVIOUS
<1>1. CASE UNCHANGED shimVars
  BY <1>1 DEF shimVars, ShimInv, RunsWhatWasAsked
<1>. QED BY <1>1, EditPolicyKeeps, LintKeeps, GhKeeps DEF ShimNext

(* A gh behind the shim runs no more than was asked of it, on the issue and  *)
(* in the repository meant where the router reads them, leaves out no field  *)
(* that was given by its long name and that REST has without saying so, and  *)
(* a call in a text that the lint passed under the policy at hand is blocked *)
(* only where the lint does not look.  Fields given by short flags are       *)
(* dropped in silence, and nothing is stated of them.  For any policies,     *)
(* texts and calls that give no flag as another's value (router.ts, lint.ts).*)
THEOREM ShimRunsWhatIsAsked == ShimSpec => []ShimIsHonest
<1>1. ShimInit => ShimInv
  BY ShimInitially
<1>2. ShimInv /\ [ShimNext]_shimVars => ShimInv'
  BY ShimInductive
<1>3. ShimInv => ShimIsHonest
  BY DEF ShimInv, ShimIsHonest, CleanTextsRun
<1>. QED BY <1>1, <1>2, <1>3, PTL DEF ShimSpec
=============================================================================
