----------------------------- MODULE WorkItems ------------------------------
(***************************************************************************)
(* The issue board and the sessions that work on it through the CLI: the   *)
(* intake verbs (report file, triage claim/apply/park/enrich/split/kill/   *)
(* release), the execution verbs (write-code next/open-pr), the planning   *)
(* verbs (plan-epic child/write) and the orphan-heal scan.                 *)
(*                                                                         *)
(* A verb is a job of a session, and each provider call that another       *)
(* session's calls may slip in before is a step of the job.  A job may     *)
(* stop between any two of its calls, by a failed call, a refused input or *)
(* a killed session (Stop): what it wrote stays, claims included.          *)
(*                                                                         *)
(* Issues are numbered in the order they are filed.  Titles and story      *)
(* units are members of Units; comments other than claims are kept only as *)
(* what an issue has folded into it.  Every session posts with one account *)
(* that has write permission.                                              *)
(***************************************************************************)
EXTENDS Naturals, Sequences, FiniteSets, SequencesExt

CONSTANTS
  Sessions,   \* session ids
  Units,      \* title keys (childKey, unitKey)
  Prs,        \* open pull requests that may be orphaned and red
  MaxIssues,  \* bound on issues
  MaxJobs     \* bound on verbs run

ASSUME BoundsAssumption == MaxIssues \in Nat \ {0} /\ MaxJobs \in Nat
ASSUME UnitsAssumption == Units # {}

Numbers == 1..MaxIssues
None == 0
Stages == {"needs-triage", "triaged", "needs-info"}
Audiences == {"agent", "human"}
Bands == 0..3          \* p0, p1, p2 and none

VARIABLES
  issues,    \* the issues, by number
  claims,    \* number -> the sessions whose claim comments stand, oldest first
  children,  \* the sub-issues linked to the epic, which is issue 1
  opened,    \* the pull requests opened: [issue, by]
  red,       \* pull request -> what a scan sees of it
  job,       \* session -> the verb it runs
  holds,     \* session -> the issues it was told it holds
  picked,    \* session -> the issue its last `next` printed
  overlap,   \* two scans were under way at once (history)
  jobs       \* what is left of MaxJobs

vars == <<issues, claims, children, opened, red, job, holds, picked, overlap, jobs>>
board == <<issues, claims, children, opened, red>>

AnyUnit == CHOOSE u \in Units : TRUE

Idle == [cmd |-> "none", pc |-> "idle", issue |-> None, dup |-> None, stage |-> "triaged",
         audience |-> "agent", band |-> 3, wraps |-> 0, planned |-> FALSE,
         unit |-> AnyUnit, rows |-> {}]

Issue(by, stages, unit) ==
  [open |-> TRUE, by |-> by, stages |-> stages, audience |-> {}, bands |-> {}, unit |-> unit,
   wraps |-> 0, planned |-> FALSE, splitFrom |-> None, childOf |-> None, heals |-> {}, folded |-> {},
   duplicateOf |-> None, reason |-> "none"]

(* The epic, filed by a person and waiting for triage. *)
Init ==
  /\ \E u \in Units : issues = <<Issue("human", {"needs-triage"}, u)>>
  /\ claims = [i \in Numbers |-> <<>>]
  /\ children = {} /\ opened = {}
  /\ red = [p \in Prs |-> [draft |-> FALSE, ci |-> "red", laned |-> FALSE, age |-> "old"]]
  /\ job = [s \in Sessions |-> Idle]
  /\ holds = [s \in Sessions |-> {}]
  /\ picked = [s \in Sessions |-> None]
  /\ overlap = FALSE
  /\ jobs = MaxJobs

Filed == DOMAIN issues
Winner(i) == IF claims[i] = <<>> THEN {} ELSE {Head(claims[i])}

Starts(s, j) ==
  /\ job[s].pc = "idle" /\ jobs > 0
  /\ job' = [job EXCEPT ![s] = j]
  /\ jobs' = jobs - 1
Goes(s, pc) == job' = [job EXCEPT ![s].pc = pc]
Ends(s) == job' = [job EXCEPT ![s] = Idle]

-----------------------------------------------------------------------------
(* Tracker.createIssue, and the verbs that are little more. *)

CreateIssue(rec) ==
  /\ Len(issues) < MaxIssues
  /\ issues' = Append(issues, rec)

(* report file *)
File(s) ==
  /\ job[s].pc = "idle" /\ jobs > 0
  /\ \E u \in Units : CreateIssue(Issue("agent", {"needs-triage"}, u))
  /\ jobs' = jobs - 1
  /\ UNCHANGED <<claims, children, opened, red, job, holds, picked, overlap>>

(* split-guard's question, then triage split: the guard looks for the      *)
(* back-reference among the issues still in the queue.                     *)
FindExistingChild(parent, unit) ==
  {i \in Filed : /\ issues[i].open /\ "needs-triage" \in issues[i].stages
                 /\ issues[i].splitFrom = parent /\ issues[i].unit = unit}

SplitChild(j) == [Issue("agent", {"needs-triage"}, j.unit) EXCEPT !.splitFrom = j.issue]

SplitCheck(s) ==
  \E i \in Filed, u \in Units :
    /\ Starts(s, [Idle EXCEPT !.cmd = "split", !.pc = IF FindExistingChild(i, u) = {}
                                                        THEN "split.create" ELSE "idle",
                              !.issue = i, !.unit = u])
    /\ UNCHANGED <<board, holds, picked, overlap>>

SplitCreate(s) ==
  /\ job[s].pc = "split.create"
  /\ CreateIssue(SplitChild(job[s]))
  /\ Ends(s)
  /\ UNCHANGED <<claims, children, opened, red, holds, picked, overlap, jobs>>

-----------------------------------------------------------------------------
(* Tracker.claim and Tracker.releaseClaim. *)

ClaimRead(s) ==
  \E i \in Filed :
    /\ Starts(s, [Idle EXCEPT !.cmd = "claim", !.issue = i,
                              !.pc = IF Winner(i) = {} THEN "claim.post" ELSE "idle"])
    /\ holds' = [holds EXCEPT ![s] = IF Winner(i) = {s} THEN @ \cup {i} ELSE @]
    /\ UNCHANGED <<board, picked, overlap>>

ClaimPost(s) ==
  /\ job[s].pc = "claim.post"
  /\ claims' = [claims EXCEPT ![job[s].issue] = Append(@, s)]
  /\ Goes(s, "claim.check")
  /\ UNCHANGED <<issues, children, opened, red, holds, picked, overlap, jobs>>

(* Faulty variant: having posted is having won. *)
ClaimUnchecked(s) ==
  /\ job[s].pc = "claim.check"
  /\ holds' = [holds EXCEPT ![s] = @ \cup {job[s].issue}]
  /\ Ends(s)
  /\ UNCHANGED <<board, picked, overlap, jobs>>

ClaimCheck(s) ==
  /\ job[s].pc = "claim.check"
  /\ IF Winner(job[s].issue) = {s}
       THEN /\ holds' = [holds EXCEPT ![s] = @ \cup {job[s].issue}]
            /\ Ends(s)
       ELSE /\ Goes(s, "claim.retract")
            /\ UNCHANGED holds
  /\ UNCHANGED <<board, picked, overlap, jobs>>

OwnClaims(i, s) == {k \in DOMAIN claims[i] : claims[i][k] = s}

(* Deleting a claim comment is best-effort: Stop leaves it.  A session has *)
(* one on an issue at most, since it posts where it read none.             *)
ClaimRetract(s) ==
  /\ job[s].pc \in {"claim.retract", "release.delete"}
  /\ LET i == job[s].issue
     IN  IF OwnClaims(i, s) = {} THEN UNCHANGED claims
         ELSE \E k \in OwnClaims(i, s) : claims' = [claims EXCEPT ![i] = RemoveAt(@, k)]
  /\ Ends(s)
  /\ UNCHANGED <<issues, children, opened, red, holds, picked, overlap, jobs>>

ReleaseList(s) ==
  \E i \in Filed :
    /\ Starts(s, [Idle EXCEPT !.cmd = "release", !.pc = "release.delete", !.issue = i])
    /\ holds' = [holds EXCEPT ![s] = @ \ {i}]
    /\ UNCHANGED <<board, picked, overlap>>

-----------------------------------------------------------------------------
(* Tracker.applyTriage: triage apply, triage park and plan-epic child. *)

Triage(s) ==
  /\ \E i \in Filed, band \in {0, 2}, stage \in {"triaged", "needs-info"}, who \in Audiences :
       /\ stage = "needs-info" => who = "human" /\ band = 2
       /\ Starts(s, [Idle EXCEPT !.cmd = "triage", !.pc = "labels.add", !.issue = i,
                                 !.band = band, !.stage = stage, !.audience = who])
  /\ UNCHANGED <<board, holds, picked, overlap>>

LabelsAdded(issue, j) ==
  [issue EXCEPT !.stages = @ \cup {j.stage}, !.audience = @ \cup {j.audience},
                !.bands = @ \cup {j.band}]

AddLabels(s) ==
  /\ job[s].pc = "labels.add"
  /\ issues' = [issues EXCEPT ![job[s].issue] = LabelsAdded(@, job[s])]
  /\ Goes(s, "labels.remove")
  /\ UNCHANGED <<claims, children, opened, red, holds, picked, overlap, jobs>>

QueueLabelRemoved(issue) == [issue EXCEPT !.stages = @ \ {"needs-triage"}]

(* A removal that fails is ignored. *)
RemoveQueueLabel(s) ==
  /\ job[s].pc = "labels.remove"
  /\ \/ issues' = [issues EXCEPT ![job[s].issue] = QueueLabelRemoved(@)]
     \/ UNCHANGED issues
  /\ IF job[s].cmd = "child" THEN Goes(s, "child.link") ELSE Ends(s)
  /\ UNCHANGED <<claims, children, opened, red, holds, picked, overlap, jobs>>

-----------------------------------------------------------------------------
(* Bodies: triage enrich and plan-epic write both read, compose, replace.  *)
(* `wraps` counts preserve blocks around the original text, `planned` says *)
(* the dependency section is there.                                        *)

HasPreserveBlock(body) == body.wraps > 0

EnrichRead(s) ==
  /\ \E i \in Filed :
       /\ ~HasPreserveBlock(issues[i])
       /\ Starts(s, [Idle EXCEPT !.cmd = "enrich", !.pc = "enrich.write", !.issue = i,
                                 !.wraps = issues[i].wraps, !.planned = issues[i].planned])
  /\ UNCHANGED <<board, holds, picked, overlap>>

WriteRead(s) ==
  /\ Starts(s, [Idle EXCEPT !.cmd = "write", !.pc = "plan.write", !.issue = 1,
                            !.wraps = issues[1].wraps, !.planned = issues[1].planned])
  /\ UNCHANGED <<board, holds, picked, overlap>>

(* Faulty variant: composed from what the issue holds at the time. *)
WrapWhatIsThere(issue, j) == [issue EXCEPT !.wraps = @ + 1]

ComposeEnriched(issue, j) == [issue EXCEPT !.wraps = j.wraps + 1, !.planned = j.planned]

ComposePlan(issue, j) == [issue EXCEPT !.wraps = j.wraps, !.planned = TRUE]

ReplaceBody(s) ==
  /\ job[s].pc \in {"enrich.write", "plan.write"}
  /\ issues' = [issues EXCEPT ![job[s].issue] =
                   IF job[s].cmd = "enrich" THEN ComposeEnriched(@, job[s])
                                            ELSE ComposePlan(@, job[s])]
  /\ Ends(s)
  /\ UNCHANGED <<claims, children, opened, red, holds, picked, overlap, jobs>>

-----------------------------------------------------------------------------
(* triage kill and Tracker.graduate. *)

KillRead(s) ==
  /\ \E i \in Filed, d \in Filed \cup {None} :
       /\ issues[i].by = "agent"
       /\ Starts(s, [Idle EXCEPT !.cmd = "kill", !.pc = IF d = None THEN "kill.close" ELSE "kill.fold",
                                 !.issue = i, !.dup = d])
  /\ UNCHANGED <<board, holds, picked, overlap>>

(* Faulty variant: close, then fold. *)
KillCloseFirst(s) ==
  /\ job[s].pc = "kill.fold"
  /\ issues' = [issues EXCEPT ![job[s].issue].open = FALSE, ![job[s].issue].reason = "not_planned",
                              ![job[s].issue].duplicateOf = job[s].dup]
  /\ Ends(s)
  /\ UNCHANGED <<claims, children, opened, red, holds, picked, overlap, jobs>>

Folded(issue, dup) == [issue EXCEPT !.folded = @ \cup {dup}]

KillFold(s) ==
  /\ job[s].pc = "kill.fold"
  /\ issues' = [issues EXCEPT ![job[s].dup] = Folded(@, job[s].issue)]
  /\ Goes(s, "kill.close")
  /\ UNCHANGED <<claims, children, opened, red, holds, picked, overlap, jobs>>

(* closeNotPlanned, or the graduation's close as completed. *)
Closed(issue, j) ==
  IF j.cmd = "kill"
    THEN [issue EXCEPT !.open = FALSE, !.reason = "not_planned", !.duplicateOf = j.dup]
    ELSE [issue EXCEPT !.open = FALSE, !.reason = "completed"]

Close(s) ==
  /\ job[s].pc \in {"kill.close", "graduate.close"}
  /\ issues' = [issues EXCEPT ![job[s].issue] = Closed(@, job[s])]
  /\ Ends(s)
  /\ UNCHANGED <<claims, children, opened, red, holds, picked, overlap, jobs>>

Graduate(s) ==
  /\ \E i \in Filed : Starts(s, [Idle EXCEPT !.cmd = "graduate", !.pc = "graduate.close",
                                             !.issue = i])
  /\ UNCHANGED <<board, holds, picked, overlap>>

-----------------------------------------------------------------------------
(* write-code next and open-pr. *)

BandOf(i) == IF issues[i].bands = {} THEN 3 ELSE CHOOSE b \in issues[i].bands :
                                                  \A c \in issues[i].bands : b <= c

(* The first ready-for label counts. *)
AudienceIsAgent(i) == "agent" \in issues[i].audience

(* The rows of the triaged stage an agent may take, as one call lists them. *)
RankCandidates ==
  {[issue |-> i, band |-> BandOf(i)] : i \in {i \in Filed : /\ issues[i].open
                                                            /\ "triaged" \in issues[i].stages
                                                            /\ AudienceIsAgent(i)}}

NextList(s) ==
  /\ Starts(s, [Idle EXCEPT !.cmd = "next", !.pc = "next.probe", !.rows = RankCandidates])
  /\ UNCHANGED <<board, holds, picked, overlap>>

(* Best band first, then oldest; the first one nobody holds. *)
Outranks(a, b) == a.band < b.band \/ (a.band = b.band /\ a.issue < b.issue)

NextProbe(s) ==
  /\ job[s].pc = "next.probe"
  /\ LET best == {r \in job[s].rows : \A q \in job[s].rows \ {r} : Outranks(r, q)}
     IN  \/ /\ best = {}
            /\ picked' = [picked EXCEPT ![s] = None]
            /\ Ends(s)
         \/ \E r \in best :
              IF Winner(r.issue) = {}
                THEN /\ picked' = [picked EXCEPT ![s] = r.issue]
                     /\ Ends(s)
                ELSE /\ job' = [job EXCEPT ![s].rows = @ \ {r}]
                     /\ UNCHANGED picked
  /\ UNCHANGED <<board, holds, overlap, jobs>>

OpenPrCheck(s) ==
  /\ \E i \in Filed :
       /\ Winner(i) \subseteq {s}
       /\ Starts(s, [Idle EXCEPT !.cmd = "open-pr", !.pc = "pr.open", !.issue = i])
  /\ UNCHANGED <<board, holds, picked, overlap>>

OpenPullRequest(s) ==
  /\ job[s].pc = "pr.open"
  /\ opened' = opened \cup {[issue |-> job[s].issue, by |-> s]}
  /\ Ends(s)
  /\ UNCHANGED <<issues, claims, children, red, holds, picked, overlap, jobs>>

-----------------------------------------------------------------------------
(* plan-epic child, which runs under the epic's lock: one at a time. *)

Planning == {s \in Sessions : job[s].cmd = "child"}

ChildList(s) ==
  /\ Planning = {}
  /\ \E u \in Units :
       Starts(s, [Idle EXCEPT !.cmd = "child", !.unit = u, !.issue = 1,
                              !.pc = IF \E c \in children : issues[c].unit = u
                                       THEN "idle" ELSE "child.create"])
  /\ UNCHANGED <<board, holds, picked, overlap>>

EpicChild(j) == [Issue("agent", {"triaged"}, j.unit) EXCEPT !.childOf = 1]

ChildCreate(s) ==
  /\ job[s].pc = "child.create"
  /\ CreateIssue(EpicChild(job[s]))
  /\ job' = [job EXCEPT ![s].pc = "labels.add", ![s].issue = Len(issues) + 1, ![s].band = 2]
  /\ UNCHANGED <<claims, children, opened, red, holds, picked, overlap, jobs>>

LinkSubIssue(s) ==
  /\ job[s].pc = "child.link"
  /\ children' = children \cup {job[s].issue}
  /\ Ends(s)
  /\ UNCHANGED <<issues, claims, opened, red, holds, picked, overlap, jobs>>

-----------------------------------------------------------------------------
(* orphan-heal scan. *)

HealTargets == UNION {issues[i].heals : i \in {i \in Filed : issues[i].open}}

(* Faulty variant: a known heal item does not stop another. *)
PlanAnew(seen, existing) ==
  {p \in Prs : ~seen[p].draft /\ seen[p].ci = "red" /\ ~seen[p].laned /\ seen[p].age = "old"}

(* Every gate must hold positively. *)
PlanHealItems(seen, existing) ==
  {p \in Prs : /\ ~seen[p].draft /\ seen[p].ci = "red" /\ ~seen[p].laned
               /\ seen[p].age = "old"
               /\ p \notin existing}

Scanning == {s \in Sessions : job[s].cmd = "scan"}

(* The open pull requests and the existing heal targets are listed together, *)
(* the state of each pull request's checks and lane after that.              *)
ScanList(s) ==
  /\ Starts(s, [Idle EXCEPT !.cmd = "scan", !.pc = "scan.snapshot", !.rows = HealTargets])
  /\ overlap' = (overlap \/ Scanning # {})
  /\ UNCHANGED <<board, holds, picked>>

ScanSnapshot(s) ==
  /\ job[s].pc = "scan.snapshot"
  /\ job' = [job EXCEPT ![s].pc = "scan.file", ![s].rows = PlanHealItems(red, job[s].rows)]
  /\ UNCHANGED <<board, holds, picked, overlap, jobs>>

HealItem(p) == [Issue("agent", {"triaged"}, AnyUnit) EXCEPT !.heals = {p}, !.bands = {1}]

CreateHealItem(s) ==
  /\ job[s].pc = "scan.file"
  /\ IF job[s].rows = {}
       THEN Ends(s) /\ UNCHANGED issues
       ELSE \E p \in job[s].rows :
              /\ CreateIssue(HealItem(p))
              /\ job' = [job EXCEPT ![s].rows = @ \ {p}]
  /\ UNCHANGED <<claims, children, opened, red, holds, picked, overlap, jobs>>

(* The pull request turns green or red again, or joins a lane. *)
PrChanges ==
  /\ jobs > 0
  /\ \E p \in Prs :
       \/ red' = [red EXCEPT ![p].ci = IF @ = "red" THEN "green" ELSE "red", ![p].age = "young"]
       \/ red[p].age = "young" /\ red' = [red EXCEPT ![p].age = "old"]
       \/ ~red[p].laned /\ red' = [red EXCEPT ![p].laned = TRUE]
  /\ jobs' = jobs - 1
  /\ UNCHANGED <<issues, claims, children, opened, job, holds, picked, overlap>>

-----------------------------------------------------------------------------
Stop(s) ==
  /\ job[s].pc # "idle"
  /\ Ends(s)
  /\ UNCHANGED <<board, holds, picked, overlap, jobs>>

Intake(s) == \/ File(s) \/ SplitCheck(s) \/ SplitCreate(s) \/ Triage(s) \/ AddLabels(s)
             \/ RemoveQueueLabel(s) \/ EnrichRead(s) \/ ReplaceBody(s)
             \/ KillRead(s) \/ KillFold(s) \/ Close(s) \/ Graduate(s)
Claiming(s) == \/ ClaimRead(s) \/ ClaimPost(s) \/ ClaimCheck(s) \/ ClaimRetract(s)
               \/ ReleaseList(s)
Executing(s) == \/ NextList(s) \/ NextProbe(s) \/ OpenPrCheck(s) \/ OpenPullRequest(s)
Planner(s) == \/ ChildList(s) \/ ChildCreate(s) \/ LinkSubIssue(s) \/ WriteRead(s)
Healing(s) == \/ ScanList(s) \/ ScanSnapshot(s) \/ CreateHealItem(s)

Next ==
  \/ \E s \in Sessions : \/ Intake(s) \/ Claiming(s) \/ Executing(s) \/ Planner(s)
                         \/ Healing(s) \/ Stop(s)
  \/ PrChanges

Spec == Init /\ [][Next]_vars

-----------------------------------------------------------------------------
(* Properties. *)

IssueType ==
  [open : BOOLEAN, by : Audiences, stages : SUBSET Stages, audience : SUBSET Audiences,
   bands : SUBSET Bands, unit : Units, wraps : Nat, planned : BOOLEAN,
   splitFrom : Numbers \cup {None}, childOf : {1, None}, heals : SUBSET Prs, folded : SUBSET Numbers,
   duplicateOf : Numbers \cup {None}, reason : {"none", "not_planned", "completed"}]

Rows == [issue : Numbers, band : Bands] \cup Prs

Verbs == {"none", "split", "claim", "release", "triage", "enrich", "write", "kill", "graduate",
          "next", "open-pr", "child", "scan"}

(* Where a verb can be: before the call it names. *)
Places == {"idle", "split.create", "claim.post", "claim.check", "claim.retract", "release.delete",
           "labels.add", "labels.remove", "enrich.write", "plan.write", "kill.fold", "kill.close",
           "graduate.close", "next.probe", "pr.open", "child.create", "child.link", "scan.snapshot",
           "scan.file"}

JobType ==
  [cmd : Verbs, pc : Places, issue : Numbers \cup {None}, dup : Numbers \cup {None},
   stage : Stages, audience : Audiences, band : Bands, wraps : Nat, planned : BOOLEAN, unit : Units,
   rows : SUBSET Rows]

(* Every variable stays in its type, and what names an issue names one that *)
(* was filed.                                                               *)
TypeOK ==
  /\ issues \in Seq(IssueType) /\ Len(issues) \in Numbers
  /\ claims \in [Numbers -> Seq(Sessions)]
  /\ children \subseteq Filed
  /\ opened \subseteq [issue : Filed, by : Sessions]
  /\ job \in [Sessions -> JobType]
  /\ \A s \in Sessions : job[s].issue \in Filed \cup {None} /\ job[s].dup \in Filed \cup {None}
  /\ holds \in [Sessions -> SUBSET Filed]
  /\ picked \in [Sessions -> Filed \cup {None}]
  /\ overlap \in BOOLEAN /\ jobs \in 0..MaxJobs

(* At most one session believes it holds an issue, whatever claims are     *)
(* posted, retracted, released or left behind meanwhile: Tracker.claim's   *)
(* second read decides, not the first.                                     *)
OneHolder ==
  \A s, t \in Sessions : s # t => holds[s] \cap holds[t] = {}

(* The original text is preserved exactly once, however enrichments and    *)
(* plan writes that each replace the whole body interleave.                *)
PreservedOnce == \A i \in Filed : issues[i].wraps <= 1

(* Whatever was killed as a duplicate has been folded into the issue named *)
(* as the survivor, even if the kill stopped half-way; and what a person   *)
(* filed is never closed as not planned.                                   *)
NothingKilledIsLost ==
  \A i \in Filed :
    issues[i].reason = "not_planned" =>
      /\ issues[i].by = "agent"
      /\ issues[i].duplicateOf # None => i \in issues[issues[i].duplicateOf].folded

(* Scans that do not overlap never leave two open heal items for one pull  *)
(* request (planHealItems: "re-running the detector never files a second   *)
(* heal-item").                                                            *)
HealedOnce ==
  ~overlap => \A i, j \in Filed :
    issues[i].open /\ issues[j].open /\ issues[i].heals \cap issues[j].heals # {} => i = j

=============================================================================
