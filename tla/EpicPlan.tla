----------------------------- MODULE EpicPlan ------------------------------
(***************************************************************************)
(* The review-plan gate and the re-plan loop around it, on one epic.       *)
(*                                                                         *)
(* The gate reads the epic, the list of its sub-issues, then each child;   *)
(* it flips every planned child of a ledger without defects to triaged,    *)
(* or reports the defects, on which the loop has the epic re-planned and   *)
(* gates again, until the defects stop shrinking.  Each provider call is a *)
(* step and any of them may fail, which ends the run where it is.  The     *)
(* planner's agent edits the epic and its children while it is called and  *)
(* a person may at any time.                                               *)
(***************************************************************************)
EXTENDS LedgerRules

CONSTANTS
  Epic,      \* the epic's number
  Kids,      \* issue numbers that may be children
  Stories,   \* user stories the epic may declare
  Plans,     \* the Dependencies sections it may carry: [present, phases]
  Absent,    \* issue numbers that do not exist
  CycleDoc,  \* the repository carries product-development-cycle.md
  Ceiling,   \* DEFAULT_CEILING
  MaxEdits,  \* bound on edits
  MaxRuns    \* bound on runs of the loop

ASSUME LoopAssumption == Ceiling \in Nat \ {0} /\ MaxEdits \in Nat /\ MaxRuns \in Nat
(* A section is a sequence of phases, whose rows name issues by number.    *)
ASSUME PlansAssumption ==
  \A plan \in Plans : /\ plan.phases \in Seq(SUBSET [issue : Nat, requires : SUBSET Nat])
                     /\ IsFiniteSet(Nodes(plan.phases))
(* The epic exists, and so does what may be linked to it.                  *)
ASSUME AbsentAssumption == Absent \cap (Kids \cup {Epic}) = {}

VARIABLES
  epic,     \* [plan, stories, parked]
  linked,   \* the children linked to the epic
  kids,     \* child -> what it parses to
  call,     \* the loop's next call
  read,     \* what the gate has read so far
  todo,     \* children the gate has still to read or to flip
  flipped,  \* children this gate has flipped (history)
  quiet,    \* nobody edited anything since this gate's first read (history)
  prev,     \* the last pass: [known, defects]
  replans,  \* re-plans of this run (the iteration, less one)
  edits, runs

planVars == <<epic, linked, kids, call, read, todo, flipped, quiet, prev, replans, edits, runs>>
board == <<epic, linked, kids>>
memory == <<prev, replans>>

Child == [criteria |-> 1, stories |-> Stories, labelled |-> TRUE, containment |-> "flag",
          stages |-> {"planned"}]
Nothing == [present |-> FALSE, phases |-> <<>>, stories |-> {}, children |-> <<>>,
            external |-> {}, cycleDoc |-> CycleDoc]
Stub == [criteria |-> 0, stories |-> {"absent"}, labelled |-> FALSE, containment |-> "absent",
         stages |-> {"planned"}]
NoPass == [known |-> FALSE, defects |-> {}]

(* A plan as plan-epic leaves it, good or not. *)
PlanInit ==
  /\ epic \in [plan : Plans, stories : {Stories}, parked : {FALSE}]
  /\ linked = Kids
  /\ kids \in [Kids -> {Child, Stub}]
  /\ call = "idle" /\ read = Nothing /\ todo = {} /\ flipped = {} /\ quiet = TRUE
  /\ prev = NoPass /\ replans = 0
  /\ edits = MaxEdits /\ runs = MaxRuns

Over == {"idle", "converged", "parked", "failed"}

Start ==
  /\ call \in Over /\ runs > 0
  /\ call' = "epic" /\ prev' = NoPass /\ replans' = 0
  /\ runs' = runs - 1
  /\ UNCHANGED <<board, read, todo, flipped, quiet, edits>>

-----------------------------------------------------------------------------
(* loadEpicLedger *)

ReadEpic ==
  /\ call = "epic"
  /\ read' = [Nothing EXCEPT !.present = epic.plan.present, !.phases = epic.plan.phases,
                             !.stories = epic.stories]
  /\ quiet' = TRUE /\ flipped' = {}
  /\ call' = "list"
  /\ UNCHANGED <<board, todo, memory, edits, runs>>

ListSubIssues ==
  /\ call = "list"
  /\ todo' = linked
  /\ call' = "children"
  /\ UNCHANGED <<board, read, flipped, quiet, memory, edits, runs>>

(* The children are read at once, so in any order. *)
ReadChild ==
  /\ call = "children" /\ todo # {}
  /\ \E n \in todo :
       /\ read' = [read EXCEPT !.children =
                     [c \in DOMAIN @ \cup {n} |-> IF c = n THEN kids[n] ELSE @[c]]]
       /\ todo' = todo \ {n}
  /\ UNCHANGED <<board, call, flipped, quiet, memory, edits, runs>>

(* What is named and neither the epic nor a child is probed for existence. *)
ResolveExternalRefs(ledger) ==
  [ledger EXCEPT !.external =
     (IF ledger.present THEN Nodes(ledger.phases) ELSE {}) \ (DOMAIN ledger.children \cup {Epic} \cup Absent)]

PlannedChildren(ledger) ==
  {n \in DOMAIN ledger.children : "planned" \in ledger.children[n].stages}

(* Faulty variant: a stall is gated once more instead of parked. *)
GatesAgain(defects) ==
  IF prev.known /\ Cardinality(defects) >= Cardinality(prev.defects) THEN "epic"
  ELSE IF replans + 1 >= Ceiling THEN "park.comment" ELSE "replan"

(* What a failed pass leads to: the same defects again and as many defects *)
(* as before are stalls, and the ceiling stops the next pass.              *)
AfterFail(defects) ==
  IF prev.known /\ (defects = prev.defects \/ Cardinality(defects) >= Cardinality(prev.defects))
    THEN "park.comment"
    ELSE IF replans + 1 >= Ceiling THEN "park.comment" ELSE "replan"

Judge ==
  /\ call = "children" /\ todo = {}
  /\ LET ledger == ResolveExternalRefs(read)
         defects == ValidateLedger(ledger, Epic)
     IN /\ read' = ledger
        /\ \/ /\ defects = {}
              /\ call' = "flip"
              /\ todo' = PlannedChildren(ledger)
              /\ UNCHANGED memory
           \/ /\ defects # {}
              /\ call' = AfterFail(defects)
              /\ prev' = [known |-> TRUE, defects |-> defects]
              /\ replans' = IF AfterFail(defects) = "replan" THEN replans + 1 ELSE replans
              /\ UNCHANGED todo
  /\ UNCHANGED <<board, flipped, quiet, edits, runs>>

-----------------------------------------------------------------------------
(* flipChildToTriaged, for every planned child at once. *)

AddTriaged ==
  /\ call = "flip"
  /\ \E n \in todo \ flipped :
       /\ kids' = [kids EXCEPT ![n].stages = @ \cup {"triaged"}]
       /\ flipped' = flipped \cup {n}
  /\ UNCHANGED <<epic, linked, call, read, todo, quiet, memory, edits, runs>>

(* Removing a label an issue does not carry is a failed call. *)
RemovePlanned ==
  /\ call = "flip"
  /\ \E n \in todo \cap flipped :
       /\ "planned" \in kids[n].stages
       /\ kids' = [kids EXCEPT ![n].stages = @ \ {"planned"}]
       /\ todo' = todo \ {n}
  /\ UNCHANGED <<epic, linked, call, read, flipped, quiet, memory, edits, runs>>

PostPass ==
  /\ call = "flip" /\ todo = {}
  /\ call' = "converged"
  /\ UNCHANGED <<board, read, todo, flipped, quiet, memory, edits, runs>>

-----------------------------------------------------------------------------
(* park *)

PostParked ==
  /\ call = "park.comment"
  /\ call' = "park.label"
  /\ UNCHANGED <<board, read, todo, flipped, quiet, memory, edits, runs>>

ParkNeedsInfo ==
  /\ call = "park.label"
  /\ epic' = [epic EXCEPT !.parked = TRUE]
  /\ call' = "parked"
  /\ UNCHANGED <<linked, kids, read, todo, flipped, quiet, memory, edits, runs>>

(* rePlan returns when the planner's agent has finished. *)
RePlanned ==
  /\ call = "replan"
  /\ call' = "epic"
  /\ UNCHANGED <<board, read, todo, flipped, quiet, memory, edits, runs>>

Fail ==
  /\ call \notin Over
  /\ call' = "failed"
  /\ UNCHANGED <<board, read, todo, flipped, quiet, memory, edits, runs>>

-----------------------------------------------------------------------------
(* Edits of the epic and its children, by the planner's agent or a person. *)

Edit ==
  /\ edits > 0
  /\ \/ /\ \E p \in Plans : epic' = [epic EXCEPT !.plan = p]
        /\ UNCHANGED <<linked, kids>>
     \/ /\ \E s \in SUBSET Stories : epic' = [epic EXCEPT !.stories = s]
        /\ UNCHANGED <<linked, kids>>
     \/ /\ \E n \in Kids : linked' \in {linked \cup {n}, linked \ {n}}
        /\ UNCHANGED <<epic, kids>>
     \/ /\ \E n \in Kids :
             \/ \E c \in {0, 1} : kids' = [kids EXCEPT ![n].criteria = c]
             \/ \E s \in {{}, Stories} : kids' = [kids EXCEPT ![n].stories = s]
             \/ \E l \in BOOLEAN : kids' = [kids EXCEPT ![n].labelled = l]
             \/ \E c \in {"none", "exempt"} : kids' = [kids EXCEPT ![n].containment = c]
             \/ kids' = [kids EXCEPT ![n].stages = @ \cup {"needs-triage"}]
        /\ UNCHANGED <<epic, linked>>
  /\ quiet' = FALSE
  /\ edits' = edits - 1
  /\ UNCHANGED <<call, read, todo, flipped, memory, runs>>

Loop == \/ ReadEpic \/ ListSubIssues \/ ReadChild \/ Judge \/ AddTriaged \/ RemovePlanned
        \/ PostPass \/ PostParked \/ ParkNeedsInfo \/ RePlanned

PlanNext == Start \/ Loop \/ Fail \/ Edit

(* Every call of a run returns or fails, the planner's included. *)
PlanSpec == PlanInit /\ [][PlanNext]_planVars /\ WF_planVars(Fail \/ Loop)

-----------------------------------------------------------------------------
(* Properties. *)

Stages == {"planned", "triaged", "needs-triage"}

(* Every variable stays in its type, and no issue is at once a child of    *)
(* the ledger and external to it.                                          *)
PlanTypeOK ==
  /\ epic \in [plan : Plans, stories : SUBSET Stories, parked : BOOLEAN]
  /\ linked \subseteq Kids
  /\ \A n \in Kids : kids[n].stages \subseteq Stages
  /\ DOMAIN read.children \subseteq Kids /\ read.external \cap DOMAIN read.children = {}
  /\ todo \subseteq Kids /\ flipped \subseteq Kids
  /\ prev.known \in BOOLEAN /\ replans \in Nat
  /\ edits \in 0..MaxEdits /\ runs \in 0..MaxRuns

(* What a row waits on, and a plan that can be executed: no child waits    *)
(* for itself, nothing named is missing, every story and every child is    *)
(* accounted for.  It shares nothing with validateLedger.                  *)
Waits(phases) ==
  {e \in Nodes(phases) \X Nodes(phases) :
     \E k \in DOMAIN phases : \E row \in phases[k] :
       /\ row.issue = e[1] /\ e[2] # e[1]
       /\ \/ e[2] \in row.requires
          \/ row.requires = {} /\ \E j \in 1..(k - 1) : \E other \in phases[j] : other.issue = e[2]}

Executable ==
  LET named == Nodes(epic.plan.phases)
  IN /\ epic.plan.present /\ linked # {}
     /\ \A n \in linked : ~WaitsForever(Waits(epic.plan.phases), n) /\ n \in named
     /\ named \cap Absent = {}
     /\ epic.stories # {} /\ epic.stories \subseteq UNION {kids[n].stories : n \in linked}
     /\ \A n \in linked :
          /\ kids[n].criteria > 0 /\ kids[n].labelled /\ kids[n].stories # {"absent"}
          /\ "needs-triage" \notin kids[n].stages
          /\ CycleDoc => kids[n].containment \in {"flag", "exempt"}

(* As long as nobody edits the epic under the gate, the children it makes  *)
(* pickable belong to a plan that can be executed.                         *)
PickableIsSound == quiet /\ flipped # {} => Executable

(* Every run of the loop converges, parks or fails. *)
LoopEnds == (call \notin Over) ~> (call \in Over)
=============================================================================
