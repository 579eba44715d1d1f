---------------------------- MODULE MCPlanning -----------------------------
(***************************************************************************)
(* The documents of planning, for TLC: an epic under review-plan           *)
(* (EpicPlan), a wayfinder map (WayfinderMap), and the lock on an epic     *)
(* (EpicLock).  They share no state, so a behaviour is about one of them   *)
(* and leaves the others as they began.                                    *)
(*                                                                         *)
(* The epic has two children and an issue of another epic; its plans are   *)
(* sound, absent, partial, cyclic in two ways, or name what is missing;    *)
(* one child is a stub at first, and edits take parts from either.         *)
(* The lock is sought by three sessions, under one login as the pipeline   *)
(* runs them.                                                              *)
(***************************************************************************)
EXTENDS EpicPlan, WayfinderMap, EpicLock

CONSTANTS s1, s2, s3, bot

VARIABLE document

allVars == <<document, planVars, mapVars, vars>>

SharedLogin == [s \in Sessions |-> bot]

Row(n, r) == [issue |-> n, requires |-> r]
Plan(phases) == [present |-> TRUE, phases |-> phases]
SoundPlan == Plan(<<{Row(2, {})}, {Row(3, {})}>>)

PlansDef ==
  {[present |-> FALSE, phases |-> <<>>],
   SoundPlan,
   Plan(<<{Row(2, {})}>>),
   Plan(<<{Row(2, {3}), Row(3, {2})}>>),
   Plan(<<{Row(2, {8})}, {Row(8, {3}), Row(3, {2})}>>),
   Plan(<<{Row(2, {1}), Row(3, {9})}>>)}

InitAll ==
  /\ PlanInit /\ MapInit /\ Init
  /\ \/ document = "epic" /\ kids[2] = Child
     \/ document \in {"map", "lock"} /\ epic.plan = SoundPlan /\ kids = [n \in Kids |-> Child]

NextAll ==
  \/ document = "epic" /\ PlanNext /\ UNCHANGED <<document, mapVars, vars>>
  \/ document = "map" /\ MapNext /\ UNCHANGED <<document, planVars, vars>>
  \/ document = "lock" /\ Next /\ UNCHANGED <<document, planVars, mapVars>>

SpecAll ==
  /\ InitAll /\ [][NextAll]_allVars
  /\ WF_planVars(document = "epic" /\ (Fail \/ Loop))
  /\ \A s \in Sessions : WF_vars(document = "lock" /\ Session(s))
  /\ WF_vars(document = "lock" /\ HumanClearsLabel)

\* The lock of an epic is held again and again until a call fails or a session dies (EpicLock).
LockedEpicIsPlannableAgain == document = "lock" => PlannableAgain
=============================================================================
