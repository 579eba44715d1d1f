------------------------------ MODULE Recovery ------------------------------
(***************************************************************************)
(* The workflow that drives one issue through its stages, an agent to each *)
(* stage, and what is done when an agent asks to go on, hands in malformed *)
(* output, backs off, or dies.  The commands of pipeline-cli decide:        *)
(* drive-issue-flow (stage results, healthy resumes), structured-output-    *)
(* guard (retries of the output), failure-classifier and resume-policy      *)
(* (resumes of a crashed run).  The workflow script that asks them keeps    *)
(* the counts; a resumed run replays its completed stages from a journal.   *)
(*                                                                         *)
(* A crash signal is the set of signatures its text matches.               *)
(***************************************************************************)
EXTENDS Naturals

CONSTANTS
  Stages,             \* how many stages there are; the first one builds
  RESUME_CAP,         \* resumes of one crashed run
  HEALTHY_RESUME_CAP, \* resumes of one healthy agent
  RETRY_CAP,          \* retries of malformed output
  MaxRuns             \* bound on runs of the issue

VARIABLES
  pc,       \* where the run is
  run,      \* which run of the issue it is
  done,     \* completed stages, as the journal has them
  resumes,  \* how often this run was resumed after a crash
  agent,    \* the agent at work: [cycles, retries]
  signal    \* what the last crash said

vars == <<pc, run, done, resumes, agent, signal>>

Signals == SUBSET {"transient", "logic"}
Fresh   == [cycles |-> 0, retries |-> 0]
Over    == {"done", "backedOff", "surfaced"}

TypeOK ==
  /\ pc \in {"working", "crashed"} \cup Over
  /\ run \in 1..MaxRuns /\ done \in 0..Stages
  /\ resumes \in 0..RESUME_CAP
  /\ agent \in [cycles : 0..HEALTHY_RESUME_CAP, retries : 0..RETRY_CAP]
  /\ signal \in Signals

Init ==
  /\ pc = "working" /\ run = 1 /\ done = 0
  /\ resumes = 0 /\ agent = Fresh /\ signal = {}

(***************************************************************************)
(* An agent at work.                                                        *)
(***************************************************************************)
Crash(s) ==
  /\ pc' = "crashed" /\ signal' = s
  /\ UNCHANGED <<run, done, resumes, agent>>

\* It wants another cycle: the same agent, or past the cap a fresh one.
ResumeCapDecision ==
  IF agent.cycles >= HEALTHY_RESUME_CAP THEN Fresh ELSE [agent EXCEPT !.cycles = @ + 1]

AsksForMore ==
  /\ pc = "working"
  /\ agent' = ResumeCapDecision
  /\ UNCHANGED <<pc, run, done, resumes, signal>>

\* Output with a required field missing is handed in again, up to the cap; then the
\* stage fails, in words that match no transient signature.
MalformedOutput ==
  /\ pc = "working"
  /\ IF agent.retries >= RETRY_CAP
       THEN Crash({})
       ELSE /\ agent' = [agent EXCEPT !.retries = @ + 1]
            /\ UNCHANGED <<pc, run, done, resumes, signal>>

\* stageResult aborts the stage over a null result, in words that match.
NullResult == pc = "working" /\ Crash({"transient"})

AgentDies == pc = "working" /\ \E s \in Signals : Crash(s)

StageCompletes ==
  /\ pc = "working"
  /\ done' = done + 1 /\ agent' = Fresh
  /\ pc' = IF done' = Stages THEN "done" ELSE "working"
  /\ UNCHANGED <<run, resumes, signal>>

\* The build stage's result names no pull request.
CoderBacksOff ==
  /\ pc = "working" /\ done = 0
  /\ pc' = "backedOff"
  /\ UNCHANGED <<run, done, resumes, agent, signal>>

(***************************************************************************)
(* A crashed run.                                                           *)
(***************************************************************************)
Classify(s) == IF "transient" \in s THEN "transient" ELSE "logic"

DecideUncapped(s, prior) == IF Classify(s) = "transient" THEN "resume" ELSE "surface"

DecideResume(s, prior) ==
  IF Classify(s) = "transient" /\ prior < RESUME_CAP THEN "resume" ELSE "surface"

Recover ==
  /\ pc = "crashed"
  /\ IF DecideResume(signal, resumes) = "resume"
       THEN /\ pc' = "working" /\ agent' = Fresh
            /\ resumes' = IF resumes < RESUME_CAP THEN resumes + 1 ELSE resumes
       ELSE pc' = "surfaced" /\ UNCHANGED <<resumes, agent>>
  /\ UNCHANGED <<run, done, signal>>

\* Somebody starts the issue over: a run of its own, with its own budget and no journal.
StartOver ==
  /\ pc \in {"surfaced", "backedOff"} /\ run < MaxRuns
  /\ run' = run + 1 /\ pc' = "working" /\ done' = 0 /\ resumes' = 0
  /\ agent' = Fresh /\ signal' = {}

Acts ==
  \/ AsksForMore \/ MalformedOutput \/ NullResult \/ AgentDies
  \/ StageCompletes \/ CoderBacksOff \/ Recover

Next == Acts \/ StartOver

Spec == Init /\ [][Next]_vars /\ WF_vars(Acts)

(***************************************************************************)
(* Properties.                                                              *)
(***************************************************************************)
\* Every run comes to an end, whatever its agents do and however they die - crashes,
\* null results and malformed output in any order and number - unless agents for ever
\* ask for more cycles than one may have, which nothing counts across the fresh ones
\* (resume-policy.ts:99-135, resume-cap.ts:111-140, structured-output-guard.ts:113-125).
EveryRunEnds ==
  []<>(pc \in Over) \/ []<>(agent.cycles = HEALTHY_RESUME_CAP)
=============================================================================
