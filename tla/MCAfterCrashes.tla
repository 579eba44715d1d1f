--------------------------- MODULE MCAfterCrashes ---------------------------
(***************************************************************************)
(* Parts that act on what was so when they looked, for TLC: processes      *)
(* meeting at a socket path (SocketRendezvous), a message on its way to a  *)
(* session (PeerDelivery), the stages of one issue (Recovery), the polls   *)
(* of a merge queue (MergeQueue), the runs of agents that may leave no     *)
(* transcript (EvalHarness), the crew's configuration (LaunchConfig),      *)
(* looks for what is filed already (Intake), calls of gh through a shim    *)
(* (GhShim), and the tracker's registry whose peers come and go            *)
(* (TrackerRegistry).  They share no state, so a behaviour is about one.   *)
(***************************************************************************)
EXTENDS SocketRendezvous, PeerDelivery, LaunchConfig, GhShim, Intake, TrackerRegistry, TLC

CONSTANTS Stages, RESUME_CAP, HEALTHY_RESUME_CAP, RETRY_CAP, MaxRuns,
          MaxEvents, MaxPolls, MaxEvals

VARIABLES subject,
          stagePc, run, done, resumes, stageAgent, signal,
          state, queued, status, timeline, unshown, happened, poll, polls, queueSaid,
          manifest, capture, rows, card

MCAddresses == [bridge |-> {"bridge"}, engine |-> {"engine1", "engine2"}]
MCBridges   == {"bridge"}

Flow == INSTANCE Recovery WITH pc <- stagePc, agent <- stageAgent
Queue == INSTANCE MergeQueue WITH said <- queueSaid

\* A corpus of one input of one stage, given twice; and one that is no manifest.
Label(verdict) == [verdict |-> verdict, acFindings |-> <<"a", "b">>]
Entry(verdict) == [stage |-> "review-code", inputRef |-> 1, label |-> Label(verdict)]
MCManifests ==
  {[json |-> TRUE, stages |-> ("review-code" :> <<Entry("FAIL"), Entry("PASS")>>)],
   [json |-> TRUE, stages |-> ("review-code" :> <<Entry("MAYBE")>>)]}
MCAnswers ==
  "review-code" :>
    {[inputRef |-> 1, artifact |-> [verdict |-> "PASS", acFindings |-> <<"b", "a", "a">>]],
     [inputRef |-> 1, artifact |-> [verdict |-> "FAIL"]],
     [inputRef |-> 2, artifact |-> [verdict |-> "PASS"]]}
Evals == INSTANCE EvalHarness
           WITH Models <- {"m1", "m2"}, Manifests <- MCManifests, Answers <- MCAnswers, MaxRuns <- MaxEvals

Setup(version, terminal, count, mode, servers, allowed) ==
  [readable |-> TRUE, json |-> TRUE, cliVersion |-> version, terminal |-> terminal, count |-> count,
   tiers |-> "cartographer" :> "opus" @@ "engineering-manager" :> "fable" @@ [role \in CREW_ROLES |-> "none"],
   mode |-> mode, servers |-> servers, allowed |-> allowed]
Good == Setup("none", "none", 2, "development", {"server:crew"}, {})
MCConfigs ==
  {Good, [Good EXCEPT !.cliVersion = "v1", !.terminal = "herdr", !.count = 1], [Good EXCEPT !.count = 0],
   [Good EXCEPT !.readable = FALSE], [Good EXCEPT !.json = FALSE], [Good EXCEPT !.servers = {"server:other"}],
   [Good EXCEPT !.mode = "allowlist"],
   Setup("none", "none", 1, "allowlist", {"plugin:p@m"}, {}), Setup("none", "none", 1, "allowlist", {"plugin:p@m"}, {"plugin:p@m"})}
MCVersions == {"v1", "v2"}
MCServerRefs == {"server:crew", "server:other"}

\* Two alike, one of more words than a look takes and one of fewer than it needs.
MCTitles == {<<"the", "socket", "path", "busy">>, <<"sockets", "fail", "id", "upon", "boot", "path">>, <<"lost", "path">>}
Sections(needed, optional) ==
  [section \in {"Summary", "Pointers", "Suggested next step"} |->
     IF section = "Suggested next step" THEN optional ELSE needed]
MCBodies ==
  {[sections |-> Sections("filled", "empty"), leaks |-> leaks] : leaks \in {{}, {"path"}, {"temp"}, {"path", "inner"}}}
    \cup {[sections |-> sections, leaks |-> {}] :
            sections \in {Sections("blank", "blank"), Sections("empty", "filled"), Sections("filled", "missing")}}
MCStems == {{"socket", "sockets"}}

\* Calls of gh, a policy that lets only REST through and its variations.
Flag(f) == [flag |-> f, value |-> ""]
Word(v) == [flag |-> "", value |-> v]
With(f, v) == [flag |-> f, value |-> v]
GhCall(verb, sub, rest) == [verb |-> verb, sub |-> sub, rest |-> rest]
MCCalls ==
  {GhCall("issue", "edit", rest) : rest \in
     {<<Word("1"), Flag("--title"), Word("t")>>,
      <<Flag("--milestone"), Word("2"), Word("1")>>, <<With("--milestone", "2"), Word("1")>>,
      <<Word("1"), Flag("--milestone"), Word("v2"), Flag("--title"), Word("t")>>,
      <<Word("1"), Word("2"), Flag("--title"), Word("t")>>,
      <<Word("1"), Flag("--add-label"), Word("l"), Flag("--title"), Word("t")>>, <<Word("1"), Flag("--add-label"), Word("l")>>,
      <<Word("1"), Flag("--body-file"), Word("f")>>, <<Word("1"), Flag("--title"), Word("t"), Flag("--repo"), Word("there")>>,
      <<Word("1"), Flag("--body"), Word("b"), Flag("-t"), Word("t")>>, <<Word("1"), Flag("-t"), Word("t")>>,
      <<Flag("-m"), Word("2"), Word("1"), Flag("--title"), Word("t")>>,
      <<Word("1"), Flag("--title"), Word("t"), Flag("-R"), Word("there")>>}}
  \cup {GhCall("pr", "view", <<Word("1"), Flag("--json"), Word(v)>>) : v \in {"number", "projects", "number,projects"}}
  \cup {GhCall("api", "graphql", <<>>), GhCall("project", "list", <<>>)}
MCNumerals == {"1", "2"}
MCJson == "number" :> {"number"} @@ "projects" :> {"projects"} @@ "number,projects" :> {"number", "projects"}
RestOnly == [is |-> "set", enabled |-> TRUE, shim |-> TRUE, mode |-> "rest-only", blockVerbs |-> {"project"},
             unsupported |-> {"projects"}, rewrite |-> TRUE, repo |-> "none", forbid |-> TRUE]
MCPolicies ==
  {RestOnly, [RestOnly EXCEPT !.rewrite = FALSE], [RestOnly EXCEPT !.repo = "here", !.forbid = FALSE],
   [RestOnly EXCEPT !.mode = "passthrough"], [RestOnly EXCEPT !.enabled = FALSE],
   [RestOnly EXCEPT !.is = "malformed"], [RestOnly EXCEPT !.is = "absent"]}
Skill(call) == [calls |-> {call}, exempt |-> FALSE, scoped |-> TRUE, parses |-> TRUE]
MCCorpora ==
  UNION {{{Skill(c)}, {[Skill(c) EXCEPT !.parses = FALSE]},
          {[Skill(c) EXCEPT !.exempt = TRUE], [Skill(c) EXCEPT !.calls = {}, !.scoped = FALSE]}} : c \in MCCalls}

flowVars == <<stagePc, run, done, resumes, stageAgent, signal>>
queueVars == <<state, queued, status, timeline, unshown, happened, poll, polls, queueSaid>>
evalVars == <<manifest, capture, rows, card>>
allVars  == <<subject, meetVars, peerVars, flowVars, queueVars, evalVars, configVars, intakeVars, shimVars, vars>>

InitAll ==
  /\ MeetInit /\ PeerInit /\ Flow!Init /\ Queue!QueueInit /\ Evals!EvalInit /\ ConfigInit /\ IntakeInit /\ ShimInit /\ Init
  /\ subject \in {"path", "peer", "flow", "queue", "evals", "config", "intake", "gh", "registry"}
  /\ subject # "evals" => manifest = CHOOSE m \in MCManifests : TRUE
  /\ subject # "config" => config = Good /\ installed = "v1"
  /\ subject # "gh" => policy = RestOnly

NextAll ==
  \/ subject = "path" /\ MeetNext
     /\ UNCHANGED <<subject, peerVars, flowVars, queueVars, evalVars, configVars, intakeVars, shimVars, vars>>
  \/ subject = "peer" /\ PeerNext
     /\ UNCHANGED <<subject, meetVars, flowVars, queueVars, evalVars, configVars, intakeVars, shimVars, vars>>
  \/ subject = "flow" /\ Flow!Next
     /\ UNCHANGED <<subject, meetVars, peerVars, queueVars, evalVars, configVars, intakeVars, shimVars, vars>>
  \/ subject = "queue" /\ Queue!QueueNext
     /\ UNCHANGED <<subject, meetVars, peerVars, flowVars, evalVars, configVars, intakeVars, shimVars, vars>>
  \/ subject = "evals" /\ Evals!EvalNext
     /\ UNCHANGED <<subject, meetVars, peerVars, flowVars, queueVars, configVars, intakeVars, shimVars, vars>>
  \/ subject = "config" /\ ConfigNext
     /\ UNCHANGED <<subject, meetVars, peerVars, flowVars, queueVars, evalVars, intakeVars, shimVars, vars>>
  \/ subject = "intake" /\ IntakeNext
     /\ UNCHANGED <<subject, meetVars, peerVars, flowVars, queueVars, evalVars, configVars, shimVars, vars>>
  \/ subject = "gh" /\ ShimNext
     /\ UNCHANGED <<subject, meetVars, peerVars, flowVars, queueVars, evalVars, configVars, intakeVars, vars>>
  \/ subject = "registry" /\ Next
     /\ UNCHANGED <<subject, meetVars, peerVars, flowVars, queueVars, evalVars, configVars, intakeVars, shimVars>>

SpecAll ==
  /\ InitAll /\ [][NextAll]_allVars
  /\ \A p \in Procs : WF_meetVars(subject = "path" /\ Boot(p)) /\ WF_meetVars(subject = "path" /\ Start(p))
  /\ WF_flowVars(subject = "flow" /\ Flow!Acts)

\* The path is served in the end (SocketRendezvous), and every run of a stage comes to its
\* end (Recovery), whatever crashes on the way: each of the behaviours that are about it.
WhatCrashesComesToItsEnd ==
  /\ subject = "path" => PathServedInTheEnd
  /\ subject = "flow" => Flow!EveryRunEnds

\* What a poll of the merge queue prints was so (MergeQueue), a scorecard says what the runs it was
\* given cost (EvalHarness), a crew said to be launched is up, and up as its configuration says
\* (LaunchConfig), a look for what is filed already misses nothing it could see (Intake), and a shim
\* in front of gh runs what was asked (GhShim).
AnswersAreTrue ==
  /\ Queue!PollsAreTrue
  /\ Evals!ScorecardIsTrue
  /\ LaunchedAsConfigured /\ OffListIsInherited
  /\ IntakeIsTrue
  /\ ShimIsHonest

\* A poll of the merge queue never reports an end that was not so (MergeQueue): what the repository
\* says of it, for the run that finds the landing it calls ejected.
FalseEndsAreNotReported == Queue!NeverFalselyTerminal
=============================================================================
