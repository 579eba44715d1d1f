# Verification of kampus-pipeline

TLA+ models of the parts of kampus-pipeline where several processes, sessions,
agents or GitHub calls meet, or where a rule is too intricate to test by cases:
the crew runtime (`packages/pipeline-crew-mcp`), the command-line tools that
agents work through (`packages/pipeline-cli`) and the consumer CLI
(`packages/pipeline`). TLC checks them on small instances; what matters most in
the crew runtime, the epic lock, the merge gate and its approval, the issue
board, the maps, a developer's clone and the consumer's sync is proved with
TLAPS for every instance. `PROJECT.json` names every run, the code each definition stands
for, a faulty variant that every property catches, the disagreements between
code and documents that runs show, and the hazards the properties are for.

Run a model with `tlc -config MCCrewSession.cfg MCCrewSession.tla`, a
proof with `tlapm TrackerRegistryProofs.tla`.

## The system

| part | state it keeps | operations | talks to |
|---|---|---|---|
| crew tracker (`pipeline-crew-mcp/src/tracker`) | presence leases by peer, claims by resource, in memory | Claim, Release, AnnouncePresence, LookupRole, Heartbeat; prune and connection release in the core only | sessions, over a unix socket |
| rendezvous (`tracker/server.ts`, `crew/tracker.ts`, `standup/ensure-tracker.ts`) | a socket file per project | probe, reclaim, bind, dial | the file system; every session and the standing tracker |
| crew session (`crew/`) | role, address, heartbeat fiber, inbox socket | claim the cardinality lease, announce, bind, beat, claim issues | tracker, peers |
| peer messaging (`peer/`, `edge/`) | a received-message log | check, look up, dial, wake, log, acknowledge | tracker, peers' inbox sockets |
| stand-up (`standup/`) | tmux or herdr panes, per-run directories, the operator's file | check-config, stand-up, spawn-role, retire-role, stand-down | tmux, herdr, the file system, the tracker |
| epic lock (`pipeline-cli/src/tools/epic-lock`) | a label and claim comments on an issue | acquire, release | GitHub through `gh` |
| tracker CLI, issue claims, orphan heal (`tools/tracker`, `tools/claim`, `tools/orphan-heal`) | labels, bodies, claim comments of issues | report, triage, plan, write-code, heal | GitHub |
| epic ledger, wayfinder map | an issue body and its sub-issues | review-plan gate and re-plan loop; graduate, check | GitHub |
| verdict, review-head, ship-it, change classification | marker comments, a local clone | resolve, fetch, compare, post, check, merge | GitHub, git |
| protected change, merge queue, intake dedup | reviews, rosters, timelines, a search index | read evidence, decide; poll; look | GitHub |
| worktree, ref and index guards, main-sync, sweep | a clone's worktrees, index and refs | hooks of agents and of git; sync; reclaim | git |
| lint guards | none; they judge a tree | check | files |
| flow recovery (`drive-issue-flow`, `resume-policy` ...) | counters the workflow script keeps | resume, retry, park | agents |
| eval harness | captured runs, a corpus | grade, meter, score | transcripts |
| gh shim and lint | a policy file | route, run, block, lint | the real `gh` |
| consumer CLI (`packages/pipeline`) | managed files and their record in an adopter's repository | init, sync, enable, check | files |

What is hard, and what correctness means:

- **Tracker and sessions.** Claims have no TTL of their own; they live by their
  holder's presence. In any order of beats, claims, suspensions and restarts a
  live holder keeps its lane, a dead one drops out, and two awake sessions do
  not work one issue.
- **Rendezvous.** Processes race to reclaim a dead host's socket file with three
  separate system calls. They should end on one tracker, and no crash may leave
  the path unusable.
- **Messaging.** An address may be stale when dialled, and an acknowledgement
  may be lost after the message was acted on.
- **Stand-up.** Tens of multiplexer calls, each of which may fail, should leave
  nothing running that nobody knows of; a retirement races with a respawn.
- **Locks, claims, documents on GitHub.** There is no conditional write. A label
  or body is read in one call and written in another; sessions stop in between;
  nobody may be robbed, preserved twice or lost.
- **Gates.** Heads, comments, policies, reviews and rosters are read one at a
  time from a repository that moves, and the change that is judged may rewrite
  the rule it is judged by.
- **Worktrees.** Agents share one clone with its owner, and the guards see only
  the command line and a few environment variables.
- **Sync.** A command writes file by file into a repository its owner edits, and
  may be killed between two writes.
- **Loops.** Re-planning, resuming and retrying must each come to an end.

## Modules

Every module has a header that says what it models and how it represents it, and
most start with their state and their bounds as `VARIABLES` and `CONSTANTS`.
Modules named `MC*` give constants and symmetry to TLC; modules named `*Proofs`
hold the theorems about the modules they extend. Where two modules are proved
about or checked together, the names of one carry a prefix (`MeetSpec` of
`SocketRendezvous`, `MapSpec` of `WayfinderMap`, `ChangeSpec` of
`ProtectedChange`).

Crew runtime:

| module | models | state and actions |
|---|---|---|
| `RegistryCore` | `tracker/registry-core.ts` | pure operators, one per function, over two maps as functions into entries-or-`None` |
| `TrackerRegistry` | `tracker/registry.ts`, `handlers.ts` | `leases`, `claims`, `now`; one action per handler, because a handler reads the clock and updates its Ref with nothing in between |
| `ClaimBoard` | the promise | who is present, whose name is on each resource; no clock, no lease |
| `SocketRendezvous` | `tracker/server.ts`, `crew/tracker.ts`, `standup/ensure-tracker.ts` | `pc` per process, the `file` at the path; one action per system call |
| `CrewSession` | `crew/*.ts` over `RegistryCore` | the tracker's maps, each session's build step, heartbeat timer, issues; crashes, suspensions, tracker restarts |
| `PeerDelivery` | `edge/`, `peer/` | each sender's messages, one at a time, through lookup, dial, wake, log and acknowledgement; sessions that die and return, and the tracker's list of them, which lags |
| `CrewLaunch` | `standup/orchestrate.ts`, `single-role.ts`, `register-project-scope.ts`, `herdr.ts` | `panes`, `leaves` (the `.mcp.json` files), `inbox`, a `job` per launcher command; one action per multiplexer call or stretch of file-system calls, each also failing, and a launcher killed anywhere |
| `LaunchConfig` | `standup/config.ts`, `bind.ts`, `check-config`, the version pin, the order of a launch's calls, `tools/spawn-guard` | the operator's file, the installed version, the launch under way, which panes came up under which file; one action per call of a launch, each also failing, and upgrades and edits between them |

Work on GitHub:

| module | models | state and actions |
|---|---|---|
| `EpicLock` | `epic-lock/*.ts`, `tracker/gh-io.ts` | `label`, `comments`, each session's next `gh` call and checkpoint snapshot; every call also fails |
| `WorkItems` | `tools/tracker`, `claim`, `orphan-heal` | the board; a verb is a `job` of a session, a provider call is a step, and any step may be the last |
| `LedgerRules`, `EpicPlan` | `tools/epic-ledger` | the validator and its graph as operators; the gate's reads and flips and the re-plan loop as steps |
| `WayfinderMap` | `tools/wayfinder-map` | the map's body and sub-issues; read, read, re-read, write |
| `ReviewRules`, `ReviewGate` | `tools/verdict`, `review-head`, `class-probe`, `ship-it`, `ci-required`, `unresolved-threads-guard` | the decisions as operators; a reviewer's and a shipper's provider calls as steps |
| `ChangePolicy`, `ProtectedChange` | `tools/protected-*`, `cp-cardinality`, `trivial-diff`, `guard-content-probe` | the classifiers of a change under a policy; the four reads of the approval evidence |
| `MergeQueue` | `tools/merge-queue-classify` | a pull request in the queue, its delayed timeline and status, the steps of a poll |
| `Intake` | `tools/intake-dedup`, `report` | looks at a stage and at an index that lags; the guards on what is filed |

The machine of one developer:

| module | models | state and actions |
|---|---|---|
| `Checkouts` | `tools/worktree-guard`, `ref-guard`, `primary-index-guard`, `main-sync`, `worktree-sweep` | each tree's head, dirt, index and agents; commands of agents and of the owner, hooks, a sync and a sweep step by step. An operation is what it does, whether the guard's words for it are there, and the option it names a tree by: what the guard concludes from the text (`isHeadMove`, `worktreeScoped`, `inspectGitStageAll`) and where git works (`Landing`) are two definitions |
| `TreeGuards`, `RepoGuards` | the lint guards | the guards as operators on a tree, which is a set of facts; pull requests that are checked, then merged |
| `Recovery` | `tools/drive-issue-flow`, `structured-output-guard`, `failure-classifier`, `resume-policy` | one issue's run through its stages, its counters and its journal |
| `EvalHarness` | `tools/eval-harness`, `token-spend` | corpus, captured runs, graded rows, scorecard |
| `GhShim` | `tools/gh-compat` | the policy file, the last lint, the last call; the router's reading of a call (`FlagValue`: long flags) and gh's own (`Meant`: short ones too) |
| `Consumer` | `packages/pipeline/src/bin.ts` | `file` per managed path, the record, settings, hooks; a command is a run of writes, among an adopter's edits |

Compositions. `CrewSession` runs on `RegistryCore` with inbox addresses for
peers, as `crew/channel-server.ts` does: this is where two processes of one
bridge become indistinguishable to the tracker. `EpicPlan` extends
`LedgerRules`, `ReviewGate` extends `ReviewRules`, `ProtectedChange` extends
`ChangePolicy`, `RepoGuards` extends `TreeGuards`. `TrackerRegistry` implements
`ClaimBoard` under the mapping "present = holds a live lease", which also says
that clock, TTLs and pruning are invisible to clients except as presence.
`MCPlanning` (ledger, map and epic lock), `MCGovernance` and `MCAfterCrashes` (nine
parts, the tracker's registry among them) put parts that share no state
side by side: a first choice says which one a behaviour is about, and the others
stay as they began. Modules that such a composition, or a module of proofs,
extends together have a prefix on their specification's names: `MeetSpec`,
`PeerSpec`, `MapSpec`, `ChangeSpec`, `RepoSpec`, `QueueSpec`, `ConfigSpec`,
`ShimSpec`, `IntakeSpec`.

Abstractions. Time is in ticks; in `CrewSession` the clock's origin moves with
the present (a tick ages every lease by one, down to "expired for good"), so
time needs no bound. Roles, addresses, issues, logins, paths and policies are
model values or members of small sets; a regular expression or glob is the set
of paths it matches; a marker, a body, a manifest is the record it parses to. A
commit is its number in the order of pushes, a claim comment the session it
names, in the order GitHub returns them. A crash signal is the set of
signatures its text matches. Layout, wording and logging are left out.
A command refused before it reads or writes anything is one that is not issued.

Limits of single definitions, beside the code that goes further:
- `ReviewGate!ShipGate` reads the head and the comments of a gate and who may
  write in one step, `verdict/github.ts:190` in three calls; a permission probe
  that fails and drops a writer is modelled.
- `Intake!ReadQueue` reads the whole stage at once; `intake-dedup/github.ts:130`
  reads pages of 100, and rows may shift between two of them.
- `CrewLaunch!CallFails` fails before its effect; an answer of herdr that does
  not parse leaves a tab or pane the launcher has no id of (`herdr.ts:432`, `476`).
  `Matches` takes no label to be part of another, which tmux's substring search
  would confuse (`single-role.ts:429`).
- `Consumer` is about a clone's primary checkout: in a linked worktree a sync
  installs no ref hook (`bin.ts:1065`).
- `WorkItems!ChildList` runs under the epic's lock, as the skills require;
  `plan-epic child` itself takes none (`plan-epic/command.ts:152`).
- `Checkouts` leaves out commands that read or write one tree's files under the
  index of another.

## Runs

| run | shows | instance and bounds |
|---|---|---|
| `crew` | while its tracker lives an awake session never ages out and its lane is its own; once it serves it becomes discoverable again after a suspension; an address whose processes died is forgotten | casts of two bridge processes at one address, or a bridge and an engine; one issue; TTL 2, beat every tick, one tick late; one tracker crash |
| `crew_launch` | herdr panes are counted, reported or unwound; a serving member is the one at its inbox; a command closes nobody else's pane | three commands of any kind, one bridge and one engine, both backends, two failures, killed launchers or ended sessions |
| `review_gate` | a merge rests on an independent writer's PASS no older than the head it started from, on every gate either policy requires if the head did not move; a verdict names the tree that was read; a reported merge landed | a reviewer and a shipper; one push, two comments, one act of somebody else: a hand-written comment, a switched account, a thread or check that changes; a behaviour is not followed past a failed check |
| `ship_veto` (violated) | a newer FAIL need not veto: see below | two reviewers, one head |
| `work_items` | one holder per issue; text preserved once; nothing killed is lost; healed once | two sessions, three issues, four jobs of any verb, stopped anywhere |
| `planning` | what is made pickable can be executed; the loop ends; a ticket leaves a map only answered; answers survive all but writes that overlap past the re-read; one holder of an epic's lock, evicted by nobody, and until a fault its claims end with their runs and the epic is planned again and again | six plans for an epic of two children, one of them a stub at first, three rounds, two edits between any two reads; two sessions, three tickets, three graduations, one edit by hand; three sessions at the lock, one login, two failed calls, probes or deaths |
| `checkouts` | until an agent runs a command that is not plain (proofs, below) armed agents touch nothing of the primary and a sync reported good is current; a hunk nobody wrote is committed only if an agent staged it by naming its file or in words the guard does not read; a stop takes no running agent's tree | two scenes, two agents in each: an owner who syncs around agents in one worktree; agents in one managed worktree beside a review or an unknown one, which are swept; commands of one operation |
| `consumer` | a finished sync leaves what check asks for; a second one changes nothing; adopter files survive | two skills of which one is dropped, a template, a workflow; two edits, three commands, one kill |
| `governance` | what is discharged was earned at the head named; the gates answer by the base's policy; main is broken only by changes checked side by side | one push, two reviews, one roster change, one gathering of evidence; two pull requests, one repair, one milestone change |
| `after_crashes` | serial starts meet and the path is served in the end; every run of stages ends; senders are told the truth, and so is whoever reads what is printed (next paragraph); in the registry a live holder loses a resource only by its own Release, pruning changes no answer and `ClaimBoard` is implemented | `MCAfterCrashes.cfg`, one behaviour per subject; for the registry two peers and roles, one resource, TTLs 1 and 2, and a clock that stops at `MaxTime` 3, past every TTL |
| `partial_crew` (violated) | a stand-up that aborts leaves the members it had started: see below | as `after_crashes` |
| `false_ejected` (violated) | a poll calls a pull request ejected that landed: see below | as `after_crashes` |

In `after_crashes`, `SendersAreToldTheTruth` is about `PeerDelivery`: a message
wakes one session at most; an acknowledged one woke exactly one of the role it
was sent to, which has it once in its inbox while it lives, a refused one woke
nobody, and one reported unreachable that did wake a session was cut off by that
session's death. `AnswersAreTrue` has a part per subject: a poll prints a state
the pull request was in while it looked, but for the landing of `false_ejected`
(`MergeQueue`); a scorecard says what the runs it was given cost and passed
(`EvalHarness`); at every moment of a launch and however it ends, the panes it
opened are an opening stretch of the roster under the one file it read, none if
it failed before the first and all if it says so, on the pinned version unless
the CLI was upgraded after it was compared, and a session's agents run on models
allowed or inherited (`LaunchConfig`); a look that answers "none" missed nothing it could see, and
what is filed passed its guards (`Intake`); a shim runs what was asked by long
names, or blocks, and a text its lint passed runs in full (`GhShim`).
`WhatCrashesComesToItsEnd` is the liveness of the two subjects whose code has
some: the path is served (`SocketRendezvous`) and every run of stages ends
(`Recovery`).

Every module's `TypeOK`, where it has one, holds on these instances too.

Why the bounds are enough to be interesting. The registry's rules relate a
holder and a claimant of one resource, and a lease before, at and after its last
instant; its theorems are for any number of each. The socket race needs two reclaimers and a third process to meet the
result; the lock's needs two co-acquirers and a late arrival. Three launcher
commands let a retirement meet two launches of one role, and a spawn join a tab
whose stand-up is about to unwind; a second seat is what makes a launch partial.
One push is what lets each read of a gate be older than the next. Three issues
are a split's parent and children, or a duplicate, its survivor and a bystander;
four jobs let a verb be repeated after one that stopped. Two children give a
cycle, a phase order and a missing one. Three commands are an interrupted sync,
its repeat, and the check that nothing changed. Fault bounds of two allow a
fault in the recovery from a fault. Timing constants keep the code's relations:
`INTERVAL + Slack <= TTL` (10 s beats, 30 s TTL).

`CHECK_DEADLOCK FALSE` is set where commands, messages or runs are bounded or
the work is done in the end: there the system really stops.

Fairness. `CrewSession!Fairness`: an awake session's fibers run, time passes
(strongly, since a tick waits for beats that are due), and somebody starts a
tracker after one died, as a stand-up or the next session does.
`SocketRendezvous!FairMeetSpec`: a started process makes its next system call, and
sessions that are down are started again. `EpicLock!FairSpec`: a planning run
makes its next call and releases when it ends, which the skills require on every
exit, and a human clears the label of an epic nobody works on. `EpicPlan` and
`Recovery`: the loop, the workflow script, goes on. Everything else states safety only. No
fairness is assumed of crashes, suspensions, failing calls or of what people do.

## Disagreements between code and documents

`ship_veto`: `post` patches a reviewer's earlier marker in place, and a patch
keeps `created_at`. A reviewer who passed, saw another pass, then fails the head
leaves its FAIL older than the other's PASS, and `resolveVerdict` answers PASS;
its comment promises that "a newer FAIL vetoes an older PASS".

`partial_crew`: `runStandUp` opens pane after pane and ends at the first that
fails (`orchestrate.ts:619-625`); those before it stay up. "Any failed launch
short-circuits fail-loud with no partial crew" says the comment above the loop
(`orchestrate.ts:616`, and the doc at `:527`), and the operator reads "stand-up
aborted (no partial crew)" (`bin.ts:195`). What does hold is in
`LaunchedAsConfigured`: what is up is the opening stretch, under one file.

`false_ejected`: a poll reads the state, then the timeline
(`merge-queue-classify/github.ts:240`). A pull request that lands in between was
not merged in the first and has left the queue in the second, so the poll prints
"ejected", though the module's doc says that "a classifier miss can only ever keep
polling, never report a false `merged`/`ejected`" (`:17-18`).

Other behaviours met while modelling, which the models contain and the
properties are stated around:

Crew runtime.
- Overlapping reclaims of a socket file can leave two trackers
  (`tracker/server.ts:58`); `SerialStartsMeet` is for starts that do not overlap.
- The second process of a bridge role is granted its live twin's lease; after a
  tracker crash a live session may never be listed again; a crashed bridge's
  claims revive when the role is launched again, though `crew/heartbeat.ts`
  says they are reaped.
- Under tmux a split that succeeds and a re-tile that
  fails leave a pane nobody reports, so `PanesAreAccountedFor` is for herdr only.
  `retire-role` searches the panes of every project (`single-role.ts:451`).
  An inbox bound during a retirement of its label is lost (`overlap`).
- A dead head of the lookup list shadows live engines until its lease runs out
  (`crew/tracker.ts:148`).
- A file in allowlist mode can never launch: `config.ts:160` forbids server
  refs, `bind.ts:294` requires one; `check-config` calls it valid. A stand-up
  whose binds fail has already reaped the running crew's launch directories
  (`orchestrate.ts:560`). The spawn guard looks at the pin only, while a
  session's own tier need not be on its list (`spawn-guard.ts:106`).

Work on GitHub.
- A failed permission probe drops another login's comment (`gh-io.ts:218`) and
  can make two holders of an epic. All co-acquirers can lose on a stale snapshot
  and leave the label with nobody; a slow one can hold the lock without a label;
  clearing the label does not free an epic whose planner died
  (`epic-lock/github.ts:157`, `171`).
- A merge is sent without the head it was decided on (`tracker.ts:980`). A later
  COMMENTED review cancels its author's approval (`evidence-github-team.ts:214`).
  CODEOWNERS is read from the checkout while the policy is read from the base
  (`protected-ownership/command.ts:25`).
- Issue claims have no TTL. An issue can be killed as a duplicate of itself, two
  of each other; a park after an apply leaves both status labels. A split
  that is repeated once its first child has left the queue files a twin, and so
  do two plan sessions that overlap, since both list the children before they
  create (`plan-epic/command.ts:152`, `179`).
- A map's read-back compares a write with its own answer
  (`wayfinder-map/mutate.ts:335`). A row that requires itself is dropped before
  the cycle check (`epic-ledger/markdown.ts:244`).
- `report file --redact` masks the body but not the title and then checks
  neither for leaks (`report/write.ts:92`); masking one path can expose the one
  that follows it. `intake-dedup check` prints nothing both for no match and for
  no usable word; an issue that left the stage before search indexed it is missed.

Machine.
- The guard of commands reads text. Its comments say that a shallow parse "errs
  toward *seeing* a mutating op" and that it should "never silently allow a
  primary-tree mutation" (`bash-pin.ts:80-82`), but only the first `git` word is
  read for a HEAD move; `--work-tree=<worktree>` counts as scoped to the worktree
  although git moves the HEAD of the current directory's repository (`:110`), and
  so does `$WT` where it is unset; `symbolic-ref` is no HEAD move; and
  `git -C <primary> commit` is pinned by a `cd` that does not change where it
  works (`:310-322`). Of what stages everything it knows `-A`, `--all`, `.` and
  `commit -a` behind the first `git` of a segment: `add -u`, `stage -A` and what follows
  a newline or a single `&` pass (`:150-209`; the unit test at 311-315 has
  `add -u` pass). The properties of `Checkouts` are about what remains.
- A worktree's liveness is its root's mtime (`worktree-sweep/command.ts:48`), and
  `git worktree prune` is global. Reaping a clean detached worktree discards its
  commits (`reap.ts:14`). The index guard allows whenever its policy cannot be
  read (`primary-index-guard/command.ts:88`).
- Most lint guards read their policy from the tree they judge;
  `decisions-index next` allocates from the local checkout. `BrokenMainWasOverlapped` is
  the strongest claim left.
- Disabling a workflow removes the file at its recorded path even if the adopter
  has replaced it (`bin.ts:1054`), though the comment above the line says that an
  adopter's own file is untouched. A sync that dies between materialising and recording leaves files unrecorded
  (`:679`, `:1080`).
- A model that never passed has net saving minus infinity, is not flagged
  negative and prints null (`report.ts:215`, `261`). Runs without a transcript do
  not count against their model. One signal may match a retryable and a terminal
  signature, and order decides (`failure-classifier.ts:17`).
- The gh shim takes the first number of a call for the issue (`router.ts:28`), so
  `--milestone 2 1` edits issue 2, edits only the first of several, and
  turns a call of ignored options into an empty PATCH. It knows long flags only
  (`router.ts:8-15`): `issue edit 1 --body b -t t` changes the body and drops the
  title, and `-R` does not name the repository, though `TOOLS.md:86` says that it
  "safely passes ordinary calls through".

## Proofs

All proofs are for any value of the constants that satisfies the named
assumptions of the modules; TLC evaluates these on each instance.

- `TrackerRegistryProofs`. `TypeCorrect`: types, and no entry stamped in the
  future, which the other proofs need: a lease renewed now must be live.
  `ClaimNeverStolen` follows action by action from `TypeOK`: every claim
  collides with a live foreign holder, foreign releases do nothing, a prune
  reaps only absent holders. `PruneInvisible`: liveness of each holder is the
  same before and after, hence every lookup, holder and collision.
  `SinceCorrect`: a grant to a new holder restarts `since`, a re-claim keeps it.
  `RegistryImplementsBoard`: each handler is a step of the board or a stutter;
  a tick is a lapse of everybody whose lease ran out.
  The module also holds the theorems about `SocketRendezvous`,
  `RendezvousTypes` and `SerialStartsShareTracker`. The property is not
  inductive: the invariant adds that as long as no starts overlapped at most one
  process is starting, that a process about to unlink saw a file nobody serves,
  and that hosts own the file at the path. And the theorems about `PeerDelivery`,
  `DeliveryTypes` and `SendersHearTheTruth`: `PeerInv` says of each message that
  it touched nobody before its sender had a connection, while it is served, whom
  it woke and how often it is logged by how far the inbox is; afterwards nothing
  touches it, and what was said of a session stays true because an address never
  has a life twice. `MaxSendsAssumption`: the bound on messages is a number.
- `EpicLockProofs`. `TypeCorrect`; `HolderStaysWinner`: a holder's comment is
  the earliest authorised one from its decision to its release. The
  strengthening relates each resolving session's snapshot to the comments now:
  later comments are only appended, and those of others that vanished were
  vanishing anyway. `AtMostOneHolder` is its corollary, since there is one
  earliest comment. Both assume `SafeProbes` (all sessions share one login, or
  probes do not fail): without it a failed probe drops another login's comment
  and with it the holder. `ClaimsNeverLeak`: without failures no claim outlives
  its run. The module also holds the theorems about `WayfinderMap`,
  `LockstepHolds` and `AnswersStay`: the invariant says of every body a session
  has in hand, read or computed, what `Lockstep` says of the map, and that
  until a write raced, the body a session is about to replace is the one it
  added its answer to. `OpeningAssumption`: the map opens with tickets of the
  bound set. And `LooksAreTrue` about `Intake`: while a look reads, what it knows
  to stand on the stage is still there or already read, and nothing it was shown
  is a pull request; what it concludes stays true of issues that keep their
  titles. That a full list leaves out only what it outranks rests on
  `ListIsRanked`: in the order of the ranking no two issues have one place, so the
  places from the first on are all taken. `TitlesAssumption`, `LimitAssumption`:
  titles are sequences of words and the limit is a number; `BodiesAssumption`:
  a text leaks what a machine's paths look like, which is what there are patterns
  for. `PlanningTypes` and `PickablesAreSound` are about `EpicPlan`: until somebody
  edits, what the gate has read is what the epic and its children still are, and
  what it flips or has flipped can be executed. That the floor is enough for
  that rests on `CyclesAreFound`: where `findCycles` records no cycle, no node can
  be come back to by what it waits on. `findCycles` recurses, so the model
  writes it as a function of the turns its loops have taken, with the stack as
  state; `SearchOK` is the invariant of a turn (what is black leads to black
  nodes only and waits for none of itself; an edge looked at leads to a black
  node or to one further up the stack), every turn uses up an edge, a white node or
  a place on the stack, so the search is over by the last of them, and the
  induction over turns is a least counterexample of the library's well-founded
  sets. `PlansAssumption`, `AbsentAssumption`: a Dependencies section is a sequence
  of phases that name finitely many issues by number; the epic and what may be
  linked to it exist.
- `WorkItemsProofs`. `TypeCorrect`: types, and that what a running job names is
  filed. `OneSessionHolds`: who holds an issue has its oldest claim, and a
  session that claims or releases an issue does not hold it. `TextPreservedOnce`:
  an enrichment composes from a text without a preserve block, a plan from one
  with a block at most. `KilledIsFolded`: a kill that comes to close its issue
  has folded it into one that is filed, and what is folded stays. `NeverHealedTwice`:
  without overlapping scans there is one scan, and it knows every target healed
  so far. The module also holds `ShimRunsWhatIsAsked` about `GhShim`: a call is
  routed in one step, so the lemmas are about the router, and only what the lint
  passed is older than the call. `NumeralsAssumption`: "none" is no numeral;
  `CallsAssumption`: a
  call's arguments are words and flags, no flag that gh wants a value for comes
  without one, which gh refuses, and none is given as another's value. gh reads
  the short flags too, so what is said not to be left out are the fields given by
  their long names.
- `CheckoutsProofs`. `TypeCorrect`, and the four properties of `Checkouts`.
  `BleedStaysOut`: agents are told of managed worktrees only, so one that is not
  armed stands in the primary checkout and is refused whatever the guard sees
  staging everything, as an armed one is; a stray hunk gets into an index only by
  an operation it does not see so, and the worktree is in `unread` from then on.
  `StoppingIsHarmless`: no two agents own one worktree. `ArmedStayOut`,
  `SyncIsCurrent`: the primary branch is checked out in one worktree at a time,
  no git operation of an agent brings it to another, and a plain command that
  pre-bash lets through lands elsewhere than in the primary checkout or moves no
  HEAD; so a sync past its checkout finds the branch where it left it. Both
  properties are about agents that run `Plain` commands while the sync runs
  (`sync.strayed` remembers another): one git operation in words the guard knows,
  without `--work-tree` or `--git-dir`, naming no primary checkout by `cd` or
  `-C`, and `$WT` only where it is set. Any other kind of command does break them.
- `ConsumerProofs`. `TypeCorrect`, `FinishedSyncIsClean`, `SyncIsIdempotent` and
  `AdopterIsSafe`, from one invariant: what each step of a sync establishes no
  later step undoes, every file of the toolkit's is recorded or about to be
  unless a sync was cut off, and after a sync that finished the next one would
  write at every step what is there. `ScorecardsAreTrue` is about `EvalHarness`:
  `EvalInv` says that a row tells what the meter reads in its run's transcript,
  that rows are of one stage, and that a card is built from the rows. A sum is
  the number of units in it, so that no step needs induction: parts of a finite
  set have as many elements as they have together (`PartsAddUp`), and a model's
  cell bills no unit that was not spent (`SumIsMonotone`, `MeterIsTrue`).
- `CrewLaunchProofs`. `NoPaneUnaccounted`: the invariant adds that a pane that
  is neither counted nor reported is the one its command has in hand, in the
  command's own tab if a failure will close the tab, and that a command has a
  seat in hand until it has launched its last. `ServingMemberReachable`: the
  invariant adds what a retirement knows, that the sessions of its label are
  the pane it found, until it closed that, and none once it has.
  `OnlyOwnPanesClosed`: of the commands only an unwinding and a retirement take
  a pane away, the latter by an id whose label it checked when it found it. And
  `CrewIsAsConfigured` about `LaunchConfig`: `ConfigInv` says at each call of a
  launch what those before it have established (the file decodes, its version was
  compared, its binds hold, the panes so far are those earlier in the roster than
  what is left to open), and that a member's instance names the command that
  started it, so that members started twice are told apart; that a launch that
  reports success opened as many as it was asked for is counting these
  (`FreshAreCounted`). `CrewServerAssumption`: the crew's server is a server;
  `ConfigsAssumption`: a file has the count and the mode its schema asks for.
- `CrewSessionProofs`. `TypeCorrect`; `AwakeSessionListed`: a lease is never
  older than the time its session has counted off since its beat, and that is at
  most `INTERVAL + Slack`, which is at most `TTL`. `LaneHeld`: of the processes
  at one address one serves, only who serves has issues, and a claim whose
  holder is present is not overwritten; the first theorem says it is present.
- `ReviewGateProofs`. `TypeCorrect` (the comment a post patches is there, since
  none is deleted); `MergeEvidenceCurrent`, `UnmovedHeadReviewed`: the invariant
  says what a shipper knows between its reads, that each gate it has resolved
  was passed by an independent writer at a head since the one it read first,
  that its gates are all that are required there if that is still the head, and,
  once it merges, that the checks are green. It is kept because heads only move
  forward and a concluded check stays. That a PASS answered by `resolveVerdict`
  is one that was posted rests on the newest of a set of comments being in the
  set. `VerdictTreeRead`, `ReportedMerge` are inductive as they stand. The module
  also holds the theorems about `ProtectedChange`: `ChangeInvariant`,
  `DischargeEarned` and `GatesJudgeByTheBase`. The reviews seen are the first
  so many, those counted still stand, an exception taken names the head that is
  judged, and nothing is decided before the last read. `ApprovalAssumption`: the
  author and every roster's members are people. `MainBrokenByOverlap` is about
  `RepoGuards`: what a green check says of a pull request and the main it was
  checked against stays true of main until another merges, so unless two passed
  side by side main is the seed or was checked whole, but for the guard that
  reads milestones, which are edited outside; records are only added, and each
  number that is taken twice was taken by one who could not see the other.
  `FactAssumption`, `EditAssumption`, `SeedAssumption`: facts are well formed, an
  edit leaves one fact at a place and writes no record but by the tool, and main
  begins with a tree that passes. `QueuePollsAreTrue` is about `MergeQueue`:
  `QueueInv` adds that a poll under way has seen every state since it began, and
  that the last event, shown or still to be shown, says whether the pull request
  is queued.

Only model-checked, and why:

- Every liveness property: fairness and ENABLED are outside the proof system's
  reach.
- `AnswersAreTrue` as a whole, which joins a part per module: its parts are
  proved one by one, those of `MergeQueue`, `LaunchConfig`, `Intake`, `GhShim` and
  `EvalHarness` each as a theorem of its module's specification
  (`QueuePollsAreTrue`, `CrewIsAsConfigured`, `LooksAreTrue`,
  `ShimRunsWhatIsAsked`, `ScorecardsAreTrue`).

## Not modelled, and the plan

Not modelled, with the reason:

- The wire protocol, tool registration and error schemas: shapes, no state over
  time. The two shapes of a Claim reply are in `CrewSession`.
- Prose of skills, agents and hooks: read as documentation of the contracts of
  the code; the workflow script that asks for recovery decisions is modelled in
  `Recovery` from what the commands say of it.
- The roadmap view of the wayfinder map, ship digests, changelogs, status
  reports, review briefs, token tables, and the composers of issue texts
  (`epic-splice`, `intake-compose`): pure functions of their input that decide
  nothing.
- `glossary-drift`, the crabbox manifest, the lint of evaluation corpora, and
  the commands of guards that only print: one function of one file, which a unit
  test per rule covers.
- The self-heal of a module that fails to load: `run.ts` imports statically, so
  nothing calls it.
- GitHub, git, tmux, herdr and the file system themselves: environment, as the
  code uses them.

What could follow: an abstract mutex that both `EpicLock` and the claims of
`WorkItems` implement; two stand-ups at once, for which the code promises nothing
yet.
