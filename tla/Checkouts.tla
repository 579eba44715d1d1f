----------------------------- MODULE Checkouts -----------------------------
(***************************************************************************)
(* One clone shared by an owner and agents: the primary checkout, the      *)
(* linked worktrees agents are given, and the guards between them.         *)
(* worktree-guard pins or refuses an agent's commands and reaps its        *)
(* worktree when it stops; ref-guard and primary-index-guard are the       *)
(* clone's Git hooks; main-sync brings the primary branch forward;         *)
(* worktree-sweep reclaims what was abandoned.                             *)
(*                                                                         *)
(* A command is a leading directory and one or two git operations, each in *)
(* the words and under the global option it is written with, as the guard  *)
(* reads text; a path is the tree it lies in, a commit count 0 or 1, and   *)
(* whatever the tools ask of the file clock and the forge may be answered  *)
(* either way.                                                             *)
(***************************************************************************)
EXTENDS Naturals, Sequences, FiniteSets

CONSTANTS
  Agents, Nobody,
  Primary,             \* the shared checkout
  ManagedTrees,        \* worktrees under .claude/worktrees/
  ReviewTrees,         \* worktrees with a review prefix
  OtherTrees,          \* worktrees the tools know nothing of
  None,
  MaxOps,              \* git operations in one command
  AgentOps,            \* and which an agent writes, and how
  CdTargets,           \* where a command may lead with `cd`
  BlockThreshold,      \* primaryIndexGuard.blockThreshold
  Trusted              \* is the index guard's policy readable and enabled?

Linked == ManagedTrees \cup ReviewTrees \cup OtherTrees
Trees == Linked \cup {Primary}
Types == {"coder", "helper"}             \* isolation asserted, or inherited from a spawn
Moves == {"detach", "switch", "reset"}   \* of HEAD_MOVING
Stages == {"add", "addall", "commitall"} \* add: the paths it names
Ops == Moves \cup Stages \cup {"look", "rm", "commit"}

(* How an operation is written.  as: with `git` the first such word of its *)
(* segment and in words the guard looks for (shown); with `git` but in     *)
(* other words, or behind an earlier `git` after a newline or `&` (other:  *)
(* add -u, stage -A, symbolic-ref HEAD); without that word (hidden:        *)
(* /usr/bin/git).  by, in: the global option that names a tree; "$WT" is   *)
(* the text of the shell's own variable.  What reads or writes one tree's  *)
(* files under the index of another is left out.                           *)
Written == {o \in [op : Ops, as : {"shown", "other", "hidden"},
                   by : {"here", "-C", "--git-dir", "--work-tree"}, in : Trees \cup {None, "$WT"}] :
              /\ o.by = "here" <=> o.in = None
              /\ o.by \in {"--git-dir", "--work-tree"} => o.op \in {"look", "detach", "switch", "commit"}}

(* What the harness tells an agent: its type, the worktree of its           *)
(* environment and the one its sidecar names.                              *)
Told == [type : Types, env : Linked \cup {None}, own : Linked \cup {None}]

ASSUME TreesAssumption == /\ Primary \notin Linked /\ None \notin Trees /\ CdTargets \subseteq Trees
                          /\ "$WT" \notin Trees \cup {None}
ASSUME NobodyAssumption == Nobody \notin Told
ASSUME OpsAssumption == AgentOps \subseteq Written
ASSUME ThresholdAssumption == BlockThreshold \in Nat

VARIABLES
  tree,      \* tree -> its directory, HEAD, commits ahead, uncommitted work
  main,      \* the primary branch against its remote: [ahead, behind, unfetched]
  deleted,   \* protected deletions staged in the primary index
  hook,      \* ref-guard's reference-transaction hook
  agent,     \* agent -> what the harness told it, Nobody when it is not running
  sync,      \* main-sync in progress: where, its next step, and (history)
             \* whether an agent has changed anything since by a command
             \* that is not plain
  sweep,     \* worktree-sweep in progress: what it decided to remove
  unread     \* history: worktrees where an agent staged a stray hunk by an
             \* operation the guard does not read as one that stages all

vars == <<tree, main, deleted, hook, agent, sync, sweep, unread>>

Here(t) == tree[t].at = "here"
Dirty(t) == tree[t].work \/ tree[t].bleed \in {"unstaged", "staged"}   \* git status --porcelain
Live(a) == agent[a] # Nobody

NoTree == [at |-> "none", head |-> "branch", ahead |-> 0, work |-> FALSE, bleed |-> "no"]
NoSync == [at |-> "idle", root |-> None, strayed |-> FALSE]
NoSweep == [remove |-> {}, prune |-> FALSE]

TypeOK ==
  /\ tree \in [Trees -> [at : {"none", "here", "gone"}, head : {"primary", "branch", "detached"},
                         ahead : 0..1, work : BOOLEAN,
                         bleed : {"no", "unstaged", "staged", "committed"}]]
  /\ main \in [ahead : 0..1, behind : 0..1, unfetched : 0..1]
  /\ deleted \in 0..BlockThreshold
  /\ hook \in {"absent", "installed", "outdated", "foreign"}
  /\ agent \in [Agents -> Told \cup {Nobody}]
  /\ sync \in [at : {"idle", "checkout", "fetch", "merge", "synced"}, root : Trees \cup {None},
               strayed : BOOLEAN]
  /\ sweep \in [remove : SUBSET Linked, prune : BOOLEAN]
  /\ unread \subseteq ManagedTrees

Init ==
  /\ tree = [t \in Trees |-> IF t = Primary THEN [NoTree EXCEPT !.at = "here", !.head = "primary"]
                                            ELSE NoTree]
  /\ main = [ahead |-> 0, behind |-> 0, unfetched |-> 0]
  /\ deleted = 0
  /\ hook \in {"absent", "outdated", "foreign"}
  /\ agent = [a \in Agents |-> Nobody]
  /\ sync = NoSync
  /\ sweep = NoSweep
  /\ unread = {}

-----------------------------------------------------------------------------
(* What the guards decide. *)

isManagedWorktree(w) == w \in ManagedTrees

(* The first signal present decides; an environment that names an          *)
(* unmanaged root disarms the guard whatever the others say.               *)
resolveArm(env, own, cwd) ==
  IF env # None THEN IF isManagedWorktree(env) THEN env ELSE None
  ELSE IF isManagedWorktree(own) THEN own
  ELSE IF isManagedWorktree(cwd) THEN cwd ELSE None

isIsolationExpected(type, cwd) == type = "coder" \/ cwd = Primary

(* The guard reads text.  Only the first `git` of a command is read for a  *)
(* HEAD move, and any option that names the worktree, or says "$WT", makes *)
(* it scoped; every segment is read for what stages all.                   *)
FirstGit(c, i) ==
  i \in DOMAIN c.ops /\ c.ops[i].as # "hidden" /\ \A j \in 1..(i - 1) : c.ops[j].as = "hidden"
isHeadMove(c) == \E i \in DOMAIN c.ops : FirstGit(c, i) /\ c.ops[i].as = "shown" /\ c.ops[i].op \in Moves
worktreeScoped(c, root) == \E i \in DOMAIN c.ops : FirstGit(c, i) /\ c.ops[i].in \in {root, "$WT"}
inspectGitStageAll(c) ==
  \E i \in DOMAIN c.ops : c.ops[i].as = "shown" /\ c.ops[i].op \in {"addall", "commitall"}

(* Faulty variant: a HEAD move is let through wherever it is scoped to. *)
pinBashMoves(root, c, expected) ==
  IF root = None THEN IF expected /\ inspectGitStageAll(c) THEN "refuse" ELSE "allow"
  ELSE IF inspectGitStageAll(c) THEN "refuse"
  ELSE IF c.cd # None \/ isHeadMove(c) THEN "allow" ELSE "pin"

(* Faulty variant: an agent without a worktree is never refused. *)
pinBashUnarmed(root, c, expected) ==
  IF root = None THEN "allow"
  ELSE IF inspectGitStageAll(c) THEN "refuse"
  ELSE IF c.cd # None \/ (isHeadMove(c) /\ worktreeScoped(c, root)) THEN "allow"
  ELSE IF isHeadMove(c) THEN "refuse" ELSE "pin"

(* Faulty variant: staging everything is refused only without a worktree. *)
pinBashStages(root, c, expected) ==
  IF root = None
  THEN IF expected /\ (inspectGitStageAll(c) \/ (c.cd = None /\ isHeadMove(c))) THEN "refuse" ELSE "allow"
  ELSE IF c.cd # None \/ (isHeadMove(c) /\ worktreeScoped(c, root)) THEN "allow"
  ELSE IF isHeadMove(c) THEN "refuse" ELSE "pin"

pinBash(root, c, expected) ==
  IF root = None
  THEN IF expected /\ (inspectGitStageAll(c) \/ (c.cd = None /\ isHeadMove(c))) THEN "refuse" ELSE "allow"
  ELSE IF inspectGitStageAll(c) THEN "refuse"
  ELSE IF c.cd # None \/ (isHeadMove(c) /\ worktreeScoped(c, root)) THEN "allow"
  ELSE IF isHeadMove(c) THEN "refuse" ELSE "pin"

(* Where a file path ends up: a relative one against the worktree, one     *)
(* into the main checkout (other worktrees lie under it) in the worktree's *)
(* copy if there is one, and nowhere if there is none.                     *)
resolvePath(root, cwd, path, copied) ==
  IF root = None THEN {IF path = "relative" THEN cwd ELSE path}
  ELSE IF path = "relative" \/ path = root THEN {root}
  ELSE IF path = Primary \/ path \in ManagedTrees THEN IF copied THEN {root} ELSE {}
  ELSE {path}

guardEnterWorktree(root) == root = None

(* Faulty variant: the owner gate is missing. *)
decideReapInherited(root, own, dirty) == isManagedWorktree(root) /\ ~ dirty

(* A stop reaps the worktree of its environment when the stopping agent's  *)
(* own sidecar names it too: nested agents inherit the environment.        *)
decideReap(root, own, dirty) == isManagedWorktree(root) /\ own = root /\ ~ dirty

(* quiet: neither locked nor touched within idleMinutes.  pr: the forge    *)
(* knows an open pull request of its branch, or could not be asked.        *)
decideSweep(w, quiet, pr) ==
  /\ w \in ManagedTrees \cup ReviewTrees
  /\ \/ tree[w].at = "gone"
     \/ /\ Here(w) /\ ~ Dirty(w) /\ quiet
        /\ w \in ReviewTrees \/ (~ (pr /\ tree[w].head = "branch") /\ tree[w].ahead = 0)

(* ref-guard on a local commit or a reset of the primary branch: anything  *)
(* that is not the remote's commit or a descendant of it is refused.       *)
decideRefUpdate(m) == m.behind = 0

decideHeadDetach(t) == t # Primary

decideMainSync(t) ==
  /\ ~ (Trusted /\ t = Primary /\ deleted >= BlockThreshold)
  /\ ~ Dirty(t)
-----------------------------------------------------------------------------
(* Git itself. *)
RefGuard == hook \in {"installed", "outdated"}

State == [tree |-> tree, main |-> main, deleted |-> deleted]

CommitIn(s, t) ==
  LET refused == \/ s.tree[t].head = "primary" /\ RefGuard /\ ~ decideRefUpdate(s.main)
                 \/ Trusted /\ t = Primary /\ s.deleted >= BlockThreshold
  IN IF refused THEN s
     ELSE [s EXCEPT !.tree[t].work = FALSE,
                    !.tree[t].bleed = IF @ = "staged" THEN "committed" ELSE @,
                    !.tree[t].ahead = IF s.tree[t].head = "primary" THEN @ ELSE 1,
                    !.main.ahead = IF s.tree[t].head = "primary" THEN 1 ELSE @,
                    !.deleted = IF t = Primary THEN 0 ELSE @]

StageIn(s, t) == [s EXCEPT !.tree[t].bleed = IF @ = "unstaged" THEN "staged" ELSE @]

(* One operation in one tree; in a tree that is not there it fails.  An    *)
(* `add` names the file the stray hunk is in.                              *)
Apply(s, op, t) ==
  IF t = None \/ s.tree[t].at # "here" \/ op = "look" THEN s ELSE
  CASE op = "detach" -> IF RefGuard /\ ~ decideHeadDetach(t) THEN s
                        ELSE [s EXCEPT !.tree[t].head = "detached"]
    [] op = "switch" -> [s EXCEPT !.tree[t].head = "branch"]
    [] op = "reset" -> [s EXCEPT !.tree[t].work = FALSE,
                                 !.tree[t].bleed = IF @ = "committed" THEN @ ELSE "no",
                                 !.deleted = IF t = Primary THEN 0 ELSE @]
    [] op = "rm" -> IF t # Primary THEN [s EXCEPT !.tree[t].work = TRUE]
                    ELSE [s EXCEPT !.tree[t].work = TRUE, !.deleted = IF @ < BlockThreshold THEN @ + 1 ELSE @]
    [] op \in {"add", "addall"} -> StageIn(s, t)
    [] op = "commit" -> CommitIn(s, t)
    [] op = "commitall" -> CommitIn(StageIn(s, t), t)

Commands == [cd : CdTargets \cup {None}, ops : UNION {[1..n -> AgentOps] : n \in 1..MaxOps}]

(* Whose HEAD, index and branch an operation works on, from directory base *)
(* and with $WORKTREE_ROOT as wt: --work-tree moves the files only, and an *)
(* unset variable names nothing.                                           *)
Landing(o, base, wt) ==
  LET named == IF o.in = "$WT" THEN wt ELSE o.in
  IN IF o.by \in {"here", "--work-tree"} \/ named = None THEN base ELSE named

(* A command run in a directory: it goes where it leads with `cd`. *)
Ran(c, dir, wt) ==
  LET base == IF c.cd = None THEN dir ELSE c.cd
      first == Apply(State, c.ops[1].op, Landing(c.ops[1], base, wt))
  IN IF Len(c.ops) = 1 THEN first ELSE Apply(first, c.ops[2].op, Landing(c.ops[2], base, wt))

Becomes(s) == tree' = s.tree /\ main' = s.main /\ deleted' = s.deleted

(* git worktree remove refuses uncommitted and untracked files by itself. *)
Removable(w) == Here(w) /\ ~ Dirty(w)

(* HEAD and what nobody else refers to go with the directory. *)
Remove(w) == tree' = [tree EXCEPT ![w] = NoTree]

Shared == <<main, deleted, hook>>
-----------------------------------------------------------------------------
(* Agents. *)

Unused(w) ==
  /\ tree[w].at = "none"
  /\ \A a \in Agents : Live(a) => w \notin {agent[a].env, agent[a].own}

(* The harness gives a coder a fresh worktree, maybe with hunks nobody     *)
(* wrote in it; the environment or the sidecar may fail to name it.        *)
SpawnIsolated(a, w) ==
  /\ ~ Live(a) /\ Unused(w)
  /\ \E env, own \in {w, None}, bleed \in {"no", "unstaged"} :
       /\ agent' = [agent EXCEPT ![a] = [type |-> "coder", env |-> env, own |-> own]]
       /\ tree' = [tree EXCEPT ![w] = [NoTree EXCEPT !.at = "here", !.bleed = bleed]]
  /\ unread' = unread \ {w}
  /\ UNCHANGED <<Shared, sync, sweep>>

(* A nested agent inherits its parent's environment and owns nothing. *)
SpawnNested(p, a) ==
  /\ Live(p) /\ ~ Live(a)
  /\ agent' = [agent EXCEPT ![a] = [type |-> "helper", env |-> agent[p].env, own |-> None]]
  /\ UNCHANGED <<tree, Shared, sync, sweep, unread>>

(* An agent's directory resets to the primary checkout between its calls, *)
(* or is still in an agent worktree.  (From a worktree outside the managed *)
(* layout a helper would not be guarded at all.)                           *)
Cwds == {t \in ManagedTrees \cup {Primary} : Here(t)}

ArmedAt(a, cwd) == resolveArm(agent[a].env, agent[a].own, cwd)

(* pre-bash, then the command it lets through. *)
Outcome(a, cwd, c) ==
  LET root == ArmedAt(a, cwd)
      verdict == pinBash(root, c, isIsolationExpected(agent[a].type, cwd))
  IN IF verdict = "refuse" THEN State
     ELSE Ran(c, IF verdict = "pin" THEN root ELSE cwd, agent[a].env)

(* The commands the guard is written for: one git operation, written so    *)
(* that it is seen, run where the shell stands, behind a `cd` into a       *)
(* worktree, or under -C of one.                                           *)
Plain(a, c) ==
  /\ Len(c.ops) = 1 /\ c.cd # Primary
  /\ c.ops[1].as = "shown" /\ c.ops[1].by \in {"here", "-C"} /\ c.ops[1].in # Primary
  /\ c.ops[1].in = "$WT" => agent[a].env # None

(* An operation that stages, and that the guard does not refuse as one. *)
StagesUnread(c) ==
  \E i \in DOMAIN c.ops : c.ops[i].op \in Stages /\ ~ (c.ops[i].as = "shown" /\ c.ops[i].op # "add")

Taken(trees, w) == trees[w].bleed \in {"staged", "committed"}

Bash(a) ==
  /\ Live(a)
  /\ \E cwd \in Cwds, c \in Commands :
       LET s == Outcome(a, cwd, c)
       IN /\ s # State
          /\ Becomes(s)
          /\ sync' = IF sync = NoSync \/ Plain(a, c) THEN sync ELSE [sync EXCEPT !.strayed = TRUE]
          /\ unread' = IF StagesUnread(c)
                       THEN unread \cup {w \in ManagedTrees : Taken(s.tree, w) /\ ~ Taken(tree, w)}
                       ELSE unread
  /\ UNCHANGED <<hook, agent, sweep>>

(* Where a write of this agent may end up: pre-file rewrites its path. *)
EditTargets(a) ==
  UNION {resolvePath(ArmedAt(a, cwd), cwd, path, copied) :
           cwd \in Cwds, path \in Trees \cup {"relative"}, copied \in BOOLEAN}

EditFile(a) ==
  /\ Live(a)
  /\ \E t \in EditTargets(a) :
       /\ Here(t)
       /\ tree' = [tree EXCEPT ![t].work = TRUE]
  /\ UNCHANGED <<Shared, agent, sync, sweep, unread>>

(* pre-enter, then the harness moves the session into a worktree of its own. *)
EnterWorktree(a, cwd, w) ==
  /\ Live(a) /\ Unused(w)
  /\ guardEnterWorktree(IF agent[a].env # None THEN agent[a].env ELSE ArmedAt(a, cwd))
  /\ agent' = [agent EXCEPT ![a].own = w]
  /\ tree' = [tree EXCEPT ![w] = [NoTree EXCEPT !.at = "here"]]
  /\ UNCHANGED <<Shared, sync, sweep, unread>>

(* SubagentStop, then reap: its root is the environment's, never the       *)
(* sidecar's, and Git may still refuse.                                    *)
Stop(a) ==
  LET w == agent[a].env IN
  /\ Live(a)
  /\ agent' = [agent EXCEPT ![a] = Nobody]
  /\ IF w # None /\ Here(w) /\ decideReap(w, agent[a].own, Dirty(w)) /\ Removable(w)
     THEN Remove(w) ELSE UNCHANGED tree
  /\ UNCHANGED <<Shared, sync, sweep, unread>>

-----------------------------------------------------------------------------
(* worktree-sweep --execute: every worktree is judged before the first is  *)
(* removed, and a prune, which is global, only follows when no record      *)
(* outside the managed roots would go with it.                             *)
Sweep ==
  /\ sweep = NoSweep
  /\ \E quiet, pr \in SUBSET Linked :
       LET judged == {w \in Linked : decideSweep(w, w \in quiet, w \in pr)}
           gone == {w \in Linked : tree[w].at = "gone"}
       IN sweep' = [remove |-> {w \in judged : Here(w)},
                    prune |-> gone \cap judged # {} /\ gone \subseteq judged]
  /\ sweep' # NoSweep
  /\ UNCHANGED <<tree, Shared, agent, sync, unread>>

SweepRemove(w) ==
  /\ w \in sweep.remove
  /\ IF Removable(w) THEN Remove(w) ELSE UNCHANGED tree
  /\ sweep' = [sweep EXCEPT !.remove = @ \ {w}]
  /\ UNCHANGED <<Shared, agent, sync, unread>>

SweepPrune ==
  /\ sweep.prune /\ sweep.remove = {}
  /\ tree' = [w \in Trees |-> IF tree[w].at = "gone" THEN NoTree ELSE tree[w]]
  /\ sweep' = NoSweep
  /\ UNCHANGED <<Shared, agent, sync, unread>>

-----------------------------------------------------------------------------
(* main-sync --execute in one checkout. *)
SyncDecide(t) ==
  /\ sync = NoSync /\ Here(t) /\ decideMainSync(t)
  /\ sync' = [at |-> IF tree[t].head = "primary" THEN "fetch" ELSE "checkout", root |-> t,
              strayed |-> FALSE]
  /\ UNCHANGED <<tree, Shared, agent, sweep, unread>>

(* Git attaches a branch in one worktree at a time. *)
SyncCheckout ==
  /\ sync.at = "checkout"
  /\ IF Here(sync.root) /\ \A t \in Trees \ {sync.root} : ~ (Here(t) /\ tree[t].head = "primary")
     THEN tree' = [tree EXCEPT ![sync.root].head = "primary"] /\ sync' = [sync EXCEPT !.at = "fetch"]
     ELSE UNCHANGED tree /\ sync' = NoSync
  /\ UNCHANGED <<Shared, agent, sweep, unread>>

SyncFetch ==
  /\ sync.at = "fetch"
  /\ \/ /\ main' = [main EXCEPT !.behind = IF main.unfetched = 1 THEN 1 ELSE @, !.unfetched = 0]
        /\ sync' = [sync EXCEPT !.at = "merge"]
     \/ sync' = NoSync /\ UNCHANGED main
  /\ UNCHANGED <<tree, deleted, hook, agent, sweep, unread>>

(* merge --ff-only merges into whatever HEAD is on by now; Git may refuse  *)
(* for uncommitted work in its way.                                        *)
FastForwards(t) ==
  /\ Here(t)
  /\ IF tree[t].head = "primary" THEN main.behind = 0 \/ main.ahead = 0 ELSE tree[t].ahead = 0

SyncMerge ==
  /\ sync.at = "merge"
  /\ \/ /\ FastForwards(sync.root)
        /\ main' = IF tree[sync.root].head = "primary" THEN [main EXCEPT !.behind = 0] ELSE main
        /\ sync' = [sync EXCEPT !.at = "synced"]
     \/ /\ ~ FastForwards(sync.root) \/ Dirty(sync.root)
        /\ sync' = NoSync /\ UNCHANGED main
  /\ UNCHANGED <<tree, deleted, hook, agent, sweep, unread>>

(* The success is reported, and the repository's own command may follow. *)
SyncReport ==
  /\ sync.at = "synced"
  /\ sync' = NoSync
  /\ UNCHANGED <<tree, Shared, agent, sweep, unread>>

-----------------------------------------------------------------------------
(* ref-guard install and uninstall: a hook that is not exactly one of its  *)
(* own is left alone, an older one of its own is upgraded, not removed.    *)
InstallHook ==
  /\ hook \in {"absent", "outdated"}
  /\ hook' = "installed"
  /\ UNCHANGED <<tree, main, deleted, agent, sync, sweep, unread>>

UninstallHook ==
  /\ hook = "installed"
  /\ hook' = "absent"
  /\ UNCHANGED <<tree, main, deleted, agent, sync, sweep, unread>>

-----------------------------------------------------------------------------
(* The world around the tools. *)

(* The owner works in the primary checkout while no sync of theirs runs;   *)
(* the hooks see their commands, the agents' guard does not.               *)
OwnerRuns(op) ==
  /\ sync = NoSync
  /\ Becomes(Apply(State, op, Primary))
  /\ UNCHANGED <<hook, agent, sync, sweep, unread>>

UpstreamMoves ==
  /\ main.unfetched = 0
  /\ main' = [main EXCEPT !.unfetched = 1]
  /\ UNCHANGED <<tree, deleted, hook, agent, sync, sweep, unread>>

(* A worktree's commits reach the remote's primary branch. *)
Integrates(w) ==
  /\ Here(w) /\ tree[w].ahead = 1
  /\ tree' = [tree EXCEPT ![w].ahead = 0]
  /\ UNCHANGED <<Shared, agent, sync, sweep, unread>>

(* A reviewer, or somebody by hand, adds a worktree. *)
AddTree(w) ==
  /\ tree[w].at = "none"
  /\ tree' = [tree EXCEPT ![w] = [NoTree EXCEPT !.at = "here", !.head = "detached"]]
  /\ UNCHANGED <<Shared, agent, sync, sweep, unread>>

(* A directory vanishes: deleted by hand, or its disk is not mounted. *)
Vanish(w) ==
  /\ Here(w) /\ ~ Dirty(w)
  /\ tree' = [tree EXCEPT ![w].at = "gone"]
  /\ UNCHANGED <<Shared, agent, sync, sweep, unread>>

-----------------------------------------------------------------------------
AgentActs ==
  \E a \in Agents :
    \/ \E w \in ManagedTrees : SpawnIsolated(a, w)
    \/ \E p \in Agents : SpawnNested(p, a)
    \/ Bash(a)
    \/ EditFile(a)
    \/ \E cwd \in Cwds, w \in ManagedTrees : EnterWorktree(a, cwd, w)
    \/ Stop(a)

SweepActs == Sweep \/ (\E w \in Linked : SweepRemove(w)) \/ SweepPrune

SyncActs ==
  \/ \E t \in Trees : SyncDecide(t)
  \/ SyncCheckout \/ SyncFetch \/ SyncMerge \/ SyncReport

OwnerActs ==
  \/ \E op \in Ops : OwnerRuns(op)
  \/ InstallHook \/ UninstallHook \/ UpstreamMoves

TreeActs ==
  \/ \E w \in ReviewTrees \cup OtherTrees : AddTree(w)
  \/ \E w \in Linked : Integrates(w) \/ Vanish(w)

Next == AgentActs \/ SweepActs \/ SyncActs \/ OwnerActs \/ TreeActs

Spec == Init /\ [][Next]_vars

-----------------------------------------------------------------------------
(* While every running agent is armed and the owner's own hands are off    *)
(* the primary checkout (a sync runs), nothing but that sync changes its   *)
(* HEAD, its uncommitted work, its index or the primary branch's commits,  *)
(* until an agent runs a command that is not plain: pinned behind a `cd`   *)
(* or let through, such a command still does what it likes there.          *)
ArmedAgentsStayOut ==
  [][ ( /\ sync # NoSync /\ ~ sync'.strayed
        /\ \A a \in Agents : Live(a) => \A cwd \in Cwds : ArmedAt(a, cwd) # None )
      => /\ tree'[Primary] = tree[Primary] \/ SyncCheckout
         /\ deleted' = deleted
         /\ tree[Primary].head = "primary" => main'.ahead = main.ahead ]_vars

(* A sync that reports success left the primary checkout on its branch and *)
(* that branch at the remote's commit or ahead of it, whatever plain       *)
(* commands agents, armed or only expected to be, ran between its decision *)
(* and its merge.                                                          *)
SyncedMeansCurrent ==
  [][ sync.at = "merge" /\ sync'.at = "synced" /\ sync.root = Primary /\ ~ sync.strayed =>
        tree'[Primary].head = "primary" /\ main'.behind = 0 ]_vars

(* A hunk nobody wrote that a fresh worktree came up with is committed     *)
(* from there only after an agent staged it by naming its file, or in      *)
(* words the guard does not read: what it does read never slips through,   *)
(* behind whatever directory, option or other operation, armed or not.     *)
BleedOnlyUnread == \A w \in ManagedTrees : tree[w].bleed = "committed" => w \in unread

(* An agent that stops takes no worktree from an agent still running: not  *)
(* a nested one its parent's, whose environment it inherited.              *)
OwnersKeepTheirTree ==
  [][ \A a \in Agents : agent'[a] = Nobody /\ Live(a) =>
        \A b \in Agents \ {a} :
          Live(b) /\ agent[b].own # None => tree'[agent[b].own] = tree[agent[b].own] ]_vars
=============================================================================
