---------------------------- MODULE CheckoutsProofs ---------------------------
(***************************************************************************)
(* Theorems about the machine of one developer: the clone that agents      *)
(* share with its owner (Checkouts), for any number of agents, worktrees   *)
(* and operations in a command.                                            *)
(***************************************************************************)
EXTENDS Checkouts, TLAPS

TreeType == [at : {"none", "here", "gone"}, head : {"primary", "branch", "detached"},
             ahead : 0..1, work : BOOLEAN, bleed : {"no", "unstaged", "staged", "committed"}]
MainType == [ahead : 0..1, behind : 0..1, unfetched : 0..1]
StateType == [tree : [Trees -> TreeType], main : MainType, deleted : 0..BlockThreshold]

(* No stray hunk gets into an index or a commit of a managed worktree. *)
Keeps(before, after) == \A w \in ManagedTrees : Taken(after, w) => Taken(before, w)

-----------------------------------------------------------------------------
(* What one git operation does. *)
LEMMA StageStep ==
  ASSUME NEW s \in StateType, NEW t \in Trees
  PROVE  /\ StageIn(s, t) \in StateType
         /\ \A w \in Trees \ {t} : StageIn(s, t).tree[w] = s.tree[w]
<1> DEFINE e == [s.tree[t] EXCEPT !.bleed = IF @ = "unstaged" THEN "staged" ELSE @]
<1>1. e \in TreeType
  BY DEF StateType, TreeType
<1>2. StageIn(s, t) = [s EXCEPT !.tree = [s.tree EXCEPT ![t] = e]]
  BY DEF StageIn, StateType
<1> HIDE DEF e
<1>3. QED
  BY <1>1, <1>2 DEF StateType

LEMMA CommitStep ==
  ASSUME NEW s \in StateType, NEW t \in Trees
  PROVE  /\ CommitIn(s, t) \in StateType
         /\ \A w \in Trees \ {t} : CommitIn(s, t).tree[w] = s.tree[w]
         /\ Taken(CommitIn(s, t).tree, t) => Taken(s.tree, t)
<1> DEFINE onMain == s.tree[t].head = "primary"
<1> DEFINE e == [s.tree[t] EXCEPT !.work = FALSE, !.bleed = IF @ = "staged" THEN "committed" ELSE @,
                                  !.ahead = IF onMain THEN @ ELSE 1]
<1> DEFINE m == [s.main EXCEPT !.ahead = IF onMain THEN 1 ELSE @]
<1> DEFINE d == IF t = Primary THEN 0 ELSE s.deleted
<1>1. e \in TreeType /\ (s.tree[t].bleed \in {"no", "unstaged"} => e.bleed \in {"no", "unstaged"})
  <2>1. PICK r \in TreeType : r = s.tree[t]
    BY DEF StateType
  <2>2. ASSUME NEW n \in 0..1, NEW b \in {"no", "unstaged", "staged", "committed"}
        PROVE  /\ [r EXCEPT !.work = FALSE, !.bleed = b, !.ahead = n] \in TreeType
               /\ [r EXCEPT !.work = FALSE, !.bleed = b, !.ahead = n].bleed = b
    BY DEF TreeType
  <2>3. r.ahead \in 0..1 /\ r.bleed \in {"no", "unstaged", "staged", "committed"}
    BY DEF TreeType
  <2> DEFINE b == IF r.bleed = "staged" THEN "committed" ELSE r.bleed
  <2> DEFINE n == IF onMain THEN r.ahead ELSE 1
  <2>4. n \in 0..1 /\ b \in {"no", "unstaged", "staged", "committed"}
    BY <2>3
  <2>5. e = [r EXCEPT !.work = FALSE, !.bleed = b, !.ahead = n]
    BY <2>1
  <2>6. r.bleed \in {"no", "unstaged"} => b = r.bleed
    OBVIOUS
  <2> HIDE DEF e, b, n
  <2>7. QED
    BY <2>1, <2>2, <2>4, <2>5, <2>6
<1>2. m \in MainType /\ d \in 0..BlockThreshold
  BY ThresholdAssumption DEF StateType, MainType
<1>3. \/ CommitIn(s, t) = s
      \/ CommitIn(s, t) = [tree |-> [s.tree EXCEPT ![t] = e], main |-> m, deleted |-> d]
  BY DEF CommitIn, StateType, TreeType, MainType
<1> HIDE DEF e, m, d
<1>4. QED
  BY <1>1, <1>2, <1>3 DEF StateType, TreeType, Taken

LEMMA ApplyStep ==
  ASSUME NEW s \in StateType, NEW op \in Ops, NEW t \in Trees \cup {None}
  PROVE  /\ Apply(s, op, t) \in StateType
         /\ \A w \in Trees \ {t} : Apply(s, op, t).tree[w] = s.tree[w]
         /\ op \notin Stages => Keeps(s.tree, Apply(s, op, t).tree)
<1>1. CASE t = None \/ s.tree[t].at # "here" \/ op = "look"
  BY <1>1 DEF Apply, Keeps
<1> DEFINE There == t # None /\ s.tree[t].at = "here"
<1>2. CASE There /\ op = "commit"
  <2>1. Apply(s, op, t) = CommitIn(s, t) /\ t \in Trees
    BY <1>2 DEF Apply
  <2>2. QED
    BY <2>1, CommitStep DEF Keeps, Taken, Trees, Linked
<1>3. CASE There /\ op \in {"add", "addall"}
  <2>1. Apply(s, op, t) = StageIn(s, t) /\ t \in Trees
    BY <1>3 DEF Apply
  <2>2. QED
    BY <1>3, <2>1, StageStep DEF Stages
<1>4. CASE There /\ op = "commitall"
  <2>1. Apply(s, op, t) = CommitIn(StageIn(s, t), t) /\ t \in Trees
    BY <1>4 DEF Apply
  <2>2. PICK r \in StateType : r = StageIn(s, t)
    BY <2>1, StageStep
  <2>3. /\ CommitIn(r, t) \in StateType
        /\ \A w \in Trees \ {t} : CommitIn(r, t).tree[w] = r.tree[w] /\ r.tree[w] = s.tree[w]
    BY <2>1, <2>2, StageStep, CommitStep
  <2>4. QED
    BY <1>4, <2>1, <2>2, <2>3 DEF Stages
<1>5. ASSUME There, NEW e \in TreeType, NEW d \in 0..BlockThreshold,
             e.bleed \in {"staged", "committed"} => Taken(s.tree, t),
             Apply(s, op, t) = [s EXCEPT !.tree = [s.tree EXCEPT ![t] = e], !.deleted = d]
      PROVE  /\ Apply(s, op, t) \in StateType
             /\ \A w \in Trees \ {t} : Apply(s, op, t).tree[w] = s.tree[w]
             /\ Keeps(s.tree, Apply(s, op, t).tree)
  <2>1. Apply(s, op, t).tree = [s.tree EXCEPT ![t] = e]
    BY <1>5 DEF StateType
  <2>2. QED
    BY <1>5, <2>1 DEF StateType, Keeps, Taken, Trees, Linked
<1>6. CASE There /\ op \in {"detach", "switch"}
  <2> DEFINE e == [s.tree[t] EXCEPT !.head = IF op = "detach" THEN "detached" ELSE "branch"]
  <2>1. e \in TreeType /\ e.bleed = s.tree[t].bleed /\ s.deleted \in 0..BlockThreshold
    BY <1>6 DEF StateType, TreeType
  <2>2. \/ Apply(s, op, t) = s
        \/ Apply(s, op, t) = [s EXCEPT !.tree = [s.tree EXCEPT ![t] = e], !.deleted = s.deleted]
    BY <1>6 DEF Apply, StateType
  <2> HIDE DEF e
  <2>3. QED
    BY <1>5, <1>6, <2>1, <2>2 DEF Keeps, Taken
<1>7. CASE There /\ op \in {"reset", "rm"}
  <2> DEFINE e == IF op = "rm" THEN [s.tree[t] EXCEPT !.work = TRUE]
                  ELSE [s.tree[t] EXCEPT !.work = FALSE, !.bleed = IF @ = "committed" THEN @ ELSE "no"]
  <2> DEFINE d == IF op = "rm"
                  THEN IF t = Primary /\ s.deleted < BlockThreshold THEN s.deleted + 1 ELSE s.deleted
                  ELSE IF t = Primary THEN 0 ELSE s.deleted
  <2>1. e \in TreeType /\ (e.bleed \in {"staged", "committed"} => Taken(s.tree, t))
    BY <1>7 DEF StateType, TreeType, Taken
  <2>2. d \in 0..BlockThreshold
    BY ThresholdAssumption DEF StateType
  <2>3. Apply(s, op, t) = [s EXCEPT !.tree = [s.tree EXCEPT ![t] = e], !.deleted = d]
    BY <1>7 DEF Apply, StateType
  <2> HIDE DEF e, d
  <2>4. QED
    BY <1>5, <1>7, <2>1, <2>2, <2>3
<1>8. QED
  BY <1>1, <1>2, <1>3, <1>4, <1>6, <1>7 DEF Ops, Moves, Stages

(* What a command is made of, and where its operations land. *)
LEMMA CommandShape ==
  ASSUME NEW c \in Commands
  PROVE  /\ c.cd \in Trees \cup {None}
         /\ \E n \in Nat \ {0} : /\ DOMAIN c.ops = 1..n /\ Len(c.ops) = n
                               /\ \A i \in 1..n : c.ops[i] \in Written /\ c.ops[i].op \in Ops
<1>1. PICK n \in 1..MaxOps : c.ops \in [1..n -> AgentOps]
  BY DEF Commands
<1>2. n \in Nat \ {0} /\ DOMAIN c.ops = 1..n /\ Len(c.ops) = n
  BY <1>1
<1>3. \A i \in 1..n : c.ops[i] \in Written /\ c.ops[i].op \in Ops
  BY <1>1, OpsAssumption DEF Written
<1>4. QED
  BY <1>2, <1>3, TreesAssumption DEF Commands

LEMMA LandingTree ==
  ASSUME NEW o \in Written, NEW base \in Trees, NEW wt \in Trees \cup {None}
  PROVE  Landing(o, base, wt) \in Trees
BY TreesAssumption DEF Landing, Written

(* A command of one or two operations, in whatever trees they name. *)
LEMMA RanStep ==
  ASSUME State \in StateType, NEW c \in Commands, NEW dir \in Trees, NEW wt \in Trees \cup {None}
  PROVE  /\ Ran(c, dir, wt) \in StateType
         /\ ~ inspectGitStageAll(c) /\ ~ StagesUnread(c) => Keeps(tree, Ran(c, dir, wt).tree)
<1>1. PICK n \in Nat \ {0} : /\ DOMAIN c.ops = 1..n /\ Len(c.ops) = n
                            /\ \A i \in 1..n : c.ops[i] \in Written /\ c.ops[i].op \in Ops
  BY CommandShape
<1> DEFINE base == IF c.cd = None THEN dir ELSE c.cd
<1> DEFINE At(i) == Landing(c.ops[i], base, wt)
<1> DEFINE first == Apply(State, c.ops[1].op, At(1))
<1>2. \A i \in 1..n : At(i) \in Trees
  BY <1>1, CommandShape, LandingTree
<1>3. ~ inspectGitStageAll(c) /\ ~ StagesUnread(c) => \A i \in 1..n : c.ops[i].op \notin Stages
  BY <1>1 DEF inspectGitStageAll, StagesUnread, Stages
<1>4. State.tree = tree
  BY DEF State
<1>5. Ran(c, dir, wt) = IF n = 1 THEN first ELSE Apply(first, c.ops[2].op, At(2))
  BY <1>1 DEF Ran
<1> HIDE DEF At
<1>6. first \in StateType /\ (c.ops[1].op \notin Stages => Keeps(tree, first.tree))
  BY <1>1, <1>2, <1>4, ApplyStep
<1> HIDE DEF first
<1>7. CASE n = 1
  BY <1>3, <1>5, <1>6, <1>7
<1>8. CASE n # 1
  <2> DEFINE second == Apply(first, c.ops[2].op, At(2))
  <2>1. 1 \in 1..n /\ 2 \in 1..n
    BY <1>8
  <2>2. second \in StateType /\ (c.ops[2].op \notin Stages => Keeps(first.tree, second.tree))
    BY <1>1, <1>2, <1>6, <2>1, ApplyStep
  <2>3. QED
    BY <1>3, <1>5, <1>6, <1>8, <2>1, <2>2 DEF Keeps
<1>9. QED
  BY <1>7, <1>8

(* The harness and the tools give agents managed worktrees only. *)
AgentsManaged ==
  \A a \in Agents : Live(a) => {agent[a].env, agent[a].own} \subseteq ManagedTrees \cup {None}

(* Whoever is not armed is expected to be: staging everything in words the *)
(* guard reads is refused.                                                 *)
LEMMA OutcomeStep ==
  ASSUME TypeOK, AgentsManaged, NEW a \in Agents, Live(a), NEW cwd \in Cwds, NEW c \in Commands
  PROVE  /\ Outcome(a, cwd, c) \in StateType
         /\ ~ StagesUnread(c) => Keeps(tree, Outcome(a, cwd, c).tree)
<1> DEFINE root == ArmedAt(a, cwd)
<1> DEFINE verdict == pinBash(root, c, isIsolationExpected(agent[a].type, cwd))
<1> DEFINE dir == IF verdict = "pin" THEN root ELSE cwd
<1>1. State \in StateType /\ State.tree = tree
  BY DEF TypeOK, State, StateType, TreeType, MainType
<1>2. /\ agent[a].env \in ManagedTrees \cup {None} /\ agent[a].own \in ManagedTrees \cup {None}
      /\ cwd \in ManagedTrees \cup {Primary}
  BY DEF AgentsManaged, Cwds
<1>3. root \in ManagedTrees \cup {None} /\ (root = None => cwd = Primary)
  BY <1>2, TreesAssumption DEF ArmedAt, resolveArm, isManagedWorktree, Trees, Linked
<1>4. verdict = "refuse" \/ ~ inspectGitStageAll(c)
  BY <1>3 DEF pinBash, isIsolationExpected
<1>5. verdict = "pin" => root # None
  BY DEF pinBash
<1>6. dir \in Trees /\ agent[a].env \in Trees \cup {None}
  BY <1>2, <1>3, <1>5 DEF Trees, Linked
<1>7. Outcome(a, cwd, c) = IF verdict = "refuse" THEN State ELSE Ran(c, dir, agent[a].env)
  BY DEF Outcome
<1> HIDE DEF verdict, dir
<1>8. Keeps(tree, tree)
  BY DEF Keeps
<1>9. QED
  BY <1>1, <1>4, <1>6, <1>7, <1>8, RanStep

-----------------------------------------------------------------------------
(* Every step leaves the trees, the branch and the count well formed, and  *)
(* puts no stray hunk into an index or a commit of a managed worktree but  *)
(* by an operation the guard does not read.                                *)
Unstaged == \A w \in ManagedTrees : Taken(tree, w) => w \in unread

Good == /\ tree' \in [Trees -> TreeType] /\ main' \in MainType /\ deleted' \in 0..BlockThreshold
        /\ unread' \subseteq ManagedTrees
        /\ Unstaged => Unstaged'

LEMMA NewTree ==
  ASSUME NEW bleed \in {"no", "unstaged"}
  PROVE  /\ NoTree \in TreeType /\ NoTree.bleed = "no"
         /\ LET e == [NoTree EXCEPT !.at = "here", !.bleed = bleed]
            IN  e \in TreeType /\ e.bleed = bleed
         /\ LET e == [NoTree EXCEPT !.at = "here"] IN e \in TreeType /\ e.bleed = "no"
         /\ LET e == [NoTree EXCEPT !.at = "here", !.head = "detached"]
            IN  e \in TreeType /\ e.bleed = "no"
<1>1. NoTree \in TreeType /\ NoTree.bleed = "no"
  BY DEF NoTree, TreeType
<1>2. ASSUME NEW r \in TreeType
      PROVE  /\ [r EXCEPT !.at = "here", !.bleed = bleed] \in TreeType
             /\ [r EXCEPT !.at = "here", !.bleed = bleed].bleed = bleed
             /\ [r EXCEPT !.at = "here"] \in TreeType /\ [r EXCEPT !.at = "here"].bleed = r.bleed
             /\ [r EXCEPT !.at = "here", !.head = "detached"] \in TreeType
             /\ [r EXCEPT !.at = "here", !.head = "detached"].bleed = r.bleed
  BY DEF TreeType
<1>3. QED
  BY <1>1, <1>2

LEMMA OneTree ==
  ASSUME TypeOK, NEW t, NEW e, tree' = [tree EXCEPT ![t] = e], UNCHANGED <<main, deleted>>,
         unread' \in {unread, unread \ {t}},
         t \in Trees => /\ e \in TreeType
                        /\ e.bleed \in {"staged", "committed"} => Taken(tree, t) /\ UNCHANGED unread
  PROVE  Good
<1>1. tree \in [Trees -> TreeType] /\ main \in MainType /\ deleted \in 0..BlockThreshold
      /\ unread' \subseteq ManagedTrees
  BY DEF TypeOK, TreeType, MainType
<1>2. tree' \in [Trees -> TreeType]
  BY <1>1
<1>3. ASSUME Unstaged, NEW w \in ManagedTrees, Taken(tree', w)
      PROVE  w \in unread'
  <2>1. w \in Trees
    BY DEF Trees, Linked
  <2>2. CASE w = t
    BY <1>1, <1>3, <2>1, <2>2 DEF Unstaged, Taken
  <2>3. CASE w # t
    BY <1>1, <1>3, <2>1, <2>3 DEF Unstaged, Taken
  <2>4. QED
    BY <2>2, <2>3
<1>4. QED
  BY <1>1, <1>2, <1>3 DEF Good, Unstaged

LEMMA NoTreeStep ==
  ASSUME TypeOK, UNCHANGED <<tree, main, deleted, unread>>
  PROVE  Good
BY DEF TypeOK, TreeType, MainType, Good, Unstaged, Taken

LEMMA Becoming ==
  ASSUME NEW s \in StateType, Becomes(s), unread' \subseteq ManagedTrees,
         Unstaged => \A w \in ManagedTrees : Taken(s.tree, w) => w \in unread'
  PROVE  Good
BY DEF StateType, Becomes, Good, Unstaged

LEMMA AgentTrees ==
  ASSUME TypeOK, AgentsManaged, AgentActs
  PROVE  Good
<1>1. tree \in [Trees -> TreeType] /\ main \in MainType /\ deleted \in 0..BlockThreshold
  BY DEF TypeOK, TreeType, MainType
<1>2. ASSUME NEW a \in Agents, NEW w \in ManagedTrees, SpawnIsolated(a, w)
      PROVE  Good
  <2>1. PICK bleed \in {"no", "unstaged"} :
          tree' = [tree EXCEPT ![w] = [NoTree EXCEPT !.at = "here", !.bleed = bleed]]
    BY <1>2 DEF SpawnIsolated
  <2>2. [NoTree EXCEPT !.at = "here", !.bleed = bleed] \in TreeType
        /\ [NoTree EXCEPT !.at = "here", !.bleed = bleed].bleed = bleed
    BY NewTree
  <2>3. QED
    BY <1>2, <2>1, <2>2, OneTree DEF SpawnIsolated, Shared
<1>3. ASSUME NEW a \in Agents, NEW p \in Agents, SpawnNested(p, a)
      PROVE  Good
  BY <1>3, NoTreeStep DEF SpawnNested, Shared
<1>4. ASSUME NEW a \in Agents, Bash(a)
      PROVE  Good
  <2>1. PICK cwd \in Cwds, c \in Commands :
          /\ Live(a) /\ Becomes(Outcome(a, cwd, c))
          /\ unread' = IF StagesUnread(c)
                       THEN unread \cup {w \in ManagedTrees : /\ Taken(Outcome(a, cwd, c).tree, w)
                                                             /\ ~ Taken(tree, w)}
                       ELSE unread
    BY <1>4 DEF Bash
  <2>2. /\ Outcome(a, cwd, c) \in StateType
        /\ ~ StagesUnread(c) => Keeps(tree, Outcome(a, cwd, c).tree)
    BY <2>1, OutcomeStep
  <2>3. unread' \subseteq ManagedTrees
    BY <2>1 DEF TypeOK
  <2>4. Unstaged => \A w \in ManagedTrees : Taken(Outcome(a, cwd, c).tree, w) => w \in unread'
    BY <2>1, <2>2 DEF Unstaged, Keeps
  <2>5. QED
    BY <2>1, <2>2, <2>3, <2>4, Becoming
<1>5. ASSUME NEW a \in Agents, EditFile(a)
      PROVE  Good
  <2>1. \E t \in EditTargets(a) : tree' = [tree EXCEPT ![t].work = TRUE]
    BY <1>5 DEF EditFile
  <2>2. PICK t : tree' = [tree EXCEPT ![t].work = TRUE]
    BY <2>1
  <2> DEFINE e == [tree[t] EXCEPT !.work = TRUE]
  <2>3. tree' = [tree EXCEPT ![t] = e]
    BY <2>2
  <2>4. t \in Trees => e \in TreeType /\ e.bleed = tree[t].bleed
    BY <1>1 DEF TreeType
  <2> HIDE DEF e
  <2>5. QED
    BY <1>5, <2>3, <2>4, OneTree DEF EditFile, Shared, Taken
<1>6. ASSUME NEW a \in Agents, NEW cwd \in Cwds, NEW w \in ManagedTrees, EnterWorktree(a, cwd, w)
      PROVE  Good
  <2>1. [NoTree EXCEPT !.at = "here"] \in TreeType /\ [NoTree EXCEPT !.at = "here"].bleed = "no"
    BY NewTree
  <2>2. QED
    BY <1>6, <2>1, OneTree DEF EnterWorktree, Shared
<1>7. ASSUME NEW a \in Agents, Stop(a)
      PROVE  Good
  <2>1. UNCHANGED tree \/ tree' = [tree EXCEPT ![agent[a].env] = NoTree]
    BY <1>7 DEF Stop, Remove
  <2>2. NoTree \in TreeType /\ NoTree.bleed = "no"
    BY NewTree
  <2>3. CASE UNCHANGED tree
    BY <1>7, <2>3, NoTreeStep DEF Stop, Shared
  <2>4. CASE tree' = [tree EXCEPT ![agent[a].env] = NoTree]
    BY <1>7, <2>2, <2>4, OneTree DEF Stop, Shared
  <2>5. QED
    BY <2>1, <2>3, <2>4
<1>8. QED
  BY <1>2, <1>3, <1>4, <1>5, <1>6, <1>7 DEF AgentActs

LEMMA SweepTrees ==
  ASSUME TypeOK, SweepActs
  PROVE  Good
<1>1. tree \in [Trees -> TreeType] /\ main \in MainType /\ deleted \in 0..BlockThreshold
  BY DEF TypeOK, TreeType, MainType
<1>2. NoTree \in TreeType /\ NoTree.bleed = "no"
  BY NewTree
<1>3. CASE Sweep
  BY <1>3, NoTreeStep DEF Sweep, Shared
<1>4. ASSUME NEW w \in Linked, SweepRemove(w)
      PROVE  Good
  <2>1. CASE UNCHANGED tree
    BY <1>4, <2>1, NoTreeStep DEF SweepRemove, Shared
  <2>2. CASE tree' = [tree EXCEPT ![w] = NoTree]
    BY <1>2, <1>4, <2>2, OneTree DEF SweepRemove, Shared
  <2>3. QED
    BY <1>4, <2>1, <2>2 DEF SweepRemove, Remove
<1>5. CASE SweepPrune
  <2>1. tree' = [w \in Trees |-> IF tree[w].at = "gone" THEN NoTree ELSE tree[w]]
    BY <1>5 DEF SweepPrune
  <2>2. tree' \in [Trees -> TreeType] /\ Keeps(tree, tree')
    BY <1>1, <1>2, <2>1 DEF Keeps, Taken, Trees, Linked
  <2>3. UNCHANGED <<main, deleted, unread>> /\ unread \subseteq ManagedTrees
    BY <1>5 DEF SweepPrune, Shared, TypeOK
  <2>4. QED
    BY <1>1, <2>2, <2>3 DEF Good, Unstaged, Keeps
<1>6. QED
  BY <1>3, <1>4, <1>5 DEF SweepActs

LEMMA SyncTrees ==
  ASSUME TypeOK, SyncActs
  PROVE  Good
<1>1. tree \in [Trees -> TreeType] /\ main \in MainType /\ deleted \in 0..BlockThreshold
  BY DEF TypeOK, TreeType, MainType
<1>2. CASE UNCHANGED <<tree, deleted, unread>> /\ main' \in MainType
  BY <1>1, <1>2 DEF Good, Unstaged, Taken, TypeOK
<1>3. ASSUME NEW t \in Trees, SyncDecide(t)
      PROVE  Good
  BY <1>1, <1>2, <1>3 DEF SyncDecide, Shared
<1>4. CASE SyncCheckout
  <2> DEFINE t == sync.root
  <2> DEFINE e == [tree[t] EXCEPT !.head = "primary"]
  <2>1. tree' = [tree EXCEPT ![t] = e] \/ UNCHANGED tree
    BY <1>4 DEF SyncCheckout
  <2>2. t \in Trees => e \in TreeType /\ e.bleed = tree[t].bleed
    BY <1>1 DEF TreeType
  <2> HIDE DEF e, t
  <2>3. UNCHANGED <<main, deleted, unread>>
    BY <1>4 DEF SyncCheckout, Shared
  <2>4. CASE UNCHANGED tree
    BY <1>1, <1>2, <2>3, <2>4
  <2>5. CASE tree' = [tree EXCEPT ![t] = e]
    BY <2>2, <2>3, <2>5, OneTree DEF Taken
  <2>6. QED
    BY <2>1, <2>4, <2>5
<1>5. CASE SyncFetch
  <2> DEFINE b == IF main.unfetched = 1 THEN 1 ELSE main.behind
  <2>1. main' = [main EXCEPT !.behind = b, !.unfetched = 0] \/ UNCHANGED main
    BY <1>5 DEF SyncFetch
  <2>2. b \in 0..1
    BY <1>1 DEF MainType
  <2>3. ASSUME NEW m \in MainType, NEW n \in 0..1
        PROVE  [m EXCEPT !.behind = n, !.unfetched = 0] \in MainType
    <3>1. 0 \in 0..1 /\ [m EXCEPT !.behind = n] \in MainType
      BY DEF MainType
    <3>2. QED
      BY <3>1, Zenon DEF MainType
  <2> HIDE DEF b
  <2>4. main' \in MainType
    BY <1>1, <2>1, <2>2, <2>3
  <2>5. QED
    BY <1>2, <1>5, <2>4 DEF SyncFetch
<1>6. CASE SyncMerge
  <2>1. main' \in MainType
    BY <1>1, <1>6 DEF SyncMerge, MainType
  <2>2. QED
    BY <1>2, <1>6, <2>1 DEF SyncMerge
<1>7. CASE SyncReport
  BY <1>1, <1>2, <1>7 DEF SyncReport, Shared
<1>8. QED
  BY <1>3, <1>4, <1>5, <1>6, <1>7 DEF SyncActs

LEMMA OwnerTrees ==
  ASSUME TypeOK, OwnerActs
  PROVE  Good
<1>1. tree \in [Trees -> TreeType] /\ main \in MainType /\ deleted \in 0..BlockThreshold
  BY DEF TypeOK, TreeType, MainType
<1>2. CASE UNCHANGED <<tree, deleted, unread>> /\ main' \in MainType
  BY <1>1, <1>2 DEF Good, Unstaged, Taken, TypeOK
<1>3. ASSUME NEW op \in Ops, OwnerRuns(op)
      PROVE  Good
  <2>1. State \in StateType /\ State.tree = tree /\ Primary \in Trees
    BY <1>1 DEF State, StateType, Trees
  <2> DEFINE s == Apply(State, op, Primary)
  <2>2. /\ s \in StateType
        /\ \A w \in Trees \ {Primary} : s.tree[w] = tree[w]
    BY <2>1, ApplyStep
  <2>3. Keeps(tree, s.tree)
    BY <2>2, TreesAssumption DEF Keeps, Taken, Trees, Linked
  <2>4. Becomes(s) /\ UNCHANGED unread /\ unread \subseteq ManagedTrees
    BY <1>3 DEF OwnerRuns, TypeOK
  <2> HIDE DEF s
  <2>5. QED
    BY <2>2, <2>3, <2>4, Becoming DEF Unstaged, Keeps
<1>4. CASE InstallHook \/ UninstallHook
  BY <1>1, <1>2, <1>4 DEF InstallHook, UninstallHook
<1>5. CASE UpstreamMoves
  <2>1. main' \in MainType
    BY <1>1, <1>5 DEF UpstreamMoves, MainType
  <2>2. QED
    BY <1>2, <1>5, <2>1 DEF UpstreamMoves
<1>6. QED
  BY <1>3, <1>4, <1>5 DEF OwnerActs

LEMMA TreeTrees ==
  ASSUME TypeOK, TreeActs
  PROVE  Good
<1>1. tree \in [Trees -> TreeType]
  BY DEF TypeOK, TreeType
<1>2. ASSUME NEW w \in ReviewTrees \cup OtherTrees, AddTree(w)
      PROVE  Good
  <2>1. /\ [NoTree EXCEPT !.at = "here", !.head = "detached"] \in TreeType
        /\ [NoTree EXCEPT !.at = "here", !.head = "detached"].bleed = "no"
    BY NewTree
  <2>2. QED
    BY <1>2, <2>1, OneTree DEF AddTree, Shared
<1>3. ASSUME NEW w \in Linked, Integrates(w) \/ Vanish(w)
      PROVE  Good
  <2>1. PICK e \in {[tree[w] EXCEPT !.ahead = 0], [tree[w] EXCEPT !.at = "gone"]} :
          tree' = [tree EXCEPT ![w] = e]
    BY <1>3 DEF Integrates, Vanish
  <2>2. e \in TreeType /\ e.bleed = tree[w].bleed
    BY <1>1 DEF TreeType, Trees
  <2>3. UNCHANGED <<main, deleted, unread>>
    BY <1>3 DEF Integrates, Vanish, Shared
  <2>4. QED
    BY <2>1, <2>2, <2>3, OneTree DEF Taken
<1>4. QED
  BY <1>2, <1>3 DEF TreeActs

-----------------------------------------------------------------------------
(* What agents are told: two that run own different worktrees.             *)
OwnersDiffer ==
  \A a, b \in Agents :
    a # b /\ Live(a) /\ Live(b) /\ agent[a].own # None => agent[a].own # agent[b].own

LEMMA AgentsStep ==
  ASSUME TypeOK, AgentActs
  PROVE  /\ agent' \in [Agents -> Told \cup {Nobody}]
         /\ AgentsManaged => AgentsManaged'
         /\ OwnersDiffer => OwnersDiffer'
<1> DEFINE Kept == /\ agent' \in [Agents -> Told \cup {Nobody}]
                   /\ AgentsManaged => AgentsManaged'
                   /\ OwnersDiffer => OwnersDiffer'
<1>1. agent \in [Agents -> Told \cup {Nobody}]
  BY DEF TypeOK
<1>2. ManagedTrees \subseteq Linked /\ None \notin ManagedTrees
  BY TreesAssumption DEF Linked, Trees
<1>3. CASE UNCHANGED agent
  BY <1>1, <1>3 DEF AgentsManaged, OwnersDiffer, Live
<1>4. ASSUME NEW a \in Agents, NEW r \in Told, agent' = [agent EXCEPT ![a] = r],
             AgentsManaged => {r.env, r.own} \subseteq ManagedTrees \cup {None},
             r.own # None => \A b \in Agents : b # a /\ Live(b) => agent[b].own # r.own
      PROVE  Kept
  <2>1. agent' \in [Agents -> Told \cup {Nobody}] /\ agent'[a] = r
        /\ \A b \in Agents \ {a} : agent'[b] = agent[b]
    BY <1>1, <1>4
  <2>2. AgentsManaged => AgentsManaged'
    BY <1>4, <2>1 DEF AgentsManaged, Live
  <2>3. ASSUME OwnersDiffer, NEW b \in Agents, NEW c \in Agents, b # c,
               Live(b)', Live(c)', agent'[b].own # None
        PROVE  agent'[b].own # agent'[c].own
    BY <1>4, <2>1, <2>3 DEF OwnersDiffer, Live
  <2>4. QED
    BY <2>1, <2>2, <2>3 DEF OwnersDiffer
<1>5. ASSUME NEW a \in Agents, NEW w \in ManagedTrees, SpawnIsolated(a, w)
      PROVE  Kept
  <2>1. PICK env \in {w, None}, own \in {w, None} :
          agent' = [agent EXCEPT ![a] = [type |-> "coder", env |-> env, own |-> own]]
    BY <1>5 DEF SpawnIsolated
  <2>2. [type |-> "coder", env |-> env, own |-> own] \in Told
    BY <1>2, <2>1 DEF Told, Types
  <2>3. own # None => \A b \in Agents : Live(b) => agent[b].own # own
    BY <1>5, <2>1 DEF SpawnIsolated, Unused
  <2>4. QED
    BY <1>4, <2>1, <2>2, <2>3
<1>6. ASSUME NEW a \in Agents, NEW p \in Agents, SpawnNested(p, a)
      PROVE  Kept
  <2>1. agent[p] \in Told /\ Live(p)
    BY <1>1, <1>6 DEF SpawnNested, Live
  <2>2. /\ [type |-> "helper", env |-> agent[p].env, own |-> None] \in Told
        /\ AgentsManaged => agent[p].env \in ManagedTrees \cup {None}
    BY <2>1 DEF Told, Types, AgentsManaged
  <2>3. QED
    BY <1>4, <1>6, <2>2 DEF SpawnNested
<1>7. ASSUME NEW a \in Agents, NEW cwd \in Cwds, NEW w \in ManagedTrees, EnterWorktree(a, cwd, w)
      PROVE  Kept
  <2> DEFINE r == [agent[a] EXCEPT !.own = w]
  <2>1. agent[a] \in Told /\ Live(a) /\ agent' = [agent EXCEPT ![a] = r]
    BY <1>1, <1>7 DEF EnterWorktree, Live
  <2>2. r \in Told /\ r.env = agent[a].env /\ r.own = w
    BY <1>2, <2>1 DEF Told
  <2>3. \A b \in Agents : Live(b) => agent[b].own # w
    BY <1>7 DEF EnterWorktree, Unused
  <2>4. AgentsManaged => {r.env, r.own} \subseteq ManagedTrees \cup {None}
    BY <2>1, <2>2 DEF AgentsManaged
  <2> HIDE DEF r
  <2>5. QED
    BY <1>4, <2>1, <2>2, <2>3, <2>4
<1>8. ASSUME NEW a \in Agents, Stop(a)
      PROVE  Kept
  <2>1. agent' = [agent EXCEPT ![a] = Nobody]
    BY <1>8 DEF Stop
  <2>2. /\ agent' \in [Agents -> Told \cup {Nobody}]
        /\ \A b \in Agents : Live(b)' => Live(b) /\ agent'[b] = agent[b]
    BY <1>1, <2>1 DEF Live
  <2>3. QED
    BY <2>2 DEF AgentsManaged, OwnersDiffer
<1>9. CASE \E a \in Agents : Bash(a) \/ EditFile(a)
  BY <1>3, <1>9 DEF Bash, EditFile
<1>10. QED
  BY <1>5, <1>6, <1>7, <1>8, <1>9 DEF AgentActs

LEMMA OthersLeaveAgents ==
  SweepActs \/ SyncActs \/ OwnerActs \/ TreeActs => UNCHANGED agent
<1>1. SweepActs => UNCHANGED agent
  BY DEF SweepActs, Sweep, SweepRemove, SweepPrune
<1>2. SyncActs => UNCHANGED agent
  BY DEF SyncActs, SyncDecide, SyncCheckout, SyncFetch, SyncMerge, SyncReport
<1>3. OwnerActs => UNCHANGED agent
  BY DEF OwnerActs, OwnerRuns, InstallHook, UninstallHook, UpstreamMoves
<1>4. TreeActs => UNCHANGED agent
  BY DEF TreeActs, AddTree, Integrates, Vanish
<1>5. QED
  BY <1>1, <1>2, <1>3, <1>4

LEMMA ToolsStep ==
  ASSUME TypeOK, Next
  PROVE  /\ hook' \in {"absent", "installed", "outdated", "foreign"}
         /\ sync' \in [at : {"idle", "checkout", "fetch", "merge", "synced"}, root : Trees \cup {None},
                      strayed : BOOLEAN]
         /\ sweep' \in [remove : SUBSET Linked, prune : BOOLEAN]
<1> DEFINE SyncType == [at : {"idle", "checkout", "fetch", "merge", "synced"}, root : Trees \cup {None},
                        strayed : BOOLEAN]
<1> DEFINE SweepType == [remove : SUBSET Linked, prune : BOOLEAN]
<1>1. /\ hook \in {"absent", "installed", "outdated", "foreign"} /\ sync \in SyncType
      /\ sweep \in SweepType /\ NoSync \in SyncType /\ NoSweep \in SweepType
  BY DEF TypeOK, NoSync, NoSweep
<1>2. CASE AgentActs
  <2>1. ASSUME NEW a \in Agents, Bash(a)
        PROVE  UNCHANGED <<hook, sweep>> /\ sync' \in {sync, [sync EXCEPT !.strayed = TRUE]}
    BY <2>1 DEF Bash
  <2>2. [sync EXCEPT !.strayed = TRUE] \in SyncType
    BY <1>1
  <2>3. QED
    BY <1>1, <1>2, <2>1, <2>2 DEF AgentActs, SpawnIsolated, SpawnNested, EditFile, EnterWorktree, Stop, Shared
<1>3. CASE SweepActs
  <2>1. CASE Sweep
    BY <1>1, <2>1 DEF Sweep, Shared
  <2>2. CASE SweepPrune
    BY <1>1, <2>2 DEF SweepPrune, Shared
  <2>3. ASSUME NEW w \in Linked, SweepRemove(w)
        PROVE  sweep' \in SweepType /\ UNCHANGED <<hook, sync>>
    BY <1>1, <2>3 DEF SweepRemove, Shared
  <2>4. QED
    BY <1>1, <1>3, <2>1, <2>2, <2>3 DEF SweepActs
<1>4. CASE SyncActs
  <2>1. ASSUME NEW t \in Trees, SyncDecide(t)
        PROVE  sync' \in SyncType /\ UNCHANGED <<hook, sweep>>
    BY <2>1 DEF SyncDecide, Shared
  <2>2. CASE SyncCheckout \/ SyncFetch \/ SyncMerge \/ SyncReport
    BY <1>1, <2>2 DEF SyncCheckout, SyncFetch, SyncMerge, SyncReport, Shared
  <2>3. QED
    BY <1>1, <1>4, <2>1, <2>2 DEF SyncActs
<1>5. CASE OwnerActs
  BY <1>1, <1>5 DEF OwnerActs, OwnerRuns, InstallHook, UninstallHook, UpstreamMoves
<1>6. CASE TreeActs
  BY <1>1, <1>6 DEF TreeActs, AddTree, Integrates, Vanish, Shared
<1>7. QED
  BY <1>2, <1>3, <1>4, <1>5, <1>6 DEF Next

-----------------------------------------------------------------------------
(* The primary checkout: where it is, and who has the primary branch.      *)

(* No directory comes up with the primary branch, and the primary checkout *)
(* does not go away.                                                       *)
HeadsStay(before, after) ==
  /\ before[Primary].at = "here" => after[Primary].at = "here"
  /\ \A t \in Trees : after[t].at = "here" /\ after[t].head = "primary" =>
                        before[t].at = "here" /\ before[t].head = "primary"

(* Git attaches a branch in one worktree at a time. *)
OneAttached ==
  \A t, u \in Trees :
    Here(t) /\ tree[t].head = "primary" /\ Here(u) /\ tree[u].head = "primary" => t = u

(* A sync of the primary checkout that is past its checkout finds it on    *)
(* its branch, as long as agents ran plain commands only.                  *)
SyncAttached ==
  ~ sync.strayed /\ sync.root = Primary /\ sync.at \in {"fetch", "merge"} =>
    tree[Primary].head = "primary"

(* What a git operation in tree t leaves as it was. *)
Framed(s, after, op, t) ==
  \/ after = s
  \/ /\ t \in Trees /\ s.tree[t].at = "here"
     /\ \E e \in TreeType, m \in MainType, d \in 0..BlockThreshold :
          /\ after = [tree |-> [s.tree EXCEPT ![t] = e], main |-> m, deleted |-> d]
          /\ e.at = "here"
          /\ e.head = s.tree[t].head \/ (op \in Moves /\ e.head # "primary")
          /\ t # Primary => d = s.deleted
          /\ s.tree[t].head # "primary" => m = s.main

LEMMA StageFrame ==
  ASSUME NEW s \in StateType, NEW t \in Trees, s.tree[t].at = "here", NEW op
  PROVE  Framed(s, StageIn(s, t), op, t)
<1> DEFINE e == [s.tree[t] EXCEPT !.bleed = IF @ = "unstaged" THEN "staged" ELSE @]
<1>1. e \in TreeType /\ e.at = "here" /\ e.head = s.tree[t].head
  BY DEF StateType, TreeType
<1>2. StageIn(s, t) = [tree |-> [s.tree EXCEPT ![t] = e], main |-> s.main, deleted |-> s.deleted]
  BY DEF StageIn, StateType
<1>3. s.main \in MainType /\ s.deleted \in 0..BlockThreshold
  BY DEF StateType
<1> HIDE DEF e
<1>4. QED
  BY <1>1, <1>2, <1>3 DEF Framed

LEMMA CommitFrame ==
  ASSUME NEW s \in StateType, NEW t \in Trees, s.tree[t].at = "here", NEW op
  PROVE  Framed(s, CommitIn(s, t), op, t)
<1> DEFINE onMain == s.tree[t].head = "primary"
<1> DEFINE e == [s.tree[t] EXCEPT !.work = FALSE, !.bleed = IF @ = "staged" THEN "committed" ELSE @,
                                  !.ahead = IF onMain THEN @ ELSE 1]
<1> DEFINE m == [s.main EXCEPT !.ahead = IF onMain THEN 1 ELSE @]
<1> DEFINE d == IF t = Primary THEN 0 ELSE s.deleted
<1>1. e \in TreeType /\ e.at = "here" /\ e.head = s.tree[t].head
  <2>1. PICK r \in TreeType : r = s.tree[t]
    BY DEF StateType
  <2>2. ASSUME NEW n \in 0..1, NEW b \in {"no", "unstaged", "staged", "committed"}
        PROVE  LET f == [r EXCEPT !.work = FALSE, !.bleed = b, !.ahead = n]
               IN  f \in TreeType /\ f.at = r.at /\ f.head = r.head
    BY DEF TreeType
  <2>3. r.ahead \in 0..1 /\ r.bleed \in {"no", "unstaged", "staged", "committed"}
    BY DEF TreeType
  <2> DEFINE b == IF r.bleed = "staged" THEN "committed" ELSE r.bleed
  <2> DEFINE n == IF onMain THEN r.ahead ELSE 1
  <2>4. n \in 0..1 /\ b \in {"no", "unstaged", "staged", "committed"}
    BY <2>3
  <2>5. e = [r EXCEPT !.work = FALSE, !.bleed = b, !.ahead = n]
    BY <2>1
  <2> HIDE DEF e, b, n
  <2>6. QED
    BY <2>1, <2>2, <2>4, <2>5
<1>2. m \in MainType /\ d \in 0..BlockThreshold /\ (~ onMain => m = s.main)
  BY ThresholdAssumption DEF StateType, MainType
<1>3. \/ CommitIn(s, t) = s
      \/ CommitIn(s, t) = [tree |-> [s.tree EXCEPT ![t] = e], main |-> m, deleted |-> d]
  BY DEF CommitIn, StateType, TreeType, MainType
<1>4. t # Primary => d = s.deleted
  OBVIOUS
<1> HIDE DEF e, m, d
<1>5. QED
  BY <1>1, <1>2, <1>3, <1>4 DEF Framed

LEMMA ApplyFrame ==
  ASSUME NEW s \in StateType, NEW op \in Ops, NEW t \in Trees \cup {None}
  PROVE  Framed(s, Apply(s, op, t), op, t)
<1>1. CASE t = None \/ s.tree[t].at # "here" \/ op = "look"
  BY <1>1 DEF Apply, Framed
<1> DEFINE There == t \in Trees /\ s.tree[t].at = "here" /\ t # None
<1>2. CASE There /\ op = "commit"
  BY <1>2, CommitFrame DEF Apply
<1>3. CASE There /\ op \in {"add", "addall"}
  BY <1>3, StageFrame DEF Apply
<1>4. CASE There /\ op = "commitall"
  <2>1. PICK r \in StateType : r = StageIn(s, t)
    BY <1>4, StageStep
  <2>2. Apply(s, op, t) = CommitIn(r, t)
    BY <1>4, <2>1 DEF Apply
  <2>3. PICK e \in TreeType :
          /\ r = [tree |-> [s.tree EXCEPT ![t] = e], main |-> s.main, deleted |-> s.deleted]
          /\ e.at = "here" /\ e.head = s.tree[t].head
    <3> DEFINE e == [s.tree[t] EXCEPT !.bleed = IF @ = "unstaged" THEN "staged" ELSE @]
    <3>1. e \in TreeType /\ e.at = "here" /\ e.head = s.tree[t].head
      BY <1>4 DEF StateType, TreeType
    <3>2. r = [tree |-> [s.tree EXCEPT ![t] = e], main |-> s.main, deleted |-> s.deleted]
      BY <2>1 DEF StageIn, StateType
    <3> HIDE DEF e
    <3>3. QED
      BY <3>1, <3>2
  <2>4. /\ r.tree[t] = e /\ r.main = s.main /\ r.deleted = s.deleted
        /\ \A f : [r.tree EXCEPT ![t] = f] = [s.tree EXCEPT ![t] = f]
    BY <1>4, <2>3 DEF StateType
  <2>5. Framed(r, CommitIn(r, t), op, t)
    BY <1>4, <2>3, <2>4, CommitFrame
  <2>6. s.main \in MainType /\ s.deleted \in 0..BlockThreshold
    BY DEF StateType
  <2>7. CASE CommitIn(r, t) = r
    BY <1>4, <2>2, <2>3, <2>6, <2>7 DEF Framed
  <2>8. CASE CommitIn(r, t) # r
    <3>1. PICK f \in TreeType, m \in MainType, d \in 0..BlockThreshold :
            /\ CommitIn(r, t) = [tree |-> [r.tree EXCEPT ![t] = f], main |-> m, deleted |-> d]
            /\ f.at = "here"
            /\ f.head = r.tree[t].head \/ (op \in Moves /\ f.head # "primary")
            /\ t # Primary => d = r.deleted
            /\ r.tree[t].head # "primary" => m = r.main
      BY <2>5, <2>8 DEF Framed
    <3>2. CommitIn(r, t) = [tree |-> [s.tree EXCEPT ![t] = f], main |-> m, deleted |-> d]
      BY <2>4, <3>1
    <3>3. QED
      BY <1>4, <2>2, <2>3, <2>4, <3>1, <3>2 DEF Framed
  <2>9. QED
    BY <2>7, <2>8
<1>5. CASE There /\ op \in {"detach", "switch"}
  <2> DEFINE e == [s.tree[t] EXCEPT !.head = IF op = "detach" THEN "detached" ELSE "branch"]
  <2>1. /\ e \in TreeType /\ e.at = "here" /\ e.head # "primary" /\ op \in Moves
        /\ s.main \in MainType /\ s.deleted \in 0..BlockThreshold
    BY <1>5 DEF StateType, TreeType, Moves
  <2>2. \/ Apply(s, op, t) = s
        \/ Apply(s, op, t) = [tree |-> [s.tree EXCEPT ![t] = e], main |-> s.main, deleted |-> s.deleted]
    BY <1>5 DEF Apply, StateType
  <2> HIDE DEF e
  <2>3. QED
    BY <1>5, <2>1, <2>2 DEF Framed
<1>6. CASE There /\ op \in {"reset", "rm"}
  <2> DEFINE e == IF op = "rm" THEN [s.tree[t] EXCEPT !.work = TRUE]
                  ELSE [s.tree[t] EXCEPT !.work = FALSE, !.bleed = IF @ = "committed" THEN @ ELSE "no"]
  <2> DEFINE d == IF op = "rm"
                  THEN IF t = Primary /\ s.deleted < BlockThreshold THEN s.deleted + 1 ELSE s.deleted
                  ELSE IF t = Primary THEN 0 ELSE s.deleted
  <2>1. e \in TreeType /\ e.at = "here" /\ e.head = s.tree[t].head
    BY <1>6 DEF StateType, TreeType
  <2>2. d \in 0..BlockThreshold /\ (t # Primary => d = s.deleted) /\ s.main \in MainType
    BY ThresholdAssumption DEF StateType
  <2>3. Apply(s, op, t) = [tree |-> [s.tree EXCEPT ![t] = e], main |-> s.main, deleted |-> d]
    BY <1>6 DEF Apply, StateType
  <2> HIDE DEF e, d
  <2>4. QED
    BY <1>6, <2>1, <2>2, <2>3 DEF Framed
<1>7. QED
  BY <1>1, <1>2, <1>3, <1>4, <1>5, <1>6 DEF Ops, Moves, Stages

LEMMA ApplyHeads ==
  ASSUME NEW s \in StateType, NEW op \in Ops, NEW t \in Trees \cup {None}
  PROVE  HeadsStay(s.tree, Apply(s, op, t).tree)
<1>1. ASSUME NEW after, Framed(s, after, op, t)
      PROVE  HeadsStay(s.tree, after.tree)
  <2>1. CASE after = s
    BY <2>1 DEF HeadsStay
  <2>2. CASE after # s
    <3>1. PICK e \in TreeType :
            /\ after.tree = [s.tree EXCEPT ![t] = e] /\ s.tree[t].at = "here"
            /\ e.at = "here" /\ (e.head = "primary" => s.tree[t].head = "primary")
      BY <1>1, <2>2 DEF Framed
    <3>2. \A u \in Trees : after.tree[u] = s.tree[u] \/ (u = t /\ after.tree[u] = e)
      BY <3>1 DEF StateType
    <3>3. Primary \in Trees
      BY DEF Trees
    <3>4. QED
      BY <3>1, <3>2, <3>3 DEF HeadsStay
  <2>3. QED
    BY <2>1, <2>2
<1>2. QED
  BY <1>1, ApplyFrame

LEMMA RanHeads ==
  ASSUME State \in StateType, NEW c \in Commands, NEW dir \in Trees, NEW wt \in Trees \cup {None}
  PROVE  HeadsStay(tree, Ran(c, dir, wt).tree)
<1>1. PICK n \in Nat \ {0} : /\ DOMAIN c.ops = 1..n /\ Len(c.ops) = n
                            /\ \A i \in 1..n : c.ops[i] \in Written /\ c.ops[i].op \in Ops
  BY CommandShape
<1> DEFINE base == IF c.cd = None THEN dir ELSE c.cd
<1> DEFINE At(i) == Landing(c.ops[i], base, wt)
<1> DEFINE first == Apply(State, c.ops[1].op, At(1))
<1>2. \A i \in 1..n : At(i) \in Trees
  BY <1>1, CommandShape, LandingTree
<1>3. State.tree = tree
  BY DEF State
<1>4. Ran(c, dir, wt) = IF n = 1 THEN first ELSE Apply(first, c.ops[2].op, At(2))
  BY <1>1 DEF Ran
<1> HIDE DEF At
<1>5. first \in StateType /\ HeadsStay(tree, first.tree)
  BY <1>1, <1>2, <1>3, ApplyStep, ApplyHeads
<1> HIDE DEF first
<1>6. n # 1 => HeadsStay(first.tree, Apply(first, c.ops[2].op, At(2)).tree)
  <2>1. n # 1 => 2 \in 1..n
    OBVIOUS
  <2>2. QED
    BY <1>1, <1>2, <1>5, <2>1, ApplyHeads
<1>7. QED
  BY <1>4, <1>5, <1>6 DEF HeadsStay

Armed == \A a \in Agents : Live(a) => \A cwd \in Cwds : ArmedAt(a, cwd) # None

(* A plain command lands in a worktree, or where its directory is. *)
LEMMA PlainRan ==
  ASSUME NEW a, NEW c \in Commands, Plain(a, c), agent[a].env \in Linked \cup {None},
         NEW dir \in Trees
  PROVE  /\ c.ops[1].op \in Ops
         /\ isHeadMove(c) <=> c.ops[1].op \in Moves
         /\ \A root \in Linked : worktreeScoped(c, root) => c.ops[1].in # None
         /\ \E t \in Trees : /\ Ran(c, dir, agent[a].env) = Apply(State, c.ops[1].op, t)
                             /\ t # Primary \/ (c.ops[1].in = None /\ c.cd = None /\ dir = Primary)
<1>1. /\ DOMAIN c.ops = {1} /\ Len(c.ops) = 1 /\ c.ops[1] \in Written /\ c.ops[1].op \in Ops
      /\ c.cd \in Trees \cup {None}
  BY CommandShape DEF Plain
<1>2. /\ isHeadMove(c) <=> c.ops[1].op \in Moves
      /\ \A root : worktreeScoped(c, root) <=> c.ops[1].in \in {root, "$WT"}
  BY <1>1 DEF Plain, isHeadMove, worktreeScoped, FirstGit
<1> DEFINE base == IF c.cd = None THEN dir ELSE c.cd
<1> DEFINE t == Landing(c.ops[1], base, agent[a].env)
<1>3. Ran(c, dir, agent[a].env) = Apply(State, c.ops[1].op, t)
  BY <1>1 DEF Ran
<1>4. base \in Trees /\ (base = Primary => c.cd = None /\ dir = Primary)
  BY <1>1 DEF Plain
<1>5. t \in Trees
  BY <1>1, <1>4, LandingTree DEF Trees
<1> HIDE DEF base
<1>6. c.ops[1].in # None => t # Primary
  BY <1>1, TreesAssumption DEF Plain, Landing, Written, Trees
<1>7. c.ops[1].in = None => t = base
  BY <1>1 DEF Landing, Written
<1> HIDE DEF t
<1>8. None \notin Linked /\ "$WT" # None
  BY TreesAssumption DEF Trees
<1>9. QED
  BY <1>1, <1>2, <1>3, <1>4, <1>5, <1>6, <1>7, <1>8

(* What is true of the primary checkout after a step of an agent, which    *)
(* may have run a plain command only.                                      *)
StaysOut(s, plain) ==
  /\ HeadsStay(tree, s.tree)
  /\ plain => s.tree[Primary].head = tree[Primary].head
  /\ plain /\ Armed =>
       /\ s.tree[Primary] = tree[Primary] /\ s.deleted = deleted
       /\ tree[Primary].head = "primary" => s.main.ahead = main.ahead

(* By a plain command an agent moves no HEAD of the primary checkout:      *)
(* armed, its command is sent to its worktree or refused, and unarmed it   *)
(* stands in the primary checkout, where what moves HEAD is refused.       *)
LEMMA OutcomeStaysOut ==
  ASSUME TypeOK, AgentsManaged, Here(Primary), OneAttached,
         NEW a \in Agents, Live(a), NEW cwd \in Cwds, NEW c \in Commands
  PROVE  StaysOut(Outcome(a, cwd, c), Plain(a, c))
<1> DEFINE root == ArmedAt(a, cwd)
<1> DEFINE verdict == pinBash(root, c, isIsolationExpected(agent[a].type, cwd))
<1> DEFINE dir == IF verdict = "pin" THEN root ELSE cwd
<1> DEFINE s == Outcome(a, cwd, c)
<1>1. State \in StateType /\ State.tree = tree /\ State.main = main /\ State.deleted = deleted
  BY DEF TypeOK, State, StateType, TreeType, MainType
<1>2. /\ agent[a].env \in ManagedTrees \cup {None} /\ agent[a].own \in ManagedTrees \cup {None}
      /\ cwd \in ManagedTrees \cup {Primary}
  BY DEF AgentsManaged, Cwds
<1>3. root \in ManagedTrees \cup {None} /\ (root = None => cwd = Primary)
  BY <1>2, TreesAssumption DEF ArmedAt, resolveArm, isManagedWorktree, Trees, Linked
<1>4. /\ ManagedTrees \subseteq Trees \ {Primary} /\ ManagedTrees \subseteq Linked
      /\ Primary \in Trees /\ None \notin Trees
  BY TreesAssumption DEF Trees, Linked
<1>5. verdict = "pin" => root # None
  BY DEF pinBash
<1>6. /\ dir \in Trees /\ agent[a].env \in Linked \cup {None} /\ agent[a].env \in Trees \cup {None}
      /\ dir = Primary => verdict # "pin"
  BY <1>2, <1>3, <1>4, <1>5
<1>7. s = IF verdict = "refuse" THEN State ELSE Ran(c, dir, agent[a].env)
  BY DEF Outcome
<1>8. HeadsStay(tree, s.tree)
  BY <1>1, <1>6, <1>7, RanHeads DEF HeadsStay
<1> HIDE DEF s, verdict, dir, root
<1>9. ASSUME Plain(a, c)
      PROVE  /\ c.ops[1].op \in Ops
             /\ \/ s = State
                \/ \E t \in Trees \ {Primary} : s = Apply(State, c.ops[1].op, t)
                \/ root = None /\ c.ops[1].op \notin Moves /\ s = Apply(State, c.ops[1].op, Primary)
  <2>1. /\ c.ops[1].op \in Ops /\ (isHeadMove(c) <=> c.ops[1].op \in Moves)
        /\ \A r \in Linked : worktreeScoped(c, r) => c.ops[1].in # None
    BY <1>6, <1>9, PlainRan
  <2>2. PICK t \in Trees : /\ Ran(c, dir, agent[a].env) = Apply(State, c.ops[1].op, t)
                           /\ t # Primary \/ (c.ops[1].in = None /\ c.cd = None /\ dir = Primary)
    BY <1>6, <1>9, PlainRan
  <2>3. CASE verdict = "refuse" \/ t # Primary
    BY <1>7, <2>1, <2>2, <2>3
  <2>4. CASE verdict # "refuse" /\ t = Primary
    <3>1. c.ops[1].in = None /\ c.cd = None /\ dir = Primary /\ verdict # "pin"
      BY <1>6, <2>2, <2>4
    <3>2. CASE root # None
      <4>1. worktreeScoped(c, root)
        BY <2>4, <3>1, <3>2 DEF pinBash, verdict
      <4>2. QED
        BY <1>3, <1>4, <2>1, <3>1, <3>2, <4>1
    <3>3. CASE root = None
      <4>1. ~ isHeadMove(c)
        BY <1>3, <2>4, <3>1, <3>3 DEF pinBash, isIsolationExpected, verdict
      <4>2. QED
        BY <1>7, <2>1, <2>2, <2>4, <3>3, <4>1
    <3>4. QED
      BY <3>2, <3>3
  <2>5. QED
    BY <2>3, <2>4
<1>10. ASSUME NEW t \in Trees \ {Primary}, NEW op \in Ops, s = Apply(State, op, t)
       PROVE  /\ s.tree[Primary] = tree[Primary] /\ s.deleted = deleted
              /\ tree[Primary].head = "primary" => s.main.ahead = main.ahead
  <2>1. Framed(State, s, op, t)
    BY <1>1, <1>10, ApplyFrame
  <2>2. CASE s = State
    BY <1>1, <2>2
  <2>3. CASE s # State
    <3>1. PICK e \in TreeType, m \in MainType, d \in 0..BlockThreshold :
            /\ t \in Trees /\ tree[t].at = "here"
            /\ s = [tree |-> [tree EXCEPT ![t] = e], main |-> m, deleted |-> d]
            /\ t # Primary => d = deleted
            /\ tree[t].head # "primary" => m = main
      BY <1>1, <2>1, <2>3 DEF Framed
    <3>2. t \in Trees \ {Primary}
      BY <1>4, <1>10, <3>1
    <3>3. tree[Primary].head = "primary" => tree[t].head # "primary"
      BY <1>4, <3>1, <3>2 DEF OneAttached, Here
    <3>4. s.tree[Primary] = tree[Primary]
      BY <1>1, <1>4, <3>1, <3>2 DEF StateType
    <3>5. QED
      BY <3>1, <3>2, <3>3, <3>4
  <2>4. QED
    BY <2>2, <2>3
<1>11. ASSUME NEW op \in Ops, op \notin Moves, s = Apply(State, op, Primary)
       PROVE  s.tree[Primary].head = tree[Primary].head
  <2>1. Framed(State, s, op, Primary)
    BY <1>1, <1>4, <1>11, ApplyFrame
  <2>2. QED
    BY <1>1, <1>4, <1>11, <2>1 DEF Framed, StateType
<1>12. Armed => root # None
  BY DEF Armed, root
<1>13. Plain(a, c) => s.tree[Primary].head = tree[Primary].head
  BY <1>1, <1>9, <1>10, <1>11
<1>14. Plain(a, c) /\ Armed => /\ s.tree[Primary] = tree[Primary] /\ s.deleted = deleted
                               /\ tree[Primary].head = "primary" => s.main.ahead = main.ahead
  BY <1>1, <1>9, <1>10, <1>12
<1>15. StaysOut(s, Plain(a, c))
  BY <1>8, <1>13, <1>14 DEF StaysOut
<1>16. QED
  BY <1>15 DEF s

LEMMA OneTreeHeads ==
  ASSUME TypeOK, NEW t, NEW e, tree' = [tree EXCEPT ![t] = e],
         t \in Trees => /\ e.at = "here" /\ e.head = "primary" => Here(t) /\ tree[t].head = "primary"
                        /\ t = Primary => e.at = "here"
  PROVE  HeadsStay(tree, tree')
BY DEF TypeOK, HeadsStay, Here, Trees

LEMMA NewTreeHeads ==
  ASSUME NEW bleed
  PROVE  /\ NoTree.at = "none" /\ [NoTree EXCEPT !.at = "here", !.bleed = bleed].head = "branch"
         /\ [NoTree EXCEPT !.at = "here"].head = "branch"
         /\ [NoTree EXCEPT !.at = "here", !.head = "detached"].head = "detached"
BY DEF NoTree

LEMMA AgentHeads ==
  ASSUME TypeOK, AgentsManaged, Here(Primary), OneAttached, AgentActs
  PROVE  /\ StaysOut(State', sync # NoSync /\ ~ sync'.strayed)
         /\ sync'.at = sync.at /\ sync'.root = sync.root /\ (~ sync'.strayed => ~ sync.strayed)
<1> DEFINE Plainly == sync # NoSync /\ ~ sync'.strayed
<1>1. tree \in [Trees -> TreeType] /\ State' = [tree |-> tree', main |-> main', deleted |-> deleted']
  BY DEF TypeOK, TreeType, State
<1> HIDE DEF Plainly
<1>2. ManagedTrees \subseteq Trees \ {Primary} /\ Primary \in Trees /\ None \notin Trees
  BY TreesAssumption DEF Trees, Linked
<1>3. ASSUME NEW w \in ManagedTrees, NEW e, tree' = [tree EXCEPT ![w] = e],
             e.at = "here" => e.head # "primary", UNCHANGED <<main, deleted>>
      PROVE  StaysOut(State', Plainly)
  <2>1. HeadsStay(tree, tree') /\ tree'[Primary] = tree[Primary]
    BY <1>1, <1>2, <1>3, OneTreeHeads
  <2>2. QED
    BY <1>1, <1>3, <2>1 DEF StaysOut
<1>4. ASSUME UNCHANGED <<tree, main, deleted>>
      PROVE  StaysOut(State', Plainly)
  BY <1>1, <1>4 DEF StaysOut, HeadsStay
<1>5. ASSUME NEW a \in Agents, NEW w \in ManagedTrees, SpawnIsolated(a, w)
      PROVE  StaysOut(State', Plainly)
  <2>1. PICK bleed \in {"no", "unstaged"} :
          tree' = [tree EXCEPT ![w] = [NoTree EXCEPT !.at = "here", !.bleed = bleed]]
    BY <1>5 DEF SpawnIsolated
  <2>2. [NoTree EXCEPT !.at = "here", !.bleed = bleed].head = "branch"
    BY NewTreeHeads
  <2>3. QED
    BY <1>3, <1>5, <2>1, <2>2 DEF SpawnIsolated, Shared
<1>6. ASSUME NEW a \in Agents, NEW p \in Agents, SpawnNested(p, a)
      PROVE  StaysOut(State', Plainly)
  BY <1>4, <1>6 DEF SpawnNested, Shared
<1>7. ASSUME NEW a \in Agents, Bash(a)
      PROVE  StaysOut(State', Plainly)
  <2>1. PICK cwd \in Cwds, c \in Commands :
          /\ Live(a) /\ Becomes(Outcome(a, cwd, c))
          /\ sync' = IF sync = NoSync \/ Plain(a, c) THEN sync ELSE [sync EXCEPT !.strayed = TRUE]
    BY <1>7 DEF Bash
  <2>2. StaysOut(Outcome(a, cwd, c), Plain(a, c))
    BY <2>1, OutcomeStaysOut
  <2>3. /\ Outcome(a, cwd, c).tree = tree' /\ Outcome(a, cwd, c).main = main'
        /\ Outcome(a, cwd, c).deleted = deleted'
    BY <2>1 DEF Becomes
  <2>4. Plainly => Plain(a, c)
    BY <2>1 DEF TypeOK, Plainly
  <2>5. QED
    BY <1>1, <2>2, <2>3, <2>4 DEF StaysOut
<1>8. ASSUME NEW a \in Agents, EditFile(a)
      PROVE  StaysOut(State', Plainly)
  <2>1. PICK t \in EditTargets(a) : Here(t) /\ tree' = [tree EXCEPT ![t].work = TRUE]
    BY <1>8 DEF EditFile
  <2>2. UNCHANGED <<main, deleted>> /\ Live(a)
    BY <1>8 DEF EditFile, Shared
  <2> DEFINE e == [tree[t] EXCEPT !.work = TRUE]
  <2>3. tree' = [tree EXCEPT ![t] = e]
    BY <2>1
  <2>4. t \in Trees => e.at = "here" /\ e.head = tree[t].head
    BY <1>1, <2>1 DEF TreeType, Here
  <2> HIDE DEF e
  <2>5. HeadsStay(tree, tree')
    BY <2>1, <2>3, <2>4, OneTreeHeads
  <2>6. tree'[Primary].head = tree[Primary].head
    BY <1>1, <1>2, <2>3, <2>4
  <2>7. Armed => t # Primary
    <3> SUFFICES ASSUME Armed
                 PROVE  t # Primary
      OBVIOUS
    <3>1. PICK cwd \in Cwds, path \in Trees \cup {"relative"}, copied \in BOOLEAN :
            t \in resolvePath(ArmedAt(a, cwd), cwd, path, copied)
      BY <2>1 DEF EditTargets
    <3>2. ArmedAt(a, cwd) # None
      BY <2>2 DEF Armed
    <3>3. /\ agent[a].env \in ManagedTrees \cup {None} /\ agent[a].own \in ManagedTrees \cup {None}
          /\ cwd \in ManagedTrees \cup {Primary}
      BY <2>2 DEF AgentsManaged, Cwds
    <3>4. ArmedAt(a, cwd) \in ManagedTrees
      BY <3>2, <3>3 DEF ArmedAt, resolveArm, isManagedWorktree
    <3>5. QED
      BY <1>2, <3>1, <3>2, <3>4 DEF resolvePath
  <2>8. Armed => tree'[Primary] = tree[Primary]
    BY <1>1, <1>2, <2>3, <2>7
  <2>9. QED
    BY <1>1, <2>2, <2>5, <2>6, <2>8 DEF StaysOut
<1>9. ASSUME NEW a \in Agents, NEW cwd \in Cwds, NEW w \in ManagedTrees, EnterWorktree(a, cwd, w)
      PROVE  StaysOut(State', Plainly)
  BY <1>3, <1>9, NewTreeHeads DEF EnterWorktree, Shared
<1>10. ASSUME NEW a \in Agents, Stop(a)
       PROVE  StaysOut(State', Plainly)
  <2>1. \/ UNCHANGED tree
        \/ agent[a].env \in ManagedTrees /\ tree' = [tree EXCEPT ![agent[a].env] = NoTree]
    BY <1>10 DEF Stop, Remove, decideReap, isManagedWorktree
  <2>2. UNCHANGED <<main, deleted>>
    BY <1>10 DEF Stop, Shared
  <2>3. QED
    BY <1>3, <1>4, <2>1, <2>2, NewTreeHeads
<1>11. sync'.at = sync.at /\ sync'.root = sync.root /\ (~ sync'.strayed => ~ sync.strayed)
  <2>1. \A a \in Agents : Bash(a) => sync' \in {sync, [sync EXCEPT !.strayed = TRUE]}
    BY DEF Bash
  <2>2. UNCHANGED sync \/ sync' = [sync EXCEPT !.strayed = TRUE]
    BY <2>1 DEF AgentActs, SpawnIsolated, SpawnNested, EditFile, EnterWorktree, Stop
  <2>3. QED
    BY <2>2 DEF TypeOK
<1>12. QED
  BY <1>5, <1>6, <1>7, <1>8, <1>9, <1>10, <1>11 DEF AgentActs, Plainly

LEMMA SweepHeads ==
  ASSUME TypeOK, Here(Primary), SweepActs
  PROVE  HeadsStay(tree, tree') /\ tree'[Primary] = tree[Primary] /\ UNCHANGED <<main, deleted, sync>>
<1>1. tree \in [Trees -> TreeType] /\ Primary \in Trees /\ Linked \subseteq Trees \ {Primary}
  BY TreesAssumption DEF TypeOK, TreeType, Trees
<1>2. CASE Sweep
  BY <1>2 DEF Sweep, Shared, HeadsStay
<1>3. ASSUME NEW w \in Linked, SweepRemove(w)
      PROVE  HeadsStay(tree, tree') /\ tree'[Primary] = tree[Primary] /\ UNCHANGED <<main, deleted, sync>>
  <2>1. UNCHANGED tree \/ tree' = [tree EXCEPT ![w] = NoTree]
    BY <1>3 DEF SweepRemove, Remove
  <2>2. CASE UNCHANGED tree
    BY <1>3, <2>2 DEF SweepRemove, Shared, HeadsStay
  <2>3. CASE tree' = [tree EXCEPT ![w] = NoTree]
    BY <1>1, <1>3, <2>3, OneTreeHeads, NewTreeHeads DEF SweepRemove, Shared
  <2>4. QED
    BY <2>1, <2>2, <2>3
<1>4. CASE SweepPrune
  BY <1>1, <1>4, NewTreeHeads DEF SweepPrune, Shared, HeadsStay, Here
<1>5. QED
  BY <1>2, <1>3, <1>4 DEF SweepActs

LEMMA TreeActsHeads ==
  ASSUME TypeOK, TreeActs
  PROVE  HeadsStay(tree, tree') /\ tree'[Primary] = tree[Primary] /\ UNCHANGED <<main, deleted, sync>>
<1>1. tree \in [Trees -> TreeType] /\ Primary \in Trees /\ Linked \subseteq Trees \ {Primary}
  BY TreesAssumption DEF TypeOK, TreeType, Trees
<1>2. ASSUME NEW w \in ReviewTrees \cup OtherTrees, AddTree(w)
      PROVE  HeadsStay(tree, tree') /\ tree'[Primary] = tree[Primary] /\ UNCHANGED <<main, deleted, sync>>
  <2>1. [NoTree EXCEPT !.at = "here", !.head = "detached"].head = "detached"
    BY NewTreeHeads
  <2>2. w \in Linked
    BY DEF Linked
  <2>3. QED
    BY <1>1, <1>2, <2>1, <2>2, OneTreeHeads DEF AddTree, Shared
<1>3. ASSUME NEW w \in Linked, Integrates(w) \/ Vanish(w)
      PROVE  HeadsStay(tree, tree') /\ tree'[Primary] = tree[Primary] /\ UNCHANGED <<main, deleted, sync>>
  <2>1. PICK e \in {[tree[w] EXCEPT !.ahead = 0], [tree[w] EXCEPT !.at = "gone"]} :
          Here(w) /\ tree' = [tree EXCEPT ![w] = e]
    BY <1>3 DEF Integrates, Vanish
  <2>2. e.head = tree[w].head
    BY <1>1 DEF TreeType
  <2>3. UNCHANGED <<main, deleted, sync>>
    BY <1>3 DEF Integrates, Vanish, Shared
  <2>4. QED
    BY <1>1, <2>1, <2>2, <2>3, OneTreeHeads
<1>4. QED
  BY <1>2, <1>3 DEF TreeActs

LEMMA OwnerHeads ==
  ASSUME TypeOK, OwnerActs
  PROVE  /\ HeadsStay(tree, tree') /\ UNCHANGED sync
         /\ sync # NoSync => UNCHANGED <<tree, deleted>> /\ main'.ahead = main.ahead
<1>1. /\ State \in StateType /\ State.tree = tree /\ Primary \in Trees
      /\ main \in MainType
  BY DEF TypeOK, State, StateType, TreeType, MainType, Trees
<1>2. ASSUME NEW op \in Ops, OwnerRuns(op)
      PROVE  HeadsStay(tree, tree')
  <2>1. HeadsStay(State.tree, Apply(State, op, Primary).tree)
    BY <1>1, ApplyHeads
  <2>2. QED
    BY <1>1, <1>2, <2>1 DEF OwnerRuns, Becomes
<1>3. ASSUME NEW op \in Ops, OwnerRuns(op)
      PROVE  UNCHANGED sync /\ sync = NoSync
  BY <1>3 DEF OwnerRuns
<1>4. CASE InstallHook \/ UninstallHook \/ UpstreamMoves
  <2>1. UNCHANGED <<tree, deleted, sync>> /\ main'.ahead = main.ahead
    BY <1>1, <1>4 DEF InstallHook, UninstallHook, UpstreamMoves, MainType
  <2>2. QED
    BY <2>1 DEF HeadsStay
<1>5. QED
  BY <1>2, <1>3, <1>4 DEF OwnerActs

(* The steps of a sync, but for its checkout, leave the trees alone. *)
LEMMA SyncHeads ==
  ASSUME TypeOK, SyncActs, ~ SyncCheckout
  PROVE  /\ UNCHANGED <<tree, deleted>> /\ main'.ahead = main.ahead
         /\ sync'.root = Primary /\ sync'.at \in {"fetch", "merge"} =>
              \/ tree[Primary].head = "primary"
              \/ UNCHANGED <<sync.root, sync.strayed>> /\ sync.at \in {"fetch", "merge"}
<1>1. /\ main \in MainType
      /\ sync \in [at : {"idle", "checkout", "fetch", "merge", "synced"}, root : Trees \cup {None},
                  strayed : BOOLEAN]
      /\ NoSync.at = "idle"
  BY DEF TypeOK, MainType, NoSync
<1>2. ASSUME NEW t \in Trees, SyncDecide(t)
      PROVE  /\ UNCHANGED <<tree, main, deleted>>
             /\ sync'.root = Primary /\ sync'.at \in {"fetch", "merge"} => tree[Primary].head = "primary"
  BY <1>2 DEF SyncDecide, Shared
<1>3. CASE SyncFetch
  <2>1. main'.ahead = main.ahead
    BY <1>1, <1>3 DEF SyncFetch, MainType
  <2>2. sync'.at \in {"fetch", "merge"} => UNCHANGED <<sync.root, sync.strayed>> /\ sync.at = "fetch"
    BY <1>1, <1>3 DEF SyncFetch
  <2>3. QED
    BY <1>3, <2>1, <2>2 DEF SyncFetch
<1>4. CASE SyncMerge
  <2>1. main'.ahead = main.ahead
    BY <1>1, <1>4 DEF SyncMerge, MainType
  <2>2. sync'.at \notin {"fetch", "merge"}
    BY <1>1, <1>4 DEF SyncMerge
  <2>3. QED
    BY <1>4, <2>1, <2>2 DEF SyncMerge
<1>5. CASE SyncReport
  BY <1>1, <1>5 DEF SyncReport, Shared
<1>6. QED
  BY <1>2, <1>3, <1>4, <1>5 DEF SyncActs

LEMMA CheckoutHeads ==
  ASSUME TypeOK, SyncCheckout
  PROVE  /\ UNCHANGED <<main, deleted>>
         /\ Here(Primary) => Here(Primary)'
         /\ OneAttached => OneAttached'
         /\ sync'.root = Primary /\ sync'.at \in {"fetch", "merge"} => tree'[Primary].head = "primary"
<1>1. /\ tree \in [Trees -> TreeType] /\ Primary \in Trees /\ NoSync.at = "idle"
      /\ sync \in [at : {"idle", "checkout", "fetch", "merge", "synced"}, root : Trees \cup {None},
                  strayed : BOOLEAN]
  BY DEF TypeOK, TreeType, Trees, NoSync
<1>2. UNCHANGED <<main, deleted>>
  BY DEF SyncCheckout, Shared
<1> DEFINE t == sync.root
<1> DEFINE Free == Here(t) /\ \A u \in Trees \ {t} : ~ (Here(u) /\ tree[u].head = "primary")
<1>3. CASE ~ Free
  <2>1. UNCHANGED tree /\ sync' = NoSync
    BY <1>3 DEF SyncCheckout
  <2>2. QED
    BY <1>1, <1>2, <2>1 DEF OneAttached, Here
<1>4. CASE Free
  <2> DEFINE e == [tree[t] EXCEPT !.head = "primary"]
  <2>1. tree' = [tree EXCEPT ![t] = e] /\ sync' = [sync EXCEPT !.at = "fetch"]
    BY <1>4 DEF SyncCheckout
  <2>2. t \in Trees => e.at = tree[t].at /\ e.head = "primary"
    BY <1>1 DEF TreeType
  <2> HIDE DEF e
  <2>3. \A u \in Trees : tree'[u].at = tree[u].at
    BY <1>1, <2>1, <2>2
  <2>4. \A u \in Trees \ {t} : tree'[u] = tree[u]
    BY <1>1, <2>1
  <2>5. sync'.root = Primary => tree'[Primary].head = "primary"
    BY <1>1, <2>1, <2>2
  <2>6. OneAttached'
    BY <1>4, <2>3, <2>4 DEF OneAttached, Here
  <2>7. QED
    BY <1>1, <1>2, <2>3, <2>5, <2>6 DEF Here
<1>5. QED
  BY <1>3, <1>4

LEMMA HeadsKeepAttached ==
  ASSUME HeadsStay(tree, tree'), Here(Primary), OneAttached
  PROVE  Here(Primary)' /\ OneAttached'
BY DEF HeadsStay, OneAttached, Here

LEMMA PrimaryStep ==
  ASSUME TypeOK, AgentsManaged, Here(Primary), OneAttached, SyncAttached, Next
  PROVE  Here(Primary)' /\ OneAttached' /\ SyncAttached'
<1>1. NoSync.at = "idle"
  BY DEF NoSync
<1>2. CASE AgentActs
  <2>1. /\ StaysOut(State', sync # NoSync /\ ~ sync'.strayed)
        /\ sync'.at = sync.at /\ sync'.root = sync.root /\ (~ sync'.strayed => ~ sync.strayed)
    BY <1>2, AgentHeads
  <2>2. /\ HeadsStay(tree, tree')
        /\ sync # NoSync /\ ~ sync'.strayed => tree'[Primary].head = tree[Primary].head
    BY <2>1 DEF StaysOut, State
  <2>3. sync'.at \in {"fetch", "merge"} => sync # NoSync
    BY <1>1, <2>1
  <2>4. QED
    BY <2>1, <2>2, <2>3, HeadsKeepAttached DEF SyncAttached
<1>3. CASE SweepActs
  BY <1>3, SweepHeads, HeadsKeepAttached DEF SyncAttached
<1>4. CASE TreeActs
  BY <1>4, TreeActsHeads, HeadsKeepAttached DEF SyncAttached
<1>5. CASE OwnerActs
  <2>1. HeadsStay(tree, tree') /\ UNCHANGED sync /\ (sync # NoSync => UNCHANGED tree)
    BY <1>5, OwnerHeads
  <2>2. QED
    BY <1>1, <2>1, HeadsKeepAttached DEF SyncAttached
<1>6. CASE SyncCheckout
  BY <1>6, CheckoutHeads DEF SyncAttached
<1>7. CASE SyncActs /\ ~ SyncCheckout
  <2>1. /\ UNCHANGED tree
        /\ sync'.root = Primary /\ sync'.at \in {"fetch", "merge"} =>
              \/ tree[Primary].head = "primary"
              \/ UNCHANGED <<sync.root, sync.strayed>> /\ sync.at \in {"fetch", "merge"}
    BY <1>7, SyncHeads
  <2>2. QED
    BY <2>1 DEF SyncAttached, OneAttached, Here
<1>8. QED
  BY <1>2, <1>3, <1>4, <1>5, <1>6, <1>7 DEF Next

-----------------------------------------------------------------------------
(* The inductive invariant: an agent is told of managed worktrees only, so *)
(* one that is not armed stands in the primary checkout and is refused     *)
(* whatever the guard reads as staging everything; hence a stray hunk is   *)
(* in an index only where an operation it does not read staged it.  The    *)
(* primary branch is checked out in one worktree, and in the primary       *)
(* checkout once a sync of it got that far and only plain commands ran.    *)
IInv == /\ TypeOK
        /\ AgentsManaged
        /\ OwnersDiffer
        /\ Unstaged
        /\ Here(Primary) /\ OneAttached /\ SyncAttached

LEMMA IInvInit == Init => IInv
<1> SUFFICES ASSUME Init
             PROVE  IInv
  OBVIOUS
<1>1. tree \in [Trees -> TreeType] /\ \A t \in Trees : tree[t].bleed = "no"
  <2>1. NoTree \in TreeType /\ NoTree.bleed = "no"
    BY NewTree
  <2>2. /\ [NoTree EXCEPT !.at = "here", !.head = "primary"] \in TreeType
        /\ [NoTree EXCEPT !.at = "here", !.head = "primary"].bleed = "no"
    BY <2>1 DEF TreeType
  <2>3. QED
    BY <2>1, <2>2 DEF Init
<1>2. TypeOK
  BY <1>1, ThresholdAssumption DEF Init, TypeOK, TreeType, NoSync, NoSweep
<1>3. AgentsManaged /\ OwnersDiffer
  BY DEF Init, AgentsManaged, OwnersDiffer, Live
<1>4. Here(Primary) /\ OneAttached /\ SyncAttached
  <2>1. /\ [NoTree EXCEPT !.at = "here", !.head = "primary"].at = "here"
        /\ NoTree.at = "none" /\ NoSync.at = "idle" /\ Primary \in Trees
    BY DEF NoTree, NoSync, Trees
  <2>2. QED
    BY <2>1 DEF Init, Here, OneAttached, SyncAttached
<1>5. QED
  BY <1>1, <1>2, <1>3, <1>4 DEF IInv, Unstaged, Taken, Trees, Linked

LEMMA IInvNext == IInv /\ [Next]_vars => IInv'
<1> SUFFICES ASSUME IInv, [Next]_vars
             PROVE  IInv'
  OBVIOUS
<1>1. CASE UNCHANGED vars
  BY <1>1 DEF vars, IInv, TypeOK, AgentsManaged, OwnersDiffer, Live, Unstaged, Taken, Here, OneAttached,
              SyncAttached
<1>2. CASE Next
  <2>1. Good
    BY <1>2, AgentTrees, SweepTrees, SyncTrees, OwnerTrees, TreeTrees DEF Next, IInv
  <2>2. /\ agent' \in [Agents -> Told \cup {Nobody}]
        /\ AgentsManaged' /\ OwnersDiffer'
    <3>1. CASE AgentActs
      BY <3>1, AgentsStep DEF IInv
    <3>2. CASE UNCHANGED agent
      BY <3>2 DEF IInv, TypeOK, AgentsManaged, OwnersDiffer, Live
    <3>3. QED
      BY <1>2, <3>1, <3>2, OthersLeaveAgents DEF Next
  <2>3. TypeOK'
    BY <1>2, <2>1, <2>2, ToolsStep DEF IInv, TypeOK, Good, TreeType, MainType
  <2>4. Here(Primary)' /\ OneAttached' /\ SyncAttached'
    BY <1>2, PrimaryStep DEF IInv
  <2>5. QED
    BY <2>1, <2>2, <2>3, <2>4 DEF IInv, Good
<1>3. QED
  BY <1>1, <1>2 DEF vars

LEMMA Invariance == Spec => []IInv
BY IInvInit, IInvNext, PTL DEF Spec

(* In any clone the trees, the branch, the guards' state and what agents   *)
(* were told stay well formed, whichever commands run in whichever order.  *)
THEOREM TypeCorrect == Spec => []TypeOK
BY Invariance, PTL DEF IInv

(* However many agents run which commands where, whatever their worktrees  *)
(* are called and whichever of their guards are armed, a hunk nobody wrote *)
(* that came with a fresh worktree is committed from there only after an   *)
(* agent staged it by an operation pre-bash does not read as one that      *)
(* stages everything: by its name, in other words, behind another git.     *)
THEOREM BleedStaysOut == Spec => []BleedOnlyUnread
<1>1. IInv => BleedOnlyUnread
  BY DEF IInv, Unstaged, Taken, BleedOnlyUnread
<1>2. QED
  BY <1>1, Invariance, PTL

(* An agent that stops takes no worktree from an agent that still runs:    *)
(* the reap asks that the environment's worktree be the stopping agent's   *)
(* own, and no two agents own one.                                         *)
THEOREM StoppingIsHarmless == Spec => OwnersKeepTheirTree
<1> DEFINE Spared ==
      \A a \in Agents : agent'[a] = Nobody /\ Live(a) =>
        \A b \in Agents \ {a} :
          Live(b) /\ agent[b].own # None => tree'[agent[b].own] = tree[agent[b].own]
<1>1. ASSUME IInv, Next
      PROVE  Spared
  <2> SUFFICES ASSUME NEW a \in Agents, agent'[a] = Nobody, Live(a),
                      NEW b \in Agents \ {a}, Live(b), agent[b].own # None
               PROVE  tree'[agent[b].own] = tree[agent[b].own]
    OBVIOUS
  <2>1. agent \in [Agents -> Told \cup {Nobody}] /\ agent' # agent
    BY <1>1 DEF IInv, TypeOK, Live
  <2>2. AgentActs
    BY <1>1, <2>1, OthersLeaveAgents DEF Next
  <2>3. Stop(a)
    <3>1. ASSUME NEW c \in Agents, NEW r \in Told, agent' = [agent EXCEPT ![c] = r]
          PROVE  FALSE
      BY <2>1, <3>1, NobodyAssumption DEF Live
    <3>2. ASSUME NEW c \in Agents, NEW w \in ManagedTrees, SpawnIsolated(c, w)
          PROVE  FALSE
      <4>1. PICK env \in {w, None}, own \in {w, None} :
              agent' = [agent EXCEPT ![c] = [type |-> "coder", env |-> env, own |-> own]]
        BY <3>2 DEF SpawnIsolated
      <4>2. QED
        BY <3>1, <4>1 DEF Told, Types, Linked
    <3>3. ASSUME NEW c \in Agents, NEW p \in Agents, SpawnNested(p, c)
          PROVE  FALSE
      <4>1. agent[p] \in Told
        BY <2>1, <3>3 DEF SpawnNested, Live
      <4>2. QED
        BY <3>1, <3>3, <4>1 DEF SpawnNested, Told, Types
    <3>4. ASSUME NEW c \in Agents, NEW cwd \in Cwds, NEW w \in ManagedTrees, EnterWorktree(c, cwd, w)
          PROVE  FALSE
      <4>1. agent[c] \in Told
        BY <2>1, <3>4 DEF EnterWorktree, Live
      <4>2. [agent[c] EXCEPT !.own = w] \in Told
        BY <4>1 DEF Told, Linked
      <4>3. QED
        BY <3>1, <3>4, <4>2 DEF EnterWorktree
    <3>5. \A c \in Agents : ~ (Bash(c) \/ EditFile(c))
      BY <2>1 DEF Bash, EditFile
    <3>6. ASSUME NEW c \in Agents, Stop(c)
          PROVE  c = a
      BY <2>1, <3>6 DEF Stop, Live
    <3>7. QED
      BY <2>2, <3>2, <3>3, <3>4, <3>5, <3>6 DEF AgentActs
  <2>4. agent[b].own # agent[a].own
    BY <1>1 DEF IInv, OwnersDiffer
  <2>5. \/ UNCHANGED tree
        \/ tree' = [tree EXCEPT ![agent[a].env] = NoTree] /\ agent[a].own = agent[a].env
    BY <2>3 DEF Stop, Remove, decideReap
  <2>6. tree \in [Trees -> TreeType] /\ agent[b].own \in Trees
    BY <1>1, <2>1 DEF IInv, TypeOK, TreeType, Live, Told, Trees
  <2>7. QED
    BY <2>4, <2>5, <2>6
<1>2. IInv /\ UNCHANGED vars => Spared
  BY DEF vars
<1>3. IInv /\ [Next]_vars => [Spared]_vars
  BY <1>1, <1>2
<1>4. QED
  BY <1>3, Invariance, PTL DEF Spec, OwnersKeepTheirTree

(* While a sync runs and every agent is armed, however many agents run     *)
(* which plain commands, that checkout and its branch stay as the sync has *)
(* them, up to the first command that is not plain.                        *)
THEOREM ArmedStayOut == Spec => ArmedAgentsStayOut
<1> DEFINE Kept ==
      ( /\ sync # NoSync /\ ~ sync'.strayed
        /\ \A a \in Agents : Live(a) => \A cwd \in Cwds : ArmedAt(a, cwd) # None )
      => /\ tree'[Primary] = tree[Primary] \/ SyncCheckout
         /\ deleted' = deleted
         /\ tree[Primary].head = "primary" => main'.ahead = main.ahead
<1>1. ASSUME IInv, Next
      PROVE  Kept
  <2> SUFFICES ASSUME sync # NoSync, ~ sync'.strayed, Armed
               PROVE  /\ tree'[Primary] = tree[Primary] \/ SyncCheckout
                      /\ deleted' = deleted
                      /\ tree[Primary].head = "primary" => main'.ahead = main.ahead
    BY DEF Armed
  <2>1. CASE AgentActs
    <3>1. StaysOut(State', sync # NoSync /\ ~ sync'.strayed)
      BY <1>1, <2>1, AgentHeads DEF IInv
    <3>2. QED
      BY <3>1 DEF StaysOut, State
  <2>2. CASE SweepActs
    BY <1>1, <2>2, SweepHeads DEF IInv
  <2>3. CASE TreeActs
    BY <1>1, <2>3, TreeActsHeads DEF IInv
  <2>4. CASE OwnerActs
    BY <1>1, <2>4, OwnerHeads DEF IInv
  <2>5. CASE SyncActs
    BY <1>1, <2>5, SyncHeads, CheckoutHeads DEF IInv
  <2>6. QED
    BY <1>1, <2>1, <2>2, <2>3, <2>4, <2>5 DEF Next
<1>2. IInv /\ UNCHANGED vars => Kept
  BY DEF vars
<1>3. IInv /\ [Next]_vars => [Kept]_vars
  BY <1>1, <1>2
<1>4. QED
  BY <1>3, Invariance, PTL DEF Spec, ArmedAgentsStayOut

(* A sync that reports success has its checkout on the primary branch, at  *)
(* the remote's commit or ahead of it: by plain commands neither an armed  *)
(* agent nor one that is only expected to be moved its HEAD between        *)
(* decision and merge.                                                     *)
THEOREM SyncIsCurrent == Spec => SyncedMeansCurrent
<1> DEFINE Current ==
      sync.at = "merge" /\ sync'.at = "synced" /\ sync.root = Primary /\ ~ sync.strayed =>
        tree'[Primary].head = "primary" /\ main'.behind = 0
<1>1. ASSUME IInv, Next
      PROVE  Current
  <2> SUFFICES ASSUME sync.at = "merge", sync'.at = "synced", sync.root = Primary, ~ sync.strayed
               PROVE  tree'[Primary].head = "primary" /\ main'.behind = 0
    OBVIOUS
  <2>1. tree[Primary].head = "primary" /\ main \in MainType
    BY <1>1 DEF IInv, SyncAttached, TypeOK, MainType
  <2>2. SyncMerge
    <3>1. sync' # sync /\ NoSync.at = "idle"
      BY DEF NoSync
    <3>2. ~ AgentActs
      BY <1>1, AgentHeads DEF IInv
    <3>3. ~ SweepActs /\ ~ TreeActs /\ ~ OwnerActs
      BY <1>1, <3>1, SweepHeads, TreeActsHeads, OwnerHeads DEF IInv
    <3>4. ~ SyncCheckout /\ ~ SyncFetch /\ ~ SyncReport /\ \A t \in Trees : ~ SyncDecide(t)
      BY <3>1 DEF SyncCheckout, SyncFetch, SyncReport, SyncDecide
    <3>5. QED
      BY <1>1, <3>2, <3>3, <3>4 DEF Next, SyncActs
  <2>3. UNCHANGED tree /\ main' = [main EXCEPT !.behind = 0]
    BY <2>1, <2>2 DEF SyncMerge, NoSync
  <2>4. QED
    BY <2>1, <2>3 DEF MainType
<1>2. IInv /\ UNCHANGED vars => Current
  BY DEF vars
<1>3. IInv /\ [Next]_vars => [Current]_vars
  BY <1>1, <1>2
<1>4. QED
  BY <1>3, Invariance, PTL DEF Spec, SyncedMeansCurrent
=============================================================================
