---------------------------- MODULE MCCheckouts ----------------------------
(* Checkouts in two scenes: agents in one worktree that stays clean and     *)
(* without commits of its own, around an owner who works in the primary    *)
(* checkout and syncs it; and agents in a worktree with stray hunks beside *)
(* one the tools know as a reviewer's or not at all, which are swept.      *)
EXTENDS Checkouts, TLC

CONSTANTS w1
VARIABLE scene

Form(op, as, by, in) == [op |-> op, as |-> as, by |-> by, in |-> in]

(* Operations as the guard expects them, and the ways past what it reads:  *)
(* options that name the primary checkout, or move the files only, or rest *)
(* on a variable; words it does not look for; a file staged by its name.   *)
MCAgentOps ==
  {Form(op, "shown", "here", None) : op \in {"detach", "rm", "commit", "commitall"}}
    \cup {Form("detach", "shown", "-C", in) : in \in {w1, "$WT"}}
    \cup {Form("detach", "shown", "--work-tree", w1), Form("commit", "shown", "-C", Primary),
          Form("detach", "other", "here", None), Form("addall", "other", "here", None),
          Form("add", "shown", "here", None)}

MCNext ==
  /\ UNCHANGED scene
  /\ \/ /\ scene = "owner"
        /\ AgentActs \/ SyncActs \/ OwnerActs
        /\ tree'[w1].bleed = "no" /\ ~ tree'[w1].work /\ tree'[w1].ahead = 0
        /\ \A w \in Linked \ {w1} : tree'[w].at = "none"
     \/ /\ scene = "sweep"
        /\ AgentActs \/ SweepActs \/ TreeActs
        /\ tree'[Primary] = tree[Primary]
        /\ Cardinality({w \in ReviewTrees \cup OtherTrees : tree'[w].at # "none"}) <= 1

MCInit ==
  /\ Init
  /\ \/ scene = "owner" /\ hook = "absent"
     \/ scene = "sweep" /\ hook = "foreign"   \* no hook command runs there

MCSpec == MCInit /\ [][MCNext]_<<vars, scene>>

AnyAgent == Permutations(Agents)
=============================================================================
