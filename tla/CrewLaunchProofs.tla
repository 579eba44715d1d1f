--------------------------- MODULE CrewLaunchProofs ---------------------------
(* Every pane of a herdr launch is counted or reported, a serving member is  *)
(* found at its inbox, and commands close only what is theirs, for any       *)
(* commands, projects, seats and faults (CrewLaunch); and a crew runs as it  *)
(* was configured, for any file, edits and commands (LaunchConfig).          *)
EXTENDS CrewLaunch, LaunchConfig, SequenceTheorems, FiniteSetTheorems, TLAPS

Launched == {"resolving", "opening", "splitting", "tiling", "renaming", "running",
             "unwinding"}

(* A command has a seat to launch from the moment it is issued until it has  *)
(* launched the last one, and only a stand-up's first seat opens a window.   *)
Orderly(j) ==
  /\ j.step \in Launched \cup {"registering"} => j.todo # <<>>
  /\ j.step = "reaping" => j.kind = "stand-down" \/ j.todo # <<>>
  /\ j.step = "resolving" => j.kind # "stand-up"
  /\ j.step = "splitting" => j.kind # "stand-up" \/ j.launched # {}

(* Why PanesAreAccountedFor is inductive: a pane that is neither counted nor *)
(* reported is the one its command is busy with, in its own tab if that is   *)
(* what a failure will close.                                                *)
BusyWith(p, j) ==
  /\ j.step \in {"renaming", "running", "unwinding"}
  /\ p.id[2] = Head(j.todo)
  /\ j.kind = "stand-up" /\ j.launched = {} => p.window = p.id[1]

Accounted(p, j) ==
  p.id[2] \in j.launched \/ j.stranded \/ j.step = "killed" \/ BusyWith(p, j)

Types == panes \subseteq Pane /\ job \in [Commands -> Job]
Order == \A c \in Commands : Orderly(job[c])
Herdr == terminal = "herdr" =>
           /\ \A c \in Commands : job[c].step # "tiling"
           /\ \A p \in panes : Accounted(p, job[p.id[1]])

IInv == Types /\ Order /\ Herdr

-----------------------------------------------------------------------------
(* What a step of control does to one command's record and to no other.      *)
LEMMA AdvanceShape ==
  ASSUME NEW j \in Job, NEW step \in Steps \cup Ended
  PROVE  /\ Advance(j, step) \in Job
         /\ Advance(j, step).step = step
         /\ Advance(j, step).kind = j.kind
         /\ Advance(j, step).launched = j.launched
         /\ Advance(j, step).stranded = j.stranded
         /\ step \notin Ended => Advance(j, step).todo = j.todo
<1>1. CASE step \notin Ended
  <2>1. Advance(j, step) = [j EXCEPT !.step = step]
    BY <1>1 DEF Advance
  <2>2. QED BY <1>1, <2>1 DEF Job
<1>2. CASE step \in Ended
  <2>1. Advance(j, step) = [j EXCEPT !.step = step, !.todo = <<>>, !.window = Nobody,
                                     !.label = None, !.found = None]
    BY <1>2 DEF Advance
  <2>2. <<>> \in Seq(Seats)
    OBVIOUS
  <2>3. QED BY <1>2, <2>1, <2>2 DEF Job
<1>3. QED BY <1>1, <1>2

(* A counted seat is added to those that are up, and nothing is reported.    *)
LEMMA CountedShape ==
  ASSUME NEW j \in Job, j.todo # <<>>
  PROVE  /\ Counted(j) \in Job
         /\ Counted(j).launched = j.launched \cup {Head(j.todo)}
         /\ Counted(j).stranded = j.stranded
         /\ Counted(j).step \in {"done", "splitting"}
         /\ Orderly(Counted(j))
<1> DEFINE k == [j EXCEPT !.launched = @ \cup {Head(j.todo)}, !.todo = Tail(@)]
           next == IF Len(j.todo) = 1 THEN "done" ELSE "splitting"
<1>1. j.todo \in Seq(Seats) /\ j.launched \in SUBSET Seats
  BY DEF Job
<1>2. Head(j.todo) \in Seats /\ Tail(j.todo) \in Seq(Seats)
  BY <1>1, HeadTailProperties
<1>3. Len(j.todo) # 1 => Tail(j.todo) # <<>>
  <2>1. Len(j.todo) \in Nat /\ Len(j.todo) # 0 /\ Len(Tail(j.todo)) = Len(j.todo) - 1
    BY <1>1, HeadTailProperties, LenProperties, EmptySeq
  <2>2. Len(j.todo) # 1 => Len(Tail(j.todo)) # 0
    BY <2>1
  <2>3. QED BY <2>2, EmptySeq
<1>4. /\ k \in Job
      /\ k.stranded = j.stranded
      /\ k.launched = j.launched \cup {Head(j.todo)}
      /\ k.todo = Tail(j.todo)
  BY <1>1, <1>2 DEF Job
<1>5. Counted(j) = Advance(k, next)
  BY DEF Counted
<1>6. next \in {"done", "splitting"} /\ next \in Steps \cup Ended
  BY DEF Steps, Ended
<1>7. next = "splitting" => Tail(j.todo) # <<>>
  BY <1>3
<1> HIDE DEF k, next
<1>8. /\ Counted(j) \in Job
      /\ Counted(j).step = next
      /\ Counted(j).launched = k.launched
      /\ Counted(j).stranded = k.stranded
      /\ next \notin Ended => Counted(j).todo = k.todo
  BY <1>4, <1>5, <1>6, AdvanceShape
<1>9. Orderly(Counted(j))
  BY <1>4, <1>6, <1>7, <1>8 DEF Orderly, Launched, Ended
<1>10. QED BY <1>4, <1>6, <1>8, <1>9

-----------------------------------------------------------------------------
(* A command's step preserves the invariant if what it leaves behind is      *)
(* orderly and accounted for; panes of other commands it only closes.        *)
LEMMA StepOfOne ==
  ASSUME IInv, NEW c \in Commands, NEW j \in Job,
         terminal' = terminal,
         job' = [job EXCEPT ![c] = j],
         Orderly(j),
         panes' \subseteq Pane,
         terminal = "herdr" =>
           /\ j.step # "tiling"
           /\ \A p \in panes' : IF p.id[1] = c THEN Accounted(p, j) ELSE p \in panes
  PROVE  IInv'
<1>1. Types'
  BY DEF IInv, Types
<1>2. \A d \in Commands : job'[d] = IF d = c THEN j ELSE job[d]
  BY DEF IInv, Types
<1>3. Order'
  BY <1>2 DEF IInv, Order
<1>4. Herdr'
  <2>1. SUFFICES ASSUME terminal = "herdr"
        PROVE  /\ \A d \in Commands : job'[d].step # "tiling"
               /\ \A p \in panes' : Accounted(p, job'[p.id[1]])
    BY DEF Herdr
  <2>2. \A d \in Commands : job'[d].step # "tiling"
    BY <1>2, <2>1 DEF IInv, Herdr
  <2>3. ASSUME NEW p \in panes' PROVE Accounted(p, job'[p.id[1]])
    <3>1. p.id[1] \in Commands
      BY DEF Pane, Ids
    <3>2. CASE p.id[1] = c
      BY <1>2, <2>1, <3>2
    <3>3. CASE p.id[1] # c
      BY <1>2, <2>1, <3>1, <3>3 DEF IInv, Herdr
    <3>4. QED BY <3>2, <3>3
  <2>4. QED BY <2>2, <2>3
<1>5. QED BY <1>1, <1>3, <1>4 DEF IInv

(* The same for a step of control that is not in the middle of a pane.       *)
LEMMA StepOfControl ==
  ASSUME IInv, NEW c \in Commands, NEW step \in Steps \cup Ended,
         terminal' = terminal,
         panes' \subseteq panes,
         Goto(c, step),
         step \notin {"tiling", "reaping"},
         step \in Launched \cup {"registering"} => job[c].todo # <<>>,
         step = "resolving" => job[c].kind # "stand-up",
         step = "splitting" => job[c].kind # "stand-up" \/ job[c].launched # {},
         step # "killed" => job[c].step \notin {"renaming", "running", "unwinding", "killed"}
  PROVE  IInv'
<1> DEFINE j == Advance(job[c], step)
<1>1. job[c] \in Job
  BY DEF IInv, Types
<1>2. /\ j \in Job
      /\ j.step = step
      /\ j.kind = job[c].kind
      /\ j.launched = job[c].launched
      /\ j.stranded = job[c].stranded
      /\ step \notin Ended => j.todo = job[c].todo
  BY <1>1, AdvanceShape
<1>3. job' = [job EXCEPT ![c] = j]
  BY DEF Goto
<1> HIDE DEF j
<1>4. Orderly(j)
  BY <1>2 DEF Orderly, Launched, Ended
<1>5. terminal = "herdr" =>
        \A p \in panes' : IF p.id[1] = c THEN Accounted(p, j) ELSE p \in panes
  BY <1>2 DEF IInv, Herdr, Accounted, BusyWith
<1>6. panes' \subseteq Pane
  BY DEF IInv, Types
<1>7. QED BY <1>2, <1>3, <1>4, <1>5, <1>6, StepOfOne

LEMMA Initially == Init => IInv
<1> SUFFICES ASSUME Init PROVE IInv
  OBVIOUS
<1> DEFINE j == [step |-> "idle", kind |-> "none", project |-> Nobody, todo |-> <<>>,
                 window |-> Nobody, launched |-> {}, stranded |-> FALSE,
                 label |-> None, found |-> None]
<1>1. <<>> \in Seq(Seats)
  OBVIOUS
<1>2. j \in Job
  BY <1>1 DEF Job
<1>3. Orderly(j)
  BY DEF Orderly, Launched
<1>4. job = [c \in Commands |-> j] /\ panes = {}
  BY DEF Init
<1>5. j.step # "tiling"
  OBVIOUS
<1> HIDE DEF j
<1>6. QED BY <1>2, <1>3, <1>4, <1>5 DEF IInv, Types, Order, Herdr

(* Issuing a command, and its work on files. *)
LEMMA IssueKeeps ==
  ASSUME IInv, NEW c \in Commands, NEW project \in Projects,
         NEW kind \in {"stand-up", "spawn-role", "retire-role", "stand-down"},
         NEW step \in {"reaping", "registering", "finding"},
         NEW todo \in Seq(Seats), NEW label \in Labels \cup {None},
         Issue(c, kind, project, step, todo, label),
         step = "registering" => todo # <<>>,
         step = "reaping" => kind = "stand-down" \/ todo # <<>>
  PROVE  IInv'
<1>1. PICK j \in Job : job[c] = j /\ j.step = "idle"
  BY DEF Issue, At, IInv, Types
<1> DEFINE k == [j EXCEPT !.kind = kind, !.project = project, !.step = step,
                          !.todo = todo, !.label = label]
<1>2. /\ k \in Job
      /\ k.step = step /\ k.kind = kind /\ k.todo = todo
      /\ k.launched = j.launched /\ k.stranded = j.stranded
  <2>1. step \in Steps
    BY DEF Steps
  <2>2. QED BY <2>1 DEF Job
<1>3. job' = [job EXCEPT ![c] = k]
  BY <1>1 DEF Issue, IInv, Types
<1> HIDE DEF k
<1>4. Orderly(k)
  BY <1>2 DEF Orderly, Launched
<1>5. terminal' = terminal /\ panes' = panes
  BY DEF Issue
<1>6. terminal = "herdr" =>
        \A p \in panes' : IF p.id[1] = c THEN Accounted(p, k) ELSE p \in panes
  BY <1>1, <1>2, <1>5 DEF IInv, Herdr, Accounted, BusyWith
<1>7. QED BY <1>2, <1>3, <1>4, <1>5, <1>6, StepOfOne DEF IInv, Types

(* Putting a seat on screen, and counting it as up. *)
LEMMA PlaceKeeps ==
  ASSUME IInv, NEW c \in Commands, NEW w \in Commands,
         NEW step \in {"tiling", "renaming"},
         Place(c, w, step),
         job[c].step \in {"opening", "splitting"},
         terminal = "herdr" => step = "renaming",
         job[c].kind = "stand-up" /\ job[c].launched = {} => w = c
  PROVE  IInv'
<1>1. PICK j \in Job : job[c] = j
  BY DEF IInv, Types
<1> DEFINE k == [j EXCEPT !.window = w, !.step = step]
           new == [id |-> Launching(c), window |-> w,
                   hosts |-> IF terminal = "tmux" THEN "claude" ELSE "shell"]
<1>2. /\ k \in Job
      /\ k.step = step /\ k.kind = j.kind /\ k.todo = j.todo
      /\ k.launched = j.launched /\ k.stranded = j.stranded
  <2>1. step \in Steps
    BY DEF Steps
  <2>2. QED BY <2>1 DEF Job
<1>3. job' = [job EXCEPT ![c] = k]
  BY <1>1 DEF Place, IInv, Types
<1>4. j.todo # <<>> /\ j.todo \in Seq(Seats) /\ Head(j.todo) \in Seats
  <2>1. j.todo # <<>>
    BY <1>1 DEF IInv, Order, Orderly, Launched
  <2>2. j.todo \in Seq(Seats)
    BY DEF Job
  <2>3. QED BY <2>1, <2>2, HeadTailProperties
<1>5. new \in Pane /\ new.id[1] = c /\ new.id[2] = Head(j.todo) /\ new.window = w
  BY <1>1, <1>4 DEF Pane, Ids, Launching
<1>6. panes' = panes \cup {new} /\ terminal' = terminal
  BY DEF Place
<1> HIDE DEF k, new
<1>7. Orderly(k)
  BY <1>2, <1>4 DEF Orderly, Launched
<1>8. ASSUME terminal = "herdr", NEW p \in panes'
      PROVE  IF p.id[1] = c THEN Accounted(p, k) ELSE p \in panes
  <2>1. CASE p = new
    BY <1>1, <1>2, <1>5, <1>8, <2>1 DEF Accounted, BusyWith
  <2>2. CASE p \in panes
    BY <1>1, <1>2, <1>8, <2>2 DEF IInv, Herdr, Accounted, BusyWith
  <2>3. QED BY <1>6, <2>1, <2>2
<1>9. panes' \subseteq Pane
  BY <1>5, <1>6 DEF IInv, Types
<1>10. QED BY <1>2, <1>3, <1>6, <1>7, <1>8, <1>9, StepOfOne

LEMMA CountKeeps ==
  ASSUME IInv, NEW c \in Commands, NEW j \in Job, j.todo # <<>>,
         job' = [job EXCEPT ![c] = Counted(j)],
         terminal' = terminal,
         panes' \subseteq Pane,
         terminal = "herdr" =>
           \A p \in panes' :
             IF p.id[1] = c
               THEN p.id[2] = Head(j.todo) \/ p.id[2] \in j.launched \/ j.stranded
               ELSE p \in panes
  PROVE  IInv'
<1> DEFINE k == Counted(j)
<1>1. /\ k \in Job
      /\ k.launched = j.launched \cup {Head(j.todo)}
      /\ k.stranded = j.stranded
      /\ k.step # "tiling"
      /\ Orderly(k)
  BY CountedShape
<1>2. job' = [job EXCEPT ![c] = k]
  OBVIOUS
<1> HIDE DEF k
<1>3. terminal = "herdr" =>
        \A p \in panes' : IF p.id[1] = c THEN Accounted(p, k) ELSE p \in panes
  BY <1>1 DEF Accounted
<1>4. QED BY <1>1, <1>2, <1>3, StepOfOne

-----------------------------------------------------------------------------
LEMMA IssuesKeep ==
  ASSUME IInv, NEW c \in Commands,
         runStandUp(c) \/ spawnRole(c) \/ retireRole(c) \/ runStandDown(c)
  PROVE  IInv'
<1>1. <<>> \in Seq(Seats) /\ Roster \in Seq(Seats) /\ Roster # <<>>
  BY RosterAssumption
<1>2. \A seat \in Seats : <<seat>> \in Seq(Seats) /\ <<seat>> # <<>>
  OBVIOUS
<1>3. CASE runStandUp(c)
  BY <1>1, <1>3, IssueKeeps DEF runStandUp
<1>4. CASE spawnRole(c)
  <2>1. PICK p \in Projects, seat \in Seats :
          Issue(c, "spawn-role", p, "registering", <<seat>>, None)
    BY <1>4 DEF spawnRole
  <2>2. QED BY <1>2, <2>1, IssueKeeps
<1>5. CASE retireRole(c)
  BY <1>1, <1>5, IssueKeeps DEF retireRole
<1>6. CASE runStandDown(c)
  BY <1>1, <1>6, IssueKeeps DEF runStandDown
<1>7. QED BY <1>3, <1>4, <1>5, <1>6

LEMMA FilesKeep ==
  ASSUME IInv, NEW c \in Commands,
         reapCrewProjectScopeFor(c) \/ writeCrewMcpJson(c) \/ FilesFail(c)
  PROVE  IInv'
<1>1. Orderly(job[c])
  BY DEF IInv, Order
<1>2. CASE reapCrewProjectScopeFor(c)
  <2> DEFINE next == IF job[c].kind = "stand-down" THEN "done" ELSE "registering"
  <2>1. next \in Steps \cup Ended /\ next \in {"done", "registering"}
    BY DEF Steps, Ended
  <2>2. next = "registering" => job[c].todo # <<>>
    BY <1>1, <1>2 DEF Orderly, reapCrewProjectScopeFor, At
  <2>3. /\ Goto(c, next) /\ terminal' = terminal /\ panes' = panes
        /\ job[c].step = "reaping"
    BY <1>2 DEF reapCrewProjectScopeFor, At
  <2> HIDE DEF next
  <2>4. QED BY <2>1, <2>2, <2>3, StepOfControl DEF Launched
<1>3. CASE writeCrewMcpJson(c)
  <2> DEFINE next == IF job[c].kind = "stand-up" THEN "opening" ELSE "resolving"
  <2>1. /\ next \in Steps \cup Ended /\ next \in {"opening", "resolving"}
        /\ next = "resolving" => job[c].kind # "stand-up"
    BY DEF Steps, Ended
  <2>2. job[c].todo # <<>>
    BY <1>1, <1>3 DEF Orderly, writeCrewMcpJson, At
  <2>3. /\ Goto(c, next) /\ terminal' = terminal /\ panes' = panes
        /\ job[c].step = "registering"
    BY <1>3 DEF writeCrewMcpJson, At
  <2> HIDE DEF next
  <2>4. QED BY <2>1, <2>2, <2>3, StepOfControl
<1>4. CASE FilesFail(c)
  <2>1. /\ Goto(c, "aborted") /\ terminal' = terminal /\ panes' = panes
        /\ job[c].step \in {"reaping", "registering"}
    BY <1>4 DEF FilesFail, At
  <2>2. QED BY <2>1, StepOfControl DEF Launched, Ended
<1>5. QED BY <1>2, <1>3, <1>4

(* Commands that end, or go on with no seat in hand. *)
LEMMA EndsKeep ==
  ASSUME IInv, NEW c \in Commands, CallFails(c) \/ LauncherKilled(c)
  PROVE  IInv'
<1>1. CASE CallFails(c)
  <2>1. /\ Goto(c, "aborted") /\ terminal' = terminal /\ panes' = panes
        /\ job[c].step \notin {"renaming", "running", "unwinding", "killed"}
    BY <1>1 DEF CallFails
  <2>2. QED BY <2>1, StepOfControl DEF Launched, Ended
<1>2. CASE LauncherKilled(c)
  <2>1. Goto(c, "killed") /\ terminal' = terminal /\ panes' = panes
    BY <1>2 DEF LauncherKilled
  <2>2. QED BY <2>1, StepOfControl DEF Launched, Ended
<1>3. QED BY <1>1, <1>2

LEMMA RetireKeeps ==
  ASSUME IInv, NEW c \in Commands,
         findCrewPane(c) \/ closePane(c) \/ removeInboxSocket(c) \/ removePaneCwd(c)
  PROVE  IInv'
<1>1. CASE findCrewPane(c)
  <2>1. /\ terminal' = terminal /\ panes' = panes /\ job[c].step = "finding"
    BY <1>1 DEF findCrewPane, At
  <2>2. CASE Goto(c, "aborted")
    BY <2>1, <2>2, StepOfControl DEF Launched, Ended
  <2>3. ASSUME NEW p \in panes,
               job' = [job EXCEPT ![c].found = p.id, ![c].step = "closing"]
        PROVE  IInv'
    <3>1. PICK j \in Job : job[c] = j /\ j.step = "finding"
      BY <2>1 DEF IInv, Types
    <3> DEFINE k == [j EXCEPT !.found = p.id, !.step = "closing"]
    <3>2. /\ k \in Job
          /\ k.step = "closing" /\ k.launched = j.launched /\ k.stranded = j.stranded
      <4>1. "closing" \in Steps /\ p.id \in Ids
        BY DEF Steps, IInv, Types, Pane
      <4>2. QED BY <4>1 DEF Job
    <3>3. job' = [job EXCEPT ![c] = k]
      BY <2>3, <3>1 DEF IInv, Types
    <3> HIDE DEF k
    <3>4. Orderly(k)
      BY <3>2 DEF Orderly, Launched
    <3>5. terminal = "herdr" =>
            \A q \in panes' : IF q.id[1] = c THEN Accounted(q, k) ELSE q \in panes
      BY <2>1, <3>1, <3>2 DEF IInv, Herdr, Accounted, BusyWith
    <3>6. QED BY <2>1, <3>2, <3>3, <3>4, <3>5, StepOfOne DEF IInv, Types
  <2>4. QED BY <1>1, <2>2, <2>3 DEF findCrewPane, Matches
<1>2. CASE closePane(c)
  <2> DEFINE next == IF OnScreen(job[c].found) THEN "unbinding" ELSE "aborted"
  <2>1. next \in {"unbinding", "aborted"} /\ next \in Steps \cup Ended
    BY DEF Steps, Ended
  <2>2. /\ Goto(c, next) /\ terminal' = terminal /\ panes' \subseteq panes
        /\ job[c].step = "closing"
    BY <1>2 DEF closePane, At
  <2> HIDE DEF next
  <2>3. QED BY <2>1, <2>2, StepOfControl DEF Launched
<1>3. CASE removeInboxSocket(c)
  <2>1. /\ Goto(c, "clearing") /\ terminal' = terminal /\ panes' = panes
        /\ job[c].step = "unbinding"
    BY <1>3 DEF removeInboxSocket, At
  <2>2. QED BY <2>1, StepOfControl DEF Launched, Steps
<1>4. CASE removePaneCwd(c)
  <2>1. /\ Goto(c, "done") /\ terminal' = terminal /\ panes' = panes
        /\ job[c].step = "clearing"
    BY <1>4 DEF removePaneCwd, At
  <2>2. QED BY <2>1, StepOfControl DEF Launched, Ended
<1>5. QED BY <1>1, <1>2, <1>3, <1>4

(* Launching a seat. *)
LEMMA OpenKeeps ==
  ASSUME IInv, NEW c \in Commands, OpenWindow(c) PROVE IInv'
<1>1. job[c] \in Job /\ job[c].step = "opening" /\ job[c].todo # <<>>
  BY DEF OpenWindow, At, IInv, Types, Order, Orderly, Launched
<1>2. CASE terminal = "herdr"
  BY <1>1, <1>2, PlaceKeeps DEF OpenWindow
<1>3. CASE terminal # "herdr"
  <2>1. PICK i \in Job : job[c] = i
    BY <1>1
  <2> DEFINE j == [i EXCEPT !.window = c]
             new == [id |-> Launching(c), window |-> c, hosts |-> "claude"]
  <2>2. j \in Job /\ j.todo = i.todo
    BY DEF Job
  <2>3. job' = [job EXCEPT ![c] = Counted(j)]
    BY <1>3, <2>1 DEF OpenWindow, IInv, Types
  <2>4. new \in Pane
    <3>1. i.todo \in Seq(Seats)
      BY DEF Job
    <3>2. Head(job[c].todo) \in Seats
      BY <1>1, <2>1, <3>1, HeadTailProperties
    <3>3. QED BY <3>2 DEF Pane, Ids, Launching
  <2>5. terminal' = terminal /\ panes' = panes \cup {new}
    BY <1>3 DEF OpenWindow
  <2> HIDE DEF j, new
  <2>6. panes' \subseteq Pane
    BY <2>4, <2>5 DEF IInv, Types
  <2>7. QED BY <1>1, <1>3, <2>1, <2>2, <2>3, <2>5, <2>6, CountKeeps
<1>4. QED BY <1>2, <1>3

LEMMA ResolveKeeps ==
  ASSUME IInv, NEW c \in Commands, resolveCrewWindow(c) PROVE IInv'
<1>1. PICK j \in Job : job[c] = j /\ j.step = "resolving"
  BY DEF resolveCrewWindow, At, IInv, Types
<1>2. terminal' = terminal /\ panes' = panes
  BY DEF resolveCrewWindow
<1>3. CASE Goto(c, "aborted")
  BY <1>1, <1>2, <1>3, StepOfControl DEF Launched, Ended
<1>4. ASSUME NEW w \in Commands,
             job' = [job EXCEPT ![c].window = w, ![c].step = "splitting"]
      PROVE  IInv'
  <2> DEFINE k == [j EXCEPT !.window = w, !.step = "splitting"]
  <2>1. /\ k \in Job /\ k.step = "splitting" /\ k.kind = j.kind /\ k.todo = j.todo
        /\ k.launched = j.launched /\ k.stranded = j.stranded
    <3>1. "splitting" \in Steps
      BY DEF Steps
    <3>2. QED BY <3>1 DEF Job
  <2>2. job' = [job EXCEPT ![c] = k]
    BY <1>1, <1>4 DEF IInv, Types
  <2> HIDE DEF k
  <2>3. Orderly(k)
    BY <1>1, <2>1 DEF IInv, Order, Orderly, Launched
  <2>4. terminal = "herdr" =>
          \A q \in panes' : IF q.id[1] = c THEN Accounted(q, k) ELSE q \in panes
    BY <1>1, <1>2, <2>1 DEF IInv, Herdr, Accounted, BusyWith
  <2>5. QED BY <1>2, <2>1, <2>2, <2>3, <2>4, StepOfOne DEF IInv, Types
<1>5. QED BY <1>3, <1>4 DEF resolveCrewWindow

LEMMA SplitKeeps ==
  ASSUME IInv, NEW c \in Commands, SplitWindow(c) PROVE IInv'
<1>1. job[c].step = "splitting"
  BY DEF SplitWindow, At
<1>2. CASE IsWindow(job[c].window)
  <2> DEFINE next == IF terminal = "tmux" THEN "tiling" ELSE "renaming"
  <2>1. next \in {"tiling", "renaming"} /\ (terminal = "herdr" => next = "renaming")
    OBVIOUS
  <2>2. job[c].window \in Commands
    BY <1>2 DEF IsWindow, IInv, Types, Pane
  <2>3. Place(c, job[c].window, next)
    BY <1>2 DEF SplitWindow
  <2>4. ~ (job[c].kind = "stand-up" /\ job[c].launched = {})
    BY <1>1 DEF IInv, Order, Orderly
  <2> HIDE DEF next
  <2>5. QED BY <1>1, <2>1, <2>2, <2>3, <2>4, PlaceKeeps
<1>3. CASE ~ IsWindow(job[c].window)
  <2>1. Goto(c, "aborted") /\ terminal' = terminal /\ panes' = panes
    BY <1>3 DEF SplitWindow
  <2>2. QED BY <1>1, <2>1, StepOfControl DEF Launched, Ended
<1>4. QED BY <1>2, <1>3

LEMMA TileKeeps ==
  ASSUME IInv, NEW c \in Commands, TileWindow(c) PROVE IInv'
<1>1. /\ job[c] \in Job /\ job[c].step = "tiling" /\ job[c].todo # <<>>
      /\ terminal # "herdr"
      /\ terminal' = terminal /\ panes' = panes
  BY DEF TileWindow, At, IInv, Types, Order, Orderly, Launched, Herdr
<1>2. CASE Goto(c, "aborted")
  BY <1>1, <1>2, StepOfControl DEF Launched, Ended
<1>3. CASE job' = [job EXCEPT ![c] = Counted(@)]
  BY <1>1, <1>3, CountKeeps DEF IInv, Types
<1>4. QED BY <1>2, <1>3 DEF TileWindow

LEMMA RenameKeeps ==
  ASSUME IInv, NEW c \in Commands, RenamePane(c) \/ PaneNotCommanded(c)
  PROVE  IInv'
<1> DEFINE next == IF RenamePane(c) THEN "running" ELSE "unwinding"
           j == Advance(job[c], next)
<1>1. next \in {"running", "unwinding"} /\ next \in Steps /\ next \notin Ended
  BY DEF Steps, Ended
<1>2. /\ Goto(c, next) /\ terminal' = terminal /\ panes' = panes
      /\ job[c] \in Job
      /\ job[c].step \in {"renaming", "running"}
  BY DEF RenamePane, PaneNotCommanded, At, IInv, Types
<1> HIDE DEF next
<1>3. /\ j \in Job /\ j.step = next /\ j.kind = job[c].kind
      /\ j.launched = job[c].launched /\ j.stranded = job[c].stranded
      /\ j.todo = job[c].todo
  BY <1>1, <1>2, AdvanceShape
<1>4. job' = [job EXCEPT ![c] = j]
  BY <1>2 DEF Goto
<1> HIDE DEF j
<1>5. Orderly(j)
  BY <1>1, <1>2, <1>3 DEF IInv, Order, Orderly, Launched
<1>6. terminal = "herdr" =>
        \A q \in panes' : IF q.id[1] = c THEN Accounted(q, j) ELSE q \in panes
  BY <1>1, <1>2, <1>3 DEF IInv, Herdr, Accounted, BusyWith
<1>7. QED BY <1>1, <1>2, <1>3, <1>4, <1>5, <1>6, StepOfOne DEF IInv, Types

LEMMA RunKeeps ==
  ASSUME IInv, NEW c \in Commands, RunInPane(c) PROVE IInv'
<1>1. /\ job[c] \in Job /\ job[c].step = "running" /\ job[c].todo # <<>>
      /\ terminal' = terminal
      /\ job' = [job EXCEPT ![c] = Counted(job[c])]
  BY DEF RunInPane, At, IInv, Types, Order, Orderly, Launched
<1>2. PICK p \in panes :
        /\ p.id = Launching(c)
        /\ panes' = (panes \ {p}) \cup {[p EXCEPT !.hosts = "claude"]}
  BY DEF RunInPane
<1> DEFINE new == [p EXCEPT !.hosts = "claude"]
<1>3. new \in Pane /\ new.id = p.id
  BY DEF IInv, Types, Pane
<1>4. panes' = (panes \ {p}) \cup {new}
  BY <1>2
<1> HIDE DEF new
<1>5. panes' \subseteq Pane
  BY <1>3, <1>4 DEF IInv, Types
<1>6. new.id[1] = c /\ new.id[2] = Head(job[c].todo)
  BY <1>2, <1>3 DEF Launching
<1>7. ASSUME terminal = "herdr", NEW q \in panes'
      PROVE  IF q.id[1] = c
               THEN \/ q.id[2] = Head(job[c].todo)
                    \/ q.id[2] \in job[c].launched
                    \/ job[c].stranded
               ELSE q \in panes
  BY <1>1, <1>4, <1>6, <1>7 DEF IInv, Herdr, Accounted, BusyWith
<1>8. QED BY <1>1, <1>5, <1>7, CountKeeps

(* What an unwinding command was busy with goes with its pane or its tab. *)
LEMMA UnwindKeeps ==
  ASSUME IInv, NEW c \in Commands, Unwind(c) PROVE IInv'
<1>1. job[c].step = "unwinding" /\ terminal' = terminal
  BY DEF Unwind, At
<1>2. ASSUME panes' = panes \ Unwound(c), Goto(c, "aborted") PROVE IInv'
  <2> DEFINE j == Advance(job[c], "aborted")
  <2>1. /\ j \in Job /\ j.step = "aborted"
        /\ j.launched = job[c].launched /\ j.stranded = job[c].stranded
    BY AdvanceShape DEF Ended, IInv, Types
  <2>2. job' = [job EXCEPT ![c] = j]
    BY <1>2 DEF Goto
  <2> HIDE DEF j
  <2>3. Orderly(j)
    BY <2>1 DEF Orderly, Launched
  <2>4. ASSUME terminal = "herdr", NEW p \in panes', p.id[1] = c
        PROVE  Accounted(p, j)
    <3>1. p \in panes /\ p \notin Unwound(c) /\ Accounted(p, job[c]) /\ p.id \in Ids
      BY <1>2, <2>4 DEF IInv, Herdr, Types, Pane
    <3>2. BusyWith(p, job[c]) => p \in Unwound(c)
      <4>1. p.id = <<p.id[1], p.id[2]>>
        BY <3>1 DEF Ids
      <4>2. QED BY <2>4, <3>1, <4>1 DEF BusyWith, Unwound, OpenedTheTab, Launching
    <3>3. QED BY <1>1, <2>1, <3>1, <3>2 DEF Accounted
  <2>5. terminal = "herdr" =>
          \A p \in panes' : IF p.id[1] = c THEN Accounted(p, j) ELSE p \in panes
    BY <1>2, <2>4
  <2>6. QED BY <1>1, <1>2, <2>1, <2>2, <2>3, <2>5, StepOfOne DEF IInv, Types
<1>3. ASSUME panes' = panes,
             job' = [job EXCEPT ![c] = Advance([@ EXCEPT !.stranded = TRUE], "aborted")]
      PROVE  IInv'
  <2>1. PICK i \in Job : job[c] = i
    BY DEF IInv, Types
  <2> DEFINE i2 == [i EXCEPT !.stranded = TRUE]
             j == Advance(i2, "aborted")
  <2>2. i2 \in Job /\ i2.stranded
    BY DEF Job
  <2> HIDE DEF i2
  <2>3. j \in Job /\ j.step = "aborted" /\ j.stranded
    BY <2>2, AdvanceShape DEF Ended
  <2>4. job' = [job EXCEPT ![c] = j]
    BY <1>3, <2>1 DEF IInv, Types, i2
  <2> HIDE DEF j
  <2>5. Orderly(j)
    BY <2>3 DEF Orderly, Launched
  <2>6. terminal = "herdr" =>
          \A p \in panes' : IF p.id[1] = c THEN Accounted(p, j) ELSE p \in panes
    BY <1>3, <2>3 DEF Accounted
  <2>7. QED BY <1>1, <1>3, <2>3, <2>4, <2>5, <2>6, StepOfOne DEF IInv, Types
<1>4. QED BY <1>2, <1>3 DEF Unwind

(* A member's own steps change what its pane hosts, or take the pane away.   *)
LEMMA MemberKeeps ==
  ASSUME IInv, NEW p \in panes, Boot(p) \/ ClaudeEnds(p)
  PROVE  IInv'
<1>1. job' = job /\ terminal' = terminal
  BY DEF Boot, ClaudeEnds
<1>2. PICK hosts \in {"shell", "session", "inert"} :
        panes' \subseteq (panes \ {p}) \cup {[p EXCEPT !.hosts = hosts]}
  BY DEF Boot, ClaudeEnds
<1> DEFINE new == [p EXCEPT !.hosts = hosts]
<1>3. new \in Pane /\ new.id = p.id /\ new.window = p.window
  BY DEF IInv, Types, Pane
<1>4. panes' \subseteq panes \cup {new}
  BY <1>2
<1> HIDE DEF new
<1>5. Types'
  BY <1>1, <1>3, <1>4 DEF IInv, Types
<1>6. Order'
  BY <1>1 DEF IInv, Order
<1>7. Herdr'
  BY <1>1, <1>3, <1>4 DEF IInv, Herdr, Accounted, BusyWith
<1>8. QED BY <1>5, <1>6, <1>7 DEF IInv

-----------------------------------------------------------------------------
LEMMA Inductive == IInv /\ [Next]_vars => IInv'
<1>1. SUFFICES ASSUME IInv, [Next]_vars PROVE IInv'
  OBVIOUS
<1>2. ASSUME NEW c \in Commands, Command(c) PROVE IInv'
  BY <1>1, <1>2, IssuesKeep, FilesKeep, EndsKeep, RetireKeeps, OpenKeeps,
     ResolveKeeps, SplitKeeps, TileKeeps, RenameKeeps, RunKeeps, UnwindKeeps
     DEF Command
<1>3. ASSUME NEW p \in panes, Boot(p) \/ ClaudeEnds(p) PROVE IInv'
  BY <1>1, <1>3, MemberKeeps
<1>4. CASE UNCHANGED vars
  BY <1>1, <1>4 DEF vars, IInv, Types, Order, Herdr
<1>5. QED BY <1>1, <1>2, <1>3, <1>4 DEF Next

(* A herdr launch that ended by itself has counted every pane it left on     *)
(* screen as up, or reported that it stranded one: launchSessionInHerdr's    *)
(* unwinding misses nothing, however commands, deaths and faults interleave. *)
THEOREM NoPaneUnaccounted == Spec => []PanesAreAccountedFor
<1>1. IInv => PanesAreAccountedFor
  BY DEF IInv, Herdr, Accounted, BusyWith, PanesAreAccountedFor
<1>2. QED BY Initially, Inductive, <1>1, PTL DEF Spec

-----------------------------------------------------------------------------
(* Why ServingMemberKeepsInbox is inductive: a session that serves a label   *)
(* is the pane a retirement of that label found, until it is closed, and no  *)
(* session is left when the inbox file goes; but for those that came later.  *)
Sessions(label) == {p \in panes : p.hosts = "session" /\ LabelOf(p.id) = label}

Retiring(c) ==
  job[c].label \notin overlap =>
    /\ job[c].step = "closing" => \A p \in Sessions(job[c].label) : p.id = job[c].found
    /\ job[c].step = "unbinding" => Sessions(job[c].label) = {}

Inboxes == inbox \in [Labels -> Ids \cup {None}]

SInv ==
  /\ Inboxes
  /\ ServingMemberKeepsInbox
  /\ \A c \in Commands : Retiring(c)

(* Commands other than a retirement leave sessions and inboxes alone.        *)
LEMMA QuietCommand ==
  ASSUME IInv, NEW c \in Commands,
         Command(c), ~ findCrewPane(c), ~ closePane(c), ~ removeInboxSocket(c)
  PROVE  /\ inbox' = inbox /\ overlap' = overlap
         /\ \A d \in Commands \ {c} : job'[d] = job[d]
         /\ job'[c].step \notin {"closing", "unbinding"}
         /\ \A p \in panes' : p.hosts = "session" => p \in panes
<1>1. job \in [Commands -> Job] /\ job[c] \in Job
  BY DEF IInv, Types
<1>2. ASSUME NEW step \in Steps \cup Ended, Goto(c, step),
             step \notin {"closing", "unbinding"}
      PROVE  /\ \A d \in Commands \ {c} : job'[d] = job[d]
             /\ job'[c].step \notin {"closing", "unbinding"}
  BY <1>1, <1>2, AdvanceShape DEF Goto
<1>3. CASE runStandUp(c) \/ spawnRole(c) \/ retireRole(c) \/ runStandDown(c)
  <2>1. ASSUME NEW kind, NEW project, NEW todo, NEW label,
               NEW step \in {"reaping", "registering", "finding"},
               Issue(c, kind, project, step, todo, label)
        PROVE  /\ inbox' = inbox /\ overlap' = overlap /\ panes' = panes
               /\ \A d \in Commands \ {c} : job'[d] = job[d]
               /\ job'[c].step \notin {"closing", "unbinding"}
    BY <1>1, <2>1 DEF Issue, Job
  <2>2. CASE runStandUp(c)
    BY <2>1, <2>2 DEF runStandUp
  <2>3. CASE spawnRole(c)
    BY <2>1, <2>3 DEF spawnRole
  <2>4. CASE retireRole(c)
    BY <2>1, <2>4 DEF retireRole
  <2>5. CASE runStandDown(c)
    BY <2>1, <2>5 DEF runStandDown
  <2>6. QED BY <1>3, <2>2, <2>3, <2>4, <2>5
<1>4. CASE reapCrewProjectScopeFor(c) \/ writeCrewMcpJson(c) \/ FilesFail(c)
  <2>1. PICK step \in {"done", "registering", "opening", "resolving", "aborted"} :
          Goto(c, step)
    BY <1>4 DEF reapCrewProjectScopeFor, writeCrewMcpJson, FilesFail
  <2>2. inbox' = inbox /\ overlap' = overlap /\ panes' = panes
    BY <1>4 DEF reapCrewProjectScopeFor, writeCrewMcpJson, FilesFail
  <2>3. QED BY <1>2, <2>1, <2>2 DEF Steps, Ended
<1>5. CASE CallFails(c) \/ LauncherKilled(c) \/ RenamePane(c) \/ PaneNotCommanded(c)
           \/ removePaneCwd(c)
  <2>1. PICK step \in {"aborted", "killed", "running", "unwinding", "done"} :
          Goto(c, step)
    BY <1>5 DEF CallFails, LauncherKilled, RenamePane, PaneNotCommanded, removePaneCwd
  <2>2. inbox' = inbox /\ overlap' = overlap /\ panes' = panes
    BY <1>5 DEF CallFails, LauncherKilled, RenamePane, PaneNotCommanded, removePaneCwd
  <2>3. QED BY <1>2, <2>1, <2>2 DEF Steps, Ended
<1>6. ASSUME NEW j \in Job, j.todo # <<>>, job' = [job EXCEPT ![c] = Counted(j)]
      PROVE  /\ \A d \in Commands \ {c} : job'[d] = job[d]
             /\ job'[c].step \notin {"closing", "unbinding"}
  BY <1>1, <1>6, CountedShape
<1>7. ASSUME NEW w, NEW step \in {"tiling", "renaming"}, Place(c, w, step)
      PROVE  /\ inbox' = inbox /\ overlap' = overlap
             /\ \A d \in Commands \ {c} : job'[d] = job[d]
             /\ job'[c].step \notin {"closing", "unbinding"}
             /\ \A p \in panes' : p.hosts = "session" => p \in panes
  BY <1>1, <1>7 DEF Place, Job
<1>8. job[c].step \in Launched => job[c].todo # <<>>
  BY DEF IInv, Order, Orderly
<1>9. CASE OpenWindow(c)
  <2>1. CASE terminal = "herdr"
    BY <1>7, <1>9, <2>1 DEF OpenWindow
  <2>2. CASE terminal # "herdr"
    <3>1. PICK j \in Job : job[c] = j /\ j.todo # <<>>
      BY <1>1, <1>8, <1>9 DEF OpenWindow, At, Launched
    <3> DEFINE k == [j EXCEPT !.window = c]
    <3>2. k \in Job /\ k.todo # <<>>
      BY <3>1 DEF Job
    <3>3. job' = [job EXCEPT ![c] = Counted(k)]
      BY <1>1, <1>9, <2>2, <3>1 DEF OpenWindow
    <3> HIDE DEF k
    <3>4. /\ inbox' = inbox /\ overlap' = overlap
          /\ \A p \in panes' : p.hosts = "session" => p \in panes
      BY <1>9, <2>2 DEF OpenWindow
    <3>5. QED BY <1>6, <3>2, <3>3, <3>4
  <2>3. QED BY <2>1, <2>2
<1>10. CASE resolveCrewWindow(c)
  <2>1. inbox' = inbox /\ overlap' = overlap /\ panes' = panes
    BY <1>10 DEF resolveCrewWindow
  <2>2. CASE Goto(c, "aborted")
    BY <1>2, <2>1, <2>2 DEF Ended
  <2>3. ASSUME NEW w, job' = [job EXCEPT ![c].window = w, ![c].step = "splitting"]
        PROVE  /\ \A d \in Commands \ {c} : job'[d] = job[d]
               /\ job'[c].step \notin {"closing", "unbinding"}
    BY <1>1, <2>3 DEF Job
  <2>4. QED BY <1>10, <2>1, <2>2, <2>3 DEF resolveCrewWindow
<1>11. CASE SplitWindow(c)
  <2>1. CASE IsWindow(job[c].window)
    BY <1>7, <1>11, <2>1 DEF SplitWindow
  <2>2. CASE ~ IsWindow(job[c].window)
    BY <1>2, <1>11, <2>2 DEF SplitWindow, Ended
  <2>3. QED BY <2>1, <2>2
<1>12. CASE TileWindow(c)
  <2>1. /\ inbox' = inbox /\ overlap' = overlap /\ panes' = panes
        /\ job[c].todo # <<>>
    BY <1>8, <1>12 DEF TileWindow, At, Launched
  <2>2. CASE Goto(c, "aborted")
    BY <1>2, <2>1, <2>2 DEF Ended
  <2>3. CASE job' = [job EXCEPT ![c] = Counted(@)]
    BY <1>1, <1>6, <2>1, <2>3
  <2>4. QED BY <1>12, <2>2, <2>3 DEF TileWindow
<1>13. CASE RunInPane(c)
  <2>1. PICK p \in panes : panes' = (panes \ {p}) \cup {[p EXCEPT !.hosts = "claude"]}
    BY <1>13 DEF RunInPane
  <2>2. [p EXCEPT !.hosts = "claude"].hosts = "claude"
    BY DEF IInv, Types, Pane
  <2>3. \A q \in panes' : q.hosts = "session" => q \in panes
    BY <2>1, <2>2
  <2>4. /\ inbox' = inbox /\ overlap' = overlap
        /\ job[c].todo # <<>> /\ job' = [job EXCEPT ![c] = Counted(job[c])]
    BY <1>1, <1>8, <1>13 DEF RunInPane, At, Launched
  <2>5. QED BY <1>1, <1>6, <2>3, <2>4
<1>14. CASE Unwind(c)
  <2>1. inbox' = inbox /\ overlap' = overlap /\ panes' \subseteq panes
    BY <1>14 DEF Unwind
  <2>2. CASE Goto(c, "aborted")
    BY <1>2, <2>1, <2>2 DEF Ended
  <2>3. CASE job' = [job EXCEPT ![c] = Advance([@ EXCEPT !.stranded = TRUE], "aborted")]
    <3>1. PICK i \in Job : job[c] = i
      BY <1>1
    <3> DEFINE k == [i EXCEPT !.stranded = TRUE]
    <3>2. k \in Job
      BY DEF Job
    <3>3. job' = [job EXCEPT ![c] = Advance(k, "aborted")]
      BY <1>1, <2>3, <3>1
    <3> HIDE DEF k
    <3>4. Advance(k, "aborted").step = "aborted"
      BY <3>2, AdvanceShape DEF Ended
    <3>5. QED BY <1>1, <2>1, <3>3, <3>4
  <2>4. QED BY <1>14, <2>2, <2>3 DEF Unwind
<1>15. QED BY <1>3, <1>4, <1>5, <1>9, <1>10, <1>11, <1>12, <1>13, <1>14 DEF Command

LEMMA QuietKeeps ==
  ASSUME IInv, SInv, NEW c \in Commands,
         Command(c), ~ findCrewPane(c), ~ closePane(c), ~ removeInboxSocket(c)
  PROVE  SInv'
<1>1. /\ inbox' = inbox /\ overlap' = overlap
      /\ \A d \in Commands \ {c} : job'[d] = job[d]
      /\ job'[c].step \notin {"closing", "unbinding"}
      /\ \A p \in panes' : p.hosts = "session" => p \in panes
  BY QuietCommand
<1>2. \A d \in Commands : Retiring(d)'
  BY <1>1 DEF SInv, Retiring, Sessions
<1>3. ServingMemberKeepsInbox'
  BY <1>1 DEF SInv, ServingMemberKeepsInbox
<1>4. QED BY <1>1, <1>2, <1>3 DEF SInv, Inboxes

LEMMA RetirementKeeps ==
  ASSUME IInv, SInv, NEW c \in Commands,
         findCrewPane(c) \/ closePane(c) \/ removeInboxSocket(c)
  PROVE  SInv'
<1>1. /\ job \in [Commands -> Job] /\ job[c] \in Job
      /\ overlap' = overlap
  BY DEF IInv, Types, findCrewPane, closePane, removeInboxSocket
<1>2. ASSUME NEW step \in Steps \cup Ended, Goto(c, step)
      PROVE  /\ \A d \in Commands \ {c} : job'[d] = job[d]
             /\ job'[c].step = step
             /\ step \notin Ended => job'[c].label = job[c].label
  <2>1. job'[c] = Advance(job[c], step) /\ \A d \in Commands \ {c} : job'[d] = job[d]
    BY <1>1, <1>2 DEF Goto
  <2>2. step \notin Ended => Advance(job[c], step).label = job[c].label
    BY <1>1 DEF Advance, Job
  <2>3. QED BY <1>1, <2>1, <2>2, AdvanceShape
<1>3. ASSUME inbox' = inbox, panes' \subseteq panes,
             \A d \in Commands \ {c} : job'[d] = job[d], Retiring(c)'
      PROVE  SInv'
  <2>1. \A d \in Commands : Retiring(d)'
    BY <1>1, <1>3 DEF SInv, Retiring, Sessions
  <2>2. ServingMemberKeepsInbox'
    BY <1>1, <1>3 DEF SInv, ServingMemberKeepsInbox
  <2>3. QED BY <1>3, <2>1, <2>2 DEF SInv, Inboxes
<1>4. CASE findCrewPane(c)
  <2>1. inbox' = inbox /\ panes' = panes
    BY <1>4 DEF findCrewPane
  <2>2. CASE Goto(c, "aborted")
    BY <1>2, <1>3, <2>1, <2>2 DEF Retiring, Ended
  <2>3. ASSUME NEW p \in Matches(job[c].label), Matches(job[c].label) = {p},
               job' = [job EXCEPT ![c].found = p.id, ![c].step = "closing"]
        PROVE  SInv'
    <3>1. /\ job'[c].found = p.id /\ job'[c].step = "closing"
          /\ job'[c].label = job[c].label
          /\ \A d \in Commands \ {c} : job'[d] = job[d]
      BY <1>1, <2>3 DEF Job
    <3>2. Sessions(job[c].label) \subseteq {p}
      BY <2>3 DEF Sessions, Matches
    <3>3. Retiring(c)'
      BY <2>1, <3>1, <3>2 DEF Retiring, Sessions
    <3>4. QED BY <1>3, <2>1, <3>1, <3>3
  <2>4. QED BY <1>4, <2>2, <2>3 DEF findCrewPane
<1>5. CASE closePane(c)
  <2> DEFINE next == IF OnScreen(job[c].found) THEN "unbinding" ELSE "aborted"
  <2>1. /\ inbox' = inbox /\ panes' = {p \in panes : p.id # job[c].found}
        /\ job[c].step = "closing" /\ Goto(c, next)
    BY <1>5 DEF closePane, At
  <2>2. next \in Steps \cup Ended /\ (next # "unbinding" => next \in Ended)
        /\ ("unbinding" \notin Ended) /\ "closing" \notin Ended
        /\ next # "closing"
    BY DEF Steps, Ended
  <2> HIDE DEF next
  <2>3. /\ \A d \in Commands \ {c} : job'[d] = job[d]
        /\ job'[c].step = next
        /\ next = "unbinding" => job'[c].label = job[c].label
    BY <1>2, <2>1, <2>2
  <2>4. job[c].label \notin overlap =>
          \A p \in Sessions(job[c].label) : p.id = job[c].found
    BY <2>1 DEF SInv, Retiring
  <2>5. Retiring(c)'
    <3>1. CASE next = "unbinding"
      BY <1>1, <2>1, <2>3, <2>4, <3>1 DEF Retiring, Sessions
    <3>2. CASE next # "unbinding"
      BY <2>2, <2>3, <3>2 DEF Retiring
    <3>3. QED BY <3>1, <3>2
  <2>6. QED BY <1>3, <2>1, <2>3, <2>5
<1>6. CASE removeInboxSocket(c)
  <2>1. /\ inbox' = [inbox EXCEPT ![job[c].label] = None] /\ panes' = panes
        /\ job[c].step = "unbinding" /\ Goto(c, "clearing")
    BY <1>6 DEF removeInboxSocket, At
  <2>2. /\ \A d \in Commands \ {c} : job'[d] = job[d]
        /\ job'[c].step = "clearing"
    BY <1>2, <2>1 DEF Steps
  <2>3. \A d \in Commands : Retiring(d)'
    BY <1>1, <2>1, <2>2 DEF SInv, Retiring, Sessions
  <2>4. ServingMemberKeepsInbox'
    <3>1. SUFFICES ASSUME NEW p \in panes, p.hosts = "session", LabelOf(p.id) \notin overlap
          PROVE  inbox'[LabelOf(p.id)] = p.id
      BY <1>1, <2>1 DEF ServingMemberKeepsInbox
    <3>2. LabelOf(p.id) # job[c].label
      BY <2>1, <3>1 DEF SInv, Retiring, Sessions
    <3>3. inbox[LabelOf(p.id)] = p.id
      BY <3>1 DEF SInv, ServingMemberKeepsInbox
    <3>4. LabelOf(p.id) \in Labels
      <4>1. p.id[1] \in Commands /\ p.id[2] \in Seats
        BY <3>1 DEF IInv, Types, Pane, Ids
      <4>2. QED BY <4>1 DEF LabelOf, Labels
    <3>5. QED BY <2>1, <3>2, <3>3, <3>4 DEF SInv, Inboxes
  <2>5. Inboxes'
    BY <2>1 DEF SInv, Inboxes
  <2>6. QED BY <2>3, <2>4, <2>5 DEF SInv
<1>7. QED BY <1>4, <1>5, <1>6

(* A session that boots while its label is retired is excepted; one that     *)
(* boots at any other time finds the inbox served by nobody else.            *)
LEMMA BootKeeps ==
  ASSUME IInv, SInv, NEW p \in panes, Boot(p)
  PROVE  SInv'
<1> DEFINE label == LabelOf(p.id)
           serves == p.id \in leaves /\ ~ Serves(inbox[label])
           new == [p EXCEPT !.hosts = IF serves THEN "session" ELSE "inert"]
<1>1. /\ panes' = (panes \ {p}) \cup {new}
      /\ inbox' = IF serves THEN [inbox EXCEPT ![label] = p.id] ELSE inbox
      /\ overlap' = IF serves /\ BeingRetired(label) THEN overlap \cup {label} ELSE overlap
      /\ job' = job
  BY DEF Boot
<1>2. new.id = p.id /\ new.hosts = (IF serves THEN "session" ELSE "inert")
  BY DEF IInv, Types, Pane
<1>3. label \in Labels /\ p.id \in Ids
  <2>1. p.id \in Ids /\ p.id[1] \in Commands /\ p.id[2] \in Seats
    BY DEF IInv, Types, Pane, Ids
  <2>2. QED BY <2>1 DEF LabelOf, Labels
<1>4. serves => \A q \in panes : q.hosts = "session" => q.id # inbox[label]
  BY DEF Serves
<1>5. LabelOf(new.id) = label
  BY <1>2
<1> HIDE DEF label, serves, new
<1>6. CASE ~ serves
  <2>1. inbox' = inbox /\ overlap' = overlap /\ job' = job
    BY <1>1, <1>6
  <2>2. \A q \in panes' : q.hosts = "session" => q \in panes
    BY <1>1, <1>2, <1>6
  <2>3. \A d \in Commands : Retiring(d)'
    BY <2>1, <2>2 DEF SInv, Retiring, Sessions
  <2>4. ServingMemberKeepsInbox'
    BY <2>1, <2>2 DEF SInv, ServingMemberKeepsInbox
  <2>5. QED BY <2>1, <2>3, <2>4 DEF SInv, Inboxes
<1>7. CASE serves
  <2>1. inbox' = [inbox EXCEPT ![label] = p.id] /\ overlap \subseteq overlap'
    BY <1>1, <1>7
  <2>2. BeingRetired(label) => label \in overlap'
    BY <1>1, <1>7
  <2>3. ASSUME NEW q \in panes', q.hosts = "session", LabelOf(q.id) \notin overlap'
        PROVE  inbox'[LabelOf(q.id)] = q.id
    <3>1. CASE q = new
      BY <1>2, <1>3, <1>5, <2>1, <3>1 DEF SInv, Inboxes
    <3>2. CASE q # new
      <4>1. q \in panes /\ inbox[LabelOf(q.id)] = q.id
        BY <1>1, <2>1, <2>3, <3>2 DEF SInv, ServingMemberKeepsInbox
      <4>2. LabelOf(q.id) # label
        BY <1>4, <1>7, <2>3, <4>1
      <4>3. QED BY <1>3, <2>1, <4>1, <4>2 DEF SInv, Inboxes
    <3>3. QED BY <3>1, <3>2
  <2>4. ASSUME NEW d \in Commands PROVE Retiring(d)'
    <3>1. CASE job[d].label = label /\ job[d].step \in {"closing", "unbinding"}
      BY <1>1, <2>2, <3>1 DEF Retiring, BeingRetired
    <3>2. CASE job[d].step \notin {"closing", "unbinding"}
      BY <1>1, <3>2 DEF Retiring
    <3>3. CASE job[d].label # label
      <4>1. \A q \in panes' : LabelOf(q.id) = job[d].label => q \in panes
        BY <1>1, <1>5, <3>3
      <4>2. QED BY <1>1, <2>1, <4>1 DEF SInv, Retiring, Sessions
    <3>4. QED BY <3>1, <3>2, <3>3
  <2>5. Inboxes'
    BY <1>3, <2>1 DEF SInv, Inboxes
  <2>6. ServingMemberKeepsInbox'
    BY <2>3 DEF ServingMemberKeepsInbox
  <2>7. QED BY <2>4, <2>5, <2>6 DEF SInv
<1>8. QED BY <1>6, <1>7

(* A member that serves is the one found at its inbox address, unless it     *)
(* came up while its label was being retired: retireRole closes the pane     *)
(* before it removes the socket, and a second session does not take over a   *)
(* socket that is served.                                                    *)
THEOREM ServingMemberReachable == Spec => []ServingMemberKeepsInbox
<1>1. Init => SInv
  <2>1. SUFFICES ASSUME Init PROVE SInv
    OBVIOUS
  <2>2. \A c \in Commands : job[c].step = "idle"
    BY <2>1 DEF Init
  <2>3. \A c \in Commands : Retiring(c)
    BY <2>2 DEF Retiring
  <2>4. QED BY <2>1, <2>3 DEF Init, SInv, Inboxes, ServingMemberKeepsInbox
<1>2. IInv /\ SInv /\ [Next]_vars => SInv'
  <2>1. SUFFICES ASSUME IInv, SInv, [Next]_vars PROVE SInv'
    OBVIOUS
  <2>2. ASSUME NEW c \in Commands, Command(c) PROVE SInv'
    BY <2>1, <2>2, QuietKeeps, RetirementKeeps
  <2>3. ASSUME NEW p \in panes, ClaudeEnds(p) PROVE SInv'
    <3>1. inbox' = inbox /\ overlap' = overlap /\ job' = job
      BY <2>3 DEF ClaudeEnds
    <3>2. \A q \in panes' : q.hosts = "session" => q \in panes
      <4>1. [p EXCEPT !.hosts = "shell"].hosts = "shell"
        BY <2>1 DEF IInv, Types, Pane
      <4>2. QED BY <2>3, <4>1 DEF ClaudeEnds
    <3>3. \A d \in Commands : Retiring(d)'
      BY <2>1, <3>1, <3>2 DEF SInv, Retiring, Sessions
    <3>4. ServingMemberKeepsInbox'
      BY <2>1, <3>1, <3>2 DEF SInv, ServingMemberKeepsInbox
    <3>5. QED BY <2>1, <3>1, <3>3, <3>4 DEF SInv, Inboxes
  <2>4. CASE UNCHANGED vars
    BY <2>1, <2>4 DEF vars, SInv, Inboxes, Retiring, Sessions, ServingMemberKeepsInbox, LabelOf
  <2>5. QED BY <2>1, <2>2, <2>3, <2>4, BootKeeps DEF Next
<1>3. SInv => ServingMemberKeepsInbox
  BY DEF SInv
<1>4. QED BY Initially, Inductive, <1>1, <1>2, <1>3, PTL DEF Spec

-----------------------------------------------------------------------------
(* The pane a retirement is about to close answers to the label it was given. *)
FoundIsMember ==
  \A c \in Commands :
    job[c].step = "closing" => LabelOf(job[c].found) = job[c].label

LEMMA FoundInductive ==
  ASSUME IInv, FoundIsMember, [Next]_vars
  PROVE  FoundIsMember'
<1>1. ASSUME NEW c \in Commands, Command(c) PROVE FoundIsMember'
  <2>1. job \in [Commands -> Job] /\ job[c] \in Job
    BY DEF IInv, Types
  <2>2. ASSUME \A d \in Commands \ {c} : job'[d] = job[d], job'[c].step # "closing"
        PROVE  FoundIsMember'
    BY <2>2 DEF FoundIsMember, LabelOf
  <2>3. ASSUME NEW step \in (Steps \cup Ended) \ {"closing"}, Goto(c, step)
        PROVE  FoundIsMember'
    BY <2>1, <2>2, <2>3, AdvanceShape DEF Goto
  <2>4. CASE ~ findCrewPane(c) /\ ~ closePane(c) /\ ~ removeInboxSocket(c)
    BY <1>1, <2>2, <2>4, QuietCommand
  <2>5. CASE findCrewPane(c)
    <3>1. CASE Goto(c, "aborted")
      BY <2>3, <3>1 DEF Ended
    <3>2. ASSUME NEW p \in Matches(job[c].label),
                 job' = [job EXCEPT ![c].found = p.id, ![c].step = "closing"]
          PROVE  FoundIsMember'
      <4>1. /\ job'[c].found = p.id /\ job'[c].label = job[c].label
            /\ \A d \in Commands \ {c} : job'[d] = job[d]
        BY <2>1, <3>2 DEF Job
      <4>2. LabelOf(p.id) = job[c].label
        BY <3>2 DEF Matches
      <4>3. QED BY <4>1, <4>2 DEF FoundIsMember, LabelOf
    <3>3. QED BY <2>5, <3>1, <3>2 DEF findCrewPane
  <2>6. CASE closePane(c)
    <3>1. PICK step \in {"unbinding", "aborted"} : Goto(c, step)
      BY <2>6 DEF closePane
    <3>2. QED BY <2>3, <3>1 DEF Steps, Ended
  <2>7. CASE removeInboxSocket(c)
    BY <2>3, <2>7 DEF removeInboxSocket, Steps
  <2>8. QED BY <2>4, <2>5, <2>6, <2>7
<1>2. CASE job' = job
  BY <1>2 DEF FoundIsMember, LabelOf
<1>3. QED BY <1>1, <1>2 DEF Next, Boot, ClaudeEnds, vars

(* Of all the commands only an unwinding and a retirement take a pane away.  *)
LEMMA OnlyTwoClose ==
  ASSUME IInv, NEW c \in Commands, Command(c), ~ Unwind(c), ~ closePane(c),
         NEW p \in panes
  PROVE  \E q \in panes' : q.id = p.id
<1>1. CASE panes \subseteq panes'
  BY <1>1
<1>2. CASE RunInPane(c)
  <2>1. PICK q \in panes : panes' = (panes \ {q}) \cup {[q EXCEPT !.hosts = "claude"]}
    BY <1>2 DEF RunInPane
  <2>2. [q EXCEPT !.hosts = "claude"].id = q.id
    BY DEF IInv, Types, Pane
  <2>3. QED BY <2>1, <2>2
<1>3. QED
  BY <1>1, <1>2 DEF Command, runStandUp, spawnRole, retireRole, runStandDown, Issue,
     reapCrewProjectScopeFor, writeCrewMcpJson, FilesFail, OpenWindow, Place,
     resolveCrewWindow, SplitWindow, TileWindow, RenamePane, PaneNotCommanded,
     findCrewPane, removeInboxSocket, removePaneCwd, CallFails, LauncherKilled

(* A pane disappears because its own claude ended, or because of the command *)
(* that launched it, of the one that unwinds the tab it joined, or of the    *)
(* one told to retire its label: closing is always by an id found or created. *)
THEOREM OnlyOwnPanesClosed == Spec => CommandsCloseOnlyTheirOwn
<1> DEFINE Closed(p) ==
      (\A q \in panes' : q.id # p.id) =>
         \/ job' = job
         \/ \E c \in Commands :
              /\ job'[c] # job[c]
              /\ \/ p.id[1] = c
                 \/ p.window = c /\ job[c].launched = {}
                 \/ LabelOf(p.id) = job[c].label
<1>1. Init => FoundIsMember
  <2>1. SUFFICES ASSUME Init PROVE FoundIsMember
    OBVIOUS
  <2>2. \A c \in Commands : job[c].step = "idle"
    BY <2>1 DEF Init
  <2>3. QED BY <2>2 DEF FoundIsMember
<1>2. IInv /\ FoundIsMember /\ [Next]_vars => [\A p \in panes : Closed(p)]_vars
  <2>1. SUFFICES ASSUME IInv, FoundIsMember, Next, NEW p \in panes,
                        \A q \in panes' : q.id # p.id
                 PROVE  Closed(p)
    BY DEF vars
  <2>2. ASSUME NEW c \in Commands, Command(c) PROVE Closed(p)
    <3>1. job \in [Commands -> Job] /\ job[c] \in Job
      BY <2>1 DEF IInv, Types
    <3>2. CASE Unwind(c)
      <4>1. panes' = panes \ Unwound(c) /\ Goto(c, "aborted") /\ job[c].step = "unwinding"
        BY <2>1, <3>2 DEF Unwind, At
      <4>2. job'[c] # job[c]
        BY <3>1, <4>1, AdvanceShape DEF Goto, Ended
      <4>3. p \in Unwound(c)
        BY <2>1, <4>1
      <4>4. p.id[1] = c \/ (p.window = c /\ job[c].launched = {})
        BY <4>3 DEF Unwound, OpenedTheTab, Launching
      <4>5. QED BY <4>2, <4>4
    <3>3. CASE closePane(c)
      <4> DEFINE next == IF OnScreen(job[c].found) THEN "unbinding" ELSE "aborted"
      <4>1. next \in Steps \cup Ended /\ next # "closing"
        BY DEF Steps, Ended
      <4>2. /\ panes' = {q \in panes : q.id # job[c].found} /\ Goto(c, next)
            /\ job[c].step = "closing"
        BY <3>3 DEF closePane, At
      <4> HIDE DEF next
      <4>3. job'[c] # job[c]
        BY <3>1, <4>1, <4>2, AdvanceShape DEF Goto
      <4>4. p.id = job[c].found
        BY <2>1, <4>2
      <4>5. LabelOf(p.id) = job[c].label
        BY <2>1, <4>2, <4>4 DEF FoundIsMember
      <4>6. QED BY <4>3, <4>5
    <3>4. QED BY <2>1, <2>2, <3>2, <3>3, OnlyTwoClose
  <2>3. CASE job' = job
    BY <2>3
  <2>4. QED BY <2>1, <2>2, <2>3 DEF Next, Boot, ClaudeEnds
<1>3. IInv /\ FoundIsMember /\ [Next]_vars => FoundIsMember'
  BY FoundInductive
<1>4. QED BY Initially, Inductive, <1>1, <1>2, <1>3, PTL
          DEF Spec, CommandsCloseOnlyTheirOwn

-----------------------------------------------------------------------------
(* A member of the crew was put on its command line from a file that binds;  *)
(* its instance names the launch that started it, and the first role of a    *)
(* crew is in the same window.                                               *)
FirstOf(m, n) == n.backend = m.backend /\ n.instance[1] <= m.instance[1] /\ n.role = "chief-of-staff"

LaunchedRight(m) ==
  /\ CrewServer \in m.channelArg[2] /\ m.channelArg[1] = ChannelFlag("development")
  /\ m.under.cliVersion \in {"none", m.version} \/ m.upgraded
  /\ m.under.mode = "development" /\ m.model = m.under.tiers[m.role]
  /\ m.bootPrompt = (DriveOf(m.role) = "self-driving")
  /\ m.instance[1] \in Nat /\ m.instance[1] < commands
  /\ \E n \in crew : FirstOf(m, n)

(* What a launch was asked for bears the number of its command, which no     *)
(* member of the crew before it bears.                                       *)
AskedBy(run) ==
  /\ run \in Nat /\ run < commands
  /\ \A m \in launch.before : m.instance[1] < run
  /\ \/ launch.by = "stand-up" /\ launch.asked = DeriveSessionSet(launch.under.count, run)
     \/ launch.by = "spawn-role" /\ \E role \in CREW_ROLES : launch.asked = {DeriveOneSession(role, run)}

IsAsked ==
  \/ launch.by = "none" /\ launch.asked = {}
  \/ \E run : AskedBy(run)

(* How far it is, by the call it is at.                                      *)
Prepared ==
  /\ launch.step # "over" => ReadLaunchConfig(launch.under) /\ launch.answer = "none" /\ launch.asked # {}
  /\ launch.step \notin {"over", "asserting"} => launch.under.cliVersion \in {"none", installed} \/ launch.upgraded
  /\ launch.step \in {"registering", "targeting", "finding", "launching"} =>
       CrewServer \in launch.under.servers /\ launch.under.mode = "development"
  /\ launch.step = "finding" => launch.by = "spawn-role"
  /\ launch.step = "launching" =>
       launch.todo # {} /\ (launch.by = "spawn-role" => \E m \in launch.before : m.backend = launch.backend)
  /\ launch.step \notin {"over", "launching"} => launch.todo = launch.asked

(* Why LaunchedAsConfigured is inductive: while a launch runs, the panes it  *)
(* has opened and those it has still to open make up what it was asked for.  *)
InOrder ==
  /\ launch.before \subseteq crew /\ launch.todo \subseteq launch.asked /\ Started \subseteq launch.asked
  /\ launch.step # "over" => Started = launch.asked \ launch.todo
  /\ \A s \in Started, t \in launch.asked : Earlier(t, s) => t \in Started
  /\ \A m \in Fresh : /\ m.under = launch.under /\ m.backend = launch.backend
                      /\ \A n \in Fresh : SessionOf(m) = SessionOf(n) => m = n

AnsweredWithCause ==
  /\ launch.answer = "LaunchConfigError" => ~ReadLaunchConfig(launch.under)
  /\ launch.answer \notin {"none", "launched", "StandUpLaunchError"} => Fresh = {}
  /\ launch.answer = "launched" =>
       Started = launch.asked /\ launch.by # "none" /\ (launch.by = "spawn-role" => launch.before # {})

IsLaunch ==
  /\ launch = [step |-> launch.step, answer |-> launch.answer, by |-> launch.by, under |-> launch.under,
               backend |-> launch.backend, asked |-> launch.asked, todo |-> launch.todo,
               before |-> launch.before, upgraded |-> launch.upgraded]
  /\ launch.under \in Configs

LaunchInv == IsLaunch /\ IsAsked /\ Prepared /\ InOrder /\ AnsweredWithCause

ConfigInv ==
  /\ config \in Configs /\ commands \in Nat
  /\ \A m \in crew : LaunchedRight(m)
  /\ LaunchInv
  /\ checked \in {"none", "valid", "invalid"} /\ (checked = "valid" => ReadLaunchConfig(config))
  /\ OffListIsInherited

(* Members that come up under different names are different, so as many are  *)
(* fresh as were started.                                                    *)
LEMMA FreshAreCounted ==
  ASSUME IsFiniteSet(Started), \A m, n \in Fresh : SessionOf(m) = SessionOf(n) => m = n
  PROVE  Cardinality(Fresh) = Cardinality(Started)
<1> DEFINE f == [s \in Started |-> CHOOSE m \in Fresh : SessionOf(m) = s]
<1>1. \A s \in Started : f[s] \in Fresh /\ SessionOf(f[s]) = s
  BY DEF Started
<1>2. f \in [Started -> Fresh]
  BY <1>1
<1>3. \A s, t \in Started : f[s] = f[t] => s = t
  BY <1>1
<1>4. \A m \in Fresh : \E s \in Started : f[s] = m
  <2> SUFFICES ASSUME NEW m \in Fresh PROVE f[SessionOf(m)] = m /\ SessionOf(m) \in Started
    OBVIOUS
  <2>1. SessionOf(m) \in Started
    BY DEF Started
  <2>2. f[SessionOf(m)] \in Fresh /\ SessionOf(f[SessionOf(m)]) = SessionOf(m)
    BY <1>1, <2>1
  <2>. QED BY <2>1, <2>2
<1> HIDE DEF f
<1>5. f \in Bijection(Started, Fresh)
  BY <1>2, <1>3, <1>4 DEF Bijection, Injection, Surjection, IsInjective
<1>6. ExistsBijection(Started, Fresh)
  BY <1>5 DEF ExistsBijection
<1>. QED BY <1>6, FS_Bijection

(* A stand-up is asked for two bridges and as many engines as the file says, *)
(* the first role among them.                                                *)
LEMMA SessionsAsked ==
  ASSUME NEW count \in Nat, NEW run
  PROVE  /\ IsFiniteSet(DeriveSessionSet(count, run))
         /\ Cardinality(DeriveSessionSet(count, run)) = 2 + count
         /\ [role |-> "chief-of-staff", instance |-> <<run, 0>>] \in DeriveSessionSet(count, run)
         /\ \A s \in DeriveSessionSet(count, run) :
              /\ s = [role |-> s.role, instance |-> s.instance]
              /\ s.instance[1] = run /\ s.role \in CREW_ROLES /\ DriveOf(s.role) = "self-driving"
<1> DEFINE Bridge(role) == [role |-> role, instance |-> <<run, 0>>]
           Engine(i)  == [role |-> "engineering-manager", instance |-> <<run, i>>]
           Engines    == {Engine(i) : i \in 1..count}
           f          == [i \in 1..count |-> Engine(i)]
<1>1. DeriveSessionSet(count, run) = {Bridge("chief-of-staff"), Bridge("intake-desk")} \cup Engines
  <2>1. {r \in CREW_ROLES : DriveOf(r) = "self-driving" /\ KindOf(r) = "bridge"} = {"chief-of-staff", "intake-desk"}
    BY DEF CREW_ROLES, DriveOf, KindOf
  <2>. QED BY <2>1 DEF DeriveSessionSet
<1>2. /\ IsFiniteSet(Engines) /\ Cardinality(Engines) = count
  <2>1. f \in [1..count -> Engines]
    OBVIOUS
  <2>2. ASSUME NEW i \in 1..count, NEW k \in 1..count, f[i] = f[k] PROVE i = k
    <3>1. Engine(i).instance[2] = Engine(k).instance[2]
      BY <2>2
    <3>. QED BY <3>1
  <2>3. f \in Bijection(1..count, Engines)
    BY <2>1, <2>2 DEF Bijection, Injection, Surjection, IsInjective
  <2>4. ExistsBijection(1..count, Engines)
    BY <2>3 DEF ExistsBijection
  <2>5. IsFiniteSet(1..count) /\ Cardinality(1..count) = count
    BY FS_Interval
  <2>. QED BY <2>4, <2>5, FS_Bijection
<1>3. Bridge("intake-desk") \notin Engines /\ Bridge("chief-of-staff") \notin Engines \cup {Bridge("intake-desk")}
  <2>1. \A e \in Engines : e.role = "engineering-manager"
    OBVIOUS
  <2>. QED BY <2>1
<1>4. /\ IsFiniteSet(Engines \cup {Bridge("intake-desk")})
      /\ Cardinality(Engines \cup {Bridge("intake-desk")}) = count + 1
  BY <1>2, <1>3, FS_AddElement
<1>5. /\ IsFiniteSet((Engines \cup {Bridge("intake-desk")}) \cup {Bridge("chief-of-staff")})
      /\ Cardinality((Engines \cup {Bridge("intake-desk")}) \cup {Bridge("chief-of-staff")}) = (count + 1) + 1
  BY <1>3, <1>4, FS_AddElement
<1>6. DeriveSessionSet(count, run) = (Engines \cup {Bridge("intake-desk")}) \cup {Bridge("chief-of-staff")}
  BY <1>1
<1>7. \A s \in DeriveSessionSet(count, run) :
        /\ s = [role |-> s.role, instance |-> s.instance]
        /\ s.instance[1] = run /\ s.role \in CREW_ROLES /\ DriveOf(s.role) = "self-driving"
  BY <1>1 DEF CREW_ROLES, DriveOf
<1>8. [role |-> "chief-of-staff", instance |-> <<run, 0>>] \in DeriveSessionSet(count, run)
  BY <1>1
<1> HIDE DEF Bridge, Engines
<1>9. IsFiniteSet(DeriveSessionSet(count, run)) /\ Cardinality(DeriveSessionSet(count, run)) = 2 + count
  BY <1>5, <1>6
<1>. QED BY <1>7, <1>8, <1>9

LEMMA SessionAsked ==
  ASSUME NEW count \in Nat, NEW run, NEW s \in DeriveSessionSet(count, run)
  PROVE  /\ s = [role |-> s.role, instance |-> s.instance]
         /\ s.instance[1] = run /\ s.role \in CREW_ROLES /\ DriveOf(s.role) = "self-driving"
  BY SessionsAsked

(* A file that binds names the crew's server in development mode, for the    *)
(* server has no plugin that an allowlist could name.                        *)
LEMMA BoundIsDevelopment ==
  ASSUME NEW file \in Configs, NEW binExists, ReadLaunchConfig(file), Binds(file, binExists) = "bound"
  PROVE  CrewServer \in file.servers /\ file.mode = "development"
<1>1. CrewServer \in file.servers
  BY DEF Binds
<1>. QED BY <1>1, CrewServerAssumption, ConfigsAssumption
         DEF ReadLaunchConfig, DecodeLaunchConfig, DecodesChannels

LEMMA ConfigInitially == ConfigInit => ConfigInv
<1> SUFFICES ASSUME ConfigInit PROVE ConfigInv
  OBVIOUS
<1>1. crew = {} /\ Fresh = {} /\ Started = {}
  BY DEF ConfigInit, Fresh, Started
<1>2. LaunchInv
  BY <1>1 DEF ConfigInit, LaunchInv, IsLaunch, IsAsked, Prepared, InOrder, AnsweredWithCause
<1>. QED BY <1>1, <1>2 DEF ConfigInit, ConfigInv, OffListIsInherited, NoAgent

LEMMA NobodyIsInherited ==
  ASSUME agent' = NoAgent PROVE OffListIsInherited'
  BY DEF NoAgent, OffListIsInherited

(* What a member is right by is its own and its crew's first role's: more    *)
(* members and more commands do not change it.                               *)
LEMMA MembersStayRight ==
  ASSUME ConfigInv, crew \subseteq crew', commands' \in {commands, commands + 1}
  PROVE  \A m \in crew : LaunchedRight(m)'
<1> SUFFICES ASSUME NEW m \in crew PROVE LaunchedRight(m)'
  OBVIOUS
<1>1. LaunchedRight(m) /\ commands \in Nat
  BY DEF ConfigInv
<1>. QED BY <1>1 DEF LaunchedRight

(* Steps that launch nobody and answer nothing.                              *)
LEMMA SilentKeeps ==
  ASSUME ConfigInv, Moves, UNCHANGED <<crew, launch, installed>>, config' \in Configs,
         checked' \in {"none", "valid", "invalid"}, checked' = "valid" => ReadLaunchConfig(config'),
         OffListIsInherited'
  PROVE  ConfigInv'
<1>1. commands \in Nat /\ commands' = commands + 1
  BY DEF ConfigInv, Moves
<1>2. \A m \in crew' : LaunchedRight(m)'
  BY <1>1, MembersStayRight
<1>3. UNCHANGED <<Fresh, Started>>
  BY DEF Fresh, Started
<1>4. IsAsked'
  BY <1>1 DEF ConfigInv, LaunchInv, IsAsked, AskedBy
<1>5. LaunchInv'
  BY <1>3, <1>4 DEF ConfigInv, LaunchInv, IsLaunch, Prepared, InOrder, AnsweredWithCause
<1>. QED BY <1>1, <1>2, <1>5 DEF ConfigInv

LEMMA EditKeeps == ASSUME ConfigInv, Edit PROVE ConfigInv'
<1>1. OffListIsInherited'
  BY NobodyIsInherited DEF Edit, Counts
<1>. QED BY <1>1, SilentKeeps DEF Edit, Counts

LEMMA CheckConfigKeeps == ASSUME ConfigInv, CheckConfig PROVE ConfigInv'
<1>1. OffListIsInherited'
  BY NobodyIsInherited DEF CheckConfig, Counts
<1>. QED BY <1>1, SilentKeeps DEF CheckConfig, Counts, ConfigInv

(* An upgrade is remembered by the launch under way.                         *)
LEMMA UpgradeKeeps == ASSUME ConfigInv, Upgrade PROVE ConfigInv'
<1>1. commands \in Nat /\ commands' = commands + 1 /\ UNCHANGED <<config, checked, crew>>
  BY DEF ConfigInv, Upgrade, Counts, Moves
<1>2. \A m \in crew' : LaunchedRight(m)'
  BY <1>1, MembersStayRight
<1>3. /\ IsLaunch' /\ (launch').upgraded
      /\ UNCHANGED <<launch.step, launch.answer, launch.by, launch.under, launch.backend, launch.asked,
                     launch.todo, launch.before>>
  BY DEF ConfigInv, LaunchInv, IsLaunch, Upgrade
<1>4. UNCHANGED <<Fresh, Started>>
  BY <1>1, <1>3 DEF Fresh, Started
<1>5. IsAsked'
  BY <1>1, <1>3 DEF ConfigInv, LaunchInv, IsAsked, AskedBy
<1>6. Prepared' /\ InOrder' /\ AnsweredWithCause'
  BY <1>3, <1>4, <1>1 DEF ConfigInv, LaunchInv, Prepared, InOrder, AnsweredWithCause
<1>7. OffListIsInherited'
  BY NobodyIsInherited DEF Upgrade, Counts
<1>. QED BY <1>1, <1>2, <1>3, <1>5, <1>6, <1>7 DEF ConfigInv, LaunchInv

(* A launch that begins has opened no pane yet.                              *)
LEMMA LaunchBegins ==
  ASSUME ConfigInv, NEW by, NEW asked, NEW flag, LaunchOf(by, asked, flag), asked # {},
         \/ by = "stand-up" /\ asked = DeriveSessionSet(config.count, commands)
         \/ by = "spawn-role" /\ \E role \in CREW_ROLES : asked = {DeriveOneSession(role, commands)}
  PROVE  ConfigInv'
<1>1. commands \in Nat /\ commands' = commands + 1 /\ UNCHANGED <<config, checked, crew, installed>>
  BY DEF ConfigInv, LaunchOf, Counts, Moves
<1>2. \A m \in crew' : LaunchedRight(m)'
  BY <1>1, MembersStayRight
<1>3. /\ IsLaunch' /\ (launch').by = by /\ (launch').asked = asked /\ (launch').todo = asked
      /\ (launch').under = config /\ (launch').before = crew
      /\ (launch').step \in {"asserting", "over"} /\ ((launch').step = "asserting" <=> ReadLaunchConfig(config))
      /\ (launch').answer = IF ReadLaunchConfig(config) THEN "none" ELSE "LaunchConfigError"
  BY <1>1 DEF ConfigInv, LaunchOf, IsLaunch
<1>4. Fresh' = {} /\ Started' = {}
  BY <1>1, <1>3 DEF Fresh, Started
<1>5. IsAsked'
  <2>1. \A m \in (launch').before : m.instance[1] < commands
    BY <1>3 DEF ConfigInv, LaunchedRight
  <2>2. PICK run \in Nat : run = commands
    BY <1>1
  <2>3. AskedBy(run)'
    BY <1>1, <1>3, <2>1, <2>2 DEF AskedBy
  <2>. QED BY <2>3 DEF IsAsked
<1>6. Prepared'
  BY <1>3 DEF Prepared
<1>7. InOrder' /\ AnsweredWithCause'
  BY <1>1, <1>3, <1>4 DEF InOrder, AnsweredWithCause
<1>8. OffListIsInherited'
  BY NobodyIsInherited DEF LaunchOf, Counts
<1>. QED BY <1>1, <1>2, <1>3, <1>5, <1>6, <1>7, <1>8 DEF ConfigInv, LaunchInv

LEMMA StandUpKeeps == ASSUME ConfigInv, NEW flag \in Flags, StandUp(flag) PROVE ConfigInv'
<1>1. config.count \in Nat
  BY ConfigsAssumption DEF ConfigInv
<1>2. DeriveSessionSet(config.count, commands) # {}
  BY <1>1, SessionsAsked
<1>. QED BY <1>2, LaunchBegins DEF StandUp

LEMMA SpawnRoleKeeps ==
  ASSUME ConfigInv, NEW role \in CREW_ROLES, NEW flag \in Flags, SpawnRole(role, flag) PROVE ConfigInv'
  BY LaunchBegins DEF SpawnRole

(* A call before the first pane moves its launch on, or ends it.             *)
LEMMA CallKeeps ==
  ASSUME ConfigInv, Others, launch.step # "over", IsLaunch',
         UNCHANGED <<launch.by, launch.under, launch.backend, launch.asked, launch.todo, launch.before>>,
         Prepared',
         \/ (launch').answer = "none"
         \/ /\ launch.step # "launching" /\ (launch').step = "over"
            /\ (launch').answer \notin {"none", "launched", "StandUpLaunchError", "LaunchConfigError"}
  PROVE  ConfigInv'
<1>1. UNCHANGED <<config, installed, checked, commands, crew>> /\ agent' = NoAgent
  BY DEF Others, LaunchStep
<1>2. \A m \in crew' : LaunchedRight(m)'
  BY <1>1, MembersStayRight
<1>3. UNCHANGED <<Fresh, Started>>
  BY <1>1 DEF Fresh, Started
<1>4. IsAsked'
  BY <1>1 DEF ConfigInv, LaunchInv, IsAsked, AskedBy
<1>5. InOrder'
  BY <1>1, <1>3 DEF ConfigInv, LaunchInv, InOrder
<1>6. AnsweredWithCause'
  <2>1. CASE (launch').answer = "none"
    BY <2>1 DEF AnsweredWithCause
  <2>2. CASE /\ launch.step # "launching"
             /\ (launch').answer \notin {"none", "launched", "StandUpLaunchError", "LaunchConfigError"}
    <3>1. Started = {}
      BY <2>2 DEF ConfigInv, LaunchInv, InOrder, Prepared
    <3>2. Fresh' = {}
      BY <1>3, <3>1 DEF Started
    <3>. QED BY <2>2, <3>2 DEF AnsweredWithCause
  <2>. QED BY <2>1, <2>2
<1>7. OffListIsInherited'
  BY <1>1, NobodyIsInherited
<1>. QED BY <1>1, <1>2, <1>4, <1>5, <1>6, <1>7 DEF ConfigInv, LaunchInv

(* What the two ways on do to the launch.                                    *)
LEMMA GoesOn ==
  ASSUME IsLaunch, NEW next, Goes(next)
  PROVE  /\ IsLaunch' /\ (launch').step = next
         /\ UNCHANGED <<launch.answer, launch.by, launch.under, launch.backend, launch.asked, launch.todo,
                        launch.before, launch.upgraded>>
  BY DEF IsLaunch, Goes

LEMMA Ends ==
  ASSUME IsLaunch, NEW answer, LaunchEnds(answer)
  PROVE  /\ IsLaunch' /\ (launch').step = "over" /\ (launch').answer = answer
         /\ UNCHANGED <<launch.by, launch.under, launch.backend, launch.asked, launch.todo,
                        launch.before, launch.upgraded>>
  BY DEF IsLaunch, LaunchEnds

LEMMA RefusedKeeps ==
  ASSUME ConfigInv, Others, launch.step \notin {"over", "launching"}, NEW answer, LaunchEnds(answer),
         answer \notin {"none", "launched", "StandUpLaunchError", "LaunchConfigError"}
  PROVE  ConfigInv'
<1>1. IsLaunch
  BY DEF ConfigInv, LaunchInv
<1>2. Prepared'
  BY <1>1, Ends DEF Prepared
<1>. QED BY <1>1, <1>2, Ends, CallKeeps

LEMMA WentOnKeeps ==
  ASSUME ConfigInv, Others, launch.step # "over", NEW next, Goes(next), Prepared'
  PROVE  ConfigInv'
<1>1. IsLaunch /\ launch.answer = "none"
  BY DEF ConfigInv, LaunchInv, Prepared
<1>. QED BY <1>1, GoesOn, CallKeeps

LEMMA AssertKeeps == ASSUME ConfigInv, AssertPinnedCliVersion PROVE ConfigInv'
<1>1. launch.step = "asserting" /\ Others
  BY DEF AssertPinnedCliVersion
<1>2. IsLaunch /\ Prepared
  BY DEF ConfigInv, LaunchInv
<1>3. CASE LaunchEnds("CliVersionAssertError")
  BY <1>1, <1>3, RefusedKeeps
<1>4. CASE /\ launch.under.cliVersion \in {"none", installed}
           /\ launch' = [launch EXCEPT !.step = "tracking", !.upgraded = FALSE]
  <2>1. /\ IsLaunch' /\ (launch').step = "tracking"
        /\ UNCHANGED <<launch.answer, launch.by, launch.under, launch.backend, launch.asked, launch.todo, launch.before>>
    BY <1>2, <1>4 DEF IsLaunch
  <2>2. installed' = installed
    BY <1>1 DEF Others, LaunchStep
  <2>3. Prepared'
    BY <1>1, <1>2, <1>4, <2>1, <2>2 DEF Prepared
  <2>4. (launch').answer = "none"
    BY <1>1, <1>2, <2>1 DEF Prepared
  <2>. QED BY <1>1, <2>1, <2>3, <2>4, CallKeeps
<1>. QED BY <1>3, <1>4 DEF AssertPinnedCliVersion

(* Calls that only succeed or fail.                                          *)
LEMMA PlainCallKeeps ==
  ASSUME ConfigInv, NEW step, NEW next, NEW errors, Call(step, next, errors),
         step \notin {"over", "launching", "asserting"},
         errors \cap {"none", "launched", "StandUpLaunchError", "LaunchConfigError"} = {},
         next \in {"reaping", "planning"} \/ (step \in {"registering", "targeting"} /\ next \in {"targeting", "launching", "finding"}),
         next = "finding" => launch.by = "spawn-role", next = "launching" => launch.by = "stand-up"
  PROVE  ConfigInv'
<1>1. launch.step = step /\ Others /\ installed' = installed
  BY DEF Call, Others, LaunchStep
<1>2. IsLaunch /\ Prepared
  BY DEF ConfigInv, LaunchInv
<1>3. CASE Goes(next)
  <2>1. Prepared'
    BY <1>1, <1>2, <1>3, GoesOn DEF Prepared
  <2>. QED BY <1>1, <1>3, <2>1, WentOnKeeps
<1>4. ASSUME NEW error \in errors, LaunchEnds(error) PROVE ConfigInv'
  BY <1>1, <1>4, RefusedKeeps
<1>. QED BY <1>3, <1>4 DEF Call

LEMMA CallsKeep ==
  ASSUME ConfigInv, EnsureTracker \/ Reap \/ Register \/ ResolveTarget PROVE ConfigInv'
<1>1. launch.step # "over" => launch.by \in {"stand-up", "spawn-role"}
  BY DEF ConfigInv, LaunchInv, IsAsked, AskedBy, Prepared
<1>2. CASE EnsureTracker
  BY <1>2, PlainCallKeeps DEF EnsureTracker
<1>3. CASE Reap
  BY <1>3, PlainCallKeeps DEF Reap
<1>4. CASE Register
  BY <1>4, PlainCallKeeps DEF Register
<1>5. CASE ResolveTarget
  <2>1. launch.step = "targeting"
    BY <1>5 DEF ResolveTarget, Call
  <2>. QED BY <1>1, <1>5, <2>1, PlainCallKeeps DEF ResolveTarget
<1>. QED BY <1>2, <1>3, <1>4, <1>5

LEMMA PlansKeep == ASSUME ConfigInv, BuildLaunchPlans PROVE ConfigInv'
<1>1. launch.step = "planning" /\ Others /\ installed' = installed
  BY DEF BuildLaunchPlans, Others, LaunchStep
<1>2. IsLaunch /\ Prepared
  BY DEF ConfigInv, LaunchInv
<1>3. PICK binExists \in BOOLEAN :
        LET bind == Binds(launch.under, binExists)
        IN  \/ bind # "bound" /\ LaunchEnds(bind)
            \/ bind = "bound" /\ (Goes("registering") \/ LaunchEnds("ProjectScopeWriteError"))
  BY DEF BuildLaunchPlans
<1> DEFINE bind == Binds(launch.under, binExists)
<1>4. CASE bind # "bound" /\ LaunchEnds(bind)
  <2>1. bind \in {"CrewSessionBinUnresolvableError", "CrewServerNotRegisteredError", "ChannelPluginNotAllowedError"}
    BY <1>4 DEF Binds
  <2>. QED BY <1>1, <1>4, <2>1, RefusedKeeps
<1>5. CASE LaunchEnds("ProjectScopeWriteError")
  BY <1>1, <1>5, RefusedKeeps
<1>6. CASE bind = "bound" /\ Goes("registering")
  <2>1. CrewServer \in launch.under.servers /\ launch.under.mode = "development"
    BY <1>1, <1>2, <1>6, BoundIsDevelopment DEF IsLaunch, Prepared
  <2>2. Prepared'
    BY <1>1, <1>2, <1>6, <2>1, GoesOn DEF Prepared
  <2>. QED BY <1>1, <1>6, <2>2, WentOnKeeps
<1>. QED BY <1>3, <1>4, <1>5, <1>6

LEMMA WindowKeeps == ASSUME ConfigInv, ResolveCrewWindow PROVE ConfigInv'
<1>1. launch.step = "finding" /\ Others /\ installed' = installed
  BY DEF ResolveCrewWindow, Others, LaunchStep
<1>2. IsLaunch /\ Prepared
  BY DEF ConfigInv, LaunchInv
<1>3. CASE LaunchEnds("CrewWindowNotRunningError")
  BY <1>1, <1>3, RefusedKeeps
<1>4. CASE (\E m \in crew : m.backend = launch.backend) /\ Goes("launching")
  <2>1. Started = {} /\ launch.before \subseteq crew
    BY <1>1 DEF ConfigInv, LaunchInv, InOrder, Prepared
  <2>2. crew = launch.before
    BY <2>1 DEF Started, Fresh
  <2>3. Prepared'
    BY <1>1, <1>2, <1>4, <2>2, GoesOn DEF Prepared
  <2>. QED BY <1>1, <1>4, <2>3, WentOnKeeps
<1>. QED BY <1>3, <1>4 DEF ResolveCrewWindow

LEMMA DeathKeeps == ASSUME ConfigInv, LauncherDies PROVE ConfigInv'
<1>1. IsLaunch /\ launch.step # "over" /\ Others /\ Goes("over")
  BY DEF ConfigInv, LaunchInv, LauncherDies
<1>2. Prepared'
  BY <1>1, GoesOn DEF Prepared
<1>. QED BY <1>1, <1>2, WentOnKeeps

(* The pane that is next is of the first role, or that role is up already.   *)
LEMMA NextIsRight ==
  ASSUME ConfigInv, launch.step = "launching", NEW s \in launch.todo, \A t \in launch.todo : ~Earlier(t, s),
         NEW b, b = BuildSessionBind(s)
  PROVE  /\ SessionOf(b) = s /\ b \notin crew
         /\ \A m \in Fresh : SessionOf(m) # s
         /\ crew' = crew \cup {b} /\ commands' = commands => LaunchedRight(b)'
<1>1. IsLaunch /\ IsAsked /\ Prepared /\ InOrder
  BY DEF ConfigInv, LaunchInv
<1>2. s \in launch.asked /\ s \notin Started
  BY <1>1 DEF InOrder
<1>3. PICK run : AskedBy(run)
  BY <1>1, <1>2 DEF IsAsked
<1>4. launch.under.count \in Nat
  BY <1>1, ConfigsAssumption DEF IsLaunch
<1>5. s = [role |-> s.role, instance |-> s.instance] /\ s.instance[1] = run /\ s.role \in CREW_ROLES
  <2>1. CASE launch.by = "stand-up" /\ launch.asked = DeriveSessionSet(launch.under.count, run)
    <3>1. s \in DeriveSessionSet(launch.under.count, run)
      BY <1>2, <2>1
    <3>. QED BY <1>4, <3>1, SessionAsked
  <2>2. ASSUME NEW role \in CREW_ROLES, launch.asked = {DeriveOneSession(role, run)}
        PROVE  s = [role |-> s.role, instance |-> s.instance] /\ s.instance[1] = run /\ s.role \in CREW_ROLES
    BY <1>2, <2>2 DEF DeriveOneSession
  <2>. QED BY <1>3, <2>1, <2>2 DEF AskedBy
<1>6. /\ b.role = s.role /\ b.instance = s.instance /\ b.backend = launch.backend /\ b.under = launch.under
      /\ b.version = installed /\ b.upgraded = launch.upgraded
      /\ b.channelArg = <<ChannelFlag(launch.under.mode), launch.under.servers>>
      /\ b.model = launch.under.tiers[s.role] /\ b.bootPrompt = (DriveOf(s.role) = "self-driving")
  BY DEF BuildSessionBind
<1>7. SessionOf(b) = s
  BY <1>5, <1>6 DEF SessionOf
<1>8. \A m \in Fresh : SessionOf(m) # s
  BY <1>2 DEF Started
<1>9. b \notin crew
  <2>1. b \notin Fresh
    BY <1>7, <1>8
  <2>2. b \notin launch.before
    BY <1>3, <1>5, <1>6 DEF AskedBy
  <2>. QED BY <2>1, <2>2 DEF Fresh
<1>10. ASSUME crew' = crew \cup {b}, commands' = commands PROVE LaunchedRight(b)'
  <2>1. \E n \in crew' : FirstOf(b, n)
    <3>1. CASE s.role = "chief-of-staff"
      BY <1>3, <1>5, <1>6, <1>10, <3>1 DEF FirstOf, AskedBy
    <3>2. CASE s.role # "chief-of-staff" /\ launch.by = "stand-up"
      <4> DEFINE first == [role |-> "chief-of-staff", instance |-> <<run, 0>>]
      <4>1. first \in launch.asked
        BY <1>3, <1>4, <3>2, SessionsAsked DEF AskedBy
      <4>2. Earlier(first, s)
        BY <1>5, <3>2 DEF Earlier, Seat, CREW_ROLES
      <4>3. first \in Started
        BY <1>1, <4>1, <4>2 DEF InOrder
      <4>4. PICK n \in Fresh : SessionOf(n) = first
        BY <4>3 DEF Started
      <4>5. n \in crew /\ n.role = "chief-of-staff" /\ n.instance[1] = run /\ n.backend = launch.backend
        BY <1>1, <4>4 DEF SessionOf, Fresh, InOrder
      <4>. QED BY <1>3, <1>5, <1>6, <1>10, <4>5 DEF FirstOf, AskedBy
    <3>3. CASE launch.by = "spawn-role"
      <4>1. PICK m \in launch.before : m.backend = launch.backend
        BY <1>1, <3>3 DEF Prepared
      <4>2. m \in crew /\ m.instance[1] < run
        BY <1>1, <1>3, <4>1 DEF InOrder, AskedBy
      <4>3. PICK n \in crew : FirstOf(m, n)
        BY <4>2 DEF ConfigInv, LaunchedRight
      <4>4. n.instance[1] \in Nat /\ m.instance[1] \in Nat /\ run \in Nat
        BY <1>3, <4>2 DEF ConfigInv, LaunchedRight, AskedBy
      <4>. QED BY <1>5, <1>6, <1>10, <4>1, <4>2, <4>3, <4>4 DEF FirstOf
    <3>. QED BY <1>3, <3>1, <3>2, <3>3 DEF AskedBy
  <2>2. run \in Nat /\ run < commands'
    BY <1>3, <1>10 DEF AskedBy
  <2>3. /\ CrewServer \in launch.under.servers /\ launch.under.mode = "development"
        /\ launch.under.cliVersion \in {"none", installed} \/ launch.upgraded
    BY <1>1 DEF Prepared
  <2>. QED BY <1>5, <1>6, <2>1, <2>2, <2>3 DEF LaunchedRight
<1>. QED BY <1>7, <1>8, <1>9, <1>10

(* The panes opened remain an opening stretch when the next one is.          *)
LEMMA OpeningStretch ==
  ASSUME ConfigInv, launch.step = "launching", NEW s \in launch.todo, \A t \in launch.todo : ~Earlier(t, s),
         crew' = crew \cup {BuildSessionBind(s)},
         UNCHANGED <<launch.under, launch.backend, launch.asked, launch.before>>
  PROVE  /\ Started' = Started \cup {s} /\ (launch').before \subseteq crew' /\ Started' \subseteq (launch').asked
         /\ \A r \in Started', t \in (launch').asked : Earlier(t, r) => t \in Started'
         /\ \A m \in Fresh' : /\ m.under = (launch').under /\ m.backend = (launch').backend
                              /\ \A n \in Fresh' : SessionOf(m) = SessionOf(n) => m = n
<1> DEFINE b == BuildSessionBind(s)
<1>1. SessionOf(b) = s /\ b \notin crew /\ \A m \in Fresh : SessionOf(m) # s
  BY NextIsRight
<1>2. InOrder /\ b.under = launch.under /\ b.backend = launch.backend
  BY DEF ConfigInv, LaunchInv, BuildSessionBind
<1> HIDE DEF b
<1>3. Fresh' = Fresh \cup {b}
  BY <1>1, <1>2 DEF Fresh, InOrder, b
<1>4. Started' = Started \cup {s}
  <2>1. Started' = {SessionOf(m) : m \in Fresh'}
    BY DEF Started
  <2>. QED BY <1>1, <1>3, <2>1 DEF Started
<1>5. \A r \in Started', t \in (launch').asked : Earlier(t, r) => t \in Started'
  <2> SUFFICES ASSUME NEW r \in Started', NEW t \in launch.asked, Earlier(t, r) PROVE t \in Started'
    OBVIOUS
  <2>1. CASE r \in Started
    BY <1>2, <1>4, <2>1 DEF InOrder
  <2>2. CASE r = s
    <3>1. t \notin launch.todo
      BY <2>2
    <3>2. t \in Started
      BY <1>2, <3>1 DEF InOrder
    <3>. QED BY <1>4, <3>2
  <2>. QED BY <1>4, <2>1, <2>2
<1>6. \A m \in Fresh' : /\ m.under = (launch').under /\ m.backend = (launch').backend
                        /\ \A n \in Fresh' : SessionOf(m) = SessionOf(n) => m = n
  BY <1>1, <1>2, <1>3 DEF InOrder
<1>7. (launch').before \subseteq crew' /\ Started' \subseteq (launch').asked
  BY <1>2, <1>4 DEF InOrder
<1>. QED BY <1>4, <1>5, <1>6, <1>7

LEMMA LaunchNextKeeps == ASSUME ConfigInv, LaunchNext PROVE ConfigInv'
<1>1. launch.step = "launching" /\ UNCHANGED <<config, installed, checked, commands>> /\ agent' = NoAgent
  BY DEF LaunchNext, LaunchStep
<1>2. IsLaunch /\ IsAsked /\ Prepared /\ InOrder
  BY DEF ConfigInv, LaunchInv
<1>3. PICK s \in launch.todo :
        /\ \A t \in launch.todo : ~Earlier(t, s)
        /\ \/ /\ crew' = crew \cup {BuildSessionBind(s)}
              /\ launch' = [launch EXCEPT !.todo = @ \ {s},
                                          !.step = IF launch.todo = {s} THEN "over" ELSE @,
                                          !.answer = IF launch.todo = {s} THEN "launched" ELSE @]
           \/ LaunchEnds("StandUpLaunchError") /\ crew' \in {crew, crew \cup {BuildSessionBind(s)}}
  BY DEF LaunchNext
<1>4. OffListIsInherited'
  BY <1>1, NobodyIsInherited
<1>5. ASSUME crew' \in {crew, crew \cup {BuildSessionBind(s)}} PROVE \A m \in crew' : LaunchedRight(m)'
  <2>1. \A m \in crew : LaunchedRight(m)'
    BY <1>1, <1>5, MembersStayRight
  <2>2. ASSUME NEW b, b = BuildSessionBind(s), crew' = crew \cup {b} PROVE LaunchedRight(b)'
    BY <1>1, <1>3, <2>2, NextIsRight
  <2>. QED BY <1>5, <2>1, <2>2
<1>6. ASSUME UNCHANGED <<launch.by, launch.under, launch.asked, launch.before>> PROVE IsAsked'
  BY <1>1, <1>2, <1>6 DEF IsAsked, AskedBy
<1>7. CASE LaunchEnds("StandUpLaunchError") /\ crew' \in {crew, crew \cup {BuildSessionBind(s)}}
  <2>1. /\ IsLaunch' /\ (launch').step = "over" /\ (launch').answer = "StandUpLaunchError"
        /\ UNCHANGED <<launch.by, launch.under, launch.backend, launch.asked, launch.todo, launch.before>>
    BY <1>2, <1>7, Ends
  <2>2. Prepared' /\ AnsweredWithCause'
    BY <2>1 DEF Prepared, AnsweredWithCause
  <2>3. InOrder'
    <3>1. CASE crew' = crew
      <4>1. UNCHANGED <<Fresh, Started>>
        BY <2>1, <3>1 DEF Fresh, Started
      <4>. QED BY <1>2, <2>1, <3>1, <4>1 DEF InOrder
    <3>2. CASE crew' = crew \cup {BuildSessionBind(s)}
      <4>1. (launch').todo \subseteq (launch').asked
        BY <1>2, <2>1 DEF InOrder
      <4>. QED BY <1>1, <1>3, <2>1, <3>2, <4>1, OpeningStretch DEF InOrder
    <3>. QED BY <1>7, <3>1, <3>2
  <2>. QED BY <1>1, <1>4, <1>5, <1>6, <1>7, <2>1, <2>2, <2>3 DEF ConfigInv, LaunchInv
<1>8. CASE /\ crew' = crew \cup {BuildSessionBind(s)}
           /\ launch' = [launch EXCEPT !.todo = @ \ {s},
                                       !.step = IF launch.todo = {s} THEN "over" ELSE @,
                                       !.answer = IF launch.todo = {s} THEN "launched" ELSE @]
  <2>1. /\ IsLaunch' /\ (launch').todo = launch.todo \ {s}
        /\ (launch').step = (IF launch.todo = {s} THEN "over" ELSE "launching")
        /\ (launch').answer = (IF launch.todo = {s} THEN "launched" ELSE "none")
        /\ UNCHANGED <<launch.by, launch.under, launch.backend, launch.asked, launch.before, launch.upgraded>>
    BY <1>1, <1>2, <1>8 DEF IsLaunch, Prepared
  <2>2. Started' = Started \cup {s}
    BY <1>1, <1>3, <1>8, <2>1, OpeningStretch
  <2>3. Started' = (launch').asked \ (launch').todo
    BY <1>1, <1>2, <2>1, <2>2 DEF InOrder
  <2>4. InOrder'
    <3>1. (launch').todo \subseteq (launch').asked
      BY <1>2, <2>1 DEF InOrder
    <3>. QED BY <1>1, <1>3, <1>8, <2>1, <2>3, <3>1, OpeningStretch DEF InOrder
  <2>5. Prepared'
    BY <1>1, <1>2, <2>1 DEF Prepared
  <2>6. AnsweredWithCause'
    <3>1. CASE launch.todo = {s}
      <4>1. Started' = (launch').asked
        BY <2>1, <2>3, <3>1
      <4>2. launch.by # "none"
        BY <1>1, <1>2 DEF IsAsked, AskedBy, Prepared
      <4>3. launch.by = "spawn-role" => launch.before # {}
        BY <1>1, <1>2 DEF Prepared
      <4>. QED BY <2>1, <3>1, <4>1, <4>2, <4>3 DEF AnsweredWithCause
    <3>2. CASE launch.todo # {s}
      BY <2>1, <3>2 DEF AnsweredWithCause
    <3>. QED BY <3>1, <3>2
  <2>. QED BY <1>1, <1>4, <1>5, <1>6, <1>8, <2>1, <2>4, <2>5, <2>6 DEF ConfigInv, LaunchInv
<1>. QED BY <1>3, <1>7, <1>8

(* An agent off the list runs on what its session was launched on.           *)
LEMMA SpawnAgentKeeps ==
  ASSUME ConfigInv, NEW m \in crew, NEW requested \in Requests, NEW pin \in Requests,
         SpawnAgent(m, requested, pin)
  PROVE  ConfigInv'
<1>1. m.model = m.under.tiers[m.role]
  BY DEF ConfigInv, LaunchedRight
<1>2. OffListIsInherited'
  <2>1. CASE DecideSpawn(requested, pin) = "deny"
    BY <2>1, NobodyIsInherited DEF SpawnAgent
  <2>2. CASE DecideSpawn(requested, pin) = "allow"
    <3>1. CanonicalModel(requested) \in ALLOWLIST
      BY <2>2 DEF DecideSpawn, IsOnAllowlist
    <3>2. agent' = [by |-> {m}, requested |-> requested, pin |-> pin, model |-> CanonicalModel(requested)]
      BY <2>2 DEF SpawnAgent
    <3>. QED BY <3>1, <3>2 DEF OffListIsInherited
  <2>3. CASE DecideSpawn(requested, pin) \notin {"deny", "allow"}
    <3>1. requested = "none" /\ (pin # "none" => IsOnAllowlist(pin))
      BY <2>3 DEF DecideSpawn
    <3>2. agent' = [by |-> {m}, requested |-> requested, pin |-> pin, model |-> CanonicalModel(m.model)]
      BY <2>3, <3>1 DEF SpawnAgent
    <3>3. CanonicalModel(m.model) \in ALLOWLIST \/ CanonicalModel(m.model) = m.model
      BY DEF CanonicalModel, MODEL_ALIASES, ALLOWLIST
    <3>. QED BY <1>1, <3>1, <3>2, <3>3 DEF OffListIsInherited
  <2>. QED BY <2>1, <2>2, <2>3
<1>. QED BY <1>2, SilentKeeps DEF SpawnAgent, ConfigInv

LEMMA ConfigInductive == ConfigInv /\ [ConfigNext]_configVars => ConfigInv'
<1> SUFFICES ASSUME ConfigInv, [ConfigNext]_configVars PROVE ConfigInv'
  OBVIOUS
<1>1. CASE UNCHANGED configVars
  <2>1. UNCHANGED <<Fresh, Started>>
    BY <1>1 DEF configVars, Fresh, Started
  <2>2. LaunchInv'
    BY <1>1, <2>1 DEF configVars, ConfigInv, LaunchInv, IsLaunch, IsAsked, AskedBy, Prepared, InOrder, AnsweredWithCause
  <2>. QED BY <1>1, <2>2 DEF configVars, ConfigInv, LaunchedRight, OffListIsInherited
<1>. QED BY <1>1, EditKeeps, UpgradeKeeps, CheckConfigKeeps, StandUpKeeps, SpawnRoleKeeps, SpawnAgentKeeps,
            AssertKeeps, CallsKeep, PlansKeep, WindowKeeps, LaunchNextKeeps, DeathKeeps
         DEF ConfigNext, Launches

(* A launch that says it launched has as many fresh members as it was asked  *)
(* for, all of them started of themselves if it stood a crew up.             *)
LEMMA WholeCrewIsUp ==
  ASSUME ConfigInv, launch.answer = "launched"
  PROVE  IF launch.by = "stand-up" THEN Cardinality(Fresh) = 2 + launch.under.count /\ \A m \in Fresh : m.bootPrompt
                                   ELSE Cardinality(Fresh) = 1 /\ launch.before # {}
<1>1. Started = launch.asked /\ launch.by # "none" /\ (launch.by = "spawn-role" => launch.before # {})
  BY DEF ConfigInv, LaunchInv, AnsweredWithCause
<1>2. PICK run : AskedBy(run)
  BY <1>1 DEF ConfigInv, LaunchInv, IsAsked
<1>3. \A m, n \in Fresh : SessionOf(m) = SessionOf(n) => m = n
  BY DEF ConfigInv, LaunchInv, InOrder
<1>4. CASE launch.by = "stand-up"
  <2>1. launch.under.count \in Nat /\ launch.asked = DeriveSessionSet(launch.under.count, run)
    BY <1>2, <1>4, ConfigsAssumption DEF ConfigInv, LaunchInv, IsLaunch, AskedBy
  <2>2. IsFiniteSet(Started) /\ Cardinality(Started) = 2 + launch.under.count
    <3>1. /\ IsFiniteSet(DeriveSessionSet(launch.under.count, run))
          /\ Cardinality(DeriveSessionSet(launch.under.count, run)) = 2 + launch.under.count
      BY <2>1, SessionsAsked
    <3>. QED BY <1>1, <2>1, <3>1
  <2>3. Cardinality(Fresh) = 2 + launch.under.count
    BY <1>3, <2>2, FreshAreCounted
  <2>4. ASSUME NEW m \in Fresh PROVE m.bootPrompt
    <3>1. SessionOf(m) \in launch.asked
      BY <1>1 DEF Started
    <3>2. DriveOf(SessionOf(m).role) = "self-driving"
      <4>1. SessionOf(m) \in DeriveSessionSet(launch.under.count, run)
        BY <2>1, <3>1
      <4>. QED BY <2>1, <4>1, SessionAsked
    <3>3. m.bootPrompt = (DriveOf(m.role) = "self-driving")
      BY DEF Fresh, ConfigInv, LaunchedRight
    <3>. QED BY <3>2, <3>3 DEF SessionOf
  <2>. QED BY <1>4, <2>3, <2>4
<1>5. CASE launch.by = "spawn-role"
  <2>1. PICK role : launch.asked = {DeriveOneSession(role, run)}
    BY <1>2, <1>5 DEF AskedBy
  <2>2. IsFiniteSet(Started) /\ Cardinality(Started) = 1
    BY <1>1, <2>1, FS_Singleton
  <2>3. Cardinality(Fresh) = 1
    BY <1>3, <2>2, FreshAreCounted
  <2>. QED BY <1>1, <1>5, <2>3
<1>. QED BY <1>2, <1>4, <1>5 DEF AskedBy

LEMMA ConfigInvIsEnough == ConfigInv => LaunchedAsConfigured /\ OffListIsInherited
<1> SUFFICES ASSUME ConfigInv PROVE LaunchedAsConfigured
  BY DEF ConfigInv
<1>1. ASSUME NEW m \in crew
      PROVE /\ CrewServer \in m.channelArg[2] /\ m.channelArg[1] = ChannelFlag("development")
            /\ m.under.cliVersion \in {"none", m.version} \/ m.upgraded
            /\ \E n \in crew : n.backend = m.backend /\ n.instance[1] <= m.instance[1] /\ n.role = "chief-of-staff"
  BY DEF ConfigInv, LaunchedRight, FirstOf
<1>2. /\ \A s \in Started, t \in launch.asked : Earlier(t, s) => t \in Started
      /\ \A m \in Fresh : m.under = launch.under /\ \A n \in Fresh : SessionOf(m) = SessionOf(n) => m = n
  BY DEF ConfigInv, LaunchInv, InOrder
<1>3. launch.answer \notin {"none", "launched", "StandUpLaunchError"} => Fresh = {}
  BY DEF ConfigInv, LaunchInv, AnsweredWithCause
<1>4. ASSUME checked = "valid"
      PROVE  /\ launch.under = config => launch.answer # "LaunchConfigError"
             /\ config.mode = "allowlist" => \A m \in crew : m.under # config
  BY <1>4 DEF ConfigInv, LaunchInv, AnsweredWithCause, LaunchedRight
<1>. QED BY <1>1, <1>2, <1>3, <1>4, WholeCrewIsUp DEF LaunchedAsConfigured

(* Whatever call of a launch fails, and whenever the launcher dies or the CLI *)
(* is upgraded: the panes it opened are an opening stretch of its roster, all *)
(* under the file it read, and a launch said to have launched is whole; every *)
(* member listens to the crew's server on the version pinned, unless the CLI  *)
(* was upgraded after the launch compared it; an agent off the list of models *)
(* inherited its session's.  For any configurations, versions and command     *)
(* sequences (bind.ts, orchestrate.ts, single-role.ts, spawn-guard.ts).       *)
THEOREM CrewIsAsConfigured == ConfigSpec => [](LaunchedAsConfigured /\ OffListIsInherited)
<1>1. ConfigInit => ConfigInv
  BY ConfigInitially
<1>2. ConfigInv /\ [ConfigNext]_configVars => ConfigInv'
  BY ConfigInductive
<1>3. ConfigInv => LaunchedAsConfigured /\ OffListIsInherited
  BY ConfigInvIsEnough
<1>. QED BY <1>1, <1>2, <1>3, PTL DEF ConfigSpec
=============================================================================
