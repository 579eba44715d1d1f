----------------------------- MODULE CrewLaunch -----------------------------
(***************************************************************************)
(* The launcher's commands: stand-up, spawn-role, retire-role and          *)
(* stand-down, over the tmux or the herdr backend.  standup/orchestrate.ts,*)
(* single-role.ts, register-project-scope.ts, terminal.ts, herdr.ts.       *)
(*                                                                         *)
(* Each command is a process of its own, run by a human or an agent at any *)
(* time; each client call to the multiplexer is one step, and each stretch *)
(* of file-system calls.  Any call may fail, and a launcher may be killed  *)
(* between two of them.                                                    *)
(*                                                                         *)
(* A seat is a place in the roster.  A bridge keeps its role's label in    *)
(* every run and every project; an engine's label is minted by the command *)
(* that launches it.  A pane, and its launch directory, is known by its    *)
(* command and seat; a window (a herdr tab) by the command that opened it. *)
(***************************************************************************)
EXTENDS Naturals, Sequences

CONSTANTS
  Commands,    \* the launcher commands that may be issued
  Projects,
  Roster,      \* the seats a stand-up fills, in CREW_ROLES order
  EngineSeats, \* those seats that are engine instances
  Nobody,
  MaxFaults    \* bound on failed calls, killed launchers, ended sessions

Seats == {Roster[i] : i \in DOMAIN Roster}

ASSUME RosterAssumption == Roster \in Seq(Seats) /\ Roster # <<>>
ASSUME NobodyAssumption == Nobody \notin Commands \cup Projects
ASSUME FaultsAssumption == MaxFaults \in Nat

(* A member's identity: a bridge's role slug, an engine's instance.        *)
Label(c, seat) == IF seat \in EngineSeats THEN <<seat, c>> ELSE <<seat>>
Labels == {Label(c, seat) : c \in Commands, seat \in Seats}
None == <<>>
Ids == Commands \X Seats

VARIABLES
  terminal,  \* the backend of the installation
  panes,     \* the panes on screen
  leaves,    \* the launch directories that hold a .mcp.json
  inbox,     \* label -> the pane whose session bound the inbox file last
  job,       \* command -> what it is, where it is, what it has found
  overlap,   \* the labels bound by a session while they were being retired
  faults

vars == <<terminal, panes, leaves, inbox, job, overlap, faults>>

Steps == {"reaping", "registering", "resolving", "opening", "splitting", "tiling",
          "renaming", "running", "unwinding", "finding", "closing", "unbinding",
          "clearing"}
Ended == {"done", "aborted", "killed"}

Job == [step : Steps \cup Ended \cup {"idle"},
        kind : {"none", "stand-up", "spawn-role", "retire-role", "stand-down"},
        project : Projects \cup {Nobody},
        todo : Seq(Seats),                  \* the seats still to launch
        window : Commands \cup {Nobody},    \* the window it launches into
        launched : SUBSET Seats,            \* the seats it counts as up
        stranded : BOOLEAN,                 \* did it report a pane it left?
        label : Labels \cup {None},         \* the member to retire
        found : Ids \cup {None}]            \* the pane of that member

Pane == [id : Ids, window : Commands, hosts : {"shell", "claude", "session", "inert"}]

LabelOf(id) == Label(id[1], id[2])
OnScreen(id) == \E p \in panes : p.id = id
IsWindow(w) == \E p \in panes : p.window = w
Serves(id) == \E p \in panes : p.id = id /\ p.hosts = "session"

TypeOK ==
  /\ terminal \in {"tmux", "herdr"}
  /\ panes \subseteq Pane
  /\ \A p, q \in panes : p.id = q.id => p = q
  /\ leaves \subseteq Ids
  /\ inbox \in [Labels -> Ids \cup {None}]
  /\ job \in [Commands -> Job]
  /\ overlap \subseteq Labels
  /\ faults \in 0..MaxFaults

Init ==
  /\ terminal \in {"tmux", "herdr"}
  /\ panes = {} /\ leaves = {}
  /\ inbox = [l \in Labels |-> None]
  /\ job = [c \in Commands |->
       [step |-> "idle", kind |-> "none", project |-> Nobody, todo |-> <<>>,
        window |-> Nobody, launched |-> {}, stranded |-> FALSE,
        label |-> None, found |-> None]]
  /\ overlap = {}
  /\ faults = 0

-----------------------------------------------------------------------------
(* Steps shared by the commands. *)

At(c, step) == job[c].step = step

(* A launcher that has ended holds on to nothing but what it reported. *)
Advance(j, step) ==
  IF step \notin Ended THEN [j EXCEPT !.step = step]
  ELSE [j EXCEPT !.step = step, !.todo = <<>>, !.window = Nobody,
                 !.label = None, !.found = None]

Goto(c, step) == job' = [job EXCEPT ![c] = Advance(@, step)]
Fault == faults < MaxFaults /\ faults' = faults + 1

(* The pane the command is launching. *)
Launching(c) == <<c, Head(job[c].todo)>>

(* A command whose configuration, version or tracker check fails has       *)
(* touched nothing and is left out: these are issued and get past it.      *)
Issue(c, kind, project, step, todo, label) ==
  /\ At(c, "idle")
  /\ job' = [job EXCEPT ![c].kind = kind, ![c].project = project, ![c].step = step,
                        ![c].todo = todo, ![c].label = label]
  /\ UNCHANGED <<terminal, panes, leaves, inbox, overlap, faults>>

runStandUp(c) == \E p \in Projects : Issue(c, "stand-up", p, "reaping", Roster, None)

spawnRole(c) == \E p \in Projects, seat \in Seats :
  Issue(c, "spawn-role", p, "registering", <<seat>>, None)

retireRole(c) == \E p \in Projects, l \in Labels :
  Issue(c, "retire-role", p, "finding", <<>>, l)

runStandDown(c) == \E p \in Projects : Issue(c, "stand-down", p, "reaping", <<>>, None)

InProject(project) == {id \in Ids : job[id[1]].project = project}

(* Remove the project's crew-run tree: the directories of every run.       *)
reapCrewProjectScopeFor(c) ==
  /\ At(c, "reaping")
  /\ leaves' = leaves \ InProject(job[c].project)
  /\ Goto(c, IF job[c].kind = "stand-down" THEN "done" ELSE "registering")
  /\ UNCHANGED <<terminal, panes, inbox, overlap, faults>>

(* A directory and a .mcp.json for each seat to launch.                    *)
writeCrewMcpJson(c) ==
  /\ At(c, "registering")
  /\ leaves' = leaves \cup {<<c, job[c].todo[i]>> : i \in DOMAIN job[c].todo}
  /\ Goto(c, IF job[c].kind = "stand-up" THEN "opening" ELSE "resolving")
  /\ UNCHANGED <<terminal, panes, inbox, overlap, faults>>

(* A removal or a write throws after some of its files were done.          *)
FilesFail(c) ==
  /\ Fault
  /\ \/ /\ At(c, "reaping")
        /\ \E kept \in SUBSET InProject(job[c].project) :
             leaves' = {id \in leaves : id \in InProject(job[c].project) => id \in kept}
     \/ /\ At(c, "registering")
        /\ \E written \in SUBSET {<<c, job[c].todo[i]>> : i \in DOMAIN job[c].todo} :
             leaves' = leaves \cup written
  /\ Goto(c, "aborted")
  /\ UNCHANGED <<terminal, panes, inbox, overlap>>

(* A call that fails, or a host that cannot be resolved, before anything   *)
(* of it took effect; one that took effect and was not understood (an      *)
(* answer of herdr that does not parse) is left out.                       *)
CallFails(c) ==
  /\ job[c].step \in {"opening", "resolving", "splitting", "tiling", "finding",
                      "closing", "unbinding", "clearing"}
  /\ Fault
  /\ Goto(c, "aborted")
  /\ UNCHANGED <<terminal, panes, leaves, inbox, overlap>>

LauncherKilled(c) ==
  /\ job[c].step \in Steps
  /\ Fault
  /\ Goto(c, "killed")
  /\ UNCHANGED <<terminal, panes, leaves, inbox, overlap>>

-----------------------------------------------------------------------------
(* Launching: launchSessionInTmux, launchSessionInHerdr.  A tmux pane      *)
(* starts its claude with the pane; a herdr pane starts as a shell, is     *)
(* renamed, and only then told to run claude.                              *)

(* Put the seat at the head of todo on screen, in window w. *)
Place(c, w, step) ==
  /\ panes' = panes \cup {[id |-> Launching(c), window |-> w,
                hosts |-> IF terminal = "tmux" THEN "claude" ELSE "shell"]}
  /\ job' = [job EXCEPT ![c].window = w, ![c].step = step]
  /\ UNCHANGED <<terminal, leaves, inbox, overlap, faults>>

Counted(j) ==
  Advance([j EXCEPT !.launched = @ \cup {Head(j.todo)}, !.todo = Tail(@)],
          IF Len(j.todo) = 1 THEN "done" ELSE "splitting")

(* new-window, tab create: the first seat of a stand-up. *)
OpenWindow(c) ==
  /\ At(c, "opening")
  /\ IF terminal = "herdr" THEN Place(c, c, "renaming")
     ELSE /\ panes' = panes \cup {[id |-> Launching(c), window |-> c, hosts |-> "claude"]}
          /\ job' = [job EXCEPT ![c] = Counted([@ EXCEPT !.window = c])]
          /\ UNCHANGED <<terminal, leaves, inbox, overlap, faults>>

(* The crew window a spawn joins: tmux takes the first of that name, herdr *)
(* refuses to choose between two.                                          *)
resolveCrewWindow(c) ==
  /\ At(c, "resolving")
  /\ \/ \E w \in Commands :
          /\ IsWindow(w)
          /\ terminal = "herdr" => \A v \in Commands : IsWindow(v) => v = w
          /\ job' = [job EXCEPT ![c].window = w, ![c].step = "splitting"]
     \/ /\ \/ \A w \in Commands : ~ IsWindow(w)
           \/ terminal = "herdr" /\ \E v, w \in Commands : v # w /\ IsWindow(v) /\ IsWindow(w)
        /\ Goto(c, "aborted")
  /\ UNCHANGED <<terminal, panes, leaves, inbox, overlap, faults>>

(* split-window, pane split: it needs a pane of the window to split.       *)
SplitWindow(c) ==
  /\ At(c, "splitting")
  /\ IF IsWindow(job[c].window)
     THEN Place(c, job[c].window, IF terminal = "tmux" THEN "tiling" ELSE "renaming")
     ELSE /\ Goto(c, "aborted")
          /\ UNCHANGED <<terminal, panes, leaves, inbox, overlap, faults>>

(* select-layout: the seat counts once the window is tiled again.          *)
TileWindow(c) ==
  /\ At(c, "tiling")
  /\ IF IsWindow(job[c].window)
     THEN job' = [job EXCEPT ![c] = Counted(@)]
     ELSE Goto(c, "aborted")
  /\ UNCHANGED <<terminal, panes, leaves, inbox, overlap, faults>>

RenamePane(c) ==
  /\ At(c, "renaming") /\ OnScreen(Launching(c))
  /\ Goto(c, "running")
  /\ UNCHANGED <<terminal, panes, leaves, inbox, overlap, faults>>

RunInPane(c) ==
  /\ At(c, "running")
  /\ \E p \in panes :
       /\ p.id = Launching(c)
       /\ panes' = (panes \ {p}) \cup {[p EXCEPT !.hosts = "claude"]}
  /\ job' = [job EXCEPT ![c] = Counted(@)]
  /\ UNCHANGED <<terminal, leaves, inbox, overlap, faults>>

(* Faulty variant: a half-launched pane is left as it is. *)
PaneAbandoned(c) ==
  /\ job[c].step \in {"renaming", "running"}
  /\ IF OnScreen(Launching(c)) THEN Fault ELSE UNCHANGED faults
  /\ Goto(c, "aborted")
  /\ UNCHANGED <<terminal, panes, leaves, inbox, overlap>>

(* The rename or the run failed, or the pane is gone: undo the create.     *)
PaneNotCommanded(c) ==
  /\ job[c].step \in {"renaming", "running"}
  /\ IF OnScreen(Launching(c)) THEN Fault ELSE UNCHANGED faults
  /\ Goto(c, "unwinding")
  /\ UNCHANGED <<terminal, panes, leaves, inbox, overlap>>

(* weOpenedTheTab: the seat being launched is the one the tab came with.   *)
OpenedTheTab(c) == job[c].kind = "stand-up" /\ job[c].launched = {}

(* Faulty variant: whatever failed, the whole tab is closed. *)
UnwoundTab(c) == {p \in panes : p.window = job[c].window}

Unwound(c) ==
  IF OpenedTheTab(c) THEN {p \in panes : p.window = c}
                     ELSE {p \in panes : p.id = Launching(c)}

Unwind(c) ==
  /\ At(c, "unwinding")
  /\ \/ /\ Unwound(c) # {}
        /\ panes' = panes \ Unwound(c)
        /\ Goto(c, "aborted")
        /\ UNCHANGED faults
     \/ /\ IF Unwound(c) # {} THEN Fault ELSE UNCHANGED faults
        /\ job' = [job EXCEPT ![c] = Advance([@ EXCEPT !.stranded = TRUE], "aborted")]
        /\ UNCHANGED panes
  /\ UNCHANGED <<terminal, leaves, inbox, overlap>>

-----------------------------------------------------------------------------
(* retire-role. *)

(* The panes that answer to the label, of any project on this server.  No  *)
(* label is part of another: tmux is searched for a substring.             *)
Matches(label) == {p \in panes : LabelOf(p.id) = label}

findCrewPane(c) ==
  /\ At(c, "finding")
  /\ \/ \E p \in Matches(job[c].label) :
          /\ Matches(job[c].label) = {p}
          /\ job' = [job EXCEPT ![c].found = p.id, ![c].step = "closing"]
     \/ /\ \A p \in panes : Matches(job[c].label) # {p}
        /\ Goto(c, "aborted")
  /\ UNCHANGED <<terminal, panes, leaves, inbox, overlap, faults>>

(* Faulty variant: the retirement goes on when the pane would not close. *)
closePaneIfItWill(c) ==
  /\ At(c, "closing")
  /\ panes' \in {panes, {p \in panes : p.id # job[c].found}}
  /\ Goto(c, "unbinding")
  /\ UNCHANGED <<terminal, leaves, inbox, overlap, faults>>

closePane(c) ==
  /\ At(c, "closing")
  /\ panes' = {p \in panes : p.id # job[c].found}
  /\ Goto(c, IF OnScreen(job[c].found) THEN "unbinding" ELSE "aborted")
  /\ UNCHANGED <<terminal, leaves, inbox, overlap, faults>>

removeInboxSocket(c) ==
  /\ At(c, "unbinding")
  /\ inbox' = [inbox EXCEPT ![job[c].label] = None]
  /\ Goto(c, "clearing")
  /\ UNCHANGED <<terminal, panes, leaves, overlap, faults>>

(* The label's directory under every run of the project.                   *)
removePaneCwd(c) ==
  /\ At(c, "clearing")
  /\ leaves' = {id \in leaves : id \in InProject(job[c].project) => LabelOf(id) # job[c].label}
  /\ Goto(c, "done")
  /\ UNCHANGED <<terminal, panes, inbox, overlap, faults>>

-----------------------------------------------------------------------------
(* The members' own steps. *)

BeingRetired(label) ==
  \E c \in Commands : /\ job[c].label = label
                      /\ job[c].step \in {"closing", "unbinding", "clearing"}

(* claude reads its leaf and starts the crew server, which takes over a    *)
(* stale inbox file but not one a live session serves (see CrewSession).   *)
Boot(p) ==
  LET label == LabelOf(p.id)
      serves == p.id \in leaves /\ ~ Serves(inbox[label]) IN
  /\ p.hosts = "claude"
  /\ panes' = (panes \ {p}) \cup {[p EXCEPT !.hosts = IF serves THEN "session" ELSE "inert"]}
  /\ inbox' = IF serves THEN [inbox EXCEPT ![label] = p.id] ELSE inbox
  /\ overlap' = IF serves /\ BeingRetired(label) THEN overlap \cup {label} ELSE overlap
  /\ UNCHANGED <<terminal, leaves, job, faults>>

(* claude ends: a tmux pane closes with it, a herdr pane keeps its shell.  *)
ClaudeEnds(p) ==
  /\ p.hosts # "shell" /\ Fault
  /\ panes' = (panes \ {p}) \cup
       IF terminal = "tmux" THEN {} ELSE {[p EXCEPT !.hosts = "shell"]}
  /\ UNCHANGED <<terminal, leaves, inbox, job, overlap>>

Command(c) ==
  \/ runStandUp(c) \/ spawnRole(c) \/ retireRole(c) \/ runStandDown(c)
  \/ reapCrewProjectScopeFor(c) \/ writeCrewMcpJson(c) \/ FilesFail(c)
  \/ OpenWindow(c) \/ resolveCrewWindow(c) \/ SplitWindow(c) \/ TileWindow(c)
  \/ RenamePane(c) \/ RunInPane(c) \/ PaneNotCommanded(c) \/ Unwind(c)
  \/ findCrewPane(c) \/ closePane(c) \/ removeInboxSocket(c) \/ removePaneCwd(c)
  \/ CallFails(c) \/ LauncherKilled(c)

Next ==
  \/ \E c \in Commands : Command(c)
  \/ \E p \in panes : Boot(p)
  \/ \E p \in panes : ClaudeEnds(p)

Spec == Init /\ [][Next]_vars

-----------------------------------------------------------------------------
(* Properties. *)

(* Every pane of a launch that ended by itself is one it counted as up, or *)
(* it reported that it had to leave one behind.  herdr creates a pane and  *)
(* commands it in two calls, and unwinds the first when the second fails.  *)
PanesAreAccountedFor ==
  terminal = "herdr" =>
    \A p \in panes :
      LET c == p.id[1] IN
      job[c].step \in {"done", "aborted"} =>
        p.id[2] \in job[c].launched \/ job[c].stranded

(* A command takes down no pane but its own, the members that joined a tab *)
(* it had only half opened, and the one member it was asked to retire.     *)
CommandsCloseOnlyTheirOwn ==
  [][\A p \in panes :
       (\A q \in panes' : q.id # p.id) =>
         \/ job' = job \* its claude ended
         \/ \E c \in Commands :
              /\ job'[c] # job[c]
              /\ \/ p.id[1] = c
                 \/ p.window = c /\ job[c].launched = {}
                 \/ LabelOf(p.id) = job[c].label]_vars

(* Unless it came up while a retirement of its label was under way, a      *)
(* member that serves is the one found at its inbox address.               *)
ServingMemberKeepsInbox ==
  \A p \in panes :
    p.hosts = "session" /\ LabelOf(p.id) \notin overlap => inbox[LabelOf(p.id)] = p.id

=============================================================================
