---------------------------- MODULE LaunchConfig -----------------------------
(***************************************************************************)
(* The crew's operator configuration, and what the launcher makes of it:   *)
(* check-config reads the file, stand-up and spawn-role turn it into the   *)
(* command lines of sessions.  The operator edits the file and upgrades    *)
(* the CLI at any time.  What happens to the panes is CrewLaunch's.        *)
(***************************************************************************)
EXTENDS Naturals, FiniteSets

CONSTANTS
  Configs,      \* contents of the file
  Versions,     \* of the installed CLI
  CrewServer,   \* the ref of the crew's own server
  ServerRefs,   \* the refs that name servers; the others name plugins
  MaxCommands   \* bound on edits, upgrades, commands and spawns

\* The crew's own server is a server, and a file has what its schema asks for.
ASSUME CrewServerAssumption == CrewServer \in ServerRefs
ASSUME ConfigsAssumption ==
  \A file \in Configs : file.count \in Nat /\ file.mode \in {"development", "allowlist"}

VARIABLES
  config,     \* the file: [readable, json, cliVersion, terminal, count, tiers, mode, servers, allowed]
  installed,  \* the CLI's version
  crew,       \* the sessions whose panes were opened, each with the file it was launched under
  checked,    \* what check-config said of the present file
  launch,     \* the last launch: [step, answer, by, under, backend, asked, todo, before, upgraded]
  agent,      \* the agent a session of the crew just spawned: [by, requested, pin, model]
  commands

configVars == <<config, installed, crew, checked, launch, agent, commands>>

(***************************************************************************)
(* Roles.                                                                   *)
(***************************************************************************)
CREW_ROLES == {"chief-of-staff", "cartographer", "intake-desk", "engineering-manager"}
KindOf(role) == IF role = "engineering-manager" THEN "engine" ELSE "bridge"
DriveOf(role) == IF role = "cartographer" THEN "human-in-the-loop" ELSE "self-driving"

\* Whom a stand-up starts, of the command `run`: [role, instance].
DeriveSessionSet(engineCount, run) ==
  {[role |-> role, instance |-> <<run, 0>>] : role \in {r \in CREW_ROLES : DriveOf(r) = "self-driving" /\ KindOf(r) = "bridge"}}
    \cup {[role |-> "engineering-manager", instance |-> <<run, i>>] : i \in 1..engineCount}

DeriveOneSession(role, run) == [role |-> role, instance |-> <<run, IF KindOf(role) = "engine" THEN 1 ELSE 0>>]

\* The roster's order, in which they are started.
Seat(role) == CASE role = "chief-of-staff" -> 1 [] role = "cartographer" -> 2 [] role = "intake-desk" -> 3 [] OTHER -> 4
Earlier(s, t) == Seat(s.role) < Seat(t.role) \/ (s.role = t.role /\ s.instance[2] < t.instance[2])

(***************************************************************************)
(* The file.                                                                *)
(***************************************************************************)
DecodesChannels(file) ==
  /\ file.servers # {}
  /\ file.mode = "allowlist" => file.servers \cap ServerRefs = {}

DecodeLaunchConfig(file) == file.count >= 1 /\ DecodesChannels(file)

ReadLaunchConfig(file) == file.readable /\ file.json /\ DecodeLaunchConfig(file)

TerminalBackend(file, flag) ==
  IF flag # "none" THEN flag ELSE IF file.terminal # "none" THEN file.terminal ELSE "tmux"

(***************************************************************************)
(* A session's command line.                                                *)
(***************************************************************************)
ChannelFlag(mode) == IF mode = "development" THEN "--dangerously-load-development-channels" ELSE "--channels"

\* Faulty variant: the refs are taken as they come.
BindsAnything(file, binExists) == IF ~binExists THEN "CrewSessionBinUnresolvableError" ELSE "bound"

Binds(file, binExists) ==
  IF ~binExists THEN "CrewSessionBinUnresolvableError"
  ELSE IF CrewServer \notin file.servers THEN "CrewServerNotRegisteredError"
  ELSE IF file.mode = "allowlist" /\ ~(file.servers \ ServerRefs \subseteq file.allowed)
       THEN "ChannelPluginNotAllowedError"
  ELSE "bound"

\* The version is the one that is there when the pane is opened.
BuildSessionBind(session) ==
  LET file == launch.under
  IN  [role |-> session.role, instance |-> session.instance, backend |-> launch.backend, under |-> file,
       version |-> installed, upgraded |-> launch.upgraded,
       channelArg |-> <<ChannelFlag(file.mode), file.servers>>,
       model      |-> file.tiers[session.role],
       bootPrompt |-> DriveOf(session.role) = "self-driving"]

(***************************************************************************)
(* The model of an agent a session spawns: what the Task tool was asked    *)
(* for, or the session's own.  The guard knows the request and the pin.     *)
(***************************************************************************)
ALLOWLIST == {"claude-opus-4-8", "claude-opus-4-8[1m]"}
MODEL_ALIASES == [opus |-> "claude-opus-4-8"]
DEFAULT_PIN == "claude-opus-4-8[1m]"

CanonicalModel(model) == IF model \in DOMAIN MODEL_ALIASES THEN MODEL_ALIASES[model] ELSE model
IsOnAllowlist(model) == model # "none" /\ CanonicalModel(model) \in ALLOWLIST

\* Faulty variant: a pin that is allowed allows whatever is asked for.
PinAllows(requested, pin) ==
  IF IsOnAllowlist(requested) THEN "allow"
  ELSE IF IsOnAllowlist(IF pin = "none" THEN DEFAULT_PIN ELSE pin) THEN "allow-inherit" ELSE "deny"

\* A pin that is not allowed is a mistake, one that is absent is the default.
DecideSpawn(requested, pin) ==
  IF IsOnAllowlist(requested) THEN "allow"
  ELSE IF requested = "none" /\ IsOnAllowlist(IF pin = "none" THEN DEFAULT_PIN ELSE pin) THEN "allow-inherit" ELSE "deny"

(***************************************************************************)
(* The operator.                                                            *)
(***************************************************************************)
NoAgent == [by |-> {}, requested |-> "none", pin |-> "none", model |-> "none"]

ConfigInit ==
  /\ config \in Configs /\ installed \in Versions /\ crew = {} /\ checked = "none" /\ agent = NoAgent
  /\ launch = [step |-> "over", answer |-> "none", by |-> "none", under |-> config, backend |-> "tmux",
               asked |-> {}, todo |-> {}, before |-> {}, upgraded |-> FALSE]
  /\ commands = 0

Moves == commands < MaxCommands /\ commands' = commands + 1
Counts == Moves /\ agent' = NoAgent

Edit ==
  /\ Counts
  /\ config' \in Configs \ {config} /\ checked' = "none"
  /\ UNCHANGED <<installed, crew, launch>>

Upgrade ==
  /\ Counts
  /\ installed' \in Versions \ {installed}
  /\ launch' = [launch EXCEPT !.upgraded = TRUE]
  /\ UNCHANGED <<config, crew, checked>>

\* It looks where it is run: anywhere but at the project's root there is no file.
CheckConfig ==
  /\ Counts
  /\ \E atRoot \in BOOLEAN :
       checked' = IF atRoot /\ ReadLaunchConfig(config) THEN "valid" ELSE "invalid"
  /\ UNCHANGED <<config, installed, crew, launch>>

(***************************************************************************)
(* A launch: calls in their order, any of which may fail, and the file read *)
(* once.  Launches that overlap are CrewLaunch's, and so are the files of   *)
(* their launch directories.                                                *)
(***************************************************************************)
LaunchOf(by, asked, flag) ==
  /\ Counts /\ launch.step = "over"
  /\ launch' = [step |-> IF ReadLaunchConfig(config) THEN "asserting" ELSE "over",
                answer |-> IF ReadLaunchConfig(config) THEN "none" ELSE "LaunchConfigError",
                by |-> by, under |-> config, backend |-> TerminalBackend(config, flag),
                asked |-> asked, todo |-> asked, before |-> crew, upgraded |-> FALSE]
  /\ UNCHANGED <<config, installed, crew, checked>>

StandUp(flag) == LaunchOf("stand-up", DeriveSessionSet(config.count, commands), flag)
SpawnRole(role, flag) == LaunchOf("spawn-role", {DeriveOneSession(role, commands)}, flag)

Goes(step) == launch' = [launch EXCEPT !.step = step]
LaunchEnds(answer) == launch' = [launch EXCEPT !.step = "over", !.answer = answer]
LaunchStep == agent' = NoAgent /\ UNCHANGED <<config, installed, checked, commands>>
Others     == LaunchStep /\ UNCHANGED crew

\* No pin, no check; a pin is not met by another version, nor by one that cannot be read.
AssertPinnedCliVersion ==
  /\ launch.step = "asserting" /\ Others
  /\ \/ /\ launch.under.cliVersion \in {"none", installed}
        /\ launch' = [launch EXCEPT !.step = "tracking", !.upgraded = FALSE]
     \/ launch.under.cliVersion # "none" /\ LaunchEnds("CliVersionAssertError")

Call(step, next, errors) ==
  /\ launch.step = step /\ Others
  /\ Goes(next) \/ \E error \in errors : LaunchEnds(error)

EnsureTracker == Call("tracking", IF launch.by = "stand-up" THEN "reaping" ELSE "planning",
                      {"TrackerNotServingError", "RendezvousResolutionError"})
Reap          == Call("reaping", "planning", {"ProjectScopeWriteError"})
Register      == Call("registering", "targeting", {"ProjectScopeWriteError"})
ResolveTarget == Call("targeting", IF launch.by = "stand-up" THEN "launching" ELSE "finding", {"TmuxSessionEnsureError"})

\* Every session's command line and directory, before any pane.
BuildLaunchPlans ==
  /\ launch.step = "planning" /\ Others
  /\ \E binExists \in BOOLEAN :
       LET bind == Binds(launch.under, binExists)
       IN  \/ bind # "bound" /\ LaunchEnds(bind)
           \/ bind = "bound" /\ (Goes("registering") \/ LaunchEnds("ProjectScopeWriteError"))

\* A new member's window is looked for when its directory is there already.
ResolveCrewWindow ==
  /\ launch.step = "finding" /\ Others
  /\ \/ (\E m \in crew : m.backend = launch.backend) /\ Goes("launching")
     \/ LaunchEnds("CrewWindowNotRunningError")

\* The next pane: it comes up, or a call for it fails and may have opened it all the same.
LaunchNext ==
  /\ launch.step = "launching" /\ LaunchStep
  /\ \E s \in launch.todo :
       /\ \A t \in launch.todo : ~Earlier(t, s)
       /\ \/ /\ crew' = crew \cup {BuildSessionBind(s)}
             /\ launch' = [launch EXCEPT !.todo = @ \ {s},
                                         !.step = IF launch.todo = {s} THEN "over" ELSE @,
                                         !.answer = IF launch.todo = {s} THEN "launched" ELSE @]
          \/ LaunchEnds("StandUpLaunchError") /\ crew' \in {crew, crew \cup {BuildSessionBind(s)}}

LauncherDies == launch.step # "over" /\ Goes("over") /\ Others

Launches ==
  \/ AssertPinnedCliVersion \/ EnsureTracker \/ Reap \/ BuildLaunchPlans \/ Register
  \/ ResolveTarget \/ ResolveCrewWindow \/ LaunchNext \/ LauncherDies

\* The hook reads the call and its own environment; an agent that inherits runs on its session's model.
SpawnAgent(m, requested, pin) ==
  /\ Moves
  /\ agent' = CASE DecideSpawn(requested, pin) = "deny"  -> NoAgent
                [] DecideSpawn(requested, pin) = "allow" ->
                     [by |-> {m}, requested |-> requested, pin |-> pin, model |-> CanonicalModel(requested)]
                [] OTHER -> [by |-> {m}, requested |-> requested, pin |-> pin,
                             model |-> IF requested = "none" THEN CanonicalModel(m.model) ELSE requested]
  /\ UNCHANGED <<config, installed, crew, checked, launch>>

Flags == {"none", "tmux", "herdr"}
Requests == {"none", "opus", "fable"}

ConfigNext ==
  \/ Edit \/ Upgrade \/ CheckConfig \/ Launches
  \/ \E flag \in Flags : StandUp(flag) \/ \E role \in CREW_ROLES : SpawnRole(role, flag)
  \/ \E m \in crew, requested \in Requests, pin \in Requests : SpawnAgent(m, requested, pin)

ConfigSpec == ConfigInit /\ [][ConfigNext]_configVars

(***************************************************************************)
(* Properties.                                                              *)
(***************************************************************************)
SessionOf(m) == [role |-> m.role, instance |-> m.instance]
Fresh   == crew \ launch.before
Started == {SessionOf(m) : m \in Fresh}

\* Every member listens to the crew's own server, by a flag that loads it, on the version its file
\* pins unless the CLI was upgraded after the launch had compared it; its crew's first role came up
\* before it.  At any moment of a launch, and however it ends, the panes it opened are an opening
\* stretch of the roster, each session once and all under the one file it read; a launch that fails
\* in any call before the first pane opened none; one that says it launched opened every
\* self-driving bridge and the engines asked for, or one member beside a crew.  A file that
\* check-config calls valid is refused for something other than itself, and an allowlist always is
\* (bind.ts:274-313, config.ts:160-169, orchestrate.ts:543-625, single-role.ts:230-275).
LaunchedAsConfigured ==
  /\ \A m \in crew :
       /\ CrewServer \in m.channelArg[2] /\ m.channelArg[1] = ChannelFlag("development")
       /\ m.under.cliVersion \in {"none", m.version} \/ m.upgraded
       /\ \E n \in crew : n.backend = m.backend /\ n.instance[1] <= m.instance[1] /\ n.role = "chief-of-staff"
  /\ \A s \in Started, t \in launch.asked : Earlier(t, s) => t \in Started
  /\ \A m \in Fresh : m.under = launch.under /\ \A n \in Fresh : SessionOf(m) = SessionOf(n) => m = n
  /\ launch.answer \notin {"none", "launched", "StandUpLaunchError"} => Fresh = {}
  /\ launch.answer = "launched" =>
       IF launch.by = "stand-up" THEN Cardinality(Fresh) = 2 + launch.under.count /\ \A m \in Fresh : m.bootPrompt
                                 ELSE Cardinality(Fresh) = 1 /\ launch.before # {}
  /\ checked = "valid" =>
       /\ launch.under = config => launch.answer # "LaunchConfigError"
       /\ config.mode = "allowlist" => \A m \in crew : m.under # config

\* A stand-up that aborts leaves no member that it had started: "stand-up aborted (no partial crew)"
\* is what it prints (bin.ts:193), and its doc promises it (orchestrate.ts:526-532, 614-616).  A pane
\* that fails after the first leaves the others up.
NoPartialCrew ==
  launch.by = "stand-up" /\ launch.answer \notin {"none", "launched"} => Started \subseteq launch.todo

\* An agent off the list was asked for by no name, under a pin that allows it, by a session its own
\* configuration put on that model: the guard lets it inherit what it does not look at.
OffListIsInherited ==
  \A m \in agent.by :
    agent.model \notin ALLOWLIST =>
      /\ agent.requested = "none" /\ (agent.pin # "none" => IsOnAllowlist(agent.pin))
      /\ agent.model = m.under.tiers[m.role]
=============================================================================
