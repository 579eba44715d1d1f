---------------------------- MODULE CrewSession ----------------------------
(***************************************************************************)
(* Crew sessions against one tracker: boot (claim the cardinality lease,   *)
(* announce, bind the inbox), the heartbeat fiber, claims on issues,       *)
(* crashes, suspensions and a tracker that may die and come back empty.    *)
(* crew/session.ts, crew/channel-server.ts, crew/heartbeat.ts,             *)
(* crew/tracker.ts over tracker/registry.ts.                               *)
(*                                                                         *)
(* The registry is RegistryCore's, with the clock's origin moving: now is  *)
(* always 0 and each tick ages every lease by one, down to Oldest, at      *)
(* which it is expired for good.  Only differences of times are ever       *)
(* compared, so nothing is lost but `since`, which stays 0.                *)
(***************************************************************************)
EXTENDS Integers, FiniteSets

CONSTANTS
  BridgeSessions,     \* processes started for one bridge role
  EngineSessions,     \* processes started for an engine role
  Issues,
  TTL,                \* DEFAULT_TTL_SECONDS and HEARTBEAT_TTL_SECONDS, in ticks
  INTERVAL,           \* HEARTBEAT_INTERVAL_SECONDS, in ticks
  Slack,              \* how many ticks late an awake session's beat may be
  MaxTrackerCrashes,
  None

Sessions == BridgeSessions \cup EngineSessions

ASSUME TimingAssumption ==
  /\ TTL \in Nat /\ INTERVAL \in Nat \ {0} /\ Slack \in Nat
  /\ INTERVAL + Slack <= TTL
ASSUME FaultAssumption == MaxTrackerCrashes \in Nat
ASSUME KindAssumption == BridgeSessions \cap EngineSessions = {}

RoleOf(s) == IF s \in BridgeSessions THEN "bridge" ELSE "engine"

(* A bridge's address is its role's; an engine's carries its instance. *)
inboxAddressFor(s) == IF s \in BridgeSessions THEN <<"inbox", RoleOf(s)>>
                                              ELSE <<"inbox", RoleOf(s), s>>
cardinalityLeaseKey(s) == IF s \in BridgeSessions THEN <<"lease", RoleOf(s)>>
                                                  ELSE <<"lease", RoleOf(s), inboxAddressFor(s)>>

Addresses == {inboxAddressFor(s) : s \in Sessions}
LeaseKeys == {cardinalityLeaseKey(s) : s \in Sessions}

INSTANCE RegistryCore WITH
  Peers <- Addresses, Roles <- {"bridge", "engine"}, Resources <- LeaseKeys \cup Issues,
  TTLs <- {TTL}, DEFAULT_TTL <- TTL

VARIABLES
  trackerUp,       \* is a tracker serving the rendezvous?
  trackerCrashes,
  leases, claims,  \* its registry
  pc,              \* session -> where its build is, serving, down, or refused
  awake,           \* session -> not suspended
  slept,           \* session -> was suspended since it was launched
  due,             \* session -> ticks to its next beat, None without a heartbeat fiber
  lanes            \* session -> the issues it was told it holds

vars == <<trackerUp, trackerCrashes, leases, claims, pc, awake, slept, due, lanes>>
tracker == <<trackerUp, trackerCrashes, leases, claims>>

now == 0
Oldest == -(TTL + 1)

Leases == [role : {"bridge", "engine"}, ttl : {TTL}, lastSeen : Oldest..0]
Claims == [holder : Addresses, claimantRole : {"bridge", "engine"}, claimedAt : {0}]

ASSUME AbsentAssumption == None \notin Int /\ None \notin Leases /\ None \notin Claims /\ None \notin Addresses

Down(s) == pc[s] \in {"down", "refused"}   \* refused: RoleUniquenessError
Runs(s) == ~ Down(s) /\ awake[s]
ServedAt(a) == \E s \in Sessions : inboxAddressFor(s) = a /\ pc[s] = "serving"
AnyoneAt(a) == \E s \in Sessions : inboxAddressFor(s) = a /\ ~ Down(s)
Present(a) == holderHasLivePresence(leases, a, now)
LiveHolder(res) == claimHolder(leases, claims, res, now)

TypeOK ==
  /\ trackerUp \in BOOLEAN /\ trackerCrashes \in 0..MaxTrackerCrashes
  /\ leases \in [Addresses -> Leases \cup {None}]
  /\ claims \in [LeaseKeys \cup Issues -> Claims \cup {None}]
  /\ pc \in [Sessions -> {"down", "refused", "claiming", "announcing", "binding", "serving"}]
  /\ awake \in [Sessions -> BOOLEAN] /\ slept \in [Sessions -> BOOLEAN]
  /\ due \in [Sessions -> -Slack..INTERVAL \cup {None}]
  /\ lanes \in [Sessions -> SUBSET Issues]

Init ==
  /\ trackerUp = TRUE /\ trackerCrashes = 0
  /\ leases = emptyLeases /\ claims = emptyClaims
  /\ pc = [s \in Sessions |-> "down"]
  /\ awake = [s \in Sessions |-> TRUE] /\ slept = [s \in Sessions |-> FALSE]
  /\ due = [s \in Sessions |-> None]
  /\ lanes = [s \in Sessions |-> {}]

-----------------------------------------------------------------------------
(* The session's process ends, on purpose or not: its scope's finalizers   *)
(* send nothing to the tracker (the announce's release is a no-op and the  *)
(* cardinality lease is a plain claim), and its inbox stops answering.     *)
Ends(s, how) ==
  /\ pc' = [pc EXCEPT ![s] = how]
  /\ awake' = [awake EXCEPT ![s] = TRUE]
  /\ slept' = [slept EXCEPT ![s] = FALSE]
  /\ due' = [due EXCEPT ![s] = None]
  /\ lanes' = [lanes EXCEPT ![s] = {}]
  /\ UNCHANGED tracker

Proceeds(s, to) ==
  /\ pc' = [pc EXCEPT ![s] = to]
  /\ UNCHANGED <<awake, slept, due, lanes>>

(* crewSessionLayer: the heartbeat fiber beats at once, alongside the build. *)
Launch(s) ==
  /\ Down(s)
  /\ pc' = [pc EXCEPT ![s] = "claiming"]
  /\ due' = [due EXCEPT ![s] = 0]
  /\ UNCHANGED <<tracker, awake, slept, lanes>>

(* makeCrewChannel, first call: the claimant is the session's own address. *)
ClaimLease(s) ==
  LET key == cardinalityLeaseKey(s)
      self == inboxAddressFor(s)
  IN
  /\ Runs(s) /\ pc[s] = "claiming" /\ trackerUp
  /\ IF collides(leases, claims, key, self, now)
     THEN Ends(s, "refused")
     ELSE /\ claims' = claimResource(leases, claims, key, self, RoleOf(s), now)
          /\ Proceeds(s, "announcing")
          /\ UNCHANGED <<trackerUp, trackerCrashes, leases>>

(* makeCrewChannel, second call: makePeer announces. *)
Announce(s) ==
  /\ Runs(s) /\ pc[s] = "announcing" /\ trackerUp
  /\ leases' = announce(leases, inboxAddressFor(s), RoleOf(s), TTL, now)
  /\ Proceeds(s, "binding")
  /\ UNCHANGED <<trackerUp, trackerCrashes, claims>>

(* inboxServerSocketLayer, its reclaim and bind taken as one step here     *)
(* (SocketRendezvous takes them apart): a live listener is left alone and  *)
(* fails the whole session.                                                *)
BindInbox(s) ==
  /\ Runs(s) /\ pc[s] = "binding"
  /\ IF ServedAt(inboxAddressFor(s))
     THEN Ends(s, "down")
     ELSE Proceeds(s, "serving") /\ UNCHANGED tracker

(* A registry call with no tracker dies (orDie), and the build with it. *)
BuildDies(s) ==
  /\ Runs(s) /\ pc[s] \in {"claiming", "announcing"} /\ ~ trackerUp
  /\ Ends(s, "down")

(* Faulty variant: the session takes a collision for a grant. *)
ClaimIssueRegardless(s, i) ==
  /\ Runs(s) /\ pc[s] = "serving" /\ trackerUp
  /\ claims' = claimResource(leases, claims, i, inboxAddressFor(s), RoleOf(s), now)
  /\ lanes' = [lanes EXCEPT ![s] = @ \cup {i}]
  /\ UNCHANGED <<trackerUp, trackerCrashes, leases, pc, awake, slept, due>>

(* The channel_claim tool: granted or collision, as a value. *)
ClaimIssue(s, i) ==
  LET self == inboxAddressFor(s) IN
  /\ Runs(s) /\ pc[s] = "serving" /\ trackerUp
  /\ claims' = claimResource(leases, claims, i, self, RoleOf(s), now)
  /\ lanes' = IF collides(leases, claims, i, self, now)
              THEN lanes ELSE [lanes EXCEPT ![s] = @ \cup {i}]
  /\ UNCHANGED <<trackerUp, trackerCrashes, leases, pc, awake, slept, due>>

BeatDue(s) == due[s] # None /\ due[s] <= 0

(* crewHeartbeatLayer: beat, then wait INTERVAL from the reply. *)
Heartbeat(s) ==
  /\ Runs(s) /\ BeatDue(s) /\ trackerUp
  /\ leases' = heartbeat(leases, inboxAddressFor(s), TTL, now)
  /\ due' = [due EXCEPT ![s] = INTERVAL]
  /\ UNCHANGED <<trackerUp, trackerCrashes, claims, pc, awake, slept, lanes>>

(* A beat that finds no tracker dies, and nothing forks the fiber again. *)
HeartbeatDies(s) ==
  /\ Runs(s) /\ BeatDue(s) /\ ~ trackerUp
  /\ due' = [due EXCEPT ![s] = None]
  /\ UNCHANGED <<tracker, pc, awake, slept, lanes>>

-----------------------------------------------------------------------------
(* The environment. *)

Stop(s) == ~ Down(s) /\ Ends(s, "down")

Suspend(s) ==
  /\ Runs(s)
  /\ awake' = [awake EXCEPT ![s] = FALSE]
  /\ slept' = [slept EXCEPT ![s] = TRUE]
  /\ UNCHANGED <<tracker, pc, due, lanes>>

Wake(s) ==
  /\ ~ awake[s]
  /\ awake' = [awake EXCEPT ![s] = TRUE]
  /\ UNCHANGED <<tracker, pc, slept, due, lanes>>

(* The tracker's state lives in its process. *)
TrackerCrash ==
  /\ trackerUp /\ trackerCrashes < MaxTrackerCrashes
  /\ trackerUp' = FALSE
  /\ trackerCrashes' = trackerCrashes + 1
  /\ leases' = emptyLeases /\ claims' = emptyClaims
  /\ UNCHANGED <<pc, awake, slept, due, lanes>>

(* A stand-up or a booting session hosts a new one on the same path. *)
TrackerStarts ==
  /\ ~ trackerUp
  /\ trackerUp' = TRUE
  /\ UNCHANGED <<trackerCrashes, leases, claims, pc, awake, slept, due, lanes>>

(* Time passes unless an awake session's beat would be later than Slack.   *)
Tick ==
  /\ \A s \in Sessions : Runs(s) /\ due[s] # None => due[s] > -Slack
  /\ leases' = [a \in Addresses |->
        IF leases[a] = None \/ leases[a].lastSeen = Oldest THEN leases[a]
        ELSE [leases[a] EXCEPT !.lastSeen = @ - 1]]
  /\ due' = [s \in Sessions |-> IF due[s] = None \/ due[s] = -Slack THEN due[s] ELSE due[s] - 1]
  /\ UNCHANGED <<trackerUp, trackerCrashes, claims, pc, awake, slept, lanes>>

Session(s) ==
  \/ ClaimLease(s) \/ Announce(s) \/ BindInbox(s) \/ BuildDies(s)
  \/ Heartbeat(s) \/ HeartbeatDies(s)

Next ==
  \/ \E s \in Sessions :
       \/ Launch(s) \/ Session(s) \/ Stop(s) \/ Suspend(s) \/ Wake(s)
       \/ \E i \in Issues : ClaimIssue(s, i)
  \/ TrackerCrash \/ TrackerStarts \/ Tick

Spec == Init /\ [][Next]_vars

(* An awake session's fibers run, a tracker that died is replaced, and time *)
(* passes: strongly fair, since a session that is suspended and woken again *)
(* and again puts its beat off but does not stop the clock.                 *)
Fairness ==
  /\ SF_vars(Tick)
  /\ \A s \in Sessions : WF_vars(Session(s))
  /\ WF_vars(TrackerStarts)

-----------------------------------------------------------------------------
(* A session that was never suspended stays listed while it serves: beats  *)
(* at INTERVAL, each up to Slack late, keep every lease inside its TTL,    *)
(* whatever a twin at the same address does, as long as their tracker      *)
(* lives: its registry dies with it.                                       *)
AwakeSessionNeverAgesOut ==
  trackerCrashes = 0 =>
    \A s \in Sessions : pc[s] = "serving" /\ ~ slept[s] => Present(inboxAddressFor(s))

(* An issue a session was told it holds is its own in the registry and is  *)
(* nobody else's, a twin's at the same address included: no two sessions   *)
(* that stayed awake work one issue while their tracker lives.             *)
LaneIsHeld ==
  trackerCrashes = 0 => \A s \in Sessions : ~ slept[s] =>
    \A i \in lanes[s] :
      /\ LiveHolder(i) = inboxAddressFor(s)
      /\ \A t \in Sessions \ {s} : slept[t] \/ i \notin lanes[t]

(* A dead peer is forgotten: once no process at an address is left, the    *)
(* address drops out of every lookup, and with it its claims count for     *)
(* nothing, unless a session is started there again.                       *)
DeadPeerIsForgotten ==
  \A a \in Addresses : []<>(AnyoneAt(a) \/ ~ Present(a))

(* While its tracker lives, a session that serves and stays awake does not *)
(* stay unlisted: after a suspension its next beat brings it back.         *)
ServingIsDiscoverable ==
  \A s \in Sessions :
    []<>(trackerCrashes > 0 \/ Present(inboxAddressFor(s)) \/ pc[s] # "serving" \/ ~ awake[s])
=============================================================================
