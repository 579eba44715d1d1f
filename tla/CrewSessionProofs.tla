------------------------- MODULE CrewSessionProofs -------------------------
(***************************************************************************)
(* Theorems about crew sessions, for any number of bridge and engine       *)
(* processes, any issues and any timing with INTERVAL + Slack <= TTL.      *)
(***************************************************************************)
EXTENDS CrewSession, TLAPS

(* Why awake sessions stay listed: a lease is never older than the time its *)
(* session has counted off since its beat.                                  *)
BeatsKeepUp ==
  trackerCrashes = 0 =>
    \A s \in Sessions : ~ slept[s] /\ pc[s] \in {"binding", "serving"} =>
      /\ leases[inboxAddressFor(s)] # None
      /\ leases[inboxAddressFor(s)].lastSeen >= due[s] - INTERVAL

(* Why beats go on: the fiber dies only with the tracker, and who was never *)
(* suspended is awake.                                                      *)
FibersLive ==
  /\ trackerCrashes = 0 => trackerUp
  /\ \A s \in Sessions : ~ awake[s] => slept[s]
  /\ trackerCrashes = 0 => \A s \in Sessions : ~ Down(s) => due[s] # None

(* Why twins share no lane: one of them serves, and only who serves has one. *)
OneServes ==
  /\ \A s, t \in Sessions :
       inboxAddressFor(s) = inboxAddressFor(t) /\ pc[s] = "serving" /\ pc[t] = "serving" => s = t
  /\ \A s \in Sessions : lanes[s] # {} => pc[s] = "serving"

LanesAreWritten ==
  trackerCrashes = 0 => \A s \in Sessions : ~ slept[s] => \A i \in lanes[s] :
    claims[i] # None /\ claims[i].holder = inboxAddressFor(s)

SessionInv == TypeOK /\ FibersLive /\ BeatsKeepUp /\ OneServes /\ LanesAreWritten

-----------------------------------------------------------------------------
LEMMA Constants ==
  /\ TTL \in Nat /\ INTERVAL \in Nat \ {0} /\ Slack \in Nat /\ INTERVAL + Slack <= TTL
  /\ Oldest \in Int /\ Oldest < 0 /\ 0 \in Oldest..0
  /\ MaxTrackerCrashes \in Nat
  /\ None \notin Int /\ None \notin Leases /\ None \notin Claims /\ None \notin Addresses
BY TimingAssumption, FaultAssumption, AbsentAssumption DEF Oldest

LEMMA Places ==
  ASSUME NEW s \in Sessions
  PROVE  /\ inboxAddressFor(s) \in Addresses /\ cardinalityLeaseKey(s) \in LeaseKeys
         /\ RoleOf(s) \in {"bridge", "engine"}
BY DEF Addresses, LeaseKeys, RoleOf

(* What the registry's operations return is well formed.                   *)
LEMMA AnnounceTyped ==
  ASSUME leases \in [Addresses -> Leases \cup {None}],
         NEW a \in Addresses, NEW role \in {"bridge", "engine"}
  PROVE  announce(leases, a, role, TTL, now) \in [Addresses -> Leases \cup {None}]
<1>1. [role |-> role, ttl |-> TTL, lastSeen |-> now] \in Leases
  BY Constants DEF Leases, now
<1>2. QED
  BY <1>1 DEF announce

LEMMA BeatTyped ==
  ASSUME leases \in [Addresses -> Leases \cup {None}], NEW a \in Addresses
  PROVE  heartbeat(leases, a, TTL, now) \in [Addresses -> Leases \cup {None}]
<1>1. CASE leases[a] = None
  BY <1>1 DEF heartbeat
<1>2. CASE leases[a] # None
  <2>1. leases[a] \in Leases
    BY <1>2
  <2>2. [[leases[a] EXCEPT !.ttl = TTL] EXCEPT !.lastSeen = now] \in Leases
    BY <2>1, Constants DEF Leases, now
  <2>3. heartbeat(leases, a, TTL, now)
          = [leases EXCEPT ![a] = [[leases[a] EXCEPT !.ttl = TTL] EXCEPT !.lastSeen = now]]
    BY <1>2 DEF heartbeat
  <2>4. QED
    BY <2>2, <2>3
<1>3. QED
  BY <1>1, <1>2

LEMMA ClaimTyped ==
  ASSUME claims \in [LeaseKeys \cup Issues -> Claims \cup {None}],
         NEW res \in LeaseKeys \cup Issues, NEW a \in Addresses, NEW role \in {"bridge", "engine"}
  PROVE  claimResource(leases, claims, res, a, role, now) \in [LeaseKeys \cup Issues -> Claims \cup {None}]
<1>1. claimedAtOnGrant(claims, res, a, now) = 0
  <2>1. claims[res] # None => claims[res].claimedAt = 0
    BY DEF Claims
  <2>2. QED
    BY <2>1 DEF claimedAtOnGrant, now
<1>2. [holder |-> a, claimantRole |-> role, claimedAt |-> claimedAtOnGrant(claims, res, a, now)] \in Claims
  BY <1>1 DEF Claims
<1>3. QED
  BY <1>2 DEF claimResource

(* A tick ages a lease by one, but one that is past its last instant by one. *)
Aged(lease) ==
  IF lease = None \/ lease.lastSeen = Oldest THEN lease ELSE [lease EXCEPT !.lastSeen = @ - 1]

LEMMA AgeTyped ==
  ASSUME NEW lease \in Leases \cup {None}
  PROVE  Aged(lease) \in Leases \cup {None}
BY Constants DEF Aged, Leases

-----------------------------------------------------------------------------
(* A step keeps the registry, the sessions and their counters well formed. *)
LEMMA TypeStep ==
  ASSUME TypeOK, [Next]_vars
  PROVE  TypeOK'
<1> USE Constants DEF TypeOK
<1>1. ASSUME NEW s \in Sessions, NEW how \in {"down", "refused"}, Ends(s, how)
      PROVE  TypeOK'
  BY <1>1 DEF Ends, tracker
<1>2. ASSUME NEW s \in Sessions, Launch(s)
      PROVE  TypeOK'
  BY <1>2 DEF Launch, tracker
<1>3. ASSUME NEW s \in Sessions, ClaimLease(s)
      PROVE  TypeOK'
  <2> DEFINE key == cardinalityLeaseKey(s)
  <2> DEFINE self == inboxAddressFor(s)
  <2>1. CASE collides(leases, claims, key, self, now)
    BY <1>1, <1>3, <2>1 DEF ClaimLease
  <2>2. CASE ~ collides(leases, claims, key, self, now)
    <3>1. claims' = claimResource(leases, claims, key, self, RoleOf(s), now)
          /\ Proceeds(s, "announcing") /\ UNCHANGED <<trackerUp, trackerCrashes, leases>>
      BY <1>3, <2>2 DEF ClaimLease
    <3>2. claims' \in [LeaseKeys \cup Issues -> Claims \cup {None}]
      BY <3>1, Places, ClaimTyped
    <3>3. QED
      BY <3>1, <3>2 DEF Proceeds
  <2>3. QED
    BY <2>1, <2>2
<1>4. ASSUME NEW s \in Sessions, Announce(s)
      PROVE  TypeOK'
  BY <1>4, Places, AnnounceTyped DEF Announce, Proceeds
<1>5. ASSUME NEW s \in Sessions, BindInbox(s)
      PROVE  TypeOK'
  BY <1>1, <1>5 DEF BindInbox, Proceeds, tracker
<1>6. ASSUME NEW s \in Sessions, BuildDies(s) \/ Stop(s)
      PROVE  TypeOK'
  BY <1>1, <1>6 DEF BuildDies, Stop
<1>7. ASSUME NEW s \in Sessions, Heartbeat(s)
      PROVE  TypeOK'
  BY <1>7, Places, BeatTyped DEF Heartbeat
<1>8. ASSUME NEW s \in Sessions, HeartbeatDies(s) \/ Suspend(s) \/ Wake(s)
      PROVE  TypeOK'
  BY <1>8 DEF HeartbeatDies, Suspend, Wake, tracker
<1>9. ASSUME NEW s \in Sessions, NEW i \in Issues, ClaimIssue(s, i)
      PROVE  TypeOK'
  BY <1>9, Places, ClaimTyped DEF ClaimIssue
<1>10. CASE TrackerCrash \/ TrackerStarts
  <2>1. CASE TrackerCrash
    <3>1. trackerCrashes + 1 \in 0..MaxTrackerCrashes
      BY <2>1 DEF TrackerCrash
    <3>2. emptyLeases \in [Addresses -> Leases \cup {None}]
          /\ emptyClaims \in [LeaseKeys \cup Issues -> Claims \cup {None}]
      BY DEF emptyLeases, emptyClaims
    <3>3. QED
      BY <2>1, <3>1, <3>2 DEF TrackerCrash
  <2>2. CASE TrackerStarts
    BY <2>2 DEF TrackerStarts
  <2>3. QED
    BY <1>10, <2>1, <2>2
<1>11. CASE Tick
  <2>1. leases' = [a \in Addresses |-> Aged(leases[a])]
    BY <1>11 DEF Tick, Aged
  <2>2. leases' \in [Addresses -> Leases \cup {None}]
    BY <2>1, AgeTyped
  <2>3. due' \in [Sessions -> -Slack..INTERVAL \cup {None}]
    <3>1. \A s \in Sessions :
            (IF due[s] = None \/ due[s] = -Slack THEN due[s] ELSE due[s] - 1) \in -Slack..INTERVAL \cup {None}
      <4> SUFFICES ASSUME NEW s \in Sessions, due[s] # None, due[s] # -Slack
                   PROVE  due[s] - 1 \in -Slack..INTERVAL
        OBVIOUS
      <4>1. due[s] \in -Slack..INTERVAL
        OBVIOUS
      <4>2. QED
        BY <4>1
    <3>2. QED
      BY <1>11, <3>1 DEF Tick
  <2>4. QED
    BY <1>11, <2>2, <2>3 DEF Tick
<1>12. CASE UNCHANGED vars
  BY <1>12 DEF vars
<1>13. QED
  BY <1>2, <1>3, <1>4, <1>5, <1>6, <1>7, <1>8, <1>9, <1>10, <1>11, <1>12 DEF Next, Session

(* The registry, the sessions and their counters stay well formed.         *)
THEOREM TypeCorrect == Spec => []TypeOK
<1>1. Init => TypeOK
  BY Constants DEF Init, TypeOK, emptyLeases, emptyClaims, Leases, Claims
<1>2. TypeOK /\ [Next]_vars => TypeOK'
  BY TypeStep
<1>3. QED
  BY <1>1, <1>2, PTL DEF Spec

-----------------------------------------------------------------------------
(* Each part of the invariant outlives every step.                         *)
LEMMA FibersStep ==
  ASSUME TypeOK, FibersLive, [Next]_vars
  PROVE  FibersLive'
<1> USE Constants DEF TypeOK, FibersLive, Down, Runs, tracker
<1>1. ASSUME NEW s \in Sessions, NEW how \in {"down", "refused"}, Ends(s, how)
      PROVE  FibersLive'
  BY <1>1 DEF Ends
<1>2. ASSUME NEW s \in Sessions, Launch(s)
      PROVE  FibersLive'
  BY <1>2 DEF Launch
<1>3. ASSUME NEW s \in Sessions, ClaimLease(s)
      PROVE  FibersLive'
  BY <1>1, <1>3 DEF ClaimLease, Proceeds
<1>4. ASSUME NEW s \in Sessions, Announce(s) \/ BindInbox(s) \/ BuildDies(s) \/ Stop(s)
      PROVE  FibersLive'
  BY <1>1, <1>4 DEF Announce, BindInbox, BuildDies, Stop, Proceeds
<1>5. ASSUME NEW s \in Sessions, Heartbeat(s) \/ HeartbeatDies(s)
      PROVE  FibersLive'
  BY <1>5 DEF Heartbeat, HeartbeatDies
<1>6. ASSUME NEW s \in Sessions, Suspend(s) \/ Wake(s)
      PROVE  FibersLive'
  BY <1>6 DEF Suspend, Wake
<1>7. ASSUME NEW s \in Sessions, NEW i \in Issues, ClaimIssue(s, i)
      PROVE  FibersLive'
  BY <1>7 DEF ClaimIssue
<1>8. CASE TrackerCrash \/ TrackerStarts
  BY <1>8 DEF TrackerCrash, TrackerStarts
<1>9. CASE Tick
  <2>1. \A s \in Sessions : due[s] # None => due'[s] # None
    BY <1>9 DEF Tick
  <2>2. QED
    BY <1>9, <2>1 DEF Tick
<1>10. CASE UNCHANGED vars
  BY <1>10 DEF vars
<1>11. QED
  BY <1>2, <1>3, <1>4, <1>5, <1>6, <1>7, <1>8, <1>9, <1>10 DEF Next, Session

LEMMA ServesStep ==
  ASSUME TypeOK, OneServes, [Next]_vars
  PROVE  OneServes'
<1> USE DEF TypeOK, OneServes
<1>1. ASSUME NEW s \in Sessions, NEW how \in {"down", "refused"}, Ends(s, how)
      PROVE  OneServes'
  BY <1>1 DEF Ends
<1>2. ASSUME NEW s \in Sessions, Launch(s)
      PROVE  OneServes'
  BY <1>2 DEF Launch, Down
<1>3. ASSUME NEW s \in Sessions, ClaimLease(s) \/ Announce(s)
      PROVE  OneServes'
  BY <1>1, <1>3 DEF ClaimLease, Announce, Proceeds
<1>4. ASSUME NEW s \in Sessions, BindInbox(s)
      PROVE  OneServes'
  BY <1>1, <1>4 DEF BindInbox, Proceeds, ServedAt
<1>5. ASSUME NEW s \in Sessions, BuildDies(s) \/ Stop(s)
      PROVE  OneServes'
  BY <1>1, <1>5 DEF BuildDies, Stop
<1>6. ASSUME NEW s \in Sessions, NEW i \in Issues, ClaimIssue(s, i)
      PROVE  OneServes'
  BY <1>6 DEF ClaimIssue
<1>7. ASSUME UNCHANGED <<pc, lanes>>
      PROVE  OneServes'
  BY <1>7
<1>8. QED
  BY <1>2, <1>3, <1>4, <1>5, <1>6, <1>7
  DEF Next, Session, Heartbeat, HeartbeatDies, Suspend, Wake, TrackerCrash, TrackerStarts, Tick, vars

(* What beats, announces and ticks do to the time a lease was last seen.   *)
LEMMA Refreshed ==
  ASSUME TypeOK, NEW a \in Addresses, NEW b \in Addresses,
         \/ leases' = heartbeat(leases, a, TTL, now)
         \/ \E role \in {"bridge", "engine"} : leases' = announce(leases, a, role, TTL, now),
         leases[b] # None
  PROVE  leases'[b] # None /\ leases'[b].lastSeen = IF a = b THEN 0 ELSE leases[b].lastSeen
<1> USE Constants DEF TypeOK
<1>0. leases[b] \in Leases
  OBVIOUS
<1>1. CASE leases' = heartbeat(leases, a, TTL, now)
  <2>1. CASE leases[a] = None
    BY <1>1, <2>1 DEF heartbeat
  <2>2. CASE leases[a] # None
    <3>1. leases' = [leases EXCEPT ![a] = [[leases[a] EXCEPT !.ttl = TTL] EXCEPT !.lastSeen = now]]
      BY <1>1, <2>2 DEF heartbeat
    <3>2. a = b => leases'[b].lastSeen = 0
      BY <1>0, <3>1 DEF Leases, now
    <3>3. leases' \in [Addresses -> Leases \cup {None}]
      BY <1>1, BeatTyped
    <3>4. a = b => leases'[b] # None
      <4>1. [[leases[b] EXCEPT !.ttl = TTL] EXCEPT !.lastSeen = now] \in Leases
        BY <1>0 DEF Leases, now
      <4>2. QED
        BY <3>1, <4>1
    <3>5. QED
      BY <3>1, <3>2, <3>4
  <2>3. QED
    BY <2>1, <2>2
<1>2. ASSUME NEW role \in {"bridge", "engine"}, leases' = announce(leases, a, role, TTL, now)
      PROVE  leases'[b] # None /\ leases'[b].lastSeen = IF a = b THEN 0 ELSE leases[b].lastSeen
  <2>1. [role |-> role, ttl |-> TTL, lastSeen |-> now] \in Leases
    BY DEF Leases, now
  <2>2. QED
    BY <1>2, <2>1 DEF announce, now
<1>3. QED
  BY <1>1, <1>2

LEMMA ListedStep ==
  ASSUME TypeOK, FibersLive, BeatsKeepUp, [Next]_vars
  PROVE  BeatsKeepUp'
<1> SUFFICES ASSUME trackerCrashes' = 0, NEW t \in Sessions, ~ slept'[t], pc'[t] \in {"binding", "serving"}
             PROVE  /\ leases'[inboxAddressFor(t)] # None
                    /\ leases'[inboxAddressFor(t)].lastSeen >= due'[t] - INTERVAL
  BY DEF BeatsKeepUp
<1> DEFINE a == inboxAddressFor(t)
<1> DEFINE Listed == leases'[a] # None /\ leases'[a].lastSeen >= due'[t] - INTERVAL
<1> USE Constants DEF TypeOK
<1>0. FibersLive' /\ TypeOK'
  BY FibersStep, TypeStep
<1>1. a \in Addresses /\ due'[t] \in -Slack..INTERVAL
  BY <1>0, Places DEF FibersLive, Down
<1>2. ASSUME trackerCrashes = 0, ~ slept[t], pc[t] \in {"binding", "serving"}
      PROVE  /\ leases[a] # None /\ leases[a] \in Leases /\ leases[a].lastSeen \in Oldest..0
             /\ leases[a].lastSeen >= due[t] - INTERVAL /\ due[t] \in -Slack..INTERVAL
  <2>1. leases[a] # None /\ leases[a].lastSeen >= due[t] - INTERVAL /\ due[t] # None
    BY <1>2 DEF BeatsKeepUp, FibersLive, Down
  <2>2. leases[a] \in Leases
    BY <1>1, <2>1
  <2>3. QED
    BY <2>1, <2>2 DEF Leases
<1>3. ASSUME UNCHANGED <<trackerCrashes, leases, slept>>, pc[t] \in {"binding", "serving"}, due'[t] = due[t]
      PROVE  Listed
  BY <1>2, <1>3
<1>4. ASSUME NEW s \in Sessions, NEW how \in {"down", "refused"}, Ends(s, how)
      PROVE  Listed
  BY <1>2, <1>4 DEF Ends, tracker
<1>5. ASSUME NEW s \in Sessions, Launch(s) \/ ClaimLease(s) \/ BindInbox(s) \/ BuildDies(s) \/ Stop(s)
      PROVE  Listed
  BY <1>3, <1>4, <1>5 DEF Launch, ClaimLease, BindInbox, BuildDies, Stop, Proceeds, tracker
<1>6. ASSUME NEW s \in Sessions, Announce(s)
      PROVE  Listed
  <2>1. /\ leases' = announce(leases, inboxAddressFor(s), RoleOf(s), TTL, now)
        /\ UNCHANGED <<trackerCrashes, slept, due>>
        /\ t # s => pc[t] = pc'[t]
    BY <1>6 DEF Announce, Proceeds
  <2>2. CASE inboxAddressFor(s) = a
    <3>1. leases'[a] = [role |-> RoleOf(s), ttl |-> TTL, lastSeen |-> 0]
      BY <1>1, <2>1, <2>2 DEF announce, now
    <3>2. leases'[a] \in Leases
      BY <3>1, Places DEF Leases
    <3>3. QED
      BY <1>1, <3>1, <3>2
  <2>3. CASE inboxAddressFor(s) # a
    <3>1. leases'[a] = leases[a] /\ t # s
      BY <1>1, <2>1, <2>3, Places DEF announce
    <3>2. QED
      BY <1>2, <2>1, <3>1
  <2>4. QED
    BY <2>2, <2>3
<1>7. ASSUME NEW s \in Sessions, Heartbeat(s)
      PROVE  Listed
  <2>1. /\ leases' = heartbeat(leases, inboxAddressFor(s), TTL, now)
        /\ UNCHANGED <<trackerCrashes, slept, pc>> /\ due'[t] = IF t = s THEN INTERVAL ELSE due[t]
    BY <1>7 DEF Heartbeat
  <2>2. leases'[a] # None /\ leases'[a].lastSeen = IF inboxAddressFor(s) = a THEN 0 ELSE leases[a].lastSeen
    BY <1>1, <1>2, <2>1, Places, Refreshed
  <2>3. QED
    BY <1>1, <1>2, <2>1, <2>2
<1>8. ASSUME NEW s \in Sessions, HeartbeatDies(s) \/ Suspend(s) \/ Wake(s)
      PROVE  Listed
  BY <1>2, <1>8 DEF HeartbeatDies, Suspend, Wake, tracker, FibersLive
<1>9. ASSUME NEW s \in Sessions, NEW i \in Issues, ClaimIssue(s, i)
      PROVE  Listed
  BY <1>3, <1>9 DEF ClaimIssue
<1>10. CASE TrackerCrash \/ TrackerStarts
  BY <1>3, <1>10 DEF TrackerCrash, TrackerStarts
<1>11. CASE Tick
  <2>1. UNCHANGED <<trackerCrashes, pc, awake, slept>> /\ leases'[a] = Aged(leases[a])
    BY <1>1, <1>11 DEF Tick, Aged
  <2>2. due[t] > -Slack /\ due[t] \in -Slack..INTERVAL
    BY <1>2, <1>11, <2>1 DEF Tick, FibersLive, Runs, Down
  <2>3. due'[t] = due[t] - 1
    BY <1>11, <2>2 DEF Tick
  <2>4. Aged(leases[a]) # None /\ Aged(leases[a]).lastSeen >= leases[a].lastSeen - 1
    <3>1. CASE leases[a].lastSeen = Oldest
      BY <1>2, <2>1, <3>1 DEF Aged
    <3>2. CASE leases[a].lastSeen # Oldest
      <4>1. Aged(leases[a]) = [leases[a] EXCEPT !.lastSeen = leases[a].lastSeen - 1]
        BY <1>2, <2>1, <3>2 DEF Aged
      <4>2. [leases[a] EXCEPT !.lastSeen = leases[a].lastSeen - 1].lastSeen = leases[a].lastSeen - 1
        BY <1>2, <2>1 DEF Leases
      <4>3. [leases[a] EXCEPT !.lastSeen = leases[a].lastSeen - 1] \in Leases
        BY <1>2, <2>1, <3>2 DEF Leases
      <4>4. QED
        BY <1>2, <2>1, <4>1, <4>2, <4>3
    <3>3. QED
      BY <3>1, <3>2
  <2>5. Aged(leases[a]).lastSeen \in Int
    BY <1>2, <2>1, <2>4, AgeTyped DEF Leases
  <2>6. QED
    BY <1>2, <2>1, <2>3, <2>4, <2>5
<1>12. CASE UNCHANGED vars
  BY <1>3, <1>12 DEF vars
<1>13. QED
  BY <1>5, <1>6, <1>7, <1>8, <1>9, <1>10, <1>11, <1>12 DEF Next, Session

LEMMA ListedIsPresent ==
  ASSUME TypeOK, FibersLive, BeatsKeepUp, trackerCrashes = 0,
         NEW s \in Sessions, ~ slept[s], pc[s] \in {"binding", "serving"}
  PROVE  Present(inboxAddressFor(s))
<1> DEFINE a == inboxAddressFor(s)
<1> USE Constants DEF TypeOK
<1>1. leases[a] # None /\ leases[a].lastSeen >= due[s] - INTERVAL /\ due[s] # None
  BY DEF BeatsKeepUp, FibersLive, Down
<1>2. leases[a] \in Leases /\ due[s] \in -Slack..INTERVAL
  BY <1>1, Places
<1>3. leases[a].lastSeen \in Int /\ leases[a].ttl = TTL
  BY <1>2 DEF Leases
<1>4. 0 <= leases[a].lastSeen + leases[a].ttl
  BY <1>1, <1>2, <1>3
<1>5. QED
  BY <1>1, <1>4 DEF Present, holderHasLivePresence, isLive, now

(* A claim of a present holder is overwritten by nobody else.              *)
LEMMA PresentHolderStays ==
  ASSUME TypeOK, NEW res \in LeaseKeys \cup Issues, claims[res] # None,
         Present(claims[res].holder),
         NEW r \in LeaseKeys \cup Issues, NEW b \in Addresses, NEW role \in {"bridge", "engine"},
         claims' = claimResource(leases, claims, r, b, role, now)
  PROVE  claims'[res] # None /\ claims'[res].holder = claims[res].holder
<1> USE Constants DEF TypeOK
<1>1. CASE r # res
  BY <1>1 DEF claimResource
<1>2. CASE r = res /\ claims[res].holder # b
  BY <1>2 DEF claimResource, collides, Present
<1>3. CASE r = res /\ claims[res].holder = b
  <2>1. claims' = [claims EXCEPT ![res] = [holder |-> b, claimantRole |-> role,
                     claimedAt |-> claimedAtOnGrant(claims, res, b, now)]]
    BY <1>3 DEF claimResource, collides
  <2>2. claimedAtOnGrant(claims, res, b, now) = 0
    BY <1>3 DEF claimedAtOnGrant, Claims
  <2>3. claims'[res] = [holder |-> b, claimantRole |-> role, claimedAt |-> 0]
    BY <2>1, <2>2
  <2>4. claims'[res] \in Claims
    BY <2>3 DEF Claims
  <2>5. QED
    BY <1>3, <2>3, <2>4
<1>4. QED
  BY <1>1, <1>2, <1>3

LEMMA LanesStep ==
  ASSUME TypeOK, FibersLive, BeatsKeepUp, OneServes, LanesAreWritten, [Next]_vars
  PROVE  LanesAreWritten'
<1> SUFFICES ASSUME trackerCrashes' = 0, NEW t \in Sessions, ~ slept'[t], NEW i \in lanes'[t]
             PROVE  claims'[i] # None /\ claims'[i].holder = inboxAddressFor(t)
  BY DEF LanesAreWritten
<1> DEFINE a == inboxAddressFor(t)
<1> DEFINE Written == claims'[i] # None /\ claims'[i].holder = a
<1> USE Constants DEF TypeOK
<1>0. i \in Issues
  BY TypeStep
<1>1. ASSUME trackerCrashes = 0, ~ slept[t], i \in lanes[t]
      PROVE  /\ claims[i] # None /\ claims[i].holder = a /\ Present(a)
  BY <1>1, ListedIsPresent DEF LanesAreWritten, OneServes
<1>2. ASSUME UNCHANGED <<trackerCrashes, claims, slept>>, i \in lanes[t]
      PROVE  Written
  BY <1>1, <1>2
<1>3. ASSUME NEW s \in Sessions, NEW how \in {"down", "refused"}, Ends(s, how)
      PROVE  Written
  BY <1>1, <1>3 DEF Ends, tracker
<1>4. ASSUME UNCHANGED <<trackerCrashes, slept>>, i \in lanes[t],
             NEW r \in LeaseKeys \cup Issues, NEW s \in Sessions,
             claims' = claimResource(leases, claims, r, inboxAddressFor(s), RoleOf(s), now)
      PROVE  Written
  BY <1>0, <1>1, <1>4, Places, PresentHolderStays
<1>5. ASSUME NEW s \in Sessions, ClaimLease(s)
      PROVE  Written
  <2>1. CASE collides(leases, claims, cardinalityLeaseKey(s), inboxAddressFor(s), now)
    BY <1>3, <1>5, <2>1 DEF ClaimLease
  <2>2. CASE ~ collides(leases, claims, cardinalityLeaseKey(s), inboxAddressFor(s), now)
    BY <1>4, <1>5, <2>2, Places DEF ClaimLease, Proceeds
  <2>3. QED
    BY <2>1, <2>2
<1>6. ASSUME NEW s \in Sessions, NEW r \in Issues, ClaimIssue(s, r)
      PROVE  Written
  <2>1. /\ UNCHANGED <<trackerCrashes, slept>>
        /\ claims' = claimResource(leases, claims, r, inboxAddressFor(s), RoleOf(s), now)
    BY <1>6 DEF ClaimIssue
  <2>2. CASE i \in lanes[t]
    BY <1>4, <2>1, <2>2
  <2>3. CASE i \notin lanes[t]
    <3>1. i = r /\ t = s /\ ~ collides(leases, claims, r, inboxAddressFor(s), now)
      BY <1>6, <2>3 DEF ClaimIssue
    <3>2. claims'[i] = [holder |-> a, claimantRole |-> RoleOf(s),
                        claimedAt |-> claimedAtOnGrant(claims, i, a, now)]
      BY <2>1, <3>1 DEF claimResource
    <3>3. claims'[i] \in Claims
      <4>1. claimedAtOnGrant(claims, i, a, now) = 0
        BY <1>0 DEF claimedAtOnGrant, Claims, now
      <4>2. QED
        BY <3>2, <4>1, Places DEF Claims
    <3>4. QED
      BY <3>2, <3>3
  <2>4. QED
    BY <2>2, <2>3
<1>7. CASE TrackerCrash \/ TrackerStarts
  BY <1>2, <1>7 DEF TrackerCrash, TrackerStarts
<1>8. ASSUME NEW s \in Sessions,
             \/ Launch(s) \/ Announce(s) \/ Heartbeat(s) \/ HeartbeatDies(s) \/ Wake(s)
             \/ BindInbox(s) \/ BuildDies(s) \/ Stop(s) \/ Suspend(s)
      PROVE  Written
  BY <1>1, <1>2, <1>3, <1>8
  DEF Launch, Announce, Heartbeat, HeartbeatDies, Wake, BindInbox, BuildDies, Stop, Suspend, Proceeds, tracker
<1>9. CASE Tick \/ UNCHANGED vars
  BY <1>2, <1>9 DEF Tick, vars
<1>10. QED
  BY <1>5, <1>6, <1>7, <1>8, <1>9 DEF Next, Session

-----------------------------------------------------------------------------
LEMMA InvariantHolds == Spec => []SessionInv
<1>1. Init => SessionInv
  <2>1. Init => TypeOK
    BY Constants DEF Init, TypeOK, emptyLeases, emptyClaims, Leases, Claims
  <2>2. Init => FibersLive /\ BeatsKeepUp /\ OneServes /\ LanesAreWritten
    BY DEF Init, FibersLive, BeatsKeepUp, OneServes, LanesAreWritten, Down
  <2>3. QED
    BY <2>1, <2>2 DEF SessionInv
<1>2. SessionInv /\ [Next]_vars => SessionInv'
  BY TypeStep, FibersStep, ListedStep, ServesStep, LanesStep DEF SessionInv
<1>3. QED
  BY <1>1, <1>2, PTL DEF Spec

(* A session that was never suspended is listed for as long as it serves,  *)
(* whatever its twins do and however late each beat comes, if the timing   *)
(* constants leave room for the lateness.                                  *)
THEOREM AwakeSessionListed == Spec => []AwakeSessionNeverAgesOut
<1>1. SessionInv => AwakeSessionNeverAgesOut
  BY ListedIsPresent DEF SessionInv, AwakeSessionNeverAgesOut
<1>2. QED
  BY <1>1, InvariantHolds, PTL

(* No two sessions that stayed awake work one issue, and the registry names *)
(* the one that does.                                                       *)
THEOREM LaneHeld == Spec => []LaneIsHeld
<1>1. SessionInv => LaneIsHeld
  <2> SUFFICES ASSUME SessionInv, trackerCrashes = 0, NEW s \in Sessions, ~ slept[s], NEW i \in lanes[s]
               PROVE  /\ LiveHolder(i) = inboxAddressFor(s)
                      /\ \A t \in Sessions \ {s} : slept[t] \/ i \notin lanes[t]
    BY DEF LaneIsHeld
  <2>1. /\ claims[i] # None /\ claims[i].holder = inboxAddressFor(s)
        /\ pc[s] = "serving" /\ Present(inboxAddressFor(s))
    BY ListedIsPresent DEF SessionInv, LanesAreWritten, OneServes
  <2>2. LiveHolder(i) = inboxAddressFor(s)
    BY <2>1 DEF LiveHolder, claimHolder, Present
  <2>3. ASSUME NEW t \in Sessions \ {s}, ~ slept[t], i \in lanes[t]
        PROVE  FALSE
    <3>1. claims[i].holder = inboxAddressFor(t) /\ pc[t] = "serving"
      BY <2>3 DEF SessionInv, LanesAreWritten, OneServes
    <3>2. QED
      BY <2>1, <2>3, <3>1 DEF SessionInv, OneServes
  <2>4. QED
    BY <2>2, <2>3
<1>2. QED
  BY <1>1, InvariantHolds, PTL
=============================================================================
