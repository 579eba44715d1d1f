----------------------- MODULE TrackerRegistryProofs -----------------------
(***************************************************************************)
(* Theorems about the tracker: its registry, for any number of peers,      *)
(* roles, resources and any TTLs, and the socket path at which it is found *)
(* (SocketRendezvous), for any number of processes, crashes and exits; and *)
(* about the messages sent to those it names (PeerDelivery), for any       *)
(* number of senders, messages and lives of a session.                     *)
(*                                                                         *)
(* The registry's TypeOK is inductive as it stands; the action properties  *)
(* and the refinement follow from it step by step.                         *)
(***************************************************************************)
EXTENDS TrackerRegistry, SocketRendezvous, PeerDelivery, TLAPS

(* A beat keeps the lease map well formed: it rewrites two fields of a lease *)
(* that is there and leaves an absent one absent.                          *)
LEMMA HeartbeatTyped ==
  ASSUME TypeOK, NEW p \in Peers, NEW ttl \in TTLs
  PROVE  heartbeat(leases, p, ttl, now) \in [Peers -> Lease \cup {None}]
<1>1. CASE leases[p] = None
  BY <1>1 DEF TypeOK, heartbeat
<1>2. CASE leases[p] # None
  <2>1. leases[p] \in Lease
    BY <1>2 DEF TypeOK
  <2>2. [[leases[p] EXCEPT !.ttl = ttl] EXCEPT !.lastSeen = now] \in Lease
    BY <2>1 DEF TypeOK, Lease
  <2>3. heartbeat(leases, p, ttl, now)
          = [leases EXCEPT ![p] = [[leases[p] EXCEPT !.ttl = ttl] EXCEPT !.lastSeen = now]]
    BY <1>2 DEF TypeOK, heartbeat
  <2>4. QED
    BY <2>2, <2>3 DEF TypeOK
<1>3. QED
  BY <1>1, <1>2

(* A grant writes a well-formed claim, stamped now or when it was first granted. *)
LEMMA ClaimResourceTyped ==
  ASSUME TypeOK, NEW p \in Peers, NEW role \in Roles, NEW res \in Resources
  PROVE  claimResource(leases, claims, res, p, role, now) \in [Resources -> Claim \cup {None}]
<1>1. claimedAtOnGrant(claims, res, p, now) \in Nat
  BY DEF TypeOK, Claim, claimedAtOnGrant
<1>2. QED
  BY <1>1 DEF TypeOK, Claim, claimResource

(* No entry is stamped ahead of the clock after a step of the registry. *)
LEMMA StampsNotAhead ==
  ASSUME TypeOK, Next
  PROVE  /\ now <= now' /\ now' \in Nat
         /\ \A p \in Peers : leases'[p] # None => leases'[p].lastSeen <= now'
         /\ \A res \in Resources : claims'[res] # None => claims'[res].claimedAt <= now'
<1> USE DEF TypeOK, Lease, Claim
<1>1. CASE Tick
  BY <1>1 DEF Tick
<1>2. CASE Prune
  BY <1>2 DEF Prune, pruneLeases, pruneClaims
<1>3. ASSUME NEW p \in Peers, NEW role \in Roles, AnnouncePresence(p, role)
      PROVE  /\ now <= now' /\ now' \in Nat
             /\ \A q \in Peers : leases'[q] # None => leases'[q].lastSeen <= now'
             /\ \A res \in Resources : claims'[res] # None => claims'[res].claimedAt <= now'
  BY <1>3 DEF AnnouncePresence, announce
<1>4. ASSUME NEW p \in Peers, NEW ttl \in TTLs, Heartbeat(p, ttl)
      PROVE  /\ now <= now' /\ now' \in Nat
             /\ \A q \in Peers : leases'[q] # None => leases'[q].lastSeen <= now'
             /\ \A res \in Resources : claims'[res] # None => claims'[res].claimedAt <= now'
  BY <1>4 DEF Heartbeat, heartbeat
<1>5. ASSUME NEW p \in Peers, NEW res \in Resources, NEW role \in Roles, ClaimRpc(p, res, role)
      PROVE  /\ now <= now' /\ now' \in Nat
             /\ \A q \in Peers : leases'[q] # None => leases'[q].lastSeen <= now'
             /\ \A r \in Resources : claims'[r] # None => claims'[r].claimedAt <= now'
  BY <1>5 DEF ClaimRpc, claimResource, claimedAtOnGrant
<1>6. ASSUME NEW p \in Peers, NEW res \in Resources, ReleaseRpc(p, res)
      PROVE  /\ now <= now' /\ now' \in Nat
             /\ \A q \in Peers : leases'[q] # None => leases'[q].lastSeen <= now'
             /\ \A r \in Resources : claims'[r] # None => claims'[r].claimedAt <= now'
  BY <1>6 DEF ReleaseRpc, releaseClaim
<1>7. ASSUME NEW p \in Peers, Release(p)
      PROVE  /\ now <= now' /\ now' \in Nat
             /\ \A q \in Peers : leases'[q] # None => leases'[q].lastSeen <= now'
             /\ \A r \in Resources : claims'[r] # None => claims'[r].claimedAt <= now'
  BY <1>7 DEF Release, releaseLeases, releaseClaims
<1>8. QED
  BY <1>1, <1>2, <1>3, <1>4, <1>5, <1>6, <1>7 DEF Next

-----------------------------------------------------------------------------
(* Both maps always hold well-formed entries, none stamped in the future.  *)
THEOREM TypeCorrect == Spec => []TypeOK
<1>1. Init => TypeOK
  BY DEF Init, TypeOK, emptyLeases, emptyClaims
<1>2. TypeOK /\ [Next]_vars => TypeOK'
  <2> SUFFICES ASSUME TypeOK, [Next]_vars
               PROVE  TypeOK'
    OBVIOUS
  <2>1. CASE UNCHANGED vars
    BY <2>1 DEF TypeOK, vars
  <2>2. CASE Next
    <3>1. leases' \in [Peers -> Lease \cup {None}] /\ claims' \in [Resources -> Claim \cup {None}]
      <4>1. CASE Tick
        BY <4>1 DEF Tick, TypeOK
      <4>2. CASE Prune
        BY <4>2 DEF Prune, TypeOK, pruneLeases, pruneClaims
      <4>3. ASSUME NEW p \in Peers, NEW role \in Roles, AnnouncePresence(p, role)
            PROVE  leases' \in [Peers -> Lease \cup {None}] /\ claims' \in [Resources -> Claim \cup {None}]
        BY <4>3, TTLAssumption DEF AnnouncePresence, TypeOK, announce, Lease
      <4>4. ASSUME NEW p \in Peers, NEW ttl \in TTLs, Heartbeat(p, ttl)
            PROVE  leases' \in [Peers -> Lease \cup {None}] /\ claims' \in [Resources -> Claim \cup {None}]
        BY <4>4, HeartbeatTyped DEF Heartbeat, TypeOK
      <4>5. ASSUME NEW p \in Peers, NEW res \in Resources, NEW role \in Roles, ClaimRpc(p, res, role)
            PROVE  leases' \in [Peers -> Lease \cup {None}] /\ claims' \in [Resources -> Claim \cup {None}]
        BY <4>5, ClaimResourceTyped DEF ClaimRpc, TypeOK
      <4>6. ASSUME NEW p \in Peers, NEW res \in Resources, ReleaseRpc(p, res)
            PROVE  leases' \in [Peers -> Lease \cup {None}] /\ claims' \in [Resources -> Claim \cup {None}]
        BY <4>6 DEF ReleaseRpc, TypeOK, releaseClaim
      <4>7. ASSUME NEW p \in Peers, Release(p)
            PROVE  leases' \in [Peers -> Lease \cup {None}] /\ claims' \in [Resources -> Claim \cup {None}]
        BY <4>7 DEF Release, TypeOK, releaseLeases, releaseClaims
      <4>8. QED
        BY <2>2, <4>1, <4>2, <4>3, <4>4, <4>5, <4>6, <4>7 DEF Next
    <3>2. QED
      BY <2>2, <3>1, StampsNotAhead DEF TypeOK
  <2>3. QED
    BY <2>1, <2>2
<1>3. QED
  BY <1>1, <1>2, PTL DEF Spec

-----------------------------------------------------------------------------
(* Claims are not stolen.  The proof is by the only two ways a step can    *)
(* change who holds a resource live: it touches the claim map, or it ends  *)
(* the holder's presence.                                                  *)
LEMMA HoldSurvivesStep ==
  ASSUME TypeOK, [Next]_vars, NEW res \in Resources,
         LiveHolder(res) # None,
         holderHasLivePresence(leases', LiveHolder(res), now'),
         ~ ReleaseRpc(LiveHolder(res), res)
  PROVE  LiveHolder(res)' = LiveHolder(res)
<1> DEFINE h == claims[res].holder
<1>1. /\ claims[res] # None /\ claims[res] \in Claim /\ h \in Peers
      /\ holderHasLivePresence(leases, h, now) /\ LiveHolder(res) = h
  BY DEF LiveHolder, claimHolder, TypeOK, Claim
<1>2. SUFFICES claims'[res] # None /\ claims'[res].holder = h
  BY <1>1 DEF LiveHolder, claimHolder
<1>3. CASE UNCHANGED claims
  BY <1>1, <1>3
<1>4. CASE Prune
  BY <1>1, <1>4 DEF Prune, pruneClaims, pruneLeases, holderHasLivePresence
<1>5. ASSUME NEW p \in Peers, NEW r \in Resources, NEW role \in Roles, ClaimRpc(p, r, role)
      PROVE  claims'[res] # None /\ claims'[res].holder = h
  <2>1. CASE r = res
    <3>1. CASE p = h
      <4>1. claims' = [claims EXCEPT ![res] = [holder |-> p, claimantRole |-> role,
                         claimedAt |-> claimedAtOnGrant(claims, res, p, now)]]
        BY <1>1, <1>5, <2>1, <3>1 DEF ClaimRpc, claimResource, collides
      <4>2. claims'[res] \in Claim
        BY <1>5, <2>1, <4>1, ClaimResourceTyped DEF TypeOK, ClaimRpc, Claim, claimedAtOnGrant
      <4>3. QED
        BY <3>1, <4>1, <4>2, NoneAssumption DEF TypeOK
    <3>2. CASE p # h
      BY <1>1, <1>5, <2>1, <3>2 DEF ClaimRpc, claimResource, collides
    <3>3. QED
      BY <3>1, <3>2
  <2>2. CASE r # res
    BY <1>1, <1>5, <2>2 DEF ClaimRpc, claimResource, TypeOK
  <2>3. QED
    BY <2>1, <2>2
<1>6. ASSUME NEW p \in Peers, NEW r \in Resources, ReleaseRpc(p, r)
      PROVE  claims'[res] # None /\ claims'[res].holder = h
  BY <1>1, <1>6 DEF ReleaseRpc, releaseClaim, TypeOK
<1>7. ASSUME NEW p \in Peers, Release(p)
      PROVE  claims'[res] # None /\ claims'[res].holder = h
  <2>1. p # h
    BY <1>1, <1>7 DEF Release, releaseLeases, holderHasLivePresence, TypeOK
  <2>2. QED
    BY <1>1, <1>7, <2>1 DEF Release, releaseClaims
<1>8. QED
  BY <1>3, <1>4, <1>5, <1>6, <1>7 DEF Next, vars, Tick, AnnouncePresence, Heartbeat

THEOREM ClaimNeverStolen == Spec => LiveHolderKeepsClaim
<1>1. TypeOK /\ [Next]_vars =>
        [\A res \in Resources :
           LET h == LiveHolder(res) IN
             (h # None /\ LiveHolder(res)' # h)
               => \/ ~ holderHasLivePresence(leases', h, now')
                  \/ ReleaseRpc(h, res)]_vars
  BY HoldSurvivesStep
<1>2. QED
  BY <1>1, TypeCorrect, PTL DEF Spec, LiveHolderKeepsClaim

-----------------------------------------------------------------------------
(* A prune keeps exactly the live leases, as they are.                     *)
LEMMA PruneKeepsLive ==
  ASSUME TypeOK, Prune
  PROVE  /\ now' = now
         /\ \A p \in Peers :
              /\ holderHasLivePresence(leases', p, now) <=> holderHasLivePresence(leases, p, now)
              /\ holderHasLivePresence(leases, p, now) => leases'[p] = leases[p]
BY DEF Prune, pruneLeases, holderHasLivePresence

(* So a tracker that prunes and one that does not give the same answers.   *)
THEOREM PruneInvisible == Spec => PruneChangesNoAnswer
<1>1. ASSUME TypeOK, Prune
      PROVE  /\ \A role \in Roles : lookup(leases, role, now)' = lookup(leases, role, now)
             /\ \A res \in Resources :
                  /\ LiveHolder(res)' = LiveHolder(res)
                  /\ \A p \in Peers :
                       collides(leases, claims, res, p, now)' = collides(leases, claims, res, p, now)
  <2> USE <1>1
  <2>1. \A role \in Roles : lookup(leases, role, now)' = lookup(leases, role, now)
    BY PruneKeepsLive DEF lookup
  <2>2. ASSUME NEW res \in Resources
        PROVE  /\ LiveHolder(res)' = LiveHolder(res)
               /\ \A p \in Peers :
                    collides(leases, claims, res, p, now)' = collides(leases, claims, res, p, now)
    <3>1. claims[res] # None => claims[res].holder \in Peers
      BY DEF TypeOK, Claim
    <3>2. claims'[res] = IF claims[res] # None
                              /\ ~ holderHasLivePresence(leases, claims[res].holder, now)
                         THEN None ELSE claims[res]
      BY <3>1, PruneKeepsLive DEF Prune, pruneClaims
    <3>3. QED
      BY <3>1, <3>2, PruneKeepsLive DEF LiveHolder, claimHolder, collides
  <2>3. QED
    BY <2>1, <2>2
<1>2. TypeOK /\ [Next]_vars =>
        [Prune =>
           /\ \A role \in Roles : lookup(leases, role, now)' = lookup(leases, role, now)
           /\ \A res \in Resources :
                /\ LiveHolder(res)' = LiveHolder(res)
                /\ \A p \in Peers :
                     collides(leases, claims, res, p, now)' = collides(leases, claims, res, p, now)]_vars
  BY <1>1
<1>3. QED
  BY <1>2, TypeCorrect, PTL DEF Spec, PruneChangesNoAnswer

-----------------------------------------------------------------------------
(* `since` moves only when the record changes hands.                       *)
THEOREM SinceCorrect == Spec => SinceFollowsHolder
<1>1. ASSUME TypeOK, [Next]_vars, NEW res \in Resources, claims'[res] # None
      PROVE  claims'[res].claimedAt =
               IF claims[res] # None /\ claims[res].holder = claims'[res].holder
               THEN claims[res].claimedAt ELSE now
  <2>1. CASE claims'[res] = claims[res]
    BY <1>1, <2>1
  <2>2. CASE Prune \/ \E p \in Peers : Release(p) \/ \E r \in Resources : ReleaseRpc(p, r)
    BY <1>1, <2>2 DEF TypeOK, Prune, pruneClaims, Release, releaseClaims, ReleaseRpc, releaseClaim
  <2>3. ASSUME NEW p \in Peers, NEW r \in Resources, NEW role \in Roles, ClaimRpc(p, r, role),
               claims'[res] # claims[res]
        PROVE  claims'[res].claimedAt =
                 IF claims[res] # None /\ claims[res].holder = claims'[res].holder
                 THEN claims[res].claimedAt ELSE now
    <3>1. claims' = [claims EXCEPT ![res] = [holder |-> p, claimantRole |-> role,
                       claimedAt |-> claimedAtOnGrant(claims, res, p, now)]]
      BY <1>1, <2>3 DEF TypeOK, ClaimRpc, claimResource
    <3>2. claims'[res].holder = p /\ claims'[res].claimedAt = claimedAtOnGrant(claims, res, p, now)
      BY <1>1, <3>1 DEF TypeOK
    <3>3. QED
      BY <3>2 DEF claimedAtOnGrant
  <2>4. QED
    BY <1>1, <2>1, <2>2, <2>3 DEF Next, vars, Tick, AnnouncePresence, Heartbeat
<1>2. TypeOK /\ [Next]_vars =>
        [\A res \in Resources :
           claims'[res] # None =>
             claims'[res].claimedAt =
               IF claims[res] # None /\ claims[res].holder = claims'[res].holder
               THEN claims[res].claimedAt ELSE now]_vars
  BY <1>1
<1>3. QED
  BY <1>2, TypeCorrect, PTL DEF Spec, SinceFollowsHolder

-----------------------------------------------------------------------------
(* The registry implements the board.  The name against a resource is its  *)
(* recorded holder, live or not; a step maps to the board step its handler *)
(* stands for.                                                             *)
ownerOf == [res \in Resources |-> IF claims[res] = None THEN None ELSE claims[res].holder]

(* A grant writes the claimant's name over an absent or own one.           *)
LEMMA ClaimIsTake ==
  ASSUME TypeOK, NEW p \in Peers, NEW res \in Resources, NEW role \in Roles,
         ClaimRpc(p, res, role)
  PROVE  Board!Take(p, res) \/ UNCHANGED <<present, ownerOf>>
<1> DEFINE new == [holder |-> p, claimantRole |-> role,
                   claimedAt |-> claimedAtOnGrant(claims, res, p, now)]
<1>1. UNCHANGED present
  BY DEF ClaimRpc, present
<1>2. CASE collides(leases, claims, res, p, now)
  BY <1>1, <1>2 DEF ClaimRpc, claimResource, ownerOf
<1>3. CASE ~ collides(leases, claims, res, p, now)
  <2>1. claims' = [claims EXCEPT ![res] = new]
    BY <1>3 DEF ClaimRpc, claimResource
  <2>2. claimedAtOnGrant(claims, res, p, now) \in Nat
    BY DEF TypeOK, Claim, claimedAtOnGrant
  <2>3. new # None
    BY <2>2, NoneAssumption DEF Claim
  <2>4. new.holder = p
    OBVIOUS
  <2>5. ownerOf' = [ownerOf EXCEPT ![res] = p]
    <3> HIDE DEF new
    <3> QED
      BY <2>1, <2>3, <2>4 DEF TypeOK, ownerOf
  <2>6. ownerOf[res] \notin present \ {p}
    BY <1>3, NoneAssumption DEF ownerOf, present, collides
  <2>7. QED
    BY <1>1, <2>5, <2>6 DEF Board!Take, ownerOf
<1>4. QED
  BY <1>2, <1>3

LEMMA StepIsBoardStep ==
  ASSUME TypeOK, [Next]_vars
  PROVE  [Board!Next]_(Board!vars)
<1> USE DEF Board!vars, Board!Next
<1>1. CASE UNCHANGED vars
  BY <1>1 DEF vars, present
<1>2. CASE Tick
  <2>1. ASSUME NEW p \in Peers, holderHasLivePresence(leases, p, now + 1)
        PROVE  holderHasLivePresence(leases, p, now)
    <3>1. leases[p].lastSeen \in Nat /\ leases[p].ttl \in Nat /\ now \in Nat
      BY <2>1, TTLAssumption DEF TypeOK, Lease, holderHasLivePresence
    <3>2. QED
      BY <2>1, <3>1 DEF holderHasLivePresence, isLive
  <2>2. present' \subseteq present /\ UNCHANGED claims
    BY <1>2, <2>1 DEF Tick, present
  <2>3. Board!Lapse(present \ present')
    BY <2>2 DEF Board!Lapse
  <2>4. QED
    BY <2>3 DEF present
<1>3. CASE Prune
  <2>1. UNCHANGED present
    BY <1>3, PruneKeepsLive DEF present, Prune
  <2>2. ASSUME NEW res \in Resources
        PROVE  ownerOf'[res] = IF ownerOf[res] \in present THEN ownerOf[res] ELSE None
    <3>1. claims[res] # None => claims[res].holder \in Peers
      BY DEF TypeOK, Claim
    <3>2. claims'[res] = IF claims[res] # None
                              /\ ~ holderHasLivePresence(leases, claims[res].holder, now)
                         THEN None ELSE claims[res]
      BY <1>3, <3>1, PruneKeepsLive DEF Prune, pruneClaims
    <3>3. QED
      BY <3>1, <3>2, NoneAssumption DEF ownerOf, present
  <2>3. Board!Sweep
    BY <2>1, <2>2 DEF Board!Sweep, ownerOf
  <2>4. QED
    BY <2>3
<1>4. ASSUME NEW p \in Peers, NEW role \in Roles, AnnouncePresence(p, role)
      PROVE  Board!Join(p)
  <2>1. leases'[p] # None /\ isLive(leases'[p], now)
    <3>1. [role |-> role, ttl |-> DEFAULT_TTL, lastSeen |-> now] \in Lease
      BY TTLAssumption DEF TypeOK, Lease
    <3>2. now <= now + DEFAULT_TTL
      BY TTLAssumption DEF TypeOK
    <3>3. QED
      BY <1>4, <3>1, <3>2, NoneAssumption DEF AnnouncePresence, announce, isLive, TypeOK
  <2>2. present' = present \cup {p}
    BY <1>4, <2>1 DEF AnnouncePresence, announce, present, holderHasLivePresence, TypeOK
  <2>3. QED
    BY <1>4, <2>2 DEF Board!Join, AnnouncePresence
<1>5. ASSUME NEW p \in Peers, NEW ttl \in TTLs, Heartbeat(p, ttl)
      PROVE  Board!Join(p) \/ UNCHANGED Board!vars
  <2>1. CASE leases[p] = None
    BY <1>5, <2>1 DEF Heartbeat, heartbeat, present
  <2>2. CASE leases[p] # None
    <3>1. leases'[p] # None /\ isLive(leases'[p], now)
      <4>1. leases[p] \in Lease /\ leases' \in [Peers -> Lease \cup {None}]
        BY <1>5, <2>2, HeartbeatTyped DEF TypeOK, Heartbeat
      <4>2. leases' = [leases EXCEPT ![p] = [[leases[p] EXCEPT !.ttl = ttl] EXCEPT !.lastSeen = now]]
        BY <1>5, <2>2 DEF Heartbeat, heartbeat, TypeOK
      <4>3. leases'[p].lastSeen = now /\ leases'[p].ttl = ttl
        BY <4>1, <4>2 DEF Lease, TypeOK
      <4>4. leases'[p] # None
        <5>1. [[leases[p] EXCEPT !.ttl = ttl] EXCEPT !.lastSeen = now] \in Lease
          BY <4>1 DEF Lease, TypeOK
        <5>2. QED
          BY <4>2, <5>1, NoneAssumption DEF TypeOK
      <4>5. now <= now + ttl
        BY TTLAssumption DEF TypeOK
      <4>6. QED
        BY <4>3, <4>4, <4>5 DEF isLive
    <3>2. \A q \in Peers \ {p} : leases'[q] = leases[q]
      BY <1>5 DEF Heartbeat, heartbeat, TypeOK
    <3>3. now' = now
      BY <1>5 DEF Heartbeat
    <3>4. present' = present \cup {p}
      BY <3>1, <3>2, <3>3 DEF present, holderHasLivePresence
    <3>5. QED
      BY <1>5, <3>4 DEF Board!Join, Heartbeat
  <2>3. QED
    BY <2>1, <2>2
<1>6. ASSUME NEW p \in Peers, NEW res \in Resources, ReleaseRpc(p, res)
      PROVE  Board!Free(p, res) \/ UNCHANGED Board!vars
  <2>1. UNCHANGED present
    BY <1>6 DEF ReleaseRpc, present
  <2>2. CASE claims[res] # None /\ claims[res].holder = p
    BY <1>6, <2>1, <2>2 DEF ReleaseRpc, releaseClaim, Board!Free, TypeOK
  <2>3. CASE ~ (claims[res] # None /\ claims[res].holder = p)
    BY <1>6, <2>1, <2>3 DEF ReleaseRpc, releaseClaim
  <2>4. QED
    BY <2>2, <2>3
<1>7. ASSUME NEW p \in Peers, Release(p)
      PROVE  Board!Leave(p)
  <2>1. present' = present \ {p}
    BY <1>7 DEF Release, releaseLeases, present, holderHasLivePresence, TypeOK
  <2>2. QED
    BY <1>7, <2>1, NoneAssumption DEF Release, releaseClaims, Board!Leave
<1>8. ASSUME NEW p \in Peers, NEW res \in Resources, NEW role \in Roles, ClaimRpc(p, res, role)
      PROVE  Board!Take(p, res) \/ UNCHANGED Board!vars
  BY <1>8, ClaimIsTake DEF ownerOf
<1>9. QED
  BY <1>1, <1>2, <1>3, <1>4, <1>5, <1>6, <1>7, <1>8 DEF Next

THEOREM RegistryImplementsBoard == Spec => ImplementsBoard
<1>1. Init => Board!Init
  BY DEF Init, Board!Init, emptyLeases, emptyClaims, present, holderHasLivePresence
<1>2. TypeOK /\ [Next]_vars => [Board!Next]_(Board!vars)
  BY StepIsBoardStep
<1>3. QED
  BY <1>1, <1>2, TypeCorrect, PTL DEF Spec, ImplementsBoard, Board!Spec

-----------------------------------------------------------------------------
(* SerialStartsMeet is not inductive: it must also say that a process      *)
(* about to unlink has no listener to cut off, and that one between bind   *)
(* and listen owns the file.  Both follow from starts being one at a time. *)
Alone == \A p, q \in Procs : pc[p] \in Starting /\ pc[q] \in Starting => p = q

SerialInv ==
  /\ MeetTypeOK
  /\ ~ overlap =>
       /\ Alone
       /\ \A p, q \in Hosts : p = q
       /\ \A p \in Hosts : file = p
       /\ \A p \in Procs : pc[p] = "unlink" => Hosts = {}
       /\ \A p \in Procs : pc[p] = "listen" => file = p /\ Hosts = {}

LEMMA SerialInvInductive == SerialInv /\ [MeetNext]_meetVars => SerialInv'
<1> SUFFICES ASSUME SerialInv, [MeetNext]_meetVars
             PROVE  SerialInv'
  OBVIOUS
<1> USE NoFileAssumption DEF SerialInv, MeetTypeOK, Alone, Hosts, Goto, PCs, Starting
<1>1. CASE UNCHANGED meetVars
  BY <1>1 DEF meetVars
<1>2. ASSUME NEW p \in Procs, Start(p)
      PROVE  SerialInv'
  BY <1>2 DEF Start
<1>3. ASSUME NEW p \in Procs, ProbeStaleSocket(p)
      PROVE  SerialInv'
  <2>1. CASE Refused
    <3>1. ~ overlap => Hosts = {}
      BY <2>1 DEF Refused, Connects
    <3>2. QED
      BY <1>3, <2>1, <3>1 DEF ProbeStaleSocket
  <2>2. CASE ~ Refused
    BY <1>3, <2>2 DEF ProbeStaleSocket
  <2>3. QED
    BY <2>1, <2>2
<1>4. ASSUME NEW p \in Procs, RemoveStale(p)
      PROVE  SerialInv'
  BY <1>4 DEF RemoveStale
<1>5. ASSUME NEW p \in Procs, BindWon(p)
      PROVE  SerialInv'
  BY <1>5 DEF BindWon
<1>6. ASSUME NEW p \in Procs, Listen(p)
      PROVE  SerialInv'
  BY <1>6 DEF Listen
<1>7. ASSUME NEW p \in Procs, AddressInUse(p)
      PROVE  SerialInv'
  BY <1>7 DEF AddressInUse
<1>8. ASSUME NEW p \in Procs, Dial(p)
      PROVE  SerialInv'
  BY <1>8 DEF Dial
<1>9. ASSUME NEW p \in Procs, Crash(p)
      PROVE  SerialInv'
  BY <1>9, MaxFaultsAssumption DEF Crash
<1>10. ASSUME NEW p \in Procs, CleanExit(p)
      PROVE  SerialInv'
  BY <1>10, MaxFaultsAssumption DEF CleanExit
<1>11. QED
  BY <1>1, <1>2, <1>3, <1>4, <1>5, <1>6, <1>7, <1>8, <1>9, <1>10 DEF MeetNext, Boot

LEMMA SerialInvInitially == MeetInit => SerialInv
<1> SUFFICES ASSUME MeetInit
             PROVE  SerialInv
  OBVIOUS
<1>1. MeetTypeOK
  BY DEF MeetInit, MeetTypeOK, PCs
<1>2. \A p \in Procs : pc[p] = "down"
  BY DEF MeetInit
<1>3. Hosts = {} /\ Alone
  BY <1>2 DEF Hosts, Alone, Starting
<1>4. QED
  BY <1>1, <1>2, <1>3 DEF SerialInv

(* The state of the rendezvous stays well formed: a process is at one of   *)
(* the steps of the bind-or-dial code, and the file is some process's own. *)
THEOREM RendezvousTypes == MeetSpec => []MeetTypeOK
<1>1. SerialInv => MeetTypeOK
  BY DEF SerialInv
<1>2. QED
  BY <1>1, SerialInvInitially, SerialInvInductive, PTL DEF MeetSpec

(* Non-overlapping starts share one tracker, and it stays reachable.       *)
THEOREM SerialStartsShareTracker == MeetSpec => []SerialStartsMeet
<1>1. SerialInv => SerialStartsMeet
  BY DEF SerialInv, SerialStartsMeet
<1>2. QED
  BY <1>1, SerialInvInitially, SerialInvInductive, PTL DEF MeetSpec

(***************************************************************************)
(* What a sender is told (PeerDelivery).  A message goes through stages:   *)
(* until its sender has a connection it has touched nobody; while it is    *)
(* served, how far the inbox is says whom it woke and where it is logged;  *)
(* once its sender is idle again nothing changes it, and what is said of   *)
(* its session stays true because an address never has a life twice.       *)
(***************************************************************************)

\* Messages not yet sent, or still without a connection.
Fresh(m) ==
  \/ sending[m[1]].n < m[2]
  \/ sending[m[1]].n = m[2] /\ sending[m[1]].pc \in {"lookup", "dial"}

\* A sender that is at work has a message; it is served when and only when dialled.
ConnectionAgrees(s, m) ==
  /\ sending[s].pc # "idle" => m \in Messages /\ sentTo[m] \in DOMAIN AddressesOf
  /\ sending[s].pc \in {"dial", "dialled"} => sending[s].to \in AddressesOf[sentTo[m]]
  /\ sending[s].pc = "dialled" <=> serving[s] # "no"

ConnectionsAgree == \A s \in Senders : ConnectionAgrees(s, Message(s))

Untouched(m) == woke[m] = <<>> /\ answer[m] = "none"

FreshAreUntouched == \A m \in Messages : Fresh(m) => Untouched(m)

\* How far the inbox is says whom the message woke and where it is logged.
ServedSoFar(s, m, a) ==
  /\ answer[m] = "none"
  /\ serving[s] # "cut" => a \in up
  /\ serving[s] = "deliver" => woke[m] = <<>>
  /\ serving[s] \in {"woken", "logged"} => woke[m] = <<Session(a)>>
  /\ serving[s] = "woken" => Copies(m, a) = {}
  /\ serving[s] = "logged" => IsOne(Copies(m, a))
  /\ serving[s] = "cut" => \A i \in DOMAIN woke[m] : ~Alive(woke[m][i])

ServingAgrees == \A s \in Senders : serving[s] # "no" => ServedSoFar(s, Message(s), sending[s].to)

LifeIsSpent(m) == \A i \in DOMAIN woke[m] : woke[m][i].life <= lives[woke[m][i].at]
LivesAreSpent == \A m \in Messages : LifeIsSpent(m)

PeerInv ==
  /\ PeerTypeOK /\ ConnectionsAgree /\ FreshAreUntouched /\ ServingAgrees /\ LivesAreSpent
  /\ SendersAreToldTheTruth

LEMMA PeerInvInitially == PeerInit => PeerInv
<1> SUFFICES ASSUME PeerInit
             PROVE  PeerInv
  OBVIOUS
<1> USE DEF PeerInit
<1>1. PeerTypeOK
  BY MaxSendsAssumption DEF PeerTypeOK, Sending, Sessions
<1>2. ConnectionsAgree
  BY DEF ConnectionsAgree, ConnectionAgrees
<1>3. FreshAreUntouched
  BY DEF FreshAreUntouched, Untouched
<1>4. ServingAgrees /\ LivesAreSpent
  BY DEF ServingAgrees, LivesAreSpent, LifeIsSpent
<1>5. SendersAreToldTheTruth
  BY DEF SendersAreToldTheTruth, ToldTruly, LogsWhatWoke
<1>6. QED
  BY <1>1, <1>2, <1>3, <1>4, <1>5 DEF PeerInv

(* A sender at work is named in its own message only, and that is one of Messages. *)
LEMMA MessagesAreTheSenders ==
  ASSUME PeerInv, NEW s \in Senders, sending[s].pc # "idle"
  PROVE  /\ Message(s) \in Messages
         /\ Message(s)[1] = s /\ Message(s)[2] = sending[s].n
         /\ \A t \in Senders : Message(t) = Message(s) => t = s
         /\ sentTo[Message(s)] \in DOMAIN AddressesOf
BY DEF PeerInv, ConnectionsAgree, ConnectionAgrees, Message

LEMMA SessionsTyped ==
  ASSUME PeerInv, NEW a \in Addresses
  PROVE  /\ Session(a) \in Sessions
         /\ Up(a) \/ Announce(a) \/ Die(a) => PeerTypeOK'
<1> USE DEF PeerInv, PeerTypeOK
<1>1. Session(a) \in Sessions
  BY DEF Session, Sessions
<1>2. ASSUME Up(a)
      PROVE  PeerTypeOK'
  <2>1. lives' \in [Addresses -> Nat] /\ inbox' \in [Addresses -> Seq(Messages)]
    BY <1>2 DEF Up
  <2>2. QED
    BY <1>2, <2>1 DEF Up
<1>3. ASSUME Announce(a)
      PROVE  PeerTypeOK'
  <2>1. listed' \in Seq(Addresses)
    BY <1>3 DEF Announce
  <2>2. QED
    BY <1>3, <2>1 DEF Announce
<1>4. ASSUME Die(a)
      PROVE  PeerTypeOK'
  BY <1>4 DEF Die
<1>5. QED
  BY <1>1, <1>2, <1>3, <1>4

LEMMA RemovedTyped ==
  ASSUME NEW S, NEW seq \in Seq(S), NEW i \in DOMAIN seq
  PROVE  RemoveAt(seq, i) \in Seq(S)
BY DEF RemoveAt

LEMMA ExpireTyped ==
  ASSUME PeerInv, NEW i \in DOMAIN listed, Expire(i)
  PROVE  PeerTypeOK'
<1> USE DEF PeerInv, PeerTypeOK
<1>1. listed' \in Seq(Addresses)
  BY RemovedTyped DEF Expire
<1>2. QED
  BY <1>1 DEF Expire

LEMMA ChannelSendTyped ==
  ASSUME PeerInv, NEW s \in Senders, NEW role \in DOMAIN AddressesOf, NEW valid \in BOOLEAN,
         ChannelSend(s, role, valid)
  PROVE  PeerTypeOK'
<1>1. sending[s].n + 1 \in 1..MaxSends /\ <<s, sending[s].n + 1>> \in Messages
  BY MaxSendsAssumption DEF PeerInv, PeerTypeOK, Sending, ChannelSend, Messages
<1>2. QED
  BY <1>1 DEF PeerInv, PeerTypeOK, Sending, ChannelSend

LEMMA SendingTyped ==
  ASSUME PeerInv, NEW s \in Senders,
         LookUp(s) \/ DialPeer(s) \/ WakeFirst(s) \/ Log(s) \/ Ack(s) \/ Cut(s) \/ SenderDies(s)
  PROVE  PeerTypeOK'
<1> USE DEF PeerInv, PeerTypeOK, Sending
<1>1. sending[s].pc # "idle"
  BY DEF LookUp, DialPeer, WakeFirst, Log, Ack, Cut, SenderDies, Serving
<1>2. Message(s) \in Messages
  BY <1>1, MessagesAreTheSenders
<1>3. \A what \in {"unreachable", "acked"} : Tell(s, what) =>
        /\ answer' \in [Messages -> {"none", "invalid", "unreachable", "acked"}]
        /\ sending' \in [Senders -> Sending]
  BY <1>2 DEF Tell, Stops
<1>4. CASE LookUp(s)
  <2>1. CASE Tell(s, "unreachable")
    BY <1>3, <1>4, <2>1 DEF LookUp
  <2>2. ASSUME NEW i \in First(sentTo[Message(s)]),
               sending' = [sending EXCEPT ![s] = [pc |-> "dial", to |-> listed[i], n |-> @.n]] /\ UNCHANGED answer
        PROVE  PeerTypeOK'
    <3>1. listed[i] \in Addresses
      BY DEF First, Lookup
    <3>2. sending' \in [Senders -> Sending]
      BY <2>2, <3>1
    <3>3. QED
      BY <1>4, <2>2, <3>2 DEF LookUp
  <2>3. QED
    BY <1>4, <2>1, <2>2 DEF LookUp
<1>5. CASE DialPeer(s)
  <2>1. CASE sending[s].to \in up
    <3>1. sending' \in [Senders -> Sending]
      <4>1. [pc |-> "dialled", to |-> sending[s].to, n |-> sending[s].n] \in Sending
        OBVIOUS
      <4>2. QED
        BY <1>5, <2>1, <4>1 DEF DialPeer
    <3>2. QED
      BY <1>5, <2>1, <3>1 DEF DialPeer
  <2>2. CASE sending[s].to \notin up
    BY <1>3, <1>5, <2>2 DEF DialPeer
  <2>3. QED
    BY <2>1, <2>2
<1>6. CASE WakeFirst(s)
  <2>1. sending[s].to \in Addresses
    BY <1>1, <1>6, MessagesAreTheSenders DEF ConnectionsAgree, ConnectionAgrees, WakeFirst, Serving, Addresses
  <2>2. Session(sending[s].to) \in Sessions
    BY <2>1, SessionsTyped
  <2>3. woke' \in [Messages -> Seq(Sessions)]
    BY <1>2, <1>6, <2>2 DEF WakeFirst
  <2>4. QED
    BY <1>6, <2>3 DEF WakeFirst
<1>7. CASE Log(s)
  <2>1. sending[s].to \in Addresses
    BY <1>1, <1>7, MessagesAreTheSenders DEF ConnectionsAgree, ConnectionAgrees, Log, Serving, Addresses
  <2>2. inbox' \in [Addresses -> Seq(Messages)]
    BY <1>2, <1>7, <2>1 DEF Log
  <2>3. QED
    BY <1>7, <2>2 DEF Log
<1>8. CASE Ack(s) \/ Cut(s)
  BY <1>3, <1>8 DEF Ack, Cut
<1>9. CASE SenderDies(s)
  <2>1. sending' \in [Senders -> Sending]
    BY <1>9 DEF SenderDies, Stops
  <2>2. QED
    BY <1>9, <2>1 DEF SenderDies
<1>10. QED
  BY <1>4, <1>5, <1>6, <1>7, <1>8, <1>9

(* What a sender was told stays true when nobody it woke comes back to life *)
(* and the inboxes of those that live keep what they have of it.           *)
LEMMA ToldStays ==
  ASSUME PeerInv, NEW m \in Messages,
         woke'[m] = woke[m], answer'[m] = answer[m], sentTo'[m] = sentTo[m],
         \A i \in DOMAIN woke[m] : \A w \in Sessions :
           w = woke[m][i] /\ Alive(w)' =>
             Alive(w) /\ (answer[m] = "acked" => Copies(m, w.at)' = Copies(m, w.at))
  PROVE  ToldTruly(m)'
<1> USE DEF PeerInv
<1>1. ToldTruly(m)
  BY DEF SendersAreToldTheTruth
<1>2. ASSUME NEW i \in DOMAIN woke[m], NEW w, w = woke[m][i]
      PROVE  /\ w.at \in AddressesOf[sentTo[m]]
             /\ answer[m] = "acked" /\ Alive(w)' => IsOne(Copies(m, w.at))'
             /\ answer[m] = "unreachable" => ~Alive(w)'
  <2>1. w \in Sessions
    BY <1>2 DEF PeerTypeOK
  <2>2. QED
    BY <1>1, <1>2, <2>1 DEF ToldTruly, IsOne
<1>3. QED
  BY <1>1, <1>2 DEF ToldTruly, IsOne, Copies, Alive

(* The addresses of the tracker are no part of what a sender is told.      *)
LEMMA ListingKeepsPeers ==
  ASSUME PeerInv, PeerTypeOK', UNCHANGED <<up, lives, inbox, sending, sentTo, serving, woke, answer>>
  PROVE  PeerInv'
<1> USE DEF PeerInv
<1>1. ConnectionsAgree' /\ FreshAreUntouched' /\ LivesAreSpent'
  BY DEF ConnectionsAgree, ConnectionAgrees, FreshAreUntouched, Untouched, Fresh, Message, LivesAreSpent, LifeIsSpent
<1>2. ServingAgrees'
  BY DEF ServingAgrees, ServedSoFar, Message, Session, Copies, IsOne, Alive
<1>3. ASSUME NEW m \in Messages
      PROVE  ToldTruly(m)'
  BY ToldStays DEF Alive, Copies
<1>4. \A a \in Addresses : LogsWhatWoke(a)'
  BY DEF SendersAreToldTheTruth, LogsWhatWoke, Session
<1>5. QED
  BY <1>1, <1>2, <1>3, <1>4 DEF SendersAreToldTheTruth

(* A process that comes up at an address is a new life of it, with an inbox *)
(* of its own: nothing said of an earlier one is said of it.               *)
LEMMA UpKeepsPeers ==
  ASSUME PeerInv, NEW a \in Addresses, Up(a)
  PROVE  PeerInv'
<1> USE DEF PeerInv
<1>1. PeerTypeOK'
  BY SessionsTyped
<1>2. \A b \in Addresses : b # a => Session(b)' = Session(b) /\ inbox'[b] = inbox[b] /\ (b \in up' <=> b \in up)
  BY DEF Up, Session, PeerTypeOK
<1>3. \A m \in Messages : \A b \in Addresses : b # a => Copies(m, b)' = Copies(m, b)
  BY <1>2 DEF Copies
<1>4. \A m \in Messages : \A i \in DOMAIN woke[m] :
        /\ woke[m][i] \in Sessions
        /\ Alive(woke[m][i])' => Alive(woke[m][i]) /\ woke[m][i].at # a
        /\ woke[m][i].life <= lives'[woke[m][i].at]
  <2> TAKE m \in Messages
  <2> TAKE i \in DOMAIN woke[m]
  <2>1. woke[m][i] \in Sessions /\ woke[m][i].life <= lives[woke[m][i].at]
    BY DEF PeerTypeOK, LivesAreSpent, LifeIsSpent
  <2>2. CASE woke[m][i].at = a
    BY <2>1, <2>2 DEF PeerTypeOK, Up, Alive, Sessions
  <2>3. CASE woke[m][i].at # a
    BY <2>1, <2>3 DEF PeerTypeOK, Up, Alive, Sessions
  <2>4. QED
    BY <2>2, <2>3, <2>1
<1>5. ConnectionsAgree' /\ FreshAreUntouched'
  BY DEF ConnectionsAgree, ConnectionAgrees, FreshAreUntouched, Untouched, Fresh, Message, Up
<1>6. ServingAgrees'
  <2> SUFFICES ASSUME NEW s \in Senders, serving[s] # "no"
               PROVE  ServedSoFar(s, Message(s), sending[s].to)'
    BY DEF ServingAgrees, Up
  <2>1. Message(s)' = Message(s) /\ Message(s) \in Messages /\ sending[s].to \in Addresses
    BY DEF ConnectionsAgree, ConnectionAgrees, Message, Up, Addresses
  <2>2. ServedSoFar(s, Message(s), sending[s].to)
    BY DEF ServingAgrees
  <2>3. CASE serving[s] = "cut"
    BY <1>4, <2>1, <2>2, <2>3 DEF ServedSoFar, Up
  <2>4. CASE serving[s] # "cut"
    <3>1. sending[s].to # a
      BY <2>2, <2>4 DEF ServedSoFar, Up
    <3>2. QED
      BY <1>2, <1>3, <2>1, <2>2, <2>4, <3>1 DEF ServedSoFar, Up
  <2>5. QED
    BY <2>3, <2>4
<1>7. LivesAreSpent'
  BY <1>4 DEF LivesAreSpent, LifeIsSpent, Up
<1>8. ASSUME NEW m \in Messages
      PROVE  ToldTruly(m)'
  <2>1. UNCHANGED <<woke, answer, sentTo>>
    BY DEF Up
  <2>2. ASSUME NEW i \in DOMAIN woke[m], NEW w \in Sessions, w = woke[m][i], Alive(w)'
        PROVE  Alive(w) /\ Copies(m, w.at)' = Copies(m, w.at)
    <3>1. Alive(w) /\ w.at # a
      BY <1>4, <2>1, <2>2 DEF Alive
    <3>2. QED
      BY <1>3, <3>1 DEF Sessions
  <2>3. QED
    BY <2>1, <2>2, ToldStays
<1>9. ASSUME NEW b \in Addresses
      PROVE  LogsWhatWoke(b)'
  <2>1. CASE b = a
    BY <2>1 DEF LogsWhatWoke, Up, PeerTypeOK
  <2>2. CASE b # a
    BY <1>2, <2>2 DEF LogsWhatWoke, Up, SendersAreToldTheTruth
  <2>3. QED
    BY <2>1, <2>2
<1>10. QED
  BY <1>1, <1>5, <1>6, <1>7, <1>8, <1>9 DEF SendersAreToldTheTruth

(* With a process, its connections end: what they were serving is cut off. *)
LEMMA DieKeepsPeers ==
  ASSUME PeerInv, NEW a \in Addresses, Die(a)
  PROVE  PeerInv'
<1> USE DEF PeerInv
<1>1. PeerTypeOK'
  BY SessionsTyped
<1>2. \A w \in Sessions : Alive(w)' => Alive(w) /\ w.at # a
  BY DEF Die, Alive
<1>3. \A s \in Senders : Message(s)' = Message(s) /\ (serving'[s] # "no" <=> serving[s] # "no")
  BY DEF Die, Message, ConnectionsAgree, ConnectionAgrees, PeerTypeOK
<1>4. ConnectionsAgree' /\ FreshAreUntouched' /\ LivesAreSpent'
  BY <1>3 DEF ConnectionsAgree, ConnectionAgrees, FreshAreUntouched, Untouched, Fresh, LivesAreSpent, LifeIsSpent, Die, Message
<1>5. ASSUME NEW s \in Senders, serving[s] # "no", NEW m, m = Message(s), NEW b, b = sending[s].to
      PROVE  ServedSoFar(s, m, b)'
  <2>1. sending[s].pc = "dialled" /\ m \in Messages /\ ServedSoFar(s, m, b)
    BY <1>5 DEF ServingAgrees, ConnectionsAgree, ConnectionAgrees
  <2>2. \A i \in DOMAIN woke[m] : woke[m][i] \in Sessions
    BY <2>1 DEF PeerTypeOK
  <2>3. \A i \in DOMAIN woke[m] : Alive(woke[m][i])' => Alive(woke[m][i]) /\ woke[m][i].at # a
    BY <1>2, <2>2 DEF Die, Alive
  <2>4. CASE b = a
    <3>1. serving'[s] = "cut"
      BY <1>5, <2>1, <2>4 DEF Die
    <3>2. \A i \in DOMAIN woke[m] : woke[m][i].at = a \/ ~Alive(woke[m][i])
      <4>1. CASE serving[s] = "cut"
        BY <2>1, <4>1 DEF ServedSoFar
      <4>2. CASE serving[s] = "deliver"
        BY <2>1, <4>2 DEF ServedSoFar
      <4>3. CASE serving[s] \in {"woken", "logged"}
        <5>1. woke[m] = <<[at |-> a, life |-> lives[a]]>>
          BY <2>1, <2>4, <4>3 DEF ServedSoFar, Session
        <5>2. DOMAIN woke[m] = {1} /\ woke[m][1].at = a
          BY <5>1
        <5>3. QED
          BY <5>2
      <4>4. QED
        BY <1>5, <4>1, <4>2, <4>3 DEF PeerTypeOK
    <3>3. \A i \in DOMAIN woke[m] : ~Alive(woke[m][i])'
      BY <2>3, <3>2
    <3>4. QED
      BY <2>1, <3>1, <3>3 DEF ServedSoFar, Die, Alive
  <2>5. CASE b # a
    <3>1. serving'[s] = serving[s]
      BY <1>5, <2>5 DEF Die
    <3>2. /\ b \in up' <=> b \in up
          /\ Session(b)' = Session(b)
          /\ Copies(m, b)' = Copies(m, b)
      BY <2>5 DEF Die, Session, Copies
    <3>3. QED
      BY <2>1, <2>3, <3>1, <3>2 DEF ServedSoFar, Die, IsOne, Alive
  <2>6. QED
    BY <2>4, <2>5
<1>6. ServingAgrees'
  BY <1>3, <1>5 DEF ServingAgrees, Die
<1>7. ASSUME NEW m \in Messages
      PROVE  ToldTruly(m)'
  BY <1>2, ToldStays DEF Die, Copies
<1>8. \A b \in Addresses : LogsWhatWoke(b)'
  BY DEF SendersAreToldTheTruth, LogsWhatWoke, Session, Die
<1>9. QED
  BY <1>1, <1>4, <1>6, <1>7, <1>8 DEF SendersAreToldTheTruth

(* A step of one sender touches its own message and connection only.       *)
LEMMA OneSenderActs ==
  ASSUME PeerInv, PeerTypeOK', NEW s \in Senders, NEW m \in Messages, m = Message(s), sending[s].pc # "idle",
         UNCHANGED <<up, lives, sentTo>>,
         sending'[s].n = sending[s].n,
         \A t \in Senders \ {s} : sending'[t] = sending[t] /\ serving'[t] = serving[t],
         \A k \in Messages \ {m} : /\ woke'[k] = woke[k] /\ answer'[k] = answer[k]
                                   /\ \A a \in Addresses : Copies(k, a)' = Copies(k, a),
         ConnectionAgrees(s, m)', Fresh(m)' => Untouched(m)',
         \A a : a = sending'[s].to /\ serving'[s] # "no" => ServedSoFar(s, m, a)',
         LifeIsSpent(m)', ToldTruly(m)', \A a \in Addresses : LogsWhatWoke(a)'
  PROVE  PeerInv'
<1> USE DEF PeerInv
<1>1. /\ m[1] = s /\ m[2] = sending[s].n /\ Message(s)' = m
      /\ \A t \in Senders \ {s} : Message(t) # m /\ Message(t)' = Message(t)
  BY DEF Message
<1>2. ConnectionsAgree'
  <2> SUFFICES ASSUME NEW t \in Senders, NEW k, k = Message(t)'
               PROVE  ConnectionAgrees(t, k)'
    BY DEF ConnectionsAgree, ConnectionAgrees
  <2>1. CASE t = s
    BY <1>1, <2>1
  <2>2. CASE t # s
    BY <1>1, <2>2 DEF ConnectionsAgree, ConnectionAgrees
  <2>3. QED
    BY <2>1, <2>2
<1>3. FreshAreUntouched'
  <2> SUFFICES ASSUME NEW k \in Messages, k # m, Fresh(k)'
               PROVE  Untouched(k)'
    BY DEF FreshAreUntouched
  <2>1. k[1] \in Senders /\ (k[1] = s => k[2] # sending[s].n)
    BY <1>1 DEF Messages
  <2>2. Fresh(k)
    BY <2>1 DEF Fresh
  <2>3. QED
    BY <2>2 DEF FreshAreUntouched, Untouched
<1>4. ServingAgrees'
  <2> SUFFICES ASSUME NEW t \in Senders, serving'[t] # "no", NEW k, k = Message(t)', NEW a, a = sending'[t].to
               PROVE  ServedSoFar(t, k, a)'
    BY DEF ServingAgrees, ServedSoFar, Alive, Copies, IsOne, Session
  <2>1. CASE t = s
    BY <1>1, <2>1
  <2>2. CASE t # s
    <3>1. /\ serving[t] # "no" /\ k = Message(t) /\ a = sending[t].to /\ k # m
          /\ sending[t].pc = "dialled"
      BY <1>1, <2>2 DEF ConnectionsAgree, ConnectionAgrees
    <3>2. k \in Messages /\ a \in Addresses /\ ServedSoFar(t, k, a)
      BY <3>1 DEF ServingAgrees, ConnectionsAgree, ConnectionAgrees, Addresses
    <3>3. Copies(k, a)' = Copies(k, a)
      BY <3>1, <3>2
    <3>4. QED
      BY <2>2, <3>1, <3>2, <3>3 DEF ServedSoFar, Session, Alive, IsOne
  <2>3. QED
    BY <2>1, <2>2
<1>5. LivesAreSpent'
  BY DEF LivesAreSpent, LifeIsSpent
<1>6. ASSUME NEW k \in Messages, k # m
      PROVE  ToldTruly(k)'
  <2>1. ASSUME NEW w \in Sessions, Alive(w)'
        PROVE  Alive(w) /\ Copies(k, w.at)' = Copies(k, w.at)
    BY <1>6, <2>1 DEF Alive, Sessions
  <2>2. QED
    BY <1>6, <2>1, ToldStays
<1>7. QED
  BY <1>2, <1>3, <1>4, <1>5, <1>6 DEF SendersAreToldTheTruth

(* What is so of a sender at work and its message before it acts.          *)
LEMMA AtWork ==
  ASSUME PeerInv, NEW s \in Senders, sending[s].pc # "idle"
  PROVE  \E m \in Messages :
           /\ m = Message(s) /\ m[1] = s /\ m[2] = sending[s].n
           /\ ConnectionAgrees(s, m) /\ LifeIsSpent(m) /\ ToldTruly(m)
           /\ sending[s].pc # "dialled" => Untouched(m)
           /\ sending[s].pc = "dialled" =>
                sending[s].to \in Addresses /\ ServedSoFar(s, m, sending[s].to)
<1> USE DEF PeerInv
<1>1. Message(s) \in Messages /\ Message(s)[1] = s /\ Message(s)[2] = sending[s].n
  BY MessagesAreTheSenders
<1>2. ConnectionAgrees(s, Message(s)) /\ LifeIsSpent(Message(s)) /\ ToldTruly(Message(s))
  BY <1>1 DEF ConnectionsAgree, LivesAreSpent, SendersAreToldTheTruth
<1>3. sending[s].pc # "dialled" => Untouched(Message(s))
  BY <1>1 DEF FreshAreUntouched, Fresh, PeerTypeOK, Sending
<1>4. sending[s].pc = "dialled" => sending[s].to \in Addresses /\ ServedSoFar(s, Message(s), sending[s].to)
  BY <1>1, <1>2 DEF ConnectionAgrees, ServingAgrees, Addresses
<1>5. QED
  BY <1>1, <1>2, <1>3, <1>4

LEMMA LookUpKeepsPeers ==
  ASSUME PeerInv, NEW s \in Senders, LookUp(s)
  PROVE  PeerInv'
<1> USE DEF PeerInv
<1>1. PeerTypeOK' /\ sending[s].pc = "lookup"
  BY SendingTyped DEF LookUp
<1>2. PICK m \in Messages : /\ m = Message(s) /\ m[1] = s /\ m[2] = sending[s].n
                            /\ ConnectionAgrees(s, m) /\ LifeIsSpent(m) /\ ToldTruly(m) /\ Untouched(m)
  BY <1>1, AtWork
<1>3. /\ UNCHANGED <<up, lives, inbox, sentTo, serving, woke>>
      /\ \A k \in Messages : \A a \in Addresses : Copies(k, a)' = Copies(k, a)
      /\ \A t \in Senders \ {s} : sending'[t] = sending[t]
      /\ \A k \in Messages \ {m} : answer'[k] = answer[k]
      /\ sending'[s].n = sending[s].n
  BY <1>2 DEF LookUp, Tell, Stops, Copies, PeerTypeOK
<1>4. \A a \in Addresses : LogsWhatWoke(a)'
  BY <1>3 DEF SendersAreToldTheTruth, LogsWhatWoke, Session
<1>5. LifeIsSpent(m)' /\ ToldTruly(m)'
  BY <1>2, <1>3 DEF LifeIsSpent, ToldTruly, Untouched, LookUp, Tell, PeerTypeOK
<1>6. CASE Tell(s, "unreachable")
  <2>1. sending'[s].pc = "idle"
    BY <1>6 DEF Tell, Stops, PeerTypeOK
  <2>2. ConnectionAgrees(s, m)' /\ ~Fresh(m)' /\ serving'[s] = "no"
    BY <1>1, <1>2, <1>3, <2>1 DEF ConnectionAgrees, Fresh, PeerTypeOK, Sending
  <2>3. QED
    BY <1>1, <1>2, <1>3, <1>4, <1>5, <2>2, OneSenderActs
<1>7. ASSUME NEW i \in First(sentTo[m]),
             sending' = [sending EXCEPT ![s] = [pc |-> "dial", to |-> listed[i], n |-> @.n]], answer' = answer
      PROVE  PeerInv'
  <2>1. sending'[s].pc = "dial" /\ sending'[s].to \in AddressesOf[sentTo[m]]
    BY <1>7 DEF First, Lookup, PeerTypeOK
  <2>2. ConnectionAgrees(s, m)' /\ Untouched(m)' /\ serving'[s] = "no"
    BY <1>1, <1>2, <1>3, <1>7, <2>1 DEF ConnectionAgrees, Untouched
  <2>3. QED
    BY <1>1, <1>2, <1>3, <1>4, <1>5, <2>2, OneSenderActs
<1>8. QED
  BY <1>2, <1>6, <1>7 DEF LookUp

LEMMA DialKeepsPeers ==
  ASSUME PeerInv, NEW s \in Senders, DialPeer(s)
  PROVE  PeerInv'
<1> USE DEF PeerInv
<1>1. PeerTypeOK' /\ sending[s].pc = "dial"
  BY SendingTyped DEF DialPeer
<1>2. PICK m \in Messages : /\ m = Message(s) /\ m[1] = s /\ m[2] = sending[s].n
                            /\ ConnectionAgrees(s, m) /\ LifeIsSpent(m) /\ ToldTruly(m) /\ Untouched(m)
  BY <1>1, AtWork
<1>3. /\ UNCHANGED <<up, lives, inbox, sentTo, woke>>
      /\ \A k \in Messages : \A a \in Addresses : Copies(k, a)' = Copies(k, a)
      /\ \A t \in Senders \ {s} : sending'[t] = sending[t] /\ serving'[t] = serving[t]
      /\ \A k \in Messages \ {m} : answer'[k] = answer[k]
      /\ sending'[s].n = sending[s].n
  BY <1>2 DEF DialPeer, Tell, Stops, Copies, PeerTypeOK
<1>4. \A a \in Addresses : LogsWhatWoke(a)'
  BY <1>3 DEF SendersAreToldTheTruth, LogsWhatWoke, Session
<1>5. LifeIsSpent(m)' /\ ToldTruly(m)'
  BY <1>2, <1>3 DEF LifeIsSpent, ToldTruly, Untouched, DialPeer, Tell, PeerTypeOK
<1>6. CASE sending[s].to \notin up
  <2>1. sending'[s].pc = "idle" /\ serving' = serving
    BY <1>6 DEF DialPeer, Tell, Stops, PeerTypeOK
  <2>2. ConnectionAgrees(s, m)' /\ ~Fresh(m)' /\ serving'[s] = "no"
    BY <1>1, <1>2, <1>3, <2>1 DEF ConnectionAgrees, Fresh, PeerTypeOK, Sending
  <2>3. QED
    BY <1>1, <1>2, <1>3, <1>4, <1>5, <2>2, OneSenderActs
<1>7. CASE sending[s].to \in up
  <2>1. sending'[s].pc = "dialled" /\ sending'[s].to = sending[s].to /\ serving'[s] = "deliver" /\ answer' = answer
    BY <1>7 DEF DialPeer, PeerTypeOK
  <2>2. ConnectionAgrees(s, m)' /\ ~Fresh(m)'
    BY <1>1, <1>2, <1>3, <2>1 DEF ConnectionAgrees, Fresh, PeerTypeOK, Sending
  <2>3. \A a : a = sending'[s].to => ServedSoFar(s, m, a)'
    BY <1>2, <1>3, <1>7, <2>1 DEF ServedSoFar, Untouched
  <2>4. QED
    BY <1>1, <1>2, <1>3, <1>4, <1>5, <2>2, <2>3, OneSenderActs
<1>8. QED
  BY <1>6, <1>7

LEMMA WakeKeepsPeers ==
  ASSUME PeerInv, NEW s \in Senders, WakeFirst(s)
  PROVE  PeerInv'
<1> USE DEF PeerInv
<1>1. PeerTypeOK' /\ sending[s].pc = "dialled" /\ serving[s] = "deliver"
  BY SendingTyped DEF WakeFirst, Serving
<1>2. PICK m \in Messages : /\ m = Message(s) /\ m[1] = s /\ m[2] = sending[s].n
                            /\ ConnectionAgrees(s, m) /\ LifeIsSpent(m) /\ ToldTruly(m)
                            /\ sending[s].to \in Addresses /\ ServedSoFar(s, m, sending[s].to)
  BY <1>1, AtWork
<1>0. PICK a \in Addresses : a = sending[s].to
  BY <1>2
<1>3. /\ UNCHANGED <<up, lives, inbox, sending, sentTo, answer>>
      /\ \A k \in Messages : \A b \in Addresses : Copies(k, b)' = Copies(k, b)
      /\ \A t \in Senders \ {s} : serving'[t] = serving[t]
      /\ \A k \in Messages \ {m} : woke'[k] = woke[k]
  BY <1>2 DEF WakeFirst, Copies, PeerTypeOK
<1>4. woke[m] = <<>> /\ answer[m] = "none" /\ a \in up
  BY <1>0, <1>1, <1>2 DEF ServedSoFar
<1>5. serving'[s] = "woken" /\ woke'[m] = <<Session(a)>>
  BY <1>0, <1>2, <1>4 DEF WakeFirst, PeerTypeOK
<1>6. Session(a) \in Sessions /\ Session(a).at = a /\ Session(a).life = lives[a]
  BY <1>2, SessionsTyped DEF Session
<1>7. \A b \in Addresses : \A i \in DOMAIN inbox[b] : inbox[b][i] # m
  <2> SUFFICES ASSUME NEW b \in Addresses, NEW i \in DOMAIN inbox[b], inbox[b][i] = m
               PROVE  FALSE
    OBVIOUS
  <2>1. woke[m] = <<Session(b)>>
    BY DEF SendersAreToldTheTruth, LogsWhatWoke
  <2>2. 1 \in DOMAIN woke[m]
    BY <2>1
  <2>3. 1 \notin DOMAIN woke[m]
    BY <1>4
  <2>4. QED
    BY <2>2, <2>3
<1>8. \A b \in Addresses : LogsWhatWoke(b)'
  <2> TAKE b \in Addresses
  <2>1. \A i \in DOMAIN inbox[b] : inbox[b][i] \in Messages \ {m}
    BY <1>7 DEF PeerTypeOK
  <2>2. QED
    BY <1>3, <2>1 DEF SendersAreToldTheTruth, LogsWhatWoke, Session
<1>9. DOMAIN woke'[m] = {1} /\ woke'[m][1] = Session(a) /\ Len(woke'[m]) = 1
  BY <1>5
<1>10. LifeIsSpent(m)'
  BY <1>2, <1>3, <1>6, <1>9 DEF LifeIsSpent, PeerTypeOK
<1>11. ToldTruly(m)'
  BY <1>0, <1>1, <1>2, <1>3, <1>4, <1>6, <1>9 DEF ToldTruly, ConnectionAgrees
<1>12. ConnectionAgrees(s, m)' /\ ~Fresh(m)'
  BY <1>1, <1>2, <1>3, <1>5 DEF ConnectionAgrees, Fresh, PeerTypeOK, Sending
<1>13. Copies(m, a) = {}
  BY <1>2, <1>7 DEF Copies
<1>14. \A b : b = sending'[s].to => ServedSoFar(s, m, b)'
  BY <1>0, <1>2, <1>3, <1>4, <1>5, <1>13 DEF ServedSoFar, Session
<1>15. QED
  BY <1>1, <1>2, <1>3, <1>8, <1>10, <1>11, <1>12, <1>14, OneSenderActs

LEMMA LogKeepsPeers ==
  ASSUME PeerInv, NEW s \in Senders, Log(s)
  PROVE  PeerInv'
<1> USE DEF PeerInv
<1>1. PeerTypeOK' /\ sending[s].pc = "dialled" /\ serving[s] = "woken"
  BY SendingTyped DEF Log, Serving
<1>2. PICK m \in Messages : /\ m = Message(s) /\ m[1] = s /\ m[2] = sending[s].n
                            /\ ConnectionAgrees(s, m) /\ LifeIsSpent(m) /\ ToldTruly(m)
                            /\ sending[s].to \in Addresses /\ ServedSoFar(s, m, sending[s].to)
  BY <1>1, AtWork
<1>0. PICK a \in Addresses : a = sending[s].to
  BY <1>2
<1>3. /\ UNCHANGED <<up, lives, sending, sentTo, woke, answer>>
      /\ \A t \in Senders \ {s} : serving'[t] = serving[t]
      /\ serving'[s] = "logged"
  BY DEF Log, PeerTypeOK
<1>4. answer[m] = "none" /\ a \in up /\ woke[m] = <<Session(a)>> /\ Copies(m, a) = {}
  BY <1>0, <1>1, <1>2 DEF ServedSoFar
<1>5. /\ inbox[a] \in Seq(Messages) /\ inbox'[a] = Append(inbox[a], m)
      /\ \A b \in Addresses \ {a} : inbox'[b] = inbox[b]
  BY <1>0, <1>2 DEF Log, PeerTypeOK
<1>6. /\ Len(inbox[a]) \in Nat /\ DOMAIN inbox[a] = 1..Len(inbox[a])
      /\ DOMAIN inbox'[a] = 1..(Len(inbox[a]) + 1) /\ inbox'[a][Len(inbox[a]) + 1] = m
      /\ \A i \in 1..Len(inbox[a]) : inbox'[a][i] = inbox[a][i]
  BY <1>5
<1>7. \A k \in Messages \ {m} : \A b \in Addresses : Copies(k, b)' = Copies(k, b)
  BY <1>5, <1>6 DEF Copies
<1>8. Copies(m, a)' = {Len(inbox[a]) + 1}
  BY <1>4, <1>6, <1>3 DEF Copies
<1>9. \A b \in Addresses : LogsWhatWoke(b)'
  <2> TAKE b \in Addresses
  <2>1. LogsWhatWoke(b)
    BY DEF SendersAreToldTheTruth
  <2>2. CASE b = a
    <3>1. \A i \in DOMAIN inbox'[a] : (i \in DOMAIN inbox[a] /\ inbox'[a][i] = inbox[a][i]) \/ inbox'[a][i] = m
      BY <1>6
    <3>2. QED
      BY <1>3, <1>4, <2>1, <2>2, <3>1 DEF LogsWhatWoke, Session
  <2>3. CASE b # a
    BY <1>3, <1>5, <2>1, <2>3 DEF LogsWhatWoke, Session
  <2>4. QED
    BY <2>2, <2>3
<1>10. LifeIsSpent(m)' /\ ConnectionAgrees(s, m)' /\ ~Fresh(m)'
  BY <1>1, <1>2, <1>3 DEF LifeIsSpent, ConnectionAgrees, Fresh, PeerTypeOK, Sending
<1>11. ToldTruly(m)'
  BY <1>2, <1>3, <1>4 DEF ToldTruly
<1>12. \A b : b = sending'[s].to => ServedSoFar(s, m, b)'
  BY <1>0, <1>3, <1>4, <1>8 DEF ServedSoFar, Session, IsOne
<1>13. QED
  BY <1>1, <1>2, <1>3, <1>7, <1>9, <1>10, <1>11, <1>12, OneSenderActs

(* The end of a message: it is told, or its sender is gone.                *)
LEMMA EndKeepsPeers ==
  ASSUME PeerInv, NEW s \in Senders, Ack(s) \/ Cut(s) \/ SenderDies(s)
  PROVE  PeerInv'
<1> USE DEF PeerInv
<1>1. PeerTypeOK' /\ sending[s].pc # "idle"
  BY SendingTyped DEF Ack, Cut, SenderDies, Serving
<1>2. PICK m \in Messages : /\ m = Message(s) /\ m[1] = s /\ m[2] = sending[s].n
                            /\ ConnectionAgrees(s, m) /\ LifeIsSpent(m) /\ ToldTruly(m)
                            /\ sending[s].pc # "dialled" => Untouched(m)
                            /\ sending[s].pc = "dialled" =>
                                 sending[s].to \in Addresses /\ ServedSoFar(s, m, sending[s].to)
  BY <1>1, AtWork
<1>3. /\ UNCHANGED <<up, lives, inbox, sentTo, woke>>
      /\ \A k \in Messages : \A b \in Addresses : Copies(k, b)' = Copies(k, b)
      /\ \A t \in Senders \ {s} : sending'[t] = sending[t] /\ serving'[t] = serving[t]
      /\ \A k \in Messages \ {m} : answer'[k] = answer[k]
      /\ sending'[s].n = sending[s].n /\ sending'[s].pc = "idle" /\ serving'[s] = "no"
  BY <1>2 DEF Ack, Cut, SenderDies, Tell, Stops, Copies, PeerTypeOK
<1>4. \A a \in Addresses : LogsWhatWoke(a)'
  BY <1>3 DEF SendersAreToldTheTruth, LogsWhatWoke, Session
<1>5. LifeIsSpent(m)' /\ ConnectionAgrees(s, m)' /\ ~Fresh(m)'
  BY <1>1, <1>2, <1>3 DEF LifeIsSpent, ConnectionAgrees, Fresh, PeerTypeOK, Sending
<1>6. ToldTruly(m)'
  <2>1. CASE Ack(s)
    <3>1. PICK a \in Addresses : a = sending[s].to
      BY <1>2, <2>1 DEF Ack, Serving
    <3>2. answer'[m] = "acked" /\ woke[m] = <<Session(a)>> /\ IsOne(Copies(m, a))
      BY <1>2, <2>1, <3>1 DEF Ack, Serving, Tell, ServedSoFar, PeerTypeOK
    <3>3. DOMAIN woke[m] = {1} /\ Len(woke[m]) = 1 /\ woke[m][1].at = a
      BY <3>2 DEF Session
    <3>4. a \in AddressesOf[sentTo[m]]
      BY <1>2, <3>3 DEF ToldTruly
    <3>5. IsOne(Copies(m, a))'
      BY <1>3, <3>2 DEF IsOne
    <3>6. QED
      BY <1>3, <3>2, <3>3, <3>4, <3>5 DEF ToldTruly, IsOne, Copies
  <2>2. CASE Cut(s)
    <3>1. answer'[m] = "unreachable" /\ \A i \in DOMAIN woke[m] : ~Alive(woke[m][i])
      BY <1>2, <2>2 DEF Cut, Serving, Tell, ServedSoFar, PeerTypeOK
    <3>2. QED
      BY <1>2, <1>3, <3>1 DEF ToldTruly, Alive
  <2>3. CASE SenderDies(s)
    BY <1>2, <1>3, <2>3, ToldStays DEF SenderDies, Alive, Sessions
  <2>4. QED
    BY <2>1, <2>2, <2>3
<1>7. QED
  BY <1>1, <1>2, <1>3, <1>4, <1>5, <1>6, OneSenderActs

(* A new message is one nothing has been said of yet.                      *)
LEMMA SendKeepsPeers ==
  ASSUME PeerInv, NEW s \in Senders, NEW role \in DOMAIN AddressesOf, NEW valid \in BOOLEAN,
         ChannelSend(s, role, valid)
  PROVE  PeerInv'
<1> USE DEF PeerInv
<1> DEFINE n == sending[s].n + 1
<1>1. PeerTypeOK' /\ sending[s].pc = "idle" /\ sending[s].n \in 0..MaxSends /\ n \in 1..MaxSends
  <2>1. PeerTypeOK' /\ sending[s] \in Sending
    BY ChannelSendTyped DEF PeerTypeOK
  <2>2. QED
    BY <2>1, MaxSendsAssumption DEF ChannelSend, Sending
<1>2. PICK m \in Messages : m = <<s, n>> /\ m[1] = s /\ m[2] = n
  <2>1. <<s, n>> \in Messages
    BY <1>1 DEF Messages
  <2>2. QED
    BY <2>1
<1>3. Fresh(m) /\ Untouched(m)
  BY <1>1, <1>2 DEF Fresh, FreshAreUntouched
<1>4. /\ UNCHANGED <<up, lives, inbox, serving, woke>>
      /\ \A t \in Senders \ {s} : sending'[t] = sending[t]
      /\ \A k \in Messages \ {m} : answer'[k] = answer[k] /\ sentTo'[k] = sentTo[k]
      /\ sending'[s].n = n /\ sending'[s].pc = (IF valid THEN "lookup" ELSE "idle") /\ sending'[s].to = "none"
      /\ sentTo'[m] = role /\ answer'[m] = (IF valid THEN "none" ELSE "invalid")
  BY <1>2, <1>3 DEF ChannelSend, PeerTypeOK, Untouched
<1>5. /\ Message(s)' = m /\ serving[s] = "no"
      /\ \A t \in Senders \ {s} : Message(t)' = Message(t) /\ Message(t) # m
  BY <1>1, <1>2, <1>4 DEF Message, ConnectionsAgree, ConnectionAgrees
<1>6. ConnectionsAgree'
  <2> SUFFICES ASSUME NEW t \in Senders, NEW k, k = Message(t)'
               PROVE  ConnectionAgrees(t, k)'
    BY DEF ConnectionsAgree, ConnectionAgrees
  <2>1. CASE t = s
    BY <1>2, <1>4, <1>5, <2>1 DEF ConnectionAgrees
  <2>2. CASE t # s
    BY <1>4, <1>5, <2>2 DEF ConnectionsAgree, ConnectionAgrees
  <2>3. QED
    BY <2>1, <2>2
<1>7. FreshAreUntouched'
  <2> SUFFICES ASSUME NEW k \in Messages, Fresh(k)'
               PROVE  Untouched(k)'
    BY DEF FreshAreUntouched
  <2>1. k[1] \in Senders /\ k[2] \in Nat /\ k = <<k[1], k[2]>>
    BY DEF Messages
  <2>2. CASE k = m
    BY <1>1, <1>2, <1>3, <1>4, <2>2 DEF Fresh, Untouched
  <2>3. CASE k # m
    <3>1. Fresh(k)
      BY <1>1, <1>2, <1>4, <2>1, <2>3 DEF Fresh
    <3>2. QED
      BY <1>4, <2>3, <3>1 DEF FreshAreUntouched, Untouched
  <2>4. QED
    BY <2>2, <2>3
<1>8. ServingAgrees'
  <2> SUFFICES ASSUME NEW t \in Senders, serving'[t] # "no", NEW k, k = Message(t)', NEW a, a = sending'[t].to
               PROVE  ServedSoFar(t, k, a)'
    BY DEF ServingAgrees, ServedSoFar, Alive, Copies, IsOne, Session
  <2>1. t # s /\ serving[t] # "no" /\ sending[t].pc = "dialled"
    BY <1>4, <1>5 DEF ConnectionsAgree, ConnectionAgrees
  <2>2. /\ k = Message(t) /\ a = sending[t].to /\ k \in Messages \ {m}
        /\ ServedSoFar(t, k, a)
    BY <1>4, <1>5, <2>1 DEF ServingAgrees, ConnectionsAgree, ConnectionAgrees
  <2>3. QED
    BY <1>4, <2>2 DEF ServedSoFar, Session, Alive, Copies, IsOne
<1>9. LivesAreSpent'
  BY <1>4 DEF LivesAreSpent, LifeIsSpent
<1>10. ASSUME NEW k \in Messages
       PROVE  ToldTruly(k)'
  <2>1. CASE k = m
    BY <1>3, <1>4, <2>1 DEF ToldTruly, Untouched
  <2>2. CASE k # m
    BY <1>4, <2>2, ToldStays DEF Alive, Copies
  <2>3. QED
    BY <2>1, <2>2
<1>11. \A a \in Addresses : LogsWhatWoke(a)'
  BY <1>4 DEF SendersAreToldTheTruth, LogsWhatWoke, Session
<1>12. QED
  BY <1>1, <1>6, <1>7, <1>8, <1>9, <1>10, <1>11 DEF SendersAreToldTheTruth

LEMMA PeerInvInductive == PeerInv /\ [PeerNext]_peerVars => PeerInv'
<1> SUFFICES ASSUME PeerInv, [PeerNext]_peerVars
             PROVE  PeerInv'
  OBVIOUS
<1>1. CASE UNCHANGED peerVars
  <2>1. PeerTypeOK'
    BY <1>1 DEF peerVars, PeerInv, PeerTypeOK
  <2>2. QED
    BY <1>1, <2>1, ListingKeepsPeers DEF peerVars
<1>2. ASSUME NEW a \in Addresses, Up(a)
      PROVE  PeerInv'
  BY <1>2, UpKeepsPeers
<1>3. ASSUME NEW a \in Addresses, Announce(a)
      PROVE  PeerInv'
  BY <1>3, SessionsTyped, ListingKeepsPeers DEF Announce
<1>4. ASSUME NEW a \in Addresses, Die(a)
      PROVE  PeerInv'
  BY <1>4, DieKeepsPeers
<1>5. ASSUME NEW i \in DOMAIN listed, Expire(i)
      PROVE  PeerInv'
  BY <1>5, ExpireTyped, ListingKeepsPeers DEF Expire
<1>6. ASSUME NEW s \in Senders, NEW role \in DOMAIN AddressesOf, NEW valid \in BOOLEAN,
             ChannelSend(s, role, valid)
      PROVE  PeerInv'
  BY <1>6, SendKeepsPeers
<1>7. ASSUME NEW s \in Senders, LookUp(s)
      PROVE  PeerInv'
  BY <1>7, LookUpKeepsPeers
<1>8. ASSUME NEW s \in Senders, DialPeer(s)
      PROVE  PeerInv'
  BY <1>8, DialKeepsPeers
<1>9. ASSUME NEW s \in Senders, Wake(s)
      PROVE  PeerInv'
  BY <1>9, WakeKeepsPeers DEF Wake
<1>10. ASSUME NEW s \in Senders, Log(s)
       PROVE  PeerInv'
  BY <1>10, LogKeepsPeers
<1>11. ASSUME NEW s \in Senders, Ack(s) \/ Cut(s) \/ SenderDies(s)
       PROVE  PeerInv'
  BY <1>11, EndKeepsPeers
<1>12. QED
  BY <1>1, <1>2, <1>3, <1>4, <1>5, <1>6, <1>7, <1>8, <1>9, <1>10, <1>11 DEF PeerNext

(* The state of the sessions and of the messages on their way stays well   *)
(* formed.                                                                 *)
THEOREM DeliveryTypes == PeerSpec => []PeerTypeOK
<1>1. PeerInv => PeerTypeOK
  BY DEF PeerInv
<1>2. QED
  BY <1>1, PeerInvInitially, PeerInvInductive, PTL DEF PeerSpec

(* What a sender is told of its message is what happened to it.            *)
THEOREM SendersHearTheTruth == PeerSpec => []SendersAreToldTheTruth
<1>1. PeerInv => SendersAreToldTheTruth
  BY DEF PeerInv
<1>2. QED
  BY <1>1, PeerInvInitially, PeerInvInductive, PTL DEF PeerSpec
=============================================================================
