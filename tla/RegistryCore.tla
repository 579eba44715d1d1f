---------------------------- MODULE RegistryCore ----------------------------
(***************************************************************************)
(* The soft-state presence registry of tracker/registry-core.ts as pure    *)
(* operators: two keyspaces that never share a map, presence leases keyed  *)
(* by peer and resource claims keyed by resource.  A claim carries no TTL  *)
(* of its own: it is live exactly as long as its holder's presence is.     *)
(*                                                                         *)
(* Time is a natural number of ticks (milliseconds in the code; the        *)
(* ttlSeconds * 1000 conversion is absorbed by measuring TTLs in ticks).   *)
(* A Map is a function to entries-or-None: None is "no such key".          *)
(***************************************************************************)
EXTENDS Naturals

CONSTANTS
  Peers,        \* connection identities; in a crew, inbox addresses
  Roles,        \* opaque role names
  Resources,    \* what is claimed: issue ids and cardinality lease keys
  TTLs,         \* the TTLs a heartbeat may ask for
  DEFAULT_TTL,  \* the TTL an announce installs
  None          \* an absent map entry

Lease == [role : Roles, ttl : TTLs, lastSeen : Nat]
Claim == [holder : Peers, claimantRole : Roles, claimedAt : Nat]

ASSUME TTLAssumption == TTLs \subseteq Nat /\ DEFAULT_TTL \in TTLs
ASSUME NoneAssumption == None \notin Lease /\ None \notin Claim /\ None \notin Peers

emptyLeases == [p \in Peers |-> None]
emptyClaims == [res \in Resources |-> None]

(* Faulty variant: the TTL converted to milliseconds twice. *)
isLiveTwiceConverted(lease, now) == now <= lease.lastSeen + lease.ttl * 1000

(* A lease is good up to and including its last instant: `<=`. *)
isLive(lease, now) == now <= lease.lastSeen + lease.ttl

holderHasLivePresence(leases, holder, now) ==
  leases[holder] # None /\ isLive(leases[holder], now)

-----------------------------------------------------------------------------
(* Presence. *)

announce(leases, peer, role, ttl, now) ==
  [leases EXCEPT ![peer] = [role |-> role, ttl |-> ttl, lastSeen |-> now]]

(* Faulty variant: adopts the TTL and forgets to bump lastSeen. *)
heartbeatTtlOnly(leases, peer, ttl, now) ==
  IF leases[peer] = None THEN leases ELSE [leases EXCEPT ![peer].ttl = ttl]

(* Faulty variant: a lapsed lease is not revived. *)
heartbeatIfLive(leases, peer, ttl, now) ==
  IF ~ holderHasLivePresence(leases, peer, now)
  THEN leases
  ELSE [leases EXCEPT ![peer].ttl = ttl, ![peer].lastSeen = now]

(* A beat for a peer with no lease refreshes nothing. *)
heartbeat(leases, peer, ttl, now) ==
  IF leases[peer] = None
  THEN leases
  ELSE [leases EXCEPT ![peer].ttl = ttl, ![peer].lastSeen = now]

lookup(leases, role, now) ==
  {p \in Peers : holderHasLivePresence(leases, p, now) /\ leases[p].role = role}

-----------------------------------------------------------------------------
(* Resource claims. *)

(* Faulty variant: asks for the claimant's presence, not the holder's. *)
collidesWithPresentClaimant(leases, claims, resource, claimant, now) ==
  /\ claims[resource] # None
  /\ claims[resource].holder # claimant
  /\ holderHasLivePresence(leases, claimant, now)

(* The only refusal: another peer holds the resource, and its presence is live. *)
collides(leases, claims, resource, claimant, now) ==
  /\ claims[resource] # None
  /\ claims[resource].holder # claimant
  /\ holderHasLivePresence(leases, claims[resource].holder, now)

(* A re-claim by the holder keeps `since`; any other grant starts it now. *)
claimedAtOnGrant(claims, resource, claimant, now) ==
  IF claims[resource] # None /\ claims[resource].holder = claimant
  THEN claims[resource].claimedAt
  ELSE now

claimResource(leases, claims, resource, claimant, role, now) ==
  IF collides(leases, claims, resource, claimant, now)
  THEN claims
  ELSE [claims EXCEPT ![resource] =
          [holder |-> claimant, claimantRole |-> role,
           claimedAt |-> claimedAtOnGrant(claims, resource, claimant, now)]]

releaseClaim(claims, resource, claimant) ==
  IF claims[resource] # None /\ claims[resource].holder = claimant
  THEN [claims EXCEPT ![resource] = None]
  ELSE claims

claimHolder(leases, claims, resource, now) ==
  IF claims[resource] # None /\ holderHasLivePresence(leases, claims[resource].holder, now)
  THEN claims[resource].holder
  ELSE None

-----------------------------------------------------------------------------
(* The two operations that drop entries in bulk. *)

releaseLeases(leases, peer) == [leases EXCEPT ![peer] = None]

releaseClaims(claims, peer) ==
  [res \in Resources |->
     IF claims[res] # None /\ claims[res].holder = peer THEN None ELSE claims[res]]

(* Faulty variant: drops a lease in its last instant. *)
pruneLeasesEarly(leases, now) ==
  [p \in Peers |-> IF leases[p] # None /\ now < leases[p].lastSeen + leases[p].ttl
                   THEN leases[p] ELSE None]

pruneLeases(leases, now) ==
  [p \in Peers |-> IF holderHasLivePresence(leases, p, now) THEN leases[p] ELSE None]

(* Faulty variant: a claim ages by itself, whatever its holder's presence. *)
pruneClaimsByAge(leases, claims, now) ==
  [res \in Resources |->
     IF claims[res] # None /\ claims[res].claimedAt + DEFAULT_TTL < now
     THEN None ELSE claims[res]]

(* Claims are reaped against the leases that survived the prune. *)
pruneClaims(leases, claims, now) ==
  [res \in Resources |->
     IF /\ claims[res] # None
        /\ ~ holderHasLivePresence(pruneLeases(leases, now), claims[res].holder, now)
     THEN None ELSE claims[res]]
=============================================================================
