-------------------------- MODULE TrackerRegistry --------------------------
(***************************************************************************)
(* The registry service (tracker/registry.ts behind tracker/handlers.ts):  *)
(* the core of RegistryCore held in one Ref, measured against the          *)
(* tracker's own clock.  A handler reads the clock and updates the Ref     *)
(* with no suspension in between, on one event loop, so each handler is    *)
(* one action.  Any peer may call anything at any time, in any order: the  *)
(* sessions that drive the handlers are modelled in CrewSession.           *)
(***************************************************************************)
EXTENDS RegistryCore

CONSTANT MaxTime   \* the clock's bound, for model checking

ASSUME MaxTimeAssumption == MaxTime \in Nat

VARIABLES
  leases,   \* peer -> lease
  claims,   \* resource -> claim
  now       \* the tracker's clock

vars == <<leases, claims, now>>

Init ==
  /\ leases = emptyLeases
  /\ claims = emptyClaims
  /\ now = 0

Tick ==
  /\ now < MaxTime
  /\ now' = now + 1
  /\ UNCHANGED <<leases, claims>>

(* The AnnouncePresence handler always installs DEFAULT_TTL. *)
AnnouncePresence(p, role) ==
  /\ leases' = announce(leases, p, role, DEFAULT_TTL, now)
  /\ UNCHANGED <<claims, now>>

Heartbeat(p, ttl) ==
  /\ leases' = heartbeat(leases, p, ttl, now)
  /\ UNCHANGED <<claims, now>>

ClaimRpc(p, res, role) ==
  /\ claims' = claimResource(leases, claims, res, p, role, now)
  /\ UNCHANGED <<leases, now>>

ReleaseRpc(p, res) ==
  /\ claims' = releaseClaim(claims, res, p)
  /\ UNCHANGED <<leases, now>>

(* A connection close, on the service but behind no RPC. *)
Release(p) ==
  /\ leases' = releaseLeases(leases, p)
  /\ claims' = releaseClaims(claims, p)
  /\ UNCHANGED now

(* Housekeeping, in the core only. *)
Prune ==
  /\ leases' = pruneLeases(leases, now)
  /\ claims' = pruneClaims(leases, claims, now)
  /\ UNCHANGED now

Next ==
  \/ Tick
  \/ Prune
  \/ \E p \in Peers :
       \/ \E role \in Roles : AnnouncePresence(p, role)
       \/ \E ttl \in TTLs : Heartbeat(p, ttl)
       \/ \E res \in Resources, role \in Roles : ClaimRpc(p, res, role)
       \/ \E res \in Resources : ReleaseRpc(p, res)
       \/ Release(p)

Spec == Init /\ [][Next]_vars

-----------------------------------------------------------------------------
(* Both maps hold well-formed entries, and no entry is stamped in the      *)
(* future of the tracker's clock.                                          *)
TypeOK ==
  /\ leases \in [Peers -> Lease \cup {None}]
  /\ claims \in [Resources -> Claim \cup {None}]
  /\ now \in Nat
  /\ \A p \in Peers : leases[p] # None => leases[p].lastSeen <= now
  /\ \A res \in Resources : claims[res] # None => claims[res].claimedAt <= now

(* The live peers and the live holder, as every reader of the registry sees them. *)
present == {p \in Peers : holderHasLivePresence(leases, p, now)}
LiveHolder(res) == claimHolder(leases, claims, res, now)

(* A claim is never stolen: while its holder stays present, only the       *)
(* holder's own Release takes a resource away from it, whatever announces, *)
(* beats, claims, foreign releases and prunes the other peers interleave.  *)
LiveHolderKeepsClaim ==
  [][\A res \in Resources :
       LET h == LiveHolder(res) IN
         (h # None /\ LiveHolder(res)' # h)
           => \/ ~ holderHasLivePresence(leases', h, now')
              \/ ReleaseRpc(h, res)]_vars

(* Prune is invisible: it changes no lookup, no claim holder and no answer *)
(* a future claim would get, so a tracker that never prunes answers as one *)
(* that does, until a lapsed holder returns.                               *)
PruneChangesNoAnswer ==
  [][Prune =>
       /\ \A role \in Roles : lookup(leases, role, now)' = lookup(leases, role, now)
       /\ \A res \in Resources :
            /\ LiveHolder(res)' = LiveHolder(res)
            /\ \A p \in Peers :
                 collides(leases, claims, res, p, now)' = collides(leases, claims, res, p, now)]_vars

(* `since` tells how long the holder has held without interruption by      *)
(* another claimant: it never moves while the record keeps its holder, and *)
(* starts at the grant when the record changes hands.                      *)
SinceFollowsHolder ==
  [][\A res \in Resources :
       claims'[res] # None =>
         claims'[res].claimedAt =
           IF claims[res] # None /\ claims[res].holder = claims'[res].holder
           THEN claims[res].claimedAt ELSE now]_vars

(* The registry implements the board, a live lease standing for presence.  *)
Board == INSTANCE ClaimBoard WITH
  owner <- [res \in Resources |-> IF claims[res] = None THEN None ELSE claims[res].holder]
ImplementsBoard == Board!Spec

=============================================================================
