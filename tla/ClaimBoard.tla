----------------------------- MODULE ClaimBoard -----------------------------
(***************************************************************************)
(* What the tracker promises, with no clock and no lease: a board on which *)
(* peers write their name against a resource.  Whoever is present keeps    *)
(* what it holds until it gives it up; the name of an absent peer may be   *)
(* painted over by anyone, and counts again if that peer returns first.    *)
(***************************************************************************)
CONSTANTS Peers, Resources, None

VARIABLES
  present,  \* the peers the board currently believes in
  owner     \* the name written against each resource, or None

vars == <<present, owner>>

Init == present = {} /\ owner = [res \in Resources |-> None]

(* Presence comes and goes; going takes any number of peers at once. *)
Join(p) == present' = present \cup {p} /\ UNCHANGED owner
Lapse(gone) == present' = present \ gone /\ UNCHANGED owner

Take(p, res) ==
  /\ owner[res] \notin present \ {p}
  /\ owner' = [owner EXCEPT ![res] = p]
  /\ UNCHANGED present

Free(p, res) ==
  /\ owner[res] = p
  /\ owner' = [owner EXCEPT ![res] = None]
  /\ UNCHANGED present

(* A peer that says goodbye takes its presence and all its names with it. *)
Leave(p) ==
  /\ present' = present \ {p}
  /\ owner' = [res \in Resources |-> IF owner[res] = p THEN None ELSE owner[res]]

(* Absent names may be wiped at any time. *)
Sweep ==
  /\ owner' = [res \in Resources |-> IF owner[res] \in present THEN owner[res] ELSE None]
  /\ UNCHANGED present

Next ==
  \/ \E p \in Peers : Join(p) \/ Leave(p)
  \/ \E gone \in SUBSET Peers : Lapse(gone)
  \/ \E p \in Peers, res \in Resources : Take(p, res) \/ Free(p, res)
  \/ Sweep

Spec == Init /\ [][Next]_vars
=============================================================================
