--------------------------- MODULE MCCrewSession ---------------------------
(* CrewSession on small instances: each behaviour is played by one cast of *)
(* sessions, the others never start.  Two bridge sessions are twins at one *)
(* address; a bridge and an engine compete for an issue from two.          *)
EXTENDS CrewSession

CONSTANTS b1, b2, e1
VARIABLE cast    \* the sessions that take part

Casts == {{b1, b2}, {b1, e1}}

MCInit == Init /\ cast \in Casts

MCNext ==
  /\ Next
  /\ \A s \in Sessions \ cast : pc'[s] = "down"
  /\ UNCHANGED cast

MCSpec == MCInit /\ [][MCNext]_<<vars, cast>> /\ Fairness
=============================================================================
