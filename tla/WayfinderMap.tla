--------------------------- MODULE WayfinderMap ----------------------------
(***************************************************************************)
(* wayfinder-map graduate: sessions that each move one ticket of a map     *)
(* from the open frontier to the answer log and the fog, all of it kept in *)
(* one issue body that a write replaces whole.                             *)
(*                                                                         *)
(* A body is its three list sections: the decisions (the ticket each is    *)
(* from, or 0), the frontier (the ticket each entry names, or 0) and the   *)
(* fog.  Destination, prose and the layout of the sections, which the      *)
(* edits splice around, are left out.  A person edits the same body, and   *)
(* opens and closes the map's sub-issues.                                  *)
(***************************************************************************)
EXTENDS Naturals, Sequences, FiniteSets, SequencesExt

CONSTANTS
  Wayfinders,      \* sessions working on the map
  Tickets,         \* issue numbers
  Opening,         \* the tickets the map was charted with
  MaxGraduations,  \* bound on graduations tried
  MaxMapEdits      \* bound on edits by a person

ASSUME OpeningAssumption == IsFiniteSet(Opening) /\ Opening \subseteq Tickets

VARIABLES
  body,       \* the map issue's body
  subIssues,  \* the map's sub-issues: number -> "open" or "closed"
  run,        \* session -> its graduation under way
  answered,   \* the tickets whose graduation was reported done (history)
  raced,      \* somebody wrote between a re-read and its write (history)
  graduations, mapEdits

mapVars == <<body, subIssues, run, answered, raced, graduations, mapEdits>>

Empty == [decisions |-> <<>>, frontier |-> <<>>, fog |-> <<>>]
Unstarted == [pc |-> "idle", ticket |-> 0, spawn |-> <<>>, source |-> Empty, next |-> Empty,
            state |-> <<>>]

MapInit ==
  /\ body = [Empty EXCEPT !.frontier = SetToSeq(Opening)]
  /\ subIssues = [t \in Opening |-> "open"]
  /\ run = [s \in Wayfinders |-> Unstarted]
  /\ answered = {} /\ raced = FALSE
  /\ graduations = MaxGraduations /\ mapEdits = MaxMapEdits

Goes(s, r) == run' = [run EXCEPT ![s] = r]

(* Whoever writes while another session is about to write has raced it. *)
Writes(others, b) ==
  /\ body' = b
  /\ raced' = (raced \/ \E t \in others : run[t].pc = "patch")

-----------------------------------------------------------------------------
(* The map's defects, by what they are about. *)

ClosedSubIssues(state) == {t \in DOMAIN state : state[t] = "closed"}

ValidateMap(b, state) ==
  {<<"MALFORMED_ENTRY">> : x \in {x \in ToSet(b.decisions) \cup ToSet(b.frontier) \cup ToSet(b.fog) : x = 0}}
  \cup {<<"DANGLING_FRONTIER_REF", t>> :
          t \in {t \in ToSet(b.frontier) \ {0} : DOMAIN state # {} /\ t \notin DOMAIN state}}
  \cup {<<"CLOSED_FRONTIER_TICKET", t>> : t \in ToSet(b.frontier) \cap ClosedSubIssues(state)}

(* An ambiguous frontier is refused rather than guessed at. *)
NamesItOnce(b, t) == Cardinality({i \in DOMAIN b.frontier : b.frontier[i] = t}) = 1

(* One edit of all three sections, or none. *)
GraduateBody(b, t, spawn) ==
  [decisions |-> Append(b.decisions, t),
   frontier |-> RemoveFirst(b.frontier, t) \o spawn,
   fog |-> Append(b.fog, t)]

(* What is about to be written is proved against what was read. *)
CheckGraduation(b, new, t, state) ==
  /\ Len(new.decisions) = Len(b.decisions) + 1
  /\ IsPrefix(b.decisions, new.decisions)
  /\ t \notin ToSet(new.frontier) /\ t \in ToSet(new.fog)
  /\ ValidateMap(new, state) \subseteq ValidateMap(b, state)

-----------------------------------------------------------------------------
(* graduate *)

ReadBody(s) ==
  /\ run[s].pc = "idle" /\ graduations > 0
  /\ \E t \in Tickets : \E spawn \in {<<>>} \cup {<<u>> : u \in Tickets \ {t}} :
       Goes(s, [Unstarted EXCEPT !.pc = "sub-issues", !.ticket = t, !.spawn = spawn, !.source = body])
  /\ graduations' = graduations - 1
  /\ UNCHANGED <<body, subIssues, answered, raced, mapEdits>>

ReadSubIssues(s) ==
  /\ run[s].pc = "sub-issues"
  /\ Goes(s, [run[s] EXCEPT !.pc = "compute", !.state = subIssues])
  /\ UNCHANGED <<body, subIssues, answered, raced, graduations, mapEdits>>

Compute(s) ==
  /\ run[s].pc = "compute"
  /\ LET r == run[s]
         next == GraduateBody(r.source, r.ticket, r.spawn)
     IN IF NamesItOnce(r.source, r.ticket) /\ CheckGraduation(r.source, next, r.ticket, r.state)
          THEN Goes(s, [r EXCEPT !.pc = "re-read", !.next = next])
          ELSE Goes(s, Unstarted)
  /\ UNCHANGED <<body, subIssues, answered, raced, graduations, mapEdits>>

(* Faulty variant: no second read. *)
WriteAnyway(s) ==
  /\ run[s].pc = "re-read"
  /\ Goes(s, [run[s] EXCEPT !.pc = "patch"])
  /\ UNCHANGED <<body, subIssues, answered, raced, graduations, mapEdits>>

BodyPrecondition(s) ==
  /\ run[s].pc = "re-read"
  /\ IF body = run[s].source
       THEN Goes(s, [run[s] EXCEPT !.pc = "patch"])
       ELSE Goes(s, Unstarted)
  /\ UNCHANGED <<body, subIssues, answered, raced, graduations, mapEdits>>

(* Faulty variant: the three sections are three writes, and the first is   *)
(* the frontier's.                                                         *)
ReplaceFrontier(s) ==
  /\ run[s].pc = "patch"
  /\ Writes(Wayfinders \ {s}, [body EXCEPT !.frontier = run[s].next.frontier])
  /\ Goes(s, Unstarted)
  /\ UNCHANGED <<subIssues, answered, graduations, mapEdits>>

(* The answer of the write is the body it wrote, so the comparison with    *)
(* what was sent always agrees.                                            *)
ReplaceMapBody(s) ==
  /\ run[s].pc = "patch"
  /\ Writes(Wayfinders \ {s}, run[s].next)
  /\ answered' = answered \cup {run[s].ticket}
  /\ Goes(s, Unstarted)
  /\ UNCHANGED <<subIssues, graduations, mapEdits>>

Stop(s) ==
  /\ run[s].pc # "idle"
  /\ Goes(s, Unstarted)
  /\ UNCHANGED <<body, subIssues, answered, raced, graduations, mapEdits>>

-----------------------------------------------------------------------------
(* A person: opens or closes a sub-issue, adds it to the frontier, repeats *)
(* an entry that is already there, or adds an entry without a number.      *)
EditByHand ==
  /\ mapEdits > 0 /\ mapEdits' = mapEdits - 1
  /\ \/ /\ \E t \in Tickets \ DOMAIN subIssues :
             subIssues' = [u \in DOMAIN subIssues \cup {t} |-> IF u = t THEN "open" ELSE subIssues[u]]
        /\ UNCHANGED <<body, raced>>
     \/ /\ \E t \in DOMAIN subIssues : subIssues' = [subIssues EXCEPT ![t] = "closed"]
        /\ UNCHANGED <<body, raced>>
     \/ /\ \E t \in ToSet(body.frontier) \cup {0} :
             Writes(Wayfinders, [body EXCEPT !.frontier = Append(@, t)])
        /\ UNCHANGED subIssues
  /\ UNCHANGED <<run, answered, graduations>>

Graduate(s) == \/ ReadBody(s) \/ ReadSubIssues(s) \/ Compute(s) \/ BodyPrecondition(s)
               \/ ReplaceMapBody(s) \/ Stop(s)

MapNext == (\E s \in Wayfinders : Graduate(s)) \/ EditByHand

MapSpec == MapInit /\ [][MapNext]_mapVars

-----------------------------------------------------------------------------
(* Properties. *)

(* The lockstep rule (mutate.ts:5): a ticket the map was charted with has  *)
(* left the frontier only if its answer is in the log and it is on the     *)
(* fog, however writes overwrite one another.                              *)
Lockstep ==
  \A t \in Opening \ ToSet(body.frontier) : t \in ToSet(body.decisions) \cap ToSet(body.fog)

(* An answer reported done is in the log for good, unless somebody's       *)
(* write fell between another session's re-read and its write: the re-read *)
(* narrows the window to that (mutate.ts:340) and no further, since the    *)
(* read-back compares a write with its own answer.                         *)
AnswersOutliveOverlap == raced \/ answered \subseteq ToSet(body.decisions)
=============================================================================
