----------------------------- MODULE MergeQueue ------------------------------
(***************************************************************************)
(* A pull request handed to GitHub's merge queue, and the polls that ask    *)
(* what became of it: merge-queue-classify of pipeline-cli reads the state, *)
(* then the timeline, and prints one word.  The queue lets a pull request   *)
(* in, drops it or lands it, and its timeline tells of it only later; a     *)
(* landed one leaves the queue by the event a dropped one leaves it by.     *)
(***************************************************************************)
EXTENDS Naturals, Sequences

CONSTANTS
  MaxEvents,  \* bound on what happens to the pull request
  MaxPolls    \* bound on polls

VARIABLES
  state,     \* the pull request: "OPEN", "MERGED", "CLOSED"
  queued,    \* the queue has it
  status,    \* its mergeStateStatus, which follows `queued`
  timeline,  \* its events: [event, at]
  unshown,   \* events that are not on the timeline yet
  happened,  \* what happened to it so far, counted
  poll,      \* the poll under way: [pc, merged, status, during, settled]
  polls,
  said       \* what the last poll printed: [outcome, during, settled]

mergeQueueVars == <<state, queued, status, timeline, unshown, happened, poll, polls, said>>

NoPoll == [pc |-> "none", merged |-> FALSE, status |-> "none", during |-> {}, settled |-> TRUE]

\* What a poll should print now.
Fate == IF state = "MERGED" THEN "merged"
        ELSE IF queued THEN "queued"
        ELSE IF \E i \in DOMAIN timeline : timeline[i].event = "removed_from_merge_queue" THEN "ejected"
        ELSE "pending"

Settled == unshown = <<>> /\ (status = "QUEUED") = queued

QueueInit ==
  /\ state = "OPEN" /\ queued = FALSE /\ status = "CLEAN"
  /\ timeline = <<>> /\ unshown = <<>> /\ happened = 0
  /\ poll = NoPoll /\ polls = 0 /\ said = [outcome |-> "none", during |-> {}, settled |-> TRUE]
queueVars == <<state, queued, status, timeline, unshown, happened>>

(***************************************************************************)
(* GitHub.                                                                  *)
(***************************************************************************)
\* A poll under way sees the pull request through what happens to it.
Witnessed ==
  poll' = IF poll.pc = "none" THEN poll
          ELSE [poll EXCEPT !.during = @ \cup {Fate'}, !.settled = @ /\ Settled']

\* The timeline's clock counts seconds.
Shown(event) ==
  \E later \in {0, 1} :
    LET last == IF timeline = <<>> THEN 0 ELSE timeline[Len(timeline)].at
    IN  timeline' = Append(timeline, [event |-> event, at |-> last + later])

\* Both the timeline and the status may follow at once, or later.
Happens(event) ==
  /\ happened < MaxEvents /\ happened' = happened + 1
  /\ \/ /\ unshown = <<>> /\ Shown(event) /\ UNCHANGED unshown
        /\ status' = IF queued' THEN "QUEUED" ELSE "CLEAN"
     \/ unshown' = Append(unshown, event) /\ UNCHANGED <<status, timeline>>
  /\ UNCHANGED <<polls, said>>
  /\ Witnessed

Enqueue ==
  /\ state = "OPEN" /\ ~queued /\ queued' = TRUE
  /\ UNCHANGED state
  /\ Happens("added_to_merge_queue")

\* Dropped, or its author closes it.
Dequeue ==
  /\ queued /\ queued' = FALSE
  /\ state' \in {"OPEN", "CLOSED"}
  /\ Happens("removed_from_merge_queue")

Land ==
  /\ queued /\ queued' = FALSE
  /\ state' = "MERGED"
  /\ Happens("removed_from_merge_queue")

\* The timeline catches up, or the status does.
Show ==
  /\ unshown # <<>> /\ unshown' = Tail(unshown)
  /\ Shown(Head(unshown))
  /\ UNCHANGED <<state, queued, status, happened, polls, said>>
  /\ Witnessed

ShowStatus ==
  /\ status' = IF queued THEN "QUEUED" ELSE "CLEAN"
  /\ status' # status
  /\ UNCHANGED <<state, queued, timeline, unshown, happened, polls, said>>
  /\ Witnessed

(***************************************************************************)
(* A poll.                                                                  *)
(***************************************************************************)
\* Faulty variant: a queue event outranks the state.
EventFirst(merged, event, mergeStatus) ==
  IF event = "removed_from_merge_queue" THEN "ejected"
  ELSE IF merged THEN "merged"
  ELSE IF event = "added_to_merge_queue" \/ mergeStatus = "QUEUED" THEN "queued" ELSE "pending"

Classify(merged, event, mergeStatus) ==
  IF merged THEN "merged"
  ELSE IF event = "removed_from_merge_queue" THEN "ejected"
  ELSE IF event = "added_to_merge_queue" \/ mergeStatus = "QUEUED" THEN "queued" ELSE "pending"

\* The latest, and of those of one second the one listed last.
LastMergeQueueEvent(entries) ==
  IF entries = <<>> THEN "null"
  ELSE LET last == CHOOSE i \in DOMAIN entries :
                     \A j \in DOMAIN entries \ {i} :
                       entries[j].at < entries[i].at \/ (entries[j].at = entries[i].at /\ j < i)
       IN  entries[last].event

Prints(outcome) ==
  /\ said' = [outcome |-> outcome, during |-> poll.during \cup {Fate}, settled |-> poll.settled]
  /\ poll' = NoPoll
  /\ UNCHANGED <<queueVars, polls>>

PollStarts ==
  /\ poll.pc = "none" /\ polls < MaxPolls /\ polls' = polls + 1
  /\ poll' = [NoPoll EXCEPT !.pc = "repo", !.during = {Fate}, !.settled = Settled]
  /\ UNCHANGED <<queueVars, said>>

\* The environment names the repository, or gh does, or nobody.
ResolveRepo ==
  /\ poll.pc = "repo"
  /\ \/ poll' = [poll EXCEPT !.pc = "state"] /\ UNCHANGED <<queueVars, polls, said>>
     \/ Prints("pending")

ReadPrState ==
  /\ poll.pc = "state"
  /\ poll' = [poll EXCEPT !.pc = "timeline", !.merged = state = "MERGED", !.status = status]
  /\ UNCHANGED <<queueVars, polls, said>>

\* gh fails, or answers what does not parse.
StateUnreadable == poll.pc = "state" /\ Prints("pending")

\* An unreadable timeline is one without events.
ReadTimeline ==
  /\ poll.pc = "timeline"
  /\ \E readable \in BOOLEAN :
       Prints(Classify(poll.merged, IF readable THEN LastMergeQueueEvent(timeline) ELSE "null", poll.status))

QueueNext ==
  \/ Enqueue \/ Dequeue \/ Land \/ Show \/ ShowStatus
  \/ PollStarts \/ ResolveRepo \/ ReadPrState \/ StateUnreadable \/ ReadTimeline

QueueSpec == QueueInit /\ [][QueueNext]_mergeQueueVars

(***************************************************************************)
(* Properties.                                                              *)
(***************************************************************************)
QueueEvents == {"added_to_merge_queue", "removed_from_merge_queue"}
Fates       == {"merged", "queued", "ejected", "pending"}

TimelineEntries == [event : QueueEvents, at : Nat]
PollStates == [pc : {"none", "repo", "state", "timeline"}, merged : BOOLEAN, status : {"none", "CLEAN", "QUEUED"},
               during : SUBSET Fates, settled : BOOLEAN]
Printed == [outcome : Fates \cup {"none"}, during : SUBSET Fates, settled : BOOLEAN]

\* The state of the pull request, of its queue and of the poll under way is well formed.
QueueTypeOK ==
  /\ state \in {"OPEN", "MERGED", "CLOSED"} /\ queued \in BOOLEAN /\ status \in {"CLEAN", "QUEUED"}
  /\ timeline \in Seq(TimelineEntries) /\ unshown \in Seq(QueueEvents)
  /\ poll \in PollStates /\ said \in Printed

\* Once GitHub has caught up, a poll prints what was so at some moment while it looked, or
\* "pending", with one exception: a pull request that lands between its two reads is called
\* ejected.  Until then it may still be told an earlier fate, but "merged" is always so, and
\* nothing that never left the queue is called ejected (merge-queue-classify.ts:91-150).
PollsAreTrue ==
  /\ said.settled =>
       said.outcome \in {"none", "pending"} \cup said.during
         \cup (IF {"queued", "merged"} \subseteq said.during THEN {"ejected"} ELSE {})
  /\ said.outcome = "merged" => state = "MERGED"
  /\ said.outcome = "ejected" =>
       \E i \in DOMAIN timeline : timeline[i].event = "removed_from_merge_queue"

\* What a poll calls merged or ejected was so at some moment while it looked, once GitHub has
\* caught up: "a classifier miss can only ever keep polling, never report a false
\* `merged`/`ejected`" (github.ts:17-18 of merge-queue-classify).  A pull request that lands between
\* the read of its state and that of its timeline is called ejected.
NeverFalselyTerminal ==
  said.settled /\ said.outcome \in {"merged", "ejected"} => said.outcome \in said.during
=============================================================================
