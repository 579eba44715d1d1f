-------------------------- MODULE SocketRendezvous --------------------------
(***************************************************************************)
(* Processes meeting at one unix-socket path: reclaim a stale socket file, *)
(* try to bind, and on EADDRINUSE either dial whoever is there (a crew     *)
(* session on the tracker's path) or leave (a standing tracker; a session  *)
(* on its own inbox path).  tracker/server.ts, crew/tracker.ts,            *)
(* standup/ensure-tracker.ts, crew/channel-server.ts.                      *)
(*                                                                         *)
(* Each system call is a step, and any other process may step in between.  *)
(* The path names at most one bound socket; a listener whose file was      *)
(* unlinked keeps listening, reachable by nobody new.                      *)
(***************************************************************************)
EXTENDS FiniteSets, Naturals

CONSTANTS
  Dialers,     \* processes that dial on EADDRINUSE
  Exiters,     \* processes that give up on EADDRINUSE
  NoFile,        \* no file at the path
  MaxFaults,   \* bound on crashes and clean exits
  SeenBetween  \* may another process look between bind(2) and listen(2)?

Procs == Dialers \cup Exiters

ASSUME NoFileAssumption == NoFile \notin Procs
ASSUME MaxFaultsAssumption == MaxFaults \in Nat
ASSUME SeenBetweenAssumption == SeenBetween \in BOOLEAN

VARIABLES
  pc,        \* where each process is
  file,      \* the process whose bind created the file now at the path, or NoFile
  faults,    \* crashes and exits so far
  overlap    \* history: some two processes were starting at the same time

meetVars == <<pc, file, faults, overlap>>

Starting == {"probe", "unlink", "bind", "listen", "dial"}
PCs == Starting \cup {"down", "hosting", "client"}

MeetTypeOK ==
  /\ pc \in [Procs -> PCs]
  /\ file \in Procs \cup {NoFile}
  /\ faults \in Nat
  /\ overlap \in BOOLEAN

MeetInit ==
  /\ pc = [p \in Procs |-> "down"]
  /\ file = NoFile
  /\ faults = 0
  /\ overlap = FALSE

Hosts == {p \in Procs : pc[p] = "hosting"}

(* What a connect to the path meets. *)
Connects == file \in Hosts
Refused == file # NoFile /\ ~ Connects     \* ECONNREFUSED; no file is ENOENT

Goto(p, to) == pc' = [pc EXCEPT ![p] = to]

-----------------------------------------------------------------------------
Start(p) ==
  /\ pc[p] = "down"
  /\ Goto(p, "probe")
  /\ overlap' = (overlap \/ \E q \in Procs \ {p} : pc[q] \in Starting)
  /\ UNCHANGED <<file, faults>>

(* Faulty variant: any file at the path is taken for stale. *)
ProbeAnyFile(p) ==
  /\ pc[p] = "probe"
  /\ Goto(p, IF file # NoFile THEN "unlink" ELSE "bind")
  /\ UNCHANGED <<file, faults, overlap>>

(* Faulty variant: a stale file is never reclaimed. *)
ProbeNothing(p) ==
  /\ pc[p] = "probe"
  /\ Goto(p, "bind")
  /\ UNCHANGED <<file, faults, overlap>>

(* Stale is exactly ECONNREFUSED; a live host and an absent file both go   *)
(* straight to the bind.                                                   *)
ProbeStaleSocket(p) ==
  /\ pc[p] = "probe"
  /\ Goto(p, IF Refused THEN "unlink" ELSE "bind")
  /\ UNCHANGED <<file, faults, overlap>>

(* The unlink is by name and unconditional: it takes whatever is there now. *)
RemoveStale(p) ==
  /\ pc[p] = "unlink"
  /\ file' = NoFile
  /\ Goto(p, "bind")
  /\ UNCHANGED <<faults, overlap>>

(* bind(2) creates the file; until listen(2), a moment later in the same   *)
(* call of node's, a connect is still refused.                             *)
BindWon(p) ==
  /\ pc[p] = "bind" /\ file = NoFile
  /\ file' = p
  /\ Goto(p, IF SeenBetween THEN "listen" ELSE "hosting")
  /\ UNCHANGED <<faults, overlap>>

Listen(p) ==
  /\ pc[p] = "listen"
  /\ Goto(p, "hosting")
  /\ UNCHANGED <<file, faults, overlap>>

AddressInUse(p) ==
  /\ pc[p] = "bind" /\ file # NoFile
  /\ Goto(p, IF p \in Dialers THEN "dial" ELSE "down")
  /\ UNCHANGED <<file, faults, overlap>>

(* A dial that meets nobody fails the session's first registry call, which *)
(* is orDie'd: the session goes down.                                      *)
Dial(p) ==
  /\ pc[p] = "dial"
  /\ Goto(p, IF Connects THEN "client" ELSE "down")
  /\ UNCHANGED <<file, faults, overlap>>

(* A crash runs no teardown and leaves the file. *)
Crash(p) ==
  /\ pc[p] # "down" /\ faults < MaxFaults
  /\ Goto(p, "down")
  /\ faults' = faults + 1
  /\ UNCHANGED <<file, overlap>>

(* A clean exit of a host closes its server, which unlinks the path by     *)
(* name, whoever's socket is there by then.                                *)
CleanExit(p) ==
  /\ pc[p] \in {"hosting", "client"} /\ faults < MaxFaults
  /\ file' = IF pc[p] = "hosting" THEN NoFile ELSE file
  /\ Goto(p, "down")
  /\ faults' = faults + 1
  /\ UNCHANGED overlap

Boot(p) ==
  \/ ProbeStaleSocket(p) \/ RemoveStale(p) \/ BindWon(p) \/ Listen(p)
  \/ AddressInUse(p) \/ Dial(p)

MeetNext == \E p \in Procs : Start(p) \/ Boot(p) \/ Crash(p) \/ CleanExit(p)

MeetSpec == MeetInit /\ [][MeetNext]_meetVars

(* Once started, a process is scheduled; and somebody keeps starting       *)
(* sessions that are down.                                                 *)
FairMeetSpec == MeetSpec /\ \A p \in Procs : WF_meetVars(Boot(p)) /\ WF_meetVars(Start(p))

-----------------------------------------------------------------------------
(* Starts that never overlap keep that promise across any crashes and      *)
(* exits: one listener at most, and the path still leads to it, so that    *)
(* every later session meets the same registry.                            *)
SerialStartsMeet ==
  ~ overlap => /\ \A p, q \in Hosts : p = q
               /\ \A p \in Hosts : file = p

(* No wedge: whatever file a crash or a lost race leaves behind, the path  *)
(* is served in the end, the starts that race over it included.            *)
PathServedInTheEnd == <>[]Connects
=============================================================================
