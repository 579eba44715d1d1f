---------------------------- MODULE PeerDelivery ----------------------------
(***************************************************************************)
(* One session sending to another: channel_send checks the message, looks   *)
(* the role up in the tracker, dials the first address it names, and waits  *)
(* for the inbox at that address to acknowledge.  Sessions die and bridges  *)
(* come back at their address in between; a dead session stays in the       *)
(* tracker's answer until its lease runs out.  edge/, peer/,                *)
(* crew/channel-server.ts, crew/tracker.ts of pipeline-crew-mcp.            *)
(***************************************************************************)
EXTENDS Naturals, Sequences, SequencesExt

CONSTANTS
  Senders,
  AddressesOf, \* role -> the addresses its sessions have
  Bridges,     \* the addresses a later process takes again
  MaxSends,    \* bound on messages of one sender
  MaxLives     \* bound on processes at one address

Addresses == UNION {AddressesOf[role] : role \in DOMAIN AddressesOf}
Messages  == Senders \X (1..MaxSends)

ASSUME MaxSendsAssumption == MaxSends \in Nat

VARIABLES
  up,       \* the addresses with a running process
  lives,    \* address -> how many processes it has had
  listed,   \* the addresses of the tracker's leases, in its order
  inbox,    \* address -> what its process has logged
  sending,  \* sender -> how far its last message has come
  sentTo,   \* message -> the role it is sent to
  serving,  \* sender -> how far the inbox at the other end of its connection is
  woke,     \* message -> the sessions it woke, in order
  answer    \* message -> what its sender was told

peerVars == <<up, lives, listed, inbox, sending, sentTo, serving, woke, answer>>

PeerInit ==
  /\ up = {} /\ lives = [a \in Addresses |-> 0]
  /\ listed = <<>>
  /\ inbox = [a \in Addresses |-> <<>>]
  /\ sending = [s \in Senders |-> [pc |-> "idle", to |-> "none", n |-> 0]]
  /\ sentTo = [m \in Messages |-> "none"]
  /\ serving = [s \in Senders |-> "no"]
  /\ woke = [m \in Messages |-> <<>>]
  /\ answer = [m \in Messages |-> "none"]

Message(s) == <<s, sending[s].n>>
Session(a) == [at |-> a, life |-> lives[a]]

(***************************************************************************)
(* Sessions.  The inbox is bound and the presence announced as one step: a  *)
(* session between the two is one that has no lease yet, or no socket.      *)
(***************************************************************************)
Up(a) ==
  /\ a \notin up /\ lives[a] < MaxLives /\ (lives[a] = 0 \/ a \in Bridges)
  /\ up' = up \cup {a} /\ lives' = [lives EXCEPT ![a] = @ + 1]
  /\ inbox' = [inbox EXCEPT ![a] = <<>>]
  /\ UNCHANGED <<listed, sending, sentTo, serving, woke, answer>>

\* announce: a lease the tracker still has keeps its place.
Announce(a) ==
  /\ a \in up /\ ~Contains(listed, a)
  /\ listed' = Append(listed, a)
  /\ UNCHANGED <<up, lives, inbox, sending, sentTo, serving, woke, answer>>

\* The process is gone, with its inbox and every connection to it.
Die(a) ==
  /\ a \in up /\ up' = up \ {a}
  /\ serving' = [s \in Senders |-> IF sending[s].pc = "dialled" /\ sending[s].to = a THEN "cut" ELSE serving[s]]
  /\ UNCHANGED <<lives, listed, inbox, sending, sentTo, woke, answer>>

\* Nobody beats for it any more.
Expire(i) ==
  /\ listed[i] \notin up
  /\ listed' = RemoveAt(listed, i)
  /\ UNCHANGED <<up, lives, inbox, sending, sentTo, serving, woke, answer>>

(***************************************************************************)
(* A sender.                                                                *)
(***************************************************************************)
Stops(s) == sending' = [sending EXCEPT ![s] = [pc |-> "idle", to |-> "none", n |-> @.n]]

Tell(s, what) == answer' = [answer EXCEPT ![Message(s)] = what] /\ Stops(s)

\* channel_send; validateOutbound refuses an unknown kind and a body of another shape.
ChannelSend(s, role, valid) ==
  /\ sending[s].pc = "idle" /\ sending[s].n < MaxSends
  /\ LET m == <<s, sending[s].n + 1>> IN
       /\ sending' = [sending EXCEPT ![s] = [pc |-> IF valid THEN "lookup" ELSE "idle", to |-> "none", n |-> @.n + 1]]
       /\ sentTo' = [sentTo EXCEPT ![m] = role]
       /\ answer' = IF valid THEN answer ELSE [answer EXCEPT ![m] = "invalid"]
  /\ UNCHANGED <<up, lives, listed, inbox, serving, woke>>

\* The places of the role's live leases, and the first of them.
Lookup(role) == {i \in DOMAIN listed : listed[i] \in AddressesOf[role]}
First(role)  == {i \in Lookup(role) : \A j \in Lookup(role) : i <= j}

\* peer.send: the head of the role's live leases.
LookUp(s) ==
  /\ sending[s].pc = "lookup"
  /\ \/ Lookup(sentTo[Message(s)]) = {} /\ Tell(s, "unreachable")
     \/ \E i \in First(sentTo[Message(s)]) :
          sending' = [sending EXCEPT ![s] = [pc |-> "dial", to |-> listed[i], n |-> @.n]] /\ UNCHANGED answer
  /\ UNCHANGED <<up, lives, listed, inbox, sentTo, serving, woke>>

\* The socket is whoever's is bound there now.
DialPeer(s) ==
  /\ sending[s].pc = "dial"
  /\ IF sending[s].to \in up
       THEN /\ sending' = [sending EXCEPT ![s] = [pc |-> "dialled", to |-> @.to, n |-> @.n]]
            /\ serving' = [serving EXCEPT ![s] = "deliver"]
            /\ UNCHANGED answer
       ELSE Tell(s, "unreachable") /\ UNCHANGED serving
  /\ UNCHANGED <<up, lives, listed, inbox, sentTo, woke>>

(***************************************************************************)
(* The inbox at the other end: wake the session, log, acknowledge.          *)
(***************************************************************************)
Serving(s, at) == sending[s].pc = "dialled" /\ serving[s] = at

WakeFirst(s) ==
  /\ Serving(s, "deliver")
  /\ woke' = [woke EXCEPT ![Message(s)] = Append(@, Session(sending[s].to))]
  /\ serving' = [serving EXCEPT ![s] = "woken"]
  /\ UNCHANGED <<up, lives, listed, inbox, sending, sentTo, answer>>

\* Logged, and acknowledged with nobody woken.
LogOnly(s) ==
  /\ Serving(s, "deliver")
  /\ serving' = [serving EXCEPT ![s] = "woken"]
  /\ UNCHANGED <<up, lives, listed, inbox, sending, sentTo, woke, answer>>

Wake(s) == WakeFirst(s)

Log(s) ==
  /\ Serving(s, "woken")
  /\ inbox' = [inbox EXCEPT ![sending[s].to] = Append(@, Message(s))]
  /\ serving' = [serving EXCEPT ![s] = "logged"]
  /\ UNCHANGED <<up, lives, listed, sending, sentTo, woke, answer>>

Ack(s) ==
  /\ Serving(s, "logged")
  /\ Tell(s, "acked")
  /\ serving' = [serving EXCEPT ![s] = "no"]
  /\ UNCHANGED <<up, lives, listed, inbox, sentTo, woke>>

\* The connection ended before the acknowledgement came.
Cut(s) ==
  /\ Serving(s, "cut")
  /\ Tell(s, "unreachable")
  /\ serving' = [serving EXCEPT ![s] = "no"]
  /\ UNCHANGED <<up, lives, listed, inbox, sentTo, woke>>

\* The sender's session dies: nobody is told, and what the inbox had begun stops there.
SenderDies(s) ==
  /\ sending[s].pc # "idle"
  /\ Stops(s)
  /\ serving' = [serving EXCEPT ![s] = "no"]
  /\ UNCHANGED <<up, lives, listed, inbox, sentTo, woke, answer>>

PeerNext ==
  \/ \E a \in Addresses : Up(a) \/ Announce(a) \/ Die(a)
  \/ \E i \in DOMAIN listed : Expire(i)
  \/ \E s \in Senders, role \in DOMAIN AddressesOf, valid \in BOOLEAN : ChannelSend(s, role, valid)
  \/ \E s \in Senders : LookUp(s) \/ DialPeer(s) \/ Wake(s) \/ Log(s) \/ Ack(s) \/ Cut(s)
                        \/ SenderDies(s)

PeerSpec == PeerInit /\ [][PeerNext]_peerVars

(***************************************************************************)
(* Properties.                                                              *)
(***************************************************************************)
Sending  == [pc : {"idle", "lookup", "dial", "dialled"}, to : Addresses \cup {"none"}, n : 0..MaxSends]
Sessions == [at : Addresses, life : Nat]
Alive(w) == w.at \in up /\ lives[w.at] = w.life
Copies(m, a) == {i \in DOMAIN inbox[a] : inbox[a][i] = m}
IsOne(S) == \E x \in S : S = {x}

\* The state of the sessions and of the messages on their way is well formed.
PeerTypeOK ==
  /\ up \subseteq Addresses /\ lives \in [Addresses -> Nat] /\ listed \in Seq(Addresses)
  /\ inbox \in [Addresses -> Seq(Messages)]
  /\ sending \in [Senders -> Sending]
  /\ sentTo \in [Messages -> DOMAIN AddressesOf \cup {"none"}]
  /\ serving \in [Senders -> {"no", "deliver", "woken", "logged", "cut"}]
  /\ woke \in [Messages -> Seq(Sessions)]
  /\ answer \in [Messages -> {"none", "invalid", "unreachable", "acked"}]

ToldTruly(m) ==
  /\ Len(woke[m]) <= 1
  /\ answer[m] = "acked" => Len(woke[m]) = 1
  /\ answer[m] = "invalid" => woke[m] = <<>>
  /\ \A i \in DOMAIN woke[m] :
       /\ woke[m][i].at \in AddressesOf[sentTo[m]]
       /\ answer[m] = "acked" /\ Alive(woke[m][i]) => IsOne(Copies(m, woke[m][i].at))
       /\ answer[m] = "unreachable" => ~Alive(woke[m][i])

LogsWhatWoke(a) == \A i \in DOMAIN inbox[a] : woke[inbox[a][i]] = <<Session(a)>>

\* What a sender is told is what happened, however sessions die and come back meanwhile:
\* a message wakes one session at most; an acknowledged one woke one, of the role it was
\* sent to, which has it in its inbox, once, for as long as it lives; a refused one woke
\* nobody; one reported unreachable that did wake a session was cut off by that session's
\* death; and an inbox holds no message that did not wake its session
\* (bridge.ts:36-44, peer.ts:51-68, channel-server.ts:126-145).
SendersAreToldTheTruth ==
  /\ \A m \in Messages : ToldTruly(m)
  /\ \A a \in Addresses : LogsWhatWoke(a)
=============================================================================
