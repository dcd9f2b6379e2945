------------------------------ MODULE Session ------------------------------
(***************************************************************************)
(* A multiplayer session over iroh: one host, whose task owns a link per   *)
(* client, and the tasks of the clients that join it (session.rs).         *)
(*                                                                         *)
(* Every session task is a select! loop over three sources: commands of    *)
(* the main thread, the `internal` channel its reader tasks feed, and, on  *)
(* a host, the connections the dispatcher routed to it.  Every connection  *)
(* has independent reader tasks at each end: one per incoming stream and   *)
(* one that waits for the connection to close.  Their interleaving with    *)
(* the session task is what this module is about.                          *)
(*                                                                         *)
(* A client is one call of Session::join, so one connection, and dials from *)
(* the start; a player that joins twice is two clients.  The events a session sends to the main     *)
(* thread are kept as what they amount to: the peers announced, the id of  *)
(* Ready, whether Closed was sent, and the packets delivered.              *)
(***************************************************************************)
EXTENDS Integers, Sequences

CONSTANTS
    Clients,     \* the joining sessions
    Host,        \* the hosting session
    MaxId,       \* i32::MAX: the largest id the host hands out
    MaxSends     \* bound: packets the games put on the wire

HOST_ID == 1
FIRST_CLIENT_ID == 2

ASSUME HostAssumption == Host \notin Clients
ASSUME MaxIdAssumption == MaxId \in Nat /\ MaxId >= FIRST_CLIENT_ID
ASSUME MaxSendsAssumption == MaxSends \in Nat

Nodes == {Host} \cup Clients
Ids == HOST_ID .. MaxId

----------------------------------------------------------------------------
(* Control messages, and what the reader tasks report on `internal`. *)

Control == [kind : {"Welcome"}, your_id : Ids, peers : SUBSET Ids]
             \cup [kind : {"PeerJoined", "PeerLeft"}, id : Ids]

Welcome(id, ps) == [kind |-> "Welcome", your_id |-> id, peers |-> ps]
PeerJoined(id) == [kind |-> "PeerJoined", id |-> id]
PeerLeft(id) == [kind |-> "PeerLeft", id |-> id]

\* Internal::Lost(HOST_ID), the only loss a client can hear of.
Lost == [kind |-> "Lost"]

\* A game packet, with where it came from and whom it was addressed to.
Targets == -MaxId .. MaxId
Packet == [from : Nodes, to : Targets]

VARIABLES
    task,        \* stage of each session's `run`
    next_id,     \* the host's next_id
    offered,     \* connections routed to the host, not yet taken by accept()
    links,       \* clients in the host's State::links
    peer,        \* the id a client's link and readers carry at the host
    hasHost,     \* whether a client's State::links holds the host
    hostEnd,     \* the host's end of each connection
    clientEnd,   \* the client's end of each connection
    wire,        \* control frames written to a client's stream, not yet read
    internal,    \* a client's `internal` channel
    losses,      \* the host's `internal` channel: Lost(peer[c]) of these c
    announced,   \* State::announced, the peers the main thread knows
    gone,        \* peers PeerDisconnected was sent for
    ready,       \* the id of the last Ready sent, 0 before
    closed,      \* whether Closed was sent
    down, up,    \* packets in flight on data streams, per client
    delivered,   \* Packet events: the packet, the sender's id, and whether
                 \* that id was announced when the event was sent
    sent         \* packets sent so far

hostVars == <<next_id, offered, links, peer, losses>>
endVars == <<hostEnd, clientEnd>>
viewVars == <<announced, gone, ready, closed>>
dataVars == <<down, up, delivered, sent>>
vars == <<task, hostVars, hasHost, endVars, wire, internal, viewVars, dataVars>>

LinkIds == {peer[c] : c \in links}

Init ==
    /\ task = [n \in Nodes |-> IF n = Host THEN "running" ELSE "dialling"]
    /\ next_id = FIRST_CLIENT_ID
    /\ offered = {}
    /\ links = {}
    /\ peer = [c \in Clients |-> 0]
    /\ hasHost = [c \in Clients |-> FALSE]
    /\ hostEnd = [c \in Clients |-> "none"]
    /\ clientEnd = [c \in Clients |-> "none"]
    /\ wire = [c \in Clients |-> <<>>]
    /\ internal = [c \in Clients |-> <<>>]
    /\ losses = {}
    /\ announced = [n \in Nodes |-> {}]
    /\ gone = [n \in Nodes |-> {}]
    /\ ready = [n \in Nodes |-> IF n = Host THEN HOST_ID ELSE 0]
    /\ closed = [n \in Nodes |-> FALSE]
    /\ down = [c \in Clients |-> <<>>]
    /\ up = [c \in Clients |-> <<>>]
    /\ delivered = [n \in Nodes |-> {}]
    /\ sent = 0

----------------------------------------------------------------------------
(* Connections.  An end is "open", then "closed" (by its own side, by the   *)
(* other side's close arriving, or by timeout), then "reported" once the   *)
(* close watcher has sent Lost.  What was received before the end closed   *)
(* stays readable after it; what is written once either end is closed      *)
(* never arrives.                                                          *)

Carries(c) == hostEnd[c] = "open" /\ clientEnd[c] = "open"

Shut(end) == IF end = "open" THEN "closed" ELSE end

\* control_to: the frames on client c's one control stream once m is written.
ControlTo(c, m) == IF Carries(c) THEN Append(wire[c], m) ELSE wire[c]

\* State::announce and State::forget at node n: each peer once.
Announce(n, ps) ==
    announced' = [announced EXCEPT ![n] = @ \cup ps]

Forget(n, p) ==
    /\ announced' = [announced EXCEPT ![n] = @ \ {p}]
    /\ gone' = [gone EXCEPT ![n] = @ \cup (announced[n] \cap {p})]

----------------------------------------------------------------------------
(* Joining. *)

\* connect() fails: Closed is the only event and the task returns.
DialFails(c) ==
    /\ task[c] = "dialling"
    /\ task' = [task EXCEPT ![c] = "ended"]
    /\ closed' = [closed EXCEPT ![c] = TRUE]
    /\ UNCHANGED <<hostVars, hasHost, endVars, wire, internal,
                   announced, gone, ready, dataVars>>

\* The handshake completes: the client's task adds its link to the host, and
\* the dispatcher queues the other end for the host's session.
Connect(c) ==
    /\ task[c] = "dialling"
    /\ task[Host] = "running"
    /\ task' = [task EXCEPT ![c] = "running"]
    /\ hasHost' = [hasHost EXCEPT ![c] = TRUE]
    /\ hostEnd' = [hostEnd EXCEPT ![c] = "open"]
    /\ clientEnd' = [clientEnd EXCEPT ![c] = "open"]
    /\ offered' = offered \cup {c}
    /\ UNCHANGED <<next_id, links, peer, losses, wire, internal, viewVars, dataVars>>

\* Mutant: the counter stays.
HostAcceptReusesId(c) ==
    /\ task[Host] = "running"
    /\ c \in offered
    /\ next_id <= MaxId
    /\ next_id' = next_id
    /\ offered' = offered \ {c}
    /\ peer' = [peer EXCEPT ![c] = next_id]
    /\ links' = links \cup {c}
    /\ wire' = [d \in Clients |->
                  IF d = c THEN ControlTo(c, Welcome(next_id, LinkIds))
                  ELSE IF d \in links THEN ControlTo(d, PeerJoined(next_id))
                  ELSE wire[d]]
    /\ Announce(Host, {next_id})
    /\ UNCHANGED <<task, hasHost, endVars, losses, internal,
                   gone, ready, closed, dataVars>>

\* accept() yields a connection: the next id, and State::welcome.  The id
\* counter's wrap at MaxId is outside the model.
HostAccept(c) ==
    /\ task[Host] = "running"
    /\ c \in offered
    /\ next_id <= MaxId
    /\ next_id' = next_id + 1
    /\ offered' = offered \ {c}
    /\ peer' = [peer EXCEPT ![c] = next_id]
    /\ links' = links \cup {c}
    /\ wire' = [d \in Clients |->
                  IF d = c THEN ControlTo(c, Welcome(next_id, LinkIds))
                  ELSE IF d \in links THEN ControlTo(d, PeerJoined(next_id))
                  ELSE wire[d]]
    /\ Announce(Host, {next_id})
    /\ UNCHANGED <<task, hasHost, endVars, losses, internal,
                   gone, ready, closed, dataVars>>

----------------------------------------------------------------------------
(* The client's reader tasks and session task. *)

\* read_stream on the control channel passes the next frame on.
ReadControl(c) ==
    /\ task[c] = "running"
    /\ wire[c] # <<>>
    /\ internal' = [internal EXCEPT ![c] = Append(@, Head(wire[c]))]
    /\ wire' = [wire EXCEPT ![c] = Tail(@)]
    /\ UNCHANGED <<task, hostVars, hasHost, endVars, viewVars, dataVars>>

\* The close watcher's closed() returns.
ClientWatch(c) ==
    /\ task[c] = "running"
    /\ clientEnd[c] = "closed"
    /\ clientEnd' = [clientEnd EXCEPT ![c] = "reported"]
    /\ internal' = [internal EXCEPT ![c] = Append(@, Lost)]
    /\ UNCHANGED <<task, hostVars, hasHost, hostEnd, wire, viewVars, dataVars>>

\* State::apply of the next control message.
ApplyControl(c) ==
    /\ task[c] = "running"
    /\ internal[c] # <<>>
    /\ LET msg == Head(internal[c]) IN
         \/ /\ msg.kind = "Welcome"
            /\ ready' = [ready EXCEPT ![c] = msg.your_id]
            /\ Announce(c, {HOST_ID} \cup msg.peers)
            /\ UNCHANGED gone
         \/ /\ msg.kind = "PeerJoined"
            /\ Announce(c, {msg.id})
            /\ UNCHANGED <<ready, gone>>
         \/ /\ msg.kind = "PeerLeft"
            /\ Forget(c, msg.id)
            /\ UNCHANGED ready
    /\ internal' = [internal EXCEPT ![c] = Tail(@)]
    /\ UNCHANGED <<task, hostVars, hasHost, endVars, wire, closed, dataVars>>

\* Mutant: Closed is not sent.
ClientLostSilently(c) ==
    /\ task[c] = "running"
    /\ internal[c] # <<>>
    /\ Head(internal[c]) = Lost
    /\ internal' = [internal EXCEPT ![c] = Tail(@)]
    /\ hasHost' = [hasHost EXCEPT ![c] = FALSE]
    /\ Forget(c, HOST_ID)
    /\ UNCHANGED <<task, hostVars, endVars, wire, ready, closed, dataVars>>

\* State::lost(HOST_ID): the session is over for the main thread, but the
\* loop goes on until its commands close.
ClientLost(c) ==
    /\ task[c] = "running"
    /\ internal[c] # <<>>
    /\ Head(internal[c]) = Lost
    /\ internal' = [internal EXCEPT ![c] = Tail(@)]
    /\ hasHost' = [hasHost EXCEPT ![c] = FALSE]
    /\ Forget(c, HOST_ID)
    /\ closed' = [closed EXCEPT ![c] = TRUE]
    /\ UNCHANGED <<task, hostVars, endVars, wire, ready, dataVars>>

\* Command::Disconnect(HOST_ID): drop_link closes, the watcher does the rest.
ClientDisconnect(c) ==
    /\ task[c] = "running"
    /\ hasHost[c]
    /\ clientEnd[c] = "open"
    /\ clientEnd' = [clientEnd EXCEPT ![c] = "closed"]
    /\ UNCHANGED <<task, hostVars, hasHost, hostEnd, wire, internal, viewVars, dataVars>>

\* Command::Close, or the commands channel closed because the main thread
\* dropped the Session: links are closed, Closed is sent, the task returns.
\* `internal` goes with it, and the control stream's reader stops there.
ClientClose(c) ==
    /\ task[c] = "running"
    /\ task' = [task EXCEPT ![c] = "ended"]
    /\ hasHost' = [hasHost EXCEPT ![c] = FALSE]
    /\ clientEnd' = [clientEnd EXCEPT ![c] = Shut(@)]
    /\ closed' = [closed EXCEPT ![c] = TRUE]
    /\ wire' = [wire EXCEPT ![c] = <<>>]
    /\ internal' = [internal EXCEPT ![c] = <<>>]
    /\ UNCHANGED <<hostVars, hostEnd, announced, gone, ready, dataVars>>

\* The host's close arrives, or the path times out.
ClientEndCloses(c) ==
    /\ clientEnd[c] = "open"
    /\ clientEnd' = [clientEnd EXCEPT ![c] = "closed"]
    /\ UNCHANGED <<task, hostVars, hasHost, hostEnd, wire, internal, viewVars, dataVars>>

----------------------------------------------------------------------------
(* The host's reader tasks and session task. *)

\* The client's close arrives, or the path times out.
HostEndCloses(c) ==
    /\ hostEnd[c] = "open"
    /\ hostEnd' = [hostEnd EXCEPT ![c] = "closed"]
    /\ UNCHANGED <<task, hostVars, hasHost, clientEnd, wire, internal, viewVars, dataVars>>

\* The close watcher of an accepted connection sends Lost.
HostWatch(c) ==
    /\ task[Host] = "running"
    /\ peer[c] # 0
    /\ hostEnd[c] = "closed"
    /\ hostEnd' = [hostEnd EXCEPT ![c] = "reported"]
    /\ losses' = losses \cup {c}
    /\ UNCHANGED <<task, next_id, offered, links, peer, hasHost, clientEnd,
                   wire, internal, viewVars, dataVars>>

\* Mutant: the others are not told.
HostLostSilently(c) ==
    /\ task[Host] = "running"
    /\ c \in losses
    /\ losses' = losses \ {c}
    /\ links' = links \ {c}
    /\ IF c \in links
       THEN /\ Forget(Host, peer[c])
            /\ UNCHANGED wire
       ELSE UNCHANGED <<announced, gone, wire>>
    /\ UNCHANGED <<task, next_id, offered, peer, hasHost, endVars, internal,
                   ready, closed, dataVars>>

\* State::lost on the host: forget the peer and tell the others.
HostLost(c) ==
    /\ task[Host] = "running"
    /\ c \in losses
    /\ losses' = losses \ {c}
    /\ links' = links \ {c}
    /\ IF c \in links
       THEN /\ Forget(Host, peer[c])
            /\ wire' = [d \in Clients |-> IF d \in links \ {c}
                                           THEN ControlTo(d, PeerLeft(peer[c]))
                                           ELSE wire[d]]
       ELSE UNCHANGED <<announced, gone, wire>>
    /\ UNCHANGED <<task, next_id, offered, peer, hasHost, endVars, internal,
                   ready, closed, dataVars>>

\* Command::Disconnect(peer).
HostDisconnect(c) ==
    /\ task[Host] = "running"
    /\ c \in links
    /\ hostEnd[c] = "open"
    /\ hostEnd' = [hostEnd EXCEPT ![c] = "closed"]
    /\ UNCHANGED <<task, hostVars, hasHost, clientEnd, wire, internal, viewVars, dataVars>>

\* Mutant: the links are dropped without being closed.
HostCloseLeavesLinksOpen ==
    /\ task[Host] = "running"
    /\ task' = [task EXCEPT ![Host] = "ended"]
    /\ links' = {}
    /\ offered' = {}
    /\ losses' = {}
    /\ closed' = [closed EXCEPT ![Host] = TRUE]
    /\ UNCHANGED <<next_id, peer, hasHost, endVars, wire, internal,
                   announced, gone, ready, dataVars>>

\* Command::Close or the commands channel closed.  Dropping the registration
\* drops, and so closes, the connections still queued in it.
HostClose ==
    /\ task[Host] = "running"
    /\ task' = [task EXCEPT ![Host] = "ended"]
    /\ hostEnd' = [c \in Clients |-> IF c \in links \cup offered
                                     THEN Shut(hostEnd[c]) ELSE hostEnd[c]]
    /\ links' = {}
    /\ offered' = {}
    /\ losses' = {}
    /\ closed' = [closed EXCEPT ![Host] = TRUE]
    /\ UNCHANGED <<next_id, peer, hasHost, clientEnd, wire, internal,
                   announced, gone, ready, dataVars>>

----------------------------------------------------------------------------
(* Game packets on one reliable channel: a stream of its own per link, so   *)
(* nothing orders it with the control stream.                              *)

\* Mutant: the excluded id keeps its sign.
RouteExcludingTarget(keys, target) ==
    IF target <= 0 THEN keys \ {target}
    ELSE {IF target \in keys THEN target ELSE HOST_ID}

\* State::send's choice of links among `keys`, for a target.
Route(keys, target) ==
    IF target <= 0 THEN keys \ {-target}
    ELSE {IF target \in keys THEN target ELSE HOST_ID}

\* Command::Send on the host.
HostSend(target) ==
    /\ task[Host] = "running"
    /\ sent < MaxSends
    /\ sent' = sent + 1
    /\ LET reached == {c \in links : peer[c] \in Route(LinkIds, target)} IN
         down' = [c \in Clients |->
                    IF c \in reached /\ Carries(c)
                    THEN Append(down[c], [from |-> Host, to |-> target])
                    ELSE down[c]]
    /\ UNCHANGED <<task, hostVars, hasHost, endVars, wire, internal, viewVars,
                   up, delivered>>

\* Command::Send on a client, whose game has seen Ready.
ClientSend(c, target) ==
    /\ task[c] = "running"
    /\ ready[c] # 0
    /\ sent < MaxSends
    /\ sent' = sent + 1
    /\ LET keys == IF hasHost[c] THEN {HOST_ID} ELSE {} IN
         up' = IF HOST_ID \in Route(keys, target) \cap keys /\ Carries(c)
               THEN [up EXCEPT ![c] = Append(@, [from |-> c, to |-> target])]
               ELSE up
    /\ UNCHANGED <<task, hostVars, hasHost, endVars, wire, internal, viewVars,
                   down, delivered>>

\* read_stream at node n hands on a packet of peer id.  It sends straight to
\* the main thread, past the session task.  A session ends because the main
\* thread let go of it (IrohPeer::close, or Closed handled), so nothing
\* receives events after that.
Deliver(n, id, pkt) ==
    delivered' = [delivered EXCEPT ![n] =
                    @ \cup {[pkt |-> pkt, peer |-> id, known |-> id \in announced[n]]}]

ClientDeliver(c) ==
    /\ task[c] = "running"
    /\ down[c] # <<>>
    /\ Deliver(c, HOST_ID, Head(down[c]))
    /\ down' = [down EXCEPT ![c] = Tail(@)]
    /\ UNCHANGED <<task, hostVars, hasHost, endVars, wire, internal, viewVars,
                   up, sent>>

HostDeliver(c) ==
    /\ task[Host] = "running"
    /\ peer[c] # 0
    /\ up[c] # <<>>
    /\ Deliver(Host, peer[c], Head(up[c]))
    /\ up' = [up EXCEPT ![c] = Tail(@)]
    /\ UNCHANGED <<task, hostVars, hasHost, endVars, wire, internal, viewVars,
                   down, sent>>

----------------------------------------------------------------------------
Next ==
    \/ \E c \in Clients :
         \/ DialFails(c) \/ Connect(c) \/ HostAccept(c)
         \/ ReadControl(c) \/ ClientWatch(c) \/ ApplyControl(c) \/ ClientLost(c)
         \/ ClientDisconnect(c) \/ ClientClose(c) \/ ClientEndCloses(c)
         \/ HostEndCloses(c) \/ HostWatch(c) \/ HostLost(c) \/ HostDisconnect(c)
         \/ ClientDeliver(c) \/ HostDeliver(c)
         \/ \E t \in Targets : ClientSend(c, t)
    \/ \E t \in Targets : HostSend(t)
    \/ HostClose

Spec == Init /\ [][Next]_vars

\* Every task the runtime has ready is run, and a close that one end made is
\* carried to the other or found out by timeout.  Data still buffered behind
\* a closed connection, the players' own decisions and the timeouts of a
\* healthy path promise nothing.
Fairness ==
    \A c \in Clients :
      /\ WF_vars(DialFails(c) \/ Connect(c))
      /\ WF_vars(HostAccept(c))
      /\ WF_vars(clientEnd[c] = "open" /\ ReadControl(c))
      /\ WF_vars(ClientWatch(c))
      /\ WF_vars(ApplyControl(c) \/ ClientLost(c))
      /\ WF_vars(hostEnd[c] # "open" /\ ClientEndCloses(c))
      /\ WF_vars(clientEnd[c] # "open" /\ HostEndCloses(c))
      /\ WF_vars(HostWatch(c))
      /\ WF_vars(HostLost(c))

FairSpec == Spec /\ Fairness

----------------------------------------------------------------------------
(* Properties. *)

ConnEnd == {"none", "open", "closed", "reported"}

\* Every variable of the session tasks, the connections and the channels
\* between them stays within its type.
TypeOK ==
    /\ task \in [Nodes -> {"dialling", "running", "ended"}]
    /\ next_id \in FIRST_CLIENT_ID .. MaxId + 1
    /\ offered \subseteq Clients
    /\ links \subseteq Clients
    /\ peer \in [Clients -> 0 .. MaxId]
    /\ hasHost \in [Clients -> BOOLEAN]
    /\ hostEnd \in [Clients -> ConnEnd]
    /\ clientEnd \in [Clients -> ConnEnd]
    /\ wire \in [Clients -> Seq(Control)]
    /\ internal \in [Clients -> Seq(Control \cup {Lost})]
    /\ losses \subseteq Clients
    /\ announced \in [Nodes -> SUBSET Ids]
    /\ gone \in [Nodes -> SUBSET Ids]
    /\ ready \in [Nodes -> 0 .. MaxId]
    /\ closed \in [Nodes -> BOOLEAN]
    /\ down \in [Clients -> Seq(Packet)]
    /\ up \in [Clients -> Seq(Packet)]
    /\ delivered \in [Nodes -> SUBSET [pkt : Packet, peer : 0 .. MaxId, known : BOOLEAN]]
    /\ sent \in 0 .. MaxSends

\* A control message says whether p is in the session, or says nothing of it.
SaysIn(m, p) == \/ m.kind = "Welcome" /\ p \in m.peers
                \/ m.kind = "PeerJoined" /\ m.id = p
SaysOut(m, p) == m.kind = "PeerLeft" /\ m.id = p
Mentions(m, p) == SaysIn(m, p) \/ SaysOut(m, p)

Silent(q, p) == \A k \in DOMAIN q : ~Mentions(q[k], p)
LastWord(q, p, k) ==
    /\ k \in DOMAIN q
    /\ Mentions(q[k], p)
    /\ \A j \in DOMAIN q : j > k => ~Mentions(q[j], p)

\* Membership agreement about p, for a client whose unread control frames are
\* w, whose unapplied messages are i and whose view is `view`: the last word
\* about p on its way, or the view once nothing is on its way, is what the
\* roster says.
Agree(w, i, view, roster, p) ==
    /\ \A k \in DOMAIN w :
         LastWord(w, p, k) => (p \in roster <=> SaysIn(w[k], p))
    /\ Silent(w, p) => \A k \in DOMAIN i :
         LastWord(i, p, k) => (p \in roster <=> SaysIn(i[k], p))
    /\ Silent(w, p) /\ Silent(i, p) => (p \in roster <=> p \in view)

\* For every client that is connected at both ends and welcomed, what it has
\* applied and what is still on its way amount to the host's own roster: no
\* interleaving of joins, losses and control frames (welcome, lost, apply)
\* loses a peer or leaves a ghost.
ViewsAgree ==
    \A c \in links : Carries(c) =>
      \A p \in Ids \ {HOST_ID, peer[c]} :
        Agree(wire[c], internal[c], announced[c], LinkIds, p)

\* A peer reported gone is never announced again, on any node: ids are not
\* reused and PeerLeft cannot overtake the message that introduced the peer.
NoReturn == \A n \in Nodes : announced[n] \cap gone[n] = {}

\* The id a client is given by Welcome is the one the host files it under, and
\* is no other client's.
IdsAgree ==
    \A c \in Clients : ready[c] # 0 =>
      /\ ready[c] = peer[c]
      /\ \A d \in Clients \ {c} : ready[d] # ready[c]

\* A packet of the host reaches no peer but those State::send names: everyone
\* for 0, everyone but p for -p, p alone for p.
TargetsRespected ==
    \A c \in Clients : \A d \in delivered[c] :
      LET t == d.pkt.to IN t = peer[c] \/ (t <= 0 /\ -t # peer[c])

\* Every join is answered: with an id, or with Closed.
JoinIsAnswered ==
    \A c \in Clients : task[c] = "dialling" ~> (ready[c] # 0 \/ closed[c])

\* When the host's session ends every client's game is told.
HostEndIsHeard ==
    \A c \in Clients : (task[Host] = "ended" /\ task[c] = "running") ~> closed[c]

\* A peer the host lost disappears from every other client's roster, unless
\* that client's own session ended.
DepartureIsHeard ==
    \A c \in Clients : \A d \in Clients \ {c} :
      (peer[d] \in gone[Host] /\ c \in links) ~> (peer[d] \notin announced[c] \/ closed[c])

----------------------------------------------------------------------------
(* What the comments say, and the code does not do. *)

\* session.rs, Event::Closed: "The session ended and will produce nothing
\* further."
NothingAfterClosed ==
    [][\A n \in Nodes : closed[n] =>
         UNCHANGED <<announced[n], ready[n], delivered[n]>>]_<<viewVars, delivered>>

\* peer.rs, emit: "MultiplayerAPI needs its peer list updated before the
\* packets that follow": a packet comes from a peer that was announced.
PacketsFromKnownPeers ==
    \A n \in Nodes : \A d \in delivered[n] : d.known

\* session.rs, send: "Anything not directly connected goes via the host, which
\* relays": a packet for another client is not for the host's own game.
HostRelays ==
    \A d \in delivered[Host] : d.pkt.to \in {HOST_ID} \cup {t \in Targets : t <= 0}

=============================================================================
