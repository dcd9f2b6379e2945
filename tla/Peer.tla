-------------------------------- MODULE Peer --------------------------------
(***************************************************************************)
(* IrohPeer (peer.rs): the object a game hosts or joins with, on the main   *)
(* thread, and the sessions it starts one after another on one endpoint     *)
(* (session.rs: start, run).  What a session does between its first and    *)
(* last event is module Session; here it is the stream of events its task  *)
(* sends and the ALPN claim a hosting one holds.                            *)
(*                                                                         *)
(* poll drains the current session's events into a batch and handles them  *)
(* one by one.  Peer and warning events emit a signal inline, and a script *)
(* connected to it may call the peer again while the rest of the batch is   *)
(* still to be handled.                                                     *)
(***************************************************************************)
EXTENDS Naturals, Sequences

CONSTANTS
    MaxSessions,  \* bound: calls of host and join
    MaxEvents,    \* bound: peer and packet events of each session
    Reentrant     \* scripts call the peer from within its signals

ASSUME BoundsAssumption == MaxSessions \in Nat /\ MaxEvents \in Nat
ASSUME ReentrantAssumption == Reentrant \in BOOLEAN

HOST_ID == 1
CLIENT_ID == 2   \* stands for any id Welcome hands out
Numbers == 1 .. MaxSessions
NoSession == 0

VARIABLES
    session,     \* IrohPeer::session: the number of the current one
    status,      \* IrohPeer::status
    unique_id,   \* IrohPeer::unique_id
    incoming,    \* IrohPeer::incoming: the session each packet came from
    batch,       \* events poll has drained and not handled
    inSignal,    \* a signal handler is running
    role,        \* each session: "unused", "host" or "join"
    task,        \* its task: "none", "dialling", "joined", "running", "released",
                 \* "ended", or without its host: "lost", "orphaned" before Welcome
    commanded,   \* Close was sent to it, or its command sender dropped
    events,      \* its events, not yet drained
    budget,      \* peer and packet events it may still send
    claim,       \* the session whose registration holds the session ALPN
    cut          \* sessions whose task fell with the runtime

peerVars == <<session, status, unique_id, incoming, batch, inSignal>>
vars == <<peerVars, role, task, commanded, events, budget, claim, cut>>

Init ==
    /\ session = NoSession
    /\ status = "DISCONNECTED"
    /\ unique_id = 0
    /\ incoming = <<>>
    /\ batch = <<>>
    /\ inSignal = FALSE
    /\ role = [k \in Numbers |-> "unused"]
    /\ task = [k \in Numbers |-> "none"]
    /\ commanded = [k \in Numbers |-> FALSE]
    /\ events = [k \in Numbers |-> <<>>]
    /\ budget = [k \in Numbers |-> MaxEvents]
    /\ claim = NoSession
    /\ cut = {}

----------------------------------------------------------------------------
(* The script's calls. *)

\* The script runs between polls, or within a signal.
ScriptRuns == batch = <<>> \/ (Reentrant /\ inSignal)

\* Mutant: the session is not told.
ToldNothing == commanded

\* Letting go of the current session drops its command sender and its event
\* receiver.
Told == [k \in Numbers |-> commanded[k] \/ k = session]
Kept == [k \in Numbers |-> IF k = session THEN <<>> ELSE events[k]]

Unused == {k \in Numbers : role[k] = "unused"}
NextNumber == CHOOSE k \in Unused : \A j \in Unused : k <= j

\* Mutant: the claim is not asked for.
HostUnchecked(spawned) ==
    /\ ScriptRuns
    /\ Unused # {}
    /\ LET k == NextNumber
           free == TRUE
       IN  /\ role' = [role EXCEPT ![k] = "host"]
           /\ task' = [task EXCEPT ![k] = IF free /\ spawned THEN "joined" ELSE "ended"]
           /\ claim' = IF free /\ spawned THEN k ELSE claim
           /\ events' = [Kept EXCEPT ![k] = IF free /\ spawned THEN <<>> ELSE <<"Closed">>]
           /\ commanded' = Told
           /\ session' = k
    /\ unique_id' = HOST_ID
    /\ status' = "CONNECTING"
    /\ UNCHANGED <<incoming, batch, inSignal, budget, cut>>

\* host: Session::start claims the ALPN, or the session is born closed.
\* detach may find no runtime, which drops the registration again.
Host(spawned) ==
    /\ ScriptRuns
    /\ Unused # {}
    /\ LET k == NextNumber
           free == claim = NoSession
       IN  /\ role' = [role EXCEPT ![k] = "host"]
           /\ task' = [task EXCEPT ![k] = IF free /\ spawned THEN "joined" ELSE "ended"]
           /\ claim' = IF free /\ spawned THEN k ELSE claim
           /\ events' = [Kept EXCEPT ![k] = IF free /\ spawned THEN <<>> ELSE <<"Closed">>]
           /\ commanded' = Told
           /\ session' = k
    /\ unique_id' = HOST_ID
    /\ status' = "CONNECTING"
    /\ UNCHANGED <<incoming, batch, inSignal, budget, cut>>

\* Mutant: a missing runtime is not reported.
JoinSilently(spawned) ==
    /\ ScriptRuns
    /\ Unused # {}
    /\ LET k == NextNumber
       IN  /\ role' = [role EXCEPT ![k] = "join"]
           /\ task' = [task EXCEPT ![k] = IF spawned THEN "dialling" ELSE "ended"]
           /\ events' = Kept
           /\ commanded' = Told
           /\ session' = k
    /\ status' = "CONNECTING"
    /\ UNCHANGED <<unique_id, incoming, batch, inSignal, budget, claim, cut>>

\* start_join, past its checks.
Join(spawned) ==
    /\ ScriptRuns
    /\ Unused # {}
    /\ LET k == NextNumber
       IN  /\ role' = [role EXCEPT ![k] = "join"]
           /\ task' = [task EXCEPT ![k] = IF spawned THEN "dialling" ELSE "ended"]
           /\ events' = [Kept EXCEPT ![k] = IF spawned THEN <<>> ELSE <<"Closed">>]
           /\ commanded' = Told
           /\ session' = k
    /\ status' = "CONNECTING"
    /\ UNCHANGED <<unique_id, incoming, batch, inSignal, budget, claim, cut>>

\* close, with a session or without one.
Close ==
    /\ ScriptRuns
    /\ commanded' = Told
    /\ events' = Kept
    /\ session' = NoSession
    /\ incoming' = <<>>
    /\ unique_id' = 0
    /\ status' = "DISCONNECTED"
    /\ UNCHANGED <<batch, inSignal, role, task, budget, claim, cut>>

\* get_packet.
GetPacket ==
    /\ ScriptRuns
    /\ incoming # <<>>
    /\ incoming' = Tail(incoming)
    /\ UNCHANGED <<session, status, unique_id, batch, inSignal, role, task, commanded,
                   events, budget, claim, cut>>

----------------------------------------------------------------------------
(* poll. *)

\* All events waiting are drained up front.
Poll ==
    /\ batch = <<>>
    /\ session # NoSession
    /\ events[session] # <<>>
    /\ batch' = [i \in 1 .. Len(events[session]) |->
                   [from |-> session, event |-> events[session][i]]]
    /\ events' = [events EXCEPT ![session] = <<>>]
    /\ inSignal' = FALSE
    /\ UNCHANGED <<session, status, unique_id, incoming, role, task, commanded, budget, claim, cut>>

\* Mutant: the queue is filled where it is read.
PushFront(k) == <<k>> \o incoming

\* incoming.push_back.
Push(k) == Append(incoming, k)

\* Mutant: Closed leaves the status.
HandleKeepsStatus ==
    /\ batch # <<>>
    /\ batch' = Tail(batch)
    /\ LET e == Head(batch).event IN
         /\ inSignal' = (e = "Peer" /\ Tail(batch) # <<>>)
         /\ \/ /\ e = "Ready"
               /\ unique_id' = IF role[Head(batch).from] = "host" THEN HOST_ID ELSE CLIENT_ID
               /\ status' = "CONNECTED"
               /\ UNCHANGED <<session, incoming, commanded, events>>
            \/ /\ e = "Peer"
               /\ UNCHANGED <<session, status, unique_id, incoming, commanded, events>>
            \/ /\ e = "Packet"
               /\ incoming' = Push(Head(batch).from)
               /\ UNCHANGED <<session, status, unique_id, commanded, events>>
            \/ /\ e = "Closed"
               /\ commanded' = Told
               /\ events' = Kept
               /\ session' = NoSession
               /\ unique_id' = 0
               /\ UNCHANGED <<status, incoming>>
    /\ UNCHANGED <<role, task, budget, claim, cut>>

\* handle, for the next event of the batch, whatever session is current now.
Handle ==
    /\ batch # <<>>
    /\ batch' = Tail(batch)
    /\ LET e == Head(batch).event IN
         /\ inSignal' = (e = "Peer" /\ Tail(batch) # <<>>)
         /\ \/ /\ e = "Ready"
               /\ unique_id' = IF role[Head(batch).from] = "host" THEN HOST_ID ELSE CLIENT_ID
               /\ status' = "CONNECTED"
               /\ UNCHANGED <<session, incoming, commanded, events>>
            \/ /\ e = "Peer"
               /\ UNCHANGED <<session, status, unique_id, incoming, commanded, events>>
            \/ /\ e = "Packet"
               /\ incoming' = Push(Head(batch).from)
               /\ UNCHANGED <<session, status, unique_id, commanded, events>>
            \/ /\ e = "Closed"
               /\ commanded' = Told
               /\ events' = Kept
               /\ session' = NoSession
               /\ unique_id' = 0
               /\ status' = "DISCONNECTED"
               /\ UNCHANGED incoming
    /\ UNCHANGED <<role, task, budget, claim, cut>>

----------------------------------------------------------------------------
(* The task of session k. *)

\* events.send: nothing receives from a session the peer let go of.
Emit(k, e) == events' = [events EXCEPT ![k] = IF k = session THEN Append(@, e) ELSE @]

\* run, connect: a client's connection is made.
Connected(k) ==
    /\ task[k] = "dialling"
    /\ task' = [task EXCEPT ![k] = "joined"]
    /\ UNCHANGED <<peerVars, role, commanded, events, budget, claim, cut>>

\* run, connect: the dial fails, Closed is sent and the task returns.
DialFails(k) ==
    /\ task[k] = "dialling"
    /\ task' = [task EXCEPT ![k] = "ended"]
    /\ Emit(k, "Closed")
    /\ UNCHANGED <<peerVars, role, commanded, budget, claim, cut>>

\* The host's first event, and a client's when it applies Welcome, which may have
\* been read off the control stream and not applied when the host was lost.
SendReady(k) ==
    /\ task[k] \in {"joined", "orphaned"}
    /\ task' = [task EXCEPT ![k] = IF @ = "joined" THEN "running" ELSE "lost"]
    /\ Emit(k, "Ready")
    /\ UNCHANGED <<peerVars, role, commanded, budget, claim, cut>>

\* PeerConnected, PeerDisconnected and Warning, from the session task; control
\* frames that were read before the host was lost are applied after it.
SendPeer(k) ==
    /\ task[k] \in {"running", "lost"}
    /\ budget[k] > 0
    /\ budget' = [budget EXCEPT ![k] = @ - 1]
    /\ Emit(k, "Peer")
    /\ UNCHANGED <<peerVars, role, task, commanded, claim, cut>>

\* Packet, from a reader task: it may be ahead of Ready and behind the end.
SendPacket(k) ==
    /\ task[k] \in {"joined", "running", "lost", "orphaned"}
    /\ budget[k] > 0
    /\ budget' = [budget EXCEPT ![k] = @ - 1]
    /\ Emit(k, "Packet")
    /\ UNCHANGED <<peerVars, role, task, commanded, claim, cut>>

\* State::lost of a client's host: a peer event if it was announced, Closed,
\* and the loop goes on.
LoseHost(k) ==
    /\ role[k] = "join"
    /\ task[k] \in {"joined", "running"}
    /\ task' = [task EXCEPT ![k] = IF @ = "running" THEN "lost" ELSE "orphaned"]
    /\ events' = [events EXCEPT ![k] =
                    IF k # session THEN @
                    ELSE IF task[k] = "running" THEN @ \o <<"Peer", "Closed">>
                    ELSE Append(@, "Closed")]
    /\ UNCHANGED <<peerVars, role, commanded, budget, claim, cut>>

\* run, past the loop: links closed and the registration dropped.
Release(k) ==
    /\ commanded[k]
    /\ role[k] = "host" => task[k] # "joined"
    /\ task[k] \in {"joined", "running", "lost", "orphaned"}
    /\ task' = [task EXCEPT ![k] = "released"]
    /\ claim' = IF claim = k THEN NoSession ELSE claim
    /\ UNCHANGED <<peerVars, role, commanded, events, budget, cut>>

\* run: the last event.
Finish(k) ==
    /\ task[k] = "released"
    /\ task' = [task EXCEPT ![k] = "ended"]
    /\ Emit(k, "Closed")
    /\ UNCHANGED <<peerVars, role, commanded, budget, claim, cut>>

\* The last lease falls (runtime.rs, Lease::drop), as when the script closes the
\* endpoint under the peer: every task is dropped where it stands, and with it
\* its registration; nobody sends Closed.
RuntimeStops ==
    /\ ScriptRuns
    /\ \E k \in Numbers : task[k] \notin {"none", "ended"}
    /\ cut' = cut \cup {k \in Numbers : task[k] \notin {"none", "ended"}}
    /\ task' = [k \in Numbers |-> IF task[k] = "none" THEN "none" ELSE "ended"]
    /\ claim' = NoSession
    /\ UNCHANGED <<peerVars, role, commanded, events, budget>>

----------------------------------------------------------------------------
Runs(k) == Connected(k) \/ DialFails(k) \/ SendReady(k) \/ Release(k) \/ Finish(k)

Next ==
    \/ \E spawned \in BOOLEAN : Host(spawned) \/ Join(spawned)
    \/ Close \/ GetPacket \/ Poll \/ Handle \/ RuntimeStops
    \/ \E k \in Numbers : Runs(k) \/ SendPeer(k) \/ SendPacket(k) \/ LoseHost(k)

Spec == Init /\ [][Next]_vars

\* MultiplayerAPI polls every frame and a poll runs to its end; tasks run, and
\* a client is welcomed or loses its host (Session, JoinIsAnswered); nothing makes
\* a Welcome come once the host is lost.
Fairness ==
    /\ WF_vars(Poll) /\ WF_vars(Handle)
    /\ \A k \in Numbers :
         /\ WF_vars(Connected(k) \/ DialFails(k))
         /\ WF_vars((task[k] = "joined" /\ SendReady(k)) \/ LoseHost(k) \/ Release(k))
         /\ WF_vars(Release(k)) /\ WF_vars(Finish(k))

FairSpec == Spec /\ Fairness

----------------------------------------------------------------------------
(* Properties. *)

Event == {"Ready", "Peer", "Packet", "Closed"}

\* The peer's fields and its sessions stay within their types.
TypeOK ==
    /\ session \in {NoSession} \cup Numbers
    /\ status \in {"DISCONNECTED", "CONNECTING", "CONNECTED"}
    /\ unique_id \in {0, HOST_ID, CLIENT_ID}
    /\ incoming \in Seq(Numbers)
    /\ batch \in Seq([from : Numbers, event : Event])
    /\ inSignal \in BOOLEAN
    /\ role \in [Numbers -> {"unused", "host", "join"}]
    /\ task \in [Numbers -> {"none", "dialling", "joined", "running", "lost", "orphaned",
                          "released", "ended"}]
    /\ commanded \in [Numbers -> BOOLEAN]
    /\ events \in [Numbers -> Seq(Event)]
    /\ budget \in [Numbers -> 0 .. MaxEvents]
    /\ claim \in {NoSession} \cup Numbers
    /\ cut \subseteq Numbers

\* What the game is told agrees with what there is: a session that is held shows
\* in the status, a game that reads CONNECTING has a session that can still end
\* it, and one that is connected in a session reads that session's id, even when
\* a signal handler replaced the session in the middle of a poll and when Ready
\* follows the end of its own session in a batch.
StatusMatchesSession ==
    /\ session # NoSession => status # "DISCONNECTED"
    /\ status = "CONNECTING" => session # NoSession
    /\ status = "CONNECTED" /\ session # NoSession =>
         unique_id = IF role[session] = "host" THEN HOST_ID ELSE CLIENT_ID

\* One session hosts per endpoint: every hosting task that runs holds the claim,
\* however quickly a game closes, replaces and restarts its sessions, and a
\* claim is held by such a task alone.
OneHostRuns ==
    \A k \in Numbers :
      claim = k <=> role[k] = "host" /\ task[k] \in {"joined", "running"}

\* Packets are read session by session: what an ended or replaced session left in
\* `incoming`, or in the rest of a batch, comes before the first packet of its
\* successor, so a game that reads up to a session's first packet has seen the
\* last of the one before (peer.rs poll, handle).
PacketsComeBySession ==
    LET left == incoming \o [i \in 1 .. Len(batch) |-> batch[i].from]
    IN  \A i, j \in 1 .. Len(left) : i < j => left[i] <= left[j]

\* No game is left connecting: it gets an id, or it is told the session is over,
\* unless the runtime was stopped under it, which nobody reports.
ConnectingEnds ==
    status = "CONNECTING" ~> status # "CONNECTING" \/ session \in cut

\* A session the peer let go of, by close, by replacing it or on Closed, comes to
\* its end and gives its claim back.
LetGoEnds ==
    \A k \in Numbers :
      role[k] # "unused" /\ session # k ~> task[k] = "ended" /\ claim # k

----------------------------------------------------------------------------
(* What a comment says, and the code does not do. *)

\* init: "Zero until a session assigns one; Godot treats it as no peer": a peer
\* whose join is still under way has no id.
JoinerHasNoId ==
    session # NoSession /\ role[session] = "join" /\ status = "CONNECTING" => unique_id = 0

\* session.rs, Event::Closed: "The session ended and will produce nothing
\* further", so nothing connects the game again once it was told of the end.  The
\* loop goes on after the host is lost, and a Welcome that was read before comes
\* out as a Ready behind Closed: poll leaves CONNECTED with no session to end it.
ConnectedHasSession == status = "CONNECTED" => session # NoSession

\* A Closed event ends the session it came from and no other.  So it is when
\* Reentrant is FALSE; a signal handler that starts a session in the middle of
\* a batch has it ended by the old one's Closed.  No comment promises either.
ClosedEndsItsOwn ==
    [][session # NoSession /\ session' = NoSession /\ batch # batch' =>
         Head(batch).from = session]_vars

=============================================================================
