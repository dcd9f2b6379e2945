----------------------------- MODULE Connection -----------------------------
(***************************************************************************)
(* One raw connection: raw.rs's dial, adopt and pump, and connection.rs's   *)
(* IrohConnection.                                                          *)
(*                                                                         *)
(* pump starts three tasks that feed one queue of events: the stream        *)
(* acceptor, the datagram reader and the close watcher.  What arrived before *)
(* the connection ended can still be accepted and read after it.  On the    *)
(* main thread the object drains the queue once a frame, or on demand, and  *)
(* its signals are deferred until the current call has unwound.             *)
(***************************************************************************)
EXTENDS Naturals, Sequences

CONSTANTS
    MaxDatagrams,  \* bound: datagrams that arrive
    MaxStreams     \* bound: streams the remote opens

ASSUME MaxDatagramsAssumption == MaxDatagrams \in Nat
ASSUME MaxStreamsAssumption == MaxStreams \in Nat

VARIABLES
    dialled,     \* dialled here, rather than accepted
    link,        \* the connection: "dialling", "up", "down"
    pumping,     \* pump has started its tasks
    watching,    \* the close watcher has not reported yet
    inbox,       \* datagrams received and not read by the reader task
    streams,     \* streams received and not accepted
    arrived,     \* datagrams received so far
    opened,      \* streams received so far
    queue,       \* events sent and not taken
    obj,         \* IrohConnection's fields: whether `events` and `connection`
                 \* are present, `datagrams`, and the deferred signals
    blocked,     \* get_datagram is waiting
    fired,       \* signals emitted, in order
    got,         \* datagrams get_datagram returned, in order
    scriptClosed \* the script called close

netVars == <<dialled, link, inbox, streams, arrived, opened>>
vars == <<netVars, pumping, watching, queue, obj, blocked, fired, got, scriptClosed>>

\* dial has just returned, or accepted has.
Init ==
    /\ dialled \in BOOLEAN
    /\ link = IF dialled THEN "dialling" ELSE "up"
    /\ pumping = ~dialled
    /\ watching = ~dialled
    /\ inbox = <<>>
    /\ streams = 0
    /\ arrived = 0
    /\ opened = 0
    /\ queue = <<>>
    /\ obj = [events |-> TRUE, connection |-> ~dialled, datagrams |-> <<>>, deferred |-> <<>>]
    /\ blocked = FALSE
    /\ fired = <<>>
    /\ got = <<>>
    /\ scriptClosed = FALSE

----------------------------------------------------------------------------
(* The network and the tasks. *)

Event(kind, n) == [kind |-> kind, n |-> n]

\* events.send: lost once the receiver is dropped.
Sent(e) == IF obj.events THEN Append(queue, e) ELSE queue

\* dial: the handshake finishes.  If Opened can no longer be delivered the
\* connection is dropped without a pump.
DialOpens ==
    /\ link = "dialling"
    /\ queue' = Sent(Event("Opened", 0))
    /\ link' = IF obj.events THEN "up" ELSE "down"
    /\ pumping' = obj.events
    /\ watching' = obj.events
    /\ UNCHANGED <<dialled, inbox, streams, arrived, opened, obj, blocked, fired, got, scriptClosed>>

\* Mutant: the failure is not reported.
DialFailsSilently ==
    /\ link = "dialling"
    /\ UNCHANGED queue
    /\ link' = "down"
    /\ UNCHANGED <<dialled, inbox, streams, arrived, opened, pumping, watching, obj, blocked,
                   fired, got, scriptClosed>>

\* dial: it fails.
DialFails ==
    /\ link = "dialling"
    /\ queue' = Sent(Event("Closed", 0))
    /\ link' = "down"
    /\ UNCHANGED <<dialled, inbox, streams, arrived, opened, pumping, watching, obj, blocked,
                   fired, got, scriptClosed>>

\* A datagram, or a stream the remote opened, is received.
DatagramArrives ==
    /\ link = "up"
    /\ arrived < MaxDatagrams
    /\ arrived' = arrived + 1
    /\ inbox' = Append(inbox, arrived + 1)
    /\ UNCHANGED <<dialled, link, streams, opened, pumping, watching, queue, obj, blocked,
                   fired, got, scriptClosed>>

StreamArrives ==
    /\ link = "up"
    /\ opened < MaxStreams
    /\ opened' = opened + 1
    /\ streams' = streams + 1
    /\ UNCHANGED <<dialled, link, inbox, arrived, pumping, watching, queue, obj, blocked,
                   fired, got, scriptClosed>>

\* The remote closes the connection, or the network loses it.
RemoteEnds ==
    /\ link = "up"
    /\ link' = "down"
    /\ UNCHANGED <<dialled, inbox, streams, arrived, opened, pumping, watching, queue, obj,
                   blocked, fired, got, scriptClosed>>

\* pump's stream acceptor.
AcceptStream ==
    /\ pumping
    /\ streams > 0
    /\ streams' = streams - 1
    /\ queue' = Sent(Event("Stream", 0))
    /\ UNCHANGED <<dialled, link, inbox, arrived, opened, pumping, watching, obj, blocked,
                   fired, got, scriptClosed>>

\* pump's datagram reader.
ReadDatagram ==
    /\ pumping
    /\ inbox # <<>>
    /\ inbox' = Tail(inbox)
    /\ queue' = Sent(Event("Datagram", Head(inbox)))
    /\ UNCHANGED <<dialled, link, streams, arrived, opened, pumping, watching, obj, blocked,
                   fired, got, scriptClosed>>

\* pump's close watcher: closed() returns.
Watch ==
    /\ watching
    /\ link = "down"
    /\ watching' = FALSE
    /\ queue' = Sent(Event("Closed", 0))
    /\ UNCHANGED <<netVars, pumping, obj, blocked, fired, got, scriptClosed>>

----------------------------------------------------------------------------
(* The object on the main thread. *)

\* Mutant: the connection is reset before it is asked for.
HandleResetsFirst(o, e) ==
    CASE e.kind = "Opened" ->
           [o EXCEPT !.connection = TRUE, !.deferred = Append(@, "opened")]
      [] e.kind = "Stream" ->
           [o EXCEPT !.deferred = Append(@, "stream_opened")]
      [] e.kind = "Datagram" ->
           [o EXCEPT !.datagrams = Append(@, e.n), !.deferred = Append(@, "datagram_received")]
      [] e.kind = "Closed" ->
           [o EXCEPT !.connection = FALSE, !.events = FALSE,
                     !.deferred = Append(@, "failed")]

\* handle: what an event makes of the object's fields.
Handle(o, e) ==
    CASE e.kind = "Opened" ->
           [o EXCEPT !.connection = TRUE, !.deferred = Append(@, "opened")]
      [] e.kind = "Stream" ->
           [o EXCEPT !.deferred = Append(@, "stream_opened")]
      [] e.kind = "Datagram" ->
           [o EXCEPT !.datagrams = Append(@, e.n), !.deferred = Append(@, "datagram_received")]
      [] e.kind = "Closed" ->
           [o EXCEPT !.connection = FALSE, !.events = FALSE,
                     !.deferred = Append(@, IF o.connection THEN "closed" ELSE "failed")]

\* One event after the other is handled.
HandleAll(o, events) ==
    LET after[i \in 0 .. Len(events)] ==
          IF i = 0 THEN o ELSE Handle(after[i - 1], events[i])
    IN  after[Len(events)]

\* drain_pending, from _drain on a frame tick or get_available_datagram_count:
\* everything queued is collected first, then handled.
Drain ==
    /\ ~blocked
    /\ obj.events
    /\ queue # <<>>
    /\ obj' = HandleAll(obj, queue)
    /\ queue' = <<>>
    /\ UNCHANGED <<netVars, pumping, watching, blocked, fired, got, scriptClosed>>

\* The message queue is flushed: the next deferred signal is emitted.
Emit ==
    /\ ~blocked
    /\ obj.deferred # <<>>
    /\ fired' = Append(fired, Head(obj.deferred))
    /\ obj' = [obj EXCEPT !.deferred = Tail(@)]
    /\ UNCHANGED <<netVars, pumping, watching, queue, blocked, got, scriptClosed>>

\* Mutant: the ones handed over already are passed by.
GetDatagramFromQueue ==
    /\ ~blocked
    /\ obj.events
    /\ blocked' = TRUE
    /\ UNCHANGED <<netVars, pumping, watching, queue, obj, got, fired, scriptClosed>>

\* get_datagram: one that was already handed over, or wait.
GetDatagram ==
    /\ ~blocked
    /\ IF obj.datagrams # <<>>
       THEN /\ got' = Append(got, Head(obj.datagrams))
            /\ obj' = [obj EXCEPT !.datagrams = Tail(@)]
            /\ UNCHANGED blocked
       ELSE /\ obj.events
            /\ blocked' = TRUE
            /\ UNCHANGED <<got, obj>>
    /\ UNCHANGED <<netVars, pumping, watching, queue, fired, scriptClosed>>

\* get_datagram's loop: a datagram is returned, anything else handled, and the
\* end of the connection returns empty.
Receive ==
    /\ blocked
    /\ queue # <<>>
    /\ IF Head(queue).kind = "Datagram"
       THEN /\ got' = Append(got, Head(queue).n)
            /\ blocked' = FALSE
            /\ queue' = Tail(queue)
            /\ UNCHANGED obj
       ELSE /\ obj' = Handle(obj, Head(queue))
            /\ blocked' = obj'.events
            /\ queue' = IF obj'.events THEN Tail(queue) ELSE <<>>
            /\ UNCHANGED got
    /\ UNCHANGED <<netVars, pumping, watching, fired, scriptClosed>>

\* close: the connection and the receiver are dropped.
Close ==
    /\ ~blocked
    /\ obj.events
    /\ link' = IF obj.connection THEN "down" ELSE link
    /\ obj' = [obj EXCEPT !.connection = FALSE, !.events = FALSE]
    /\ queue' = <<>>
    /\ scriptClosed' = TRUE
    /\ UNCHANGED <<dialled, inbox, streams, arrived, opened, pumping, watching, blocked, fired, got>>

----------------------------------------------------------------------------
Next ==
    \/ DialOpens \/ DialFails \/ DatagramArrives \/ StreamArrives \/ RemoteEnds
    \/ AcceptStream \/ ReadDatagram \/ Watch
    \/ Drain \/ Emit \/ GetDatagram \/ Receive \/ Close

Spec == Init /\ [][Next]_vars

\* Dials end, tasks run, frames go by, and a queued event wakes a waiting
\* get_datagram.
Fairness ==
    /\ WF_vars(DialOpens \/ DialFails)
    /\ WF_vars(AcceptStream) /\ WF_vars(ReadDatagram) /\ WF_vars(Watch)
    /\ WF_vars(Drain) /\ WF_vars(Emit) /\ WF_vars(Receive)

FairSpec == Spec /\ Fairness

----------------------------------------------------------------------------
(* Properties. *)

Kinds == {"Opened", "Stream", "Datagram", "Closed"}
Signals == {"opened", "stream_opened", "datagram_received", "closed", "failed"}

\* The queue, the object and its history stay within their types.
TypeOK ==
    /\ dialled \in BOOLEAN
    /\ link \in {"dialling", "up", "down"}
    /\ pumping \in BOOLEAN /\ watching \in BOOLEAN
    /\ arrived \in 0 .. MaxDatagrams /\ opened \in 0 .. MaxStreams
    /\ inbox \in Seq(1 .. arrived) /\ streams \in 0 .. opened
    /\ queue \in Seq([kind : Kinds, n : 0 .. arrived])
    /\ obj \in [events : BOOLEAN, connection : BOOLEAN,
                datagrams : Seq(1 .. arrived), deferred : Seq(Signals)]
    /\ blocked \in BOOLEAN /\ scriptClosed \in BOOLEAN
    /\ fired \in Seq(Signals)
    /\ got \in Seq(1 .. arrived)

\* Every signal emitted or deferred.
All == fired \o obj.deferred
Terminal == {"closed", "failed"}

\* A connection ends once, whichever of the watcher, the dial and a blocked
\* get_datagram finds out: at most one terminal signal, `failed` exactly for a
\* dial that never opened, and `opened` once, for a dialled one, ahead of it.
EndsOnce ==
    /\ \A i, j \in DOMAIN All :
         /\ All[i] \in Terminal /\ All[j] \in Terminal => i = j
         /\ All[i] = "opened" /\ All[j] = "opened" => i = j
    /\ \A i \in DOMAIN All :
         /\ All[i] = "opened" => dialled
         /\ All[i] = "closed" => ~dialled \/ \E j \in 1 .. i - 1 : All[j] = "opened"
         /\ All[i] = "failed" => dialled /\ Len(All) = 1

\* However get_datagram, get_available_datagram_count and frame ticks are
\* mixed, no datagram is returned twice and none is overtaken by a later one.
\* Events that carry none have number 0.
DatagramsInOrder ==
    LET queued == [i \in DOMAIN queue |-> queue[i].n]
        all == got \o obj.datagrams \o queued \o inbox
    IN  \A i, j \in DOMAIN all :
          i < j /\ all[i] > 0 /\ all[j] > 0 => all[i] < all[j]

\* A connection that ended by itself is reported, unless the script closed it,
\* and a get_datagram that waits on it returns: the main thread is not left
\* blocked on a channel whose end is itself an event.
EndIsReported ==
    link = "down" ~>
      /\ ~blocked
      /\ scriptClosed \/ \E i \in DOMAIN fired : fired[i] \in {"closed", "failed"}

----------------------------------------------------------------------------
(* What a comment says, and the code does not do. *)

\* raw.rs, Event::Closed: "The connection ended, cleanly or otherwise. Nothing
\* follows it."
NothingFollowsClosed ==
    \A i, j \in DOMAIN fired : i < j => fired[i] # "closed"

\* connection.rs, get_datagram: "Returns empty once the connection ends with
\* nothing left queued": a wait that ends with the connection leaves no
\* datagram behind.
EmptyMeansDrained ==
    [][blocked /\ ~blocked' /\ got' = got =>
         \A i \in DOMAIN queue : queue[i].kind # "Datagram"]_vars

=============================================================================
