------------------------------- MODULE Topic --------------------------------
(***************************************************************************)
(* One gossip topic: the IrohTopic object on the main thread (topic.rs),   *)
(* the task that owns the subscription (gossip.rs), and the two channels   *)
(* and the shared set of neighbours between them.                          *)
(*                                                                         *)
(* The task runs between two awaits without being interrupted, but the     *)
(* main thread runs beside it: noting a neighbour in the shared set and    *)
(* sending the event are two steps.  The swarm itself (iroh-gossip) is     *)
(* external: its stream may yield any event it may yield, or end.          *)
(***************************************************************************)
EXTENDS Integers, Sequences

CONSTANTS
    Peers,        \* the peers that may become neighbours
    MaxEvents,    \* bound on the events the swarm yields
    MaxCommands   \* bound on the commands the script gives

ASSUME MaxEventsIsNat == MaxEvents \in Nat
ASSUME MaxCommandsIsNat == MaxCommands \in Nat

VARIABLES
    runtime,      \* "up", or "down" once the last lease is gone
    topic,        \* self.topic: "none" before, "held", and absent afterwards:
                  \* "gone" by an end, "left" by the script, "freed" with it
    ticking,      \* self.ticking
    task,         \* where the task is
    hand,         \* the event `report` has translated and not yet sent
    commands,     \* the command channel, commands numbered as they were given
    events,       \* the event channel
    neighbors,    \* the Mutex<HashSet<EndpointId>> both sides share
    deferred,     \* signals handed to call_deferred
    around,       \* the neighbours the script knows of from the signals
    ended,        \* how the script heard the topic end, or "no"
    yielded,      \* events the swarm has yielded
    given,        \* commands the channel accepted
    sent          \* commands the swarm accepted

objectVars == <<topic, ticking>>
taskVars == <<task, hand, neighbors, yielded, sent>>
scriptVars == <<deferred, around, ended>>
vars == <<runtime, topic, ticking, task, hand, commands, events, neighbors,
          deferred, around, ended, yielded, given, sent>>

\* The event that names no peer of interest.
MESSAGE == <<"message">>
News == ({"neighbor_up", "neighbor_down"} \X Peers) \cup {MESSAGE}
Ends == {<<"lagged">>, <<"closed">>}
Events == News \cup Ends
NOTHING == <<>>

\* "subscribing", "running" (in select!), "sending" and "reporting" are the
\* states of a task that is there; "cut" is one its runtime dropped.
Alive == {"subscribing", "running", "sending", "reporting"}

\* The object, the task, both channels and the shared set keep their types, and
\* what a task has in hand is an event that does not end the topic.
TypeOK ==
    /\ runtime \in {"up", "down"}
    /\ topic \in {"none", "held", "gone", "left", "freed"}
    /\ ticking \in BOOLEAN
    /\ task \in Alive \cup {"none", "ended", "cut"}
    /\ hand \in News \cup {NOTHING}
    /\ commands \in Seq(1..MaxCommands)
    /\ events \in Seq(Events)
    /\ neighbors \subseteq Peers
    /\ deferred \in Seq(Events)
    /\ around \subseteq Peers
    /\ ended \in {"no", "lagged", "closed"}
    /\ yielded \in 0..MaxEvents
    /\ given \in 0..MaxCommands
    /\ sent \in 0..MaxCommands

Init ==
    /\ runtime = "up"
    /\ topic = "none" /\ ticking = FALSE
    /\ task = "none" /\ hand = NOTHING
    /\ commands = <<>> /\ events = <<>>
    /\ neighbors = {}
    /\ deferred = <<>> /\ around = {} /\ ended = "no"
    /\ yielded = 0 /\ given = 0 /\ sent = 0

\* What a neighbour event does to a set of neighbours.
Noted(set, event) ==
    IF event[1] = "neighbor_up" THEN set \cup {event[2]}
    ELSE IF event[1] = "neighbor_down" THEN set \ {event[2]}
    ELSE set

-----------------------------------------------------------------------------
\* The main thread.

\* subscribe() and wrap(): the task is spawned and the object polls for it.
\* Without a runtime nothing was spawned, and the object is told so.
Subscribe ==
    /\ topic = "none"
    /\ topic' = "held" /\ ticking' = TRUE
    /\ \/ /\ runtime = "up"
          /\ task' = "subscribing"
          /\ UNCHANGED events
       \/ /\ runtime = "down"
          /\ task' = "ended"
          /\ events' = <<<<"closed">>>>
    /\ UNCHANGED <<runtime, hand, commands, neighbors, scriptVars, yielded,
                   given, sent>>

\* broadcast, broadcast_neighbors or join_peers.  Refused, with nothing
\* changed, once the object is finished or the task has dropped its receiver.
Command ==
    /\ topic = "held" /\ task \in Alive
    /\ given < MaxCommands
    /\ given' = given + 1
    /\ commands' = Append(commands, given + 1)
    /\ UNCHANGED <<runtime, objectVars, taskVars, events, scriptVars>>

\* handle, for each of a frame's events: a signal is deferred, and an end drops
\* the topic, both channel ends with it, and stops the polling.
Handled(batch) ==
    /\ deferred' = deferred \o batch
    /\ IF \E i \in DOMAIN batch : batch[i] \in Ends
       THEN topic' = "gone" /\ ticking' = FALSE
       ELSE UNCHANGED objectVars

\* Mutant: the loop over the collected events is lost after the first.
DrainOne ==
    /\ ticking /\ topic = "held"
    /\ events # <<>>
    /\ Handled(<<Head(events)>>)
    /\ events' = <<>>
    /\ UNCHANGED <<runtime, taskVars, commands, around, ended, given>>

\* _drain on a frame: everything that waits is collected, then handled.
Drain ==
    /\ ticking /\ topic = "held"
    /\ events # <<>>
    /\ Handled(events)
    /\ events' = <<>>
    /\ UNCHANGED <<runtime, taskVars, commands, around, ended, given>>

\* Godot emits one deferred signal.
Emit ==
    /\ deferred # <<>>
    /\ deferred' = Tail(deferred)
    /\ around' = Noted(around, Head(deferred))
    /\ ended' = IF Head(deferred) \in Ends THEN Head(deferred)[1] ELSE ended
    /\ UNCHANGED <<runtime, objectVars, taskVars, commands, events, given>>

\* leave(): what waits in the event channel goes with its receiver.
Leave ==
    /\ topic = "held"
    /\ topic' = "left" /\ ticking' = FALSE
    /\ events' = <<>>
    /\ UNCHANGED <<runtime, taskVars, commands, scriptVars, given>>

\* The last reference to the object goes.
Release ==
    /\ topic \in {"held", "gone", "left"}
    /\ topic' = "freed" /\ ticking' = FALSE
    /\ events' = <<>> /\ deferred' = <<>>
    /\ UNCHANGED <<runtime, taskVars, commands, around, ended, given>>

-----------------------------------------------------------------------------
\* The task.

\* Sending on the event channel fails once the object dropped its receiver;
\* the last send of a task does not look.
Sent(event) == events' = IF topic = "held" THEN Append(events, event) ELSE events

\* The task is over: its command receiver and its subscription are dropped.
Finish ==
    /\ task' = "ended"
    /\ commands' = <<>>

\* Mutant: the end is sent and the loop goes on to send another.
FinishTwice(kind) ==
    /\ events' = IF topic = "held" THEN events \o <<<<kind>>, <<"closed">>>>
                                   ELSE events
    /\ Finish

FinishWith(kind) ==
    /\ Sent(<<kind>>)
    /\ Finish

\* gossip.subscribe() returns.
Subscribed ==
    /\ task = "subscribing"
    /\ \/ /\ task' = "running"
          /\ UNCHANGED <<commands, events>>
       \/ FinishWith("closed")
    /\ UNCHANGED <<runtime, objectVars, hand, neighbors, scriptVars, yielded,
                   given, sent>>

\* Mutant: a command is taken and forgotten.
TakeCommandForgets ==
    /\ task = "running"
    /\ commands # <<>>
    /\ commands' = Tail(commands)
    /\ UNCHANGED <<runtime, objectVars, taskVars, events, scriptVars, given>>

\* select! takes the command arm and awaits the swarm.
TakeCommand ==
    /\ task = "running"
    /\ commands # <<>>
    /\ task' = "sending"
    /\ commands' = Tail(commands)
    /\ UNCHANGED <<runtime, objectVars, hand, neighbors, yielded, sent,
                   events, scriptVars, given>>

\* The swarm took the command, or refused it, which ends the topic.
CommandDone ==
    /\ task = "sending"
    /\ \/ /\ task' = "running"
          /\ sent' = sent + 1
          /\ UNCHANGED <<commands, events>>
       \/ /\ FinishWith("closed")
          /\ UNCHANGED sent
    /\ UNCHANGED <<runtime, objectVars, hand, neighbors, yielded, scriptVars,
                   given>>

\* The command channel is empty and its sender gone: leave the topic.
CommandsClosed ==
    /\ task = "running"
    /\ topic # "held" /\ commands = <<>>
    /\ Finish
    /\ UNCHANGED <<runtime, objectVars, hand, neighbors, yielded, sent,
                   events, scriptVars, given>>

\* Mutant: the set of neighbours is only added to.
ReadForgetsNothing(event) ==
    /\ task = "running"
    /\ yielded < MaxEvents
    /\ event \in News
    /\ event[1] # "message" =>
         (event[2] \in neighbors <=> event[1] = "neighbor_down")
    /\ yielded' = yielded + 1
    /\ neighbors' = neighbors \cup Noted(neighbors, event)
    /\ hand' = event
    /\ task' = "reporting"
    /\ UNCHANGED <<runtime, objectVars, commands, events, scriptVars, given,
                   sent>>

\* report, up to the send: the shared set is brought up to date first.  The
\* swarm reports a neighbour up only when it was down, and the reverse.
Read(event) ==
    /\ task = "running"
    /\ yielded < MaxEvents
    /\ event \in News
    /\ event[1] # "message" =>
         (event[2] \in neighbors <=> event[1] = "neighbor_down")
    /\ yielded' = yielded + 1
    /\ neighbors' = Noted(neighbors, event)
    /\ hand' = event
    /\ task' = "reporting"
    /\ UNCHANGED <<runtime, objectVars, commands, events, scriptVars, given,
                   sent>>

\* The rest of report: a send nobody receives any more ends the task, and
\* with it the commands that still waited.
Report ==
    /\ task = "reporting"
    /\ hand' = NOTHING
    /\ Sent(hand)
    /\ IF topic = "held" THEN task' = "running" /\ UNCHANGED commands
                         ELSE Finish
    /\ UNCHANGED <<runtime, objectVars, neighbors, scriptVars, yielded, given,
                   sent>>

\* The stream reports a lag, an error or its end.
StreamEnds(kind) ==
    /\ task = "running"
    /\ kind \in {"lagged", "closed"}
    /\ FinishWith(kind)
    /\ UNCHANGED <<runtime, objectVars, hand, neighbors, scriptVars, yielded,
                   given, sent>>

-----------------------------------------------------------------------------
\* The runtime.

\* The last endpoint closed, or the extension is unloaded: the runtime is taken
\* away and stopped.
RuntimeStops ==
    /\ runtime = "up"
    /\ runtime' = "down"
    /\ UNCHANGED <<objectVars, taskVars, commands, events, scriptVars, given>>

\* A task of a stopping runtime is dropped at an await, and tells nobody.
Cut ==
    /\ runtime = "down"
    /\ task \in Alive \ {"reporting"}
    /\ task' = "cut"
    /\ commands' = <<>>
    /\ UNCHANGED <<runtime, objectVars, hand, neighbors, yielded, sent,
                   events, scriptVars, given>>

ReadAny == \E event \in News : Read(event)
StreamEndsAny == \E kind \in {"lagged", "closed"} : StreamEnds(kind)

Next ==
    \/ Subscribe \/ Command \/ Drain \/ Emit \/ Leave \/ Release
    \/ Subscribed \/ TakeCommand \/ CommandDone \/ CommandsClosed
    \/ ReadAny \/ Report \/ StreamEndsAny
    \/ RuntimeStops \/ Cut

Spec == Init /\ [][Next]_vars

\* The frame signal fires and deferred calls run; the runtime polls a task
\* that can go on, the swarm answers what it was asked, and select! chooses at
\* random among the arms that are ready, so none is passed over for ever.
Fairness ==
    /\ WF_vars(Drain) /\ WF_vars(Emit)
    /\ WF_vars(Subscribed) /\ WF_vars(CommandDone) /\ WF_vars(Report)
    /\ SF_vars(TakeCommand) /\ SF_vars(CommandsClosed)
    /\ WF_vars(Cut)

FairSpec == Spec /\ Fairness

-----------------------------------------------------------------------------
\* Properties.

\* What the script knows of peer p once the signals of queue reach it: the
\* last one about p counts, and without one what it knew before.
Knows(known, queue, p) ==
    \/ \E i \in DOMAIN queue :
         /\ queue[i] = <<"neighbor_up", p>>
         /\ \A j \in DOMAIN queue : j > i => queue[j] # <<"neighbor_down", p>>
    \/ /\ p \in known
       /\ \A i \in DOMAIN queue : queue[i] # <<"neighbor_down", p>>

\* The events on their way to the script: deferred, in the channel, in the
\* task's hand.
OnTheWay == (deferred \o events) \o IF hand = NOTHING THEN <<>> ELSE <<hand>>

\* neighbors() is never wrong, only early: the set the task shares is what the
\* script knows from neighbor_up and neighbor_down, with the events that are
\* still on their way applied in their order (gossip.rs report, topic.rs
\* handle).
NeighborsMatchSignals ==
    topic = "held" =>
        \A p \in Peers : p \in neighbors <=> Knows(around, OnTheWay, p)

\* The handle's kinds of signal, and the promise of the module Reports: news,
\* then at most one of lagged and closed, and nothing after it ("Exactly one
\* of this and closed ever fires", "Nothing follows it", topic.rs).
Kind(event) == IF event \in Ends THEN "end" ELSE "news"
Handle == INSTANCE Reports WITH
    held <- IF topic = "left" THEN "gone" ELSE topic,
    deferred <- [i \in DOMAIN deferred |-> Kind(deferred[i])],
    over <- ended # "no"
IsAHandle == Handle!Spec

\* An accepted broadcast reaches the swarm unless the topic ended, the script
\* let go of it, or the runtime stopped (gossip.rs run, the command arm).
AcceptedIsSent ==
    \A n \in 1..MaxCommands :
        (given >= n) ~> (sent >= n \/ topic # "held" \/ runtime = "down"
                           \/ task = "ended")

\* A topic does not end unheard: whatever ended the task is told, unless the
\* script let go first.  Only a runtime that stops ends it in silence
\* (gossip.rs run, topic.rs _drain).
EndIsHeard ==
    (task = "ended" /\ topic = "held") ~>
        (ended # "no" \/ topic \in {"left", "freed"})

\* Refuted, and not checked: topic.rs says of leave "No further signals
\* follow", but the signals deferred before it are still emitted.
NothingAfterLeave ==
    [][topic = "left" /\ deferred # deferred' => topic' = "freed"]_vars

=============================================================================
