# gdiroh: TLA+ models, checks and proofs

gdiroh is a Godot extension in Rust that puts Godot's multiplayer, raw
streams, gossip, blobs and documents on iroh, a QUIC library with dialling by
key. These modules model the extension's own logic, in `src/gdiroh/src/`: what
its tasks, callbacks and main-thread objects do with each other. iroh, QUIC and
Tokio are modelled only by what that code relies on.

Definitions keep the names of the code. `PROJECT.json` maps each of them to its
lines, and lists the runs, the findings, the hazards and the theorems.

## 1. The system

Two worlds meet everywhere. Godot's **main thread** runs scripts, signals and
`process_frame`; the **runtime** runs the network tasks. They share unbounded
channels and a few locks. The main thread never waits, except in the two
blocking reads.

| Component | State | Operations | Talks to |
|---|---|---|---|
| Session (`session.rs`) | links, announced peers, the next id; per link a writer per channel and sequence numbers | dial, accept, welcome, announce, forget, disconnect, close, send; readers for streams, datagrams and closure | dispatcher (connections in), peer (events out, commands in) |
| Dispatcher (`dispatch.rs`) | registry of claims by ALPN with a refusal flag, the endpoint's published list | register, drop a claim, publish, accept loop, one task per incoming dial | endpoint, every protocol on it |
| IrohPeer (`peer.rs`) | the session, status, id, packet queue | host, join, close, poll, get and put packets | session, endpoint, Godot's MultiplayerAPI |
| Raw connection (`raw.rs`, `connection.rs`) | event channel, datagram buffer, frame subscription | dial, three pump tasks, drain, blocking get_datagram, close | dispatcher, script |
| Raw stream (`raw.rs`, `stream.rs`) | chunk queue, report queue, read buffer, how it ended | put, finish, abort, close, partial and blocking reads; a writer and a reader task | connection, script |
| IrohEndpoint (`endpoint.rs`) | lease, bind in flight, dispatcher, listeners, services, questions, frame subscription | bind, listen, subscribe, blob and document operations, questions, close, drop | runtime, dispatcher, stores |
| Runtime (`runtime.rs`) | the Tokio runtime and a count of leases | acquire, drop, shutdown, spawn | every task |
| Gossip topic (`gossip.rs`, `topic.rs`) | command and event channels, a shared set of neighbours, deferred signals | subscribe, broadcast, join peers, leave; a task between swarm and script | endpoint, iroh-gossip, script |
| Blob store and transfers (`blobs.rs`, `transfer.rs`) | a store opened once by whoever needs it first; per operation an event channel | add, fetch, export, read, cancel; status, tag, untag; the loop that serves peers | endpoint, iroh-blobs, script |
| Document (`docs.rs`, `document.rs`) | command and event channels, a subscription, the replica behind it | create, open, join; set, delete, read, list, status, share, sync, leave, close | endpoint, iroh-docs, blob store, script |
| Statistics, logging, errors, entry point | none | read-outs | |

What is hard, by component, and what makes each correct:

* **Session.** A joining client gets a list in its welcome while joins and
  departures go out as separate frames, and every client's link is watched by
  its own tasks. Correct: the list a client shows and the frames still on their
  way to it add up to the host's list; nobody who left comes back; ids are not
  shared; every join is answered, every end heard.
* **Unreliable channels.** A wrapping sequence number decides what is old, on a
  path that loses and reorders. Correct: nothing new is dropped as old, nothing
  old delivered as new.
* **Dispatcher.** The registry is under a lock and the list the endpoint
  negotiates is not; claims are dropped on other threads. Correct: one holder
  per protocol, connections reach the claim made for their protocol, the
  published list is the registry, a refuser gets nobody.
* **IrohPeer.** `close()` only asks; `poll` emits inline, so handlers run in the
  middle of a batch. Correct: the status fits the session, two hosts never run,
  `CONNECTING` ends.
* **Streams and connections.** Several tasks end a stream, and the main thread
  may be blocked on it. Correct: a clean end means every byte, reads are a
  prefix, a blocked read returns, an ending is reported once.
* **Endpoint and runtime.** Everything is delivered by a frame subscription
  kept up to date by hand, on a runtime whose life is a count. Correct: the
  count is the number of leases, the subscription is the work outstanding,
  binds and questions are answered.
* **Topics, transfers, documents.** Three times the same handle: an object
  polls a task's channel once a frame and defers what it finds as signals, while
  the task may end, be let go of, or be cut with the runtime. Correct: news, at
  most one end, nothing after it; what was accepted is done and what ends is
  heard, unless the runtime stopped.
  Beyond that, a topic's `neighbors()` agrees with its signals, a transfer's
  signals are true of the store it shares with others, and a document's reads
  and `entry` signals agree with a replica that other peers write to.

The list of hazards in `PROJECT.json` places each of these at its line.

## 2. The modules

| Module | Models | Run modules | Proofs |
|---|---|---|---|
| `Session` | one host, any number of clients, links, control frames, one packet path | `MCSession` | `SessionProofs` |
| `Datagrams` | one channel of one link: sequence numbers, oversize, staleness | `MCDatagrams` | `SessionProofs` |
| `Dispatch` | the registry and the accept loop | `MCDispatch` | `EndpointProofs` |
| `Stream` | one stream, both sides, script and tasks | `MCStream` | `StreamProofs` |
| `Peer` | one IrohPeer over successive sessions | `MCPeer` | `PeerProofs` |
| `Connection` | one IrohConnection, its tasks and the script | `MCConnection` | `ConnectionProofs` |
| `Endpoint` | several IrohEndpoints and the runtime they share | `MCEndpoint` | `EndpointProofs` |
| `Reports` | abstract: what every polled handle promises its script | through the next three | |
| `Topic` | one IrohTopic, its task, the neighbours both share | `MCTopic` | `TopicProofs` |
| `Transfers` | the blob store, who opens it, and the operations on it | `MCTransfers` | `TransfersProofs` |
| `Document` | one IrohDocument, its task and the replica | `MCDocument` | `DocumentProofs` |

A channel's datagrams are proved about next to the session they belong to, and
the dispatcher next to the endpoint that starts it. The modules share no state;
so that one module can extend both, the specifications of `Datagrams` and
`Dispatch` are named `DatagramsSpec` and `DispatchSpec`, and likewise their parts.

### Session

`links`, `announced`, `next_id` and the per-client `wire` (frames on the control
stream) and `internal` (the task's channel) are the code's. An arm of `run`'s
`select!` is an action; `welcome` and `lost` with all the frames they write are
one action each, since only the session task touches that state. Each end of a
connection goes from open to closed to reported; a frame written once either
end is closed is lost, and what was buffered before stays readable but nothing
promises that it is read. The command channel is abstracted: a game may disconnect, close or
send at any moment. A `Welcome` carries the set of peers. `peer[c]` is the id
the host gave and `ready[c]` what the client was told. Data packets carry
their sender and target as ghosts, to state what routing may do.

### Datagrams

`counter`, `seen` and `warned` are the code's, modulo `Modulus` for 2^32. The
network holds a set of datagrams and may lose any of them and deliver the rest
in any order, each once. Ordinals (`n`, `last`, `issued`) are ghosts that say
what a number stands for. Whether a packet is oversized is any choice; the
reliable stream delivers in order but not relative to the datagrams.

### Dispatch

A claim is made in the steps of the code: insert under the lock, collect the
keys, set the list; a drop likewise. `register` runs on the main thread, so two
never overlap; sessions are dropped in their tasks, so their drop overlaps
anything. A dial goes through accept, handshake, lookup and send, one step per
point where the lock is taken or released.

### Stream

Each side has a queue of chunks, a writer, the wire, a reader and a queue of
reports. Bytes are numbered units. Dropping the receive half before its end
tells the other side to stop, and a reset overtakes data: both are QUIC. A
blocked `get_data` is `waiting`, and the side's script does nothing else.

### Peer

Sessions are numbered and each is reduced to the events its task may send; what
`Session` shows about joins is its fairness here. A client may lose its host
before its `Welcome` is applied (`orphaned`), and the control frames it had read
by then are applied after the loss, so `Ready` and peer events may follow
`Closed` in one batch. `poll` takes the batch, then
handles one event per step, and between them the script runs if `Reentrant` and
the event emitted a signal. `RuntimeStops` drops every task where it stands,
with its claim and without an event; `cut` remembers whose.

### Connection

The pump's three tasks are actions over what the connection received. A frame's
drain is atomic, since `handle` only defers signals; `Emit` delivers them.
Datagrams and streams received before the end stay readable after it.
`HandleAll` is what the drain makes of the object, one event after the other.

### Endpoint

Each method is one action with `refresh_ticking` at its end, `_drain` is one
action per frame. A task is running, dying (its runtime was taken away), done or
cut: Tokio drops a task of a stopping runtime at its next await, so a dying task
may finish or be cut. `closing[n]` is the task closing what the n-th bind made.
`Release` is `Drop`, before or after the unload. One question per store at a
time; the scene tree is assumed present.

### Reports, and how three modules implement it

`Reports` is the handle as its script sees it: `held`, the `deferred` signals
reduced to news and end, and whether the script has heard the end. A frame adds
any news behind what is queued and at most one end, the last of them, which
finishes the object in the same step; letting go adds nothing; freeing drops what is deferred. `Topic`, `Transfers`
and `Document` each instantiate it with a refinement mapping from their own
state and check it as a property: `IsAHandle` in `Topic` is the whole
specification with its fairness, in `Document` its safety part, and
`AreHandles` in `Transfers` says it of every operation at once. That an end
comes at all is `EndIsHeard`, `OperationsEnd` and `QuestionsAreAnswered`.

### Topic

The task is at one of its awaits, or between noting a neighbour in the shared
set and sending the event: the main thread reads the set in between.
iroh-gossip may yield any event or end at any moment; it reports a neighbour up
only when it was down.

### Transfers

One `OnceCell`, with whoever is inside its initialiser as `opener`; an aborted
or cut opener leaves it to the next. An operation waits for the store, works,
sets its tag, and reports. The store keeps for each blob whether nothing, a part
or all of it is there; nothing is collected, since the code never turns garbage
collection on. A tag is a name that stands for one blob: giving a name in use to
another blob moves it (`SetTag`), and the ghost `taken` remembers which blobs
lost it to an untag or to such a move. Each object's deferred signals are a queue of their own: Godot
keeps one for all objects, and in which order two objects' signals come is left
open.

### Document

A command carries as ghosts its number, the last write asked for that covers its
key, and whether that write left something there. iroh-docs is external: an
author's write removes only that author's older entries, at its key and at every
longer key that starts with it, so a set of a shorter key takes longer ones away.
`Prefixes` says which keys start with which; `Calls` are the commands a script may
give and `SharedKeys` the keys others write. Entries of others come in any order,
their content later: the document downloads it and announces it, or a blob
operation on the same store brings it and nobody does (`silent`). A read whose
bytes the store fails to yield answers as one that found nothing. `mirror` is
what a script makes of the `entry` signals and `missed` what it read too early.
The engine, the replica and the author come up in one step, since nothing looks
in between.

## 3. The runs

Runs end without deadlock checking because every one of these objects may
simply be finished: the session over, the connection closed, the game gone.

| Run | Bounds | Shows |
|---|---|---|
| `session_members` | 2 clients, ids up to 3 | ViewsAgree, NoReturn, IdsAgree; JoinIsAnswered, HostEndIsHeard, DepartureIsHeard |
| `session_packets` | the same and 1 packet, clients symmetric | TargetsRespected |
| `dispatch` | 2 sessions, 1 listener, 2 ALPNs, 1 dial | HolderIsRegistered, RoutedByAlpn |
| `datagrams` | counter of 6 values, 7 packets | FreshIsNotStale, InOrderUntilHalf |
| `stream` | 2 units from the opener | CleanEndIsComplete, ReadsArePrefix, PutFailsForAReason; EndIsHeard, GetReturns |
| `peer` | 2 sessions, 2 events each, re-entrant | StatusMatchesSession, OneHostRuns, PacketsComeBySession; ConnectingEnds, LetGoEnds |
| `connection` | 3 datagrams, 1 stream | EndsOnce, DatagramsInOrder; EndIsReported |
| `endpoint` | 2 endpoints, 2 binds, a script that may claim the blobs' protocol | LeasesCounted, TickingMatchesWork, ServicesBelongToTheBind; BindIsAnswered |
| `topic` | 2 peers, 3 events, 2 commands | NeighborsMatchSignals, IsAHandle; AcceptedIsSent, EndIsHeard |
| `transfers` | 2 operations (fetch, export, status, untag) on 2 blobs with 1 tag name, 1 progress report each | SignalsTellTheTruth, AreHandles; OperationsEnd |
| `document` | 2 keys, one the start of the other, 2 commands, 1 other author with 1 write at the longer one | ReadYourWrites, EveryWriteIsTold, MissesAreAnnounced, IsAHandle; QuestionsAreAnswered |

After the semicolon are the liveness properties; a run that has any checks
everything under the fair specification, which has the same reachable states.
`session_packets` is apart because symmetry is sound only without liveness.

Every module but `Reports` has a type invariant (`TypeOK`, `DatagramsTypeOK`,
`DispatchTypeOK`). It is the first conjunct of the inductive invariant of its
proofs. No run spends its time on it; each of them passes with it added to its
INVARIANTS.

Why the bounds are enough. The theorems of section 4 state the safety
properties for any number of clients, packets, units, sessions, endpoints,
peers, keys, commands, datagrams and operations, so that small instances decide
alone only about liveness. Two clients are the least that have a third party to
be told about, and one may leave and be announced while the other joins. Six counter values and seven packets wrap the
counter once, with the skipped zero. Two sessions and a listener give every
pair of threads that can cross in the registry: task with task, and task with
main thread. Two units are the least that can be split, lost in part, or
reordered; the directions of a stream share only its close and its abort, so
the acceptor finishes, aborts and closes too but puts nothing. With two
sessions one is replaced while it still runs, and two events make a batch in
which a handler runs before the end. Two endpoints are the least that can take
the runtime from each other, and two binds let one of them come back. Two
operations are the least that wait for each other's store or share a blob, and
two blobs with one name the least that take it from each other; an add is a
fetch whose blob comes without progress, a read is an export without progress
and a tag question does what a fetch does last, so none of them is started.
With two keys, one the start of the other, a set of the shorter one removes the
longer one's entry; two commands are a write and the read after it, or a question
behind a command that fails; one remote write has content that comes late and
conflicts with ours. The run leaves out the pairs of a command and a key that add
nothing to this; the safety properties of `Document` were also checked with all
operations on both keys (4.1 million states), which takes longer than the run is
meant to.

### Where the code and what is said of it differ

The run `dispatch_publish` checks PublishedIsRegistry, what a comment of
`dispatch.rs` says of the endpoint's ALPN list, and TLC finds the behaviour that
contradicts it: two publishes cross and the older list stays until the next
claim. `PROJECT.json` quotes the lines.

More differences were met while modelling. They have no run of their own; each
statement is at the end of its module, with the comment it comes from, and TLC
refutes it when it is checked in place of the properties of the module's
configuration (in `Session` that of `session_packets`, in `Endpoint` OneStorePath
with a second path).

| Statement | Said at | The code |
|---|---|---|
| NothingAfterClosed (`Session`) | session.rs:77 | a lost host sends `Closed`, and the end of the task sends it again (476) |
| PacketsFromKnownPeers (`Session`) | peer.rs:490 | a packet can arrive before its sender is announced (session.rs:730) |
| HostRelays (`Session`) | session.rs:525 | a packet for another client ends at the host's game (526) |
| RefuserGetsNone (`Dispatch`) | peer.rs:396 | the refusal is stored after the claim is public (106) |
| OversizeKeepsOrder (`Datagrams`) | session.rs:580 | an oversized ordered packet is delivered late, out of order (593) |
| OlderIsIgnored (`Datagrams`) | session.rs:649 | a late datagram from before the wrap is delivered after it (651) |
| AbortEndsReading (`Stream`) | stream.rs:349 | the aborting side never sees its own stream end (raw.rs:265) |
| CloseIsSilent (`Stream`) | stream.rs:372 | a close makes the other side's put fail (raw.rs:275) |
| AbortAbandonsQueue (`Stream`) | raw.rs:220 | an abort waits behind the data it should abandon (290) |
| ConnectedHasSession (`Peer`) | session.rs:77 | the loop goes on after a lost host, and a `Welcome` read before gives a `Ready` behind `Closed` (445): CONNECTED without a session |
| JoinerHasNoId (`Peer`) | peer.rs:217 | a host that joins without closing keeps id 1 (432) |
| EmptyMeansDrained (`Connection`) | connection.rs:286 | a blocked read that meets `Closed` returns empty with a datagram queued behind it (303) |
| NothingFollowsClosed (`Connection`) | raw.rs:56 | events follow `Closed` in the channel (140) |
| OneStorePath (`Endpoint`) | endpoint.rs:922 | the documents read the path again, after the blobs did (294) |
| CloseRunsToItsEnd (`Endpoint`) | endpoint.rs:1340 | the last close stops the runtime under its own close task (1336) |
| EveryBindIsAnswered (`Endpoint`) | endpoint.rs:696 | a bind without a runtime emits nothing (752) |
| ClosedEndpointStopsPolling (`Endpoint`) | endpoint.rs:159 | a question orphaned by the last close is polled for ever (blobs.rs:51) |
| NothingAfterLeave (`Topic`) | topic.rs:264 | signals deferred before `leave` are emitted after it (266) |
| OneOfThemFires (`Transfers`) | transfer.rs:22 | neither fires when the runtime stops under the operation (blobs.rs:75) |
| CancelGivesUp (`Transfers`) | transfer.rs:198 | `cancel` drops the receiver and the task goes on (203) |
| TagsArePermanent (`Transfers`) | blobs.rs:447 | a name in use goes to the next blob tagged with it (458) |
| ReadIsLatest (`Document`) | document.rs:26 | a read may return an older entry of another author (docs.rs:505) |
| DeleteRemoves (`Document`) | document.rs:290 | only our own author's entries go (docs.rs:499) |
| EveryMissIsAnnounced (`Document`) | document.rs:219 | a store error reads as a missing value (docs.rs:513), and bytes a blob operation brings are not announced |

`ClosedEndsItsOwn` in `Peer` holds for games whose signal handlers leave the
peer alone (`Reentrant` FALSE). With re-entrant handlers it fails: a handler
that calls `close()` and `host()` during a batch has its new session ended by
the old one's `Closed` further on. No line of the repository promises
otherwise, so this is a hazard and not a difference.

### Fairness

Weak fairness of what the runtime or the engine runs by itself, and nothing
else: a task with something to do is polled, a frame or a poll comes, a
blocked receive wakes when something was sent or the sender is gone, a dial
ends, the close of one end of a connection reaches the other (QUIC says so or
times out). In `Stream` a script with an open stream goes on asking for what is
available, which is how `StreamPeer` is used. In `Topic` and `Document` the command arm of the
`select!` has strong fairness: the macro chooses at random among the arms that
are ready, so a swarm or a replica that is never quiet does not keep it waiting
for ever. The work of a transfer ends, because every wait of iroh-blobs on disk
or network is bounded by an error. No fairness on a script's decisions, on the failure
of a healthy connection, on the delivery of a datagram, or on reading what was
buffered behind a closed connection.

## 4. The proofs

The theorems hold for every value of the constants under the named assumptions
of the modules: names that are distinct (the two sides of a stream, our author
and the others, a marker such as `NONE` and what it marks the absence of),
bounds that are natural numbers, keys whose prefixes are a strict order, and for `Endpoint` finitely many endpoints,
since leases are counted. Each module states one inductive invariant, proves
that it holds initially and that every action keeps it, one step per action,
and derives its properties from it.

**`SessionProofs`** proves `TypeCorrect`, `RosterAgreement` (ViewsAgree),
`NoGhosts` (NoReturn) and `DistinctIds` (IdsAgree) for any set of clients.
None of the last three is inductive alone. The invariant `IInv` adds

* `StageOK`: how far a client's connection, its task and its control frames can
  be apart: nothing reached a client that was not accepted, an open client end
  has a running task, a loss on its way is of a closed end;
* `IdsOK`: the host hands out each id once, from 2 up to `next_id`;
* `QueueOK`: every frame under way names ids that were given, no frame comes
  too late for the view it will meet, and joins and departures of one player
  come in turn. This is what makes ViewsAgree survive a client reading its
  next frame: the last word on a player is the host's.

There is one lemma per action, and lemmas on appending to and taking from the
two queues carry most of the work.

`TargetsAreRespected` (TargetsRespected) takes the packets in flight along:
a packet chosen for a client when it was sent must still be meant for it when
it is read. `Addressed` says so of both ends, and rests on two facts about ids:
a client's id never changes once it is given, and nothing is sent to a
connection that has none.

For one channel, **`SessionProofs`** also proves `OrderedDelivery` (InOrderUntilHalf) and
`WrapIsTolerated` (FreshIsNotStale) for every modulus of at least the assumed
size. The invariant says what the numbers mean: exactly ordered packets are
numbered, two numbers are as far apart as their ordinals or by one wrap less
(`Spaced`), and before the first wrap a number is its ordinal (`Plain`).

**`StreamProofs`** proves `ReadsAreAPrefix` (ReadsArePrefix),
`CleanEndsAreComplete` (CleanEndIsComplete) and `PutsFailForAReason`
(PutFailsForAReason) for any number of units from both sides. A unit passes
five places: the writer's queue, the wire, the reader's reports, the read
buffer, and what the script took. The invariant `SInv` says that the units of
these places, one after the other, are one run of consecutive numbers, without
a gap where one ends and the next begins:

* `Received`: the part behind the network; an end is the last report. It holds
  even after the script closed the stream;
* `InFlight`: the part before it, up to the first chunk that ends the writer.
  It holds while the reading side keeps the stream, since closing it throws
  reports away. A queued or performed finish stands exactly at the unit the
  script finished after;
* `Cleanly`: a clean end on its way or seen comes after that unit. This is what
  CleanEndIsComplete needs between the reader's report and the script's drain;
* `Tasking`, `Asked`, `Excused`: how far the tasks can be apart, that a finish or
  an abort the script called is still queued or was carried out, and that a
  stop or a failed send goes back to a close, an abort or a lost connection.

**`PeerProofs`** proves `OneHostAtATime` (OneHostRuns), `StatusIsTheSessions`
(StatusMatchesSession) and `PacketsAreReadBySession` (PacketsComeBySession) for
any number of sessions and events, whether the script calls the peer from its
signals or not. While a session is held the status is what its events made it;
without one a late `Ready` may have left it CONNECTED (see ConnectedHasSession
above). This holds because of where a `Ready` can be: only packets and the
`Closed` of its own lost session come before it, in a session's channel
(`ReadyLeads`) and in the batch `poll` took (`ReadyIsCurrent`). Neither emits a
signal, so no handler can have put another session in place of the one whose
`Ready` is still to be handled. `NumbersGrow` and
`StartedInOrder` say that what is held of several sessions is held oldest
first.

**`ConnectionProofs`** proves `OneEndIsHeard` (EndsOnce) and `DatagramsKeepOrder`
(DatagramsInOrder) for any number of datagrams and streams. The invariant `CInv`
describes an object that has handled the first k events of its channel together
with the events still to come:

* `Channel`: who may still send the end, and that a receiver that was dropped
  leaves nothing behind and nobody waiting;
* `Story`: `Opened` is the first event of a dial and nothing was told before it,
  `Closed` comes once and finds the channel still held, a connection that never
  opened tells its failure and nothing else, and what was told has an end only
  if the object let go of its channel;
* `InOrder`: the numbers rise within each of the four places a datagram can be
  in (received, in the channel, buffered, returned) and from each to the next.

A drain handles any number of events in one step, so it is taken event by event:
`DrainKeeps` says of every k up to the length of the channel that `Story`
and `InOrder` hold after k events, by the least k for which they would not. The
library's induction theorem takes an operator and is out of reach; a least
element of a set of numbers is not. Between the parts and the properties stand
only lemmas on sequences one behind the other.

**`EndpointProofs`** proves `LeasesAreCounted` (LeasesCounted),
`SubscriptionFollowsWork` (TickingMatchesWork) and `ServicesFollowTheBind`
(ServicesBelongToTheBind) for any finite set of endpoints, any paths and any
protocols a script may claim. The three are inductive together with types and
`BindsOnce`, that an endpoint with a bind in flight has no dispatcher. The
lemmas on the count are about cardinalities: a lease more or less is one more or
one less, and the runtime is there exactly while there is one.

For the dispatcher, **`EndpointProofs`** proves `ClaimsAreExclusive` (HolderIsRegistered) and
`RoutingIsRight` (RoutedByAlpn). With types the two are inductive together:
a claimant past its insert and before its drop is the registry's holder, so a
drop removes its own entry, and a lookup yields a claimant of that name.

**`TopicProofs`** proves `NeighborsFollowSignals` (NeighborsMatchSignals) and
`TopicIsAHandle`, the safety part of the refinement of `Reports`, for any peers,
events and commands. NeighborsMatchSignals relates the shared set to what the script was told
and what is still on its way through the task's hand, the channel and the deferred
signals; the invariant `TInv` needs besides it that the hand is full exactly
while the task reports (`HandIsReported`), that an object let go of has no
channel (`ChannelGoesToo`) and that nothing follows an end (`EndsAreLast`). The
last two are what maps a step of the topic to a step of `Reports` or a stutter.

**`TransfersProofs`** proves `SignalsAreTrue` (SignalsTellTheTruth) and
`TransfersAreHandles` (AreHandles), the refinement of `Reports` by every operation
at once, for any operations, blobs and names. The invariant `TInv` says of each
operation, besides what SignalsTellTheTruth does (`Truth`):

* `Lives`: one that was not started has told nothing, one whose receiver is not
  held has nothing in its channel, and a blob that is being tagged is whole;
* `EndsInTurn`: an end is the last event of its task, the last signal of its
  object, and the last the script hears.

The operations meet only in the store. `StoreGrows` has the one fact a step of
another operation needs: a blob never becomes less, and a tag that goes was taken
by an untag or by an operation that gave its name to another blob (`SetTagFacts`);
so what was true when it was sent is true when it is heard.

**`DocumentProofs`** proves `AnswersFollowWrites` (ReadYourWrites), `SignalsAddUp`
(EveryWriteIsTold), `MissesAreFollowed` (MissesAreAnnounced) and
`DocumentIsAHandle` (IsAHandle) for any keys, whichever of them start with others,
any other authors, commands and remote writes. The invariant `DInv` has four parts besides types, the order of
things at the beginning and the end, and the count of the writes given:

* `WritesDiffer`: an author writes once at a time, and whose an entry is shows
  in its time and its value;
* `ReplicaIsTold`: while the task is subscribed, every entry of the replica is
  shown, deferred, in the channel or among the updates, and every entry told is
  still in the replica or was made void by one that is;
* `InOrder`: for each read in the queue, the replica will have reached the
  last write that covers its key by the time the commands before it were applied.
  With this a read that is picked finds that write or a newer one, or nothing if
  the write took the key away; `AnswersAreRight` carries that to the script, with
  the store's failures as the only other reason for bytes of ours to be missing;
* `AnnouncementsFollow`: a value someone was told is missing, not because the
  store failed, and that the document has downloaded since, is announced further
  back, in the same queue or in one behind it.

Most steps only move signals along; `QuietSteps` shows once that these leave what
is told as it was, so the proofs treat apart only the four actions that do not.

Only model-checked: liveness, the fairness in Topic's IsAHandle included, since
fairness is out of the prover's reach. Every safety property of a passing run is
stated by a theorem.

## 5. Not modelled

* The contents of the stores: what `drop_document`, `set_default_author` and the
  listings do to or say of them. Their questions are asked and answered in
  `Endpoint`.
* A game without a scene tree: no handle is ever polled in it, as the log says.
* The wrap of the id counter, after 2^31 joins of one session (bounded out by
  `MaxId`); a game using the control channel's number; the target `i32::MIN`.
* A runtime that stops under a stream or a connection; `Endpoint`, `Peer`,
  `Topic`, `Transfers` and `Document` model the stop.
* Live events of a document that say nothing of its entries, byte counts of a
  transfer, the channel and mode setters of IrohPeer and the packet Godot holds
  a pointer into: they are passed through, and no property tells them apart.
* Encodings, log texts, statistics, settings read only by the bind, the example
  project, the build.

## 6. The plan

Done: the modules of section 2 in that order, the most important behaviour
(session membership, routing of connections, ordered delivery) first; the
abstract handle and its three implementations; the proofs of section 4.

What could follow: the contents of the stores behind the one-shot questions (which
documents and authors exist, and what the listings say of them), and a runtime
that stops under a stream or a connection.
