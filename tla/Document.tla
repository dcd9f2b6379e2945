------------------------------ MODULE Document ------------------------------
(***************************************************************************)
(* One document: the IrohDocument object on the main thread (document.rs), *)
(* the task that owns the replica (docs.rs), and the replica, which other  *)
(* peers write to as well.                                                 *)
(*                                                                         *)
(* The replica, its sync and the blob store are external (iroh-docs,       *)
(* iroh-blobs).  An entry belongs to the author that wrote it: a write     *)
(* replaces, and a deletion of a prefix removes, only older entries of the *)
(* same author, at its key or at a key that starts with it.  Entries of    *)
(* other peers arrive in any order and any number of times, and the bytes  *)
(* of their values later still; the store is the one blob operations use.  *)
(*                                                                         *)
(* Live events that say nothing of the entries (neighbours, finished sync  *)
(* rounds) are left out: they take the path of ContentReady.               *)
(***************************************************************************)
EXTENDS Integers, Sequences

CONSTANTS
    Keys,         \* the keys that are written, read and deleted under
    Prefixes,     \* the pairs of a key and a longer one that starts with it
    Calls,        \* the commands the script may give, each with its key
    SharedKeys,   \* the keys other peers write and an opened document holds
    US,           \* the author our writes are made as
    Others,       \* the authors of the other peers
    NONE,         \* nothing
    MaxCommands,  \* bound on the commands the script gives
    MaxRemote     \* bound on the writes of the other peers

ASSUME MaxCommandsIsNat == MaxCommands \in Nat
ASSUME MaxRemoteIsNat == MaxRemote \in Nat
ASSUME SharedKeysAreKeys == SharedKeys \subseteq Keys
ASSUME WeAreNoOther == US \notin Others
ASSUME PrefixesOrderKeys ==
    /\ Prefixes \subseteq Keys \X Keys
    /\ \A j, k, l \in Keys :
         /\ <<k, k>> \notin Prefixes
         /\ <<j, k>> \in Prefixes /\ <<k, l>> \in Prefixes => <<j, l>> \in Prefixes

VARIABLES
    runtime,   \* "up", or "down" once the last lease is gone
    document,  \* self.document: "none" before, "held", and absent afterwards:
               \* "gone" by an end, "left" by the script, "freed" with it
    ticking,   \* self.ticking
    task,      \* where the task is
    current,   \* the command it is applying
    picked,    \* the entry a read has found, before its bytes are fetched
    commands,  \* the command channel
    updates,   \* the live events the subscription still has to yield
    events,    \* the event channel
    entries,   \* the entries of our replica
    arrived,   \* the times of the other peers' writes that have come in
    content,   \* the values whose bytes are in our store
    silent,    \* those of them a blob operation brought
    clock,     \* the time of our last write
    deferred,  \* signals handed to call_deferred
    given,     \* commands the channel accepted
    asked,     \* those of them that are answered by a signal
    mine,      \* the last write we asked for on each key
    answers,   \* answers the script has heard
    mirror,    \* the replica as the entry signals show it
    missed,    \* values read before their bytes were here, not announced yet
    ended      \* the script heard closed

objectVars == <<document, ticking>>
replicaVars == <<entries, arrived, content, silent, clock>>
askVars == <<given, asked, mine>>
scriptVars == <<answers, mirror, missed, ended>>
vars == <<runtime, document, ticking, task, current, picked, commands, updates,
          events, entries, arrived, content, silent, clock, deferred, given,
          asked, mine, answers, mirror, missed, ended>>

Authors == Others \cup {US}
Times == 0..(IF MaxCommands > MaxRemote THEN MaxCommands ELSE MaxRemote)

\* A value is named by what wrote it: our n-th command, or a time of theirs.
\* The empty value marks a deletion.
EMPTY == <<"empty", 0>>
Ours(n) == <<"ours", n>>
Theirs(time) == <<"theirs", time>>
Values == ({"ours"} \X (0..MaxCommands)) \cup ({"theirs"} \X Times)
            \cup {EMPTY}
Entries == [key : Keys, author : Authors, time : Times, value : Values]

\* A command; `floor` is our last write over the key when it was given, and
\* `kept` says that it was a set of that very key.
Operations == {"set", "delete", "read", "ask", "quiet"}
Commands == [op : Operations, key : Keys, n : 1..MaxCommands,
             floor : 0..MaxCommands, kept : BOOLEAN]

\* Events and signals.  The answer to a read shows only found; `failed` says that
\* it is false because the store reported an error.
OPENED == [kind |-> "opened"]
CLOSED == [kind |-> "closed"]
Entry(e) == [kind |-> "entry", entry |-> e]
ContentReady(v) == [kind |-> "content_ready", value |-> v]
Value(c, e, found, failed) ==
    [kind |-> "value", to |-> c, entry |-> e, found |-> found, failed |-> failed]
Info(c) == [kind |-> "info", to |-> c]

Signals ==
    {OPENED, CLOSED} \cup {Entry(e) : e \in Entries}
      \cup {ContentReady(v) : v \in Values} \cup {Info(c) : c \in Commands}
      \cup {Value(c, e, found, failed) : c \in Commands,
               e \in Entries \cup {NONE}, found \in BOOLEAN, failed \in BOOLEAN}

ASSUME CallsHaveKeys == Calls \subseteq Operations \X Keys
ASSUME NoneIsNoEntry == NONE \notin Entries

Opening == {"opening", "updates"}
Alive == Opening \cup {"running", "applying", "reading", "closing"}
Subscribed == {"running", "applying", "reading"}

Covers(prefix, key) == prefix = key \/ <<prefix, key>> \in Prefixes

\* What the replica makes of a write: nothing if the same author already wrote
\* over it, else the older entries of that author under its key go.
Insert(set, e) ==
    LET own == {x \in set : x.author = e.author}
    IN  IF \E x \in own : Covers(x.key, e.key) /\ x.time >= e.time
        THEN set
        ELSE {x \in set : ~(x \in own /\ Covers(e.key, x.key)
                                      /\ x.time < e.time)} \cup {e}

\* The entries a query for a key can return.
Matches(key) == {e \in entries : e.key = key /\ e.value # EMPTY}

\* The state has its types, and a task that is inside apply has a command to
\* apply.
TypeOK ==
    /\ runtime \in {"up", "down"}
    /\ document \in {"none", "held", "gone", "left", "freed"}
    /\ ticking \in BOOLEAN
    /\ task \in Alive \cup {"none", "ended", "cut"}
    /\ current \in Commands \cup {NONE}
    /\ task \in {"applying", "reading"} => current \in Commands
    /\ picked \in Entries \cup {NONE}
    /\ commands \in Seq(Commands)
    /\ updates \in Seq(Signals) /\ events \in Seq(Signals)
    /\ deferred \in Seq(Signals)
    /\ entries \in SUBSET Entries
    /\ arrived \in SUBSET (1..MaxRemote)
    /\ content \in SUBSET Values /\ silent \in SUBSET Values
    /\ clock \in Times
    /\ given \in 0..MaxCommands
    /\ asked \in Seq(1..MaxCommands)
    /\ mine \in [Keys -> [n : 0..MaxCommands, kept : BOOLEAN]]
    /\ answers \in Nat
    /\ mirror \in SUBSET Entries
    /\ missed \in SUBSET Values
    /\ ended \in BOOLEAN

\* A new document is empty; an opened or joined one may hold entries already.
Init ==
    /\ runtime = "up"
    /\ document = "none" /\ ticking = FALSE
    /\ task = "none" /\ current = NONE /\ picked = NONE
    /\ commands = <<>> /\ updates = <<>> /\ events = <<>> /\ deferred = <<>>
    /\ \/ entries = {}
       \/ \E key \in SharedKeys :
            entries = {[key |-> key, author |-> US, time |-> 0,
                        value |-> Ours(0)]}
    /\ arrived = {} /\ content = {Ours(0)} /\ silent = {} /\ clock = 0
    /\ given = 0 /\ asked = <<>>
    /\ mine = [key \in Keys |-> [n |-> 0, kept |-> FALSE]]
    /\ answers = 0 /\ mirror = {} /\ missed = {} /\ ended = FALSE

-----------------------------------------------------------------------------
\* The main thread.

\* create, open or join, and wrap().  Without a runtime nothing was spawned.
Spawn ==
    /\ document = "none"
    /\ document' = "held" /\ ticking' = TRUE
    /\ task' = IF runtime = "up" THEN "opening" ELSE "ended"
    /\ events' = IF runtime = "up" THEN <<>> ELSE <<CLOSED>>
    /\ UNCHANGED <<runtime, current, picked, commands, updates, replicaVars,
                   deferred, askVars, scriptVars>>

\* set, delete_prefix, read, the other questions (list_keys, request_status,
\* share), and join_peers and leave, which nothing answers.  Refused, with
\* nothing changed, once the object is finished or the task gone.  The key of
\* what is neither a write nor a read says nothing.
Command(op, key) ==
    /\ document = "held" /\ task \in Alive
    /\ given < MaxCommands
    /\ given' = given + 1
    /\ LET last == IF op = "read" THEN mine[key] ELSE [n |-> 0, kept |-> FALSE]
       IN  commands' = Append(commands, [op |-> op, key |-> key,
                n |-> given + 1, floor |-> last.n, kept |-> last.kept])
    /\ asked' = IF op \in {"read", "ask"} THEN Append(asked, given + 1)
                                          ELSE asked
    /\ mine' = [k \in Keys |->
                  IF op \in {"set", "delete"} /\ Covers(key, k)
                  THEN [n |-> given + 1, kept |-> op = "set" /\ k = key]
                  ELSE mine[k]]
    /\ UNCHANGED <<runtime, objectVars, task, current, picked, updates, events,
                   replicaVars, deferred, scriptVars>>

\* handle, for each of a frame's events: a signal is deferred, and Closed drops
\* the document and stops the polling.
Handled(batch) ==
    /\ deferred' = deferred \o batch
    /\ IF \E i \in DOMAIN batch : batch[i] = CLOSED
       THEN document' = "gone" /\ ticking' = FALSE
       ELSE UNCHANGED objectVars

\* _drain on a frame: everything collected, then handled.
Drain ==
    /\ ticking /\ document = "held"
    /\ events # <<>>
    /\ Handled(events)
    /\ events' = <<>>
    /\ UNCHANGED <<runtime, task, current, picked, commands, updates,
                   replicaVars, askVars, scriptVars>>

\* A read that found an entry whose value is not here.
Misses(signal, value) ==
    /\ signal.kind = "value" /\ ~signal.found /\ ~signal.failed
    /\ signal.entry # NONE /\ signal.entry.value = value

\* A script that wants a value asks again when its bytes are announced.
Missed(set, signal) ==
    CASE signal.kind = "value" /\ ~signal.found /\ ~signal.failed
           /\ signal.entry # NONE -> set \cup {signal.entry.value}
      [] signal.kind = "content_ready" -> set \ {signal.value}
      [] OTHER -> set

\* A script that follows the entry signals.
Mirrored(set, signal) ==
    IF signal.kind = "entry" THEN Insert(set, signal.entry) ELSE set

\* Godot emits one deferred signal.
Emit ==
    /\ deferred # <<>>
    /\ deferred' = Tail(deferred)
    /\ LET signal == Head(deferred)
       IN  /\ answers' = IF signal.kind \in {"value", "info"} THEN answers + 1
                                                              ELSE answers
           /\ mirror' = Mirrored(mirror, signal)
           /\ missed' = Missed(missed, signal)
           /\ ended' = (ended \/ signal = CLOSED)
    /\ UNCHANGED <<runtime, objectVars, task, current, picked, commands,
                   updates, events, replicaVars, askVars>>

\* close(): both channel ends are dropped.
Close ==
    /\ document = "held"
    /\ document' = "left" /\ ticking' = FALSE
    /\ events' = <<>>
    /\ UNCHANGED <<runtime, task, current, picked, commands, updates,
                   replicaVars, deferred, askVars, scriptVars>>

\* The last reference to the object goes.
Release ==
    /\ document \in {"held", "gone", "left"}
    /\ document' = "freed" /\ ticking' = FALSE
    /\ events' = <<>> /\ deferred' = <<>>
    /\ UNCHANGED <<runtime, task, current, picked, commands, updates,
                   replicaVars, askVars, scriptVars>>

-----------------------------------------------------------------------------
\* The task.

\* Sending on the event channel fails once the object dropped its receiver.
Sent(event) ==
    events' = IF document = "held" THEN Append(events, event) ELSE events

\* A live event reaches the subscription, if there is one.
Announced(event) ==
    updates' = IF task \in Subscribed THEN Append(updates, event) ELSE updates

\* The task returns: its receiver and its subscription are dropped.
Return ==
    /\ task' = "ended"
    /\ commands' = <<>> /\ updates' = <<>>

\* An await of the opening sequence returns.  The engine (which opens the blob
\* store), the replica and the author come first and are one step here, then
\* the subscription, and the document is open.  Each may fail.  The store,
\* opened with the engine, cannot fail any more.
Open ==
    /\ task \in Opening
    /\ \/ /\ task' = IF task = "opening" THEN "updates" ELSE "running"
          /\ IF task = "updates"
             THEN Sent(OPENED) /\ mirror' = entries
             ELSE UNCHANGED <<events, mirror>>
          /\ UNCHANGED <<commands, updates>>
       \/ /\ Sent(CLOSED)
          /\ Return
          /\ UNCHANGED mirror
    /\ UNCHANGED <<runtime, objectVars, current, picked, replicaVars, deferred,
                   askVars, answers, missed, ended>>

\* select! takes the command arm.
TakeCommand ==
    /\ task = "running"
    /\ commands # <<>>
    /\ task' = "applying"
    /\ current' = Head(commands)
    /\ commands' = Tail(commands)
    /\ UNCHANGED <<runtime, objectVars, picked, updates, events, replicaVars,
                   deferred, askVars, scriptVars>>

\* Mutant: a write is handed off, and the loop goes on before it landed.
WriteUnawaited ==
    /\ task = "applying" /\ current.op \in {"set", "delete"}
    /\ task' = "running" /\ current' = NONE
    /\ UNCHANGED <<runtime, objectVars, picked, commands, updates, events,
                   replicaVars, deferred, askVars, scriptVars>>

\* apply, a set or a deletion: an entry of ours, whose bytes are here.
Write ==
    /\ task = "applying" /\ current.op \in {"set", "delete"}
    /\ LET value == IF current.op = "set" THEN Ours(current.n) ELSE EMPTY
           e == [key |-> current.key, author |-> US, time |-> clock + 1,
                 value |-> value]
       IN  /\ entries' = Insert(entries, e)
           /\ content' = content \cup {value}
           /\ Announced(Entry(e))
    /\ clock' = clock + 1
    /\ task' = "running" /\ current' = NONE
    /\ UNCHANGED <<runtime, objectVars, picked, commands, events, arrived,
                   silent, deferred, askVars, scriptVars>>

\* apply, a read, up to the entry: get_one returns one that matches the key.
Pick ==
    /\ task = "applying" /\ current.op = "read"
    /\ IF Matches(current.key) = {} THEN picked' = NONE
                                    ELSE picked' \in Matches(current.key)
    /\ task' = "reading"
    /\ UNCHANGED <<runtime, objectVars, current, commands, updates, events,
                   replicaVars, deferred, askVars, scriptVars>>

\* The rest of a read: bytes that are not here read as missing, and so do bytes
\* the store fails to give.
Answer ==
    /\ task = "reading"
    /\ \/ Sent(Value(current, picked, picked # NONE /\ picked.value \in content, FALSE))
       \/ picked # NONE /\ Sent(Value(current, picked, FALSE, TRUE))
    /\ task' = "running" /\ current' = NONE /\ picked' = NONE
    /\ UNCHANGED <<runtime, objectVars, commands, updates, replicaVars,
                   deferred, askVars, scriptVars>>

\* Mutant: a question that is not a read is never answered.
InformNobody ==
    /\ task = "applying" /\ current.op \in {"ask", "quiet"}
    /\ UNCHANGED events
    /\ task' = "running" /\ current' = NONE
    /\ UNCHANGED <<runtime, objectVars, picked, commands, updates, replicaVars,
                   deferred, askVars, scriptVars>>

\* apply, the other commands, with or without an answer.
Inform ==
    /\ task = "applying" /\ current.op \in {"ask", "quiet"}
    /\ IF current.op = "ask" THEN Sent(Info(current)) ELSE UNCHANGED events
    /\ task' = "running" /\ current' = NONE
    /\ UNCHANGED <<runtime, objectVars, picked, commands, updates, replicaVars,
                   deferred, askVars, scriptVars>>

\* Mutant: a failed command does not end the loop.
ApplyFailsOn ==
    /\ task = "applying"
    /\ Sent(CLOSED)
    /\ task' = "running" /\ current' = NONE
    /\ UNCHANGED <<runtime, objectVars, picked, commands, updates, replicaVars,
                   deferred, askVars, scriptVars>>

\* apply fails: one failed command closes the document for the others too.
ApplyFails ==
    /\ task = "applying"
    /\ Sent(CLOSED)
    /\ task' = "closing" /\ current' = NONE
    /\ UNCHANGED <<runtime, objectVars, picked, commands, updates, replicaVars,
                   deferred, askVars, scriptVars>>

\* Mutant: the announcement is dropped as PendingContentReady is.
ReportUnannounced ==
    /\ task = "running"
    /\ updates # <<>>
    /\ updates' = Tail(updates)
    /\ IF Head(updates).kind = "entry" THEN Sent(Head(updates))
                                       ELSE UNCHANGED events
    /\ task' = IF document = "held" THEN "running" ELSE "closing"
    /\ UNCHANGED <<runtime, objectVars, current, picked, commands, replicaVars,
                   deferred, askVars, scriptVars>>

\* Mutant: only what a peer wrote is reported.
ReportTheirs ==
    /\ task = "running"
    /\ updates # <<>>
    /\ updates' = Tail(updates)
    /\ IF Head(updates).kind = "entry" /\ Head(updates).entry.author = US
       THEN UNCHANGED events
       ELSE Sent(Head(updates))
    /\ task' = IF document = "held" THEN "running" ELSE "closing"
    /\ UNCHANGED <<runtime, objectVars, current, picked, commands, replicaVars,
                   deferred, askVars, scriptVars>>

\* report: a live event is passed on; one nobody receives ends the loop.
Report ==
    /\ task = "running"
    /\ updates # <<>>
    /\ updates' = Tail(updates)
    /\ Sent(Head(updates))
    /\ task' = IF document = "held" THEN "running" ELSE "closing"
    /\ UNCHANGED <<runtime, objectVars, current, picked, commands, replicaVars,
                   deferred, askVars, scriptVars>>

\* The subscription fails or ends.
UpdatesEnd ==
    /\ task = "running"
    /\ Sent(CLOSED)
    /\ task' = "closing"
    /\ UNCHANGED <<runtime, objectVars, current, picked, commands, updates,
                   replicaVars, deferred, askVars, scriptVars>>

\* The command channel is empty and its sender gone.
CommandsClosed ==
    /\ task = "running"
    /\ document # "held" /\ commands = <<>>
    /\ task' = "closing"
    /\ UNCHANGED <<runtime, objectVars, current, picked, commands, updates,
                   events, replicaVars, deferred, askVars, scriptVars>>

\* doc.close() returns.  Commands given meanwhile were accepted for nothing.
Closed ==
    /\ task = "closing"
    /\ Return
    /\ UNCHANGED <<runtime, objectVars, current, picked, events, replicaVars,
                   deferred, askVars, scriptVars>>

-----------------------------------------------------------------------------
\* The other peers, the store and the runtime.

\* Sync brings what another peer wrote or deleted, in any order of its times.
\* What came in before the replica is open is in Init; a second copy changes
\* nothing, and neither does a write the replica knows to be overwritten.
RemoteInsert(author, key, time, gone) ==
    /\ task \in {"updates"} \cup Subscribed
    /\ time \in (1..MaxRemote) \ arrived
    /\ arrived' = arrived \cup {time}
    /\ LET e == [key |-> key, author |-> author, time |-> time,
                 value |-> IF gone THEN EMPTY ELSE Theirs(time)]
       IN  /\ entries' = Insert(entries, e)
           /\ IF entries' # entries THEN Announced(Entry(e))
                                    ELSE UNCHANGED updates
    /\ UNCHANGED <<runtime, objectVars, task, current, picked, commands,
                   events, content, silent, clock, deferred, askVars,
                   scriptVars>>

\* The bytes of an entry's value are in the store: the document downloaded them,
\* or a blob operation of the endpoint brought them, which no document hears of.
ContentArrives(e, downloaded) ==
    /\ task \in {"updates"} \cup Subscribed
    /\ e \in entries /\ e.value \notin content \cup {EMPTY}
    /\ content' = content \cup {e.value}
    /\ \/ downloaded /\ Announced(ContentReady(e.value)) /\ UNCHANGED silent
       \/ ~downloaded /\ silent' = silent \cup {e.value} /\ UNCHANGED updates
    /\ UNCHANGED <<runtime, objectVars, task, current, picked, commands,
                   events, entries, arrived, clock, deferred, askVars,
                   scriptVars>>

\* The last endpoint closed, or the extension is unloaded, and the runtime is
\* stopped: the task is dropped at an await, and tells nobody.
RuntimeStops ==
    /\ runtime = "up"
    /\ runtime' = "down"
    /\ task' = IF task \in Alive THEN "cut" ELSE task
    /\ current' = NONE /\ picked' = NONE
    /\ commands' = <<>> /\ updates' = <<>>
    /\ UNCHANGED <<objectVars, events, replicaVars, deferred, askVars,
                   scriptVars>>

CommandAny == \E call \in Calls : Command(call[1], call[2])
RemoteInsertAny ==
    \E author \in Others, key \in SharedKeys, time \in 1..MaxRemote,
       gone \in BOOLEAN : RemoteInsert(author, key, time, gone)
ContentArrivesAny ==
    \E e \in entries, downloaded \in BOOLEAN : ContentArrives(e, downloaded)

Next ==
    \/ Spawn \/ CommandAny \/ Drain \/ Emit \/ Close \/ Release
    \/ Open \/ TakeCommand \/ Write \/ Pick \/ Answer \/ Inform \/ ApplyFails
    \/ Report \/ UpdatesEnd \/ CommandsClosed \/ Closed
    \/ RemoteInsertAny \/ ContentArrivesAny \/ RuntimeStops

Spec == Init /\ [][Next]_vars

\* Frames come and deferred calls run; the runtime polls a task that can go
\* on and iroh-docs answers it; select! chooses at random among ready arms.
Fairness ==
    /\ WF_vars(Drain) /\ WF_vars(Emit)
    /\ WF_vars(Open) /\ WF_vars(Closed)
    /\ WF_vars(Write \/ Pick \/ Answer \/ Inform)
    /\ SF_vars(TakeCommand) /\ SF_vars(CommandsClosed) /\ WF_vars(Report)

FairSpec == Spec /\ Fairness

-----------------------------------------------------------------------------
\* Properties.

\* What the script has not heard yet, in the order it will.
OnTheWay == deferred \o events
Way == OnTheWay \o updates
Listening == document = "held" /\ task \in Subscribed

\* A read never answers with a value of ours older than the last write over its
\* key the script had asked for when it read, be it at that key or at one it
\* starts with, and never finds no entry if that was a set of the key: commands
\* are applied in the order given, each to its end before the next (docs.rs run
\* and apply).  Another author's entry may be answered, and the store may fail to
\* give the bytes of ours, but is never without them.
ReadYourWrites ==
    \A i \in DOMAIN OnTheWay :
        LET signal == OnTheWay[i]
        IN  signal.kind = "value" =>
              /\ signal.entry = NONE => ~signal.to.kept
              /\ signal.entry # NONE /\ signal.entry.author = US =>
                   /\ signal.found \/ signal.failed
                   /\ signal.entry.value[2] >= signal.to.floor

\* One write makes another of the same author void, and what a set of writes
\* comes to.
Supersedes(x, e) ==
    x.author = e.author /\ Covers(x.key, e.key) /\ x.time > e.time
Latest(set) == {e \in set : \A x \in set : ~Supersedes(x, e)}

\* What the script was told, or will be once the signals on their way are in.
Told == mirror \cup {Way[i].entry : i \in {j \in DOMAIN Way : Way[j].kind = "entry"}}

\* entry is "Emitted for every key written, by us or by a peer" (document.rs):
\* a script that applies the entry signals to what it found on opening ends up
\* with the replica, once those still on their way are in.
EveryWriteIsTold == Listening => Latest(Told) = entries

\* A read that came before the bytes is never left without an announcement:
\* "found is false when ... its value has not arrived yet, which content_ready
\* will announce" (document.rs), if the document downloads the bytes and the read
\* did not fail.  The announcement does not overtake the answer.
MissesAreAnnounced ==
    Listening => \A value \in content \ silent :
        /\ value \in missed => \E j \in DOMAIN Way : Way[j] = ContentReady(value)
        /\ \A i \in DOMAIN Way : Misses(Way[i], value) =>
              \E j \in DOMAIN Way : j > i /\ Way[j] = ContentReady(value)

\* A document is a handle as the module Reports describes it: closed comes at
\* most once and "Nothing follows it" (document.rs).
Kind(signal) == IF signal = CLOSED THEN "end" ELSE "news"
Handle == INSTANCE Reports WITH
    held <- IF document = "left" THEN "gone" ELSE document,
    deferred <- [i \in DOMAIN deferred |-> Kind(deferred[i])],
    over <- ended
IsAHandle == Handle!Safety

\* Every question the channel accepted is answered, unless the document closes,
\* the script lets go of it, or the runtime stops (docs.rs run).
QuestionsAreAnswered ==
    []<>(answers >= Len(asked) \/ ended \/ document \in {"left", "freed"}
           \/ runtime = "down")

\* Refuted, and not checked.  document.rs and docs.rs: "the later one wins";
\* get_one of an exact key may return an older entry of another author.
ReadIsLatest ==
    [][task = "applying" /\ task' = "reading" =>
          \A e \in Matches(current.key) : e.time <= picked'.time]_vars

\* Refuted, and not checked.  document.rs, of delete_prefix: "Removes every key
\* starting with prefix"; entries other authors wrote stay.
DeleteRemoves ==
    [][Write /\ current.op = "delete" =>
          \A e \in entries' : Covers(current.key, e.key) => e.value = EMPTY]_vars

\* Refuted, and not checked.  document.rs, of found: "its value has not arrived
\* yet, which content_ready will announce".  The store's errors read as missing
\* too, with the bytes here or not, and bytes a blob operation brings are not
\* announced: nothing tells the script that it may ask again.
EveryMissIsAnnounced ==
    Listening => \A i \in DOMAIN Way :
        Way[i].kind = "value" /\ ~Way[i].found /\ Way[i].entry # NONE =>
          \/ Way[i].entry.value \notin content
          \/ \E j \in DOMAIN Way : j > i /\ Way[j] = ContentReady(Way[i].entry.value)

=============================================================================
