----------------------------- MODULE Transfers ------------------------------
(***************************************************************************)
(* The blob store of one endpoint (blobs.rs) and the operations on it: the *)
(* IrohTransfer objects of adds, fetches, exports and reads (transfer.rs)  *)
(* and the one-shot questions the endpoint puts to the store.              *)
(*                                                                         *)
(* The store is opened by whoever needs it first, inside that one's task:  *)
(* an operation, or the loop that serves peers.  The others wait on the    *)
(* same OnceCell, which keeps the outcome whatever it is, and passes to    *)
(* the next waiter if the one that opens it is dropped half way.           *)
(*                                                                         *)
(* iroh-blobs is external: what it stores is each blob's state, and no     *)
(* garbage collection runs, since nothing in blobs.rs turns it on.         *)
(***************************************************************************)
EXTENDS Integers, Sequences, SequencesExt

CONSTANTS
    Ops,       \* the operations a script starts
    Hashes,    \* the blobs they are about
    Names,     \* the names of tags
    Kinds,     \* the kinds of operation started in this instance
    SERVER,    \* the accept loop
    NONE,      \* no operation yet, nobody, no name, no blob
    MaxNews    \* bound on the progress reports of one operation

ASSUME MaxNewsIsNat == MaxNews \in Nat
ASSUME ServerIsNoOp == SERVER \notin Ops
ASSUME NoneIsNothing == NONE \notin Names \cup Hashes

\* Operations behind an IrohTransfer, and questions behind an Ask.
Moves == {"add", "fetch", "export", "read"}
Questions == {"status", "tag", "untag"}
ASSUME KindsAreKnown == Kinds \subseteq Moves \cup Questions

VARIABLES
    runtime,   \* "up", or "down" once the last lease is gone
    depot,     \* the endpoint's self.depot: "up" or "dropped"
    cell,      \* the OnceCell: "empty", "open" or "failed"
    opener,    \* who is inside get_or_init's closure, or NONE
    server,    \* the accept loop: "idle", "waiting" for the cell, "aborted"
    job,       \* what each operation was asked to do
    task,      \* where its task is
    handle,    \* its receiver: "none", "held", and "gone", "left" or "freed"
    ticking,   \* its object polls for it
    events,    \* its channel
    news,      \* progress reports it has sent
    deferred,  \* its signals handed to call_deferred; how Godot's queue mixes
               \* those of several objects is left open
    ended,     \* how the script heard it end, or "no"
    blobs,     \* how much of each blob the store holds
    tags,      \* the blob each name stands for, or NONE
    taken      \* the blobs each name was taken from, and not given back to

storeVars == <<cell, opener, server>>
dataVars == <<blobs, tags, taken>>
objectVars == <<handle, ticking>>
vars == <<runtime, depot, cell, opener, server, job, task, handle, ticking,
          events, news, deferred, ended, blobs, tags, taken>>

\* An add and a fetch may name their blob; an untag is about a name alone, and
\* its hash, some fixed one, says nothing.
Jobs == {j \in [kind : Kinds, hash : Hashes, tag : Names \cup {NONE}] :
           /\ j.kind \in {"tag", "untag"} => j.tag # NONE
           /\ j.kind \in {"export", "read", "status"} => j.tag = NONE
           /\ j.kind = "untag" => j.hash = CHOOSE h \in Hashes : TRUE}
Waiting == {"waiting", "working", "keeping"}
Portions == {"absent", "partial", "complete"}
Rank == [absent |-> 0, partial |-> 1, complete |-> 2]

\* An event's first component says what it is; a status answer names what the
\* store held when it was asked.
PROGRESS == <<"progress">>
DONE == <<"completed">>
FAILED == <<"failed">>
Status(portion) == <<"completed", portion>>
Ends == {DONE, FAILED} \cup {Status(portion) : portion \in Portions}
Events == Ends \cup {PROGRESS}

\* Somebody who needs the store and does not have it yet.
Needs(u) ==
    IF u = SERVER THEN server = "waiting" ELSE task[u] = "waiting"

\* The state has its types, and only somebody who waits is opening the store.
TypeOK ==
    /\ runtime \in {"up", "down"}
    /\ depot \in {"up", "dropped"}
    /\ cell \in {"empty", "open", "failed"}
    /\ opener \in Ops \cup {SERVER, NONE}
    /\ opener # NONE => Needs(opener) /\ cell = "empty"
    /\ server \in {"idle", "waiting", "aborted"}
    /\ job \in [Ops -> Jobs \cup {NONE}]
    /\ task \in [Ops -> Waiting \cup {"none", "ended", "cut"}]
    /\ handle \in [Ops -> {"none", "held", "gone", "left", "freed"}]
    /\ ticking \in [Ops -> BOOLEAN]
    /\ events \in [Ops -> Seq(Events)]
    /\ news \in [Ops -> 0..MaxNews]
    /\ deferred \in [Ops -> Seq(Events)]
    /\ ended \in [Ops -> {"no", "completed", "failed"}]
    /\ blobs \in [Hashes -> Portions]
    /\ tags \in [Names -> Hashes \cup {NONE}]
    /\ taken \in [Names -> SUBSET Hashes]

Init ==
    /\ runtime = "up" /\ depot = "up"
    /\ cell = "empty" /\ opener = NONE /\ server = "idle"
    /\ job = [o \in Ops |-> NONE]
    /\ task = [o \in Ops |-> "none"]
    /\ handle = [o \in Ops |-> "none"]
    /\ ticking = [o \in Ops |-> FALSE]
    /\ events = [o \in Ops |-> <<>>]
    /\ news = [o \in Ops |-> 0]
    /\ deferred = [o \in Ops |-> <<>>]
    /\ ended = [o \in Ops |-> "no"]
    /\ blobs = [h \in Hashes |-> "absent"]
    /\ tags = [n \in Names |-> NONE]
    /\ taken = [n \in Names |-> {}]

-----------------------------------------------------------------------------
\* The main thread.

\* A blob method of the endpoint: run, read or query spawns the task and the
\* object polls for it.  Without a runtime a transfer is told so; a question's
\* sender is dropped with the task, and nothing is.
Start(o, j) ==
    /\ depot = "up"
    /\ handle[o] = "none"
    /\ job' = [job EXCEPT ![o] = j]
    /\ handle' = [handle EXCEPT ![o] = "held"]
    /\ ticking' = [ticking EXCEPT ![o] = TRUE]
    /\ task' = [task EXCEPT ![o] =
                   IF runtime = "up" THEN "waiting" ELSE "ended"]
    /\ events' = [events EXCEPT ![o] =
                     IF runtime = "up" \/ j.kind \in Questions
                     THEN <<>> ELSE <<FAILED>>]
    /\ UNCHANGED <<runtime, depot, storeVars, news, deferred, ended, dataVars>>

\* handle, for each of a frame's events: a signal is deferred, and an end drops
\* the receiver and stops the polling.
Handled(o, batch) ==
    /\ deferred' = [deferred EXCEPT ![o] = @ \o batch]
    /\ IF \E i \in DOMAIN batch : batch[i] \in Ends
       THEN /\ handle' = [handle EXCEPT ![o] = "gone"]
            /\ ticking' = [ticking EXCEPT ![o] = FALSE]
       ELSE UNCHANGED objectVars

\* _drain on a frame: everything that waits is collected, then handled.
Drain(o) ==
    /\ ticking[o] /\ handle[o] = "held"
    /\ events[o] # <<>>
    /\ Handled(o, events[o])
    /\ events' = [events EXCEPT ![o] = <<>>]
    /\ UNCHANGED <<runtime, depot, storeVars, job, task, news, ended, dataVars>>

\* Godot emits one deferred signal of the object.
Emit(o) ==
    /\ deferred[o] # <<>>
    /\ ended' = [ended EXCEPT ![o] =
                    IF Head(deferred[o]) \in Ends THEN Head(deferred[o])[1] ELSE @]
    /\ deferred' = [deferred EXCEPT ![o] = Tail(@)]
    /\ UNCHANGED <<runtime, depot, storeVars, job, task, objectVars, events,
                   news, dataVars>>

\* cancel(): the receiver is dropped, and only the receiver.
Cancel(o) ==
    /\ handle[o] = "held" /\ job[o].kind \in Moves
    /\ handle' = [handle EXCEPT ![o] = "left"]
    /\ ticking' = [ticking EXCEPT ![o] = FALSE]
    /\ events' = [events EXCEPT ![o] = <<>>]
    /\ UNCHANGED <<runtime, depot, storeVars, job, task, news, deferred, ended,
                   dataVars>>

\* The last reference to a transfer goes.
Release(o) ==
    /\ handle[o] \in {"held", "gone", "left"} /\ job[o].kind \in Moves
    /\ handle' = [handle EXCEPT ![o] = "freed"]
    /\ ticking' = [ticking EXCEPT ![o] = FALSE]
    /\ events' = [events EXCEPT ![o] = <<>>]
    /\ deferred' = [deferred EXCEPT ![o] = <<>>]
    /\ UNCHANGED <<runtime, depot, storeVars, job, task, news, ended, dataVars>>

\* Mutant: the aborted loop keeps the cell it was opening.
DropDepotHoldsCell ==
    /\ depot = "up"
    /\ depot' = "dropped"
    /\ server' = "aborted"
    /\ UNCHANGED <<runtime, cell, opener, job, task, objectVars, events, news,
                   deferred, ended, dataVars>>

\* The endpoint closes and drops its Depot, which aborts the accept loop.  An
\* open it was in the middle of is left to the next in line.
DropDepot ==
    /\ depot = "up"
    /\ depot' = "dropped"
    /\ server' = "aborted"
    /\ opener' = IF opener = SERVER THEN NONE ELSE opener
    /\ UNCHANGED <<runtime, cell, job, task, objectVars, events, news,
                   deferred, ended, dataVars>>

-----------------------------------------------------------------------------
\* The store and who opens it.

\* get_or_init: the first to need the store opens it.
Open(u) ==
    /\ cell = "empty" /\ opener = NONE
    /\ Needs(u)
    /\ opener' = u
    /\ UNCHANGED <<runtime, depot, cell, server, job, task, objectVars, events,
                   news, deferred, ended, dataVars>>

\* The store is open, or could not be opened; the cell keeps either.
Opened ==
    /\ opener # NONE /\ Needs(opener)
    /\ cell' \in {"open", "failed"}
    /\ opener' = NONE
    /\ UNCHANGED <<runtime, depot, server, job, task, objectVars, events, news,
                   deferred, ended, dataVars>>

\* A peer connects to the blob protocol.
Connect ==
    /\ server = "idle"
    /\ server' = "waiting"
    /\ UNCHANGED <<runtime, depot, cell, opener, job, task, objectVars, events,
                   news, deferred, ended, dataVars>>

\* The accept loop hands the connection on, or drops it without a store.
Serve ==
    /\ server = "waiting" /\ cell # "empty"
    /\ server' = "idle"
    /\ UNCHANGED <<runtime, depot, cell, opener, job, task, objectVars, events,
                   news, deferred, ended, dataVars>>

-----------------------------------------------------------------------------
\* The task of an operation.

\* A send to a dropped receiver is ignored.
Sent(o, event) ==
    events' = [events EXCEPT ![o] =
                  IF handle[o] = "held" THEN Append(@, event) ELSE @]

\* The outcome of the work is sent, and the task is over.
FinishWith(o, event) ==
    /\ task' = [task EXCEPT ![o] = "ended"]
    /\ Sent(o, event)

\* ready() or open() returns.
Ready(o) ==
    /\ task[o] = "waiting"
    /\ \/ /\ cell = "open"
          /\ task' = [task EXCEPT ![o] = "working"]
          /\ UNCHANGED events
       \/ /\ cell = "failed"
          /\ FinishWith(o, FAILED)
    /\ UNCHANGED <<runtime, depot, storeVars, job, objectVars, news, deferred,
                   ended, dataVars>>

\* An item of an add's, an export's or a download's stream that tells how far
\* it got.  What a download brought so far is in the store.
Progress(o) ==
    /\ task[o] = "working" /\ job[o].kind \in {"add", "fetch", "export"}
    /\ job[o].kind = "export" => blobs[job[o].hash] = "complete"
    /\ news[o] < MaxNews
    /\ news' = [news EXCEPT ![o] = @ + 1]
    /\ Sent(o, PROGRESS)
    /\ blobs' = [blobs EXCEPT ![job[o].hash] =
                    IF job[o].kind = "fetch" /\ @ = "absent" THEN "partial"
                                                             ELSE @]
    /\ UNCHANGED <<runtime, depot, storeVars, job, task, objectVars, deferred,
                   ended, tags, taken>>

\* Mutant: a download whose stream ends is taken for complete.
WorkDoneHalfway(o) ==
    /\ task[o] = "working" /\ job[o].kind \in Moves
    /\ job[o].kind \in {"export", "read"} => blobs[job[o].hash] = "complete"
    /\ blobs' = [blobs EXCEPT ![job[o].hash] =
                    IF job[o].kind = "fetch" THEN @ ELSE "complete"]
    /\ IF job[o].tag # NONE
       THEN task' = [task EXCEPT ![o] = "keeping"] /\ UNCHANGED events
       ELSE FinishWith(o, DONE)
    /\ UNCHANGED <<runtime, depot, storeVars, job, objectVars, news, deferred,
                   ended, tags, taken>>

\* The move itself succeeds: an add or a fetch leaves the whole blob in the
\* store, an export or a read finds it there.  A tag is still to be set.
WorkDone(o) ==
    /\ task[o] = "working" /\ job[o].kind \in Moves
    /\ job[o].kind \in {"export", "read"} => blobs[job[o].hash] = "complete"
    /\ blobs' = [blobs EXCEPT ![job[o].hash] = "complete"]
    /\ IF job[o].tag # NONE
       THEN task' = [task EXCEPT ![o] = "keeping"] /\ UNCHANGED events
       ELSE FinishWith(o, DONE)
    /\ UNCHANGED <<runtime, depot, storeVars, job, objectVars, news, deferred,
                   ended, tags, taken>>

\* tags().set and tags().delete: the name stands for this blob, or for none, and
\* no more for the one it stood for.
SetTag(name, blob) ==
    /\ tags' = [tags EXCEPT ![name] = blob]
    /\ taken' = [taken EXCEPT ![name] = (@ \cup {tags[name]}) \ {NONE, blob}]

\* Mutant: a failure to tag is reported, and the success too.
KeepReportsBoth(o) ==
    /\ task[o] = "keeping"
    /\ task' = [task EXCEPT ![o] = "ended"]
    /\ \/ /\ SetTag(job[o].tag, job[o].hash)
          /\ Sent(o, DONE)
       \/ /\ events' = [events EXCEPT ![o] =
                IF handle[o] = "held" THEN @ \o <<FAILED, DONE>> ELSE @]
          /\ UNCHANGED <<tags, taken>>
    /\ UNCHANGED <<runtime, depot, storeVars, job, objectVars, news, deferred,
                   ended, blobs>>

\* keep: the tag is set, which may take the name from another blob, or the
\* operation fails with its blob stored.
Keep(o) ==
    /\ task[o] = "keeping"
    /\ \/ /\ SetTag(job[o].tag, job[o].hash)
          /\ FinishWith(o, DONE)
       \/ /\ FinishWith(o, FAILED)
          /\ UNCHANGED <<tags, taken>>
    /\ UNCHANGED <<runtime, depot, storeVars, job, objectVars, news, deferred,
                   ended, blobs>>

\* A question is answered from the store.
Answer(o) ==
    /\ task[o] = "working" /\ job[o].kind \in Questions
    /\ LET hash == job[o].hash
       IN  \/ /\ job[o].kind = "status"
              /\ FinishWith(o, Status(blobs[hash]))
              /\ UNCHANGED <<tags, taken>>
           \/ /\ job[o].kind \in {"tag", "untag"}
              /\ FinishWith(o, DONE)
              /\ SetTag(job[o].tag, IF job[o].kind = "tag" THEN hash ELSE NONE)
    /\ UNCHANGED <<runtime, depot, storeVars, job, objectVars, news, deferred,
                   ended, blobs>>

\* The store or the network reports an error.
WorkFails(o) ==
    /\ task[o] = "working"
    /\ FinishWith(o, FAILED)
    /\ UNCHANGED <<runtime, depot, storeVars, job, objectVars, news, deferred,
                   ended, dataVars>>

-----------------------------------------------------------------------------
\* The runtime.

\* The last endpoint closed, or the extension is unloaded: the runtime is taken
\* away and stopped.
RuntimeStops ==
    /\ runtime = "up"
    /\ runtime' = "down"
    /\ UNCHANGED <<depot, storeVars, job, task, objectVars, events, news,
                   deferred, ended, dataVars>>

\* A task of a stopping runtime is dropped at an await, and tells nobody.
Cut(o) ==
    /\ runtime = "down"
    /\ task[o] \in Waiting
    /\ task' = [task EXCEPT ![o] = "cut"]
    /\ opener' = IF opener = o THEN NONE ELSE opener
    /\ UNCHANGED <<runtime, depot, cell, server, job, objectVars, events, news,
                   deferred, ended, dataVars>>

StartAny(o) == \E j \in Jobs : Start(o, j)
OpenAny == \E u \in Ops \cup {SERVER} : Open(u)

Next ==
    \/ \E o \in Ops :
         \/ StartAny(o) \/ Drain(o) \/ Emit(o) \/ Cancel(o) \/ Release(o)
         \/ Ready(o) \/ Progress(o) \/ WorkDone(o) \/ Keep(o) \/ Answer(o)
         \/ WorkFails(o) \/ Cut(o)
    \/ DropDepot \/ OpenAny \/ Opened \/ Connect \/ Serve
    \/ RuntimeStops

Spec == Init /\ [][Next]_vars

\* The work of an operation comes to an end, one way or the other: every wait
\* of iroh-blobs on disk or network is bounded by an error.
Work(o) == WorkDone(o) \/ WorkFails(o) \/ Answer(o)

\* Frames come and deferred calls run; the runtime polls what can go on.
Fairness ==
    /\ WF_vars(OpenAny) /\ WF_vars(Opened) /\ WF_vars(Serve)
    /\ \A o \in Ops :
         /\ WF_vars(Drain(o)) /\ WF_vars(Emit(o)) /\ WF_vars(Ready(o))
         /\ WF_vars(Work(o)) /\ WF_vars(Keep(o)) /\ WF_vars(Cut(o))

FairSpec == Spec /\ Fairness

-----------------------------------------------------------------------------
\* Properties.

\* A signal the script has heard or still will: in the channel, deferred, told.
OnItsWay(o) == ToSet(events[o]) \cup ToSet(deferred[o])

Completed(o) == ended[o] = "completed" \/ \E e \in OnItsWay(o) : e[1] = "completed"

\* What the signals say of the store stays true until they are heard, however
\* many operations share a blob or a name: a completed move left the whole blob
\* and, if asked, its tag, which stands until the name is taken away again, by an
\* untag or by an operation that gives it to another blob; a status never
\* promises more than the store holds (blobs.rs run, keep, tag, untag, status).
SignalsTellTheTruth ==
    \A o \in Ops :
        /\ Completed(o) /\ job[o].kind \in Moves =>
             /\ blobs[job[o].hash] = "complete"
             /\ job[o].tag # NONE =>
                  job[o].hash \in {tags[job[o].tag]} \cup taken[job[o].tag]
        /\ \A portion \in Portions :
             Status(portion) \in OnItsWay(o) =>
                 Rank[portion] <= Rank[blobs[job[o].hash]]

\* Each transfer is a handle as the module Reports describes it, whatever the
\* others do: "exactly one of completed or failed fires", if one fires at all,
\* and "Nothing follows it" (transfer.rs).
Kind(event) == IF event \in Ends THEN "end" ELSE "news"
Handle(o) == INSTANCE Reports WITH
    held <- IF handle[o] = "left" THEN "gone" ELSE handle[o],
    deferred <- [i \in DOMAIN deferred[o] |-> Kind(deferred[o][i])],
    over <- ended[o] # "no"
AreHandles ==
    /\ \A o \in Ops : Handle(o)!Init
    /\ [][\A o \in Ops : [Handle(o)!Next]_(Handle(o)!vars)]_vars

\* Nobody waits for ever on the store or on one another: an operation ends,
\* and the script hears it, unless it let go or the runtime stopped.  The loop
\* that was opening the store for all of them may be aborted on the way
\* (blobs.rs ready, Drop for Depot).
OperationsEnd ==
    \A o \in Ops :
        (handle[o] = "held") ~>
            (ended[o] # "no" \/ handle[o] \in {"left", "freed"}
               \/ runtime = "down")

\* Refuted, and not checked.  transfer.rs: "at the end exactly one of completed
\* or failed fires"; none does if the runtime stops under the operation.
OneOfThemFires ==
    \A o \in Ops :
        (handle[o] = "held") ~>
            (ended[o] # "no" \/ handle[o] \in {"left", "freed"})

\* Refuted, and not checked.  transfer.rs: cancel "Gives up"; the task goes on
\* and stores what it was fetching, and its tag.
CancelGivesUp ==
    [][\A h \in Hashes : blobs'[h] # blobs[h] =>
          \E o \in Ops : task[o] = "working" /\ handle[o] \in {"held", "gone"}
                          /\ job[o].hash = h]_vars

\* Refuted, and not checked.  blobs.rs, keep: "Gives a freshly stored blob a
\* permanent name"; the name goes to the next blob that is tagged with it, and
\* the first one has lost it without an untag.
TagsArePermanent ==
    [][\A n \in Names : tags[n] # NONE /\ tags'[n] # tags[n] => tags'[n] = NONE]_vars

=============================================================================
