------------------------------ MODULE Endpoint ------------------------------
(***************************************************************************)
(* IrohEndpoint (endpoint.rs) and the runtime all endpoints share          *)
(* (runtime.rs).                                                           *)
(*                                                                         *)
(* The game's main thread calls the methods and, while an endpoint is      *)
(* subscribed to the frame signal, its _drain once a frame.  Each method   *)
(* runs to its end on that thread and is one action.  What it spawns runs  *)
(* on the shared Tokio runtime: the bind, one task per store question and  *)
(* the graceful close.  The runtime starts with the first lease and stops  *)
(* with the last; a task on a runtime that is being stopped either         *)
(* finishes in the poll it is in or is dropped at its next await.          *)
(*                                                                         *)
(* What the accept loop and the registry do with a claim is the module     *)
(* Dispatch; here a claim is only held or not.                             *)
(***************************************************************************)
EXTENDS Integers, FiniteSets

CONSTANTS
    Endpoints,   \* the IrohEndpoint objects of the game
    Alpns,       \* the protocol names a script may listen for
    Paths,       \* where blobs may be kept
    MEMORY,      \* the empty path: in memory, for this run only
    NONE,        \* an absent option
    MaxBinds     \* bound on the binds started over all endpoints

ASSUME EndpointsAreFinite == IsFiniteSet(Endpoints)
ASSUME MaxBindsIsNat == MaxBinds \in Nat
ASSUME MemoryIsAPath == MEMORY \in Paths
ASSUME NoneIsNoPath == NONE \notin Paths
ASSUME NoneIsNoTask ==
    NONE \notin {"running", "dying", "ok", "failed", "done", "cut"}

\* The protocols the endpoint's own services claim.
GOSSIP == "gossip"
BLOBS == "blobs"
DOCS == "docs"

\* The two stores a script can put a one-shot question to.
Stores == {BLOBS, DOCS}

VARIABLES
    running,          \* SHARED.runtime is present
    holders,          \* SHARED.holders
    unloaded,         \* the extension has been unloaded
    alive,            \* the script still holds a reference to the object
    lease,            \* self.lease is present
    pending_bind,     \* the bind's oneshot: absent, in flight, or its result
    bound,            \* self.dispatcher is present
    listeners,        \* self.listeners, its keys
    pending_listens,  \* self.pending_listens
    swarm,            \* self.swarm is present
    depot,            \* the path self.depot was started with, or NONE
    library,          \* the path self.library was started with, or NONE
    blob_path,        \* self.blob_path
    questions,        \* the outstanding question put to each store, if any
    ticking,          \* self.ticking
    binds,            \* binds started so far, over all endpoints
    serial,           \* which of those binds this endpoint made last
    closing,          \* the task that closes what each bind produced
    awaiting          \* the script called bind() and no signal answered yet

runtimeVars == <<running, holders, unloaded>>
serviceVars == <<swarm, depot, library>>
vars == <<running, holders, unloaded, alive, lease, pending_bind, bound,
          listeners, pending_listens, swarm, depot, library, blob_path,
          questions, ticking, binds, serial, closing, awaiting>>

\* A task nobody has to wait for.  "dying": its runtime is being stopped.
Tasks == {"running", "dying", "done", "cut"}

TypeOK ==
    /\ running \in BOOLEAN
    /\ holders \in 0..Cardinality(Endpoints)
    /\ unloaded \in BOOLEAN
    /\ alive \in [Endpoints -> BOOLEAN]
    /\ lease \in [Endpoints -> BOOLEAN]
    /\ pending_bind \in
         [Endpoints -> {NONE, "running", "dying", "ok", "failed", "cut"}]
    /\ bound \in [Endpoints -> BOOLEAN]
    /\ listeners \in [Endpoints -> SUBSET Alpns]
    /\ pending_listens \in [Endpoints -> SUBSET Alpns]
    /\ swarm \in [Endpoints -> BOOLEAN]
    /\ depot \in [Endpoints -> Paths \cup {NONE}]
    /\ library \in [Endpoints -> Paths \cup {NONE}]
    /\ blob_path \in [Endpoints -> Paths]
    /\ questions \in [Endpoints -> [Stores -> Tasks \cup {NONE}]]
    /\ ticking \in [Endpoints -> BOOLEAN]
    /\ binds \in 0..MaxBinds
    /\ serial \in [Endpoints -> 0..MaxBinds]
    /\ closing \in [1..MaxBinds -> Tasks \cup {NONE}]
    /\ awaiting \in [Endpoints -> BOOLEAN]

Init ==
    /\ running = FALSE
    /\ holders = 0
    /\ unloaded = FALSE
    /\ alive = [e \in Endpoints |-> TRUE]
    /\ lease = [e \in Endpoints |-> FALSE]
    /\ pending_bind = [e \in Endpoints |-> NONE]
    /\ bound = [e \in Endpoints |-> FALSE]
    /\ listeners = [e \in Endpoints |-> {}]
    /\ pending_listens = [e \in Endpoints |-> {}]
    /\ swarm = [e \in Endpoints |-> FALSE]
    /\ depot = [e \in Endpoints |-> NONE]
    /\ library = [e \in Endpoints |-> NONE]
    /\ blob_path = [e \in Endpoints |-> MEMORY]
    /\ questions = [e \in Endpoints |-> [s \in Stores |-> NONE]]
    /\ ticking = [e \in Endpoints |-> FALSE]
    /\ binds = 0
    /\ serial = [e \in Endpoints |-> 0]
    /\ closing = [n \in 1..MaxBinds |-> NONE]
    /\ awaiting = [e \in Endpoints |-> FALSE]

\* Script runs only while it holds the object and the extension is loaded.
Callable(e) == alive[e] /\ ~unloaded

-----------------------------------------------------------------------------
\* Helpers shared by the methods.

\* What refresh_ticking looks at.
HasWork(e) ==
    \/ pending_bind[e] # NONE
    \/ listeners[e] # {}
    \/ \E s \in Stores : questions[e][s] # NONE

\* refresh_ticking, called last: the subscription follows the new state.
RefreshTicking(e) ==
    ticking' = [ticking EXCEPT ![e] = HasWork(e)']

\* What becomes of a task when its runtime is taken away.
Stopped(task) == IF task = "running" THEN "dying" ELSE task

\* The questions and the closing tasks after the runtime stopped, or not.
QuestionsAfter(stops, asked) ==
    [e \in Endpoints |->
        [s \in Stores |-> IF stops THEN Stopped(asked[e][s]) ELSE asked[e][s]]]

ClosingAfter(stops, tasks) ==
    [n \in 1..MaxBinds |-> IF stops THEN Stopped(tasks[n]) ELSE tasks[n]]

\* Each service claims its protocol on the dispatcher when it first starts,
\* and stays down if a script already listens for that protocol.
MayStart(e, alpn) == bound[e] /\ running /\ alpn \notin listeners[e]

DepotAfter(e) ==
    IF depot[e] = NONE /\ MayStart(e, BLOBS) THEN blob_path[e] ELSE depot[e]

SwarmAfter(e) == swarm[e] \/ MayStart(e, GOSSIP)

\* library(): the store and the swarm come up first.
LibraryAfter(e) ==
    IF /\ library[e] = NONE
       /\ DepotAfter(e) # NONE
       /\ SwarmAfter(e)
       /\ MayStart(e, DOCS)
    THEN blob_path[e]
    ELSE library[e]

\* The effect of library() whether or not it succeeds: what came up stays up.
StartLibrary(e) ==
    LET asks == library[e] = NONE /\ bound[e]
        stored == DepotAfter(e) # NONE
    IN  /\ depot' = [depot EXCEPT ![e] = IF asks THEN DepotAfter(e) ELSE @]
        /\ swarm' = [swarm EXCEPT ![e] =
                        IF asks /\ stored THEN SwarmAfter(e) ELSE @]
        /\ library' = [library EXCEPT ![e] = LibraryAfter(e)]

\* A protocol one of this endpoint's services holds.
HeldByService(e, alpn) ==
    \/ alpn = GOSSIP /\ swarm[e]
    \/ alpn = BLOBS /\ depot[e] # NONE
    \/ alpn = DOCS /\ library[e] # NONE

-----------------------------------------------------------------------------
\* The methods a script calls.

\* Mutant: the frame subscription is forgotten.
BindUnwatched(e) ==
    /\ Callable(e)
    /\ pending_bind[e] = NONE /\ ~bound[e]
    /\ binds < MaxBinds
    /\ \E built \in BOOLEAN :
         /\ running => built
         /\ running' = built
         /\ lease' = [lease EXCEPT ![e] = @ \/ built]
         /\ holders' = IF built /\ ~lease[e] THEN holders + 1 ELSE holders
         /\ pending_bind' = [pending_bind EXCEPT ![e] =
                                IF built THEN "running" ELSE NONE]
    /\ binds' = binds + 1
    /\ serial' = [serial EXCEPT ![e] = binds + 1]
    /\ awaiting' = [awaiting EXCEPT ![e] = TRUE]
    /\ UNCHANGED <<unloaded, alive, bound, listeners, pending_listens,
                   serviceVars, blob_path, questions, ticking,
                   closing>>

\* bind(): refused while bound or binding.  Takes a lease if it has none,
\* which starts the runtime if it is the first, and spawns the bind.  The
\* runtime may fail to start, and then nothing was spawned.
Bind(e) ==
    /\ Callable(e)
    /\ pending_bind[e] = NONE /\ ~bound[e]
    /\ binds < MaxBinds
    /\ \E built \in BOOLEAN :
         /\ running => built
         /\ running' = built
         /\ lease' = [lease EXCEPT ![e] = @ \/ built]
         /\ holders' = IF built /\ ~lease[e] THEN holders + 1 ELSE holders
         /\ pending_bind' = [pending_bind EXCEPT ![e] =
                                IF built THEN "running" ELSE NONE]
    /\ binds' = binds + 1
    /\ serial' = [serial EXCEPT ![e] = binds + 1]
    /\ awaiting' = [awaiting EXCEPT ![e] = TRUE]
    /\ UNCHANGED <<unloaded, alive, bound, listeners, pending_listens,
                   serviceVars, blob_path, questions, closing>>
    /\ RefreshTicking(e)

\* listen(): queued while the bind is in flight, claimed at once when bound.
Listen(e, alpn) ==
    /\ Callable(e)
    /\ UNCHANGED <<runtimeVars, alive, lease, pending_bind, bound,
                   serviceVars, blob_path, questions, binds, serial, closing,
                   awaiting>>
    /\ \/ /\ ~bound[e] /\ pending_bind[e] # NONE
          /\ pending_listens' = [pending_listens EXCEPT ![e] = @ \cup {alpn}]
          /\ UNCHANGED <<listeners, ticking>>
       \/ /\ bound[e]
          /\ alpn \notin listeners[e] /\ ~HeldByService(e, alpn)
          /\ listeners' = [listeners EXCEPT ![e] = @ \cup {alpn}]
          /\ UNCHANGED pending_listens
          /\ RefreshTicking(e)

\* Mutant: the frame subscription is left as it was.
StopListeningUnrefreshed(e, alpn) ==
    /\ Callable(e)
    /\ alpn \in listeners[e] \cup pending_listens[e]
    /\ pending_listens' = [pending_listens EXCEPT ![e] = @ \ {alpn}]
    /\ listeners' = [listeners EXCEPT ![e] = @ \ {alpn}]
    /\ UNCHANGED <<runtimeVars, alive, lease, pending_bind, bound,
                   serviceVars, blob_path, questions, ticking, binds, serial,
                   closing, awaiting>>

\* stop_listening(): a queued name is forgotten, a held claim dropped.
StopListening(e, alpn) ==
    /\ Callable(e)
    /\ alpn \in listeners[e] \cup pending_listens[e]
    /\ pending_listens' = [pending_listens EXCEPT ![e] = @ \ {alpn}]
    /\ listeners' = [listeners EXCEPT ![e] = @ \ {alpn}]
    /\ UNCHANGED <<runtimeVars, alive, lease, pending_bind, bound,
                   serviceVars, blob_path, questions, binds, serial, closing,
                   awaiting>>
    /\ RefreshTicking(e)

\* set_blob_store_path(): stored at any time.
SetBlobStorePath(e, path) ==
    /\ Callable(e)
    /\ blob_path' = [blob_path EXCEPT ![e] = path]
    /\ UNCHANGED <<runtimeVars, alive, lease, pending_bind, bound, listeners,
                   pending_listens, serviceVars, questions, ticking, binds,
                   serial, closing, awaiting>>

\* subscribe(): needs the swarm.
Subscribe(e) ==
    /\ Callable(e)
    /\ bound[e]
    /\ swarm' = [swarm EXCEPT ![e] = SwarmAfter(e)]
    /\ UNCHANGED <<runtimeVars, alive, lease, pending_bind, bound, listeners,
                   pending_listens, depot, library, blob_path, questions,
                   ticking, binds, serial, closing, awaiting>>

\* add, fetch, export or read a blob: needs the store.
UseBlobs(e) ==
    /\ Callable(e)
    /\ depot' = [depot EXCEPT ![e] = DepotAfter(e)]
    /\ UNCHANGED <<runtimeVars, alive, lease, pending_bind, bound, listeners,
                   pending_listens, swarm, library, blob_path, questions,
                   ticking, binds, serial, closing, awaiting>>

\* create, open or join a document: needs all three.
UseDocuments(e) ==
    /\ Callable(e)
    /\ StartLibrary(e)
    /\ UNCHANGED <<runtimeVars, alive, lease, pending_bind, bound, listeners,
                   pending_listens, blob_path, questions, ticking, binds,
                   serial, closing, awaiting>>

\* A request_... or tag method: starts the store if it must, spawns the query
\* and keeps its oneshot.  One question per store at a time (a bound).
Ask(e, store) ==
    /\ Callable(e)
    /\ questions[e][store] = NONE
    /\ \/ /\ store = BLOBS
          /\ DepotAfter(e) # NONE
          /\ depot' = [depot EXCEPT ![e] = DepotAfter(e)]
          /\ UNCHANGED <<swarm, library>>
       \/ /\ store = DOCS
          /\ LibraryAfter(e) # NONE
          /\ StartLibrary(e)
    /\ questions' = [questions EXCEPT ![e][store] = "running"]
    /\ UNCHANGED <<runtimeVars, alive, lease, pending_bind, bound, listeners,
                   pending_listens, blob_path, binds, serial, closing,
                   awaiting>>
    /\ RefreshTicking(e)

\* Lease::drop: the count after this endpoint's lease, if any, is dropped.
HoldersAfterDrop(e) ==
    IF lease[e] /\ holders > 0 THEN holders - 1 ELSE holders

\* Mutant: the first lease to fall stops the runtime.
AnyLeaseFalls(e) == lease[e] /\ running

\* Lease::drop: whether that stops the runtime.
LastLeaseFalls(e) == lease[e] /\ HoldersAfterDrop(e) = 0 /\ running

\* Mutant: teardown forgets the swarm.
TeardownKeepsSwarm(e, asked) ==
    LET stops == LastLeaseFalls(e)
        spawned == IF bound[e] /\ running
                   THEN [closing EXCEPT ![serial[e]] = "running"]
                   ELSE closing
    IN  /\ pending_bind' = [pending_bind EXCEPT ![e] = NONE]
        /\ listeners' = [listeners EXCEPT ![e] = {}]
        /\ pending_listens' = [pending_listens EXCEPT ![e] = {}]
        /\ depot' = [depot EXCEPT ![e] = NONE]
        /\ library' = [library EXCEPT ![e] = NONE]
        /\ bound' = [bound EXCEPT ![e] = FALSE]
        /\ lease' = [lease EXCEPT ![e] = FALSE]
        /\ holders' = HoldersAfterDrop(e)
        /\ running' = (running /\ ~stops)
        /\ questions' = QuestionsAfter(stops, asked)
        /\ closing' = ClosingAfter(stops, spawned)
        /\ awaiting' = [awaiting EXCEPT ![e] = FALSE]
        /\ UNCHANGED <<unloaded, swarm, blob_path, binds, serial>>

\* teardown(): drops what the bind produced, spawns the close of a bound
\* endpoint and gives the lease back, which stops the runtime if it was the
\* last.  Questions are not dropped: asked is what is left of them.
Teardown(e, asked) ==
    LET stops == LastLeaseFalls(e)
        spawned == IF bound[e] /\ running
                   THEN [closing EXCEPT ![serial[e]] = "running"]
                   ELSE closing
    IN  /\ pending_bind' = [pending_bind EXCEPT ![e] = NONE]
        /\ listeners' = [listeners EXCEPT ![e] = {}]
        /\ pending_listens' = [pending_listens EXCEPT ![e] = {}]
        /\ swarm' = [swarm EXCEPT ![e] = FALSE]
        /\ depot' = [depot EXCEPT ![e] = NONE]
        /\ library' = [library EXCEPT ![e] = NONE]
        /\ bound' = [bound EXCEPT ![e] = FALSE]
        /\ lease' = [lease EXCEPT ![e] = FALSE]
        /\ holders' = HoldersAfterDrop(e)
        /\ running' = (running /\ ~stops)
        /\ questions' = QuestionsAfter(stops, asked)
        /\ closing' = ClosingAfter(stops, spawned)
        /\ awaiting' = [awaiting EXCEPT ![e] = FALSE]
        /\ UNCHANGED <<unloaded, blob_path, binds, serial>>

\* close()
Close(e) ==
    /\ Callable(e)
    /\ Teardown(e, questions)
    /\ UNCHANGED alive
    /\ RefreshTicking(e)

\* Drop: the last reference goes, before or after the extension is unloaded,
\* and the questions with it.  Godot removes the dying object's frame
\* subscription.
Release(e) ==
    /\ alive[e]
    /\ Teardown(e, [questions EXCEPT ![e] = [s \in Stores |-> NONE]])
    /\ alive' = [alive EXCEPT ![e] = FALSE]
    /\ ticking' = [ticking EXCEPT ![e] = FALSE]

-----------------------------------------------------------------------------
\* The frame, the runtime and the unload.

\* drain_bind: a settled bind makes the endpoint bound and claims what was
\* queued on the fresh dispatcher, or fails and leaves the queue.
DrainBind(e) ==
    \/ /\ pending_bind[e] \in {NONE, "running", "dying"}
       /\ UNCHANGED <<pending_bind, bound, listeners, pending_listens, awaiting>>
    \/ /\ pending_bind[e] = "ok"
       /\ pending_bind' = [pending_bind EXCEPT ![e] = NONE]
       /\ bound' = [bound EXCEPT ![e] = TRUE]
       /\ listeners' = [listeners EXCEPT ![e] = @ \cup pending_listens[e]]
       /\ pending_listens' = [pending_listens EXCEPT ![e] = {}]
       /\ awaiting' = [awaiting EXCEPT ![e] = FALSE]
    \/ /\ pending_bind[e] \in {"failed", "cut"}
       /\ pending_bind' = [pending_bind EXCEPT ![e] = NONE]
       /\ awaiting' = [awaiting EXCEPT ![e] = FALSE]
       /\ UNCHANGED <<bound, listeners, pending_listens>>

\* drain_questions and drain_document_questions: an answer retires its
\* question.  A oneshot whose task was dropped reads as not answered yet.
DrainQuestions(e) ==
    questions' = [questions EXCEPT ![e] =
                     [s \in Stores |-> IF @[s] = "done" THEN NONE ELSE @[s]]]

\* _drain, once a frame while subscribed.  drain_listeners, in between, hands
\* on the connections that arrived and changes nothing here.
Drain(e) ==
    /\ Callable(e) /\ ticking[e]
    /\ DrainBind(e)
    /\ DrainQuestions(e)
    /\ UNCHANGED <<runtimeVars, alive, lease, serviceVars, blob_path, binds,
                   serial, closing>>
    /\ RefreshTicking(e)

\* The bind task ends.  On a stopping runtime it may be dropped first.
BindSettles(e) ==
    /\ pending_bind[e] \in {"running", "dying"}
    /\ \E result \in {"ok", "failed", "cut"} :
         /\ result = "cut" => pending_bind[e] = "dying"
         /\ pending_bind' = [pending_bind EXCEPT ![e] = result]
    /\ UNCHANGED <<runtimeVars, alive, lease, bound, listeners,
                   pending_listens, serviceVars, blob_path, questions,
                   ticking, binds, serial, closing, awaiting>>

\* How a task nobody waits for may end.
Outcomes(task) ==
    CASE task = "running" -> {"done"}
      [] task = "dying"   -> {"done", "cut"}
      [] OTHER            -> {}

\* A query task replies, or is dropped with its oneshot.
QuestionSettles(e, store) ==
    /\ \E result \in Outcomes(questions[e][store]) :
         questions' = [questions EXCEPT ![e][store] = result]
    /\ UNCHANGED <<runtimeVars, alive, lease, pending_bind, bound, listeners,
                   pending_listens, serviceVars, blob_path, ticking, binds,
                   serial, closing, awaiting>>

\* The close task told every peer and is done, or was dropped half way.
CloseSettles(n) ==
    /\ \E result \in Outcomes(closing[n]) :
         closing' = [closing EXCEPT ![n] = result]
    /\ UNCHANGED <<runtimeVars, alive, lease, pending_bind, bound, listeners,
                   pending_listens, serviceVars, blob_path, questions,
                   ticking, binds, serial, awaiting>>

\* runtime::shutdown(), at unload: stops the runtime whoever holds a lease.
Shutdown ==
    /\ ~unloaded
    /\ unloaded' = TRUE
    /\ running' = FALSE
    /\ holders' = 0
    /\ pending_bind' = [e \in Endpoints |-> Stopped(pending_bind[e])]
    /\ questions' = QuestionsAfter(TRUE, questions)
    /\ closing' = ClosingAfter(TRUE, closing)
    /\ UNCHANGED <<alive, lease, bound, listeners, pending_listens,
                   serviceVars, blob_path, ticking, binds, serial, awaiting>>

Next ==
    \/ \E e \in Endpoints :
         \/ Bind(e)
         \/ \E alpn \in Alpns : Listen(e, alpn) \/ StopListening(e, alpn)
         \/ \E path \in Paths : SetBlobStorePath(e, path)
         \/ Subscribe(e)
         \/ UseBlobs(e)
         \/ UseDocuments(e)
         \/ \E store \in Stores : Ask(e, store) \/ QuestionSettles(e, store)
         \/ Close(e)
         \/ Release(e)
         \/ Drain(e)
         \/ BindSettles(e)
    \/ \E n \in 1..MaxBinds : CloseSettles(n)
    \/ Shutdown

Spec == Init /\ [][Next]_vars

\* Godot emits process_frame every frame, and Tokio polls the tasks of a
\* running runtime until they end.  Nothing makes a script call anything.
FairSpec ==
    /\ Spec
    /\ \A e \in Endpoints :
         /\ WF_vars(Drain(e))
         /\ WF_vars(BindSettles(e))
         /\ \A store \in Stores : WF_vars(QuestionSettles(e, store))
    /\ \A n \in 1..MaxBinds : WF_vars(CloseSettles(n))
-----------------------------------------------------------------------------
\* Properties.

\* runtime::Lease: until the extension is unloaded, the count of holders is
\* the number of endpoints that hold a lease, over every order of binds,
\* failed binds, closes and drops of several endpoints, and the runtime is
\* there exactly while somebody holds one: it is neither stopped under a
\* second endpoint nor left running behind the last.  Whoever is bound or
\* binding holds one, so no close of another endpoint takes the runtime away
\* from its accept loop or its bind.
LeasesCounted ==
    /\ ~unloaded =>
        /\ holders = Cardinality({e \in Endpoints : lease[e]})
        /\ running <=> holders > 0
    /\ \A e \in Endpoints : bound[e] \/ pending_bind[e] # NONE => lease[e]

\* endpoint.rs keeps the frame subscription equal to "something is
\* outstanding" after every method and every frame: a missed subscription
\* would leave a bind, a connection or an answer undelivered for ever.
TickingMatchesWork ==
    \A e \in Endpoints : alive[e] => (ticking[e] <=> HasWork(e))

\* The claims, the services and the queue of listens belong to one bind: no
\* service or listener is there without a dispatcher, documents never run
\* without the store and the swarm they share, no protocol is both a
\* script's and a service's, and nothing stays queued once bound.
ServicesBelongToTheBind ==
    \A e \in Endpoints :
        /\ listeners[e] # {} \/ swarm[e] \/ depot[e] # NONE => bound[e]
        /\ library[e] # NONE => swarm[e] /\ depot[e] # NONE
        /\ \A alpn \in listeners[e] : ~HeldByService(e, alpn)
        /\ bound[e] => pending_listens[e] = {}

\* A bind that was started is answered by bound or bind_failed, unless the
\* script closes the endpoint or the extension goes first.
BindIsAnswered ==
    \A e \in Endpoints :
        pending_bind[e] # NONE ~> pending_bind[e] = NONE \/ unloaded

-----------------------------------------------------------------------------
\* What comments of the code say, and the code does not do.

\* endpoint.rs on refresh_ticking: the subscription matches whether anything
\* needs polling, "so idle frames stay free".  A closed endpoint with nothing
\* left to run would then stop polling.
ClosedEndpointStopsPolling ==
    \A e \in Endpoints :
        ~lease[e] /\ ticking[e] ~> lease[e] \/ ~ticking[e] \/ unloaded

\* endpoint.rs on set_blob_store_path: after the first blob operation it
\* "does nothing until the endpoint is closed".  Documents would then be kept
\* where the blobs are.
OneStorePath ==
    \A e \in Endpoints : library[e] # NONE => library[e] = depot[e]

\* endpoint.rs in teardown: "the close task above keeps running: shutdown
\* gives it the grace period first".  No close would then be cut short.
CloseRunsToItsEnd ==
    \A n \in 1..MaxBinds : closing[n] # "cut"

\* endpoint.rs on bind: "wait for bound or bind_failed".  Every call that is
\* not refused would then be answered.
EveryBindIsAnswered ==
    \A e \in Endpoints : awaiting[e] ~> ~awaiting[e] \/ unloaded

=============================================================================
