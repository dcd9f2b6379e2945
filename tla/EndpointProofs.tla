--------------------------- MODULE EndpointProofs ---------------------------
(***************************************************************************)
(* Proofs about Endpoint, for any finite set of endpoints and any protocol *)
(* names and paths: the leases are counted, the frame subscription follows *)
(* the work outstanding, and what a bind brought up belongs to that bind;  *)
(* and about Dispatch, the dispatcher a bind starts, for any set of ALPNs, *)
(* claimants and connections: exclusive claims, and routing by negotiated  *)
(* ALPN.  The two modules share no state.                                  *)
(***************************************************************************)
EXTENDS Endpoint, Dispatch, FiniteSetTheorems, TLAPS

\* An endpoint that binds is not bound: bind() refuses, and the frame that
\* takes the dispatcher takes the oneshot.
BindsOnce == \A e \in Endpoints : pending_bind[e] # NONE => ~bound[e]

\* The inductive invariant.  The four properties need each other: the count
\* of leases bounds holders, and a service can only be told from a listener
\* that waited for the bind because nothing runs before it.
EInv ==
    /\ TypeOK
    /\ LeasesCounted
    /\ TickingMatchesWork
    /\ ServicesBelongToTheBind
    /\ BindsOnce

\* The endpoints that hold a lease.
Lessees == {e \in Endpoints : lease[e]}

\* The leases are finitely many, and no more than the endpoints.
LEMMA LesseesFinite ==
    /\ IsFiniteSet(Lessees)
    /\ Cardinality(Lessees) \in Nat
    /\ Cardinality(Endpoints) \in Nat
    /\ Cardinality(Lessees) <= Cardinality(Endpoints)
  <1>1. Lessees \in SUBSET Endpoints
    BY DEF Lessees
  <1>2. IsFiniteSet(Lessees) /\ Cardinality(Lessees) <= Cardinality(Endpoints)
    BY <1>1, EndpointsAreFinite, FS_Subset
  <1>3. Cardinality(Lessees) \in Nat
    BY <1>2, FS_CardinalityType
  <1>4. Cardinality(Endpoints) \in Nat
    BY EndpointsAreFinite, FS_CardinalityType
  <1> QED
    BY <1>2, <1>3, <1>4

\* Taking a lease moves their number by one, and there was room for it.
LEMMA LesseesGrow ==
    ASSUME NEW e \in Endpoints, ~lease[e]
    PROVE  /\ Cardinality(Lessees \cup {e}) = Cardinality(Lessees) + 1
           /\ Cardinality(Lessees) < Cardinality(Endpoints)
  <1>1. e \notin Lessees
    BY DEF Lessees
  <1>2. Cardinality(Lessees \cup {e}) = Cardinality(Lessees) + 1
    BY <1>1, LesseesFinite, FS_AddElement
  <1>3. Lessees \cup {e} \in SUBSET Endpoints
    BY DEF Lessees
  <1>4. Cardinality(Lessees \cup {e}) <= Cardinality(Endpoints)
    BY <1>3, EndpointsAreFinite, FS_Subset
  <1>5. Cardinality(Lessees) < Cardinality(Endpoints)
    BY <1>2, <1>4, LesseesFinite
  <1> QED
    BY <1>2, <1>5

\* Dropping one moves it back.
LEMMA LesseesShrink ==
    ASSUME NEW e \in Endpoints, lease[e]
    PROVE  /\ Cardinality(Lessees \ {e}) = Cardinality(Lessees) - 1
           /\ Cardinality(Lessees) > 0
  <1>1. e \in Lessees
    BY DEF Lessees
  <1>2. Cardinality(Lessees) # 0
    <2>1. Lessees # {}
      BY <1>1
    <2> QED
      BY <2>1, LesseesFinite, FS_EmptySet
  <1>3. Cardinality(Lessees) > 0
    BY <1>2, LesseesFinite
  <1>4. Cardinality(Lessees \ {e}) = Cardinality(Lessees) - 1
    BY <1>1, LesseesFinite, FS_RemoveElement
  <1> QED
    BY <1>3, <1>4

\* The initial states satisfy the invariant.
LEMMA EndpointInit == Init => EInv
  <1> SUFFICES ASSUME Init PROVE EInv
    OBVIOUS
  <1> USE EndpointsAreFinite, MaxBindsIsNat, MemoryIsAPath, NoneIsNoPath, NoneIsNoTask
  <1>1. TypeOK
    <2>1. Cardinality(Endpoints) \in Nat
      BY LesseesFinite
    <2>2. /\ alive \in [Endpoints -> BOOLEAN] /\ lease \in [Endpoints -> BOOLEAN]
          /\ bound \in [Endpoints -> BOOLEAN] /\ swarm \in [Endpoints -> BOOLEAN]
          /\ ticking \in [Endpoints -> BOOLEAN] /\ awaiting \in [Endpoints -> BOOLEAN]
      BY DEF Init
    <2>3. questions \in [Endpoints -> [Stores -> Tasks \cup {NONE}]]
      BY DEF Init
    <2>4. running \in BOOLEAN /\ unloaded \in BOOLEAN
      BY DEF Init
    <2> QED
      BY <2>1, <2>2, <2>3, <2>4 DEF Init, TypeOK
  <1>2. LeasesCounted
    <2>1. {e \in Endpoints : lease[e]} = {}
      BY DEF Init
    <2>2. Cardinality({e \in Endpoints : lease[e]}) = 0
      BY <2>1, FS_EmptySet
    <2>3. ~unloaded => /\ holders = Cardinality({e \in Endpoints : lease[e]})
                       /\ running <=> holders > 0
      BY <2>2 DEF Init
    <2> QED
      BY <2>3 DEF Init, LeasesCounted
  <1> QED
    BY <1>1, <1>2 DEF Init, EInv, TickingMatchesWork, HasWork, ServicesBelongToTheBind,
       HeldByService, BindsOnce, Stores

\* Next keeps the types.  holders stays in range because it counts leases.
LEMMA TypeStep == EInv /\ [Next]_vars => TypeOK'
  <1> SUFFICES ASSUME EInv, [Next]_vars PROVE TypeOK'
    OBVIOUS
  <1> USE NoneIsNoPath, MaxBindsIsNat DEF EInv, TypeOK, runtimeVars, serviceVars
  <1>c. Cardinality(Endpoints) \in Nat
    BY LesseesFinite
  <1>w. ASSUME NEW e \in Endpoints, RefreshTicking(e) PROVE ticking' \in [Endpoints -> BOOLEAN]
    <2>1. HasWork(e)' \in BOOLEAN
      BY DEF HasWork
    <2> QED
      BY <1>w, <2>1 DEF RefreshTicking
  <1>1. ASSUME NEW e \in Endpoints, Bind(e) PROVE TypeOK'
    <2>1. ~unloaded
      BY <1>1 DEF Bind, Callable
    <2>2. holders = Cardinality(Lessees)
      BY <2>1 DEF LeasesCounted, Lessees
    <2>3. holders' = holders \/ (~lease[e] /\ holders' = holders + 1)
      BY <1>1 DEF Bind
    <2>4. holders' \in 0..Cardinality(Endpoints)
      <3>1. CASE lease[e]
        BY <2>3, <3>1
      <3>2. CASE ~lease[e]
        <4>1. Cardinality(Lessees) < Cardinality(Endpoints)
          BY <3>2, LesseesGrow
        <4> QED
          BY <1>c, <2>2, <2>3, <4>1
      <3> QED
        BY <3>1, <3>2
    <2>5. ticking' \in [Endpoints -> BOOLEAN]
      BY <1>1, <1>w DEF Bind
    <2>6. running' \in BOOLEAN /\ lease' \in [Endpoints -> BOOLEAN]
      BY <1>1 DEF Bind
    <2>7. pending_bind' \in [Endpoints -> {NONE, "running", "dying", "ok", "failed", "cut"}]
      BY <1>1 DEF Bind
    <2>8. binds' \in 0..MaxBinds /\ serial' \in [Endpoints -> 0..MaxBinds]
      BY <1>1 DEF Bind
    <2>9. awaiting' \in [Endpoints -> BOOLEAN]
      BY <1>1 DEF Bind
    <2> QED
      BY <1>1, <2>4, <2>5, <2>6, <2>7, <2>8, <2>9 DEF Bind
  <1>2. ASSUME NEW e \in Endpoints, NEW alpn \in Alpns, Listen(e, alpn) \/ StopListening(e, alpn)
        PROVE  TypeOK'
    <2>1. ticking' \in [Endpoints -> BOOLEAN]
      BY <1>2, <1>w DEF Listen, StopListening
    <2>2. listeners' \in [Endpoints -> SUBSET Alpns]
      <3>1. /\ listeners[e] \cup {alpn} \in SUBSET Alpns
            /\ listeners[e] \ {alpn} \in SUBSET Alpns
        OBVIOUS
      <3> QED
        BY <1>2, <3>1, ZenonT(30) DEF Listen, StopListening
    <2>3. pending_listens' \in [Endpoints -> SUBSET Alpns]
      <3>1. /\ pending_listens[e] \cup {alpn} \in SUBSET Alpns
            /\ pending_listens[e] \ {alpn} \in SUBSET Alpns
        OBVIOUS
      <3> QED
        BY <1>2, <3>1, ZenonT(30) DEF Listen, StopListening
    <2> QED
      BY <1>2, <2>1, <2>2, <2>3 DEF Listen, StopListening
  <1>3. ASSUME NEW e \in Endpoints, NEW path \in Paths, SetBlobStorePath(e, path) PROVE TypeOK'
    BY <1>3 DEF SetBlobStorePath
  <1>4. ASSUME NEW e \in Endpoints, Subscribe(e) \/ UseBlobs(e) PROVE TypeOK'
    BY <1>4 DEF Subscribe, UseBlobs, SwarmAfter, DepotAfter, MayStart
  <1>5. ASSUME NEW e \in Endpoints, UseDocuments(e) PROVE TypeOK'
    BY <1>5 DEF UseDocuments, StartLibrary, LibraryAfter, SwarmAfter, DepotAfter, MayStart
  <1>6. ASSUME NEW e \in Endpoints, NEW s \in Stores, Ask(e, s) PROVE TypeOK'
    <2>1. ticking' \in [Endpoints -> BOOLEAN]
      BY <1>6, <1>w DEF Ask
    <2>2. questions' \in [Endpoints -> [Stores -> Tasks \cup {NONE}]]
      BY <1>6 DEF Ask, Tasks
    <2>3. depot' \in [Endpoints -> Paths \cup {NONE}]
      <3>1. DepotAfter(e) \in Paths \cup {NONE}
        BY DEF DepotAfter
      <3> QED
        BY <1>6, <3>1, ZenonT(60) DEF Ask, StartLibrary
    <2>4. library' \in [Endpoints -> Paths \cup {NONE}]
      BY <1>6 DEF Ask, StartLibrary, LibraryAfter
    <2>5. swarm' \in [Endpoints -> BOOLEAN]
      BY <1>6 DEF Ask, StartLibrary, SwarmAfter, MayStart
    <2> QED
      BY <1>6, <2>1, <2>2, <2>3, <2>4, <2>5 DEF Ask
  <1>7. ASSUME NEW e \in Endpoints, NEW s \in Stores, QuestionSettles(e, s) PROVE TypeOK'
    BY <1>7 DEF QuestionSettles, Outcomes, Tasks
  <1>8. ASSUME NEW e \in Endpoints, Close(e) PROVE TypeOK'
    <2>1. ticking' \in [Endpoints -> BOOLEAN]
      BY <1>8, <1>w DEF Close
    <2>2. holders' \in 0..Cardinality(Endpoints)
      BY <1>8, <1>c DEF Close, Teardown, HoldersAfterDrop
    <2>3. questions' \in [Endpoints -> [Stores -> Tasks \cup {NONE}]]
      BY <1>8 DEF Close, Teardown, QuestionsAfter, Stopped, Tasks
    <2>4. closing' \in [1..MaxBinds -> Tasks \cup {NONE}]
      BY <1>8 DEF Close, Teardown, ClosingAfter, Stopped, Tasks
    <2>5. /\ running' \in BOOLEAN /\ lease' \in [Endpoints -> BOOLEAN]
          /\ bound' \in [Endpoints -> BOOLEAN] /\ swarm' \in [Endpoints -> BOOLEAN]
          /\ awaiting' \in [Endpoints -> BOOLEAN]
      BY <1>8 DEF Close, Teardown
    <2> QED
      BY <1>8, <2>1, <2>2, <2>3, <2>4, <2>5 DEF Close, Teardown
  <1>9. ASSUME NEW e \in Endpoints, Release(e) PROVE TypeOK'
    BY <1>9, <1>c DEF Release, Teardown, HoldersAfterDrop, QuestionsAfter, ClosingAfter, Stopped,
       Tasks
  <1>10. ASSUME NEW e \in Endpoints, Drain(e) PROVE TypeOK'
    <2>1. ticking' \in [Endpoints -> BOOLEAN]
      BY <1>10, <1>w DEF Drain
    <2>2. questions' \in [Endpoints -> [Stores -> Tasks \cup {NONE}]]
      BY <1>10 DEF Drain, DrainQuestions, Tasks
    <2>3. pending_bind' \in [Endpoints -> {NONE, "running", "dying", "ok", "failed", "cut"}]
      BY <1>10 DEF Drain, DrainBind
    <2>4. bound' \in [Endpoints -> BOOLEAN] /\ awaiting' \in [Endpoints -> BOOLEAN]
      BY <1>10 DEF Drain, DrainBind
    <2>5. listeners' \in [Endpoints -> SUBSET Alpns]
      <3>1. listeners[e] \cup pending_listens[e] \in SUBSET Alpns
        OBVIOUS
      <3>2. \/ listeners' = listeners
            \/ listeners' = [listeners EXCEPT ![e] = listeners[e] \cup pending_listens[e]]
        BY <1>10, ZenonT(30) DEF Drain, DrainBind
      <3> QED
        BY <3>1, <3>2
    <2>6. pending_listens' \in [Endpoints -> SUBSET Alpns]
      BY <1>10 DEF Drain, DrainBind
    <2> QED
      BY <1>10, <2>1, <2>2, <2>3, <2>4, <2>5, <2>6 DEF Drain
  <1>11. ASSUME NEW e \in Endpoints, BindSettles(e) PROVE TypeOK'
    BY <1>11 DEF BindSettles
  <1>12. ASSUME NEW n \in 1..MaxBinds, CloseSettles(n) PROVE TypeOK'
    BY <1>12 DEF CloseSettles, Outcomes, Tasks
  <1>13. CASE Shutdown
    <2>1. pending_bind' \in [Endpoints -> {NONE, "running", "dying", "ok", "failed", "cut"}]
      BY <1>13 DEF Shutdown, Stopped
    <2>2. questions' \in [Endpoints -> [Stores -> Tasks \cup {NONE}]]
      BY <1>13 DEF Shutdown, QuestionsAfter, Stopped, Tasks
    <2>3. closing' \in [1..MaxBinds -> Tasks \cup {NONE}]
      BY <1>13 DEF Shutdown, ClosingAfter, Stopped, Tasks
    <2>4. holders' \in 0..Cardinality(Endpoints)
      BY <1>13, <1>c DEF Shutdown
    <2>5. running' \in BOOLEAN /\ unloaded' \in BOOLEAN
      BY <1>13 DEF Shutdown
    <2> QED
      BY <1>13, <2>1, <2>2, <2>3, <2>4, <2>5 DEF Shutdown
  <1>14. CASE UNCHANGED vars
    BY <1>14 DEF vars
  <1> QED
    BY <1>1, <1>2, <1>3, <1>4, <1>5, <1>6, <1>7, <1>8, <1>9, <1>10, <1>11, <1>12, <1>13, <1>14
    DEF Next

\* An endpoint whose outstanding work and subscription a step leaves as they
\* were stays subscribed exactly when it should.
LEMMA TickingFrame ==
    ASSUME TickingMatchesWork, NEW f \in Endpoints,
           alive'[f] = alive[f], ticking'[f] = ticking[f],
           pending_bind'[f] = NONE <=> pending_bind[f] = NONE,
           listeners'[f] = listeners[f],
           \A s \in Stores : questions'[f][s] = NONE <=> questions[f][s] = NONE
    PROVE  alive'[f] => (ticking'[f] <=> HasWork(f)')
  BY DEF TickingMatchesWork, HasWork

\* A stopped task is still there: its oneshot is not NONE.
LEMMA StoppedStays ==
    ASSUME NEW task PROVE Stopped(task) = NONE <=> task = NONE
  BY NoneIsNoTask DEF Stopped

\* Every method that changes what is outstanding ends in refresh_ticking, and
\* a teardown leaves the questions of the other endpoints outstanding.
LEMMA TickingStep == EInv /\ [Next]_vars => TickingMatchesWork'
  <1> SUFFICES ASSUME EInv, [Next]_vars, NEW f \in Endpoints
               PROVE  (alive[f] => (ticking[f] <=> HasWork(f)))'
    BY DEF TickingMatchesWork
  <1> USE DEF EInv, TypeOK, runtimeVars, serviceVars
  <1>w. ASSUME NEW e \in Endpoints, RefreshTicking(e)
        PROVE  /\ ticking'[e] = HasWork(e)'
               /\ f # e => ticking'[f] = ticking[f]
    BY <1>w DEF RefreshTicking
  <1>1. ASSUME NEW e \in Endpoints, Bind(e) PROVE (alive[f] => (ticking[f] <=> HasWork(f)))'
    <2>1. CASE f = e
      BY <1>1, <1>w, <2>1 DEF Bind
    <2>2. CASE f # e
      <3>1. ticking'[f] = ticking[f]
        BY <1>1, <1>w, <2>2 DEF Bind
      <3>2. pending_bind'[f] = pending_bind[f]
        BY <1>1, <2>2 DEF Bind
      <3> QED
        BY <1>1, <3>1, <3>2, TickingFrame DEF Bind
    <2> QED
      BY <2>1, <2>2
  <1>2. ASSUME NEW e \in Endpoints, NEW alpn \in Alpns, Listen(e, alpn) \/ StopListening(e, alpn)
        PROVE  (alive[f] => (ticking[f] <=> HasWork(f)))'
    <2>1. CASE RefreshTicking(e) /\ f = e
      BY <1>w, <2>1
    <2>2. CASE f # e \/ UNCHANGED <<listeners, ticking>>
      <3>1. ticking'[f] = ticking[f]
        BY <1>2, <1>w, <2>2 DEF Listen, StopListening
      <3>2. listeners'[f] = listeners[f]
        BY <1>2, <2>2 DEF Listen, StopListening
      <3> QED
        BY <1>2, <3>1, <3>2, TickingFrame DEF Listen, StopListening
    <2> QED
      BY <1>2, <2>1, <2>2 DEF Listen, StopListening
  <1>3. ASSUME UNCHANGED <<alive, ticking, pending_bind, listeners, questions>>
        PROVE  (alive[f] => (ticking[f] <=> HasWork(f)))'
    BY <1>3, TickingFrame
  <1>4. ASSUME NEW e \in Endpoints, NEW s \in Stores, Ask(e, s)
        PROVE  (alive[f] => (ticking[f] <=> HasWork(f)))'
    <2>1. CASE f = e
      BY <1>4, <1>w, <2>1 DEF Ask
    <2>2. CASE f # e
      <3>1. ticking'[f] = ticking[f]
        BY <1>4, <1>w, <2>2 DEF Ask
      <3>2. questions'[f] = questions[f]
        BY <1>4, <2>2 DEF Ask
      <3> QED
        BY <1>4, <3>1, <3>2, TickingFrame DEF Ask
    <2> QED
      BY <2>1, <2>2
  <1>5. ASSUME NEW e \in Endpoints, NEW s \in Stores, QuestionSettles(e, s)
        PROVE  (alive[f] => (ticking[f] <=> HasWork(f)))'
    <2>1. questions[e][s] \in {"running", "dying"} /\ questions[e][s] # NONE
      BY <1>5, NoneIsNoTask DEF QuestionSettles, Outcomes
    <2>2. \E result \in {"done", "cut"} : questions' = [questions EXCEPT ![e][s] = result]
      BY <1>5 DEF QuestionSettles, Outcomes
    <2>3. \A t \in Stores : questions'[f][t] = NONE <=> questions[f][t] = NONE
      BY <2>1, <2>2, NoneIsNoTask
    <2> QED
      BY <1>5, <2>3, TickingFrame DEF QuestionSettles
  <1>6. ASSUME NEW e \in Endpoints, NEW asked, Teardown(e, asked), f # e,
               asked[f] = questions[f], alive'[f] = alive[f], ticking'[f] = ticking[f]
        PROVE  (alive[f] => (ticking[f] <=> HasWork(f)))'
    <2>1. pending_bind'[f] = pending_bind[f] /\ listeners'[f] = listeners[f]
      BY <1>6 DEF Teardown
    <2>2. \A s \in Stores : questions'[f][s] \in {Stopped(questions[f][s]), questions[f][s]}
      BY <1>6 DEF Teardown, QuestionsAfter
    <2>3. \A s \in Stores : questions'[f][s] = NONE <=> questions[f][s] = NONE
      BY <2>2, StoppedStays
    <2> QED
      BY <1>6, <2>1, <2>3, TickingFrame
  <1>7. ASSUME NEW e \in Endpoints, Close(e) PROVE (alive[f] => (ticking[f] <=> HasWork(f)))'
    <2>1. CASE f = e
      BY <1>7, <1>w, <2>1 DEF Close
    <2>2. CASE f # e
      <3>1. ticking'[f] = ticking[f] /\ alive'[f] = alive[f]
        BY <1>7, <1>w, <2>2 DEF Close
      <3> QED
        BY <1>7, <2>2, <3>1, <1>6 DEF Close
    <2> QED
      BY <2>1, <2>2
  <1>8. ASSUME NEW e \in Endpoints, Release(e) PROVE (alive[f] => (ticking[f] <=> HasWork(f)))'
    <2>1. CASE f = e
      BY <1>8, <2>1 DEF Release
    <2>2. CASE f # e
      <3>1. ticking'[f] = ticking[f] /\ alive'[f] = alive[f]
        BY <1>8, <2>2 DEF Release
      <3>2. [questions EXCEPT ![e] = [s \in Stores |-> NONE]][f] = questions[f]
        BY <2>2
      <3> QED
        BY <1>8, <2>2, <3>1, <3>2, <1>6 DEF Release
    <2> QED
      BY <2>1, <2>2
  <1>9. ASSUME NEW e \in Endpoints, Drain(e) PROVE (alive[f] => (ticking[f] <=> HasWork(f)))'
    <2>1. CASE f = e
      BY <1>9, <1>w, <2>1 DEF Drain
    <2>2. CASE f # e
      <3>1. ticking'[f] = ticking[f] /\ alive'[f] = alive[f]
        BY <1>9, <1>w, <2>2 DEF Drain
      <3>2. pending_bind'[f] = pending_bind[f] /\ listeners'[f] = listeners[f]
        BY <1>9, <2>2 DEF Drain, DrainBind
      <3>3. questions'[f] = questions[f]
        BY <1>9, <2>2 DEF Drain, DrainQuestions
      <3> QED
        BY <3>1, <3>2, <3>3, TickingFrame
    <2> QED
      BY <2>1, <2>2
  <1>10. ASSUME NEW e \in Endpoints, BindSettles(e)
         PROVE  (alive[f] => (ticking[f] <=> HasWork(f)))'
    <2>1. pending_bind[e] # NONE /\ pending_bind'[e] # NONE
      BY <1>10, NoneIsNoTask DEF BindSettles
    <2>2. f # e => pending_bind'[f] = pending_bind[f]
      BY <1>10 DEF BindSettles
    <2> QED
      BY <1>10, <2>1, <2>2, TickingFrame DEF BindSettles
  <1>11. CASE Shutdown
    <2>1. pending_bind'[f] = NONE <=> pending_bind[f] = NONE
      BY <1>11, StoppedStays DEF Shutdown
    <2>2. \A s \in Stores : questions'[f][s] = Stopped(questions[f][s])
      BY <1>11 DEF Shutdown, QuestionsAfter
    <2> QED
      BY <1>11, <2>1, <2>2, StoppedStays, TickingFrame DEF Shutdown
  <1> QED
    BY <1>1, <1>2, <1>3, <1>4, <1>5, <1>7, <1>8, <1>9, <1>10, <1>11
    DEF Next, SetBlobStorePath, Subscribe, UseBlobs, UseDocuments, CloseSettles, vars

\* bind() is refused while bound, and the bind's answer ends the binding.
LEMMA BindsOnceStep == EInv /\ [Next]_vars => BindsOnce'
  <1> SUFFICES ASSUME EInv, [Next]_vars, NEW f \in Endpoints
               PROVE  (pending_bind[f] # NONE => ~bound[f])'
    BY DEF BindsOnce
  <1> USE DEF EInv, TypeOK, BindsOnce
  <1>1. ASSUME NEW e \in Endpoints, Bind(e) PROVE (pending_bind[f] # NONE => ~bound[f])'
    BY <1>1 DEF Bind
  <1>2. ASSUME NEW e \in Endpoints, NEW asked, Teardown(e, asked)
        PROVE  (pending_bind[f] # NONE => ~bound[f])'
    BY <1>2 DEF Teardown
  <1>3. ASSUME NEW e \in Endpoints, Drain(e) PROVE (pending_bind[f] # NONE => ~bound[f])'
    BY <1>3 DEF Drain, DrainBind
  <1>4. ASSUME NEW e \in Endpoints, BindSettles(e) PROVE (pending_bind[f] # NONE => ~bound[f])'
    BY <1>4, NoneIsNoTask DEF BindSettles
  <1>5. CASE Shutdown
    BY <1>5, StoppedStays DEF Shutdown
  <1>6. ASSUME UNCHANGED <<pending_bind, bound>> PROVE (pending_bind[f] # NONE => ~bound[f])'
    BY <1>6
  <1> QED
    BY <1>1, <1>2, <1>3, <1>4, <1>5, <1>6
    DEF Next, Listen, StopListening, SetBlobStorePath, Subscribe, UseBlobs, UseDocuments, Ask,
        QuestionSettles, CloseSettles, Close, Release, vars

\* What ServicesBelongToTheBind says of one endpoint.
ServicesOf(e) ==
    /\ listeners[e] # {} \/ swarm[e] \/ depot[e] # NONE => bound[e]
    /\ library[e] # NONE => swarm[e] /\ depot[e] # NONE
    /\ \A alpn \in listeners[e] : ~HeldByService(e, alpn)
    /\ bound[e] => pending_listens[e] = {}

\* Its services, claims and queue as they were, so is what is said of them.
LEMMA ServicesFrame ==
    ASSUME NEW f \in Endpoints, ServicesOf(f),
           swarm'[f] = swarm[f], depot'[f] = depot[f], library'[f] = library[f],
           listeners'[f] = listeners[f], bound'[f] = bound[f],
           pending_listens'[f] = pending_listens[f]
    PROVE  ServicesOf(f)'
  BY DEF ServicesOf, HeldByService

\* Starting services on a bound endpoint claims only protocols no script has.
LEMMA ServicesStart ==
    ASSUME EInv, NEW e \in Endpoints, UNCHANGED <<bound, listeners, pending_listens>>,
           \/ UNCHANGED <<swarm, library>> /\ depot' = [depot EXCEPT ![e] = DepotAfter(e)]
           \/ UNCHANGED <<depot, library>> /\ swarm' = [swarm EXCEPT ![e] = SwarmAfter(e)]
           \/ StartLibrary(e)
    PROVE  \A f \in Endpoints : ServicesOf(f)'
  <1> USE DEF EInv, TypeOK
  <1> TAKE f \in Endpoints
  <1>1. ServicesOf(f)
    BY DEF ServicesBelongToTheBind, ServicesOf
  <1>2. CASE f # e
    <2>1. swarm'[f] = swarm[f] /\ depot'[f] = depot[f] /\ library'[f] = library[f]
      BY <1>2 DEF StartLibrary
    <2> QED
      BY <1>1, <2>1, ServicesFrame
  <1>3. CASE f = e
    <2>1. depot'[e] = depot[e] \/ (depot[e] = NONE /\ MayStart(e, BLOBS))
      BY DEF StartLibrary, DepotAfter
    <2>2. swarm'[e] => swarm[e] \/ MayStart(e, GOSSIP)
      BY DEF StartLibrary, SwarmAfter
    <2>3. library'[e] = library[e] \/ (MayStart(e, DOCS) /\ swarm'[e] /\ depot'[e] # NONE)
      BY DEF StartLibrary, LibraryAfter, MayStart
    <2>4. (swarm[e] => swarm'[e]) /\ (depot[e] # NONE => depot'[e] # NONE)
      BY DEF StartLibrary, SwarmAfter, DepotAfter
    <2> QED
      BY <1>1, <1>3, <2>1, <2>2, <2>3, <2>4 DEF ServicesOf, HeldByService, MayStart
  <1> QED
    BY <1>2, <1>3

\* The services of an endpoint come up after its bind and go with it, and
\* a claim that waited for the bind finds no service holding its protocol.
LEMMA ServicesStep == EInv /\ [Next]_vars => ServicesBelongToTheBind'
  <1> SUFFICES ASSUME EInv, [Next]_vars, NEW f \in Endpoints PROVE ServicesOf(f)'
    BY DEF ServicesBelongToTheBind, ServicesOf
  <1> USE DEF EInv, TypeOK, runtimeVars, serviceVars
  <1>a. ServicesOf(f)
    BY DEF ServicesBelongToTheBind, ServicesOf
  <1>1. ASSUME NEW e \in Endpoints, NEW alpn \in Alpns, Listen(e, alpn) \/ StopListening(e, alpn)
        PROVE  ServicesOf(f)'
    <2>1. CASE f = e
      BY <1>1, <1>a, <2>1 DEF Listen, StopListening, ServicesOf, HeldByService, BindsOnce
    <2>2. CASE f # e
      <3>1. listeners'[f] = listeners[f] /\ pending_listens'[f] = pending_listens[f]
        BY <1>1, <2>2 DEF Listen, StopListening
      <3> QED
        BY <1>1, <1>a, <3>1, ServicesFrame DEF Listen, StopListening
    <2> QED
      BY <2>1, <2>2
  <1>2. ASSUME NEW e \in Endpoints, Subscribe(e) \/ UseBlobs(e) \/ UseDocuments(e)
        PROVE  ServicesOf(f)'
    BY <1>2, ServicesStart DEF Subscribe, UseBlobs, UseDocuments
  <1>3. ASSUME NEW e \in Endpoints, NEW s \in Stores, Ask(e, s) PROVE ServicesOf(f)'
    BY <1>3, ServicesStart DEF Ask
  <1>4. ASSUME NEW e \in Endpoints, NEW asked, Teardown(e, asked) PROVE ServicesOf(f)'
    <2>1. CASE f = e
      BY <1>4, <2>1 DEF Teardown, ServicesOf
    <2>2. CASE f # e
      <3>1. /\ swarm'[f] = swarm[f] /\ depot'[f] = depot[f] /\ library'[f] = library[f]
            /\ listeners'[f] = listeners[f] /\ bound'[f] = bound[f]
            /\ pending_listens'[f] = pending_listens[f]
        BY <1>4, <2>2 DEF Teardown
      <3> QED
        BY <1>a, <3>1, ServicesFrame
    <2> QED
      BY <2>1, <2>2
  <1>5. ASSUME NEW e \in Endpoints, Drain(e) PROVE ServicesOf(f)'
    <2>1. CASE f = e /\ pending_bind[e] = "ok"
      <3>1. ~bound[e]
        BY <2>1, NoneIsNoTask DEF BindsOnce
      <3>2. ~swarm'[e] /\ depot'[e] = NONE /\ library'[e] = NONE
        BY <1>5, <1>a, <2>1, <3>1 DEF Drain, ServicesOf
      <3>3. bound'[e] /\ pending_listens'[e] = {}
        BY <1>5, <2>1, NoneIsNoTask DEF Drain, DrainBind
      <3> QED
        BY <2>1, <3>2, <3>3 DEF ServicesOf, HeldByService
    <2>2. CASE ~(f = e /\ pending_bind[e] = "ok")
      <3>1. /\ listeners'[f] = listeners[f] /\ bound'[f] = bound[f]
            /\ pending_listens'[f] = pending_listens[f]
        BY <1>5, <2>2 DEF Drain, DrainBind
      <3> QED
        BY <1>5, <1>a, <3>1, ServicesFrame DEF Drain
    <2> QED
      BY <2>1, <2>2
  <1>6. ASSUME UNCHANGED <<bound, listeners, pending_listens, serviceVars>> PROVE ServicesOf(f)'
    BY <1>6, <1>a, ServicesFrame
  <1> QED
    BY <1>1, <1>2, <1>3, <1>4, <1>5, <1>6
    DEF Next, Bind, SetBlobStorePath, QuestionSettles, CloseSettles, Close, Release, BindSettles,
        Shutdown, vars

\* What LeasesCounted says of the count.
Counted ==
    ~unloaded => /\ holders = Cardinality(Lessees)
                 /\ running <=> holders > 0

\* bind() takes a lease only where there was none, and the runtime runs after.
LEMMA BindCounts ==
    ASSUME EInv, NEW e \in Endpoints, Bind(e) PROVE Counted'
  <1> USE DEF EInv, TypeOK
  <1>1. holders = Cardinality(Lessees) /\ (running <=> holders > 0)
    BY DEF Bind, Callable, LeasesCounted, Lessees
  <1>2. PICK built \in BOOLEAN :
          /\ running => built
          /\ running' = built
          /\ lease' = [lease EXCEPT ![e] = @ \/ built]
          /\ holders' = IF built /\ ~lease[e] THEN holders + 1 ELSE holders
    BY DEF Bind
  <1>3. CASE ~lease[e] /\ built
    <2>1. Lessees' = Lessees \cup {e}
      BY <1>2, <1>3 DEF Lessees
    <2>2. holders' = holders + 1
      BY <1>2, <1>3
    <2>3. holders' = Cardinality(Lessees')
      BY <1>1, <2>1, <2>2, <1>3, LesseesGrow
    <2>4. running' /\ holders' > 0
      BY <1>2, <1>3, <2>2
    <2> QED
      BY <2>3, <2>4 DEF Counted
  <1>4. CASE lease[e] \/ ~built
    <2>1. Lessees' = Lessees
      BY <1>2, <1>4 DEF Lessees
    <2>2. holders' = holders
      BY <1>2, <1>4
    <2>3. holders' = Cardinality(Lessees')
      BY <1>1, <2>1, <2>2
    <2>4. CASE lease[e]
      <3>1. holders > 0
        BY <1>1, <2>4, LesseesShrink
      <3> QED
        BY <1>1, <1>2, <2>2, <2>3, <3>1 DEF Counted
    <2>5. CASE ~built
      <3>1. ~running /\ ~running'
        BY <1>2, <2>5
      <3> QED
        BY <1>1, <2>2, <2>3, <3>1 DEF Counted
    <2> QED
      BY <1>4, <2>4, <2>5
  <1> QED
    BY <1>3, <1>4

\* teardown drops the lease it holds, if any, and the last stops the runtime.
LEMMA TeardownCounts ==
    ASSUME EInv, NEW e \in Endpoints, NEW asked, Teardown(e, asked) PROVE Counted'
  <1> SUFFICES ASSUME ~unloaded
               PROVE  holders' = Cardinality(Lessees') /\ (running' <=> holders' > 0)
    BY DEF Counted, Teardown
  <1> USE DEF EInv, TypeOK
  <1>1. holders = Cardinality(Lessees) /\ (running <=> holders > 0)
    BY DEF LeasesCounted, Lessees
  <1>2. CASE lease[e]
    <2>1. Lessees' = Lessees \ {e}
      BY DEF Teardown, Lessees
    <2>2. Cardinality(Lessees') = holders - 1 /\ holders > 0
      BY <1>1, <1>2, <2>1, LesseesShrink
    <2>3. holders' = holders - 1
      BY <1>2, <2>2 DEF Teardown, HoldersAfterDrop
    <2>4. running' <=> ~(holders - 1 = 0)
      BY <1>1, <1>2, <2>2 DEF Teardown, LastLeaseFalls, HoldersAfterDrop
    <2>5. running' <=> holders' > 0
      BY <2>2, <2>3, <2>4
    <2> QED
      BY <2>2, <2>3, <2>5
  <1>3. CASE ~lease[e]
    <2>1. Lessees' = Lessees
      BY <1>3 DEF Teardown, Lessees
    <2>2. holders' = holders
      BY <1>3 DEF Teardown, HoldersAfterDrop
    <2>3. running' <=> running
      BY <1>3 DEF Teardown, LastLeaseFalls
    <2> QED
      BY <1>1, <2>1, <2>2, <2>3
  <1> QED
    BY <1>2, <1>3

\* Every step keeps the count, and a bind under way or done keeps its lease.
LEMMA LeasesStep == EInv /\ [Next]_vars => LeasesCounted'
  <1> SUFFICES ASSUME EInv, [Next]_vars PROVE LeasesCounted'
    OBVIOUS
  <1> USE DEF EInv, TypeOK, runtimeVars
  <1>a. ASSUME NEW f \in Endpoints, bound[f] \/ pending_bind[f] # NONE PROVE lease[f]
    BY <1>a DEF LeasesCounted
  <1>1. Counted'
    <2>1. ASSUME UNCHANGED <<runtimeVars, lease>> PROVE Counted'
      BY <2>1 DEF LeasesCounted, Counted, Lessees
    <2>2. CASE Shutdown
      BY <2>2 DEF Shutdown, Counted
    <2> QED
      BY <2>1, <2>2, BindCounts, TeardownCounts, ZenonT(30)
      DEF Next, Listen, StopListening, SetBlobStorePath, Subscribe, UseBlobs, UseDocuments, Ask,
          QuestionSettles, CloseSettles, Close, Release, Drain, BindSettles, vars
  <1>2. ASSUME NEW f \in Endpoints PROVE (bound[f] \/ pending_bind[f] # NONE => lease[f])'
    <2>1. ASSUME NEW e \in Endpoints, Bind(e)
          PROVE  (bound[f] \/ pending_bind[f] # NONE => lease[f])'
      BY <1>a, <2>1 DEF Bind
    <2>2. ASSUME NEW e \in Endpoints, NEW asked, Teardown(e, asked)
          PROVE  (bound[f] \/ pending_bind[f] # NONE => lease[f])'
      BY <1>a, <2>2 DEF Teardown
    <2>3. ASSUME NEW e \in Endpoints, Drain(e)
          PROVE  (bound[f] \/ pending_bind[f] # NONE => lease[f])'
      BY <1>a, <2>3, NoneIsNoTask DEF Drain, DrainBind
    <2>4. ASSUME NEW e \in Endpoints, BindSettles(e)
          PROVE  (bound[f] \/ pending_bind[f] # NONE => lease[f])'
      BY <1>a, <2>4, NoneIsNoTask DEF BindSettles
    <2>5. CASE Shutdown
      BY <1>a, <2>5, StoppedStays DEF Shutdown
    <2>6. ASSUME UNCHANGED <<bound, pending_bind, lease>>
          PROVE  (bound[f] \/ pending_bind[f] # NONE => lease[f])'
      BY <1>a, <2>6
    <2> QED
      BY <2>1, <2>2, <2>3, <2>4, <2>5, <2>6
      DEF Next, Listen, StopListening, SetBlobStorePath, Subscribe, UseBlobs, UseDocuments, Ask,
          QuestionSettles, CloseSettles, Close, Release, vars
  <1> QED
    BY <1>1, <1>2 DEF LeasesCounted, Counted, Lessees

\* The invariant holds in every reachable state.
THEOREM EndpointInvariant == Spec => []EInv
  <1>1. EInv /\ [Next]_vars => EInv'
    BY TypeStep, LeasesStep, TickingStep, ServicesStep, BindsOnceStep DEF EInv
  <1> QED
    BY <1>1, EndpointInit, PTL DEF Spec

\* The shared runtime is there exactly while an endpoint holds a lease, and
\* nobody binds or is bound without one, for any number of endpoints: no
\* close takes the runtime from under another endpoint.
THEOREM LeasesAreCounted == Spec => []LeasesCounted
  <1>1. EInv => LeasesCounted
    BY DEF EInv
  <1> QED
    BY <1>1, EndpointInvariant, PTL

\* An endpoint is subscribed to the frame exactly while something is
\* outstanding, whatever methods, answers and teardowns came before.
THEOREM SubscriptionFollowsWork == Spec => []TickingMatchesWork
  <1>1. EInv => TickingMatchesWork
    BY DEF EInv
  <1> QED
    BY <1>1, EndpointInvariant, PTL

\* Listeners and services are there only with the dispatcher of a bind, no
\* protocol is claimed twice, and no queued listen outlives the binding.
THEOREM ServicesFollowTheBind == Spec => []ServicesBelongToTheBind
  <1>1. EInv => ServicesBelongToTheBind
    BY DEF EInv
  <1> QED
    BY <1>1, EndpointInvariant, PTL

----------------------------------------------------------------------------
(* The dispatcher of an endpoint. *)

\* The registry and its callers agree, and connections are routed by it.
DInv == DispatchTypeOK /\ HolderIsRegistered /\ RoutedByAlpn

\* The initial states satisfy the invariant.
LEMMA DispatchStarts == DispatchInit => DInv
  BY NoOneAssumption
  DEF DispatchInit, DInv, DispatchTypeOK, HolderIsRegistered, RoutedByAlpn,
      Stages, Holding, Places

\* A step of one incoming connection moves only its own record, to a claimant
\* of its ALPN or to none.
LEMMA DialStep ==
    ASSUME DInv, NEW x \in Dials, NEW at \in Places, NEW to \in Claimants \cup {NoOne},
           Place(x, at, to),
           at \in {"routed", "queued", "taken"} => to # NoOne /\ want[to] = dial[x].alpn,
           UNCHANGED <<protocols, published, open, claimVars>>
    PROVE  DInv'
  <1> USE DEF claimVars, Place
  <1>1. DispatchTypeOK'
    BY DEF DInv, DispatchTypeOK
  <1>2. HolderIsRegistered'
    BY DEF DInv, HolderIsRegistered
  <1>3. RoutedByAlpn'
    <2> SUFFICES ASSUME NEW y \in Dials, dial'[y].at \in {"routed", "queued", "taken"}
                 PROVE  dial'[y].to # NoOne /\ want[dial'[y].to] = dial'[y].alpn
      BY DEF RoutedByAlpn
    <2>1. CASE y = x
      <3>1. dial'[x] = [at |-> at, alpn |-> dial[x].alpn, to |-> to]
        BY DEF DInv, DispatchTypeOK
      <3> QED
        BY <2>1, <3>1
    <2>2. CASE y # x
      <3>1. dial'[y] = dial[y]
        BY <2>2 DEF DInv, DispatchTypeOK
      <3> QED
        BY <3>1 DEF DInv, RoutedByAlpn
    <2> QED
      BY <2>1, <2>2
  <1> QED
    BY <1>1, <1>2, <1>3 DEF DInv

\* Every step of a connection keeps the invariant: only Lookup chooses a
\* claimant, and it takes the one the registry has for the ALPN.
LEMMA RouteStep ==
    ASSUME DInv, NEW x \in Dials, Route(x) \/ Take(x)
    PROVE  DInv'
  <1>1. /\ dial[x] \in [at : Places, alpn : AlpnNames, to : Claimants \cup {NoOne}]
        /\ dial[x].alpn \in AlpnNames
        /\ dial[x].to \in Claimants \cup {NoOne}
    BY DEF DInv, DispatchTypeOK
  <1>2. dial[x].at \in {"routed", "queued", "taken"} =>
          dial[x].to # NoOne /\ want[dial[x].to] = dial[x].alpn
    BY DEF DInv, RoutedByAlpn
  <1>3. UNCHANGED <<protocols, published, open, claimVars>>
    BY DEF Route, Accept, Handshake, HandshakeFails, Lookup, Send, Take
  <1>4. CASE Accept(x) \/ Handshake(x) \/ HandshakeFails(x)
    <2>1. PICK at \in {"handshake", "refused", "connected", "failed"} :
            Place(x, at, dial[x].to)
      BY <1>4 DEF Accept, Handshake, HandshakeFails, Move
    <2>2. at \in Places /\ at \notin {"routed", "queued", "taken"}
      BY <2>1 DEF Places
    <2> QED
      BY <1>1, <1>3, <2>1, <2>2, DialStep
  <1>5. CASE Lookup(x)
    <2>1. CASE Wanted(dial[x].alpn)
      <3> DEFINE to == protocols[dial[x].alpn]
      <3>1. to \in Claimants \cup {NoOne} /\ to # NoOne /\ want[to] = dial[x].alpn
        BY <1>1, <2>1 DEF Wanted, DInv, DispatchTypeOK, HolderIsRegistered
      <3>2. Place(x, "routed", to) /\ "routed" \in Places
        BY <1>5, <2>1 DEF Lookup, Places
      <3> HIDE DEF to
      <3> QED
        BY <1>3, <3>1, <3>2, DialStep
    <2>2. CASE ~Wanted(dial[x].alpn)
      <3>1. Place(x, "closed", dial[x].to) /\ "closed" \in Places
        BY <1>5, <2>2 DEF Lookup, Move, Places
      <3> QED
        BY <1>1, <1>3, <3>1, DialStep
    <2> QED
      BY <2>1, <2>2
  <1>6. CASE Send(x) \/ Take(x)
    <2>1. PICK at \in {"dropped", "queued", "taken"} : Place(x, at, dial[x].to)
      BY <1>6 DEF Send, Take, Move
    <2>2. at \in Places
      BY <2>1 DEF Places
    <2>3. dial[x].to # NoOne /\ want[dial[x].to] = dial[x].alpn
      BY <1>2, <1>6 DEF Send, Take
    <2> QED
      BY <1>1, <1>3, <2>1, <2>2, <2>3, DialStep
  <1> QED
    BY <1>4, <1>5, <1>6 DEF Route

\* Every step of a claimant, and the endpoint's close, keeps the invariant.
LEMMA ClaimStep ==
    ASSUME DInv,
           \/ EndpointClose
           \/ \E o \in Claimants :
                Register(o) \/ Claim(o) \/ ToggleRefuse(o) \/ DropClaim(o) \/ Republish(o)
    PROVE  DInv'
  <1> USE NoOneAssumption
  <1> USE DEF claimVars
  <1>0. dial' = dial /\ want' = want
    BY DEF EndpointClose, Register, Claim, Republish, ToggleRefuse, DropClaim,
           CollectKeys, SetAlpns, PushRefuse
  <1>r. RoutedByAlpn'
    BY <1>0 DEF DInv, RoutedByAlpn
  <1>1. CASE EndpointClose
    BY <1>1, <1>r DEF EndpointClose, DInv, DispatchTypeOK, HolderIsRegistered
  <1>2. ASSUME NEW o \in Claimants, Register(o) PROVE DInv'
    <2>1. DispatchTypeOK'
      BY <1>2 DEF Register, DInv, DispatchTypeOK, Stages, Holding
    <2>2. HolderIsRegistered'
      BY <1>2 DEF Register, DInv, DispatchTypeOK, HolderIsRegistered, Holding
    <2> QED
      BY <1>r, <2>1, <2>2 DEF DInv
  <1>3. ASSUME NEW o \in Claimants, Claim(o) PROVE DInv'
    <2>1. DispatchTypeOK'
      BY <1>3 DEF Claim, CollectKeys, SetAlpns, PushRefuse, Claimed, DInv, DispatchTypeOK, Stages, Holding
    <2>2. stage[o] \in Holding /\ protocols' = protocols
          /\ \E s \in Holding : stage' = [stage EXCEPT ![o] = s]
      BY <1>3 DEF Claim, CollectKeys, SetAlpns, PushRefuse, Holding
    <2>3. HolderIsRegistered'
      BY <1>0, <2>2 DEF DInv, DispatchTypeOK, HolderIsRegistered
    <2> QED
      BY <1>r, <2>1, <2>3 DEF DInv
  <1>4. ASSUME NEW o \in Claimants, ToggleRefuse(o) PROVE DInv'
    BY <1>4, <1>r DEF ToggleRefuse, DInv, DispatchTypeOK, HolderIsRegistered
  <1>5. ASSUME NEW o \in Claimants, DropClaim(o) PROVE DInv'
    <2>1. DispatchTypeOK'
      BY <1>5 DEF DropClaim, DInv, DispatchTypeOK, Stages, Holding
    <2>2. HolderIsRegistered'
      BY <1>5 DEF DropClaim, DInv, DispatchTypeOK, HolderIsRegistered, Holding
    <2> QED
      BY <1>r, <2>1, <2>2 DEF DInv
  <1>6. ASSUME NEW o \in Claimants, Republish(o) PROVE DInv'
    <2>1. DispatchTypeOK'
      BY <1>6 DEF Republish, CollectKeys, SetAlpns, Claimed, DInv, DispatchTypeOK, Stages, Holding
    <2>2. /\ stage[o] \in {"removed", "recollected"} /\ protocols' = protocols
          /\ \E s \in {"recollected", "gone"} : stage' = [stage EXCEPT ![o] = s]
      BY <1>6 DEF Republish, CollectKeys, SetAlpns
    <2>3. HolderIsRegistered'
      BY <1>0, <2>2 DEF DInv, DispatchTypeOK, HolderIsRegistered, Holding
    <2> QED
      BY <1>r, <2>1, <2>3 DEF DInv
  <1> QED
    BY <1>1, <1>2, <1>3, <1>4, <1>5, <1>6

\* The invariant holds in every reachable state.
LEMMA DispatchInvariant == DispatchSpec => []DInv
  <1>1. DInv /\ [DispatchNext]_dispatchVars => DInv'
    <2> SUFFICES ASSUME DInv, [DispatchNext]_dispatchVars PROVE DInv'
      OBVIOUS
    <2>1. CASE UNCHANGED dispatchVars
      BY <2>1 DEF dispatchVars, claimVars, DInv, DispatchTypeOK, HolderIsRegistered, RoutedByAlpn
    <2> QED
      BY <2>1, RouteStep, ClaimStep DEF DispatchNext
  <1> QED
    BY <1>1, DispatchStarts, PTL DEF DispatchSpec

\* No two claimants ever hold one ALPN, and no drop evicts another's claim.
THEOREM ClaimsAreExclusive == DispatchSpec => []HolderIsRegistered
  <1>1. DInv => HolderIsRegistered
    BY DEF DInv
  <1> QED
    BY <1>1, DispatchInvariant, PTL

\* A connection reaches only a claimant of the ALPN it negotiated.
THEOREM RoutingIsRight == DispatchSpec => []RoutedByAlpn
  <1>1. DInv => RoutedByAlpn
    BY DEF DInv
  <1> QED
    BY <1>1, DispatchInvariant, PTL

=============================================================================
