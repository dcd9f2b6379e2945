-------------------------- MODULE ConnectionProofs --------------------------
(***************************************************************************)
(* Proofs about Connection, for any number of datagrams and streams: the    *)
(* script hears one ending at most, and only after the opening of a dial,   *)
(* and the datagrams it gets are in the order in which they arrived.        *)
(***************************************************************************)
EXTENDS Connection, SequenceTheorems, WellFoundedInduction, TLAPS

-----------------------------------------------------------------------------
\* The inductive invariant.  An object o that has handled the first k events
\* of a queue q is described together with the events that are still to come:
\* k = 0 is the state between two steps, and a drain goes from there to Len(q).

Told(o) == fired \o o.deferred
Rest(q, k) == k + 1 .. Len(q)

\* Opened is the first event of a dial that got through and nothing was told
\* before it; Closed comes once, and nothing but streams and datagrams after.
EventsInTurn(o, q, k) ==
    /\ \A i, j \in Rest(q, k) : q[i].kind = "Closed" /\ q[j].kind = "Closed" => i = j
    /\ \A i \in Rest(q, k) : q[i].kind = "Closed" => o.events
    /\ \A i \in Rest(q, k) : q[i].kind = "Opened" =>
         i = k + 1 /\ dialled /\ pumping /\ o.events /\ Told(o) = <<>>
    /\ dialled /\ pumping /\ Told(o) = <<>> /\ k < Len(q) => q[k + 1].kind = "Opened"

\* Without a pump only the failure of the dial can be told.
NothingPumped(o, q, k) ==
    ~pumping =>
      /\ dialled /\ ~o.connection
      /\ Told(o) = <<>> \/ (Told(o) = <<"failed">> /\ ~o.events)
      /\ \A i \in Rest(q, k) : i = k + 1 /\ q[i].kind = "Closed" /\ Told(o) = <<>>

\* With one the connection is there from its opening to its end.
OpenWhilePumped(o, q, k) ==
    pumping /\ o.events =>
      /\ o.connection <=> ~dialled \/ Told(o) # <<>>
      /\ dialled /\ Told(o) = <<>> => k < Len(q)

\* What was told starts with the opening, and has an end only if the object let
\* go of its channel.
ToldInTurn(o) ==
    /\ pumping => \A i \in DOMAIN Told(o) : Told(o)[i] # "failed"
    /\ dialled /\ pumping /\ Told(o) # <<>> => Told(o)[1] = "opened"
    /\ \A i \in DOMAIN Told(o) : Told(o)[i] = "opened" => dialled /\ i = 1
    /\ \A i \in DOMAIN Told(o) : Told(o)[i] \in Terminal => ~o.events
    /\ \A i, j \in DOMAIN Told(o) :
         Told(o)[i] \in Terminal /\ Told(o)[j] \in Terminal => i = j

Story(o, q, k) ==
    /\ EventsInTurn(o, q, k) /\ NothingPumped(o, q, k)
    /\ OpenWhilePumped(o, q, k) /\ ToldInTurn(o)

\* Datagrams are numbered as they arrive: within each place, and from one place
\* to the next, the numbers rise.
Rises(p) == \A i, j \in DOMAIN p : i < j => p[i] < p[j]
Ahead(p, r) == \A i \in DOMAIN p, j \in DOMAIN r : p[i] < r[j]

\* The events that carry a datagram rise too, and are between what was handed
\* over and what was not read.
Between(p, q, k, r) ==
    /\ \A i, j \in Rest(q, k) : i < j /\ q[i].n > 0 /\ q[j].n > 0 => q[i].n < q[j].n
    /\ \A i \in DOMAIN p, j \in Rest(q, k) : q[j].n > 0 => p[i] < q[j].n
    /\ \A i \in Rest(q, k), j \in DOMAIN r : q[i].n < r[j]

InOrder(o, q, k) ==
    /\ Rises(got) /\ Rises(o.datagrams) /\ Rises(inbox)
    /\ Ahead(got, o.datagrams) /\ Ahead(got, inbox) /\ Ahead(o.datagrams, inbox)
    /\ Between(got, q, k, inbox) /\ Between(o.datagrams, q, k, inbox)

\* Exactly the Datagram events carry a number.
Numbered(q) == \A i \in DOMAIN q : q[i].n > 0 <=> q[i].kind = "Datagram"

\* A dial that is not over has sent nothing; the end is sent by the watcher or
\* the dial, whoever still had to; a dropped receiver leaves nothing behind and
\* nobody waiting; and a wait begins with nothing handed over.
Channel ==
    /\ link = "dialling" => ~pumping /\ queue = <<>> /\ All = <<>>
    /\ watching => pumping
    /\ \A i \in DOMAIN queue : queue[i].kind = "Closed" => ~watching /\ link = "down"
    /\ ~obj.events => queue = <<>> /\ ~blocked
    /\ blocked => obj.datagrams = <<>>
    /\ Numbered(queue)

CInv ==
    /\ TypeOK /\ Channel
    /\ Story(obj, queue, 0) /\ InOrder(obj, queue, 0)

Objects ==
    [events : BOOLEAN, connection : BOOLEAN, datagrams : Seq(1 .. arrived), deferred : Seq(Signals)]
Events == [kind : Kinds, n : 0 .. arrived]

-----------------------------------------------------------------------------
\* Sequences.

\* An element added to a sequence is its last.
LEMMA AppendFacts ==
    ASSUME NEW S, NEW q \in Seq(S), NEW e \in S
    PROVE  /\ Append(q, e) \in Seq(S) /\ Append(q, e) # <<>>
           /\ Len(q) \in Nat /\ DOMAIN q = 1 .. Len(q)
           /\ Len(Append(q, e)) = Len(q) + 1
           /\ DOMAIN Append(q, e) = 1 .. Len(q) + 1
           /\ \A i \in 1 .. Len(q) : Append(q, e)[i] = q[i]
           /\ Append(q, e)[Len(q) + 1] = e
  OBVIOUS

\* Taking the head of a sequence shifts the rest down by one.
LEMMA TailFacts ==
    ASSUME NEW S, NEW q \in Seq(S), q # <<>>
    PROVE  /\ Head(q) \in S /\ Head(q) = q[1] /\ Tail(q) \in Seq(S)
           /\ Len(q) \in Nat \ {0} /\ DOMAIN q = 1 .. Len(q)
           /\ Len(Tail(q)) = Len(q) - 1
           /\ DOMAIN Tail(q) = 1 .. Len(q) - 1
           /\ \A i \in 1 .. Len(q) - 1 : Tail(q)[i] = q[i + 1]
  OBVIOUS

\* A sequence without elements is the empty one.
LEMMA EmptyFacts ==
    ASSUME NEW S, NEW q \in Seq(S)
    PROVE  /\ Len(q) \in Nat /\ DOMAIN q = 1 .. Len(q)
           /\ q = <<>> <=> Len(q) = 0
           /\ \A i \in 1 .. Len(q) : q[i] \in S
  OBVIOUS

\* A set of natural numbers that is not empty has a least element.
LEMMA LeastNumber ==
    ASSUME NEW T \in SUBSET Nat, T # {}
    PROVE  \E m \in T : \A n \in T : m <= n
  <1>1. \A a, b \in Nat : a < b => <<a, b>> \in OpToRel(<, Nat)
    BY DEF OpToRel
  <1>2. PICK R : IsWellFoundedOn(R, Nat) /\ \A a, b \in Nat : a < b => <<a, b>> \in R
    BY <1>1, NatLessThanWellFounded, Zenon
  <1>3. IsWellFoundedOn(R, Nat) /\ T \subseteq Nat
    BY <1>2
  <1>4. PICK m \in T : \A n \in T : ~(<<n, m>> \in R)
    BY ONLY <1>3, T # {}, WFMin, Zenon
  <1>5. ASSUME NEW n \in T PROVE m <= n
    <2>1. ~(n < m)
      BY <1>2, <1>4
    <2> QED
      BY <2>1
  <1> QED
    BY <1>5

\* A set that holds 0 and with each number the next holds every number up to n.
LEMMA UpTo ==
    ASSUME NEW n \in Nat, NEW T, 0 \in T,
           \A i \in 0 .. n - 1 : i \in T => i + 1 \in T
    PROVE  \A i \in 0 .. n : i \in T
  <1> DEFINE Left == {i \in 0 .. n : i \notin T}
  <1> SUFFICES ASSUME Left # {} PROVE FALSE
    OBVIOUS
  <1>1. PICK m \in Left : \A i \in Left : m <= i
    <2>1. Left \in SUBSET Nat /\ Left # {}
      OBVIOUS
    <2> HIDE DEF Left
    <2> QED
      BY <2>1, LeastNumber
  <1>2. m \in 1 .. n /\ m - 1 \in 0 .. n - 1 /\ m - 1 \notin Left
    BY <1>1
  <1>3. m - 1 \in T /\ (m - 1) + 1 = m
    BY <1>2
  <1> QED
    BY <1>1, <1>2, <1>3

-----------------------------------------------------------------------------
\* A drain, event by event.

\* The objects a drain goes through exist, however long the queue.
LEMMA HandledInTurn ==
    ASSUME NEW o, NEW q, Len(q) \in Nat
    PROVE  \E run : /\ run[0] = o
                    /\ \A i \in 1 .. Len(q) : run[i] = Handle(run[i - 1], q[i])
                    /\ HandleAll(o, q) = run[Len(q)]
  <1> DEFINE n == Len(q)
             Step(run, i) == IF i = 0 THEN o ELSE Handle(run[i - 1], q[i])
             Runs(run, m) == run = [i \in 0 .. m |-> Step(run, i)]
             T == {m \in 0 .. n : \E run : Runs(run, m)}
  <1>1. 0 \in T
    <2> DEFINE run == [i \in 0 .. 0 |-> o]
    <2>1. run = [i \in 0 .. 0 |-> Step(run, i)]
      OBVIOUS
    <2>2. Runs(run, 0)
      BY <2>1
    <2> HIDE DEF run, Runs
    <2> QED
      BY <2>2
  <1>2. ASSUME NEW m \in 0 .. n - 1, m \in T PROVE m + 1 \in T
    <2>1. PICK run : Runs(run, m)
      BY <1>2
    <2> DEFINE next == [i \in 0 .. m + 1 |-> IF i = m + 1 THEN Handle(run[m], q[m + 1]) ELSE run[i]]
    <2>2. ASSUME NEW i \in 0 .. m + 1 PROVE next[i] = Step(next, i)
      <3>1. CASE i = m + 1
        <4>1. next[i - 1] = run[m] /\ next[i] = Handle(run[m], q[m + 1]) /\ i - 1 = m /\ i # 0
          BY <3>1
        <4> HIDE DEF next
        <4> QED
          BY <3>1, <4>1
      <3>2. CASE i = 0
        <4>1. run[0] = o
          BY <2>1
        <4>2. next[0] = run[0]
          OBVIOUS
        <4> QED
          BY <3>2, <4>1, <4>2
      <3>3. CASE i \in 1 .. m
        <4>1. run[i] = Handle(run[i - 1], q[i])
          BY <2>1, <3>3
        <4>2. next[i] = run[i] /\ next[i - 1] = run[i - 1]
          BY <3>3
        <4> HIDE DEF next
        <4> QED
          BY <3>3, <4>1, <4>2
      <3> QED
        BY <3>1, <3>2, <3>3
    <2>3. next = [i \in 0 .. m + 1 |-> next[i]]
      OBVIOUS
    <2> HIDE DEF next
    <2>4. next = [i \in 0 .. m + 1 |-> Step(next, i)]
      <3> HIDE DEF Step
      <3> QED
        BY <2>2, <2>3
    <2>5. Runs(next, m + 1)
      BY <2>4
    <2> HIDE DEF Runs
    <2> QED
      BY <2>5
  <1>3. n \in T
    <2> HIDE DEF T
    <2>1. n \in 0 .. n
      OBVIOUS
    <2> QED
      BY <1>1, <1>2, <2>1, UpTo
  <1>4. PICK any : Runs(any, n)
    BY <1>3
  <1> DEFINE R(f) == f = [i \in 0 .. Len(q) |-> IF i = 0 THEN o ELSE Handle(f[i - 1], q[i])]
             run == CHOOSE f : R(f)
  <1>5. R(any)
    BY <1>4
  <1>6. R(run)
    <2> HIDE DEF R
    <2> QED
      BY <1>5, Zenon
  <1>7. HandleAll(o, q) = run[Len(q)]
    BY DEF HandleAll
  <1> HIDE DEF run
  <1>8. run[0] = o /\ \A i \in 1 .. Len(q) : run[i] = Handle(run[i - 1], q[i])
    BY <1>6
  <1> QED
    BY <1>7, <1>8

\* What handling an event does to each field of the object.
LEMMA HandleFields ==
    ASSUME NEW o \in Objects, NEW e \in Events, e.n > 0 <=> e.kind = "Datagram"
    PROVE  \E signal \in Signals :
             LET h == Handle(o, e) IN
             /\ h \in Objects
             /\ h.deferred = Append(o.deferred, signal)
             /\ h.events <=> o.events /\ e.kind # "Closed"
             /\ h.connection <=> (o.connection \/ e.kind = "Opened") /\ e.kind # "Closed"
             /\ h.datagrams = IF e.n > 0 THEN Append(o.datagrams, e.n) ELSE o.datagrams
             /\ signal = "opened" <=> e.kind = "Opened"
             /\ signal = "closed" <=> e.kind = "Closed" /\ o.connection
             /\ signal = "failed" <=> e.kind = "Closed" /\ ~o.connection
  <1> USE DEF Objects, Events, Kinds, Signals
  <1>0. o.deferred \in Seq(Signals) /\ o.datagrams \in Seq(1 .. arrived) /\ e.n \in 0 .. arrived
    OBVIOUS
  <1>1. \A s \in Signals : Append(o.deferred, s) \in Seq(Signals)
    BY <1>0, AppendProperties
  <1>2. CASE e.kind = "Opened"
    <2>1. Handle(o, e) = [o EXCEPT !.connection = TRUE, !.deferred = Append(@, "opened")]
      BY <1>2 DEF Handle
    <2>2. Append(o.deferred, "opened") \in Seq(Signals)
      BY <1>1
    <2> QED
      BY <1>2, <2>1, <2>2
  <1>3. CASE e.kind = "Stream"
    <2>1. Handle(o, e) = [o EXCEPT !.deferred = Append(@, "stream_opened")]
      BY <1>3 DEF Handle
    <2>2. Append(o.deferred, "stream_opened") \in Seq(Signals)
      BY <1>1
    <2> QED
      BY <1>3, <2>1, <2>2
  <1>4. CASE e.kind = "Datagram"
    <2>1. Handle(o, e) = [o EXCEPT !.datagrams = Append(@, e.n),
                                   !.deferred = Append(@, "datagram_received")]
      BY <1>4 DEF Handle
    <2>2. /\ Append(o.deferred, "datagram_received") \in Seq(Signals)
          /\ Append(o.datagrams, e.n) \in Seq(1 .. arrived)
      BY <1>0, <1>1, <1>4, AppendProperties
    <2> QED
      BY <1>4, <2>1, <2>2
  <1>5. CASE e.kind = "Closed"
    <2> DEFINE signal == IF o.connection THEN "closed" ELSE "failed"
    <2>1. Handle(o, e) = [o EXCEPT !.connection = FALSE, !.events = FALSE,
                                   !.deferred = Append(@, signal)]
      BY <1>5 DEF Handle
    <2>2. signal \in Signals /\ Append(o.deferred, signal) \in Seq(Signals)
      BY <1>1
    <2>3. signal = "closed" <=> o.connection
      OBVIOUS
    <2>4. signal = "failed" <=> ~o.connection
      OBVIOUS
    <2> HIDE DEF signal
    <2> QED
      BY <1>5, <2>1, <2>2, <2>3, <2>4
  <1> QED
    BY <1>2, <1>3, <1>4, <1>5

\* A signal more is told last.
LEMMA ToldMore ==
    ASSUME fired \in Seq(Signals), NEW o, NEW h, o.deferred \in Seq(Signals),
           NEW signal \in Signals, h.deferred = Append(o.deferred, signal)
    PROVE  /\ Told(o) \in Seq(Signals) /\ Told(h) \in Seq(Signals)
           /\ Len(Told(o)) \in Nat /\ Len(Told(h)) = Len(Told(o)) + 1
           /\ DOMAIN Told(o) = 1 .. Len(Told(o)) /\ DOMAIN Told(h) = 1 .. Len(Told(h))
           /\ \A i \in 1 .. Len(Told(o)) : Told(h)[i] = Told(o)[i]
           /\ Told(h)[Len(Told(o)) + 1] = signal
           /\ Told(h) # <<>>
           /\ Told(o) = <<>> <=> Len(Told(o)) = 0
           /\ Told(o) = <<>> => Told(h) = <<signal>>
  <1>1. Told(o) \in Seq(Signals)
    BY ConcatProperties DEF Told
  <1>2. Told(h) = Append(Told(o), signal)
    BY DEF Told
  <1> HIDE DEF Told
  <1>3. Told(o) = <<>> => Told(h) = <<signal>>
    BY <1>2
  <1> QED
    BY <1>1, <1>2, <1>3, AppendFacts, EmptyFacts

\* Handling an event goes on with the story.
LEMMA HandleTells ==
    ASSUME fired \in Seq(Signals), NEW o \in Objects, NEW q \in Seq(Events), Numbered(q),
           NEW k \in 0 .. Len(q) - 1, Story(o, q, k)
    PROVE  Story(Handle(o, q[k + 1]), q, k + 1)
  <1>0. /\ Len(q) \in Nat /\ DOMAIN q = 1 .. Len(q) /\ k \in Nat /\ k + 1 \in 1 .. Len(q)
        /\ q[k + 1] \in Events /\ o.deferred \in Seq(Signals)
        /\ q[k + 1].n > 0 <=> q[k + 1].kind = "Datagram"
    BY LenProperties DEF Objects, Numbered
  <1> DEFINE e == q[k + 1]
             h == Handle(o, e)
             t == Told(o)
             u == Told(h)
             n == Len(t)
  <1>1. PICK signal \in Signals :
             /\ h \in Objects
             /\ h.deferred = Append(o.deferred, signal)
             /\ h.events <=> o.events /\ e.kind # "Closed"
             /\ h.connection <=> (o.connection \/ e.kind = "Opened") /\ e.kind # "Closed"
             /\ signal = "opened" <=> e.kind = "Opened"
             /\ signal = "closed" <=> e.kind = "Closed" /\ o.connection
             /\ signal = "failed" <=> e.kind = "Closed" /\ ~o.connection
    BY <1>0, HandleFields
  <1>2. /\ n \in Nat /\ Len(u) = n + 1 /\ DOMAIN t = 1 .. n /\ DOMAIN u = 1 .. n + 1
        /\ \A i \in 1 .. n : u[i] = t[i]
        /\ u[n + 1] = signal /\ u # <<>>
        /\ t = <<>> <=> n = 0
        /\ t = <<>> => u = <<signal>>
    BY <1>0, <1>1, ToldMore
  <1>3. EventsInTurn(o, q, k) /\ NothingPumped(o, q, k) /\ OpenWhilePumped(o, q, k) /\ ToldInTurn(o)
    BY DEF Story
  <1>4. /\ k + 1 \in Rest(q, k)
        /\ \A i \in Rest(q, k + 1) : i \in Rest(q, k) /\ i # k + 1
    BY <1>0 DEF Rest
  <1> HIDE DEF e, h, t, u, n
  <1>5. e = q[k + 1] /\ t = Told(o) /\ u = Told(h)
    BY DEF e, t, u
  <1>6. /\ e.kind = "Closed" => o.events /\ \A i \in Rest(q, k + 1) : q[i].kind # "Closed"
        /\ e.kind = "Opened" => dialled /\ pumping /\ o.events /\ t = <<>>
        /\ \A i \in Rest(q, k + 1) : q[i].kind # "Opened"
        /\ dialled /\ pumping /\ t = <<>> => e.kind = "Opened"
    <2>1. \A i \in Rest(q, k + 1) : q[i].kind # "Opened"
      BY <1>3, <1>4 DEF EventsInTurn
    <2>2. k < Len(q)
      BY <1>0
    <2> QED
      BY <1>3, <1>4, <1>5, <2>1, <2>2 DEF EventsInTurn
  <1>7. EventsInTurn(h, q, k + 1)
    <2>1. \A i, j \in Rest(q, k + 1) : q[i].kind = "Closed" /\ q[j].kind = "Closed" => i = j
      BY <1>3, <1>4 DEF EventsInTurn
    <2>2. \A i \in Rest(q, k + 1) : q[i].kind = "Closed" => h.events
      BY <1>1, <1>3, <1>4, <1>6 DEF EventsInTurn
    <2> QED
      BY <1>2, <1>5, <1>6, <2>1, <2>2 DEF EventsInTurn
  <1>8. NothingPumped(h, q, k + 1)
    <2> SUFFICES ASSUME ~pumping PROVE NothingPumped(h, q, k + 1)
      BY DEF NothingPumped
    <2>1. /\ dialled /\ ~o.connection /\ e.kind = "Closed" /\ t = <<>>
          /\ \A i \in Rest(q, k) : i = k + 1
      BY <1>3, <1>4, <1>5 DEF NothingPumped
    <2>2. Rest(q, k + 1) = {}
      BY <1>4, <2>1
    <2>3. signal = "failed" /\ ~h.connection /\ ~h.events
      BY <1>1, <2>1
    <2> QED
      BY <1>2, <1>5, <2>1, <2>2, <2>3 DEF NothingPumped
  <1>9. OpenWhilePumped(h, q, k + 1)
    <2> SUFFICES ASSUME pumping, h.events PROVE h.connection
      BY <1>2, <1>5 DEF OpenWhilePumped
    <2>1. o.events /\ e.kind # "Closed"
      BY <1>1
    <2>2. o.connection <=> ~dialled \/ t # <<>>
      BY <1>3, <1>5, <2>1 DEF OpenWhilePumped
    <2> QED
      BY <1>1, <1>6, <2>1, <2>2
  <1>10. ToldInTurn(h)
    <2>1. /\ pumping => \A i \in 1 .. n : t[i] # "failed"
          /\ dialled /\ pumping /\ t # <<>> => t[1] = "opened"
          /\ \A i \in 1 .. n : t[i] = "opened" => dialled /\ i = 1
          /\ \A i \in 1 .. n : t[i] \in Terminal => ~o.events
          /\ \A i, j \in 1 .. n : t[i] \in Terminal /\ t[j] \in Terminal => i = j
      BY <1>2, <1>3, <1>5 DEF ToldInTurn
    <2>2. \A i \in 1 .. n + 1 : (i \in 1 .. n /\ u[i] = t[i]) \/ (i = n + 1 /\ u[i] = signal)
      BY <1>2
    <2>3. pumping => signal # "failed"
      <3> SUFFICES ASSUME pumping, e.kind = "Closed" PROVE o.connection
        BY <1>1
      <3>1. o.events /\ ~(dialled /\ t = <<>>)
        BY <1>6
      <3> QED
        BY <1>3, <1>5, <3>1 DEF OpenWhilePumped
    <2>4. pumping => \A i \in DOMAIN u : u[i] # "failed"
      BY <1>2, <2>1, <2>2, <2>3
    <2>5. dialled /\ pumping => u[1] = "opened"
      <3>1. CASE t = <<>>
        BY <1>1, <1>2, <1>6, <3>1
      <3>2. CASE t # <<>>
        <4>1. 1 \in 1 .. n
          BY <1>2, <3>2
        <4> QED
          BY <1>2, <2>1, <3>2, <4>1
      <3> QED
        BY <3>1, <3>2
    <2>6. \A i \in DOMAIN u : u[i] = "opened" => dialled /\ i = 1
      <3>1. signal = "opened" => dialled /\ n = 0
        BY <1>1, <1>2, <1>6
      <3> QED
        BY <1>2, <2>1, <2>2, <3>1
    <2>7. signal \in Terminal => o.events /\ ~h.events
      BY <1>1, <1>6 DEF Terminal
    <2>8. \A i \in DOMAIN u : u[i] \in Terminal => ~h.events
      BY <1>1, <1>2, <2>1, <2>2, <2>7
    <2>9. \A i, j \in DOMAIN u : u[i] \in Terminal /\ u[j] \in Terminal => i = j
      BY <1>2, <2>1, <2>2, <2>7
    <2> QED
      BY <1>5, <2>4, <2>5, <2>6, <2>8, <2>9 DEF ToldInTurn
  <1> QED
    BY <1>7, <1>8, <1>9, <1>10 DEF Story, h, e

\* Numbers that rise go on rising when one is added that is above them.
LEMMA RisesMore ==
    ASSUME NEW p \in Seq(Nat), Rises(p), NEW m \in Nat, \A i \in DOMAIN p : p[i] < m
    PROVE  Rises(Append(p, m))
  <1>1. /\ Len(p) \in Nat /\ DOMAIN p = 1 .. Len(p)
        /\ DOMAIN Append(p, m) = 1 .. Len(p) + 1
        /\ \A i \in 1 .. Len(p) : Append(p, m)[i] = p[i]
        /\ Append(p, m)[Len(p) + 1] = m
    BY AppendFacts
  <1> SUFFICES ASSUME NEW i \in 1 .. Len(p) + 1, NEW j \in 1 .. Len(p) + 1, i < j
               PROVE  Append(p, m)[i] < Append(p, m)[j]
    BY <1>1 DEF Rises
  <1>2. i \in 1 .. Len(p)
    BY <1>1
  <1>3. CASE j \in 1 .. Len(p)
    BY <1>1, <1>2, <1>3 DEF Rises
  <1>4. CASE j = Len(p) + 1
    BY <1>1, <1>2, <1>4
  <1> QED
    BY <1>1, <1>3, <1>4

\* Handling an event hands over its datagram, in turn.
LEMMA HandleOrders ==
    ASSUME arrived \in Nat, inbox \in Seq(1 .. arrived), got \in Seq(1 .. arrived),
           NEW o \in Objects, NEW q \in Seq(Events), Numbered(q),
           NEW k \in 0 .. Len(q) - 1, InOrder(o, q, k)
    PROVE  InOrder(Handle(o, q[k + 1]), q, k + 1)
  <1>0. /\ Len(q) \in Nat /\ DOMAIN q = 1 .. Len(q) /\ k \in Nat /\ k + 1 \in 1 .. Len(q)
        /\ q[k + 1] \in Events /\ o.datagrams \in Seq(1 .. arrived)
        /\ q[k + 1].n > 0 <=> q[k + 1].kind = "Datagram"
    BY LenProperties DEF Objects, Numbered
  <1>1. /\ k + 1 \in Rest(q, k)
        /\ \A i \in Rest(q, k + 1) : i \in Rest(q, k) /\ k + 1 < i
    BY <1>0 DEF Rest
  <1> DEFINE m == q[k + 1].n
             d == o.datagrams
             h == Handle(o, q[k + 1])
  <1>2. m \in 0 .. arrived /\ d \in Seq(1 .. arrived)
    BY <1>0 DEF Events
  <1>3. h.datagrams = IF m > 0 THEN Append(d, m) ELSE d
    BY <1>0, HandleFields
  <1> HIDE DEF m, d, h
  <1>4. /\ Rises(got) /\ Rises(d) /\ Rises(inbox)
        /\ Ahead(got, d) /\ Ahead(got, inbox) /\ Ahead(d, inbox)
        /\ Between(got, q, k, inbox) /\ Between(d, q, k, inbox)
    BY DEF InOrder, d
  <1>5. Between(got, q, k + 1, inbox) /\ Between(d, q, k + 1, inbox)
    BY <1>1, <1>4 DEF Between
  <1>6. CASE m = 0
    BY <1>3, <1>4, <1>5, <1>6 DEF InOrder, h
  <1>7. CASE m > 0
    <2>1. /\ \A i \in DOMAIN got : got[i] < m
          /\ \A i \in DOMAIN d : d[i] < m
          /\ \A j \in DOMAIN inbox : m < inbox[j]
          /\ \A j \in Rest(q, k + 1) : q[j].n > 0 => m < q[j].n
      BY <1>1, <1>4, <1>7 DEF Between, m
    <2> DEFINE a == Append(d, m)
    <2>2. /\ Len(d) \in Nat /\ DOMAIN d = 1 .. Len(d) /\ DOMAIN a = 1 .. Len(d) + 1
          /\ \A i \in 1 .. Len(d) : a[i] = d[i]
          /\ a[Len(d) + 1] = m
      BY <1>2, <1>7, AppendFacts
    <2>3. \A i \in DOMAIN a : (i \in DOMAIN d /\ a[i] = d[i]) \/ a[i] = m
      BY <2>2
    <2>4. Rises(a)
      <3>1. d \in Seq(Nat) /\ m \in Nat
        BY <1>2
      <3> QED
        BY <1>4, <2>1, <3>1, RisesMore
    <2> HIDE DEF a
    <2>5. Ahead(got, a)
      BY <1>4, <2>1, <2>3 DEF Ahead
    <2>6. Ahead(a, inbox)
      BY <1>4, <2>1, <2>3 DEF Ahead
    <2>7. Between(a, q, k + 1, inbox)
      BY <1>5, <2>1, <2>3 DEF Between
    <2>8. h.datagrams = a
      BY <1>3, <1>7 DEF a
    <2> QED
      BY <1>4, <1>5, <2>4, <2>5, <2>6, <2>7, <2>8 DEF InOrder, h
  <1> QED
    BY <1>2, <1>6, <1>7

\* A drain, whatever the queue holds, ends with the story told and the datagrams
\* in order.
LEMMA DrainKeeps ==
    ASSUME arrived \in Nat, inbox \in Seq(1 .. arrived), got \in Seq(1 .. arrived),
           fired \in Seq(Signals), NEW o \in Objects, NEW q \in Seq(Events), Numbered(q),
           Story(o, q, 0), InOrder(o, q, 0)
    PROVE  LET h == HandleAll(o, q) IN
           h \in Objects /\ Story(h, q, Len(q)) /\ InOrder(h, q, Len(q))
  <1>0. Len(q) \in Nat /\ DOMAIN q = 1 .. Len(q)
    BY LenProperties
  <1>1. PICK run : /\ run[0] = o
                   /\ \A i \in 1 .. Len(q) : run[i] = Handle(run[i - 1], q[i])
                   /\ HandleAll(o, q) = run[Len(q)]
    BY <1>0, HandledInTurn, ZenonT(30)
  <1> DEFINE T == {k \in 0 .. Len(q) : run[k] \in Objects /\ Story(run[k], q, k) /\ InOrder(run[k], q, k)}
  <1>2. 0 \in T
    BY <1>0, <1>1
  <1>3. ASSUME NEW k \in 0 .. Len(q) - 1, k \in T PROVE k + 1 \in T
    <2>1. k + 1 \in 1 .. Len(q) /\ (k + 1) - 1 = k /\ q[k + 1] \in Events
      BY <1>0
    <2>2. run[k + 1] = Handle(run[k], q[k + 1])
      BY <1>1, <2>1
    <2>3. run[k] \in Objects /\ Story(run[k], q, k) /\ InOrder(run[k], q, k)
      BY <1>3
    <2>4. Handle(run[k], q[k + 1]) \in Objects
      <3>1. q[k + 1].n > 0 <=> q[k + 1].kind = "Datagram"
        BY <1>0, <2>1 DEF Numbered
      <3> QED
        BY <2>1, <2>3, <3>1, HandleFields
    <2>5. Story(Handle(run[k], q[k + 1]), q, k + 1)
      BY <2>3, HandleTells
    <2>6. InOrder(Handle(run[k], q[k + 1]), q, k + 1)
      BY <2>3, HandleOrders
    <2>7. k + 1 \in 0 .. Len(q)
      BY <2>1
    <2> QED
      BY <2>2, <2>4, <2>5, <2>6, <2>7
  <1>4. Len(q) \in T
    <2>1. Len(q) \in 0 .. Len(q)
      BY <1>0
    <2> HIDE DEF T
    <2> QED
      BY <1>0, <1>2, <1>3, <2>1, UpTo
  <1> QED
    BY <1>1, <1>4

\* With nothing left of the queue what was said of its rest is void.
LEMMA NothingLeft ==
    ASSUME NEW o, NEW q, Len(q) \in Nat, Story(o, q, Len(q)), InOrder(o, q, Len(q))
    PROVE  /\ Len(<<>>) = 0 /\ Rest(<<>>, 0) = {} /\ DOMAIN <<>> = {}
           /\ Story(o, <<>>, 0) /\ InOrder(o, <<>>, 0)
  <1>1. Rest(q, Len(q)) = {} /\ Rest(<<>>, 0) = {} /\ Len(<<>>) = 0 /\ DOMAIN <<>> = {}
    BY DEF Rest
  <1>2. ~(Len(q) < Len(q)) /\ ~(0 < Len(<<>>))
    BY <1>1
  <1>3. Story(o, <<>>, 0)
    BY <1>1, <1>2 DEF Story, EventsInTurn, NothingPumped, OpenWhilePumped
  <1>4. InOrder(o, <<>>, 0)
    BY <1>1 DEF InOrder, Between
  <1> QED
    BY <1>1, <1>3, <1>4

\* After the first event the rest of the queue is its tail.
LEMMA RestIsTail ==
    ASSUME NEW o, NEW q \in Seq(Events), q # <<>>, Story(o, q, 1), InOrder(o, q, 1)
    PROVE  Story(o, Tail(q), 0) /\ InOrder(o, Tail(q), 0)
  <1> DEFINE t == Tail(q)
  <1>1. /\ Len(q) \in Nat \ {0} /\ Len(t) = Len(q) - 1
        /\ \A i \in 1 .. Len(q) - 1 : t[i] = q[i + 1]
    BY TailFacts
  <1>2. /\ \A i \in Rest(t, 0) : i + 1 \in Rest(q, 1) /\ t[i] = q[i + 1] /\ i \in Nat
        /\ 0 < Len(t) => 1 < Len(q) /\ t[1] = q[2]
        /\ 1 < Len(q) => 0 < Len(t)
    BY <1>1 DEF Rest
  <1> HIDE DEF t
  <1>3. EventsInTurn(o, t, 0)
    <2>1. \A i, j \in Rest(t, 0) : t[i].kind = "Closed" /\ t[j].kind = "Closed" => i = j
      <3> SUFFICES ASSUME NEW i \in Rest(t, 0), NEW j \in Rest(t, 0),
                          t[i].kind = "Closed", t[j].kind = "Closed"
                   PROVE  i = j
        OBVIOUS
      <3>1. i + 1 = j + 1 /\ i \in Nat /\ j \in Nat
        BY <1>2 DEF Story, EventsInTurn
      <3> QED
        BY <3>1
    <2>2. \A i \in Rest(t, 0) : t[i].kind = "Opened" =>
            i + 1 = 2 /\ dialled /\ pumping /\ o.events /\ Told(o) = <<>>
      BY <1>2 DEF Story, EventsInTurn
    <2>3. \A i \in Rest(t, 0) : t[i].kind = "Opened" =>
            i = 0 + 1 /\ dialled /\ pumping /\ o.events /\ Told(o) = <<>>
      BY <1>2, <2>2
    <2>4. \A i \in Rest(t, 0) : t[i].kind = "Closed" => o.events
      BY <1>2 DEF Story, EventsInTurn
    <2>5. dialled /\ pumping /\ Told(o) = <<>> /\ 0 < Len(t) => t[0 + 1].kind = "Opened"
      BY <1>2 DEF Story, EventsInTurn
    <2> QED
      BY <2>1, <2>3, <2>4, <2>5 DEF EventsInTurn
  <1>4. NothingPumped(o, t, 0)
    <2>1. ~pumping => \A i \in Rest(t, 0) : i + 1 = 1 + 1 /\ t[i].kind = "Closed" /\ Told(o) = <<>>
      BY <1>2 DEF Story, NothingPumped
    <2>2. ~pumping => \A i \in Rest(t, 0) : i = 0 + 1 /\ t[i].kind = "Closed" /\ Told(o) = <<>>
      BY <1>2, <2>1
    <2> QED
      BY <2>2 DEF Story, NothingPumped
  <1>5. OpenWhilePumped(o, t, 0) /\ ToldInTurn(o)
    BY <1>2 DEF Story, OpenWhilePumped
  <1>6. ASSUME NEW p, NEW r, Between(p, q, 1, r) PROVE Between(p, t, 0, r)
    <2>1. \A i, j \in Rest(t, 0) : i < j => i + 1 < j + 1
      BY <1>2
    <2> QED
      BY <1>2, <1>6, <2>1 DEF Between
  <1>7. InOrder(o, t, 0)
    BY <1>6 DEF InOrder
  <1> QED
    BY <1>3, <1>4, <1>5, <1>7 DEF Story, t

-----------------------------------------------------------------------------
\* Types.

\* A sequence over a set is one over any larger set.
LEMMA Widened ==
    ASSUME NEW S, NEW T, S \subseteq T, NEW s \in Seq(S)
    PROVE  s \in Seq(T)
  <1>1. Len(s) \in Nat /\ s \in [1 .. Len(s) -> S]
    BY LenProperties
  <1>2. s \in [1 .. Len(s) -> T]
    BY <1>1
  <1> QED
    BY <1>1, <1>2, IsASeq

\* TypeOK, for the object and the queue as wholes.
LEMMA TypeFacts ==
    TypeOK => /\ obj \in Objects /\ queue \in Seq(Events) /\ arrived \in Nat
              /\ inbox \in Seq(1 .. arrived) /\ got \in Seq(1 .. arrived)
              /\ obj.datagrams \in Seq(1 .. arrived) /\ obj.deferred \in Seq(Signals)
              /\ fired \in Seq(Signals) /\ All \in Seq(Signals) /\ All = Told(obj)
  <1> SUFFICES ASSUME TypeOK PROVE TypeFacts!2
    OBVIOUS
  <1>1. obj \in Objects /\ queue \in Seq(Events) /\ arrived \in Nat
    BY MaxDatagramsAssumption DEF TypeOK, Objects, Events
  <1>2. obj.datagrams \in Seq(1 .. arrived) /\ obj.deferred \in Seq(Signals)
    BY <1>1 DEF Objects
  <1>3. All \in Seq(Signals) /\ All = Told(obj)
    BY <1>2, ConcatProperties DEF TypeOK, All, Told
  <1> QED
    BY <1>1, <1>2, <1>3 DEF TypeOK

\* The initial states satisfy the invariant.
LEMMA ConnectionInit == Init => CInv
  <1> SUFFICES ASSUME Init PROVE CInv
    OBVIOUS
  <1> USE MaxDatagramsAssumption, MaxStreamsAssumption
  <1>1. /\ inbox = <<>> /\ queue = <<>> /\ fired = <<>> /\ got = <<>> /\ arrived = 0
        /\ obj = [events |-> TRUE, connection |-> ~dialled, datagrams |-> <<>>, deferred |-> <<>>]
        /\ dialled \in BOOLEAN
        /\ pumping = ~dialled /\ watching = ~dialled
    BY DEF Init
  <1>2. /\ obj.events = TRUE /\ obj.connection = ~dialled
        /\ obj.datagrams = <<>> /\ obj.deferred = <<>>
    BY <1>1
  <1>3. TypeOK
    <2>1. /\ <<>> \in Seq(1 .. arrived) /\ <<>> \in Seq(Signals)
          /\ <<>> \in Seq([kind : Kinds, n : 0 .. arrived])
      OBVIOUS
    <2>2. obj \in [events : BOOLEAN, connection : BOOLEAN, datagrams : Seq(1 .. arrived), deferred : Seq(Signals)]
      BY <1>1, <2>1
    <2>3. link \in {"dialling", "up", "down"} /\ streams = 0 /\ opened = 0
      BY DEF Init
    <2>4. pumping \in BOOLEAN /\ watching \in BOOLEAN /\ blocked \in BOOLEAN /\ scriptClosed \in BOOLEAN
      BY <1>1 DEF Init
    <2>5. arrived \in 0 .. MaxDatagrams /\ opened \in 0 .. MaxStreams /\ streams \in 0 .. opened
      BY <1>1, <2>3
    <2> QED
      BY <1>1, <2>1, <2>2, <2>3, <2>4, <2>5 DEF TypeOK
  <1>4. Told(obj) = <<>> /\ All = <<>>
    BY <1>1, <1>2 DEF Told, All
  <1>5. Channel
    <2>1. link = "dialling" => ~pumping
      BY <1>1 DEF Init
    <2>2. Numbered(queue) /\ DOMAIN queue = {}
      BY <1>1 DEF Numbered
    <2> QED
      BY <1>1, <1>2, <1>4, <2>1, <2>2 DEF Channel
  <1>6. Rest(queue, 0) = {} /\ ~(0 < Len(queue)) /\ DOMAIN Told(obj) = {}
    BY <1>1, <1>4 DEF Rest
  <1>7. EventsInTurn(obj, queue, 0)
    BY <1>6 DEF EventsInTurn
  <1>8. NothingPumped(obj, queue, 0)
    BY <1>1, <1>2, <1>4, <1>6 DEF NothingPumped
  <1>9. OpenWhilePumped(obj, queue, 0)
    BY <1>1, <1>2, <1>4, <1>6 DEF OpenWhilePumped
  <1>10. ToldInTurn(obj)
    BY <1>1, <1>4, <1>6 DEF ToldInTurn
  <1>11. InOrder(obj, queue, 0)
    BY <1>1, <1>2, <1>6 DEF InOrder, Rises, Ahead, Between
  <1> QED
    BY <1>3, <1>5, <1>7, <1>8, <1>9, <1>10, <1>11 DEF CInv, Story

\* Next keeps the types.
LEMMA TypeStep == CInv /\ [Next]_vars => TypeOK'
  <1> SUFFICES ASSUME CInv, [Next]_vars PROVE TypeOK'
    OBVIOUS
  <1> USE MaxDatagramsAssumption, MaxStreamsAssumption
  <1>t. TypeOK
    BY DEF CInv
  <1>f. /\ obj \in Objects /\ queue \in Seq(Events) /\ arrived \in Nat
        /\ inbox \in Seq(1 .. arrived) /\ got \in Seq(1 .. arrived)
        /\ obj.datagrams \in Seq(1 .. arrived) /\ obj.deferred \in Seq(Signals)
        /\ fired \in Seq(Signals)
    BY <1>t, TypeFacts
  <1>s. ASSUME NEW e \in Events PROVE Sent(e) \in Seq(Events)
    BY <1>f, AppendProperties DEF Sent
  <1>e. \A kind \in Kinds : Event(kind, 0) \in Events
    BY <1>f DEF Event, Events
  <1>o. obj.events \in BOOLEAN /\ obj.connection \in BOOLEAN
    BY <1>f DEF Objects
  <1> USE DEF netVars
  <1>1. CASE DialOpens
    <2>1. queue' \in Seq(Events)
      BY <1>1, <1>s, <1>e DEF DialOpens, Kinds
    <2> QED
      BY <1>1, <1>t, <1>o, <2>1 DEF DialOpens, TypeOK, Events
  <1>2. CASE DialFails
    <2>1. queue' \in Seq(Events)
      BY <1>2, <1>s, <1>e DEF DialFails, Kinds
    <2> QED
      BY <1>2, <1>t, <2>1 DEF DialFails, TypeOK, Events
  <1>3. CASE DatagramArrives
    <2>1. /\ arrived' = arrived + 1 /\ arrived' \in 0 .. MaxDatagrams
          /\ inbox' = Append(inbox, arrived + 1)
          /\ UNCHANGED <<dialled, link, streams, opened, pumping, watching, queue, obj, blocked,
                         fired, got, scriptClosed>>
      BY <1>3, <1>f DEF DatagramArrives
    <2>2. 1 .. arrived \subseteq 1 .. arrived' /\ 0 .. arrived \subseteq 0 .. arrived' /\ arrived + 1 \in 1 .. arrived'
      BY <1>f, <2>1
    <2>3. ASSUME NEW s \in Seq(1 .. arrived) PROVE s \in Seq(1 .. arrived')
      BY <2>2, Widened
    <2>4. inbox' \in Seq(1 .. arrived') /\ got' \in Seq(1 .. arrived')
      BY <1>f, <2>1, <2>2, <2>3, AppendProperties
    <2>5. obj' \in [events : BOOLEAN, connection : BOOLEAN, datagrams : Seq(1 .. arrived'), deferred : Seq(Signals)]
      BY <1>f, <2>1, <2>3 DEF Objects
    <2>6. queue' \in Seq([kind : Kinds, n : 0 .. arrived'])
      <3>1. Events \subseteq [kind : Kinds, n : 0 .. arrived']
        BY <2>2 DEF Events
      <3> HIDE DEF Events
      <3>2. queue \in Seq([kind : Kinds, n : 0 .. arrived'])
        BY <1>f, <3>1, Widened
      <3> QED
        BY <2>1, <3>2
    <2> QED
      BY <1>t, <2>1, <2>4, <2>5, <2>6 DEF TypeOK
  <1>4. CASE StreamArrives
    BY <1>4, <1>t DEF StreamArrives, TypeOK
  <1>5. CASE RemoteEnds
    BY <1>5, <1>t DEF RemoteEnds, TypeOK
  <1>6. CASE AcceptStream
    <2>1. queue' \in Seq(Events)
      BY <1>6, <1>s, <1>e DEF AcceptStream, Kinds
    <2>2. streams' \in 0 .. opened
      BY <1>6, <1>t DEF AcceptStream, TypeOK
    <2> QED
      BY <1>6, <1>t, <2>1, <2>2 DEF AcceptStream, TypeOK, Events
  <1>7. CASE ReadDatagram
    <2>1. inbox # <<>> /\ Head(inbox) \in 1 .. arrived /\ Tail(inbox) \in Seq(1 .. arrived)
      BY <1>7, <1>f, HeadTailProperties DEF ReadDatagram
    <2>2. Event("Datagram", Head(inbox)) \in Events
      BY <1>f, <2>1 DEF Event, Events, Kinds
    <2>3. queue' \in Seq(Events)
      BY <1>7, <1>s, <2>2 DEF ReadDatagram
    <2> QED
      BY <1>7, <1>t, <2>1, <2>3 DEF ReadDatagram, TypeOK, Events
  <1>8. CASE Watch
    <2>1. queue' \in Seq(Events)
      BY <1>8, <1>s, <1>e DEF Watch, Kinds
    <2> QED
      BY <1>8, <1>t, <2>1 DEF Watch, TypeOK, Events
  <1>9. CASE Drain
    <2>1. obj' \in Objects
      BY <1>9, <1>f, DrainKeeps DEF Drain, CInv, Channel
    <2>2. queue' \in Seq(Events)
      BY <1>9 DEF Drain
    <2> QED
      BY <1>9, <1>t, <2>1, <2>2 DEF Drain, TypeOK, Events, Objects
  <1>10. CASE Emit
    <2>1. /\ obj.deferred # <<>> /\ Head(obj.deferred) \in Signals
          /\ Tail(obj.deferred) \in Seq(Signals)
      BY <1>10, <1>f, HeadTailProperties DEF Emit
    <2>2. obj' \in Objects
      BY <1>10, <1>f, <2>1 DEF Emit, Objects
    <2>3. fired' \in Seq(Signals)
      BY <1>10, <1>f, <2>1, AppendProperties DEF Emit
    <2> QED
      BY <1>10, <1>t, <2>2, <2>3 DEF Emit, TypeOK, Objects
  <1>11. CASE GetDatagram
    <2>1. CASE obj.datagrams # <<>>
      <3>1. Head(obj.datagrams) \in 1 .. arrived /\ Tail(obj.datagrams) \in Seq(1 .. arrived)
        BY <1>f, <2>1, HeadTailProperties
      <3>a. got' = Append(got, Head(obj.datagrams)) /\ arrived' = arrived
        BY <1>11, <2>1 DEF GetDatagram
      <3>2. got' \in Seq(1 .. arrived)
        BY <1>f, <3>1, <3>a, AppendProperties
      <3>3. obj' \in Objects
        BY <1>11, <1>f, <2>1, <3>1 DEF GetDatagram, Objects
      <3> QED
        BY <1>11, <1>t, <2>1, <3>2, <3>3 DEF GetDatagram, TypeOK, Objects
    <2>2. CASE obj.datagrams = <<>>
      BY <1>11, <1>t, <2>2 DEF GetDatagram, TypeOK
    <2> QED
      BY <2>1, <2>2
  <1>12. CASE Receive
    <2>1. /\ queue # <<>> /\ Head(queue) \in Events /\ Tail(queue) \in Seq(Events) /\ <<>> \in Seq(Events)
          /\ Head(queue).n > 0 <=> Head(queue).kind = "Datagram"
      <3>1. queue # <<>>
        BY <1>12 DEF Receive
      <3>2. Head(queue) = queue[1] /\ 1 \in DOMAIN queue
        BY <1>f, <3>1, TailFacts
      <3> QED
        BY <1>f, <3>1, <3>2, HeadTailProperties DEF CInv, Channel, Numbered
    <2>2. CASE Head(queue).kind = "Datagram"
      <3>1. Head(queue).n \in 1 .. arrived
        BY <1>f, <2>1, <2>2 DEF Events
      <3>a. got' = Append(got, Head(queue).n)
        BY <1>12, <2>2 DEF Receive
      <3>2. got' \in Seq(1 .. arrived)
        BY <1>f, <3>1, <3>a, AppendProperties
      <3>3. queue' \in Seq(Events) /\ obj' = obj /\ blocked' = FALSE
        BY <1>12, <2>1, <2>2 DEF Receive
      <3> QED
        BY <1>12, <1>t, <3>2, <3>3 DEF Receive, TypeOK, Events
    <2>3. CASE Head(queue).kind # "Datagram"
      <3>1. obj' \in Objects
        <4>1. obj' = Handle(obj, Head(queue))
          BY <1>12, <2>3 DEF Receive
        <4> HIDE DEF netVars
        <4>2. Handle(obj, Head(queue)) \in Objects
          BY <1>f, <2>1, HandleFields
        <4> QED
          BY <4>1, <4>2
      <3>2. blocked' \in BOOLEAN
        BY <1>12, <2>3, <3>1 DEF Receive, Objects
      <3>a. queue' = Tail(queue) \/ queue' = <<>>
        BY <1>12, <2>3 DEF Receive
      <3>3. queue' \in Seq(Events) /\ got' = got
        BY <1>12, <2>1, <2>3, <3>a DEF Receive
      <3> QED
        BY <1>12, <1>t, <3>1, <3>2, <3>3 DEF Receive, TypeOK, Events, Objects
    <2> QED
      BY <2>2, <2>3
  <1>13. CASE Close
    <2>1. obj' \in Objects
      BY <1>13, <1>f DEF Close, Objects
    <2> QED
      BY <1>13, <1>t, <2>1 DEF Close, TypeOK, Objects
  <1>14. CASE UNCHANGED vars
    BY <1>14, <1>t DEF vars, TypeOK
  <1> QED
    BY <1>1, <1>2, <1>3, <1>4, <1>5, <1>6, <1>7, <1>8, <1>9, <1>10, <1>11, <1>12, <1>13, <1>14 DEF Next

-----------------------------------------------------------------------------
\* The steps of the network and the tasks.

Kept == Channel /\ Story(obj, queue, 0) /\ InOrder(obj, queue, 0)

\* A step that adds to neither the signals emitted nor the pump is told by the
\* object and the queue it leaves.
LEMMA StoryNext ==
    ASSUME UNCHANGED <<fired, dialled, pumping>>, Story(obj', queue', 0)
    PROVE  Story(obj, queue, 0)'
  <1>1. Told(obj)' = Told(obj')
    BY DEF Told
  <1> QED
    BY <1>1 DEF Story, EventsInTurn, NothingPumped, OpenWhilePumped, ToldInTurn, Rest

\* One that returns and reads no datagram is ordered likewise.
LEMMA OrderNext ==
    ASSUME UNCHANGED <<got, inbox>>, InOrder(obj', queue', 0)
    PROVE  InOrder(obj, queue, 0)'
  BY DEF InOrder, Rises, Ahead, Between, Rest

\* The events of a queue to which one is sent.
LEMMA SentFacts ==
    ASSUME NEW q \in Seq(Events), NEW e \in Events
    PROVE  /\ Append(q, e) \in Seq(Events) /\ Len(q) \in Nat
           /\ Len(Append(q, e)) = Len(q) + 1
           /\ Rest(q, 0) = 1 .. Len(q) /\ Rest(Append(q, e), 0) = 1 .. Len(q) + 1
           /\ DOMAIN q = 1 .. Len(q) /\ DOMAIN Append(q, e) = 1 .. Len(q) + 1
           /\ \A i \in 1 .. Len(q) : Append(q, e)[i] = q[i]
           /\ Append(q, e)[Len(q) + 1] = e
  BY AppendFacts DEF Rest

\* A queue stays numbered when a numbered event is sent.
LEMMA SentNumbered ==
    ASSUME NEW q \in Seq(Events), NEW e \in Events, Numbered(q),
           e.n > 0 <=> e.kind = "Datagram"
    PROVE  Numbered(Append(q, e))
  <1>1. /\ Append(q, e) \in Seq(Events) /\ Len(q) \in Nat
        /\ DOMAIN q = 1 .. Len(q) /\ DOMAIN Append(q, e) = 1 .. Len(q) + 1
        /\ \A i \in 1 .. Len(q) : Append(q, e)[i] = q[i]
        /\ Append(q, e)[Len(q) + 1] = e
    BY SentFacts
  <1> SUFFICES ASSUME NEW i \in 1 .. Len(q) + 1
               PROVE  Append(q, e)[i].n > 0 <=> Append(q, e)[i].kind = "Datagram"
    BY <1>1 DEF Numbered
  <1>2. CASE i \in 1 .. Len(q)
    BY <1>1, <1>2 DEF Numbered
  <1>3. CASE i = Len(q) + 1
    BY <1>1, <1>3
  <1> QED
    BY <1>1, <1>2, <1>3

\* A task's event fits into the story: it is not the opening, and it is the end
\* only if none was sent before.
LEMMA SentTells ==
    ASSUME NEW o, NEW q \in Seq(Events), NEW e \in Events, Story(o, q, 0),
           pumping, o.events, e.kind # "Opened",
           e.kind = "Closed" => \A i \in DOMAIN q : q[i].kind # "Closed"
    PROVE  Story(o, Append(q, e), 0)
  <1> DEFINE s == Append(q, e)
             n == Len(q)
  <1>1. /\ n \in Nat /\ Len(s) = n + 1
        /\ Rest(q, 0) = 1 .. n /\ Rest(s, 0) = 1 .. n + 1 /\ DOMAIN q = 1 .. n
        /\ \A i \in 1 .. n : s[i] = q[i]
        /\ s[n + 1] = e
    BY SentFacts
  <1> HIDE DEF s, n
  <1>n. \A i \in 1 .. n + 1 : i \in 1 .. n \/ i = n + 1
    BY <1>1
  <1>2. EventsInTurn(o, s, 0)
    <2>1. ASSUME NEW i \in Rest(s, 0), NEW j \in Rest(s, 0),
                 s[i].kind = "Closed", s[j].kind = "Closed"
          PROVE  i = j
      BY <1>1, <1>n, <2>1 DEF Story, EventsInTurn
    <2>2. ASSUME NEW i \in Rest(s, 0), s[i].kind = "Opened"
          PROVE  i = 0 + 1 /\ dialled /\ pumping /\ o.events /\ Told(o) = <<>>
      <3>1. i \in 1 .. n
        BY <1>1, <1>n, <2>2
      <3> QED
        BY <1>1, <2>2, <3>1 DEF Story, EventsInTurn
    <2>3. ASSUME dialled, pumping, Told(o) = <<>> PROVE s[0 + 1].kind = "Opened"
      <3>1. 0 < n
        BY <1>1, <2>3 DEF Story, OpenWhilePumped, n
      <3>2. q[0 + 1].kind = "Opened"
        BY <2>3, <3>1 DEF Story, EventsInTurn, n
      <3> QED
        BY <1>1, <3>1, <3>2
    <2> QED
      BY <2>1, <2>2, <2>3 DEF EventsInTurn
  <1>3. NothingPumped(o, s, 0) /\ ToldInTurn(o)
    BY DEF NothingPumped, Story
  <1>4. OpenWhilePumped(o, s, 0)
    <2>1. 0 < Len(s)
      BY <1>1
    <2> QED
      BY <2>1 DEF Story, OpenWhilePumped
  <1> QED
    BY <1>2, <1>3, <1>4 DEF Story, s

\* An event without a datagram leaves the order alone.
LEMMA SentInOrder ==
    ASSUME arrived \in Nat, inbox \in Seq(1 .. arrived), got \in Seq(1 .. arrived),
           NEW o \in Objects, NEW q \in Seq(Events), NEW e \in Events,
           InOrder(o, q, 0), e.n = 0
    PROVE  InOrder(o, Append(q, e), 0)
  <1> DEFINE s == Append(q, e)
             n == Len(q)
  <1>1. /\ n \in Nat
        /\ Rest(q, 0) = 1 .. n /\ Rest(s, 0) = 1 .. n + 1
        /\ \A i \in 1 .. n : s[i] = q[i]
        /\ s[n + 1] = e
    BY SentFacts
  <1> HIDE DEF s, n
  <1>2. \A i \in Rest(s, 0) : s[i].n > 0 => i \in Rest(q, 0) /\ s[i] = q[i]
    <2> SUFFICES ASSUME NEW i \in 1 .. n + 1, s[i].n > 0 PROVE i \in 1 .. n
      BY <1>1
    <2>1. ASSUME i = n + 1 PROVE FALSE
      <3>1. s[i].n = 0
        BY <1>1, <2>1
      <3> QED
        BY <3>1
    <2> QED
      BY <1>1, <2>1
  <1>3. \A j \in DOMAIN inbox : inbox[j] > 0
    BY EmptyFacts
  <1>4. ASSUME NEW i \in Rest(s, 0), NEW j \in DOMAIN inbox, Between(got, q, 0, inbox)
        PROVE  s[i].n < inbox[j]
    <2>1. CASE i \in 1 .. n
      BY <1>1, <1>4, <2>1 DEF Between
    <2>2. CASE i = n + 1
      BY <1>1, <1>3, <2>2
    <2> QED
      BY <1>1, <2>1, <2>2, SMTT(30)
  <1>5. ASSUME NEW p, Between(p, q, 0, inbox), Between(got, q, 0, inbox)
        PROVE  Between(p, s, 0, inbox)
    BY <1>2, <1>4, <1>5 DEF Between
  <1> QED
    BY <1>5 DEF InOrder, s

\* What the invariant says of a state, before its parts are looked into.
LEMMA Facts ==
    ASSUME CInv
    PROVE  /\ obj \in Objects /\ queue \in Seq(Events) /\ arrived \in Nat
           /\ inbox \in Seq(1 .. arrived) /\ got \in Seq(1 .. arrived)
           /\ obj.datagrams \in Seq(1 .. arrived) /\ obj.deferred \in Seq(Signals)
           /\ fired \in Seq(Signals)
           /\ All = Told(obj) /\ Channel /\ Numbered(queue)
           /\ Story(obj, queue, 0) /\ InOrder(obj, queue, 0)
           /\ DOMAIN queue = 1 .. Len(queue) /\ Len(queue) \in Nat
           /\ Rest(queue, 0) = 1 .. Len(queue)
  <1>1. TypeOK
    BY DEF CInv
  <1>2. obj \in Objects /\ queue \in Seq(Events)
    BY <1>1, TypeFacts
  <1>3. DOMAIN queue = 1 .. Len(queue) /\ Len(queue) \in Nat
    BY <1>2, LenProperties
  <1>4. Rest(queue, 0) = 1 .. Len(queue)
    BY <1>3 DEF Rest
  <1> QED
    BY <1>1, <1>2, <1>3, <1>4, TypeFacts DEF CInv, Channel

\* The first event of a dial is the only one of its queue.
LEMMA FirstEvent ==
    ASSUME NEW e \in Events, queue = <<>>
    PROVE  /\ Append(queue, e) = <<e>> /\ Len(<<e>>) = 1 /\ DOMAIN <<e>> = {1}
           /\ <<e>>[1] = e /\ Rest(<<e>>, 0) = {1}
  BY DEF Rest

\* The handshake ends.
LEMMA DialOpensKeeps == CInv /\ DialOpens => Kept'
  <1> SUFFICES ASSUME CInv, DialOpens PROVE Kept'
    OBVIOUS
  <1>f. /\ obj \in Objects /\ queue \in Seq(Events) /\ arrived \in Nat
        /\ inbox \in Seq(1 .. arrived) /\ got \in Seq(1 .. arrived) /\ Numbered(queue)
        /\ Channel /\ Story(obj, queue, 0) /\ InOrder(obj, queue, 0) /\ All = Told(obj)
    BY Facts
  <1>1. /\ link = "dialling" /\ queue' = Sent(Event("Opened", 0))
        /\ pumping' = obj.events /\ watching' = obj.events
        /\ link' = IF obj.events THEN "up" ELSE "down"
        /\ UNCHANGED <<dialled, inbox, streams, arrived, opened, obj, blocked, fired, got, scriptClosed>>
    BY DEF DialOpens
  <1>2. ~pumping /\ queue = <<>> /\ Told(obj) = <<>> /\ ~watching
    BY <1>f, <1>1 DEF Channel
  <1>3. CASE ~obj.events
    <2>1. queue' = queue /\ pumping' = pumping /\ link' = "down"
      BY <1>1, <1>2, <1>3 DEF Sent, Objects, CInv, TypeOK
    <2>2. Story(obj, queue, 0)'
      BY <1>f, <1>1, <2>1, StoryNext
    <2>3. InOrder(obj, queue, 0)'
      BY <1>f, <1>1, <2>1, OrderNext
    <2>4. Channel'
      BY <1>f, <1>1, <1>2, <1>3, <2>1 DEF Channel, Numbered
    <2> QED
      BY <2>2, <2>3, <2>4 DEF Kept
  <1>4. CASE obj.events
    <2> DEFINE e == Event("Opened", 0)
    <2>e. e \in Events /\ e.kind = "Opened" /\ e.n = 0
      BY <1>f DEF Event, Events, Kinds
    <2> HIDE DEF e
    <2>1. /\ queue' = Append(queue, e) /\ queue' = <<e>> /\ Rest(queue', 0) = {1}
          /\ queue'[1] = e /\ Len(queue') = 1 /\ DOMAIN queue' = {1}
      BY <1>1, <1>2, <1>4, <2>e, FirstEvent DEF Sent, e
    <2>2. /\ dialled /\ ~obj.connection /\ pumping' = TRUE /\ obj' = obj /\ dialled' = dialled
          /\ Told(obj)' = <<>> /\ link' = "up"
      BY <1>f, <1>1, <1>2, <1>4 DEF Story, NothingPumped, Told, Objects
    <2>3. Story(obj, queue, 0)'
      <3>r. Rest(queue, 0)' = {1} /\ DOMAIN (Told(obj)') = {}
        BY <2>1, <2>2 DEF Rest
      <3>1. EventsInTurn(obj, queue, 0)'
        BY <1>4, <2>1, <2>2, <2>e, <3>r DEF EventsInTurn
      <3>2. NothingPumped(obj, queue, 0)'
        BY <2>2 DEF NothingPumped
      <3>3. OpenWhilePumped(obj, queue, 0)'
        BY <2>1, <2>2 DEF OpenWhilePumped
      <3>4. ToldInTurn(obj)'
        BY <2>2, <3>r DEF ToldInTurn
      <3> QED
        BY <3>1, <3>2, <3>3, <3>4 DEF Story
    <2>4. InOrder(obj, queue, 0)'
      BY <1>f, <1>1, <2>1, <2>e, SentInOrder, OrderNext
    <2>5. Numbered(queue')
      BY <2>1, <2>e DEF Numbered
    <2>6. Channel'
      BY <1>f, <1>1, <1>2, <1>4, <2>1, <2>2, <2>5, <2>e DEF Channel, Numbered
    <2> QED
      BY <2>3, <2>4, <2>6 DEF Kept
  <1> QED
    BY <1>3, <1>4

\* The dial fails.
LEMMA DialFailsKeeps == CInv /\ DialFails => Kept'
  <1> SUFFICES ASSUME CInv, DialFails PROVE Kept'
    OBVIOUS
  <1>f. /\ obj \in Objects /\ queue \in Seq(Events) /\ arrived \in Nat
        /\ inbox \in Seq(1 .. arrived) /\ got \in Seq(1 .. arrived) /\ Numbered(queue)
        /\ Channel /\ Story(obj, queue, 0) /\ InOrder(obj, queue, 0) /\ All = Told(obj)
    BY Facts
  <1>1. /\ link = "dialling" /\ queue' = Sent(Event("Closed", 0)) /\ link' = "down"
        /\ UNCHANGED <<dialled, inbox, pumping, watching, obj, blocked, fired, got>>
    BY DEF DialFails
  <1>2. ~pumping /\ queue = <<>> /\ Told(obj) = <<>> /\ ~watching
    BY <1>f, <1>1 DEF Channel
  <1>3. CASE ~obj.events
    <2>1. queue' = queue
      BY <1>1, <1>3 DEF Sent
    <2>2. Story(obj, queue, 0)'
      BY <1>f, <1>1, <2>1, StoryNext
    <2>3. InOrder(obj, queue, 0)'
      BY <1>f, <1>1, <2>1, OrderNext
    <2>4. Channel'
      BY <1>f, <1>1, <1>2, <1>3, <2>1 DEF Channel, Numbered
    <2> QED
      BY <2>2, <2>3, <2>4 DEF Kept
  <1>4. CASE obj.events
    <2> DEFINE e == Event("Closed", 0)
    <2>e. e \in Events /\ e.kind = "Closed" /\ e.n = 0
      BY <1>f DEF Event, Events, Kinds
    <2> HIDE DEF e
    <2>1. /\ queue' = Append(queue, e) /\ queue' = <<e>> /\ Rest(queue', 0) = {1}
          /\ queue'[1] = e /\ Len(queue') = 1 /\ DOMAIN queue' = {1}
      BY <1>1, <1>2, <1>4, <2>e, FirstEvent DEF Sent, e
    <2>2. Story(obj, queue', 0)
      <3>1. EventsInTurn(obj, queue', 0)
        BY <1>2, <1>4, <2>1, <2>e DEF EventsInTurn
      <3>2. NothingPumped(obj, queue', 0)
        BY <1>f, <1>2, <2>1, <2>e DEF NothingPumped, Story
      <3>3. OpenWhilePumped(obj, queue', 0) /\ ToldInTurn(obj)
        BY <1>f, <1>2 DEF OpenWhilePumped, Story
      <3> QED
        BY <3>1, <3>2, <3>3 DEF Story
    <2>3. Story(obj, queue, 0)'
      BY <1>1, <2>2, StoryNext
    <2>4. InOrder(obj, queue, 0)'
      BY <1>f, <1>1, <2>1, <2>e, SentInOrder, OrderNext
    <2>5. Numbered(queue')
      BY <2>1, <2>e DEF Numbered
    <2>6. Channel'
      BY <1>f, <1>1, <1>2, <1>4, <2>1, <2>5, <2>e DEF Channel, Numbered
    <2> QED
      BY <2>3, <2>4, <2>6 DEF Kept
  <1> QED
    BY <1>3, <1>4

\* A datagram arrives: its number is above all the others.
LEMMA DatagramArrivesKeeps == CInv /\ DatagramArrives => Kept'
  <1> SUFFICES ASSUME CInv, DatagramArrives PROVE Kept'
    OBVIOUS
  <1>f. /\ obj \in Objects /\ queue \in Seq(Events) /\ arrived \in Nat
        /\ inbox \in Seq(1 .. arrived) /\ got \in Seq(1 .. arrived) /\ Numbered(queue)
        /\ obj.datagrams \in Seq(1 .. arrived)
        /\ Channel /\ Story(obj, queue, 0) /\ InOrder(obj, queue, 0) /\ All = Told(obj)
        /\ DOMAIN queue = 1 .. Len(queue) /\ Rest(queue, 0) = 1 .. Len(queue)
    BY Facts
  <1>1. /\ inbox' = Append(inbox, arrived + 1)
        /\ UNCHANGED <<dialled, link, pumping, watching, queue, obj, blocked, fired, got>>
    BY DEF DatagramArrives
  <1>2. Story(obj, queue, 0)'
    BY <1>f, <1>1, StoryNext
  <1>3. Channel'
    BY <1>f, <1>1 DEF Channel, Numbered, All
  <1>4. \A p : p \in Seq(1 .. arrived) => \A i \in DOMAIN p : p[i] \in Nat /\ p[i] < arrived + 1
    <2> SUFFICES ASSUME NEW p \in Seq(1 .. arrived), NEW i \in DOMAIN p
                 PROVE  p[i] \in Nat /\ p[i] < arrived + 1
      OBVIOUS
    <2>1. p[i] \in 1 .. arrived
      BY EmptyFacts
    <2> QED
      BY <1>f, <2>1
  <1>5. \A i \in Rest(queue, 0) : queue[i].n < arrived + 1
    <2> SUFFICES ASSUME NEW i \in 1 .. Len(queue) PROVE queue[i].n < arrived + 1
      BY <1>f
    <2>1. queue[i] \in Events
      BY <1>f, EmptyFacts
    <2> QED
      BY <1>f, <2>1 DEF Events
  <1>6. inbox \in Seq(Nat) /\ inbox \in Seq(1 .. arrived + 1) /\ arrived + 1 \in 1 .. arrived + 1
    <2>1. 1 .. arrived \subseteq Nat /\ 1 .. arrived \subseteq 1 .. arrived + 1 /\ arrived + 1 \in 1 .. arrived + 1
      BY <1>f
    <2> QED
      BY <1>f, <2>1, Widened
  <1>7. Rises(inbox')
    BY <1>f, <1>1, <1>4, <1>6, RisesMore DEF InOrder
  <1>8. /\ DOMAIN inbox = 1 .. Len(inbox) /\ Len(inbox) \in Nat
        /\ DOMAIN inbox' = 1 .. Len(inbox) + 1
        /\ \A i \in DOMAIN inbox : inbox'[i] = inbox[i]
        /\ inbox'[Len(inbox) + 1] = arrived + 1
    BY <1>1, <1>6, AppendFacts
  <1>9. \A i \in DOMAIN inbox' : (i \in DOMAIN inbox /\ inbox'[i] = inbox[i]) \/ inbox'[i] = arrived + 1
    BY <1>8
  <1>10. ASSUME NEW p \in Seq(1 .. arrived), Ahead(p, inbox) PROVE Ahead(p, inbox')
    BY <1>4, <1>9, <1>10 DEF Ahead
  <1>11. ASSUME NEW p, Between(p, queue, 0, inbox) PROVE Between(p, queue, 0, inbox')
    BY <1>5, <1>9, <1>11 DEF Between
  <1>12. InOrder(obj, queue, 0)'
    <2>1. /\ Rises(got) /\ Rises(obj.datagrams) /\ Ahead(got, obj.datagrams)
          /\ Ahead(got, inbox') /\ Ahead(obj.datagrams, inbox')
          /\ Between(got, queue, 0, inbox') /\ Between(obj.datagrams, queue, 0, inbox')
      BY <1>f, <1>10, <1>11 DEF InOrder
    <2> QED
      BY <1>1, <1>7, <2>1 DEF InOrder, Rises, Ahead, Between, Rest
  <1> QED
    BY <1>2, <1>3, <1>12 DEF Kept

\* Streams and the end of the link touch neither the queue nor the object.
LEMMA LinkKeeps == CInv /\ (StreamArrives \/ RemoteEnds \/ UNCHANGED vars) => Kept'
  <1> SUFFICES ASSUME CInv, StreamArrives \/ RemoteEnds \/ UNCHANGED vars PROVE Kept'
    OBVIOUS
  <1>f. /\ Channel /\ Story(obj, queue, 0) /\ InOrder(obj, queue, 0)
    BY Facts
  <1>1. /\ UNCHANGED <<dialled, inbox, pumping, watching, queue, obj, blocked, fired, got>>
        /\ link' = link \/ (link = "up" /\ link' = "down")
    BY DEF StreamArrives, RemoteEnds, vars, netVars
  <1>2. Story(obj, queue, 0)'
    BY <1>f, <1>1, StoryNext
  <1>3. InOrder(obj, queue, 0)'
    BY <1>f, <1>1, OrderNext
  <1>4. Channel'
    BY <1>f, <1>1 DEF Channel, Numbered, All
  <1> QED
    BY <1>2, <1>3, <1>4 DEF Kept

\* A stream is accepted.
LEMMA AcceptStreamKeeps == CInv /\ AcceptStream => Kept'
  <1> SUFFICES ASSUME CInv, AcceptStream PROVE Kept'
    OBVIOUS
  <1>f. /\ obj \in Objects /\ queue \in Seq(Events) /\ arrived \in Nat
        /\ inbox \in Seq(1 .. arrived) /\ got \in Seq(1 .. arrived) /\ Numbered(queue)
        /\ Channel /\ Story(obj, queue, 0) /\ InOrder(obj, queue, 0) /\ All = Told(obj)
    BY Facts
  <1>1. /\ pumping /\ queue' = Sent(Event("Stream", 0))
        /\ UNCHANGED <<dialled, link, inbox, pumping, watching, obj, blocked, fired, got>>
    BY DEF AcceptStream
  <1>2. CASE ~obj.events
    <2>1. queue' = queue
      BY <1>1, <1>2 DEF Sent
    <2> QED
      BY <1>f, <1>1, <2>1, StoryNext, OrderNext DEF Kept, Channel, Numbered, All
  <1>3. CASE obj.events
    <2> DEFINE e == Event("Stream", 0)
    <2>e. e \in Events /\ e.kind = "Stream" /\ e.n = 0
      BY <1>f DEF Event, Events, Kinds
    <2> HIDE DEF e
    <2>1. queue' = Append(queue, e)
      BY <1>1, <1>3 DEF Sent, e
    <2>2. Story(obj, queue, 0)'
      BY <1>f, <1>1, <1>3, <2>1, <2>e, SentTells, StoryNext
    <2>3. InOrder(obj, queue, 0)'
      BY <1>f, <1>1, <2>1, <2>e, SentInOrder, OrderNext
    <2>4. Numbered(queue')
      BY <1>f, <2>1, <2>e, SentNumbered
    <2>5. \A i \in DOMAIN queue' : queue'[i].kind = "Closed" => i \in DOMAIN queue /\ queue'[i] = queue[i]
      BY <1>f, <2>1, <2>e, SentFacts
    <2>6. Channel'
      BY <1>f, <1>1, <1>3, <2>4, <2>5 DEF Channel, Numbered, All
    <2> QED
      BY <2>2, <2>3, <2>6 DEF Kept
  <1> QED
    BY <1>2, <1>3

\* The watcher sees the end: the queue holds none yet.
LEMMA WatchKeeps == CInv /\ Watch => Kept'
  <1> SUFFICES ASSUME CInv, Watch PROVE Kept'
    OBVIOUS
  <1>f. /\ obj \in Objects /\ queue \in Seq(Events) /\ arrived \in Nat
        /\ inbox \in Seq(1 .. arrived) /\ got \in Seq(1 .. arrived) /\ Numbered(queue)
        /\ Channel /\ Story(obj, queue, 0) /\ InOrder(obj, queue, 0) /\ All = Told(obj)
    BY Facts
  <1>1. /\ watching /\ link = "down" /\ queue' = Sent(Event("Closed", 0)) /\ watching' = FALSE
        /\ UNCHANGED <<dialled, link, inbox, pumping, obj, blocked, fired, got>>
    BY DEF Watch, netVars
  <1>2. pumping /\ \A i \in DOMAIN queue : queue[i].kind # "Closed"
    BY <1>f, <1>1 DEF Channel
  <1>3. CASE ~obj.events
    <2>1. queue' = queue
      BY <1>1, <1>3 DEF Sent
    <2> QED
      BY <1>f, <1>1, <2>1, StoryNext, OrderNext DEF Kept, Channel, Numbered, All
  <1>4. CASE obj.events
    <2> DEFINE e == Event("Closed", 0)
    <2>e. e \in Events /\ e.kind = "Closed" /\ e.n = 0
      BY <1>f DEF Event, Events, Kinds
    <2> HIDE DEF e
    <2>1. queue' = Append(queue, e)
      BY <1>1, <1>4 DEF Sent, e
    <2>2. Story(obj, queue, 0)'
      BY <1>f, <1>1, <1>2, <1>4, <2>1, <2>e, SentTells, StoryNext
    <2>3. InOrder(obj, queue, 0)'
      BY <1>f, <1>1, <2>1, <2>e, SentInOrder, OrderNext
    <2>4. Numbered(queue')
      BY <1>f, <2>1, <2>e, SentNumbered
    <2>5. Channel'
      BY <1>f, <1>1, <1>4, <2>4 DEF Channel, Numbered, All
    <2> QED
      BY <2>2, <2>3, <2>5 DEF Kept
  <1> QED
    BY <1>3, <1>4

\* The first datagram of the inbox becomes the last event of the queue.
LEMMA ReadDatagramKeeps == CInv /\ ReadDatagram => Kept'
  <1> SUFFICES ASSUME CInv, ReadDatagram PROVE Kept'
    OBVIOUS
  <1>f. /\ obj \in Objects /\ queue \in Seq(Events) /\ arrived \in Nat
        /\ inbox \in Seq(1 .. arrived) /\ got \in Seq(1 .. arrived) /\ Numbered(queue)
        /\ obj.datagrams \in Seq(1 .. arrived)
        /\ Channel /\ Story(obj, queue, 0) /\ InOrder(obj, queue, 0) /\ All = Told(obj)
        /\ Rest(queue, 0) = 1 .. Len(queue)
    BY Facts
  <1> DEFINE m == Head(inbox)
             e == Event("Datagram", m)
  <1>1. /\ pumping /\ inbox # <<>> /\ inbox' = Tail(inbox) /\ queue' = Sent(e)
        /\ UNCHANGED <<dialled, link, pumping, watching, obj, blocked, fired, got>>
    BY DEF ReadDatagram
  <1>2. /\ m \in 1 .. arrived /\ m = inbox[1] /\ 1 \in DOMAIN inbox
        /\ \A j \in DOMAIN inbox' : j + 1 \in DOMAIN inbox /\ inbox'[j] = inbox[j + 1] /\ j \in Nat \ {0}
    BY <1>f, <1>1, TailFacts
  <1>e. e \in Events /\ e.kind = "Datagram" /\ e.n = m
    BY <1>f, <1>2 DEF Event, Events, Kinds
  <1> HIDE DEF m, e
  <1>3. \A j \in DOMAIN inbox' : m < inbox'[j]
    BY <1>f, <1>2 DEF InOrder, Rises
  <1>4. Rises(inbox')
    <2> SUFFICES ASSUME NEW i \in DOMAIN inbox', NEW j \in DOMAIN inbox', i < j
                 PROVE  inbox'[i] < inbox'[j]
      BY DEF Rises
    <2>1. i + 1 < j + 1
      BY <1>2
    <2> QED
      BY <1>f, <1>2, <2>1 DEF InOrder, Rises
  <1>5. ASSUME NEW p, Ahead(p, inbox)
        PROVE  Ahead(p, inbox') /\ \A i \in DOMAIN p : p[i] < m
    BY <1>2, <1>5 DEF Ahead
  <1>6. CASE ~obj.events
    <2>1. queue' = queue /\ queue = <<>>
      BY <1>f, <1>1, <1>6 DEF Sent, Channel
    <2>2. Story(obj, queue, 0)' /\ Channel'
      BY <1>f, <1>1, <2>1, StoryNext DEF Channel, Numbered, All
    <2>r. Rest(queue, 0)' = {}
      BY <2>1 DEF Rest
    <2>3. InOrder(obj, queue, 0)'
      <3>1. /\ Rises(got)' /\ Rises(obj.datagrams)' /\ Rises(inbox)' /\ Ahead(got, obj.datagrams)'
            /\ Ahead(got, inbox)' /\ Ahead(obj.datagrams, inbox)'
        BY <1>f, <1>1, <1>4, <1>5 DEF InOrder, Rises, Ahead
      <3>2. Between(got, queue, 0, inbox)' /\ Between(obj.datagrams, queue, 0, inbox)'
        BY <2>r DEF Between
      <3> QED
        BY <3>1, <3>2 DEF InOrder
    <2> QED
      BY <2>2, <2>3 DEF Kept
  <1>7. CASE obj.events
    <2>1. queue' = Append(queue, e)
      BY <1>1, <1>7 DEF Sent
    <2>2. Story(obj, queue, 0)'
      BY <1>f, <1>1, <1>7, <2>1, <1>e, SentTells, StoryNext
    <2>3. Numbered(queue')
      BY <1>f, <2>1, <1>e, <1>2, SentNumbered
    <2>4. /\ DOMAIN queue = 1 .. Len(queue) /\ DOMAIN queue' = 1 .. Len(queue) + 1
          /\ Rest(queue', 0) = 1 .. Len(queue) + 1 /\ Len(queue) \in Nat
          /\ \A i \in 1 .. Len(queue) : queue'[i] = queue[i]
          /\ queue'[Len(queue) + 1] = e
      BY <1>f, <2>1, <1>e, SentFacts
    <2>5. \A i \in DOMAIN queue' : queue'[i].kind = "Closed" => i \in DOMAIN queue /\ queue'[i] = queue[i]
      BY <2>4, <1>e
    <2>6. Channel'
      BY <1>f, <1>1, <1>7, <2>3, <2>5 DEF Channel, Numbered, All
    <2>7. \A i \in Rest(queue', 0) :
            (i \in Rest(queue, 0) /\ queue'[i] = queue[i] /\ i < Len(queue) + 1) \/ (i = Len(queue) + 1 /\ queue'[i] = e)
      BY <1>f, <2>4
    <2>8. \A i \in Rest(queue, 0) : queue[i].n < m
      BY <1>f, <1>2 DEF InOrder, Between
    <2>9. ASSUME NEW p, Ahead(p, inbox), Between(p, queue, 0, inbox)
          PROVE  Between(p, queue', 0, inbox')
      <3>1. ASSUME NEW i \in Rest(queue', 0), NEW j \in Rest(queue', 0),
                   i < j, queue'[i].n > 0, queue'[j].n > 0
            PROVE  queue'[i].n < queue'[j].n
        <4>1. i \in Rest(queue, 0) /\ queue'[i] = queue[i]
          BY <2>4, <2>7, <3>1
        <4> QED
          BY <1>e, <2>7, <2>8, <2>9, <3>1, <4>1 DEF Between
      <3>2. ASSUME NEW i \in DOMAIN p, NEW j \in Rest(queue', 0), queue'[j].n > 0
            PROVE  p[i] < queue'[j].n
        BY <1>5, <1>e, <2>7, <2>9, <3>2 DEF Between
      <3>3. ASSUME NEW i \in Rest(queue', 0), NEW j \in DOMAIN inbox'
            PROVE  queue'[i].n < inbox'[j]
        BY <1>2, <1>3, <1>e, <2>7, <2>9, <3>3 DEF Between
      <3> QED
        BY <3>1, <3>2, <3>3 DEF Between
    <2>10. InOrder(obj, queue, 0)'
      <3>1. /\ Rises(got) /\ Rises(obj.datagrams) /\ Rises(inbox') /\ Ahead(got, obj.datagrams)
            /\ Ahead(got, inbox') /\ Ahead(obj.datagrams, inbox')
        BY <1>f, <1>4, <1>5 DEF InOrder
      <3>2. Between(got, queue', 0, inbox') /\ Between(obj.datagrams, queue', 0, inbox')
        BY <1>f, <2>9 DEF InOrder
      <3> QED
        BY <1>1, <3>1, <3>2 DEF InOrder, Rises, Ahead, Between, Rest
    <2> QED
      BY <2>2, <2>6, <2>10 DEF Kept
  <1> QED
    BY <1>6, <1>7

-----------------------------------------------------------------------------
\* The steps of the object.

\* What was told and the fields of the object decide the story.
LEMMA StorySame ==
    ASSUME UNCHANGED <<dialled, pumping, queue>>, Told(obj)' = Told(obj),
           obj'.events = obj.events, obj'.connection = obj.connection, Story(obj, queue, 0)
    PROVE  Story(obj, queue, 0)'
  BY DEF Story, EventsInTurn, NothingPumped, OpenWhilePumped, ToldInTurn, Rest

\* An object that let go of its channel expects nothing more from it.
LEMMA LetGo ==
    ASSUME NEW o, NEW q, NEW k, ~o.events, Story(o, q, k), InOrder(o, q, k)
    PROVE  Story(o, <<>>, 0) /\ InOrder(o, <<>>, 0)
  <1>1. Rest(<<>>, 0) = {} /\ ~(0 < Len(<<>>))
    BY DEF Rest
  <1>2. Story(o, <<>>, 0)
    BY <1>1 DEF Story, EventsInTurn, NothingPumped, OpenWhilePumped
  <1>3. InOrder(o, <<>>, 0)
    BY <1>1 DEF InOrder, Between
  <1> QED
    BY <1>2, <1>3

\* A drain.
LEMMA DrainStep == CInv /\ Drain => Kept'
  <1> SUFFICES ASSUME CInv, Drain PROVE Kept'
    OBVIOUS
  <1>f. /\ obj \in Objects /\ queue \in Seq(Events) /\ arrived \in Nat
        /\ inbox \in Seq(1 .. arrived) /\ got \in Seq(1 .. arrived) /\ Numbered(queue)
        /\ fired \in Seq(Signals) /\ Len(queue) \in Nat
        /\ Channel /\ Story(obj, queue, 0) /\ InOrder(obj, queue, 0)
    BY Facts
  <1>1. /\ ~blocked /\ queue # <<>> /\ obj' = HandleAll(obj, queue) /\ queue' = <<>>
        /\ UNCHANGED <<dialled, link, inbox, pumping, watching, blocked, fired, got>>
    BY DEF Drain, netVars
  <1>2. Story(obj', queue, Len(queue)) /\ InOrder(obj', queue, Len(queue))
    BY <1>f, <1>1, DrainKeeps
  <1>3. Story(obj', queue', 0) /\ InOrder(obj', queue', 0) /\ DOMAIN queue' = {}
    BY <1>f, <1>1, <1>2, NothingLeft
  <1>4. Story(obj, queue, 0)' /\ InOrder(obj, queue, 0)'
    BY <1>1, <1>3, StoryNext, OrderNext
  <1>5. Channel'
    BY <1>f, <1>1, <1>3 DEF Channel, Numbered
  <1> QED
    BY <1>4, <1>5 DEF Kept

\* Moving the head of the second sequence to the end of the first leaves their
\* concatenation as it is.
LEMMA HeadMoves ==
    ASSUME NEW S, NEW p \in Seq(S), NEW q \in Seq(S), q # <<>>
    PROVE  Append(p, Head(q)) \o Tail(q) = p \o q
  <1>1. Head(q) \in S /\ Tail(q) \in Seq(S) /\ <<Head(q)>> \in Seq(S) /\ q = <<Head(q)>> \o Tail(q)
    BY HeadTailProperties
  <1>2. Append(p, Head(q)) = p \o <<Head(q)>>
    BY <1>1, AppendIsConcat
  <1> QED
    BY <1>1, <1>2, ConcatAssociative

\* A signal moves from the deferred ones to the emitted ones.
LEMMA EmitKeeps == CInv /\ Emit => Kept'
  <1> SUFFICES ASSUME CInv, Emit PROVE Kept'
    OBVIOUS
  <1>f. /\ obj \in Objects /\ obj.deferred \in Seq(Signals) /\ fired \in Seq(Signals)
        /\ Channel /\ Story(obj, queue, 0) /\ InOrder(obj, queue, 0)
    BY Facts
  <1> DEFINE d == obj.deferred
  <1>1. /\ d # <<>> /\ fired' = Append(fired, Head(d)) /\ obj' = [obj EXCEPT !.deferred = Tail(d)]
        /\ UNCHANGED <<dialled, link, inbox, pumping, watching, queue, blocked, got>>
    BY DEF Emit, netVars
  <1>2. /\ obj'.events = obj.events /\ obj'.connection = obj.connection
        /\ obj'.datagrams = obj.datagrams /\ obj'.deferred = Tail(d)
    BY <1>f, <1>1 DEF Objects
  <1> HIDE DEF d
  <1>3. Append(fired, Head(d)) \o Tail(d) = fired \o d
    BY <1>f, <1>1, HeadMoves DEF d
  <1>4. Told(obj)' = Told(obj) /\ All' = All
    BY <1>1, <1>2, <1>3 DEF Told, All, d
  <1>5. Story(obj, queue, 0)'
    BY <1>f, <1>1, <1>2, <1>4, StorySame
  <1>6. InOrder(obj, queue, 0)'
    BY <1>f, <1>1, <1>2 DEF InOrder, Rises, Ahead, Between, Rest
  <1>7. Channel'
    BY <1>f, <1>1, <1>2, <1>4 DEF Channel, Numbered
  <1> QED
    BY <1>5, <1>6, <1>7 DEF Kept

\* The first datagram handed over is returned.
LEMMA GetDatagramKeeps == CInv /\ GetDatagram => Kept'
  <1> SUFFICES ASSUME CInv, GetDatagram PROVE Kept'
    OBVIOUS
  <1>f. /\ obj \in Objects /\ arrived \in Nat /\ got \in Seq(1 .. arrived)
        /\ obj.datagrams \in Seq(1 .. arrived)
        /\ Channel /\ Story(obj, queue, 0) /\ InOrder(obj, queue, 0)
    BY Facts
  <1> DEFINE d == obj.datagrams
             m == Head(d)
  <1>1. /\ ~blocked
        /\ UNCHANGED <<dialled, link, inbox, pumping, watching, queue, fired>>
    BY DEF GetDatagram, netVars
  <1>2. CASE d = <<>>
    <2>1. obj.events /\ blocked' = TRUE /\ UNCHANGED <<got, obj>>
      BY <1>2 DEF GetDatagram
    <2> QED
      BY <1>f, <1>1, <1>2, <2>1, StoryNext, OrderNext DEF Kept, Channel, Numbered, All
  <1>3. CASE d # <<>>
    <2>1. got' = Append(got, m) /\ obj' = [obj EXCEPT !.datagrams = Tail(d)] /\ blocked' = blocked
      BY <1>3 DEF GetDatagram
    <2>2. /\ obj'.events = obj.events /\ obj'.connection = obj.connection
          /\ obj'.datagrams = Tail(d) /\ obj'.deferred = obj.deferred
      BY <1>f, <2>1 DEF Objects
    <2>3. Told(obj)' = Told(obj) /\ All' = All
      BY <1>1, <2>2 DEF Told, All
    <2>4. Story(obj, queue, 0)'
      BY <1>f, <1>1, <2>2, <2>3, StorySame
    <2>5. Channel'
      BY <1>f, <1>1, <2>1, <2>2, <2>3 DEF Channel, Numbered
    <2>6. /\ m \in 1 .. arrived /\ m = d[1] /\ 1 \in DOMAIN d
          /\ \A i \in DOMAIN Tail(d) : i + 1 \in DOMAIN d /\ Tail(d)[i] = d[i + 1] /\ i \in Nat \ {0}
      BY <1>f, <1>3, TailFacts
    <2> HIDE DEF d, m
    <2>7. \A i \in DOMAIN got : got[i] < m
      BY <1>f, <2>6 DEF InOrder, Ahead, d
    <2>8. Rises(got')
      <3>1. got \in Seq(Nat) /\ m \in Nat
        BY <1>f, <2>6, Widened
      <3> QED
        BY <1>f, <2>1, <2>7, <3>1, RisesMore DEF InOrder
    <2>9. \A i \in DOMAIN got' : (i \in DOMAIN got /\ got'[i] = got[i]) \/ got'[i] = m
      BY <1>f, <2>1, <2>6, AppendFacts
    <2>10. Rises(Tail(d))
      <3> SUFFICES ASSUME NEW i \in DOMAIN Tail(d), NEW j \in DOMAIN Tail(d), i < j
                   PROVE  Tail(d)[i] < Tail(d)[j]
        BY DEF Rises
      <3>1. i + 1 < j + 1
        BY <2>6
      <3> QED
        BY <1>f, <2>6, <3>1 DEF InOrder, Rises, d
    <2>11. Ahead(got', Tail(d))
      <3> SUFFICES ASSUME NEW i \in DOMAIN got', NEW j \in DOMAIN Tail(d)
                   PROVE  got'[i] < Tail(d)[j]
        BY DEF Ahead
      <3>1. m < Tail(d)[j]
        BY <1>f, <2>6 DEF InOrder, Rises, d
      <3>2. \A x \in DOMAIN got : got[x] < Tail(d)[j]
        BY <1>f, <2>6 DEF InOrder, Ahead, d
      <3> QED
        BY <2>9, <3>1, <3>2
    <2>12. Ahead(got', inbox) /\ Ahead(Tail(d), inbox)
      BY <1>f, <2>6, <2>9 DEF InOrder, Ahead, d
    <2>13. Between(got', queue, 0, inbox) /\ Between(Tail(d), queue, 0, inbox)
      BY <1>f, <2>6, <2>9 DEF InOrder, Between, d
    <2>14. InOrder(obj, queue, 0)'
      <3>1. Rises(inbox)
        BY <1>f DEF InOrder
      <3> QED
        BY <1>1, <2>2, <2>8, <2>10, <2>11, <2>12, <2>13, <3>1 DEF InOrder, Rises, Ahead, Between, Rest
    <2> QED
      BY <2>4, <2>5, <2>14 DEF Kept
  <1> QED
    BY <1>2, <1>3

\* A waiting get_datagram takes an event.
LEMMA ReceiveKeeps == CInv /\ Receive => Kept'
  <1> SUFFICES ASSUME CInv, Receive PROVE Kept'
    OBVIOUS
  <1>f. /\ obj \in Objects /\ queue \in Seq(Events) /\ arrived \in Nat
        /\ inbox \in Seq(1 .. arrived) /\ got \in Seq(1 .. arrived) /\ Numbered(queue)
        /\ fired \in Seq(Signals)
        /\ Channel /\ Story(obj, queue, 0) /\ InOrder(obj, queue, 0)
    BY Facts
  <1> DEFINE e == Head(queue)
             t == Tail(queue)
             n == Len(queue)
  <1>1. /\ blocked /\ queue # <<>>
        /\ UNCHANGED <<dialled, link, inbox, pumping, watching, fired>>
    BY DEF Receive, netVars
  <1>2. /\ e = queue[1] /\ e \in Events /\ t \in Seq(Events) /\ n \in Nat \ {0}
        /\ DOMAIN queue = 1 .. n /\ DOMAIN t = 1 .. n - 1 /\ Len(t) = n - 1
        /\ \A i \in 1 .. n - 1 : t[i] = queue[i + 1]
    BY <1>f, <1>1, TailFacts
  <1>3. /\ e.n > 0 <=> e.kind = "Datagram"
        /\ link # "dialling" /\ obj.datagrams = <<>> /\ obj.events
        /\ Rest(queue, 0) = 1 .. n /\ Rest(queue, 1) = 2 .. n /\ Rest(t, 0) = 1 .. n - 1
    BY <1>f, <1>1, <1>2 DEF Channel, Numbered, Rest
  <1>4. Numbered(t) /\ \A i \in DOMAIN t : i + 1 \in DOMAIN queue /\ t[i] = queue[i + 1]
    BY <1>f, <1>2 DEF Numbered
  <1> HIDE DEF e, t, n
  <1>5. CASE e.kind = "Datagram"
    <2>1. /\ got' = Append(got, e.n) /\ blocked' = FALSE /\ queue' = t /\ obj' = obj
      BY <1>5 DEF Receive, e, t
    <2>2. pumping /\ (~dialled \/ Told(obj) # <<>>)
      BY <1>f, <1>2, <1>3, <1>5, SMTT(30) DEF Story, NothingPumped, EventsInTurn, n
    <2>3. Story(obj, queue, 1)
      <3>1. EventsInTurn(obj, queue, 1)
        <4>1. \A i \in Rest(queue, 1) : i \in Rest(queue, 0) /\ i # 1
          BY <1>2, <1>3
        <4> QED
          BY <1>f, <2>2, <4>1 DEF Story, EventsInTurn
      <3> QED
        BY <1>f, <2>2, <3>1 DEF Story, NothingPumped, OpenWhilePumped
    <2>4. InOrder(obj, queue, 1)
      <3>1. \A i \in Rest(queue, 1) : i \in Rest(queue, 0)
        BY <1>2, <1>3
      <3> QED
        BY <1>f, <3>1 DEF InOrder, Between
    <2>5. Story(obj, t, 0) /\ InOrder(obj, t, 0)
      BY <1>f, <1>1, <2>3, <2>4, RestIsTail DEF t
    <2>6. Story(obj, queue, 0)'
      BY <1>1, <2>1, <2>5, StoryNext
    <2>7. Channel'
      BY <1>f, <1>1, <1>3, <1>4, <2>1 DEF Channel, Numbered
    <2>8. /\ \A i \in DOMAIN got : got[i] < e.n
          /\ \A j \in DOMAIN inbox : e.n < inbox[j]
          /\ \A j \in Rest(t, 0) : t[j].n > 0 => e.n < t[j].n
      <3>1. 1 \in Rest(queue, 0) /\ \A j \in Rest(t, 0) : j + 1 \in Rest(queue, 0) /\ t[j] = queue[j + 1] /\ 1 < j + 1
        BY <1>2, <1>3
      <3> QED
        BY <1>f, <1>2, <1>3, <1>5, <3>1 DEF InOrder, Between
    <2>9. Rises(got')
      <3>1. got \in Seq(Nat) /\ e.n \in Nat
        BY <1>f, <1>2, Widened DEF Events
      <3> QED
        BY <1>f, <2>1, <2>8, <3>1, RisesMore DEF InOrder
    <2>10. \A i \in DOMAIN got' : (i \in DOMAIN got /\ got'[i] = got[i]) \/ got'[i] = e.n
      <3>1. e.n \in 1 .. arrived
        BY <1>f, <1>2, <1>3, <1>5 DEF Events
      <3> QED
        BY <1>f, <2>1, <3>1, AppendFacts
    <2>11. Ahead(got', obj.datagrams) /\ Ahead(got', inbox)
      <3>1. DOMAIN obj.datagrams = {}
        BY <1>3
      <3> QED
        BY <1>f, <2>8, <2>10, <3>1 DEF InOrder, Ahead
    <2>12. Between(got', t, 0, inbox)
      BY <2>5, <2>8, <2>10 DEF InOrder, Between
    <2>13. InOrder(obj, queue, 0)'
      <3>1. /\ Rises(obj.datagrams) /\ Rises(inbox) /\ Ahead(obj.datagrams, inbox)
            /\ Between(obj.datagrams, t, 0, inbox)
        BY <2>5 DEF InOrder
      <3> QED
        BY <1>1, <2>1, <2>9, <2>11, <2>12, <3>1 DEF InOrder, Rises, Ahead, Between, Rest
    <2> QED
      BY <2>6, <2>7, <2>13 DEF Kept
  <1>6. CASE e.kind # "Datagram"
    <2> DEFINE h == Handle(obj, queue[1])
    <2>1. /\ obj' = h /\ blocked' = h.events /\ queue' = IF h.events THEN t ELSE <<>>
          /\ got' = got
      BY <1>2, <1>6 DEF Receive, e, t
    <2>2. h \in Objects /\ h.datagrams = <<>>
      <3>1. queue[1] \in Events /\ (queue[1].n > 0 <=> queue[1].kind = "Datagram")
        BY <1>2, <1>3
      <3>2. PICK signal \in Signals :
              h \in Objects /\ h.datagrams = IF queue[1].n > 0 THEN Append(obj.datagrams, queue[1].n) ELSE obj.datagrams
        BY <1>f, <3>1, HandleFields
      <3> QED
        BY <1>2, <1>3, <1>6, <3>2
    <2>3. Story(h, queue, 1) /\ InOrder(h, queue, 1)
      <3>1. 0 \in 0 .. Len(queue) - 1 /\ 0 + 1 = 1
        BY <1>2 DEF n
      <3>2. Story(Handle(obj, queue[0 + 1]), queue, 0 + 1)
        BY <1>f, <3>1, HandleTells
      <3>3. InOrder(Handle(obj, queue[0 + 1]), queue, 0 + 1)
        BY <1>f, <3>1, HandleOrders
      <3> QED
        BY <3>1, <3>2, <3>3
    <2> HIDE DEF h
    <2>4. Story(h, queue', 0) /\ InOrder(h, queue', 0)
      <3>1. CASE h.events
        BY <1>f, <1>1, <2>1, <2>3, <3>1, RestIsTail DEF t
      <3>2. CASE ~h.events
        BY <2>1, <2>3, <3>2, LetGo
      <3> QED
        BY <3>1, <3>2
    <2>5. Story(obj, queue, 0)' /\ InOrder(obj, queue, 0)'
      BY <1>1, <2>1, <2>4, StoryNext, OrderNext
    <2>6. /\ \A i \in DOMAIN queue' : i + 1 \in DOMAIN queue /\ queue'[i] = queue[i + 1]
          /\ Numbered(queue') /\ (~h.events => queue' = <<>>)
      <3>1. CASE h.events
        BY <1>4, <2>1, <3>1
      <3>2. CASE ~h.events
        <4>1. queue' = <<>> /\ DOMAIN queue' = {}
          BY <2>1, <3>2
        <4> QED
          BY <4>1 DEF Numbered
      <3> QED
        BY <3>1, <3>2
    <2>7. Channel'
      BY <1>f, <1>1, <1>3, <2>1, <2>2, <2>6 DEF Channel, Numbered
    <2> QED
      BY <2>5, <2>7 DEF Kept
  <1> QED
    BY <1>5, <1>6

\* The script closes the connection.
LEMMA CloseKeeps == CInv /\ Close => Kept'
  <1> SUFFICES ASSUME CInv, Close PROVE Kept'
    OBVIOUS
  <1>f. /\ obj \in Objects /\ Channel /\ Story(obj, queue, 0) /\ InOrder(obj, queue, 0)
    BY Facts
  <1>1. /\ ~blocked /\ obj.events /\ queue' = <<>>
        /\ link' = link \/ link' = "down"
        /\ obj' = [obj EXCEPT !.connection = FALSE, !.events = FALSE]
        /\ UNCHANGED <<dialled, inbox, pumping, watching, blocked, fired, got>>
    BY DEF Close
  <1>2. /\ ~obj'.events /\ ~obj'.connection /\ obj'.datagrams = obj.datagrams
        /\ obj'.deferred = obj.deferred
    BY <1>f, <1>1 DEF Objects
  <1>3. Told(obj') = Told(obj) /\ All' = All
    BY <1>1, <1>2 DEF Told, All
  <1>4. Rest(<<>>, 0) = {} /\ ~(0 < Len(<<>>)) /\ DOMAIN <<>> = {}
    BY DEF Rest
  <1>5. Story(obj', <<>>, 0)
    <2>1. EventsInTurn(obj', <<>>, 0)
      BY <1>4 DEF EventsInTurn
    <2>2. NothingPumped(obj', <<>>, 0) /\ OpenWhilePumped(obj', <<>>, 0)
      BY <1>f, <1>2, <1>3, <1>4 DEF Story, NothingPumped, OpenWhilePumped
    <2>3. ToldInTurn(obj')
      BY <1>f, <1>1, <1>2, <1>3 DEF Story, ToldInTurn
    <2> QED
      BY <2>1, <2>2, <2>3 DEF Story
  <1>6. InOrder(obj', <<>>, 0)
    BY <1>f, <1>2, <1>4 DEF InOrder, Between
  <1>7. Story(obj, queue, 0)' /\ InOrder(obj, queue, 0)'
    BY <1>1, <1>5, <1>6, StoryNext, OrderNext
  <1>8. Channel'
    BY <1>f, <1>1, <1>2, <1>3, <1>4 DEF Channel, Numbered
  <1> QED
    BY <1>7, <1>8 DEF Kept

\* Every step keeps the invariant.
LEMMA ConnectionStep == CInv /\ [Next]_vars => CInv'
  <1> SUFFICES ASSUME CInv, [Next]_vars PROVE CInv'
    OBVIOUS
  <1>1. TypeOK'
    BY TypeStep
  <1>2. Kept'
    BY DialOpensKeeps, DialFailsKeeps, DatagramArrivesKeeps, LinkKeeps, AcceptStreamKeeps,
       ReadDatagramKeeps, WatchKeeps, DrainStep, EmitKeeps, GetDatagramKeeps, ReceiveKeeps,
       CloseKeeps DEF Next
  <1> QED
    BY <1>1, <1>2 DEF CInv, Kept

-----------------------------------------------------------------------------
\* The theorems.

\* The invariant holds in every state.
THEOREM ConnectionInvariant == Spec => []CInv
  <1>1. CInv /\ [Next]_vars => CInv'
    BY ConnectionStep
  <1> QED
    BY <1>1, ConnectionInit, PTL DEF Spec

\* The invariant says how a connection ends.
LEMMA EndsInTurn == CInv => EndsOnce
  <1> SUFFICES ASSUME CInv PROVE EndsOnce
    OBVIOUS
  <1>f. All = Told(obj) /\ Story(obj, queue, 0)
    BY Facts
  <1>t. All \in Seq(Signals)
    BY TypeFacts DEF CInv
  <1>1. DOMAIN All = 1 .. Len(All) /\ Len(All) \in Nat
    BY <1>t, LenProperties
  <1>2. ToldInTurn(obj)
    BY <1>f DEF Story
  <1>3. ~pumping => dialled /\ (All = <<>> \/ All = <<"failed">>)
    BY <1>f DEF Story, NothingPumped
  <1>4. ASSUME NEW i \in DOMAIN All, All[i] = "closed", dialled
        PROVE  \E j \in 1 .. i - 1 : All[j] = "opened"
    <2>1. pumping
      BY <1>1, <1>3, <1>4
    <2>2. All # <<>> /\ i \in Nat \ {0}
      BY <1>1, <1>4
    <2>3. All[1] = "opened"
      BY <1>f, <1>2, <1>4, <2>1, <2>2 DEF ToldInTurn
    <2>4. 1 \in 1 .. i - 1
      BY <1>4, <2>2, <2>3
    <2> QED
      BY <2>3, <2>4
  <1>5. ASSUME NEW i \in DOMAIN All, All[i] = "failed" PROVE dialled /\ Len(All) = 1
    <2>1. ~pumping
      BY <1>f, <1>2, <1>5 DEF ToldInTurn
    <2>2. All = <<"failed">>
      BY <1>1, <1>3, <2>1
    <2> QED
      BY <1>3, <2>1, <2>2
  <1>6. /\ \A i, j \in DOMAIN All :
             /\ All[i] \in Terminal /\ All[j] \in Terminal => i = j
             /\ All[i] = "opened" /\ All[j] = "opened" => i = j
        /\ \A i \in DOMAIN All : All[i] = "opened" => dialled
    BY <1>f, <1>2 DEF ToldInTurn
  <1> QED
    BY <1>4, <1>5, <1>6 DEF EndsOnce

\* Whoever finds out that a connection is over, the script hears of it once: as
\* the failure of a dial that never opened, or as the end of one that did.
THEOREM OneEndIsHeard == Spec => []EndsOnce
  BY ConnectionInvariant, EndsInTurn, PTL

\* Sequences of numbers in which those above 0 rise.
LEMMA RisingJoined ==
    ASSUME NEW p \in Seq(Nat), NEW r \in Seq(Nat),
           \A i, j \in DOMAIN p : i < j /\ p[i] > 0 /\ p[j] > 0 => p[i] < p[j],
           \A i, j \in DOMAIN r : i < j /\ r[i] > 0 /\ r[j] > 0 => r[i] < r[j],
           \A i \in DOMAIN p, j \in DOMAIN r : p[i] > 0 /\ r[j] > 0 => p[i] < r[j]
    PROVE  /\ p \o r \in Seq(Nat)
           /\ \A i, j \in DOMAIN (p \o r) :
                i < j /\ (p \o r)[i] > 0 /\ (p \o r)[j] > 0 => (p \o r)[i] < (p \o r)[j]
           /\ \A i \in DOMAIN (p \o r) :
                \/ \E x \in DOMAIN p : (p \o r)[i] = p[x]
                \/ \E x \in DOMAIN r : (p \o r)[i] = r[x]
  <1> DEFINE a == p \o r
             n == Len(p)
  <1>1. /\ n \in Nat /\ Len(r) \in Nat /\ a \in Seq(Nat) /\ DOMAIN a = 1 .. n + Len(r)
        /\ DOMAIN p = 1 .. n /\ DOMAIN r = 1 .. Len(r)
        /\ \A i \in 1 .. n + Len(r) : a[i] = IF i <= n THEN p[i] ELSE r[i - n]
    BY ConcatProperties, LenProperties
  <1> HIDE DEF a, n
  <1>2. ASSUME NEW i \in DOMAIN a
        PROVE  \/ i \in DOMAIN p /\ a[i] = p[i] /\ i <= n
               \/ i - n \in DOMAIN r /\ a[i] = r[i - n] /\ n < i
    BY <1>1
  <1>3. ASSUME NEW i \in DOMAIN a, NEW j \in DOMAIN a, i < j, a[i] > 0, a[j] > 0
        PROVE  a[i] < a[j]
    <2>1. i \in Nat /\ j \in Nat
      BY <1>1
    <2>2. CASE i \in DOMAIN p /\ a[i] = p[i] /\ i <= n
      BY <1>2, <1>3, <2>2
    <2>3. CASE i - n \in DOMAIN r /\ a[i] = r[i - n] /\ n < i
      <3>1. j - n \in DOMAIN r /\ a[j] = r[j - n] /\ i - n < j - n
        BY <1>1, <1>2, <1>3, <2>1, <2>3, SMTT(30)
      <3> QED
        BY <1>3, <2>3, <3>1
    <2> QED
      BY <1>2, <2>2, <2>3
  <1>4. \A i \in DOMAIN a : (\E x \in DOMAIN p : a[i] = p[x]) \/ (\E x \in DOMAIN r : a[i] = r[x])
    BY <1>2
  <1> QED
    BY <1>1, <1>3, <1>4 DEF a

\* From place to place is from the first arrived to the last.
LEMMA OrderedThroughout == CInv => DatagramsInOrder
  <1> SUFFICES ASSUME CInv PROVE DatagramsInOrder
    OBVIOUS
  <1>f. /\ queue \in Seq(Events) /\ arrived \in Nat
        /\ inbox \in Seq(1 .. arrived) /\ got \in Seq(1 .. arrived)
        /\ obj.datagrams \in Seq(1 .. arrived)
        /\ InOrder(obj, queue, 0)
        /\ DOMAIN queue = 1 .. Len(queue) /\ Len(queue) \in Nat
        /\ Rest(queue, 0) = 1 .. Len(queue)
    BY Facts
  <1> DEFINE d == obj.datagrams
             b == [i \in DOMAIN queue |-> queue[i].n]
  <1>1. got \in Seq(Nat) /\ d \in Seq(Nat) /\ inbox \in Seq(Nat)
    BY <1>f, Widened
  <1>2. b \in Seq(Nat) /\ DOMAIN b = Rest(queue, 0) /\ \A i \in DOMAIN b : b[i] = queue[i].n
    <2>1. ASSUME NEW i \in 1 .. Len(queue) PROVE queue[i].n \in Nat
      <3>1. queue[i] \in Events
        BY <1>f, EmptyFacts
      <3> QED
        BY <1>f, <3>1 DEF Events
    <2> QED
      BY <1>f, <2>1
  <1>3. /\ Rises(got) /\ Rises(d) /\ Rises(inbox)
        /\ Ahead(got, d) /\ Ahead(got, inbox) /\ Ahead(d, inbox)
    BY <1>f DEF InOrder
  <1>4. /\ \A i, j \in DOMAIN b : i < j /\ b[i] > 0 /\ b[j] > 0 => b[i] < b[j]
        /\ \A i \in DOMAIN got, j \in DOMAIN b : b[j] > 0 => got[i] < b[j]
        /\ \A i \in DOMAIN d, j \in DOMAIN b : b[j] > 0 => d[i] < b[j]
        /\ \A i \in DOMAIN b, j \in DOMAIN inbox : b[i] < inbox[j]
    BY <1>f, <1>2 DEF InOrder, Between
  <1> HIDE DEF d, b
  <1> DEFINE gd == got \o d
             gdb == gd \o b
             all == gdb \o inbox
  <1>5. /\ gd \in Seq(Nat)
        /\ \A i, j \in DOMAIN gd : i < j /\ gd[i] > 0 /\ gd[j] > 0 => gd[i] < gd[j]
        /\ \A i \in DOMAIN gd :
             (\E x \in DOMAIN got : gd[i] = got[x]) \/ (\E x \in DOMAIN d : gd[i] = d[x])
    BY <1>1, <1>3, RisingJoined DEF Rises, Ahead
  <1> HIDE DEF gd
  <1>6. /\ gdb \in Seq(Nat)
        /\ \A i, j \in DOMAIN gdb : i < j /\ gdb[i] > 0 /\ gdb[j] > 0 => gdb[i] < gdb[j]
        /\ \A i \in DOMAIN gdb :
             (\E x \in DOMAIN gd : gdb[i] = gd[x]) \/ (\E x \in DOMAIN b : gdb[i] = b[x])
    <2>1. \A i \in DOMAIN gd, j \in DOMAIN b : gd[i] > 0 /\ b[j] > 0 => gd[i] < b[j]
      BY <1>4, <1>5
    <2> QED
      BY <1>2, <1>4, <1>5, <2>1, RisingJoined
  <1> HIDE DEF gdb
  <1>7. \A i, j \in DOMAIN all : i < j /\ all[i] > 0 /\ all[j] > 0 => all[i] < all[j]
    <2>1. \A i \in DOMAIN gdb, j \in DOMAIN inbox : gdb[i] > 0 /\ inbox[j] > 0 => gdb[i] < inbox[j]
      <3> SUFFICES ASSUME NEW i \in DOMAIN gdb, NEW j \in DOMAIN inbox PROVE gdb[i] < inbox[j]
        OBVIOUS
      <3>1. \A x \in DOMAIN gd : gd[x] < inbox[j]
        BY <1>3, <1>5 DEF Ahead
      <3> QED
        BY <1>4, <1>6, <3>1
    <2> QED
      BY <1>1, <1>3, <1>6, <2>1, RisingJoined DEF Rises
  <1> QED
    BY <1>7 DEF DatagramsInOrder, gdb, gd, b, d

\* However waits, counts and frames are mixed, no datagram is returned twice or
\* after a later one.
THEOREM DatagramsKeepOrder == Spec => []DatagramsInOrder
  BY ConnectionInvariant, OrderedThroughout, PTL
=============================================================================
