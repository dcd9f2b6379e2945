--------------------------- MODULE TransfersProofs ---------------------------
(***************************************************************************)
(* Proofs about Transfers, for any number of operations and blobs: what a  *)
(* signal says of the store is true, and every operation is a handle as    *)
(* Reports describes it.                                                    *)
(***************************************************************************)
EXTENDS Transfers, SequenceTheorems, TLAPS

-----------------------------------------------------------------------------
\* The inductive invariant.

\* An operation that was not started has told nothing; one whose receiver is
\* not held has nothing in its channel; and a blob that is being tagged is whole.
Lives(o) ==
    /\ handle[o] = "none" <=> task[o] = "none"
    /\ handle[o] = "none" => events[o] = <<>> /\ deferred[o] = <<>> /\ ended[o] = "no"
    /\ handle[o] # "none" => job[o] \in Jobs
    /\ handle[o] # "held" => events[o] = <<>>
    /\ task[o] = "keeping" => job[o].tag # NONE /\ blobs[job[o].hash] = "complete"

\* An end is the last event of its task, the last signal of its object, and what
\* the script hears last.
EndsInTurn(o) ==
    /\ \A i \in DOMAIN events[o] :
         events[o][i] \in Ends => i = Len(events[o]) /\ task[o] = "ended"
    /\ \A i \in DOMAIN deferred[o] :
         deferred[o][i] \in Ends => i = Len(deferred[o]) /\ handle[o] \in {"gone", "freed"}
    /\ ended[o] # "no" => deferred[o] = <<>> /\ handle[o] \in {"gone", "freed"}

\* The name stands for the blob, or was taken from it.
Given(name, blob) == blob \in {tags[name]} \cup taken[name]

\* What SignalsTellTheTruth says of one operation.
Truth(o) ==
    /\ Completed(o) /\ job[o].kind \in Moves =>
         /\ blobs[job[o].hash] = "complete"
         /\ job[o].tag # NONE => Given(job[o].tag, job[o].hash)
    /\ \A portion \in Portions :
         Status(portion) \in OnItsWay(o) =>
             Rank[portion] <= Rank[blobs[job[o].hash]]

TInv == TypeOK /\ \A o \in Ops : Lives(o) /\ EndsInTurn(o) /\ Truth(o)

-----------------------------------------------------------------------------
\* Events and sequences of them.

\* The events tell themselves apart.
LEMMA EventFacts ==
    /\ PROGRESS \in Events /\ DONE \in Events /\ FAILED \in Events
    /\ DONE \in Ends /\ FAILED \in Ends /\ PROGRESS \notin Ends
    /\ PROGRESS[1] = "progress" /\ DONE[1] = "completed" /\ FAILED[1] = "failed"
    /\ \A portion \in Portions : Status(portion) \in Ends /\ Status(portion)[1] = "completed"
    /\ \A portion \in Portions : Status(portion) # DONE /\ Status(portion) # FAILED /\ Status(portion) # PROGRESS
    /\ \A p, q \in Portions : Status(p) = Status(q) => p = q
    /\ \A e \in Ends : e[1] \in {"completed", "failed"} /\ e \in Events
  <1> USE DEF PROGRESS, DONE, FAILED, Status, Ends, Events
  <1>1. \A portion \in Portions : Len(<<"completed", portion>>) = 2 /\ <<"completed", portion>>[1] = "completed"
                                  /\ <<"completed", portion>>[2] = portion
    OBVIOUS
  <1>2. Len(<<"completed">>) = 1 /\ Len(<<"failed">>) = 1 /\ Len(<<"progress">>) = 1
    OBVIOUS
  <1>3. <<"completed">>[1] = "completed" /\ <<"failed">>[1] = "failed" /\ <<"progress">>[1] = "progress"
    OBVIOUS
  <1>4. \A portion \in Portions : Status(portion) # DONE /\ Status(portion) # FAILED /\ Status(portion) # PROGRESS
    BY <1>1, <1>2
  <1>5. PROGRESS \notin Ends
    BY <1>3, <1>4
  <1>6. \A p, q \in Portions : Status(p) = Status(q) => p = q
    BY <1>1
  <1>7. \A e \in Ends : e[1] \in {"completed", "failed"} /\ e \in Events
    BY <1>1, <1>3
  <1> QED
    BY <1>1, <1>3, <1>4, <1>5, <1>6, <1>7

\* The elements of a sequence that grew by one.
LEMMA AppendElements ==
    ASSUME NEW S, NEW q \in Seq(S), NEW e \in S
    PROVE  /\ Append(q, e) \in Seq(S) /\ ToSet(Append(q, e)) = ToSet(q) \cup {e}
           /\ Len(q) \in Nat /\ DOMAIN q = 1 .. Len(q) /\ Len(Append(q, e)) = Len(q) + 1
           /\ DOMAIN Append(q, e) = 1 .. Len(q) + 1
           /\ \A i \in 1 .. Len(q) : Append(q, e)[i] = q[i]
           /\ Append(q, e)[Len(q) + 1] = e
  <1>1. /\ Append(q, e) \in Seq(S)
        /\ Len(q) \in Nat /\ DOMAIN q = 1 .. Len(q) /\ Len(Append(q, e)) = Len(q) + 1
        /\ DOMAIN Append(q, e) = 1 .. Len(q) + 1
        /\ \A i \in 1 .. Len(q) : Append(q, e)[i] = q[i]
        /\ Append(q, e)[Len(q) + 1] = e
    OBVIOUS
  <1> DEFINE a == Append(q, e)
  <1> HIDE DEF a
  <1>2. ToSet(a) \subseteq ToSet(q) \cup {e}
    BY <1>1 DEF ToSet, a
  <1>3. ToSet(q) \subseteq ToSet(a)
    <2> SUFFICES ASSUME NEW i \in DOMAIN q PROVE q[i] \in ToSet(a)
      BY DEF ToSet
    <2>1. i \in DOMAIN a /\ a[i] = q[i]
      BY <1>1 DEF a
    <2> QED
      BY <2>1 DEF ToSet
  <1>4. e \in ToSet(a)
    <2>1. Len(q) + 1 \in DOMAIN a /\ a[Len(q) + 1] = e
      BY <1>1 DEF a
    <2> QED
      BY <2>1 DEF ToSet
  <1> QED
    BY <1>1, <1>2, <1>3, <1>4 DEF a

\* The elements of two sequences one behind the other.
LEMMA ConcatElements ==
    ASSUME NEW S, NEW p \in Seq(S), NEW q \in Seq(S)
    PROVE  /\ p \o q \in Seq(S) /\ ToSet(p \o q) = ToSet(p) \cup ToSet(q)
           /\ Len(p) \in Nat /\ Len(q) \in Nat /\ Len(p \o q) = Len(p) + Len(q)
           /\ DOMAIN p = 1 .. Len(p) /\ DOMAIN q = 1 .. Len(q)
           /\ DOMAIN (p \o q) = 1 .. Len(p) + Len(q)
           /\ \A i \in 1 .. Len(p) + Len(q) :
                (p \o q)[i] = IF i <= Len(p) THEN p[i] ELSE q[i - Len(p)]
  <1> DEFINE a == p \o q
             n == Len(p)
  <1>1. /\ a \in Seq(S)
        /\ n \in Nat /\ Len(q) \in Nat /\ Len(a) = n + Len(q)
        /\ DOMAIN p = 1 .. n /\ DOMAIN q = 1 .. Len(q) /\ DOMAIN a = 1 .. n + Len(q)
        /\ \A i \in 1 .. n + Len(q) : a[i] = IF i <= n THEN p[i] ELSE q[i - n]
    BY ConcatProperties, LenProperties
  <1> HIDE DEF a, n
  <1>2. ToSet(a) \subseteq ToSet(p) \cup ToSet(q)
    <2> SUFFICES ASSUME NEW i \in DOMAIN a PROVE a[i] \in ToSet(p) \cup ToSet(q)
      BY DEF ToSet
    <2>1. CASE i <= n
      BY <1>1, <2>1 DEF ToSet
    <2>2. CASE ~(i <= n)
      <3>1. i - n \in DOMAIN q /\ a[i] = q[i - n]
        BY <1>1, <2>2
      <3> QED
        BY <3>1 DEF ToSet
    <2> QED
      BY <2>1, <2>2
  <1>3. ToSet(p) \subseteq ToSet(a)
    <2> SUFFICES ASSUME NEW i \in DOMAIN p PROVE p[i] \in ToSet(a)
      BY DEF ToSet
    <2>1. i \in DOMAIN a /\ a[i] = p[i]
      BY <1>1
    <2> QED
      BY <2>1 DEF ToSet
  <1>4. ToSet(q) \subseteq ToSet(a)
    <2> SUFFICES ASSUME NEW i \in DOMAIN q PROVE q[i] \in ToSet(a)
      BY DEF ToSet
    <2>1. i + n \in DOMAIN a /\ a[i + n] = q[i]
      BY <1>1
    <2> QED
      BY <2>1 DEF ToSet
  <1> QED
    BY <1>1, <1>2, <1>3, <1>4 DEF a, n

\* The elements of a sequence without its head.
LEMMA TailElements ==
    ASSUME NEW S, NEW q \in Seq(S), q # <<>>
    PROVE  /\ Tail(q) \in Seq(S) /\ Head(q) \in S /\ ToSet(Tail(q)) \subseteq ToSet(q)
           /\ Head(q) \in ToSet(q) /\ Head(q) = q[1]
           /\ Len(q) \in Nat \ {0} /\ DOMAIN q = 1 .. Len(q) /\ Len(Tail(q)) = Len(q) - 1
           /\ DOMAIN Tail(q) = 1 .. Len(q) - 1
           /\ \A i \in 1 .. Len(q) - 1 : Tail(q)[i] = q[i + 1]
  <1> DEFINE t == Tail(q)
  <1>1. /\ t \in Seq(S) /\ Head(q) \in S /\ Head(q) = q[1]
        /\ Len(q) \in Nat \ {0} /\ DOMAIN q = 1 .. Len(q) /\ Len(t) = Len(q) - 1
        /\ DOMAIN t = 1 .. Len(q) - 1
        /\ \A i \in 1 .. Len(q) - 1 : t[i] = q[i + 1]
    OBVIOUS
  <1> HIDE DEF t
  <1>2. ToSet(t) \subseteq ToSet(q)
    <2> SUFFICES ASSUME NEW i \in DOMAIN t PROVE t[i] \in ToSet(q)
      BY DEF ToSet
    <2>1. i + 1 \in DOMAIN q /\ t[i] = q[i + 1]
      BY <1>1
    <2> QED
      BY <2>1 DEF ToSet
  <1>3. Head(q) \in ToSet(q)
    BY <1>1 DEF ToSet
  <1> QED
    BY <1>1, <1>2, <1>3 DEF t

\* An empty sequence has no elements.
LEMMA NoElements == DOMAIN <<>> = {} /\ ToSet(<<>>) = {} /\ \A S : <<>> \in Seq(S)
  BY DEF ToSet

-----------------------------------------------------------------------------
\* Types.

\* Only somebody who waits for the store is opening it.
OpenerWaits == opener # NONE => Needs(opener) /\ cell = "empty"

\* A name that is set stands for its blob, and for no blob it was given to is it
\* forgotten that it was.
LEMMA SetTagFacts ==
    ASSUME TypeOK, NEW name \in Names, NEW blob \in Hashes \cup {NONE}, SetTag(name, blob)
    PROVE  /\ tags' \in [Names -> Hashes \cup {NONE}] /\ taken' \in [Names -> SUBSET Hashes]
           /\ tags'[name] = blob
           /\ \A n \in Names, h \in Hashes : Given(n, h) => Given(n, h)'
  <1>1. (taken[name] \cup {tags[name]}) \ {NONE, blob} \in SUBSET Hashes
    BY DEF TypeOK
  <1>2. /\ tags' \in [Names -> Hashes \cup {NONE}] /\ taken' \in [Names -> SUBSET Hashes]
        /\ tags'[name] = blob /\ taken'[name] = (taken[name] \cup {tags[name]}) \ {NONE, blob}
        /\ \A n \in Names \ {name} : tags'[n] = tags[n] /\ taken'[n] = taken[n]
    BY <1>1 DEF SetTag, TypeOK
  <1>3. ASSUME NEW n \in Names, NEW h \in Hashes, Given(n, h) PROVE Given(n, h)'
    <2>1. h # NONE
      BY NoneIsNothing
    <2> QED
      BY <1>2, <1>3, <2>1 DEF Given
  <1> QED
    BY <1>2, <1>3

\* An event that is sent is one.
LEMMA SentTypes ==
    ASSUME events \in [Ops -> Seq(Events)], NEW o \in Ops, NEW e \in Events, Sent(o, e)
    PROVE  /\ events' \in [Ops -> Seq(Events)]
           /\ events'[o] = IF handle[o] = "held" THEN Append(events[o], e) ELSE events[o]
           /\ \A p \in Ops \ {o} : events'[p] = events[p]
  <1>1. Append(events[o], e) \in Seq(Events)
    BY AppendElements
  <1> QED
    BY <1>1 DEF Sent

LEMMA FinishTypes ==
    ASSUME TypeOK, NEW o \in Ops, NEW e \in Events, FinishWith(o, e)
    PROVE  /\ task' \in [Ops -> Waiting \cup {"none", "ended", "cut"}]
           /\ events' \in [Ops -> Seq(Events)] /\ task'[o] = "ended"
           /\ \A p \in Ops \ {o} : task'[p] = task[p]
  BY SentTypes DEF FinishWith, TypeOK

\* The initial states satisfy the invariant.
LEMMA TransfersInit == Init => TInv
  <1> SUFFICES ASSUME Init PROVE TInv
    OBVIOUS
  <1>1. TypeOK
    <2>1. <<>> \in Seq(Events)
      OBVIOUS
    <2> QED
      BY <2>1, MaxNewsIsNat DEF Init, TypeOK, Waiting, Portions
  <1>2. ASSUME NEW o \in Ops PROVE Lives(o) /\ EndsInTurn(o) /\ Truth(o)
    <2>1. events[o] = <<>> /\ deferred[o] = <<>> /\ handle[o] = "none" /\ task[o] = "none" /\ ended[o] = "no"
      BY DEF Init
    <2>2. OnItsWay(o) = {} /\ ~Completed(o)
      BY <2>1, NoElements DEF OnItsWay, Completed
    <2> QED
      BY <2>1, <2>2, NoElements DEF Lives, EndsInTurn, Truth
  <1> QED
    BY <1>1, <1>2 DEF TInv

\* The opener waits on, until the store is open or the opener is dropped.
LEMMA OpenerStep == TInv /\ [Next]_vars => OpenerWaits'
  <1> SUFFICES ASSUME TInv, [Next]_vars PROVE OpenerWaits'
    OBVIOUS
  <1> USE ServerIsNoOp DEF storeVars, dataVars, objectVars
  <1>t. /\ OpenerWaits /\ opener \in Ops \cup {SERVER, NONE}
        /\ task \in [Ops -> Waiting \cup {"none", "ended", "cut"}]
    BY DEF TInv, TypeOK, OpenerWaits
  <1>1. ASSUME NEW o \in Ops, UNCHANGED <<cell, opener, server>>,
               \A p \in Ops \ {o} : task'[p] = task[p],
               task[o] = "waiting" => task'[o] = "waiting" \/ cell # "empty"
        PROVE  OpenerWaits'
    BY <1>t, <1>1 DEF OpenerWaits, Needs
  <1>2. ASSUME UNCHANGED <<cell, opener, server, task>> PROVE OpenerWaits'
    BY <1>t, <1>2 DEF OpenerWaits, Needs
  <1>3. ASSUME NEW o \in Ops, NEW s, task[o] # "waiting" \/ cell # "empty" \/ s = "waiting",
               task' = [task EXCEPT ![o] = s], UNCHANGED <<cell, opener, server>>
        PROVE  OpenerWaits'
    <2>1. task'[o] = s /\ \A p \in Ops \ {o} : task'[p] = task[p]
      BY <1>t, <1>3
    <2> QED
      BY <1>1, <1>3, <2>1
  <1>4. ASSUME NEW o \in Ops, NEW j \in Jobs, Start(o, j) PROVE OpenerWaits'
    <2>1. task[o] # "waiting"
      BY <1>4 DEF Start, TInv, Lives
    <2> QED
      BY <1>3, <1>4, <2>1 DEF Start
  <1>5. ASSUME NEW o \in Ops, Drain(o) \/ Emit(o) \/ Cancel(o) \/ Release(o) \/ Progress(o)
        PROVE  OpenerWaits'
    BY <1>2, <1>5 DEF Drain, Emit, Cancel, Release, Progress
  <1>6. ASSUME NEW o \in Ops, Ready(o) PROVE OpenerWaits'
    BY <1>3, <1>6 DEF Ready, FinishWith
  <1>7. ASSUME NEW o \in Ops, WorkDone(o) \/ Keep(o) \/ Answer(o) \/ WorkFails(o) PROVE OpenerWaits'
    <2>1. task[o] # "waiting" /\ UNCHANGED <<cell, opener, server>>
      BY <1>7 DEF WorkDone, Keep, Answer, WorkFails
    <2>2. task' = [task EXCEPT ![o] = "ended"] \/ task' = [task EXCEPT ![o] = "keeping"]
      BY <1>7 DEF WorkDone, Keep, Answer, WorkFails, FinishWith
    <2> QED
      BY <1>3, <2>1, <2>2
  <1>8. ASSUME NEW o \in Ops, Cut(o) PROVE OpenerWaits'
    <2>1. \A p \in Ops \ {o} : task'[p] = task[p]
      BY <1>t, <1>8 DEF Cut
    <2> QED
      BY <1>t, <1>8, <2>1 DEF Cut, OpenerWaits, Needs
  <1>9. CASE DropDepot
    BY <1>t, <1>9 DEF DropDepot, OpenerWaits, Needs
  <1>10. ASSUME NEW u \in Ops \cup {SERVER}, Open(u) PROVE OpenerWaits'
    BY <1>t, <1>10 DEF Open, OpenerWaits, Needs
  <1>11. CASE Opened
    BY <1>11 DEF Opened, OpenerWaits
  <1>12. CASE Connect \/ Serve
    BY <1>t, <1>12 DEF Connect, Serve, OpenerWaits, Needs
  <1>13. CASE RuntimeStops \/ UNCHANGED vars
    BY <1>2, <1>13 DEF RuntimeStops, vars
  <1> QED
    BY <1>4, <1>5, <1>6, <1>7, <1>8, <1>9, <1>10, <1>11, <1>12, <1>13 DEF Next, StartAny, OpenAny

\* Next keeps the types.
LEMMA TypeStep == TInv /\ [Next]_vars => TypeOK'
  <1> SUFFICES ASSUME TInv, [Next]_vars PROVE TypeOK'
    OBVIOUS
  <1> USE MaxNewsIsNat DEF storeVars, dataVars, objectVars
  <1>t. TypeOK
    BY DEF TInv
  <1>w. OpenerWaits'
    BY OpenerStep
  <1>e. <<>> \in Seq(Events) /\ <<FAILED>> \in Seq(Events)
    BY EventFacts
  <1>1. ASSUME NEW o \in Ops, NEW j \in Jobs, Start(o, j) PROVE TypeOK'
    <2>1. events' \in [Ops -> Seq(Events)]
      BY <1>t, <1>e, <1>1 DEF Start, TypeOK
    <2>2. task' \in [Ops -> Waiting \cup {"none", "ended", "cut"}]
      BY <1>t, <1>1 DEF Start, TypeOK, Waiting
    <2> QED
      BY <1>t, <1>w, <1>1, <2>1, <2>2 DEF Start, TypeOK, OpenerWaits
  <1>2. ASSUME NEW o \in Ops, Drain(o) PROVE TypeOK'
    <2>1. events' \in [Ops -> Seq(Events)]
      BY <1>t, <1>e, <1>2 DEF Drain, TypeOK
    <2>2. deferred' \in [Ops -> Seq(Events)]
      <3>1. deferred[o] \o events[o] \in Seq(Events)
        BY <1>t, ConcatElements DEF TypeOK
      <3> QED
        BY <1>t, <1>2, <3>1 DEF Drain, Handled, TypeOK
    <2>3. /\ handle' \in [Ops -> {"none", "held", "gone", "left", "freed"}]
          /\ ticking' \in [Ops -> BOOLEAN]
      BY <1>t, <1>2 DEF Drain, Handled, TypeOK
    <2> QED
      BY <1>t, <1>w, <1>2, <2>1, <2>2, <2>3 DEF Drain, TypeOK, OpenerWaits
  <1>3. ASSUME NEW o \in Ops, Emit(o) PROVE TypeOK'
    <2>1. Tail(deferred[o]) \in Seq(Events)
      BY <1>t, <1>3, TailElements DEF Emit, TypeOK
    <2>2. deferred' \in [Ops -> Seq(Events)]
      BY <1>t, <1>3, <2>1 DEF Emit, TypeOK
    <2>3. ended' \in [Ops -> {"no", "completed", "failed"}]
      <3>1. Head(deferred[o]) \in Ends => Head(deferred[o])[1] \in {"no", "completed", "failed"}
        BY EventFacts
      <3> QED
        BY <1>t, <1>3, <3>1 DEF Emit, TypeOK
    <2> QED
      BY <1>t, <1>w, <1>3, <2>2, <2>3 DEF Emit, TypeOK, OpenerWaits
  <1>4. ASSUME NEW o \in Ops, Cancel(o) \/ Release(o) PROVE TypeOK'
    <2>1. events' = [events EXCEPT ![o] = <<>>] /\ ticking' = [ticking EXCEPT ![o] = FALSE]
      BY <1>4 DEF Cancel, Release
    <2>2. handle' = [handle EXCEPT ![o] = "left"] \/ handle' = [handle EXCEPT ![o] = "freed"]
      BY <1>4 DEF Cancel, Release
    <2>3. deferred' = deferred \/ deferred' = [deferred EXCEPT ![o] = <<>>]
      BY <1>4 DEF Cancel, Release
    <2>4. events' \in [Ops -> Seq(Events)] /\ deferred' \in [Ops -> Seq(Events)]
      BY <1>t, <1>e, <2>1, <2>3 DEF TypeOK
    <2>5. /\ handle' \in [Ops -> {"none", "held", "gone", "left", "freed"}]
          /\ ticking' \in [Ops -> BOOLEAN]
      BY <1>t, <2>1, <2>2 DEF TypeOK
    <2> QED
      BY <1>t, <1>w, <1>4, <2>4, <2>5 DEF Cancel, Release, TypeOK, OpenerWaits
  <1>5. ASSUME NEW o \in Ops, Ready(o) PROVE TypeOK'
    <2>1. /\ events' \in [Ops -> Seq(Events)]
          /\ task' \in [Ops -> Waiting \cup {"none", "ended", "cut"}]
      <3>1. CASE FinishWith(o, FAILED)
        BY <1>t, <3>1, EventFacts, FinishTypes
      <3>2. CASE task' = [task EXCEPT ![o] = "working"] /\ UNCHANGED events
        BY <1>t, <3>2 DEF TypeOK, Waiting
      <3> QED
        BY <1>5, <3>1, <3>2 DEF Ready
    <2> QED
      BY <1>t, <1>w, <1>5, <2>1 DEF Ready, TypeOK, OpenerWaits
  <1>6. ASSUME NEW o \in Ops, Progress(o) PROVE TypeOK'
    <2>1. events' \in [Ops -> Seq(Events)]
      BY <1>t, <1>6, EventFacts, SentTypes DEF Progress, TypeOK
    <2>2. blobs' \in [Hashes -> Portions]
      BY <1>t, <1>6 DEF Progress, TypeOK, Portions
    <2>3. news' \in [Ops -> 0 .. MaxNews]
      BY <1>t, <1>6 DEF Progress, TypeOK
    <2> QED
      BY <1>t, <1>w, <1>6, <2>1, <2>2, <2>3 DEF Progress, TypeOK, OpenerWaits
  <1>7. ASSUME NEW o \in Ops, WorkDone(o) PROVE TypeOK'
    <2>1. /\ events' \in [Ops -> Seq(Events)]
          /\ task' \in [Ops -> Waiting \cup {"none", "ended", "cut"}]
      <3>1. CASE FinishWith(o, DONE)
        BY <1>t, <3>1, EventFacts, FinishTypes
      <3>2. CASE task' = [task EXCEPT ![o] = "keeping"] /\ UNCHANGED events
        BY <1>t, <3>2 DEF TypeOK, Waiting
      <3> QED
        BY <1>7, <3>1, <3>2 DEF WorkDone
    <2>2. blobs' \in [Hashes -> Portions]
      BY <1>t, <1>7 DEF WorkDone, TypeOK, Portions
    <2> QED
      BY <1>t, <1>w, <1>7, <2>1, <2>2 DEF WorkDone, TypeOK, OpenerWaits
  <1>h. ASSUME NEW o \in Ops, task[o] # "none"
        PROVE  /\ job[o].hash \in Hashes /\ job[o].tag \in Names \cup {NONE}
               /\ job[o].kind \in {"tag", "untag"} \/ task[o] = "keeping" => job[o].tag \in Names
    <2>1. job[o] \in Jobs /\ (task[o] = "keeping" => job[o].tag # NONE)
      BY <1>h DEF TInv, Lives
    <2> QED
      BY <2>1 DEF Jobs
  <1>8. ASSUME NEW o \in Ops, Keep(o) PROVE TypeOK'
    <2>1. FinishWith(o, DONE) \/ FinishWith(o, FAILED)
      BY <1>8 DEF Keep
    <2>2. /\ events' \in [Ops -> Seq(Events)]
          /\ task' \in [Ops -> Waiting \cup {"none", "ended", "cut"}]
      BY <1>t, <2>1, EventFacts, FinishTypes
    <2>3. tags' \in [Names -> Hashes \cup {NONE}] /\ taken' \in [Names -> SUBSET Hashes]
      <3>1. CASE SetTag(job[o].tag, job[o].hash)
        BY <1>t, <1>8, <1>h, <3>1, SetTagFacts DEF Keep
      <3>2. CASE UNCHANGED <<tags, taken>>
        BY <1>t, <3>2 DEF TypeOK
      <3> QED
        BY <1>8, <3>1, <3>2 DEF Keep
    <2> QED
      BY <1>t, <1>w, <1>8, <2>2, <2>3 DEF Keep, TypeOK, OpenerWaits
  <1>9. ASSUME NEW o \in Ops, Answer(o) PROVE TypeOK'
    <2>1. job[o].hash \in Hashes
      BY <1>9, <1>h DEF Answer
    <2>2. FinishWith(o, DONE) \/ FinishWith(o, Status(blobs[job[o].hash]))
      BY <1>9 DEF Answer
    <2>3. blobs[job[o].hash] \in Portions
      BY <1>t, <2>1 DEF TypeOK
    <2>4. Status(blobs[job[o].hash]) \in Events
      BY <2>3, EventFacts
    <2>5. /\ events' \in [Ops -> Seq(Events)]
          /\ task' \in [Ops -> Waiting \cup {"none", "ended", "cut"}]
      BY <1>t, <2>2, <2>4, EventFacts, FinishTypes
    <2>6. tags' \in [Names -> Hashes \cup {NONE}] /\ taken' \in [Names -> SUBSET Hashes]
      <3>1. CASE /\ job[o].kind \in {"tag", "untag"}
                 /\ SetTag(job[o].tag, IF job[o].kind = "tag" THEN job[o].hash ELSE NONE)
        BY <1>t, <1>9, <1>h, <2>1, <3>1, SetTagFacts DEF Answer
      <3>2. CASE UNCHANGED <<tags, taken>>
        BY <1>t, <3>2 DEF TypeOK
      <3> QED
        BY <1>9, <3>1, <3>2 DEF Answer
    <2> QED
      BY <1>t, <1>w, <1>9, <2>5, <2>6 DEF Answer, TypeOK, OpenerWaits
  <1>10. ASSUME NEW o \in Ops, WorkFails(o) PROVE TypeOK'
    <2>1. /\ events' \in [Ops -> Seq(Events)]
          /\ task' \in [Ops -> Waiting \cup {"none", "ended", "cut"}]
      BY <1>t, <1>10, EventFacts, FinishTypes DEF WorkFails
    <2> QED
      BY <1>t, <1>w, <1>10, <2>1 DEF WorkFails, TypeOK, OpenerWaits
  <1>11. ASSUME NEW o \in Ops, Cut(o) PROVE TypeOK'
    <2>1. task' \in [Ops -> Waiting \cup {"none", "ended", "cut"}]
      BY <1>t, <1>11 DEF Cut, TypeOK
    <2> QED
      BY <1>t, <1>w, <1>11, <2>1 DEF Cut, TypeOK, OpenerWaits
  <1>12. CASE DropDepot \/ OpenAny \/ Opened \/ Connect \/ Serve \/ RuntimeStops
    BY <1>t, <1>w, <1>12
    DEF DropDepot, OpenAny, Open, Opened, Connect, Serve, RuntimeStops, TypeOK, OpenerWaits
  <1>13. CASE UNCHANGED vars
    BY <1>t, <1>w, <1>13 DEF vars, TypeOK, OpenerWaits
  <1> QED
    BY <1>1, <1>2, <1>3, <1>4, <1>5, <1>6, <1>7, <1>8, <1>9, <1>10, <1>11, <1>12, <1>13
    DEF Next, StartAny

-----------------------------------------------------------------------------
\* One operation at a time.

Fine(o) == Lives(o) /\ EndsInTurn(o) /\ Truth(o)

\* The store only grows: blobs get no smaller, and a name is taken away only on
\* record.
StoreGrows ==
    /\ \A h \in Hashes : Rank[blobs[h]] <= Rank[blobs'[h]]
    /\ \A n \in Names, h \in Hashes : Given(n, h) => Given(n, h)'

LEMMA RankFacts ==
    /\ \A portion \in Portions : Rank[portion] \in 0 .. 2
    /\ \A portion \in Portions : Rank[portion] = 2 <=> portion = "complete"
    /\ Rank["absent"] = 0 /\ Rank["partial"] = 1 /\ Rank["complete"] = 2
  BY DEF Rank, Portions

\* A whole blob stays whole.
LEMMA WholeStaysWhole ==
    ASSUME TypeOK, TypeOK', StoreGrows, NEW h \in Hashes
    PROVE  blobs[h] = "complete" => blobs'[h] = "complete"
  <1>1. blobs[h] \in Portions /\ blobs'[h] \in Portions /\ Rank[blobs[h]] <= Rank[blobs'[h]]
    BY DEF TypeOK, StoreGrows
  <1> QED
    BY <1>1, RankFacts

\* What a signal said stays true while the store grows.
LEMMA TruthStays ==
    ASSUME TypeOK, TypeOK', StoreGrows, NEW o \in Ops, Truth(o), job'[o] = job[o],
           job[o] \in Jobs, Completed(o)' => Completed(o),
           \A portion \in Portions : Status(portion) \in OnItsWay(o)' => Status(portion) \in OnItsWay(o)
    PROVE  Truth(o)'
  <1>1. job[o].hash \in Hashes /\ (job[o].tag # NONE => job[o].tag \in Names)
    BY DEF Jobs
  <1>2. blobs[job[o].hash] \in Portions /\ blobs'[job[o].hash] \in Portions
    BY <1>1 DEF TypeOK
  <1>3. Completed(o)' /\ job'[o].kind \in Moves =>
          /\ blobs'[job'[o].hash] = "complete"
          /\ job'[o].tag # NONE => Given(job[o].tag, job[o].hash)'
    BY <1>1, WholeStaysWhole DEF Truth, StoreGrows
  <1>4. ASSUME NEW portion \in Portions, Status(portion) \in OnItsWay(o)'
        PROVE  Rank[portion] <= Rank[blobs'[job'[o].hash]]
    <2>1. Rank[portion] <= Rank[blobs[job[o].hash]]
      BY <1>4 DEF Truth
    <2>2. Rank[blobs[job[o].hash]] <= Rank[blobs'[job[o].hash]]
      BY <1>1 DEF StoreGrows
    <2> QED
      BY <1>2, <2>1, <2>2, RankFacts
  <1> QED
    BY <1>3, <1>4 DEF Truth

\* An operation that takes no part in a step stays fine.
LEMMA OthersStay ==
    ASSUME TypeOK, TypeOK', StoreGrows, NEW o \in Ops, Fine(o),
           UNCHANGED <<job[o], task[o], handle[o], events[o], deferred[o], ended[o]>>
    PROVE  Fine(o)'
  <1>1. UNCHANGED OnItsWay(o) /\ UNCHANGED Completed(o)
    BY DEF OnItsWay, Completed
  <1>2. CASE handle[o] = "none"
    <2>1. OnItsWay(o) = {} /\ ~Completed(o)
      BY <1>2, NoElements DEF Fine, Lives, OnItsWay, Completed
    <2>2. Truth(o)'
      BY <1>1, <2>1 DEF Truth
    <2> QED
      BY <1>2, <2>2 DEF Fine, Lives, EndsInTurn
  <1>3. CASE handle[o] # "none"
    <2>1. job[o] \in Jobs
      BY <1>3 DEF Fine, Lives
    <2>2. Truth(o)'
      BY <1>1, <2>1, TruthStays DEF Fine
    <2>3. task[o] = "keeping" => blobs'[job[o].hash] = "complete"
      BY <2>1, WholeStaysWhole DEF Fine, Lives, Jobs
    <2> QED
      BY <1>3, <2>2, <2>3 DEF Fine, Lives, EndsInTurn
  <1> QED
    BY <1>2, <1>3

\* So a step of one operation keeps the invariant if that one stays fine.
LEMMA OwnStep ==
    ASSUME TInv, TypeOK', StoreGrows, NEW o \in Ops, Fine(o)',
           \A p \in Ops \ {o} :
             UNCHANGED <<job[p], task[p], handle[p], events[p], deferred[p], ended[p]>>
    PROVE  TInv'
  <1>1. ASSUME NEW p \in Ops PROVE Fine(p)'
    <2>1. CASE p = o
      BY <2>1
    <2>2. CASE p # o
      BY <2>2, OthersStay DEF TInv, Fine
    <2> QED
      BY <2>1, <2>2
  <1> QED
    BY <1>1 DEF TInv, Fine

\* Steps that leave the store alone.
LEMMA StoreStays ==
    ASSUME TypeOK, UNCHANGED dataVars
    PROVE  StoreGrows
  <1>1. \A h \in Hashes : blobs[h] \in Portions
    BY DEF TypeOK
  <1> QED
    BY <1>1, RankFacts DEF StoreGrows, dataVars, Given

-----------------------------------------------------------------------------
\* The steps of a task.

\* A task at work has a job, and sent no end.
LEMMA AtWork ==
    ASSUME TInv, NEW o \in Ops, task[o] \in Waiting
    PROVE  /\ handle[o] # "none" /\ job[o] \in Jobs /\ job[o].hash \in Hashes
           /\ events[o] \in Seq(Events) /\ \A i \in DOMAIN events[o] : events[o][i] \notin Ends
           /\ blobs[job[o].hash] \in Portions /\ Fine(o) /\ TypeOK
  <1>1. Fine(o) /\ TypeOK
    BY DEF TInv, Fine
  <1>2. task[o] # "none" /\ task[o] # "ended"
    BY DEF Waiting
  <1>3. job[o] \in Jobs /\ handle[o] # "none"
    BY <1>1, <1>2 DEF Fine, Lives
  <1>4. job[o].hash \in Hashes
    BY <1>3 DEF Jobs
  <1> QED
    BY <1>1, <1>2, <1>3, <1>4 DEF Fine, EndsInTurn, TypeOK

\* What an event adds to what is on its way.
LEMMA SentElements ==
    ASSUME TypeOK, NEW o \in Ops, NEW e \in Events, Sent(o, e), UNCHANGED <<deferred, ended>>
    PROVE  /\ OnItsWay(o)' \subseteq OnItsWay(o) \cup {e}
           /\ Completed(o)' => Completed(o) \/ e[1] = "completed"
  <1>1. events'[o] = (IF handle[o] = "held" THEN Append(events[o], e) ELSE events[o]) /\ events[o] \in Seq(Events)
    BY SentTypes DEF TypeOK
  <1>2. ToSet(events'[o]) \subseteq ToSet(events[o]) \cup {e}
    BY <1>1, AppendElements
  <1>3. OnItsWay(o)' = ToSet(events'[o]) \cup ToSet(deferred[o])
    BY DEF OnItsWay
  <1>4. OnItsWay(o)' \subseteq OnItsWay(o) \cup {e}
    BY <1>2, <1>3 DEF OnItsWay
  <1>5. Completed(o)' <=> (ended[o] = "completed" \/ \E f \in OnItsWay(o)' : f[1] = "completed")
    BY DEF Completed
  <1> QED
    BY <1>4, <1>5 DEF Completed

\* A task may end with an outcome that is true.
LEMMA FinishKeeps ==
    ASSUME TInv, TypeOK', StoreGrows, NEW o \in Ops, task[o] \in Waiting, NEW e \in Ends,
           FinishWith(o, e), UNCHANGED <<job, handle, deferred, ended>>,
           e[1] = "completed" /\ job[o].kind \in Moves =>
             /\ blobs'[job[o].hash] = "complete"
             /\ job[o].tag # NONE => Given(job[o].tag, job[o].hash)',
           \A portion \in Portions : e = Status(portion) => Rank[portion] <= Rank[blobs'[job[o].hash]]
    PROVE  TInv'
  <1>1. /\ handle[o] # "none" /\ job[o] \in Jobs /\ job[o].hash \in Hashes
        /\ events[o] \in Seq(Events) /\ \A i \in DOMAIN events[o] : events[o][i] \notin Ends
        /\ Fine(o) /\ TypeOK
    BY AtWork
  <1>2. e \in Events /\ Sent(o, e)
    BY EventFacts DEF FinishWith
  <1>3. /\ task'[o] = "ended" /\ \A p \in Ops \ {o} : task'[p] = task[p]
    BY <1>1, <1>2, FinishTypes
  <1>4. /\ events'[o] = IF handle[o] = "held" THEN Append(events[o], e) ELSE events[o]
        /\ \A p \in Ops \ {o} : events'[p] = events[p]
    BY <1>1, <1>2, SentTypes DEF TypeOK
  <1>5. Lives(o)'
    BY <1>1, <1>3, <1>4 DEF Fine, Lives
  <1>6. EndsInTurn(o)'
    <2>1. ASSUME NEW i \in DOMAIN (events'[o]), events'[o][i] \in Ends PROVE i = Len(events'[o])
      <3>1. CASE handle[o] = "held"
        <4>1. events'[o] = Append(events[o], e)
          BY <1>4, <3>1
        <4>2. /\ DOMAIN events[o] = 1 .. Len(events[o]) /\ Len(events[o]) \in Nat
              /\ DOMAIN (events'[o]) = 1 .. Len(events[o]) + 1 /\ Len(events'[o]) = Len(events[o]) + 1
              /\ \A k \in 1 .. Len(events[o]) : events'[o][k] = events[o][k]
          BY <1>1, <1>2, <4>1, AppendElements
        <4>3. i \notin 1 .. Len(events[o])
          BY <1>1, <2>1, <4>2
        <4> QED
          BY <4>2, <4>3
      <3>2. CASE handle[o] # "held"
        BY <1>1, <1>4, <2>1, <3>2
      <3> QED
        BY <3>1, <3>2
    <2> QED
      BY <1>1, <1>3, <2>1 DEF Fine, EndsInTurn
  <1>7. Truth(o)'
    <2>1. /\ OnItsWay(o)' \subseteq OnItsWay(o) \cup {e}
          /\ Completed(o)' => Completed(o) \/ e[1] = "completed"
      BY <1>1, <1>2, SentElements
    <2>2. Completed(o)' /\ job'[o].kind \in Moves =>
            /\ blobs'[job'[o].hash] = "complete"
            /\ job'[o].tag # NONE => Given(job[o].tag, job[o].hash)'
      <3>1. job[o].tag # NONE => job[o].tag \in Names
        BY <1>1 DEF Jobs
      <3> QED
        BY <1>1, <2>1, <3>1, WholeStaysWhole DEF Fine, Truth, StoreGrows
    <2>3. ASSUME NEW portion \in Portions, Status(portion) \in OnItsWay(o)'
          PROVE  Rank[portion] <= Rank[blobs'[job'[o].hash]]
      <3>1. CASE e = Status(portion)
        BY <3>1
      <3>2. CASE Status(portion) \in OnItsWay(o)
        <4>1. Rank[portion] <= Rank[blobs[job[o].hash]]
          BY <1>1, <3>2 DEF Fine, Truth
        <4>2. Rank[blobs[job[o].hash]] <= Rank[blobs'[job[o].hash]]
          BY <1>1 DEF StoreGrows
        <4>3. blobs[job[o].hash] \in Portions /\ blobs'[job[o].hash] \in Portions
          BY <1>1 DEF TypeOK
        <4> QED
          BY <4>1, <4>2, <4>3, RankFacts
      <3> QED
        BY <2>1, <2>3, <3>1, <3>2
    <2> QED
      BY <2>2, <2>3 DEF Truth
  <1>8. Fine(o)'
    BY <1>5, <1>6, <1>7 DEF Fine
  <1> QED
    BY <1>3, <1>4, <1>8, OwnStep

\* A task may go on to its next phase.
LEMMA PhaseKeeps ==
    ASSUME TInv, TypeOK', StoreGrows, NEW o \in Ops, task[o] \in Waiting,
           NEW phase \in {"working", "keeping", "cut"}, task' = [task EXCEPT ![o] = phase],
           UNCHANGED <<job, handle, events, deferred, ended>>,
           phase = "keeping" => job[o].tag # NONE /\ blobs'[job[o].hash] = "complete"
    PROVE  TInv'
  <1>1. /\ handle[o] # "none" /\ job[o] \in Jobs
        /\ \A i \in DOMAIN events[o] : events[o][i] \notin Ends
        /\ Fine(o) /\ TypeOK
    BY AtWork
  <1>2. task'[o] = phase /\ \A p \in Ops \ {o} : task'[p] = task[p]
    BY <1>1 DEF TypeOK
  <1>3. Lives(o)'
    BY <1>1, <1>2 DEF Fine, Lives
  <1>4. EndsInTurn(o)'
    BY <1>1 DEF Fine, EndsInTurn
  <1>5. UNCHANGED OnItsWay(o) /\ UNCHANGED Completed(o)
    BY DEF OnItsWay, Completed
  <1>6. Truth(o)'
    BY <1>1, <1>5, TruthStays DEF Fine
  <1>7. Fine(o)'
    BY <1>3, <1>4, <1>6 DEF Fine
  <1> QED
    BY <1>2, <1>7, OwnStep

\* The steps of a task are those two, and its progress.
LEMMA TaskStep ==
    ASSUME TInv, TypeOK', NEW o \in Ops,
           Ready(o) \/ Progress(o) \/ WorkDone(o) \/ Keep(o) \/ Answer(o) \/ WorkFails(o) \/ Cut(o)
    PROVE  TInv'
  <1> USE DEF objectVars
  <1>t. TypeOK
    BY DEF TInv
  <1>w. task[o] \in Waiting
    BY DEF Ready, Progress, WorkDone, Keep, Answer, WorkFails, Cut, Waiting
  <1>a. /\ job[o] \in Jobs /\ job[o].hash \in Hashes /\ Fine(o)
        /\ handle[o] # "none" /\ events[o] \in Seq(Events)
        /\ \A i \in DOMAIN events[o] : events[o][i] \notin Ends
        /\ blobs[job[o].hash] \in Portions
    BY <1>w, AtWork
  <1>g. /\ FAILED \in Ends /\ FAILED[1] = "failed" /\ DONE \in Ends
        /\ \A portion \in Portions : Status(portion) # DONE /\ Status(portion) # FAILED
    BY EventFacts
  <1>f. ASSUME FinishWith(o, FAILED), StoreGrows, UNCHANGED <<job, handle, deferred, ended>>
        PROVE  TInv'
    BY <1>w, <1>g, <1>f, FinishKeeps
  <1>1. CASE Ready(o)
    <2>1. StoreGrows
      BY <1>t, <1>1, StoreStays DEF Ready
    <2>2. UNCHANGED <<job, handle, deferred, ended>>
      BY <1>1 DEF Ready
    <2>3. CASE task' = [task EXCEPT ![o] = "working"] /\ UNCHANGED events
      BY <1>w, <2>1, <2>2, <2>3, PhaseKeeps
    <2> QED
      BY <1>1, <1>f, <2>1, <2>2, <2>3 DEF Ready
  <1>2. CASE WorkFails(o)
    <2>1. StoreGrows
      BY <1>t, <1>2, StoreStays DEF WorkFails
    <2> QED
      BY <1>2, <1>f, <2>1 DEF WorkFails
  <1>3. CASE Cut(o)
    <2>1. StoreGrows
      BY <1>t, <1>3, StoreStays DEF Cut
    <2> QED
      BY <1>3, <1>w, <2>1, PhaseKeeps DEF Cut
  <1>4. CASE WorkDone(o)
    <2>1. blobs' = [blobs EXCEPT ![job[o].hash] = "complete"] /\ UNCHANGED <<tags, taken>>
      BY <1>4 DEF WorkDone
    <2>2. blobs'[job[o].hash] = "complete"
      BY <1>t, <1>a, <2>1 DEF TypeOK
    <2>3. StoreGrows
      <3> SUFFICES ASSUME NEW h \in Hashes PROVE Rank[blobs[h]] <= Rank[blobs'[h]]
        BY <2>1 DEF StoreGrows, Given
      <3>1. blobs[h] \in Portions /\ (blobs'[h] = blobs[h] \/ blobs'[h] = "complete")
        BY <1>t, <2>1 DEF TypeOK
      <3> QED
        BY <3>1, RankFacts
    <2>4. UNCHANGED <<job, handle, deferred, ended>>
      BY <1>4 DEF WorkDone
    <2>5. CASE job[o].tag # NONE
      BY <1>4, <1>w, <2>2, <2>3, <2>4, <2>5, PhaseKeeps DEF WorkDone
    <2>6. CASE job[o].tag = NONE
      <3>1. FinishWith(o, DONE)
        BY <1>4, <2>6 DEF WorkDone
      <3> QED
        BY <1>w, <1>g, <2>2, <2>3, <2>4, <2>6, <3>1, FinishKeeps
    <2> QED
      BY <2>5, <2>6
  <1>5. CASE Keep(o)
    <2>1. /\ blobs[job[o].hash] = "complete" /\ job[o].tag \in Names
          /\ UNCHANGED <<job, handle, deferred, ended, blobs>>
      BY <1>5, <1>a DEF Keep, Fine, Lives, Jobs
    <2>2. \A n \in Names, h \in Hashes : Given(n, h) => Given(n, h)'
      <3>1. CASE SetTag(job[o].tag, job[o].hash)
        BY <1>t, <1>a, <2>1, <3>1, SetTagFacts
      <3>2. CASE UNCHANGED <<tags, taken>>
        BY <3>2 DEF Given
      <3> QED
        BY <1>5, <3>1, <3>2 DEF Keep
    <2>3. StoreGrows
      <3>1. \A h \in Hashes : blobs[h] \in Portions
        BY <1>t DEF TypeOK
      <3> QED
        BY <2>1, <2>2, <3>1, RankFacts DEF StoreGrows
    <2>4. CASE SetTag(job[o].tag, job[o].hash) /\ FinishWith(o, DONE)
      <3>1. Given(job[o].tag, job[o].hash)'
        BY <1>t, <1>a, <2>1, <2>4, SetTagFacts DEF Given
      <3> QED
        BY <1>w, <1>g, <2>1, <2>3, <2>4, <3>1, FinishKeeps
    <2> QED
      BY <1>5, <1>f, <2>1, <2>3, <2>4 DEF Keep
  <1>6. CASE Answer(o)
    <2>1. UNCHANGED <<job, handle, deferred, ended, blobs>> /\ job[o].kind \in Questions
      BY <1>6 DEF Answer
    <2>2. job[o].kind \notin Moves
      BY <2>1 DEF Questions, Moves
    <2>3. StoreGrows
      <3>1. \A n \in Names, h \in Hashes : Given(n, h) => Given(n, h)'
        <4>1. CASE /\ job[o].kind \in {"tag", "untag"}
                   /\ SetTag(job[o].tag, IF job[o].kind = "tag" THEN job[o].hash ELSE NONE)
          <5>1. job[o].tag \in Names
            BY <1>a, <4>1 DEF Jobs
          <5> QED
            BY <1>t, <1>a, <4>1, <5>1, SetTagFacts
        <4>2. CASE UNCHANGED <<tags, taken>>
          BY <4>2 DEF Given
        <4> QED
          BY <1>6, <4>1, <4>2 DEF Answer
      <3>2. \A h \in Hashes : blobs[h] \in Portions
        BY <1>t DEF TypeOK
      <3> QED
        BY <2>1, <3>1, <3>2, RankFacts DEF StoreGrows
    <2>4. CASE FinishWith(o, DONE)
      BY <1>w, <1>g, <2>1, <2>2, <2>3, <2>4, FinishKeeps
    <2>5. CASE FinishWith(o, Status(blobs[job[o].hash]))
      <3> DEFINE e == Status(blobs[job[o].hash])
      <3>1. e \in Ends /\ \A portion \in Portions : e = Status(portion) => portion = blobs[job[o].hash]
        BY <1>a, EventFacts
      <3>2. \A portion \in Portions : e = Status(portion) => Rank[portion] <= Rank[blobs'[job[o].hash]]
        BY <1>a, <2>1, <3>1, RankFacts
      <3> HIDE DEF e
      <3>3. FinishWith(o, e)
        BY <2>5 DEF e
      <3> QED
        BY <1>w, <2>1, <2>2, <2>3, <3>1, <3>2, <3>3, FinishKeeps
    <2> QED
      BY <1>6, <2>4, <2>5 DEF Answer
  <1>7. CASE Progress(o)
    <2>1. UNCHANGED <<job, task, handle, deferred, ended, tags, taken>> /\ Sent(o, PROGRESS)
      BY <1>7 DEF Progress
    <2>2. StoreGrows
      <3> SUFFICES ASSUME NEW h \in Hashes PROVE Rank[blobs[h]] <= Rank[blobs'[h]]
        BY <2>1 DEF StoreGrows, Given
      <3>1. blobs[h] \in Portions /\ (blobs'[h] = blobs[h] \/ (blobs[h] = "absent" /\ blobs'[h] = "partial"))
        BY <1>t, <1>7 DEF Progress, TypeOK
      <3> QED
        BY <3>1, RankFacts
    <2>3. /\ PROGRESS \in Events /\ PROGRESS \notin Ends /\ PROGRESS[1] # "completed"
          /\ \A portion \in Portions : Status(portion) # PROGRESS
      BY EventFacts
    <2>4. /\ events'[o] = IF handle[o] = "held" THEN Append(events[o], PROGRESS) ELSE events[o]
          /\ \A p \in Ops \ {o} : events'[p] = events[p]
      BY <1>t, <2>1, <2>3, SentTypes DEF TypeOK
    <2>5. Lives(o)'
      <3>1. task[o] = "working"
        BY <1>7 DEF Progress
      <3> QED
        BY <1>a, <2>1, <2>4, <3>1 DEF Fine, Lives
    <2>6. EndsInTurn(o)'
      <3>1. ASSUME NEW i \in DOMAIN (events'[o]) PROVE events'[o][i] \notin Ends
        <4>1. CASE handle[o] = "held"
          BY <1>a, <2>3, <2>4, <4>1, AppendElements
        <4>2. CASE handle[o] # "held"
          BY <1>a, <2>4, <4>2
        <4> QED
          BY <4>1, <4>2
      <3> QED
        BY <1>a, <2>1, <3>1 DEF Fine, EndsInTurn
    <2>7. Truth(o)'
      <3>1. /\ OnItsWay(o)' \subseteq OnItsWay(o) \cup {PROGRESS}
            /\ Completed(o)' => Completed(o)
        BY <1>t, <2>1, <2>3, SentElements
      <3> QED
        BY <1>t, <1>a, <2>1, <2>2, <2>3, <3>1, TruthStays DEF Fine
    <2>8. Fine(o)'
      BY <2>5, <2>6, <2>7 DEF Fine
    <2> QED
      BY <2>1, <2>2, <2>4, <2>8, OwnStep
  <1> QED
    BY <1>1, <1>2, <1>3, <1>4, <1>5, <1>6, <1>7

-----------------------------------------------------------------------------
\* The steps of the main thread.

\* Signals that were already on their way, and no others, keep the truth.
LEMMA FewerStayTrue ==
    ASSUME TInv, TypeOK', UNCHANGED dataVars, NEW o \in Ops, handle[o] # "none", job'[o] = job[o],
           OnItsWay(o)' \subseteq OnItsWay(o),
           ended'[o] = "completed" => Completed(o)
    PROVE  Truth(o)' /\ StoreGrows
  <1>1. TypeOK /\ Fine(o) /\ job[o] \in Jobs
    BY DEF TInv, Fine, Lives
  <1>2. StoreGrows
    BY <1>1, StoreStays
  <1>3. Completed(o)' <=> ended'[o] = "completed" \/ \E f \in OnItsWay(o)' : f[1] = "completed"
    BY DEF Completed
  <1>4. Completed(o)' => Completed(o)
    BY <1>3 DEF Completed
  <1> QED
    BY <1>1, <1>2, <1>4, TruthStays DEF Fine

\* A new operation.
LEMMA StartKeeps ==
    ASSUME TInv, TypeOK', NEW o \in Ops, NEW j \in Jobs, Start(o, j)
    PROVE  TInv'
  <1>t. TypeOK /\ Fine(o)
    BY DEF TInv, Fine
  <1>1. /\ handle[o] = "none"
        /\ deferred' = deferred /\ ended' = ended /\ UNCHANGED dataVars
    BY DEF Start
  <1>2. /\ job'[o] = j /\ handle'[o] = "held" /\ task'[o] \in {"waiting", "ended"}
        /\ events'[o] = <<>> \/ (events'[o] = <<FAILED>> /\ task'[o] = "ended")
    BY <1>t DEF Start, TypeOK
  <1>3. \A p \in Ops \ {o} :
          UNCHANGED <<job[p], task[p], handle[p], events[p], deferred[p], ended[p]>>
    BY <1>t DEF Start, TypeOK
  <1>4. deferred[o] = <<>> /\ ended[o] = "no"
    BY <1>t, <1>1 DEF Fine, Lives
  <1>5. Lives(o)'
    BY <1>1, <1>2 DEF Lives
  <1>6. EndsInTurn(o)'
    <2>1. \A i \in DOMAIN (events'[o]) : i = Len(events'[o]) /\ task'[o] = "ended"
      <3>1. CASE events'[o] = <<>>
        BY <3>1, NoElements
      <3>2. CASE events'[o] = <<FAILED>> /\ task'[o] = "ended"
        <4>1. DOMAIN <<FAILED>> = {1} /\ Len(<<FAILED>>) = 1
          OBVIOUS
        <4> QED
          BY <3>2, <4>1
      <3> QED
        BY <1>2, <3>1, <3>2
    <2> QED
      BY <1>1, <1>4, <2>1, NoElements DEF EndsInTurn
  <1>7. Truth(o)'
    <2>1. ToSet(events'[o]) \subseteq {FAILED}
      BY <1>2 DEF ToSet
    <2>2. OnItsWay(o)' = ToSet(events'[o]) \cup ToSet(deferred'[o])
      BY DEF OnItsWay
    <2>3. OnItsWay(o)' \subseteq {FAILED}
      BY <1>1, <1>4, <2>1, <2>2, NoElements
    <2>4. Completed(o)' <=> ended'[o] = "completed" \/ \E f \in OnItsWay(o)' : f[1] = "completed"
      BY DEF Completed
    <2>5. ~Completed(o)'
      BY <1>1, <1>4, <2>3, <2>4, EventFacts
    <2>6. \A portion \in Portions : Status(portion) \notin OnItsWay(o)'
      BY <2>3, EventFacts
    <2> QED
      BY <2>5, <2>6 DEF Truth
  <1>8. StoreGrows
    BY <1>t, <1>1, StoreStays
  <1>9. Fine(o)'
    BY <1>5, <1>6, <1>7 DEF Fine
  <1> QED
    BY <1>3, <1>8, <1>9, OwnStep

\* A frame of one operation: the end among its events is the last of them.
LEMMA DrainKeeps ==
    ASSUME TInv, TypeOK', NEW o \in Ops, Drain(o)
    PROVE  TInv'
  <1> USE DEF objectVars
  <1>t. TypeOK /\ Fine(o)
    BY DEF TInv, Fine
  <1> DEFINE d == deferred[o]
             q == events[o]
  <1>1. /\ handle[o] = "held" /\ q # <<>>
        /\ deferred' = [deferred EXCEPT ![o] = d \o q]
        /\ events' = [events EXCEPT ![o] = <<>>]
        /\ UNCHANGED <<job, task, ended>> /\ UNCHANGED dataVars
    BY DEF Drain, Handled
  <1>2. d \in Seq(Events) /\ q \in Seq(Events) /\ deferred'[o] = d \o q /\ events'[o] = <<>>
    BY <1>t, <1>1 DEF TypeOK
  <1>3. /\ handle'[o] \in {"held", "gone"}
        /\ (\E i \in DOMAIN q : q[i] \in Ends) => handle'[o] = "gone"
    BY <1>t, <1>1 DEF Drain, Handled, TypeOK
  <1>4. \A p \in Ops \ {o} :
          UNCHANGED <<job[p], task[p], handle[p], events[p], deferred[p], ended[p]>>
    BY <1>t, <1>1 DEF Drain, Handled, TypeOK
  <1> HIDE DEF d, q
  <1>5. ended[o] = "no" /\ \A i \in DOMAIN d : d[i] \notin Ends
    BY <1>t, <1>1 DEF Fine, EndsInTurn, d
  <1>6. \A i \in DOMAIN q : q[i] \in Ends => i = Len(q)
    BY <1>t DEF Fine, EndsInTurn, q
  <1>7. Lives(o)'
    BY <1>t, <1>1, <1>2, <1>3 DEF Fine, Lives, dataVars
  <1>8. EndsInTurn(o)'
    <2>1. ASSUME NEW i \in DOMAIN (deferred'[o]), deferred'[o][i] \in Ends
          PROVE  i = Len(deferred'[o]) /\ handle'[o] \in {"gone", "freed"}
      <3> DEFINE a == d \o q
      <3>1. /\ Len(d) \in Nat /\ Len(q) \in Nat /\ Len(a) = Len(d) + Len(q)
            /\ DOMAIN d = 1 .. Len(d) /\ DOMAIN q = 1 .. Len(q) /\ DOMAIN a = 1 .. Len(d) + Len(q)
            /\ \A k \in 1 .. Len(d) + Len(q) : a[k] = IF k <= Len(d) THEN d[k] ELSE q[k - Len(d)]
        BY <1>2, ConcatElements
      <3>2. a = deferred'[o]
        BY <1>2
      <3> HIDE DEF a
      <3>3. i \in 1 .. Len(d) + Len(q) /\ a[i] \in Ends
        BY <2>1, <3>1, <3>2
      <3>4. ~(i <= Len(d))
        BY <1>5, <3>1, <3>3
      <3>5. i - Len(d) \in DOMAIN q /\ q[i - Len(d)] \in Ends
        BY <3>1, <3>3, <3>4
      <3>6. i - Len(d) = Len(q)
        BY <1>6, <3>5
      <3> QED
        BY <1>3, <3>1, <3>2, <3>3, <3>5, <3>6
    <2> QED
      BY <1>1, <1>2, <1>5, <2>1, NoElements DEF EndsInTurn
  <1>9. Truth(o)' /\ StoreGrows
    <2>1. OnItsWay(o)' = ToSet(events'[o]) \cup ToSet(deferred'[o])
      BY DEF OnItsWay
    <2>2. OnItsWay(o)' \subseteq OnItsWay(o)
      BY <1>2, <2>1, ConcatElements, NoElements DEF OnItsWay, d, q
    <2> QED
      BY <1>1, <1>5, <2>2, FewerStayTrue
  <1>10. Fine(o)'
    BY <1>7, <1>8, <1>9 DEF Fine
  <1> QED
    BY <1>4, <1>9, <1>10, OwnStep

\* A signal is emitted.
LEMMA EmitKeeps ==
    ASSUME TInv, TypeOK', NEW o \in Ops, Emit(o)
    PROVE  TInv'
  <1> USE DEF objectVars
  <1>t. TypeOK /\ Fine(o)
    BY DEF TInv, Fine
  <1> DEFINE d == deferred[o]
             e == Head(d)
  <1>1. d # <<>> /\ UNCHANGED <<job, task, handle, events>> /\ UNCHANGED dataVars
    BY DEF Emit
  <1>2. /\ deferred'[o] = Tail(d) /\ ended'[o] = (IF e \in Ends THEN e[1] ELSE ended[o])
        /\ d \in Seq(Events)
        /\ \A p \in Ops \ {o} : deferred'[p] = deferred[p] /\ ended'[p] = ended[p]
    BY <1>t DEF Emit, TypeOK
  <1>3. /\ Tail(d) \in Seq(Events) /\ e \in Events /\ ToSet(Tail(d)) \subseteq ToSet(d) /\ e \in ToSet(d)
        /\ e = d[1] /\ Len(d) \in Nat \ {0} /\ DOMAIN d = 1 .. Len(d) /\ Len(Tail(d)) = Len(d) - 1
        /\ DOMAIN Tail(d) = 1 .. Len(d) - 1 /\ \A i \in 1 .. Len(d) - 1 : Tail(d)[i] = d[i + 1]
    BY <1>1, <1>2, TailElements
  <1> HIDE DEF d, e
  <1>4. ended[o] = "no" /\ handle[o] # "none"
    BY <1>t, <1>1 DEF Fine, EndsInTurn, Lives, d
  <1>5. \A i \in DOMAIN d : d[i] \in Ends => i = Len(d) /\ handle[o] \in {"gone", "freed"}
    BY <1>t DEF Fine, EndsInTurn, d
  <1>6. Lives(o)'
    BY <1>t, <1>1, <1>4 DEF Fine, Lives, dataVars
  <1>7. EndsInTurn(o)'
    <2>1. ASSUME NEW i \in DOMAIN Tail(d), Tail(d)[i] \in Ends
          PROVE  i = Len(Tail(d)) /\ handle[o] \in {"gone", "freed"}
      <3>1. i + 1 \in DOMAIN d /\ d[i + 1] \in Ends /\ i \in Nat
        BY <1>3, <2>1
      <3>2. i + 1 = Len(d) /\ handle[o] \in {"gone", "freed"}
        BY <1>5, <3>1
      <3>3. Len(Tail(d)) = Len(d) - 1
        BY <1>3
      <3> QED
        BY <3>1, <3>2, <3>3
    <2>2. e \in Ends => Tail(d) = <<>> /\ handle[o] \in {"gone", "freed"}
      <3> SUFFICES ASSUME e \in Ends PROVE Tail(d) = <<>> /\ handle[o] \in {"gone", "freed"}
        OBVIOUS
      <3>1. 1 \in DOMAIN d /\ d[1] \in Ends
        BY <1>3
      <3>2. Len(d) = 1 /\ handle[o] \in {"gone", "freed"}
        BY <1>5, <3>1
      <3>3. Len(Tail(d)) = 0
        BY <1>3, <3>2
      <3> QED
        BY <1>3, <3>2, <3>3, EmptySeq
    <2>3. ended'[o] # "no" => e \in Ends
      BY <1>2, <1>4
    <2> QED
      BY <1>t, <1>1, <1>2, <2>1, <2>2, <2>3 DEF Fine, EndsInTurn
  <1>8. Truth(o)' /\ StoreGrows
    <2>1. OnItsWay(o)' = ToSet(events'[o]) \cup ToSet(deferred'[o])
      BY DEF OnItsWay
    <2>2. OnItsWay(o)' \subseteq OnItsWay(o)
      BY <1>1, <1>2, <1>3, <2>1 DEF OnItsWay, d
    <2>3. ended'[o] = "completed" => Completed(o)
      BY <1>2, <1>3, <1>4 DEF Completed, OnItsWay, d
    <2> QED
      BY <1>1, <1>4, <2>2, <2>3, FewerStayTrue
  <1>9. Fine(o)'
    BY <1>6, <1>7, <1>8 DEF Fine
  <1> QED
    BY <1>1, <1>2, <1>8, <1>9, OwnStep

\* The script cancels a transfer or drops it.
LEMMA LetGoKeeps ==
    ASSUME TInv, TypeOK', NEW o \in Ops, Cancel(o) \/ Release(o)
    PROVE  TInv'
  <1>t. TypeOK /\ Fine(o)
    BY DEF TInv, Fine
  <1>1. /\ handle[o] \in {"held", "gone", "left"} /\ UNCHANGED <<job, task, ended>> /\ UNCHANGED dataVars
        /\ events' = [events EXCEPT ![o] = <<>>]
    BY DEF Cancel, Release
  <1>2. \/ /\ handle' = [handle EXCEPT ![o] = "left"] /\ handle[o] = "held"
           /\ deferred' = deferred
        \/ /\ handle' = [handle EXCEPT ![o] = "freed"]
           /\ deferred' = [deferred EXCEPT ![o] = <<>>]
    BY DEF Cancel, Release
  <1>3. \A p \in Ops \ {o} :
          UNCHANGED <<job[p], task[p], handle[p], events[p], deferred[p], ended[p]>>
    BY <1>t, <1>1, <1>2 DEF TypeOK
  <1>4. /\ events'[o] = <<>>
        /\ \/ handle'[o] = "left" /\ handle[o] = "held" /\ deferred'[o] = deferred[o]
           \/ handle'[o] = "freed" /\ deferred'[o] = <<>>
    BY <1>t, <1>1, <1>2 DEF TypeOK
  <1>5. Lives(o)'
    BY <1>t, <1>1, <1>4 DEF Fine, Lives, dataVars
  <1>6. EndsInTurn(o)'
    BY <1>t, <1>1, <1>4, NoElements DEF Fine, EndsInTurn
  <1>7. Truth(o)' /\ StoreGrows
    <2>1. OnItsWay(o)' = ToSet(events'[o]) \cup ToSet(deferred'[o])
      BY DEF OnItsWay
    <2>2. OnItsWay(o)' \subseteq OnItsWay(o)
      BY <1>4, <2>1, NoElements DEF OnItsWay
    <2> QED
      BY <1>1, <2>2, FewerStayTrue DEF Completed
  <1>8. Fine(o)'
    BY <1>5, <1>6, <1>7 DEF Fine
  <1> QED
    BY <1>3, <1>7, <1>8, OwnStep

\* Every step keeps the invariant.
LEMMA TransfersStep == TInv /\ [Next]_vars => TInv'
  <1> SUFFICES ASSUME TInv, [Next]_vars PROVE TInv'
    OBVIOUS
  <1>t. TypeOK'
    BY TypeStep
  <1>1. ASSUME UNCHANGED <<job, task, handle, events, deferred, ended>>, UNCHANGED dataVars
        PROVE  TInv'
    <2>1. StoreGrows
      BY <1>1, StoreStays DEF TInv
    <2>2. ASSUME NEW o \in Ops PROVE Fine(o)'
      BY <1>t, <1>1, <2>1, OthersStay DEF TInv, Fine
    <2> QED
      BY <1>t, <2>2 DEF TInv, Fine
  <1>2. CASE DropDepot \/ OpenAny \/ Opened \/ Connect \/ Serve \/ RuntimeStops \/ UNCHANGED vars
    BY <1>1, <1>2
    DEF DropDepot, OpenAny, Open, Opened, Connect, Serve, RuntimeStops, vars, objectVars, dataVars
  <1> QED
    BY <1>t, <1>2, TaskStep, StartKeeps, DrainKeeps, EmitKeeps, LetGoKeeps DEF Next, StartAny

-----------------------------------------------------------------------------
\* The theorems.

\* The invariant holds in every state.
THEOREM TransfersInvariant == Spec => []TInv
  <1>1. TInv /\ [Next]_vars => TInv'
    BY TransfersStep
  <1> QED
    BY <1>1, TransfersInit, PTL DEF Spec

\* Whatever shares a blob or a name with it, a move that is told to be completed
\* left the whole blob in the store, and its tag, unless the name was taken from
\* the blob since; and no status promises too much.
THEOREM SignalsAreTrue == Spec => []SignalsTellTheTruth
  <1>1. TInv => SignalsTellTheTruth
    BY DEF TInv, Truth, Given, SignalsTellTheTruth
  <1> QED
    BY <1>1, TransfersInvariant, PTL

-----------------------------------------------------------------------------
\* The handles.

\* The deferred signals of an operation as Reports sees them.
Shown(queue) == [i \in DOMAIN queue |-> Kind(queue[i])]

\* They are a sequence of kinds, as long as the signals.
LEMMA ShownTypes ==
    ASSUME NEW queue \in Seq(Events)
    PROVE  /\ Shown(queue) \in Seq({"news", "end"}) /\ Len(Shown(queue)) = Len(queue)
           /\ Len(queue) \in Nat
           /\ \A i \in 1 .. Len(queue) : Shown(queue)[i] = Kind(queue[i])
  <1> DEFINE n == Len(queue)
             shown == [i \in 1 .. n |-> Kind(queue[i])]
  <1>1. DOMAIN queue = 1 .. n /\ n \in Nat
    BY LenProperties
  <1>2. \A i \in 1 .. n : Kind(queue[i]) \in {"news", "end"}
    BY DEF Kind
  <1>3. shown \in Seq({"news", "end"}) /\ Len(shown) = n /\ \A i \in 1 .. n : shown[i] = Kind(queue[i])
    BY <1>1, <1>2
  <1> QED
    BY <1>1, <1>3 DEF Shown

\* A frame shows the script the channel's events behind what was deferred.
LEMMA DrainIsAFrame ==
    ASSUME TInv, NEW o \in Ops, Drain(o)
    PROVE  Handle(o)!Frame
  <1> USE DEF objectVars
  <1>t. TypeOK /\ Fine(o)
    BY DEF TInv, Fine
  <1> DEFINE q == events[o]
             d == Len(deferred[o])
             n == Len(q)
             before == Shown(deferred[o])
             after == Shown(deferred'[o])
  <1>1. /\ deferred[o] \in Seq(Events) /\ q \in Seq(Events) /\ deferred'[o] = deferred[o] \o q
        /\ q # <<>> /\ handle[o] = "held" /\ ended'[o] = ended[o]
    BY <1>t DEF Drain, Handled, TypeOK
  <1>2. /\ deferred'[o] \in Seq(Events) /\ Len(deferred'[o]) = d + n /\ d \in Nat /\ n \in Nat
        /\ \A i \in 1 .. d + n : deferred'[o][i] = IF i <= d THEN deferred[o][i] ELSE q[i - d]
    <2> DEFINE a == deferred[o] \o q
    <2>1. /\ a \in Seq(Events) /\ Len(a) = d + n /\ d \in Nat /\ n \in Nat
          /\ \A i \in 1 .. d + n : a[i] = IF i <= d THEN deferred[o][i] ELSE q[i - d]
      BY <1>1, ConcatElements, ZenonT(30)
    <2>2. deferred'[o] = a
      BY <1>1
    <2> HIDE DEF a, d, n, q
    <2> QED
      BY <2>1, <2>2
  <1>n. n # 0
    BY <1>1, EmptySeq
  <1>3. before \in Seq({"news", "end"}) /\ Len(before) = d /\ \A i \in 1 .. d : before[i] = Kind(deferred[o][i])
    BY <1>1, ShownTypes
  <1>4. /\ after \in Seq({"news", "end"}) /\ Len(after) = d + n
        /\ \A i \in 1 .. d + n : after[i] = Kind(deferred'[o][i])
    BY <1>2, ShownTypes
  <1>s. /\ before = [i \in DOMAIN deferred[o] |-> Kind(deferred[o][i])]
        /\ after = [i \in DOMAIN (deferred'[o]) |-> Kind(deferred'[o][i])]
    BY DEF Shown
  <1>7. \A i \in 1 .. n : q[i] \in Ends => i = n
    <2>1. DOMAIN q = 1 .. n
      BY <1>1, LenProperties
    <2> QED
      BY <1>t, <2>1 DEF Fine, EndsInTurn
  <1>10. handle'[o] = IF q[n] \in Ends THEN "gone" ELSE "held"
    <2>1. DOMAIN q = 1 .. n /\ n \in 1 .. n
      BY <1>1, <1>2, <1>n, LenProperties
    <2>2. (\E i \in DOMAIN q : q[i] \in Ends) <=> q[n] \in Ends
      BY <1>7, <2>1
    <2>3. handle' = IF \E i \in DOMAIN q : q[i] \in Ends THEN [handle EXCEPT ![o] = "gone"] ELSE handle
      BY DEF Drain, Handled
    <2> QED
      BY <1>t, <1>1, <2>2, <2>3 DEF TypeOK
  <1> HIDE DEF d, n, before, after, q
  <1>5. ASSUME NEW i \in 1 .. d PROVE after[i] = before[i]
    <2>1. i \in 1 .. d + n /\ i <= d
      BY <1>2
    <2> QED
      BY <1>2, <1>3, <1>4, <2>1
  <1>6. ASSUME NEW i \in d + 1 .. d + n
        PROVE  i - d \in 1 .. n /\ after[i] = Kind(q[i - d])
    <2>1. i \in 1 .. d + n /\ ~(i <= d) /\ i - d \in 1 .. n
      BY <1>2
    <2> QED
      BY <1>2, <1>4, <2>1
  <1>8. ASSUME NEW i \in d + 1 .. (d + n) - 1 PROVE after[i] = "news"
    <2>1. i \in d + 1 .. d + n /\ i - d # n
      BY <1>2
    <2> QED
      BY <1>6, <1>7, <2>1 DEF Kind
  <1>9. after[d + n] = "end" <=> q[n] \in Ends
    <2>1. d + n \in d + 1 .. d + n /\ (d + n) - d = n
      BY <1>2, <1>n
    <2> QED
      BY <1>6, <2>1 DEF Kind
  <1>11. d <= d + n /\ d < d + n
    BY <1>2, <1>n
  <1> QED
    BY <1>1, <1>3, <1>4, <1>s, <1>5, <1>8, <1>9, <1>10, <1>11, ZenonT(30) DEF Handle!Frame

\* The signal Godot emits is the oldest one shown, and the script heard no end
\* before it.
LEMMA EmitIsAnEmit ==
    ASSUME TInv, NEW o \in Ops, Emit(o)
    PROVE  Handle(o)!Emit
  <1> USE DEF objectVars
  <1>t. TypeOK /\ Fine(o)
    BY DEF TInv, Fine
  <1> DEFINE d == deferred[o]
             e == Head(d)
             before == Shown(d)
             after == Shown(deferred'[o])
  <1>1. /\ d # <<>> /\ handle' = handle /\ d \in Seq(Events) /\ deferred'[o] = Tail(d)
        /\ ended'[o] = IF e \in Ends THEN e[1] ELSE ended[o]
    BY <1>t DEF Emit, TypeOK
  <1>2. /\ Tail(d) \in Seq(Events) /\ e = d[1] /\ Len(d) \in Nat \ {0} /\ Len(Tail(d)) = Len(d) - 1
        /\ \A i \in 1 .. Len(d) - 1 : Tail(d)[i] = d[i + 1]
    BY <1>1, TailElements
  <1>3. before \in Seq({"news", "end"}) /\ Len(before) = Len(d) /\ \A i \in 1 .. Len(d) : before[i] = Kind(d[i])
    BY <1>1, ShownTypes
  <1>4. /\ after \in Seq({"news", "end"}) /\ Len(after) = Len(Tail(d))
        /\ \A i \in 1 .. Len(Tail(d)) : after[i] = Kind(Tail(d)[i])
    BY <1>1, <1>2, ShownTypes
  <1>s. /\ before = [i \in DOMAIN deferred[o] |-> Kind(deferred[o][i])]
        /\ after = [i \in DOMAIN (deferred'[o]) |-> Kind(deferred'[o][i])]
    BY DEF Shown
  <1>7. ended[o] = "no"
    BY <1>t, <1>1 DEF Fine, EndsInTurn
  <1> HIDE DEF d, e, before, after
  <1>5. before # <<>> /\ Head(before) = before[1] /\ before[1] = Kind(e)
    <2>1. 1 \in 1 .. Len(d) /\ Len(before) # 0
      BY <1>2, <1>3
    <2>2. before # <<>>
      BY <1>3, <2>1, EmptySeq
    <2> QED
      BY <1>2, <1>3, <2>1, <2>2, HeadTailProperties
  <1>6. after = Tail(before)
    <2>1. /\ Tail(before) \in Seq({"news", "end"}) /\ Len(Tail(before)) = Len(d) - 1
          /\ \A i \in 1 .. Len(Tail(before)) : Tail(before)[i] = before[i + 1]
      BY <1>3, <1>5, HeadTailProperties
    <2>2. ASSUME NEW i \in 1 .. Len(after) PROVE after[i] = Tail(before)[i]
      <3>1. i + 1 \in 1 .. Len(d) /\ i \in 1 .. Len(Tail(d)) /\ i \in 1 .. Len(d) - 1
        BY <1>2, <1>4
      <3>2. after[i] = Kind(d[i + 1])
        BY <1>2, <1>4, <3>1
      <3>3. Tail(before)[i] = Kind(d[i + 1])
        BY <1>3, <2>1, <3>1
      <3> QED
        BY <3>2, <3>3
    <2>3. Len(after) = Len(Tail(before))
      BY <1>2, <1>4, <2>1
    <2> QED
      BY <1>4, <2>1, <2>2, <2>3, SeqEqual
  <1>8. ended'[o] # "no" <=> Head(before) = "end"
    <2>1. e \in Ends => e[1] # "no"
      BY EventFacts
    <2> QED
      BY <1>1, <1>5, <1>7, <2>1 DEF Kind
  <1> QED
    BY <1>1, <1>s, <1>5, <1>6, <1>7, <1>8 DEF Handle!Emit

\* Each operation is a handle, whatever the others do to the store they share:
\* the script hears news, at most one of completed and failed, and nothing
\* behind that.
THEOREM TransfersAreHandles == Spec => AreHandles
  <1>1. Init => \A o \in Ops : Handle(o)!Init
    <2> SUFFICES ASSUME Init, NEW o \in Ops PROVE Handle(o)!Init
      OBVIOUS
    <2>1. deferred[o] = <<>> /\ handle[o] = "none" /\ ended[o] = "no"
      BY DEF Init
    <2>2. [i \in DOMAIN deferred[o] |-> Kind(deferred[o][i])] = <<>>
      BY <2>1
    <2> QED
      BY <2>1, <2>2 DEF Handle!Init
  <1>2. TInv /\ [Next]_vars => \A o \in Ops : [Handle(o)!Next]_(Handle(o)!vars)
    <2> SUFFICES ASSUME TInv, [Next]_vars, NEW o \in Ops PROVE [Handle(o)!Next]_(Handle(o)!vars)
      OBVIOUS
    <2> USE DEF objectVars
    <2>t. TypeOK
      BY DEF TInv
    <2>1. ASSUME UNCHANGED <<handle[o], deferred[o], ended[o]>> PROVE UNCHANGED Handle(o)!vars
      BY <2>1 DEF Handle!vars
    <2>2. ASSUME NEW p \in Ops, NEW j \in Jobs, Start(p, j) PROVE [Handle(o)!Next]_(Handle(o)!vars)
      <3>1. CASE p = o
        <4>1. handle[o] = "none" /\ handle'[o] = "held" /\ UNCHANGED <<deferred, ended>>
          BY <2>t, <2>2, <3>1 DEF Start, TypeOK
        <4>2. Handle(o)!Begin
          BY <4>1 DEF Handle!Begin
        <4> QED
          BY <4>2 DEF Handle!Next
      <3>2. CASE p # o
        <4>1. UNCHANGED <<handle[o], deferred[o], ended[o]>>
          BY <2>t, <2>2, <3>2 DEF Start, TypeOK
        <4> QED
          BY <2>1, <4>1
      <3> QED
        BY <3>1, <3>2
    <2>3. ASSUME NEW p \in Ops, Drain(p) PROVE [Handle(o)!Next]_(Handle(o)!vars)
      <3>1. CASE p = o
        BY <2>3, <3>1, DrainIsAFrame DEF Handle!Next
      <3>2. CASE p # o
        <4>1. UNCHANGED <<handle[o], deferred[o], ended[o]>>
          BY <2>t, <2>3, <3>2 DEF Drain, Handled, TypeOK
        <4> QED
          BY <2>1, <4>1
      <3> QED
        BY <3>1, <3>2
    <2>4. ASSUME NEW p \in Ops, Emit(p) PROVE [Handle(o)!Next]_(Handle(o)!vars)
      <3>1. CASE p = o
        BY <2>4, <3>1, EmitIsAnEmit DEF Handle!Next
      <3>2. CASE p # o
        <4>1. UNCHANGED <<handle[o], deferred[o], ended[o]>>
          BY <2>t, <2>4, <3>2 DEF Emit, TypeOK
        <4> QED
          BY <2>1, <4>1
      <3> QED
        BY <3>1, <3>2
    <2>5. ASSUME NEW p \in Ops, Cancel(p) PROVE [Handle(o)!Next]_(Handle(o)!vars)
      <3>1. CASE p = o
        <4>1. handle[o] = "held" /\ handle'[o] = "left" /\ UNCHANGED <<deferred, ended>>
          BY <2>t, <2>5, <3>1 DEF Cancel, TypeOK
        <4>2. Handle(o)!LetGo
          BY <4>1 DEF Handle!LetGo
        <4> QED
          BY <4>2 DEF Handle!Next
      <3>2. CASE p # o
        <4>1. UNCHANGED <<handle[o], deferred[o], ended[o]>>
          BY <2>t, <2>5, <3>2 DEF Cancel, TypeOK
        <4> QED
          BY <2>1, <4>1
      <3> QED
        BY <3>1, <3>2
    <2>6. ASSUME NEW p \in Ops, Release(p) PROVE [Handle(o)!Next]_(Handle(o)!vars)
      <3>1. CASE p = o
        <4>1. /\ handle[o] \in {"held", "gone", "left"} /\ handle'[o] = "freed" /\ UNCHANGED ended
              /\ deferred'[o] = <<>>
          BY <2>t, <2>6, <3>1 DEF Release, TypeOK
        <4>2. [i \in DOMAIN (deferred'[o]) |-> Kind(deferred'[o][i])] = <<>>
          BY <4>1
        <4>3. Handle(o)!Release
          BY <4>1, <4>2 DEF Handle!Release
        <4> QED
          BY <4>3 DEF Handle!Next
      <3>2. CASE p # o
        <4>1. UNCHANGED <<handle[o], deferred[o], ended[o]>>
          BY <2>t, <2>6, <3>2 DEF Release, TypeOK
        <4> QED
          BY <2>1, <4>1
      <3> QED
        BY <3>1, <3>2
    <2>7. ASSUME NEW p \in Ops, Ready(p) \/ Progress(p) \/ WorkDone(p) \/ Keep(p) \/ Answer(p) \/ WorkFails(p) \/ Cut(p)
          PROVE  UNCHANGED Handle(o)!vars
      BY <2>1, <2>7 DEF Ready, Progress, WorkDone, Keep, Answer, WorkFails, Cut
    <2>8. CASE DropDepot \/ OpenAny \/ Opened \/ Connect \/ Serve \/ RuntimeStops \/ UNCHANGED vars
      BY <2>1, <2>8 DEF DropDepot, OpenAny, Open, Opened, Connect, Serve, RuntimeStops, vars
    <2> QED
      BY <2>2, <2>3, <2>4, <2>5, <2>6, <2>7, <2>8 DEF Next, StartAny
  <1> QED
    BY <1>1, <1>2, TransfersInvariant, PTL DEF Spec, AreHandles
=============================================================================
