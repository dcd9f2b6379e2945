---------------------------- MODULE TopicProofs -----------------------------
(***************************************************************************)
(* Proofs about Topic, for any set of peers and any number of events and   *)
(* commands: neighbors() differs from what the signals told only by what   *)
(* is on its way, and the object is a handle as Reports specifies it.      *)
(***************************************************************************)
EXTENDS Topic, SequenceTheorems, TLAPS

\* Before it is subscribed a topic is empty.
FreshIsEmpty ==
    topic = "none" =>
      task = "none" /\ neighbors = {} /\ around = {} /\ deferred = <<>> /\ ended = "no"

\* The task has an event in hand exactly while it reports one.
HandIsReported == hand # NOTHING <=> task = "reporting"

\* The object that lets go of its channel leaves nothing in it.
ChannelGoesToo == topic # "held" => events = <<>>

\* An end is the last event of the channel, and its task is over; it is the
\* last signal deferred, and the object has let go; and once it was heard
\* nothing is deferred any more.
EndsAreLast ==
    /\ \A i \in 1 .. Len(events) :
         events[i] \in Ends => i = Len(events) /\ task \notin Alive
    /\ \A i \in 1 .. Len(deferred) :
         deferred[i] \in Ends => i = Len(deferred) /\ topic \notin {"none", "held"}
    /\ ended # "no" => deferred = <<>> /\ topic \notin {"none", "held"}

\* Every command the swarm took, is asked to take or has to take was given.
SentWereGiven ==
    sent + Len(commands) + (IF task = "sending" THEN 1 ELSE 0) <= given

\* The inductive invariant.
TInv ==
    /\ TypeOK
    /\ FreshIsEmpty /\ HandIsReported /\ ChannelGoesToo /\ SentWereGiven
    /\ EndsAreLast
    /\ NeighborsMatchSignals

-----------------------------------------------------------------------------
\* The events.

\* A neighbour event names a peer, and the kinds of event differ.
LEMMA EventKinds ==
    /\ \A event \in News :
         event[1] \in {"neighbor_up", "neighbor_down"} => event[2] \in Peers
    /\ \A p \in Peers : <<"neighbor_up", p>> \in News /\ <<"neighbor_down", p>> \in News
    /\ <<"lagged">> \in Ends /\ <<"closed">> \in Ends
    /\ NOTHING \notin Events
    /\ News \subseteq Events /\ Ends \subseteq Events
    /\ \A event \in News : event \notin Ends
  BY DEF News, MESSAGE, Ends, NOTHING, Events

\* Noting an event keeps a set of peers one.
LEMMA NotedIsASet ==
    ASSUME NEW set \in SUBSET Peers, NEW event \in Events
    PROVE  Noted(set, event) \in SUBSET Peers
  <1>1. CASE event \in News
    BY <1>1, EventKinds DEF Noted
  <1>2. CASE event \in Ends
    BY <1>2 DEF Noted, Ends
  <1> QED
    BY <1>1, <1>2 DEF Events

\* The initial states satisfy the invariant.
LEMMA TopicInit == Init => TInv
  <1> SUFFICES ASSUME Init PROVE TInv
    OBVIOUS
  <1> USE MaxEventsIsNat, MaxCommandsIsNat DEF Init
  <1>1. TypeOK
    <2>1. <<>> \in Seq(1 .. MaxCommands) /\ <<>> \in Seq(Events)
      OBVIOUS
    <2>2. ticking \in BOOLEAN /\ neighbors \subseteq Peers /\ around \subseteq Peers
      OBVIOUS
    <2> QED
      BY <2>1, <2>2 DEF TypeOK, Alive
  <1>2. FreshIsEmpty /\ HandIsReported /\ ChannelGoesToo
    BY DEF FreshIsEmpty, HandIsReported, ChannelGoesToo
  <1>3. SentWereGiven
    BY DEF SentWereGiven
  <1>4. EndsAreLast
    BY DEF EndsAreLast
  <1>5. NeighborsMatchSignals
    BY DEF NeighborsMatchSignals
  <1> QED
    BY <1>1, <1>2, <1>3, <1>4, <1>5 DEF TInv

\* Next keeps the types.
LEMMA TypeStep == TInv /\ [Next]_vars => TypeOK'
  <1> SUFFICES ASSUME TInv, [Next]_vars PROVE TypeOK'
    OBVIOUS
  <1> USE MaxEventsIsNat, MaxCommandsIsNat
      DEF TInv, TypeOK, objectVars, taskVars, scriptVars
  <1>a. ASSUME NEW event \in Events, Sent(event) PROVE events' \in Seq(Events)
    BY <1>a DEF Sent
  <1>b. ASSUME NEW kind \in {"lagged", "closed"}, FinishWith(kind)
        PROVE  /\ events' \in Seq(Events)
               /\ task' = "ended" /\ commands' = <<>>
    <2>1. <<kind>> \in Events
      BY EventKinds
    <2> QED
      BY <1>a, <1>b, <2>1 DEF FinishWith, Finish
  <1>c. <<>> \in Seq(1 .. MaxCommands) /\ <<>> \in Seq(Events)
    OBVIOUS
  <1>1. CASE Subscribe
    <2>1. <<<<"closed">>>> \in Seq(Events)
      BY EventKinds
    <2> QED
      BY <1>1, <2>1 DEF Subscribe, Alive
  <1>2. CASE Command
    <2>1. given + 1 \in 1 .. MaxCommands
      BY <1>2 DEF Command
    <2>2. commands' \in Seq(1 .. MaxCommands)
      BY <1>2, <2>1, AppendProperties DEF Command
    <2> QED
      BY <1>2, <2>1, <2>2 DEF Command
  <1>3. CASE Drain
    <2>1. deferred' \in Seq(Events)
      BY <1>3, ConcatProperties DEF Drain, Handled
    <2> QED
      BY <1>3, <1>c, <2>1 DEF Drain, Handled
  <1>4. CASE Emit
    <2>1. deferred # <<>> /\ Head(deferred) \in Events /\ deferred' \in Seq(Events)
      BY <1>4, HeadTailProperties DEF Emit
    <2>2. around' \in SUBSET Peers
      BY <1>4, <2>1, NotedIsASet DEF Emit
    <2>3. ended' \in {"no", "lagged", "closed"}
      BY <1>4, <2>1 DEF Emit, Ends
    <2> QED
      BY <1>4, <2>1, <2>2, <2>3 DEF Emit
  <1>5. CASE Leave \/ Release
    BY <1>5, <1>c DEF Leave, Release
  <1>6. CASE Subscribed
    <2>1. events' \in Seq(Events) /\ commands' \in Seq(1 .. MaxCommands)
          /\ task' \in Alive \cup {"none", "ended", "cut"}
      BY <1>6, <1>b, <1>c DEF Subscribed, Alive
    <2> QED
      BY <1>6, <2>1 DEF Subscribed
  <1>7. CASE TakeCommand
    <2>1. commands' \in Seq(1 .. MaxCommands)
      BY <1>7, HeadTailProperties DEF TakeCommand
    <2> QED
      BY <1>7, <2>1 DEF TakeCommand, Alive
  <1>8. CASE CommandDone
    <2>1. sent < MaxCommands
      <3>1. Len(commands) \in Nat /\ task = "sending"
        BY <1>8 DEF CommandDone
      <3> QED
        BY <3>1 DEF SentWereGiven
    <2>2. sent' \in 0 .. MaxCommands
      BY <1>8, <2>1 DEF CommandDone
    <2>3. events' \in Seq(Events) /\ commands' \in Seq(1 .. MaxCommands)
          /\ task' \in Alive \cup {"none", "ended", "cut"}
      BY <1>8, <1>b, <1>c DEF CommandDone, Alive
    <2> QED
      BY <1>8, <2>2, <2>3 DEF CommandDone
  <1>9. CASE CommandsClosed
    BY <1>9, <1>c DEF CommandsClosed, Finish
  <1>10. ASSUME NEW event \in News, Read(event) PROVE TypeOK'
    <2>1. neighbors' \in SUBSET Peers
      BY <1>10, NotedIsASet, EventKinds DEF Read
    <2> QED
      BY <1>10, <2>1 DEF Read, Alive
  <1>11. CASE Report
    <2>1. hand \in Events
      BY <1>11, EventKinds DEF Report, HandIsReported
    <2>2. events' \in Seq(Events)
      BY <1>11, <1>a, <2>1 DEF Report
    <2> QED
      BY <1>11, <1>c, <2>2 DEF Report, Finish, Alive
  <1>12. ASSUME NEW kind \in {"lagged", "closed"}, StreamEnds(kind) PROVE TypeOK'
    BY <1>12, <1>b, <1>c DEF StreamEnds
  <1>13. CASE RuntimeStops \/ Cut
    BY <1>13, <1>c DEF RuntimeStops, Cut
  <1>14. CASE UNCHANGED vars
    BY <1>14 DEF vars
  <1> QED
    BY <1>1, <1>2, <1>3, <1>4, <1>5, <1>6, <1>7, <1>8, <1>9, <1>10, <1>11, <1>12, <1>13, <1>14
    DEF Next, ReadAny, StreamEndsAny

\* The task, its hand, its commands and the channel keep to each other.
LEMMA TaskStep ==
    TInv /\ [Next]_vars => FreshIsEmpty' /\ HandIsReported' /\ ChannelGoesToo'
  <1> SUFFICES ASSUME TInv, [Next]_vars
               PROVE  FreshIsEmpty' /\ HandIsReported' /\ ChannelGoesToo'
    OBVIOUS
  <1> USE DEF TInv, objectVars, taskVars, scriptVars
  <1>1. FreshIsEmpty'
    <2>1. ASSUME topic' = "none" PROVE topic = "none"
      BY <2>1 DEF Next, Subscribe, Command, Drain, Handled, Emit, Leave, Release, Subscribed,
         TakeCommand, CommandDone, CommandsClosed, ReadAny, Read, Report, StreamEndsAny,
         StreamEnds, RuntimeStops, Cut, vars
    <2>2. CASE topic = "none"
      <3>1. task = "none" /\ neighbors = {} /\ around = {} /\ deferred = <<>> /\ ended = "no"
        BY <2>2 DEF FreshIsEmpty
      <3> QED
        BY <2>2, <3>1 DEF FreshIsEmpty, Next, Subscribe, Command, Drain, Emit, Leave, Release,
           Subscribed, TakeCommand, CommandDone, CommandsClosed, ReadAny, Read, Report,
           StreamEndsAny, StreamEnds, RuntimeStops, Cut, Alive, vars
    <2> QED
      BY <2>1, <2>2 DEF FreshIsEmpty
  <1>2. HandIsReported'
    <2>1. CASE ReadAny
      <3>1. PICK event \in News : Read(event)
        BY <2>1 DEF ReadAny
      <3>2. hand' = event /\ task' = "reporting"
        BY <3>1 DEF Read
      <3> QED
        BY <3>2, EventKinds DEF HandIsReported
    <2>2. CASE ~ReadAny
      BY <2>2 DEF HandIsReported, Next, Subscribe, Command, Drain, Emit, Leave, Release,
         Subscribed, TakeCommand, CommandDone, CommandsClosed, Report, FreshIsEmpty,
         StreamEndsAny, StreamEnds, FinishWith, Finish, RuntimeStops, Cut, vars
    <2> QED
      BY <2>1, <2>2
  <1>3. ChannelGoesToo'
    BY DEF ChannelGoesToo, Next, Subscribe, Command, Drain, Handled, Emit, Leave, Release,
       Subscribed, TakeCommand, CommandDone, CommandsClosed, ReadAny, Read, Report,
       StreamEndsAny, StreamEnds, FinishWith, Sent, RuntimeStops, Cut, vars
  <1> QED
    BY <1>1, <1>2, <1>3

\* A command passes from the channel to the task to the swarm, or is lost.
LEMMA CommandsStep == TInv /\ [Next]_vars => SentWereGiven'
  <1> SUFFICES ASSUME TInv, [Next]_vars PROVE SentWereGiven'
    OBVIOUS
  <1> USE DEF TInv, objectVars, taskVars, scriptVars
  <1>a. /\ Len(commands) \in Nat /\ sent \in Nat /\ given \in Nat
        /\ sent + Len(commands) <= given
        /\ task = "sending" => sent + Len(commands) + 1 <= given
    BY MaxCommandsIsNat DEF TypeOK, SentWereGiven
  <1>b. ASSUME commands' = <<>>, task' # "sending", UNCHANGED <<sent, given>>
        PROVE  SentWereGiven'
    BY <1>a, <1>b DEF SentWereGiven
  <1>c. ASSUME UNCHANGED <<commands, sent, given>>, task' = "sending" => task = "sending"
        PROVE  SentWereGiven'
    BY <1>a, <1>c DEF SentWereGiven
  <1>1. CASE Command
    <2>1. Len(commands') = Len(commands) + 1
      BY <1>1, MaxCommandsIsNat, AppendProperties DEF Command, TypeOK
    <2> QED
      BY <1>1, <1>a, <2>1 DEF Command, SentWereGiven
  <1>2. CASE TakeCommand
    <2>1. Len(commands') = Len(commands) - 1
      BY <1>2, HeadTailProperties DEF TakeCommand, TypeOK
    <2> QED
      BY <1>2, <1>a, <2>1 DEF TakeCommand, SentWereGiven
  <1>3. CASE CommandDone
    <2>1. CASE task' = "running" /\ sent' = sent + 1 /\ UNCHANGED commands
      BY <1>3, <1>a, <2>1 DEF CommandDone, SentWereGiven
    <2>2. CASE FinishWith("closed") /\ UNCHANGED sent
      BY <1>3, <1>b, <2>2 DEF CommandDone, FinishWith, Finish
    <2> QED
      BY <1>3, <2>1, <2>2 DEF CommandDone
  <1>4. CASE Subscribe \/ Drain \/ Emit \/ Leave \/ Release \/ ReadAny \/ RuntimeStops
    BY <1>4, <1>c DEF Subscribe, Drain, Emit, Leave, Release, ReadAny, Read, RuntimeStops
  <1>5. CASE Subscribed \/ CommandsClosed \/ Report \/ StreamEndsAny \/ Cut
    BY <1>5, <1>b, <1>c DEF Subscribed, CommandsClosed, Report, StreamEndsAny, StreamEnds, Cut,
       FinishWith, Finish
  <1>6. CASE UNCHANGED vars
    BY <1>6, <1>c DEF vars
  <1> QED
    BY <1>1, <1>2, <1>3, <1>4, <1>5, <1>6 DEF Next

-----------------------------------------------------------------------------
\* The ends.

\* A task that is there may send once more: news, or its end as it finishes.
LEMMA SentKeepsEndsLast ==
    ASSUME TInv, NEW event \in Events, Sent(event), task \in Alive,
           event \in Ends => task' \notin Alive,
           UNCHANGED <<deferred, topic, ended>>
    PROVE  EndsAreLast'
  <1> USE DEF TInv
  <1>1. \A i \in 1 .. Len(events) : events[i] \notin Ends
    BY DEF EndsAreLast
  <1>2. \A i \in 1 .. Len(events') : events'[i] \in Ends => i = Len(events') /\ task' \notin Alive
    <2>1. CASE events' = events
      BY <1>1, <2>1
    <2>2. CASE events' = Append(events, event)
      <3>1. /\ Len(events) \in Nat /\ Len(events') = Len(events) + 1
            /\ events'[Len(events) + 1] = event
            /\ \A i \in 1 .. Len(events) : events'[i] = events[i]
        BY <2>2, AppendProperties DEF TypeOK
      <3>2. ASSUME NEW i \in 1 .. Len(events) + 1, events'[i] \in Ends
            PROVE  i = Len(events) + 1 /\ task' \notin Alive
        <4>1. i = Len(events) + 1
          BY <1>1, <3>1, <3>2
        <4> QED
          BY <3>1, <3>2, <4>1
      <3> QED
        BY <3>1, <3>2
    <2> QED
      BY <2>1, <2>2 DEF Sent
  <1> QED
    BY <1>2 DEF EndsAreLast

\* An end stays the last of what the script hears.
LEMMA EndsStep == TInv /\ [Next]_vars => EndsAreLast'
  <1> SUFFICES ASSUME TInv, [Next]_vars PROVE EndsAreLast'
    OBVIOUS
  <1> USE DEF TInv, objectVars, taskVars, scriptVars
  <1>a. Len(events) \in Nat /\ Len(deferred) \in Nat
    BY DEF TypeOK
  <1>b. ASSUME UNCHANGED <<events, deferred, topic, ended>>, task' \in Alive => task \in Alive
        PROVE  EndsAreLast'
    BY <1>b DEF EndsAreLast
  <1>c. ASSUME NEW kind \in {"lagged", "closed"}, FinishWith(kind), task \in Alive,
               UNCHANGED <<deferred, topic, ended>>
        PROVE  EndsAreLast'
    <2>1. <<kind>> \in Events /\ Sent(<<kind>>) /\ task' \notin Alive
      BY <1>c, EventKinds DEF FinishWith, Finish, Alive
    <2> QED
      BY <1>c, <2>1, SentKeepsEndsLast
  <1>1. CASE Subscribe
    <2>1. UNCHANGED <<deferred, ended>> /\ topic = "none" /\ deferred = <<>> /\ ended = "no"
      BY <1>1 DEF Subscribe, FreshIsEmpty
    <2>2. events = <<>>
      BY <2>1 DEF ChannelGoesToo
    <2>3. events' = <<>> \/ (events' = <<<<"closed">>>> /\ task' \notin Alive)
      BY <1>1, <2>2 DEF Subscribe, Alive
    <2>4. \A i \in 1 .. Len(events') : events'[i] \in Ends => i = Len(events') /\ task' \notin Alive
      <3>1. CASE events' = <<>>
        BY <3>1
      <3>2. CASE events' = <<<<"closed">>>> /\ task' \notin Alive
        <4>1. Len(events') = 1
          BY <3>2
        <4> QED
          BY <3>2, <4>1
      <3> QED
        BY <2>3, <3>1, <3>2
    <2> QED
      BY <2>1, <2>4 DEF EndsAreLast
  <1>2. CASE Drain
    <2>1. topic = "held" /\ deferred' = deferred \o events /\ events' = <<>> /\ UNCHANGED ended
      BY <1>2 DEF Drain, Handled
    <2>2. /\ \A i \in 1 .. Len(deferred) : deferred[i] \notin Ends
          /\ ended = "no"
      BY <2>1 DEF EndsAreLast
    <2>3. /\ Len(deferred') = Len(deferred) + Len(events)
          /\ \A i \in 1 .. Len(deferred) + Len(events) : deferred'[i] =
               IF i <= Len(deferred) THEN deferred[i] ELSE events[i - Len(deferred)]
      BY <2>1, ConcatProperties DEF TypeOK
    <2>4. ASSUME NEW i \in 1 .. Len(deferred'), deferred'[i] \in Ends
          PROVE  i = Len(deferred') /\ topic' \notin {"none", "held"}
      <3>1. ~(i <= Len(deferred)) /\ i - Len(deferred) \in 1 .. Len(events)
        BY <1>a, <2>2, <2>3, <2>4
      <3>2. events[i - Len(deferred)] \in Ends
        BY <2>3, <2>4, <3>1
      <3>3. i - Len(deferred) = Len(events)
        BY <3>1, <3>2 DEF EndsAreLast
      <3>4. topic' = "gone"
        <4>1. DOMAIN events = 1 .. Len(events)
          BY LenProperties DEF TypeOK
        <4> QED
          BY <1>2, <3>1, <3>2, <4>1 DEF Drain, Handled
      <3> QED
        BY <1>a, <2>3, <3>3, <3>4
    <2> QED
      BY <2>1, <2>2, <2>4 DEF EndsAreLast
  <1>3. CASE Emit
    <2>1. /\ deferred # <<>> /\ deferred' = Tail(deferred)
          /\ UNCHANGED <<topic, events, task>>
      BY <1>3 DEF Emit
    <2>2. /\ Len(deferred') = Len(deferred) - 1 /\ Len(deferred) \in Nat \ {0}
          /\ \A i \in 1 .. Len(deferred') : deferred'[i] = deferred[i + 1]
          /\ Head(deferred) = deferred[1]
      BY <2>1, HeadTailProperties, EmptySeq DEF TypeOK
    <2>3. ASSUME NEW i \in 1 .. Len(deferred'), deferred'[i] \in Ends
          PROVE  i = Len(deferred') /\ topic' \notin {"none", "held"}
      <3>1. i + 1 \in 1 .. Len(deferred) /\ deferred[i + 1] \in Ends
        BY <2>2, <2>3
      <3>2. i + 1 = Len(deferred) /\ topic \notin {"none", "held"}
        BY <3>1 DEF EndsAreLast
      <3>3. i = Len(deferred')
        BY <2>2, <3>2
      <3> QED
        BY <2>1, <3>2, <3>3
    <2>4. ended = "no"
      BY <2>1 DEF EndsAreLast
    <2>5. ASSUME ended' # "no" PROVE deferred' = <<>> /\ topic' \notin {"none", "held"}
      <3>1. deferred[1] \in Ends
        BY <1>3, <2>2, <2>4, <2>5 DEF Emit
      <3>2. Len(deferred) = 1 /\ topic \notin {"none", "held"}
        BY <2>2, <3>1 DEF EndsAreLast
      <3>3. Len(deferred') = 0 /\ deferred' \in Seq(Events)
        BY <2>1, <2>2, <3>2, HeadTailProperties DEF TypeOK
      <3> QED
        BY <2>1, <3>2, <3>3
    <2> QED
      BY <2>1, <2>3, <2>5 DEF EndsAreLast
  <1>4. CASE Leave
    BY <1>4 DEF Leave, EndsAreLast
  <1>5. CASE Release
    BY <1>5 DEF Release, EndsAreLast
  <1>6. CASE Subscribed
    BY <1>6, <1>b, <1>c DEF Subscribed, Alive
  <1>7. CASE CommandDone
    BY <1>7, <1>b, <1>c DEF CommandDone, Alive
  <1>8. CASE Report
    <2>1. hand \in News /\ task \in Alive /\ Sent(hand) /\ UNCHANGED <<deferred, topic, ended>>
      BY <1>8 DEF Report, HandIsReported, TypeOK, Alive
    <2> QED
      BY <2>1, SentKeepsEndsLast, EventKinds
  <1>9. ASSUME NEW kind \in {"lagged", "closed"}, StreamEnds(kind) PROVE EndsAreLast'
    BY <1>9, <1>c DEF StreamEnds, Alive
  <1>10. CASE Command \/ TakeCommand \/ CommandsClosed \/ ReadAny \/ RuntimeStops \/ Cut
    BY <1>10, <1>b DEF Command, TakeCommand, CommandsClosed, Finish, ReadAny, Read, RuntimeStops,
       Cut, Alive
  <1>11. CASE UNCHANGED vars
    BY <1>11, <1>b DEF vars
  <1> QED
    BY <1>1, <1>2, <1>3, <1>4, <1>5, <1>6, <1>7, <1>8, <1>9, <1>10, <1>11
    DEF Next, StreamEndsAny

-----------------------------------------------------------------------------
\* The neighbours.

\* The two events that say something of a peer.
Up(p) == <<"neighbor_up", p>>
Down(p) == <<"neighbor_down", p>>

\* What noting an event does to each peer.
LEMMA NotedMembers ==
    ASSUME NEW set, NEW event \in Events, NEW p \in Peers
    PROVE  p \in Noted(set, event) <=> event = Up(p) \/ (p \in set /\ event # Down(p))
  <1>1. CASE event \in {"neighbor_up", "neighbor_down"} \X Peers
    <2>1. PICK q \in Peers : event = Up(q) \/ event = Down(q)
      BY <1>1 DEF Up, Down
    <2>2. CASE event = Up(q)
      BY <2>2 DEF Noted, Up, Down
    <2>3. CASE event = Down(q)
      BY <2>3 DEF Noted, Up, Down
    <2> QED
      BY <2>1, <2>2, <2>3
  <1>2. CASE event = MESSAGE
    BY <1>2 DEF Noted, Up, Down, MESSAGE
  <1>3. CASE event \in Ends
    BY <1>3 DEF Noted, Up, Down, Ends
  <1> QED
    BY <1>1, <1>2, <1>3 DEF Events, News

\* The last word of a longer queue is its last event's, if that is about p.
LEMMA KnowsAppend ==
    ASSUME NEW known, NEW queue \in Seq(Events), NEW event \in Events, NEW p
    PROVE  Knows(known, Append(queue, event), p) <=>
             event = Up(p) \/ (Knows(known, queue, p) /\ event # Down(p))
  <1> DEFINE longer == Append(queue, event)
             n == Len(queue)
  <1>1. /\ Len(longer) = n + 1 /\ longer[n + 1] = event /\ n \in Nat
        /\ \A i \in 1 .. n : longer[i] = queue[i]
        /\ longer \in Seq(Events)
    BY AppendProperties, LenProperties
  <1>2. DOMAIN longer = 1 .. n + 1 /\ DOMAIN queue = 1 .. n
    BY <1>1, LenProperties
  <1>3. Up(p) # Down(p)
    BY DEF Up, Down
  <1> HIDE DEF longer, n
  <1>4. ASSUME event = Up(p) PROVE Knows(known, longer, p)
    <2>1. n + 1 \in DOMAIN longer /\ longer[n + 1] = Up(p)
      BY <1>1, <1>2, <1>4
    <2>2. \A j \in DOMAIN longer : ~(j > n + 1)
      BY <1>1, <1>2
    <2> QED
      BY <2>1, <2>2 DEF Knows, Up
  <1>5. ASSUME Knows(known, queue, p), event # Down(p) PROVE Knows(known, longer, p)
    <2>1. \A j \in 1 .. n + 1 : longer[j] = Down(p) => j \in 1 .. n /\ queue[j] = Down(p)
      BY <1>1, <1>5
    <2>2. CASE \E i \in 1 .. n : queue[i] = Up(p) /\ \A j \in 1 .. n : j > i => queue[j] # Down(p)
      <3>1. PICK i \in 1 .. n : queue[i] = Up(p) /\ \A j \in 1 .. n : j > i => queue[j] # Down(p)
        BY <2>2
      <3>2. i \in 1 .. n + 1 /\ longer[i] = Up(p)
        BY <1>1, <3>1
      <3>3. \A j \in 1 .. n + 1 : j > i => longer[j] # Down(p)
        BY <2>1, <3>1
      <3> QED
        BY <1>2, <3>2, <3>3 DEF Knows, Up, Down
    <2>3. CASE p \in known /\ \A i \in 1 .. n : queue[i] # Down(p)
      BY <1>2, <2>1, <2>3 DEF Knows, Down
    <2> QED
      BY <1>2, <1>5, <2>2, <2>3 DEF Knows, Up, Down
  <1>6. ASSUME Knows(known, longer, p), event # Up(p) PROVE Knows(known, queue, p)
    <2>1. CASE \E i \in 1 .. n + 1 : /\ longer[i] = Up(p)
                                      /\ \A j \in 1 .. n + 1 : j > i => longer[j] # Down(p)
      <3>1. PICK i \in 1 .. n + 1 : /\ longer[i] = Up(p)
                                    /\ \A j \in 1 .. n + 1 : j > i => longer[j] # Down(p)
        BY <2>1
      <3>2. i \in 1 .. n /\ queue[i] = Up(p)
        BY <1>1, <1>6, <3>1
      <3>3. \A j \in 1 .. n : j > i => queue[j] # Down(p)
        BY <1>1, <3>1
      <3> QED
        BY <1>2, <3>2, <3>3 DEF Knows, Up, Down
    <2>2. CASE p \in known /\ \A i \in 1 .. n + 1 : longer[i] # Down(p)
      <3>1. \A i \in 1 .. n : queue[i] # Down(p)
        BY <1>1, <2>2
      <3> QED
        BY <1>2, <2>2, <3>1 DEF Knows, Down
    <2> QED
      BY <1>2, <1>6, <2>1, <2>2 DEF Knows, Up, Down
  <1>7. ASSUME Knows(known, longer, p), event # Up(p) PROVE event # Down(p)
    <2> SUFFICES ASSUME event = Down(p) PROVE FALSE
      OBVIOUS
    <2>1. n + 1 \in DOMAIN longer /\ longer[n + 1] = Down(p) /\ longer[n + 1] # Up(p)
      BY <1>1, <1>2, <1>3
    <2>2. \A i \in DOMAIN longer : i # n + 1 => n + 1 > i
      BY <1>1, <1>2
    <2> QED
      BY <1>7, <2>1, <2>2 DEF Knows, Up, Down
  <1>8. Knows(known, longer, p) <=> event = Up(p) \/ (Knows(known, queue, p) /\ event # Down(p))
    BY <1>4, <1>5, <1>6, <1>7
  <1> QED
    BY <1>8 DEF longer

\* Emitting the first signal moves what it says from the queue to the script.
LEMMA KnowsTail ==
    ASSUME NEW known, NEW queue \in Seq(Events), queue # <<>>, NEW p \in Peers
    PROVE  Knows(known, queue, p) <=> Knows(Noted(known, Head(queue)), Tail(queue), p)
  <1> DEFINE rest == Tail(queue)
             first == Head(queue)
             n == Len(rest)
             after == Noted(known, first)
  <1>1. /\ Len(queue) = n + 1 /\ n \in Nat /\ first \in Events
        /\ \A i \in 1 .. n : rest[i] = queue[i + 1]
        /\ rest \in Seq(Events) /\ queue[1] = first
    BY HeadTailProperties, EmptySeq, LenProperties
  <1>2. DOMAIN rest = 1 .. n /\ DOMAIN queue = 1 .. n + 1
    BY <1>1, LenProperties
  <1>3. p \in after <=> first = Up(p) \/ (p \in known /\ first # Down(p))
    BY <1>1, NotedMembers
  <1>4. Up(p) # Down(p)
    BY DEF Up, Down
  <1> HIDE DEF rest, first, n, after
  <1>5. ASSUME Knows(known, queue, p) PROVE Knows(after, rest, p)
    <2>1. CASE \E i \in 1 .. n + 1 : /\ queue[i] = Up(p)
                                      /\ \A j \in 1 .. n + 1 : j > i => queue[j] # Down(p)
      <3>1. PICK i \in 1 .. n + 1 : /\ queue[i] = Up(p)
                                    /\ \A j \in 1 .. n + 1 : j > i => queue[j] # Down(p)
        BY <2>1
      <3>2. CASE i = 1
        <4>1. \A j \in 1 .. n : rest[j] # Down(p)
          BY <1>1, <3>1, <3>2
        <4> QED
          BY <1>1, <1>2, <1>3, <3>1, <3>2, <4>1 DEF Knows, Down
      <3>3. CASE i # 1
        <4>1. i - 1 \in 1 .. n /\ rest[i - 1] = Up(p)
          BY <1>1, <3>1, <3>3
        <4>2. \A j \in 1 .. n : j > i - 1 => rest[j] # Down(p)
          BY <1>1, <3>1
        <4> QED
          BY <1>2, <4>1, <4>2 DEF Knows, Up, Down
      <3> QED
        BY <3>2, <3>3
    <2>2. CASE p \in known /\ \A i \in 1 .. n + 1 : queue[i] # Down(p)
      <3>1. first # Down(p)
        BY <1>1, <2>2
      <3>2. \A j \in 1 .. n : rest[j] # Down(p)
        BY <1>1, <2>2
      <3> QED
        BY <1>2, <1>3, <2>2, <3>1, <3>2 DEF Knows, Down
    <2> QED
      BY <1>2, <1>5, <2>1, <2>2 DEF Knows, Up, Down
  <1>6. ASSUME Knows(after, rest, p) PROVE Knows(known, queue, p)
    <2>1. CASE \E i \in 1 .. n : rest[i] = Up(p) /\ \A j \in 1 .. n : j > i => rest[j] # Down(p)
      <3>1. PICK i \in 1 .. n : rest[i] = Up(p) /\ \A j \in 1 .. n : j > i => rest[j] # Down(p)
        BY <2>1
      <3>2. i + 1 \in 1 .. n + 1 /\ queue[i + 1] = Up(p)
        BY <1>1, <3>1
      <3>3. ASSUME NEW j \in 1 .. n + 1, j > i + 1 PROVE queue[j] # Down(p)
        <4>1. j - 1 \in 1 .. n /\ j - 1 > i /\ rest[j - 1] = queue[(j - 1) + 1]
          BY <1>1, <3>3
        <4> QED
          BY <3>1, <4>1
      <3> QED
        BY <1>2, <3>2, <3>3 DEF Knows, Up, Down
    <2>2. CASE p \in after /\ \A i \in 1 .. n : rest[i] # Down(p)
      <3>1. \A j \in 1 .. n + 1 : j > 1 => queue[j] # Down(p)
        <4> TAKE j \in 1 .. n + 1
        <4> HAVE j > 1
        <4>1. j - 1 \in 1 .. n /\ rest[j - 1] = queue[(j - 1) + 1]
          BY <1>1
        <4> QED
          BY <2>2, <4>1
      <3>2. CASE first = Up(p)
        <4>1. 1 \in 1 .. n + 1 /\ queue[1] = Up(p)
          BY <1>1, <3>2
        <4> QED
          BY <1>2, <3>1, <4>1 DEF Knows, Up, Down
      <3>3. CASE p \in known /\ first # Down(p)
        <4>1. \A j \in 1 .. n + 1 : queue[j] # Down(p)
          BY <1>1, <3>1, <3>3
        <4> QED
          BY <1>2, <3>3, <4>1 DEF Knows, Down
      <3> QED
        BY <1>3, <2>2, <3>2, <3>3
    <2> QED
      BY <1>2, <1>6, <2>1, <2>2 DEF Knows, Up, Down
  <1>7. Knows(known, queue, p) <=> Knows(after, rest, p)
    BY <1>5, <1>6
  <1> QED
    BY <1>7 DEF after, rest, first

\* Appending to the second of two sequences appends to both.
LEMMA ConcatAppend ==
    ASSUME NEW S, NEW s \in Seq(S), NEW t \in Seq(S), NEW x \in S
    PROVE  s \o Append(t, x) = Append(s \o t, x)
  <1>1. Append(t, x) = t \o <<x>> /\ <<x>> \in Seq(S) /\ s \o t \in Seq(S)
    BY AppendIsConcat, ConcatProperties
  <1>2. Append(s \o t, x) = (s \o t) \o <<x>>
    BY <1>1, AppendIsConcat
  <1> QED
    BY <1>1, <1>2, ConcatAssociative

\* Emitting from the first of two sequences leaves the second.
LEMMA ConcatTail ==
    ASSUME NEW S, NEW s \in Seq(S), NEW t \in Seq(S), s # <<>>
    PROVE  /\ s \o t # <<>>
           /\ Head(s \o t) = Head(s)
           /\ Tail(s \o t) = Tail(s) \o t
  <1> DEFINE st == s \o t
  <1>1. /\ st \in Seq(S) /\ Len(st) = Len(s) + Len(t) /\ Len(s) \in Nat \ {0} /\ Len(t) \in Nat
        /\ \A i \in 1 .. Len(s) + Len(t) : st[i] = IF i <= Len(s) THEN s[i] ELSE t[i - Len(s)]
    BY ConcatProperties, EmptySeq, LenProperties
  <1>2. /\ Tail(s) \in Seq(S) /\ Len(Tail(s)) = Len(s) - 1
        /\ \A i \in 1 .. Len(Tail(s)) : Tail(s)[i] = s[i + 1]
    BY HeadTailProperties
  <1> DEFINE u == Tail(s) \o t
  <1>3. /\ u \in Seq(S) /\ Len(u) = Len(Tail(s)) + Len(t)
        /\ \A i \in 1 .. Len(Tail(s)) + Len(t) :
             u[i] = IF i <= Len(Tail(s)) THEN Tail(s)[i] ELSE t[i - Len(Tail(s))]
    BY <1>2, ConcatProperties
  <1> HIDE DEF st, u
  <1>4. st # <<>>
    BY <1>1
  <1>5. /\ Tail(st) \in Seq(S) /\ Len(Tail(st)) = Len(st) - 1
        /\ \A i \in 1 .. Len(Tail(st)) : Tail(st)[i] = st[i + 1]
    BY <1>1, <1>4, HeadTailProperties
  <1>6. Len(Tail(st)) = Len(u)
    BY <1>1, <1>2, <1>3, <1>5
  <1>7. ASSUME NEW i \in 1 .. Len(u) PROVE Tail(st)[i] = u[i]
    <2>1. i + 1 \in 1 .. Len(s) + Len(t) /\ Tail(st)[i] = st[i + 1]
      BY <1>1, <1>2, <1>3, <1>5, <1>6
    <2>2. CASE i <= Len(Tail(s))
      BY <1>1, <1>2, <1>3, <2>1, <2>2
    <2>3. CASE ~(i <= Len(Tail(s)))
      <3>1. st[i + 1] = t[(i + 1) - Len(s)]
        BY <1>1, <1>2, <2>1, <2>3
      <3>2. u[i] = t[i - Len(Tail(s))] /\ i - Len(Tail(s)) = (i + 1) - Len(s)
        BY <1>1, <1>2, <1>3, <2>3
      <3> QED
        BY <2>1, <3>1, <3>2
    <2> QED
      BY <2>2, <2>3
  <1>8. Tail(st) = u
    BY <1>3, <1>5, <1>6, <1>7, SeqEqual
  <1>9. Head(st) = st[1] /\ Head(s) = s[1] /\ st[1] = s[1]
    BY <1>1, <1>4
  <1> QED
    BY <1>4, <1>8, <1>9 DEF st, u

\* Every step applies an event to the set and puts it on its way, passes it on
\* or brings it to the script, and keeps the order.
LEMMA NeighborsStep == TInv /\ [Next]_vars => NeighborsMatchSignals'
  <1> SUFFICES ASSUME TInv, [Next]_vars, topic' = "held", NEW p \in Peers
               PROVE  p \in neighbors' <=> Knows(around', OnTheWay', p)
    BY DEF NeighborsMatchSignals
  <1> USE DEF TInv, objectVars, taskVars, scriptVars
  <1> DEFINE way == deferred \o events
             held == IF hand = NOTHING THEN <<>> ELSE <<hand>>
  <1>a. /\ deferred \in Seq(Events) /\ events \in Seq(Events) /\ way \in Seq(Events)
        /\ held \in Seq(Events) /\ OnTheWay = way \o held /\ OnTheWay \in Seq(Events)
    <2>1. deferred \in Seq(Events) /\ events \in Seq(Events) /\ way \in Seq(Events)
      BY ConcatProperties DEF TypeOK
    <2>2. hand # NOTHING => hand \in Events
      BY EventKinds DEF TypeOK
    <2>3. held \in Seq(Events)
      BY <2>2
    <2>4. OnTheWay = way \o held
      BY DEF OnTheWay
    <2> QED
      BY <2>1, <2>3, <2>4, ConcatProperties
  <1>b. topic = "held" => (p \in neighbors <=> Knows(around, OnTheWay, p))
    BY DEF NeighborsMatchSignals
  <1>c. ASSUME NEW event \in Ends, Sent(event), hand = NOTHING, topic = "held",
               UNCHANGED <<deferred, hand, neighbors, around>>
        PROVE  p \in neighbors' <=> Knows(around', OnTheWay', p)
    <2>1. event \in Events /\ event # Up(p) /\ event # Down(p)
      BY <1>c, EventKinds DEF Ends, Up, Down
    <2>2. events' = Append(events, event)
      BY <1>c DEF Sent
    <2>3. OnTheWay' = (deferred \o Append(events, event)) \o <<>> /\ OnTheWay = way \o <<>>
      BY <1>c, <2>2 DEF OnTheWay
    <2>4. deferred \o Append(events, event) = Append(way, event)
      BY <1>a, <2>1, ConcatAppend
    <2>5. OnTheWay' = Append(way, event) /\ OnTheWay = way
      <3>1. Append(way, event) \in Seq(Events)
        BY <1>a, <2>1, AppendProperties
      <3> QED
        BY <1>a, <2>3, <2>4, <3>1, ConcatEmptySeq
    <2>6. Knows(around, OnTheWay', p) <=> Knows(around, OnTheWay, p)
      BY <1>a, <2>1, <2>5, KnowsAppend
    <2> QED
      BY <1>b, <1>c, <2>6
  <1>d. "closed" \in {"lagged", "closed"} /\ \A kind \in {"lagged", "closed"} : <<kind>> \in Ends
    BY EventKinds
  <1>e. ASSUME UNCHANGED <<deferred, events, hand, neighbors, around>>, topic = "held"
        PROVE  p \in neighbors' <=> Knows(around', OnTheWay', p)
    BY <1>b, <1>e DEF OnTheWay
  <1>1. CASE Subscribe
    <2>1. /\ neighbors' = {} /\ around' = {} /\ deferred' = <<>> /\ hand' = NOTHING
          /\ events' = <<>> \/ events' = <<<<"closed">>>>
      BY <1>1 DEF Subscribe, FreshIsEmpty, HandIsReported, ChannelGoesToo
    <2>2. OnTheWay' = (<<>> \o events') \o <<>>
      BY <2>1 DEF OnTheWay
    <2>3. events' \in Seq(Events)
      <3>1. <<"closed">> \in Events
        BY EventKinds
      <3>2. <<>> \in Seq(Events) /\ <<<<"closed">>>> \in Seq(Events)
        BY <3>1
      <3> QED
        BY <2>1, <3>2
    <2>4. OnTheWay' = events'
      BY <2>2, <2>3, ConcatEmptySeq
    <2>5. \A i \in DOMAIN events' : events'[i] # Up(p)
      <3>1. CASE events' = <<>>
        BY <3>1
      <3>2. CASE events' = <<<<"closed">>>>
        <4>1. \A i \in DOMAIN events' : events'[i] = <<"closed">>
          BY <3>2
        <4> QED
          BY <4>1 DEF Up
      <3> QED
        BY <2>1, <3>1, <3>2
    <2> QED
      BY <2>1, <2>4, <2>5 DEF Knows, Up
  <1>2. CASE Drain
    <2>1. /\ deferred' = way /\ events' = <<>>
          /\ UNCHANGED <<hand, neighbors, around>> /\ topic = "held"
      BY <1>2 DEF Drain, Handled
    <2>2. OnTheWay' = (way \o <<>>) \o held
      BY <2>1 DEF OnTheWay
    <2>3. OnTheWay' = OnTheWay
      BY <1>a, <2>2, ConcatEmptySeq
    <2> QED
      BY <1>b, <2>1, <2>3
  <1>3. CASE Emit
    <2>1. /\ deferred # <<>> /\ deferred' = Tail(deferred)
          /\ around' = Noted(around, Head(deferred))
          /\ UNCHANGED <<events, hand, neighbors, topic>>
      BY <1>3 DEF Emit
    <2>2. OnTheWay' = (Tail(deferred) \o events) \o held
      BY <2>1 DEF OnTheWay
    <2>3. way # <<>> /\ Head(way) = Head(deferred) /\ Tail(way) = Tail(deferred) \o events
      BY <1>a, <2>1, ConcatTail
    <2> HIDE DEF way, held
    <2>4. /\ OnTheWay # <<>> /\ Head(OnTheWay) = Head(deferred)
          /\ Tail(OnTheWay) = OnTheWay'
      <3>1. /\ way \o held # <<>> /\ Head(way \o held) = Head(way)
            /\ Tail(way \o held) = Tail(way) \o held
        BY <1>a, <2>3, ConcatTail
      <3> QED
        BY <1>a, <2>2, <2>3, <3>1
    <2>5. Knows(around, OnTheWay, p) <=> Knows(around', OnTheWay', p)
      BY <1>a, <2>1, <2>4, KnowsTail
    <2> QED
      BY <1>b, <2>1, <2>5
  <1>4. CASE Subscribed
    <2>1. hand = NOTHING /\ topic = "held" /\ UNCHANGED <<deferred, hand, neighbors, around>>
      BY <1>4 DEF Subscribed, HandIsReported
    <2>2. UNCHANGED events \/ Sent(<<"closed">>)
      BY <1>4 DEF Subscribed, FinishWith
    <2> QED
      BY <1>c, <1>d, <1>e, <2>1, <2>2
  <1>5. CASE CommandDone
    <2>1. hand = NOTHING /\ topic = "held" /\ UNCHANGED <<deferred, hand, neighbors, around>>
      BY <1>5 DEF CommandDone, HandIsReported
    <2>2. UNCHANGED events \/ Sent(<<"closed">>)
      BY <1>5 DEF CommandDone, FinishWith
    <2> QED
      BY <1>c, <1>d, <1>e, <2>1, <2>2
  <1>6. ASSUME NEW event \in News, Read(event)
        PROVE  p \in neighbors' <=> Knows(around', OnTheWay', p)
    <2>1. /\ hand = NOTHING /\ hand' = event /\ neighbors' = Noted(neighbors, event)
          /\ UNCHANGED <<deferred, events, around, topic>>
      BY <1>6 DEF Read, HandIsReported
    <2>2. event \in Events /\ event # NOTHING
      BY EventKinds
    <2>3. OnTheWay' = way \o <<event>> /\ OnTheWay = way \o <<>>
      BY <2>1, <2>2 DEF OnTheWay
    <2>4. OnTheWay' = Append(OnTheWay, event)
      <3>1. OnTheWay = way
        BY <1>a, <2>3, ConcatEmptySeq
      <3>2. Append(way, event) = way \o <<event>>
        BY <1>a, <2>2, AppendIsConcat
      <3> QED
        BY <2>3, <3>1, <3>2
    <2>5. Knows(around, OnTheWay', p) <=>
            event = Up(p) \/ (Knows(around, OnTheWay, p) /\ event # Down(p))
      BY <1>a, <2>2, <2>4, KnowsAppend, ZenonT(30)
    <2>6. p \in neighbors' <=> event = Up(p) \/ (p \in neighbors /\ event # Down(p))
      BY <2>1, <2>2, NotedMembers
    <2> QED
      BY <1>b, <2>1, <2>5, <2>6
  <1>7. CASE Report
    <2>1. /\ hand \in Events /\ hand # NOTHING /\ hand' = NOTHING /\ topic = "held"
          /\ events' = Append(events, hand) /\ UNCHANGED <<deferred, neighbors, around>>
      BY <1>7, EventKinds DEF Report, HandIsReported, Sent, TypeOK
    <2>2. OnTheWay' = (deferred \o Append(events, hand)) \o <<>> /\ OnTheWay = way \o <<hand>>
      BY <2>1 DEF OnTheWay
    <2>3. deferred \o Append(events, hand) = Append(way, hand)
      BY <1>a, <2>1, ConcatAppend
    <2>4. Append(way, hand) = way \o <<hand>> /\ Append(way, hand) \in Seq(Events)
      BY <1>a, <2>1, AppendIsConcat, AppendProperties
    <2>5. OnTheWay' = OnTheWay
      BY <2>2, <2>3, <2>4, ConcatEmptySeq
    <2> QED
      BY <1>b, <2>1, <2>5
  <1>8. ASSUME NEW kind \in {"lagged", "closed"}, StreamEnds(kind)
        PROVE  p \in neighbors' <=> Knows(around', OnTheWay', p)
    <2>1. /\ hand = NOTHING /\ topic = "held" /\ UNCHANGED <<deferred, hand, neighbors, around>>
          /\ Sent(<<kind>>)
      BY <1>8 DEF StreamEnds, FinishWith, HandIsReported
    <2> QED
      BY <1>c, <1>d, <2>1
  <1>9. CASE Command \/ TakeCommand \/ CommandsClosed \/ RuntimeStops \/ Cut \/ UNCHANGED vars
    BY <1>9, <1>e DEF Command, TakeCommand, CommandsClosed, RuntimeStops, Cut, vars
  <1> QED
    BY <1>1, <1>2, <1>3, <1>4, <1>5, <1>6, <1>7, <1>8, <1>9
    DEF Next, Leave, Release, ReadAny, StreamEndsAny

\* The invariant holds in every reachable state.
THEOREM TopicInvariant == Spec => []TInv
  <1>1. TInv /\ [Next]_vars => TInv'
    BY TypeStep, TaskStep, CommandsStep, EndsStep, NeighborsStep DEF TInv
  <1> QED
    BY <1>1, TopicInit, PTL DEF Spec

\* A script that reads neighbors() and hears the signals sees one history: the
\* set is what the signals tell once those on their way have arrived.
THEOREM NeighborsFollowSignals == Spec => []NeighborsMatchSignals
  <1>1. TInv => NeighborsMatchSignals
    BY DEF TInv
  <1> QED
    BY <1>1, TopicInvariant, PTL

-----------------------------------------------------------------------------
\* The handle.

\* The deferred signals as Reports sees them.
Shown == [i \in DOMAIN deferred |-> Kind(deferred[i])]

\* They are a sequence of kinds, as long as the signals.
LEMMA ShownTypes ==
    ASSUME NEW queue \in Seq(Events)
    PROVE  LET shown == [i \in DOMAIN queue |-> Kind(queue[i])] IN
             /\ shown \in Seq({"news", "end"}) /\ Len(shown) = Len(queue)
             /\ \A i \in 1 .. Len(queue) : shown[i] = Kind(queue[i])
  <1> DEFINE n == Len(queue)
             shown == [i \in 1 .. n |-> Kind(queue[i])]
  <1>1. DOMAIN queue = 1 .. n /\ n \in Nat
    BY LenProperties
  <1>2. \A i \in 1 .. n : Kind(queue[i]) \in {"news", "end"}
    BY DEF Kind
  <1>3. shown \in Seq({"news", "end"}) /\ Len(shown) = n /\ \A i \in 1 .. n : shown[i] = Kind(queue[i])
    BY <1>1, <1>2
  <1> QED
    BY <1>1, <1>3

\* A frame shows the script the channel's events behind what was deferred.
LEMMA DrainIsAFrame == TInv /\ Drain => Handle!Frame
  <1> SUFFICES ASSUME TInv, Drain PROVE Handle!Frame
    OBVIOUS
  <1> USE DEF TInv
  <1> DEFINE K == {"news", "end"}
             d == Len(deferred)
             n == Len(events)
             after == [i \in DOMAIN (deferred') |-> Kind(deferred'[i])]
  <1>1. /\ deferred \in Seq(Events) /\ events \in Seq(Events) /\ deferred' = deferred \o events
        /\ events # <<>> /\ topic = "held" /\ d \in Nat /\ n \in Nat \ {0}
    BY EmptySeq, LenProperties DEF Drain, Handled, TypeOK
  <1>2. /\ deferred' \in Seq(Events) /\ Len(deferred') = d + n
        /\ \A i \in 1 .. d + n :
             deferred'[i] = IF i <= d THEN deferred[i] ELSE events[i - d]
    BY <1>1, ConcatProperties
  <1>3. Shown \in Seq(K) /\ Len(Shown) = d /\ \A i \in 1 .. d : Shown[i] = Kind(deferred[i])
    BY <1>1, ShownTypes DEF Shown
  <1>4. /\ after \in Seq(K) /\ Len(after) = d + n
        /\ \A i \in 1 .. d + n : after[i] = Kind(deferred'[i])
    BY <1>2, ShownTypes
  <1> HIDE DEF d, n, after
  <1>5. ASSUME NEW i \in 1 .. d PROVE after[i] = Shown[i]
    <2>1. i \in 1 .. d + n /\ i <= d
      BY <1>1
    <2> QED
      BY <1>2, <1>3, <1>4, <2>1
  <1>6. ASSUME NEW i \in d + 1 .. d + n
        PROVE  i - d \in 1 .. n /\ after[i] = Kind(events[i - d])
    <2>1. i \in 1 .. d + n /\ ~(i <= d) /\ i - d \in 1 .. n
      BY <1>1
    <2> QED
      BY <1>2, <1>4, <2>1
  <1>7. \A i \in 1 .. n : events[i] \in Ends => i = n
    BY DEF EndsAreLast, n
  <1>8. ASSUME NEW i \in d + 1 .. (d + n) - 1 PROVE after[i] = "news"
    <2>1. i \in d + 1 .. d + n /\ i - d # n
      BY <1>1
    <2> QED
      BY <1>6, <1>7, <2>1 DEF Kind
  <1>9. after[d + n] = "end" <=> events[n] \in Ends
    <2>1. d + n \in d + 1 .. d + n /\ (d + n) - d = n
      BY <1>1
    <2> QED
      BY <1>6, <2>1 DEF Kind
  <1>10. topic' = (IF events[n] \in Ends THEN "gone" ELSE "held") /\ UNCHANGED ended
    <2>1. DOMAIN events = 1 .. n /\ n \in 1 .. n
      BY <1>1, LenProperties DEF n
    <2> QED
      BY <1>1, <1>7, <2>1 DEF Drain, Handled, objectVars, scriptVars
  <1>11. d <= d + n /\ d < d + n
    BY <1>1
  <1> QED
    BY <1>1, <1>3, <1>4, <1>5, <1>8, <1>9, <1>10, <1>11 DEF Handle!Frame, Shown, after

\* The signal Godot emits is the oldest one shown, and the script heard no end
\* before it.
LEMMA EmitIsAnEmit == TInv /\ Emit => Handle!Emit
  <1> SUFFICES ASSUME TInv, Emit PROVE Handle!Emit
    OBVIOUS
  <1> USE DEF TInv
  <1> DEFINE K == {"news", "end"}
             after == [i \in DOMAIN (deferred') |-> Kind(deferred'[i])]
  <1>1. /\ deferred \in Seq(Events) /\ deferred # <<>> /\ deferred' = Tail(deferred)
        /\ UNCHANGED topic
    BY DEF Emit, TypeOK, objectVars
  <1>2. /\ deferred' \in Seq(Events) /\ Len(deferred') = Len(deferred) - 1
        /\ Len(deferred) \in Nat \ {0} /\ Head(deferred) = deferred[1]
        /\ \A i \in 1 .. Len(deferred') : deferred'[i] = deferred[i + 1]
    BY <1>1, HeadTailProperties, EmptySeq
  <1>3. /\ Shown \in Seq(K) /\ Len(Shown) = Len(deferred)
        /\ \A i \in 1 .. Len(deferred) : Shown[i] = Kind(deferred[i])
    BY <1>1, ShownTypes DEF Shown
  <1>4. /\ after \in Seq(K) /\ Len(after) = Len(deferred')
        /\ \A i \in 1 .. Len(deferred') : after[i] = Kind(deferred'[i])
    BY <1>2, ShownTypes
  <1> HIDE DEF after
  <1>5. Shown # <<>> /\ Head(Shown) = Shown[1] /\ Shown[1] = Kind(Head(deferred))
    BY <1>2, <1>3
  <1>6. after = Tail(Shown)
    <2>1. /\ Tail(Shown) \in Seq(K) /\ Len(Tail(Shown)) = Len(after)
          /\ \A i \in 1 .. Len(Tail(Shown)) : Tail(Shown)[i] = Shown[i + 1]
      BY <1>2, <1>3, <1>4, <1>5, HeadTailProperties
    <2>2. ASSUME NEW i \in 1 .. Len(after) PROVE after[i] = Tail(Shown)[i]
      <3>1. i + 1 \in 1 .. Len(deferred) /\ i \in 1 .. Len(deferred')
        BY <1>2, <1>4
      <3> QED
        BY <1>2, <1>3, <1>4, <2>1, <3>1
    <2> QED
      BY <1>4, <2>1, <2>2, SeqEqual
  <1>7. ended = "no"
    BY <1>1 DEF EndsAreLast
  <1>8. ended' # "no" <=> Head(Shown) = "end"
    <2>1. Head(deferred) \in Ends => Head(deferred)[1] # "no"
      BY DEF Ends
    <2> QED
      BY <1>5, <1>7, <2>1 DEF Emit, Kind
  <1> QED
    BY <1>1, <1>5, <1>6, <1>7, <1>8 DEF Handle!Emit, Shown, after

\* A topic is a handle: whatever ends its task, lets go of it or stops the
\* runtime, the script hears news, at most one of lagged and closed, and
\* nothing behind that.  That the signals are emitted at all is left to TLC.
THEOREM TopicIsAHandle == Spec => Handle!Safety
  <1>1. Init => Handle!Init
    BY DEF Init, Handle!Init
  <1>2. TInv /\ [Next]_vars => [Handle!Next]_(Handle!vars)
    <2> SUFFICES ASSUME TInv, [Next]_vars PROVE [Handle!Next]_(Handle!vars)
      OBVIOUS
    <2> USE DEF TInv, objectVars, taskVars, scriptVars
    <2>1. ASSUME UNCHANGED <<topic, deferred, ended>> PROVE UNCHANGED Handle!vars
      BY <2>1 DEF Handle!vars
    <2>2. CASE Subscribe
      <3>1. Handle!Begin
        BY <2>2 DEF Subscribe, Handle!Begin
      <3> QED
        BY <3>1 DEF Handle!Next
    <2>3. CASE Drain
      BY <2>3, DrainIsAFrame DEF Handle!Next
    <2>4. CASE Emit
      BY <2>4, EmitIsAnEmit DEF Handle!Next
    <2>5. CASE Leave
      <3>1. Handle!LetGo
        BY <2>5 DEF Leave, Handle!LetGo
      <3> QED
        BY <3>1 DEF Handle!Next
    <2>6. CASE Release
      <3>1. Handle!Release
        BY <2>6 DEF Release, Handle!Release
      <3> QED
        BY <3>1 DEF Handle!Next
    <2>7. CASE Command \/ Subscribed \/ TakeCommand \/ CommandDone \/ CommandsClosed \/ ReadAny
                 \/ Report \/ StreamEndsAny \/ RuntimeStops \/ Cut \/ UNCHANGED vars
      BY <2>1, <2>7 DEF Command, Subscribed, TakeCommand, CommandDone, CommandsClosed, ReadAny,
         Read, Report, StreamEndsAny, StreamEnds, RuntimeStops, Cut, vars
    <2> QED
      BY <2>2, <2>3, <2>4, <2>5, <2>6, <2>7 DEF Next
  <1> QED
    BY <1>1, <1>2, TopicInvariant, PTL DEF Spec, Handle!Safety
=============================================================================
