----------------------------- MODULE PeerProofs -----------------------------
(***************************************************************************)
(* Proofs about Peer, for any number of sessions and events, with scripts  *)
(* that call the peer from its signals or not: one session hosts at a      *)
(* time, the status the game reads is that of the session it holds, and    *)
(* packets are read session by session.                                    *)
(***************************************************************************)
EXTENDS Peer, SequenceTheorems, WellFoundedInduction, TLAPS

\* A session's task exists from its start on, and a host neither dials nor
\* loses a host.
TasksMatchRoles ==
    \A k \in Numbers :
      /\ role[k] = "unused" <=> task[k] = "none"
      /\ role[k] = "host" => task[k] \in {"joined", "running", "released", "ended"}

\* Sessions are numbered as they start, and the current one is the newest.
NumbersGrow ==
    /\ \A j, k \in Numbers : j < k /\ role[k] # "unused" => role[j] # "unused"
    /\ session # NoSession =>
         /\ role[session] # "unused"
         /\ \A k \in Numbers : role[k] # "unused" => k <= session

\* Only packets and the end overtake Ready, in a session's events and in the
\* batch, and neither has a signal: nothing can have replaced the session a Ready
\* that still waits came from, though the session may be over.
Early == {"none", "dialling", "joined", "orphaned"}
Ahead == {"Packet", "Closed"}
Leads(queue, t) ==
    /\ \A i \in 1 .. Len(queue) :
         queue[i] = "Ready" => \A j \in 1 .. i - 1 : queue[j] \in Ahead
    /\ t \in Early => \A i \in 1 .. Len(queue) : queue[i] \in Ahead

ReadyLeads == \A k \in Numbers : Leads(events[k], task[k])

ReadyIsCurrent ==
    \A i \in 1 .. Len(batch) : batch[i].event = "Ready" =>
      /\ session \in {batch[i].from, NoSession}
      /\ inSignal = FALSE
      /\ \A j \in 1 .. i - 1 : batch[j].event \in Ahead

\* What waits to be read came from sessions that started, oldest first.
StartedInOrder ==
    /\ \A i \in 1 .. Len(incoming) : role[incoming[i]] # "unused"
    /\ \A i \in 1 .. Len(batch) : role[batch[i].from] # "unused"
    /\ \A i, j \in 1 .. Len(incoming) : i < j => incoming[i] <= incoming[j]
    /\ \A i, j \in 1 .. Len(batch) : i < j => batch[i].from <= batch[j].from
    /\ \A i \in 1 .. Len(incoming), j \in 1 .. Len(batch) : incoming[i] <= batch[j].from

\* The inductive invariant.
PInv ==
    /\ TypeOK
    /\ TasksMatchRoles /\ OneHostRuns
    /\ NumbersGrow
    /\ ReadyLeads /\ ReadyIsCurrent /\ StatusMatchesSession
    /\ StartedInOrder

-----------------------------------------------------------------------------
\* The number a session gets.

\* The order of the natural numbers, as a well-founded relation.
LEMMA LessIsWellFounded ==
    \E R : IsWellFoundedOn(R, Nat) /\ \A a, b \in Nat : a < b => <<a, b>> \in R
  <1>1. \A a, b \in Nat : a < b => <<a, b>> \in OpToRel(<, Nat)
    BY DEF OpToRel
  <1> QED
    BY <1>1, NatLessThanWellFounded, Zenon

\* A set of natural numbers that is not empty has a least element.
LEMMA LeastElement ==
    ASSUME NEW T \in SUBSET Nat, T # {}
    PROVE  \E x \in T : \A y \in T : x <= y
  <1>1. PICK R : IsWellFoundedOn(R, Nat) /\ \A a, b \in Nat : a < b => <<a, b>> \in R
    BY LessIsWellFounded
  <1>2. IsWellFoundedOn(R, Nat) /\ T \subseteq Nat
    BY <1>1
  <1>3. PICK x \in T : \A y \in T : ~(<<y, x>> \in R)
    BY ONLY <1>2, T # {}, WFMin, Zenon
  <1>4. ASSUME NEW y \in T PROVE x <= y
    <2>1. ~(y < x)
      BY <1>1, <1>3
    <2> QED
      BY <2>1
  <1> QED
    BY <1>4

\* A session that starts gets a fresh number, above every number in use.
LEMMA NextNumberIsNew ==
    ASSUME TypeOK, NumbersGrow, Unused # {}
    PROVE  /\ NextNumber \in Numbers /\ role[NextNumber] = "unused"
           /\ \A k \in Numbers : role[k] # "unused" => k < NextNumber
           /\ \A k \in Numbers : k < NextNumber => role[k] # "unused"
  <1>1. Unused \in SUBSET Nat
    BY BoundsAssumption DEF Unused, Numbers
  <1>2. \E k \in Unused : \A j \in Unused : k <= j
    BY <1>1, LeastElement
  <1>3. NextNumber \in Unused /\ \A j \in Unused : NextNumber <= j
    BY <1>2 DEF NextNumber
  <1>4. NextNumber \in Numbers /\ role[NextNumber] = "unused" /\ Numbers \subseteq Nat
    BY <1>3, BoundsAssumption DEF Unused, Numbers
  <1>5. ASSUME NEW k \in Numbers, role[k] # "unused" PROVE k < NextNumber
    <2>1. k # NextNumber /\ ~(NextNumber < k)
      BY <1>4, <1>5 DEF NumbersGrow
    <2> QED
      BY <1>4, <2>1
  <1>6. ASSUME NEW k \in Numbers, k < NextNumber PROVE role[k] # "unused"
    <2>1. k \notin Unused
      BY <1>3, <1>4, <1>6
    <2> QED
      BY <2>1 DEF Unused
  <1> QED
    BY <1>4, <1>5, <1>6

\* What host and join have in common: a new session takes the place of the
\* current one, with no event or a Closed of its own.
Started(k) ==
    /\ Unused # {} /\ k = NextNumber /\ ScriptRuns
    /\ session' = k /\ status' = "CONNECTING"
    /\ UNCHANGED <<incoming, batch, inSignal, budget, cut>>
    /\ commanded' = Told
    /\ \E r \in {"host", "join"} : role' = [role EXCEPT ![k] = r]
    /\ \E t \in {"joined", "dialling", "ended"}, q \in {<<>>, <<"Closed">>} :
         /\ task' = [task EXCEPT ![k] = t]
         /\ events' = [Kept EXCEPT ![k] = q]
         /\ t # "ended" => q = <<>>

\* Host and Join both start a session so.
LEMMA HostStarts ==
    ASSUME NEW spawned \in BOOLEAN, Host(spawned) \/ Join(spawned)
    PROVE  Started(NextNumber) /\ (unique_id' = unique_id \/ unique_id' = HOST_ID)
  <1>1. CASE Host(spawned)
    BY <1>1 DEF Host, Started
  <1>2. CASE Join(spawned)
    BY <1>2 DEF Join, Started
  <1> QED
    BY <1>1, <1>2

-----------------------------------------------------------------------------
\* The types.

\* The initial states satisfy the invariant.
LEMMA PeerInit == Init => PInv
  <1> SUFFICES ASSUME Init PROVE PInv
    OBVIOUS
  <1> USE BoundsAssumption DEF Init
  <1>1. TypeOK
    <2>1. events \in [Numbers -> Seq(Event)] /\ incoming \in Seq(Numbers)
      OBVIOUS
    <2>2. batch \in Seq([from : Numbers, event : Event])
      OBVIOUS
    <2>3. budget \in [Numbers -> 0 .. MaxEvents]
      OBVIOUS
    <2>4. commanded \in [Numbers -> BOOLEAN] /\ inSignal \in BOOLEAN
      OBVIOUS
    <2> QED
      BY <2>1, <2>2, <2>3, <2>4 DEF TypeOK
  <1>2. TasksMatchRoles /\ OneHostRuns
    BY DEF TasksMatchRoles, OneHostRuns, NoSession, Numbers
  <1>3. NumbersGrow
    BY DEF NumbersGrow
  <1>4. ReadyLeads /\ ReadyIsCurrent /\ StatusMatchesSession
    BY DEF ReadyLeads, Leads, ReadyIsCurrent, StatusMatchesSession
  <1>5. StartedInOrder
    BY DEF StartedInOrder
  <1> QED
    BY <1>1, <1>2, <1>3, <1>4, <1>5 DEF PInv

\* Letting go of the current session keeps the types of what is told to it
\* and of the events of the others.
LEMMA LetGoTypes ==
    ASSUME TypeOK
    PROVE  Told \in [Numbers -> BOOLEAN] /\ Kept \in [Numbers -> Seq(Event)]
  <1>1. Told \in [Numbers -> BOOLEAN]
    BY DEF TypeOK, Told
  <1>2. Kept \in [Numbers -> Seq(Event)]
    BY DEF TypeOK, Kept
  <1> QED
    BY <1>1, <1>2

\* Next keeps the types.
LEMMA TypeStep == PInv /\ [Next]_vars => TypeOK'
  <1> SUFFICES ASSUME PInv, [Next]_vars PROVE TypeOK'
    OBVIOUS
  <1> USE BoundsAssumption DEF PInv, TypeOK, peerVars
  <1>1. ASSUME NEW spawned \in BOOLEAN, Host(spawned) \/ Join(spawned) PROVE TypeOK'
    <2>1. /\ Started(NextNumber) /\ (unique_id' = unique_id \/ unique_id' = HOST_ID)
          /\ NextNumber \in Numbers
      BY <1>1, HostStarts, NextNumberIsNew DEF Started
    <2>2. claim' \in {NoSession} \cup Numbers
      BY <1>1, <2>1 DEF Host, Join
    <2>3. role' \in [Numbers -> {"unused", "host", "join"}]
      BY <2>1 DEF Started
    <2>4. task' \in [Numbers -> {"none", "dialling", "joined", "running", "lost", "orphaned",
                                 "released", "ended"}]
      BY <2>1 DEF Started
    <2>5. commanded' \in [Numbers -> BOOLEAN]
      BY <2>1, LetGoTypes DEF Started
    <2>6. events' \in [Numbers -> Seq(Event)]
      <3>1. <<>> \in Seq(Event) /\ <<"Closed">> \in Seq(Event)
        BY DEF Event
      <3>2. PICK q \in {<<>>, <<"Closed">>} : events' = [Kept EXCEPT ![NextNumber] = q]
        BY <2>1 DEF Started
      <3>3. q \in Seq(Event)
        BY <3>1
      <3> QED
        BY <3>2, <3>3, LetGoTypes
    <2> QED
      BY <2>1, <2>2, <2>3, <2>4, <2>5, <2>6 DEF Started
  <1>2. CASE Close
    <2>1. commanded' \in [Numbers -> BOOLEAN] /\ events' \in [Numbers -> Seq(Event)]
      BY <1>2, LetGoTypes DEF Close
    <2> QED
      BY <1>2, <2>1 DEF Close
  <1>3. CASE GetPacket
    BY <1>3 DEF GetPacket
  <1>4. CASE Poll
    <2>1. session \in Numbers /\ events[session] \in Seq(Event)
      BY <1>4 DEF Poll
    <2>2. batch' \in Seq([from : Numbers, event : Event])
      <3> DEFINE n == Len(events[session])
      <3>1. n \in Nat /\ \A i \in 1 .. n : events[session][i] \in Event
        BY <2>1
      <3>2. batch' = [i \in 1 .. n |-> [from |-> session, event |-> events[session][i]]]
        BY <1>4 DEF Poll
      <3> QED
        BY <2>1, <3>1, <3>2
    <2>3. events' \in [Numbers -> Seq(Event)]
      BY <1>4, <2>1 DEF Poll
    <2> QED
      BY <1>4, <2>2, <2>3 DEF Poll
  <1>5. CASE Handle
    <2>1. Head(batch).from \in Numbers /\ batch' \in Seq([from : Numbers, event : Event])
      <3>1. batch # <<>> /\ batch' = Tail(batch)
        BY <1>5 DEF Handle
      <3>2. /\ Head(batch) \in [from : Numbers, event : Event]
            /\ Tail(batch) \in Seq([from : Numbers, event : Event])
        BY <3>1, HeadTailProperties
      <3> QED
        BY <3>1, <3>2
    <2>2. inSignal' \in BOOLEAN
      BY <1>5 DEF Handle
    <2>3. incoming' \in Seq(Numbers)
      <3>1. Append(incoming, Head(batch).from) \in Seq(Numbers)
        BY <2>1, AppendProperties
      <3> QED
        BY <1>5, <3>1 DEF Handle, Push
    <2>4. commanded' \in [Numbers -> BOOLEAN]
      BY <1>5, LetGoTypes DEF Handle
    <2>5. events' \in [Numbers -> Seq(Event)]
      BY <1>5, LetGoTypes DEF Handle
    <2>6. /\ session' \in {NoSession} \cup Numbers
          /\ status' \in {"DISCONNECTED", "CONNECTING", "CONNECTED"}
          /\ unique_id' \in {0, HOST_ID, CLIENT_ID}
      BY <1>5 DEF Handle
    <2> QED
      BY <1>5, <2>1, <2>2, <2>3, <2>4, <2>5, <2>6 DEF Handle
  <1>6. CASE RuntimeStops
    BY <1>6 DEF RuntimeStops
  <1>7. ASSUME NEW k \in Numbers, NEW e \in Event, Emit(k, e)
        PROVE  events' \in [Numbers -> Seq(Event)]
    BY <1>7 DEF Emit
  <1>8. ASSUME NEW k \in Numbers, Runs(k) PROVE TypeOK'
    <2>1. "Closed" \in Event /\ "Ready" \in Event
      BY DEF Event
    <2>2. events' \in [Numbers -> Seq(Event)]
      BY <1>7, <1>8, <2>1 DEF Runs, Connected, DialFails, SendReady, Release, Finish
    <2> QED
      BY <1>8, <2>2 DEF Runs, Connected, DialFails, SendReady, Release, Finish
  <1>9. ASSUME NEW k \in Numbers, SendPeer(k) \/ SendPacket(k) PROVE TypeOK'
    <2>1. "Peer" \in Event /\ "Packet" \in Event
      BY DEF Event
    <2>2. events' \in [Numbers -> Seq(Event)]
      BY <1>7, <1>9, <2>1 DEF SendPeer, SendPacket
    <2>3. budget' \in [Numbers -> 0 .. MaxEvents]
      <3>1. budget[k] > 0 /\ budget' = [budget EXCEPT ![k] = budget[k] - 1]
        BY <1>9 DEF SendPeer, SendPacket
      <3>2. budget[k] - 1 \in 0 .. MaxEvents
        BY <3>1
      <3> QED
        BY <3>1, <3>2
    <2> QED
      BY <1>9, <2>2, <2>3 DEF SendPeer, SendPacket
  <1>10. ASSUME NEW k \in Numbers, LoseHost(k) PROVE TypeOK'
    <2>1. /\ events[k] \o <<"Peer", "Closed">> \in Seq(Event)
          /\ Append(events[k], "Closed") \in Seq(Event)
      BY DEF Event
    <2>2. events' \in [Numbers -> Seq(Event)]
      BY <1>10, <2>1 DEF LoseHost
    <2> QED
      BY <1>10, <2>2 DEF LoseHost
  <1>11. CASE UNCHANGED vars
    BY <1>11 DEF vars
  <1> QED
    BY <1>1, <1>2, <1>3, <1>4, <1>5, <1>6, <1>8, <1>9, <1>10, <1>11 DEF Next

-----------------------------------------------------------------------------
\* The claim.

\* A session that starts has a role and a task from then on, and every task
\* moves on within its role.
LEMMA TasksStep == PInv /\ [Next]_vars => TasksMatchRoles'
  <1> SUFFICES ASSUME PInv, [Next]_vars, NEW j \in Numbers
               PROVE  (/\ role[j] = "unused" <=> task[j] = "none"
                       /\ role[j] = "host" =>
                            task[j] \in {"joined", "running", "released", "ended"})'
    BY DEF TasksMatchRoles
  <1> USE DEF PInv, TypeOK, TasksMatchRoles, peerVars
  <1>1. ASSUME NEW spawned \in BOOLEAN, Host(spawned) \/ Join(spawned)
        PROVE  (/\ role[j] = "unused" <=> task[j] = "none"
                /\ role[j] = "host" => task[j] \in {"joined", "running", "released", "ended"})'
    <2>1. NextNumber \in Numbers
      BY <1>1, NextNumberIsNew DEF Host, Join
    <2> QED
      BY <1>1, <2>1 DEF Host, Join
  <1>2. ASSUME NEW k \in Numbers, Runs(k) \/ LoseHost(k)
        PROVE  (/\ role[j] = "unused" <=> task[j] = "none"
                /\ role[j] = "host" => task[j] \in {"joined", "running", "released", "ended"})'
    BY <1>2 DEF Runs, Connected, DialFails, SendReady, Release, Finish, LoseHost
  <1>3. CASE RuntimeStops
    BY <1>3 DEF RuntimeStops
  <1>4. CASE UNCHANGED <<role, task>>
    BY <1>4
  <1> QED
    BY <1>1, <1>2, <1>3, <1>4
    DEF Next, Close, GetPacket, Poll, Handle, SendPeer, SendPacket, vars

\* The claim passes to a host that starts only while nobody has it, and goes
\* back with the task that held it.
LEMMA ClaimStep == PInv /\ [Next]_vars => OneHostRuns'
  <1> SUFFICES ASSUME PInv, [Next]_vars, NEW j \in Numbers
               PROVE  (claim = j <=> role[j] = "host" /\ task[j] \in {"joined", "running"})'
    BY DEF OneHostRuns
  <1> USE DEF PInv, TypeOK, TasksMatchRoles, OneHostRuns, peerVars
  <1>n. j # NoSession
    BY BoundsAssumption DEF NoSession, Numbers
  <1>1. ASSUME NEW spawned \in BOOLEAN, Host(spawned)
        PROVE  (claim = j <=> role[j] = "host" /\ task[j] \in {"joined", "running"})'
    <2>1. NextNumber \in Numbers /\ role[NextNumber] = "unused"
      BY <1>1, NextNumberIsNew DEF Host
    <2>2. CASE claim = NoSession /\ spawned
      BY <1>1, <1>n, <2>1, <2>2 DEF Host
    <2>3. CASE ~(claim = NoSession /\ spawned)
      BY <1>1, <2>1, <2>3 DEF Host
    <2> QED
      BY <2>2, <2>3
  <1>2. ASSUME NEW spawned \in BOOLEAN, Join(spawned)
        PROVE  (claim = j <=> role[j] = "host" /\ task[j] \in {"joined", "running"})'
    <2>1. NextNumber \in Numbers /\ role[NextNumber] = "unused"
      BY <1>2, NextNumberIsNew DEF Join
    <2> QED
      BY <1>2, <2>1 DEF Join
  <1>3. ASSUME NEW k \in Numbers, Runs(k) \/ LoseHost(k)
        PROVE  (claim = j <=> role[j] = "host" /\ task[j] \in {"joined", "running"})'
    BY <1>3, <1>n DEF Runs, Connected, DialFails, SendReady, Release, Finish, LoseHost
  <1>4. CASE RuntimeStops
    BY <1>4, <1>n DEF RuntimeStops
  <1>5. CASE UNCHANGED <<role, task, claim>>
    BY <1>5
  <1> QED
    BY <1>1, <1>2, <1>3, <1>4, <1>5
    DEF Next, Close, GetPacket, Poll, Handle, SendPeer, SendPacket, vars

-----------------------------------------------------------------------------
\* The order of the sessions.

\* Numbers are given out in order, and the current session has the last one.
LEMMA NumbersStep == PInv /\ [Next]_vars => NumbersGrow'
  <1> SUFFICES ASSUME PInv, [Next]_vars PROVE NumbersGrow'
    OBVIOUS
  <1> USE DEF PInv, TypeOK, peerVars
  <1>1. ASSUME NEW spawned \in BOOLEAN, Host(spawned) \/ Join(spawned) PROVE NumbersGrow'
    <2> DEFINE n == NextNumber
    <2>1. /\ Started(n) /\ n \in Numbers
          /\ \A k \in Numbers : role[k] # "unused" => k < n
          /\ \A k \in Numbers : k < n => role[k] # "unused"
      BY <1>1, HostStarts, NextNumberIsNew DEF Started
    <2>2. n \in Nat /\ Numbers \subseteq Nat /\ n # NoSession
      BY <2>1, BoundsAssumption DEF Numbers, NoSession
    <2>3. role'[n] # "unused" /\ \A k \in Numbers : k # n => role'[k] = role[k]
      BY <2>1 DEF Started
    <2>4. session' = n
      BY <2>1 DEF Started
    <2> HIDE DEF n
    <2>5. \A k \in Numbers : role'[k] # "unused" <=> k < n \/ k = n
      BY <2>1, <2>3
    <2>6. \A j, k \in Numbers : j < k /\ role'[k] # "unused" => role'[j] # "unused"
      BY <2>2, <2>5
    <2>7. \A k \in Numbers : role'[k] # "unused" => k <= n
      BY <2>2, <2>5
    <2> QED
      BY <2>3, <2>4, <2>6, <2>7 DEF NumbersGrow
  <1>2. ASSUME UNCHANGED role, session' = session \/ session' = NoSession PROVE NumbersGrow'
    BY <1>2 DEF NumbersGrow
  <1> QED
    BY <1>1, <1>2
    DEF Next, Close, GetPacket, Poll, Handle, SendPeer, SendPacket, RuntimeStops, Runs, Connected,
        DialFails, SendReady, Release, Finish, LoseHost, vars

-----------------------------------------------------------------------------
\* Ready and the status.

\* One event more behind a queue that Ready leads: Ready itself only behind what
\* may overtake it, and anything else only from a task past Ready.
LEMMA LeadsAppend ==
    ASSUME NEW queue \in Seq(Event), NEW t, NEW u, NEW e \in Event, Leads(queue, t),
           e = "Ready" => t \in Early, u \in Early => t \in Early /\ e \in Ahead
    PROVE  Leads(Append(queue, e), u)
  <1> DEFINE longer == Append(queue, e)
             n == Len(queue)
  <1>1. /\ Len(longer) = n + 1 /\ longer[n + 1] = e /\ n \in Nat
        /\ \A i \in 1 .. n : longer[i] = queue[i]
    BY AppendProperties
  <1> HIDE DEF longer
  <1>2. ASSUME NEW i \in 1 .. n + 1, longer[i] = "Ready", NEW j \in 1 .. i - 1
        PROVE  longer[j] \in Ahead
    <2>1. longer[j] = queue[j] /\ j \in 1 .. n
      BY <1>1
    <2>2. CASE i = n + 1
      BY <1>1, <1>2, <2>1, <2>2 DEF Leads
    <2>3. CASE i \in 1 .. n
      BY <1>1, <1>2, <2>1, <2>3 DEF Leads
    <2> QED
      BY <1>1, <2>2, <2>3
  <1>3. ASSUME u \in Early, NEW i \in 1 .. n + 1 PROVE longer[i] \in Ahead
    BY <1>1, <1>3 DEF Leads
  <1>4. Leads(longer, u)
    BY <1>1, <1>2, <1>3 DEF Leads
  <1> QED
    BY <1>4 DEF longer

\* Every event joins its session's queue behind what led it, and a session
\* that is let go of leaves an empty queue.
LEMMA ReadyLeadsStep == PInv /\ [Next]_vars => ReadyLeads'
  <1> SUFFICES ASSUME PInv, [Next]_vars, NEW j \in Numbers PROVE Leads(events'[j], task'[j])
    BY DEF ReadyLeads
  <1> USE DEF PInv, TypeOK, peerVars
  <1>a. Leads(events[j], task[j]) /\ events[j] \in Seq(Event)
    BY DEF ReadyLeads
  <1>b. ASSUME events'[j] = events[j] \/ events'[j] = <<>>, task'[j] \in Early => task[j] \in Early
        PROVE  Leads(events'[j], task'[j])
    <2>1. CASE events'[j] = events[j]
      BY <1>a, <1>b, <2>1 DEF Leads
    <2>2. CASE events'[j] = <<>>
      BY <2>2 DEF Leads
    <2> QED
      BY <1>b, <2>1, <2>2
  <1>c. Kept[j] = events[j] \/ Kept[j] = <<>>
    BY DEF Kept
  <1>1. ASSUME NEW spawned \in BOOLEAN, Host(spawned) \/ Join(spawned)
        PROVE  Leads(events'[j], task'[j])
    <2>1. Started(NextNumber) /\ NextNumber \in Numbers
      BY <1>1, HostStarts, NextNumberIsNew DEF Started
    <2>2. CASE j # NextNumber
      <3>1. events'[j] = Kept[j] /\ task'[j] = task[j]
        BY <2>1, <2>2, LetGoTypes DEF Started
      <3> QED
        BY <3>1, <1>b, <1>c
    <2>3. CASE j = NextNumber
      <3>1. \/ events'[j] = <<>>
            \/ events'[j] = <<"Closed">> /\ task'[j] = "ended"
        BY <2>1, <2>3, LetGoTypes DEF Started
      <3> QED
        BY <3>1 DEF Leads, Early
    <2> QED
      BY <2>2, <2>3
  <1>2. CASE Close \/ Handle
    BY <1>2, <1>b, <1>c DEF Close, Handle
  <1>3. CASE Poll
    BY <1>3, <1>b DEF Poll
  <1>4. CASE RuntimeStops
    BY <1>4, <1>b DEF RuntimeStops, Early
  <1>5. ASSUME NEW k \in Numbers, NEW e \in Event, Emit(k, e), e = "Ready" => task[k] \in Early,
               task'[k] \in Early => task[k] \in Early /\ e \in Ahead,
               j # k => task'[j] = task[j]
        PROVE  Leads(events'[j], task'[j])
    <2>1. CASE j = k /\ k = session
      <3>1. events'[j] = Append(events[j], e)
        BY <1>5, <2>1 DEF Emit
      <3> QED
        <4>1. Leads(Append(events[k], e), task'[k])
          BY <1>a, <1>5, <2>1, LeadsAppend
        <4> QED
          BY <2>1, <3>1, <4>1
    <2>2. CASE ~(j = k /\ k = session)
      <3>1. events'[j] = events[j]
        BY <1>5, <2>2 DEF Emit
      <3> QED
        BY <1>b, <1>5, <3>1
    <2> QED
      BY <2>1, <2>2
  <1>6. "Ready" \in Event /\ "Peer" \in Event /\ "Packet" \in Event /\ "Closed" \in Event
    BY DEF Event
  <1>7. ASSUME NEW k \in Numbers, Runs(k) PROVE Leads(events'[j], task'[j])
    <2>1. CASE Connected(k) \/ Release(k)
      BY <2>1, <1>b DEF Connected, Release, Early
    <2>2. CASE DialFails(k)
      <3>1. Emit(k, "Closed") /\ task'[k] \notin Early /\ (j # k => task'[j] = task[j])
        BY <2>2 DEF DialFails, Early
      <3> QED
        BY <1>5, <1>6, <3>1
    <2>3. CASE SendReady(k)
      <3>1. /\ Emit(k, "Ready") /\ task'[k] \notin Early /\ (j # k => task'[j] = task[j])
            /\ task[k] \in Early
        BY <2>3 DEF SendReady, Early
      <3> QED
        BY <1>5, <1>6, <3>1
    <2>4. CASE Finish(k)
      <3>1. Emit(k, "Closed") /\ task'[k] \notin Early /\ (j # k => task'[j] = task[j])
        BY <2>4 DEF Finish, Early
      <3> QED
        BY <1>5, <1>6, <3>1
    <2> QED
      BY <1>7, <2>1, <2>2, <2>3, <2>4 DEF Runs
  <1>8. ASSUME NEW k \in Numbers, SendPeer(k) PROVE Leads(events'[j], task'[j])
    <2>1. Emit(k, "Peer") /\ task' = task /\ task[k] \notin Early
      BY <1>8 DEF SendPeer, Early
    <2> QED
      BY <1>5, <1>6, <2>1
  <1>9. ASSUME NEW k \in Numbers, SendPacket(k) PROVE Leads(events'[j], task'[j])
    <2>1. Emit(k, "Packet") /\ task' = task
      BY <1>9 DEF SendPacket
    <2> QED
      BY <1>5, <1>6, <2>1 DEF Ahead
  <1>10. ASSUME NEW k \in Numbers, LoseHost(k) PROVE Leads(events'[j], task'[j])
    <2>1. (task'[k] \in Early => task[k] \in Early) /\ (j # k => task'[j] = task[j])
      BY <1>10 DEF LoseHost, Early
    <2>2. CASE j # k \/ k # session
      <3>1. events'[j] = events[j]
        BY <1>10, <2>2 DEF LoseHost
      <3> QED
        BY <1>b, <2>1, <3>1
    <2>3. CASE j = k /\ k = session
      <3>1. \/ events'[j] = Append(events[j], "Closed")
            \/ events'[j] = events[j] \o <<"Peer", "Closed">> /\ task'[j] \notin Early
        BY <1>10, <2>3 DEF LoseHost, Early
      <3>2. Leads(Append(events[j], "Closed"), task'[j])
        BY <1>a, <1>6, <2>1, <2>3, LeadsAppend DEF Ahead
      <3> SUFFICES ASSUME task'[j] \notin Early
                   PROVE  Leads(events[j] \o <<"Peer", "Closed">>, task'[j])
        BY <3>1, <3>2
      <3>3. Leads(Append(events[j], "Peer"), task'[j])
        BY <1>a, <1>6, <2>1, <2>3, LeadsAppend
      <3>4. Append(events[j], "Peer") \in Seq(Event)
        BY <1>a, <1>6
      <3>5. Leads(Append(Append(events[j], "Peer"), "Closed"), task'[j])
        BY <1>6, <2>1, <2>3, <3>3, <3>4, LeadsAppend
      <3>6. Append(Append(events[j], "Peer"), "Closed") = events[j] \o <<"Peer", "Closed">>
        <4> DEFINE s == Append(Append(events[j], "Peer"), "Closed")
                   t == events[j] \o <<"Peer", "Closed">>
        <4>1. s \in Seq(Event) /\ t \in Seq(Event)
          BY <1>a, <1>6, <3>4
        <4>2. Len(s) = Len(events[j]) + 2 /\ Len(t) = Len(events[j]) + 2
          BY <1>a, <1>6, <3>4
        <4>3. ASSUME NEW i \in 1 .. Len(events[j]) + 2 PROVE s[i] = t[i]
          BY <1>a, <1>6, <3>4
        <4> HIDE DEF s, t
        <4>4. s = t
          BY <4>1, <4>2, <4>3, SeqEqual
        <4> QED
          BY <4>4 DEF s, t
      <3> QED
        BY <3>5, <3>6
    <2> QED
      BY <2>2, <2>3
  <1>11. CASE UNCHANGED <<events, task>>
    BY <1>11, <1>b
  <1> QED
    BY <1>1, <1>2, <1>3, <1>4, <1>7, <1>8, <1>9, <1>10, <1>11 DEF Next, GetPacket, vars

\* Every event of a batch says which session it came from.
LEMMA BatchTypes ==
    ASSUME TypeOK
    PROVE  \A i \in 1 .. Len(batch) : batch[i].from \in Numbers /\ batch[i].event \in Event
  <1> TAKE i \in 1 .. Len(batch)
  <1>1. batch[i] \in [from : Numbers, event : Event]
    BY ElementOfSeq DEF TypeOK
  <1> QED
    BY <1>1

\* What is left of a batch once its first event is handled.
LEMMA TailOfBatch ==
    ASSUME TypeOK, batch # <<>>
    PROVE  /\ Len(batch) \in Nat \ {0} /\ Len(Tail(batch)) = Len(batch) - 1
           /\ Head(batch) = batch[1]
           /\ \A i \in 1 .. Len(Tail(batch)) : Tail(batch)[i] = batch[i + 1]
  <1>1. batch \in Seq([from : Numbers, event : Event])
    BY DEF TypeOK
  <1>2. Len(batch) \in Nat \ {0}
    BY <1>1, EmptySeq
  <1>3. Len(Tail(batch)) = Len(batch) - 1
        /\ \A i \in 1 .. Len(Tail(batch)) : Tail(batch)[i] = batch[i + 1]
    BY <1>1, HeadTailProperties
  <1>4. Head(batch) = batch[1]
    BY <1>1, <1>2
  <1> QED
    BY <1>2, <1>3, <1>4

\* A script can act on the peer only when no Ready waits in a batch: the
\* signals come from events that follow it.
LEMMA ReadyIsCurrentStep == PInv /\ [Next]_vars => ReadyIsCurrent'
  <1> SUFFICES ASSUME PInv, [Next]_vars PROVE ReadyIsCurrent'
    OBVIOUS
  <1> USE DEF PInv, peerVars
  <1>1. ASSUME ScriptRuns, UNCHANGED <<batch, inSignal>> PROVE ReadyIsCurrent'
    <2>1. ASSUME NEW i \in 1 .. Len(batch) PROVE batch[i].event # "Ready"
      <3>1. CASE batch = <<>>
        BY <3>1
      <3>2. CASE inSignal
        BY <3>2, <2>1 DEF ReadyIsCurrent
      <3> QED
        BY <1>1, <3>1, <3>2 DEF ScriptRuns
    <2> QED
      BY <1>1, <2>1 DEF ReadyIsCurrent
  <1>2. CASE Poll
    <2> DEFINE n == Len(events[session])
    <2>1. session \in Numbers /\ events[session] \in Seq(Event)
      BY <1>2 DEF Poll, TypeOK
    <2>2. n \in Nat /\ inSignal' = FALSE /\ session' = session
      BY <1>2, <2>1 DEF Poll
    <2>3. batch' = [i \in 1 .. n |-> [from |-> session, event |-> events[session][i]]]
      BY <1>2 DEF Poll
    <2>4. Len(batch') = n
      BY <2>2, <2>3
    <2>5. \A i \in 1 .. n : batch'[i].from = session /\ batch'[i].event = events[session][i]
      BY <2>3
    <2>6. \A i \in 1 .. n : events[session][i] = "Ready" =>
            \A j \in 1 .. i - 1 : events[session][j] \in Ahead
      BY <2>1 DEF ReadyLeads, Leads
    <2> HIDE DEF n
    <2>7. ASSUME NEW i \in 1 .. n, batch'[i].event = "Ready"
          PROVE  \A j \in 1 .. i - 1 : batch'[j].event \in Ahead
      <3> TAKE j \in 1 .. i - 1
      <3>1. j \in 1 .. n
        BY <2>2
      <3> QED
        BY <2>5, <2>6, <2>7, <3>1
    <2> QED
      BY <2>2, <2>4, <2>5, <2>7 DEF ReadyIsCurrent
  <1>3. CASE Handle
    <2>1. batch # <<>> /\ batch' = Tail(batch)
      BY <1>3 DEF Handle
    <2>2. Head(batch).event \in Ahead =>
            session' \in {session, NoSession} /\ inSignal' = FALSE
      BY <1>3 DEF Handle, Ahead
    <2>3. ASSUME NEW i \in 1 .. Len(batch'), batch'[i].event = "Ready"
          PROVE  /\ session' \in {batch'[i].from, NoSession} /\ inSignal' = FALSE
                 /\ \A j \in 1 .. i - 1 : batch'[j].event \in Ahead
      <3>1. i + 1 \in 1 .. Len(batch) /\ batch'[i] = batch[i + 1] /\ i \in Nat \ {0}
        BY <2>1, TailOfBatch
      <3>2. /\ session \in {batch[i + 1].from, NoSession}
            /\ \A j \in 1 .. (i + 1) - 1 : batch[j].event \in Ahead
        BY <2>3, <3>1 DEF ReadyIsCurrent
      <3>3. Head(batch).event \in Ahead
        BY <2>1, <3>1, <3>2, TailOfBatch
      <3>4. ASSUME NEW j \in 1 .. i - 1 PROVE batch'[j].event \in Ahead
        <4>1. j + 1 \in 1 .. (i + 1) - 1 /\ j \in 1 .. Len(batch')
          BY <3>1
        <4>2. batch'[j] = batch[j + 1]
          BY <2>1, <4>1, TailOfBatch
        <4> QED
          BY <3>2, <4>1, <4>2
      <3> QED
        BY <2>2, <3>1, <3>2, <3>3, <3>4
    <2> QED
      BY <2>3 DEF ReadyIsCurrent
  <1>4. CASE UNCHANGED <<batch, inSignal, session>>
    BY <1>4 DEF ReadyIsCurrent
  <1> QED
    BY <1>1, <1>2, <1>3, <1>4
    DEF Next, Host, Join, Close, GetPacket, SendPeer, SendPacket, RuntimeStops, Runs, Connected,
        DialFails, SendReady, Release, Finish, LoseHost, vars

\* The status follows the session: starting one connects, letting go of it
\* disconnects, and a Ready is its own or finds no session at all.
LEMMA StatusStep == PInv /\ [Next]_vars => StatusMatchesSession'
  <1> SUFFICES ASSUME PInv, [Next]_vars PROVE StatusMatchesSession'
    OBVIOUS
  <1> USE DEF PInv, peerVars
  <1>1. ASSUME NEW spawned \in BOOLEAN, Host(spawned) \/ Join(spawned)
        PROVE  StatusMatchesSession'
    <2>1. NextNumber \in Numbers /\ session' = NextNumber /\ status' = "CONNECTING"
      BY <1>1, HostStarts, NextNumberIsNew DEF Started
    <2>2. session' # NoSession
      BY <2>1, BoundsAssumption DEF Numbers, NoSession
    <2> QED
      BY <2>1, <2>2 DEF StatusMatchesSession
  <1>2. CASE Close
    BY <1>2 DEF Close, StatusMatchesSession
  <1>3. CASE Handle
    <2>1. CASE Head(batch).event = "Ready"
      <3>1. batch # <<>>
        BY <1>3 DEF Handle
      <3>2. session \in {Head(batch).from, NoSession}
        BY <2>1, <3>1, TailOfBatch DEF ReadyIsCurrent
      <3>3. /\ status' = "CONNECTED" /\ session' = session /\ role' = role
            /\ unique_id' = IF role[Head(batch).from] = "host" THEN HOST_ID ELSE CLIENT_ID
        BY <1>3, <2>1 DEF Handle
      <3> QED
        BY <3>2, <3>3 DEF StatusMatchesSession
    <2>2. CASE Head(batch).event # "Ready"
      <3>1. \/ UNCHANGED <<session, status, unique_id, role>>
            \/ session' = NoSession /\ status' = "DISCONNECTED"
        BY <1>3, <2>2 DEF Handle
      <3> QED
        BY <3>1 DEF StatusMatchesSession
    <2> QED
      BY <2>1, <2>2
  <1>4. CASE UNCHANGED <<session, status, unique_id, role>>
    BY <1>4 DEF StatusMatchesSession
  <1> QED
    BY <1>1, <1>2, <1>3, <1>4
    DEF Next, GetPacket, Poll, SendPeer, SendPacket, RuntimeStops, Runs, Connected, DialFails,
        SendReady, Release, Finish, LoseHost, vars

-----------------------------------------------------------------------------
\* The packets.

\* What a poll drains is of the current session, the newest there is, and
\* handling moves what waits from the batch to the queue in its order.
LEMMA OrderStep == PInv /\ [Next]_vars => StartedInOrder'
  <1> SUFFICES ASSUME PInv, [Next]_vars PROVE StartedInOrder'
    OBVIOUS
  <1> USE DEF PInv, peerVars
  <1>a. Numbers \subseteq Nat /\ Len(incoming) \in Nat /\ Len(batch) \in Nat
    BY BoundsAssumption DEF Numbers, TypeOK
  <1>b. \A i \in 1 .. Len(incoming) : incoming[i] \in Numbers
    BY DEF TypeOK
  <1>1. ASSUME NEW spawned \in BOOLEAN, Host(spawned) \/ Join(spawned) PROVE StartedInOrder'
    <2>1. Started(NextNumber)
      BY <1>1, HostStarts
    <2>2. \A k \in Numbers : role[k] # "unused" => role'[k] # "unused"
      BY <2>1 DEF Started, TypeOK
    <2>3. \A i \in 1 .. Len(batch) : batch[i].from \in Numbers
      BY BatchTypes
    <2> QED
      BY <1>b, <2>1, <2>2, <2>3 DEF StartedInOrder, Started
  <1>2. CASE Close
    BY <1>2 DEF Close, StartedInOrder
  <1>3. CASE GetPacket
    <2>1. incoming # <<>> /\ incoming' = Tail(incoming) /\ incoming \in Seq(Numbers)
          /\ UNCHANGED <<batch, role>>
      BY <1>3 DEF GetPacket, TypeOK
    <2>2. /\ Len(incoming') = Len(incoming) - 1
          /\ \A i \in 1 .. Len(incoming') : incoming'[i] = incoming[i + 1]
      BY <2>1, HeadTailProperties
    <2>3. \A i \in 1 .. Len(incoming') : i + 1 \in 1 .. Len(incoming)
      BY <1>a, <2>2
    <2> QED
      BY <1>a, <2>1, <2>2, <2>3 DEF StartedInOrder
  <1>4. CASE Poll
    <2> DEFINE n == Len(events[session])
    <2>1. session \in Numbers /\ events[session] \in Seq(Event) /\ session # NoSession
      BY <1>4 DEF Poll, TypeOK
    <2>2. n \in Nat /\ UNCHANGED <<incoming, role>>
      BY <1>4, <2>1 DEF Poll
    <2>3. batch' = [i \in 1 .. n |-> [from |-> session, event |-> events[session][i]]]
      BY <1>4 DEF Poll
    <2>4. Len(batch') = n /\ \A i \in 1 .. n : batch'[i].from = session
      BY <2>2, <2>3
    <2>5. role[session] # "unused" /\ \A k \in Numbers : role[k] # "unused" => k <= session
      BY <2>1 DEF NumbersGrow
    <2>6. \A i \in 1 .. Len(incoming) : incoming[i] <= session
      BY <1>b, <2>5 DEF StartedInOrder
    <2> HIDE DEF n
    <2> QED
      BY <1>a, <2>1, <2>2, <2>4, <2>5, <2>6 DEF StartedInOrder
  <1>5. CASE Handle
    <2>1. batch # <<>> /\ batch' = Tail(batch) /\ role' = role
      BY <1>5 DEF Handle
    <2>2. Head(batch).from = batch[1].from /\ 1 \in 1 .. Len(batch) /\ batch[1].from \in Numbers
      BY <2>1, TailOfBatch, BatchTypes
    <2>3. /\ Len(batch') = Len(batch) - 1
          /\ \A i \in 1 .. Len(batch') : batch'[i] = batch[i + 1] /\ i + 1 \in 1 .. Len(batch)
      BY <1>a, <2>1, TailOfBatch
    <2>4. CASE incoming' = incoming
      BY <1>a, <2>1, <2>3, <2>4 DEF StartedInOrder
    <2>5. CASE incoming' = Append(incoming, batch[1].from)
      <3>1. /\ Len(incoming') = Len(incoming) + 1
            /\ incoming'[Len(incoming) + 1] = batch[1].from
            /\ \A i \in 1 .. Len(incoming) : incoming'[i] = incoming[i]
        BY <2>2, <2>5, AppendProperties DEF TypeOK
      <3>2. \A i \in 1 .. Len(incoming') : role'[incoming'[i]] # "unused"
        BY <1>a, <2>1, <2>2, <3>1 DEF StartedInOrder
      <3>3. \A i \in 1 .. Len(batch') : role'[batch'[i].from] # "unused"
        BY <2>1, <2>3 DEF StartedInOrder
      <3>4. ASSUME NEW i \in 1 .. Len(incoming'), NEW j \in 1 .. Len(incoming'), i < j
            PROVE  incoming'[i] <= incoming'[j]
        BY <1>a, <2>2, <3>1, <3>4 DEF StartedInOrder
      <3>5. ASSUME NEW i \in 1 .. Len(batch'), NEW j \in 1 .. Len(batch'), i < j
            PROVE  batch'[i].from <= batch'[j].from
        <4>1. /\ i + 1 \in 1 .. Len(batch) /\ j + 1 \in 1 .. Len(batch) /\ i + 1 < j + 1
              /\ batch'[i] = batch[i + 1] /\ batch'[j] = batch[j + 1]
          BY <2>3, <3>5
        <4> QED
          BY <4>1 DEF StartedInOrder
      <3>6. ASSUME NEW i \in 1 .. Len(incoming'), NEW j \in 1 .. Len(batch')
            PROVE  incoming'[i] <= batch'[j].from
        BY <1>a, <2>2, <2>3, <3>1, SMTT(30) DEF StartedInOrder
      <3> QED
        BY <3>2, <3>3, <3>4, <3>5, <3>6 DEF StartedInOrder
    <2> QED
      BY <1>5, <2>2, <2>4, <2>5 DEF Handle, Push
  <1>6. CASE UNCHANGED <<incoming, batch, role>>
    BY <1>6 DEF StartedInOrder
  <1> QED
    BY <1>1, <1>2, <1>3, <1>4, <1>5, <1>6
    DEF Next, SendPeer, SendPacket, RuntimeStops, Runs, Connected, DialFails, SendReady, Release,
        Finish, LoseHost, vars

-----------------------------------------------------------------------------
\* The theorems.

\* The invariant holds in every reachable state.
THEOREM PeerInvariant == Spec => []PInv
  <1>1. PInv /\ [Next]_vars => PInv'
    BY TypeStep, TasksStep, ClaimStep, NumbersStep, ReadyLeadsStep, ReadyIsCurrentStep,
       StatusStep, OrderStep DEF PInv
  <1> QED
    BY <1>1, PeerInit, PTL DEF Spec

\* One session hosts per endpoint, however many are started, replaced and
\* closed, and whatever becomes of the runtime: the claim is held exactly by
\* a hosting task that runs.
THEOREM OneHostAtATime == Spec => []OneHostRuns
  <1>1. PInv => OneHostRuns
    BY DEF PInv
  <1> QED
    BY <1>1, PeerInvariant, PTL

\* The status and the id a game reads are those of the session it holds, even
\* when a signal handler replaces the session in the middle of a poll, and a game
\* that reads CONNECTING holds one.
THEOREM StatusIsTheSessions == Spec => []StatusMatchesSession
  <1>1. PInv => StatusMatchesSession
    BY DEF PInv
  <1> QED
    BY <1>1, PeerInvariant, PTL

\* A game reads the packets of its sessions one session after the other.
THEOREM PacketsAreReadBySession == Spec => []PacketsComeBySession
  <1>1. PInv => PacketsComeBySession
    <2> SUFFICES ASSUME PInv PROVE PacketsComeBySession
      OBVIOUS
    <2> DEFINE n == Len(incoming)
               m == Len(batch)
               rest == [i \in 1 .. m |-> batch[i].from]
               left == incoming \o rest
    <2>1. incoming \in Seq(Numbers) /\ n \in Nat /\ m \in Nat /\ Numbers \subseteq Nat
      BY BoundsAssumption DEF PInv, TypeOK, Numbers
    <2>2. \A i \in 1 .. m : batch[i].from \in Numbers
      BY BatchTypes DEF PInv
    <2>3. rest \in Seq(Numbers) /\ Len(rest) = m /\ \A i \in 1 .. m : rest[i] = batch[i].from
      BY <2>1, <2>2
    <2> HIDE DEF rest
    <2>4. /\ Len(left) = Len(incoming) + Len(rest)
          /\ \A i \in 1 .. Len(incoming) + Len(rest) :
               left[i] = IF i <= Len(incoming) THEN incoming[i] ELSE rest[i - Len(incoming)]
      BY ONLY <2>1, <2>3, ConcatProperties, Zenon
    <2>5. /\ Len(left) = n + m
          /\ \A i \in 1 .. n + m : left[i] = IF i <= n THEN incoming[i] ELSE rest[i - n]
      BY <2>3, <2>4
    <2> HIDE DEF left, n, m
    <2>6. ASSUME NEW i \in 1 .. n + m, NEW j \in 1 .. n + m, i < j PROVE left[i] <= left[j]
      <3>1. CASE j <= n
        BY <2>1, <2>5, <2>6, <3>1 DEF PInv, StartedInOrder, n
      <3>2. CASE i <= n /\ n < j
        <4>1. i \in 1 .. n /\ j - n \in 1 .. m
          BY <2>1, <3>2
        <4>2. left[i] = incoming[i] /\ left[j] = batch[j - n].from
          BY <2>1, <2>3, <2>5, <3>2, <4>1
        <4> QED
          BY <4>1, <4>2 DEF PInv, StartedInOrder, n, m
      <3>3. CASE n < i
        <4>1. i - n \in 1 .. m /\ j - n \in 1 .. m /\ i - n < j - n
          BY <2>1, <2>6, <3>3
        <4>2. left[i] = batch[i - n].from /\ left[j] = batch[j - n].from
          BY <2>1, <2>3, <2>5, <2>6, <3>3, <4>1
        <4> QED
          BY <4>1, <4>2 DEF PInv, StartedInOrder, m
      <3> QED
        BY <2>1, <3>1, <3>2, <3>3
    <2> QED
      BY <2>5, <2>6 DEF PacketsComeBySession, left, rest, n, m
  <1> QED
    BY <1>1, PeerInvariant, PTL
=============================================================================
