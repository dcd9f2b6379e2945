--------------------------- MODULE DocumentProofs ---------------------------
(***************************************************************************)
(* Proofs about Document, for any keys, whichever of them start with       *)
(* others, any authors and any number of commands and remote writes: a     *)
(* read answers with what the script wrote before it, the entry signals    *)
(* add up to the replica, a value that was missing is announced if the     *)
(* document downloads it, and the object is a handle as Reports specifies  *)
(* it.                                                                     *)
(***************************************************************************)
EXTENDS Document, SequenceTheorems, TLAPS

-----------------------------------------------------------------------------
\* The inductive invariant.

\* Before the document is open nothing was said or is on its way, and before
\* there is one nothing was asked.
Beginning ==
    /\ document = "none" <=> task = "none"
    /\ task = "none" => commands = <<>>
    /\ task \in {"none"} \cup Opening =>
         /\ events = <<>> /\ deferred = <<>> /\ updates = <<>>
         /\ missed = {} /\ ~ended

\* The object that lets go of its channel leaves nothing in it.
ChannelGoesToo == document # "held" => events = <<>>

\* The subscription yields entries and announcements.
UpdatesAreNews ==
    \A i \in 1..Len(updates) : updates[i].kind \in {"entry", "content_ready"}

\* closed is the last event of the channel, and its task is past sending; it is
\* the last signal deferred, and the object has let go; and once it was heard
\* nothing is deferred any more.
EndsAreLast ==
    /\ \A i \in 1..Len(events) : events[i] = CLOSED =>
         i = Len(events) /\ task \notin Opening \cup Subscribed
    /\ \A i \in 1..Len(deferred) : deferred[i] = CLOSED =>
         i = Len(deferred) /\ document \notin {"none", "held"}
    /\ ended => deferred = <<>> /\ document \notin {"none", "held"}

\* Every write of ours was given, and one that waits is yet to be counted.
WritesWereGiven ==
    clock + Len(commands) + (IF task = "applying" THEN 1 ELSE 0) <= given

\* Whose an entry is shows in its time and its value.
Origin(e) ==
    IF e.author = US
    THEN /\ e.time <= clock
         /\ e.value \in content /\ (e.value = EMPTY \/ e.value[1] = "ours")
    ELSE e.time \in arrived /\ (e.value = EMPTY \/ e.value[1] = "theirs")

\* No author writes twice at one time.
Known == entries \cup Told
WritesDiffer ==
    /\ \A e \in Known : Origin(e)
    /\ \A e, x \in Known : e.author = x.author /\ e.time = x.time => e = x

\* The replica keeps no entry that another makes void, has told or will tell
\* every entry it keeps, and every entry told is kept or void.
ReplicaIsTold ==
    /\ \A e, x \in entries : ~Supersedes(x, e)
    /\ Listening =>
         /\ entries \subseteq Told
         /\ \A e \in Told : e \in entries \/ \E x \in entries : Supersedes(x, e)

\* A command that writes to a key, and the one a later read of it waits for.
Writes(c, key) == c.op \in {"set", "delete"} /\ Covers(c.key, key)
Is(c, key, n, kept) == c.n = n /\ (kept <=> c.op = "set" /\ c.key = key)

\* The replica holds what our n-th command or a later one left at the key.
Holds(key, n, kept) ==
    LET own == {e \in Matches(key) : e.author = US}
    IN  /\ kept => own # {}
        /\ \A e \in own : e.value[2] >= n

\* The same, once the command at hand is applied.
Settled(key, n, kept) ==
    IF task = "applying" /\ Writes(current, key) THEN Is(current, key, n, kept)
                                                 ELSE Holds(key, n, kept)

\* Of the first i commands of a queue the last that writes to the key is the
\* one, or none does and it was settled before.
Reaches(queue, settled, key, n, kept, i) ==
    \/ \E j \in 1..i : /\ Writes(queue[j], key) /\ Is(queue[j], key, n, kept)
                       /\ \A l \in j + 1..i : ~Writes(queue[l], key)
    \/ /\ \A l \in 1..i : ~Writes(queue[l], key)
       /\ settled

\* The same, once the first i commands that wait are applied too.
AppliedTo(key, n, kept, i) ==
    Reaches(commands, Settled(key, n, kept), key, n, kept, i)

\* A task that may still apply commands.
Working == {"none"} \cup Opening \cup Subscribed

\* When the turn of a read comes the write it waits for has been applied.
InOrder ==
    task \in Working =>
      /\ \A key \in Keys : AppliedTo(key, mine[key].n, mine[key].kept, Len(commands))
      /\ \A i \in 1..Len(commands) :
           commands[i].op = "read" =>
             AppliedTo(commands[i].key, commands[i].floor, commands[i].kept, i - 1)
      /\ task = "applying" /\ current.op = "read" =>
           Holds(current.key, current.floor, current.kept)

\* An answer to a read: nothing only if nothing was to be kept, of ours
\* nothing older than what was, and what is missing is theirs, or the store
\* failed.
Answers(c, e, found, failed) ==
    /\ e = NONE => ~c.kept
    /\ e # NONE /\ e.author = US => (found \/ failed) /\ e.value[2] >= c.floor
    /\ e # NONE /\ ~found /\ ~failed => e.value[1] = "theirs"
AnswersAreRight ==
    /\ task = "reading" =>
         Answers(current, picked, picked # NONE /\ picked.value \in content, FALSE)
    /\ \A i \in 1..Len(events) : events[i].kind = "value" =>
         Answers(events[i].to, events[i].entry, events[i].found, events[i].failed)
    /\ \A i \in 1..Len(deferred) : deferred[i].kind = "value" =>
         Answers(deferred[i].to, deferred[i].entry, deferred[i].found, deferred[i].failed)
    /\ \A value \in missed : value[1] = "theirs"

\* A value is announced in a queue, or behind its i-th signal.
Ready(queue, value) == \E j \in 1..Len(queue) : queue[j] = ContentReady(value)
ReadyAfter(queue, i, value) ==
    \E j \in 1..Len(queue) : j > i /\ queue[j] = ContentReady(value)

\* MissesAreAnnounced, queue by queue.
AnnouncementsFollow ==
    Listening => \A value \in content \ silent :
        /\ value \in missed =>
             Ready(deferred, value) \/ Ready(events, value) \/ Ready(updates, value)
        /\ \A i \in 1..Len(deferred) : Misses(deferred[i], value) =>
             ReadyAfter(deferred, i, value) \/ Ready(events, value) \/ Ready(updates, value)
        /\ \A i \in 1..Len(events) : Misses(events[i], value) =>
             ReadyAfter(events, i, value) \/ Ready(updates, value)

DInv ==
    /\ TypeOK
    /\ Beginning /\ ChannelGoesToo /\ UpdatesAreNews /\ EndsAreLast
    /\ WritesWereGiven /\ WritesDiffer /\ ReplicaIsTold
    /\ InOrder /\ AnswersAreRight /\ AnnouncementsFollow

-----------------------------------------------------------------------------
\* The signals and what they carry.

\* Each constructor makes a signal, and no two make the same.
LEMMA MadeSignals ==
    /\ OPENED \in Signals /\ OPENED.kind = "opened"
    /\ CLOSED \in Signals /\ CLOSED.kind = "closed"
    /\ \A e \in Entries : /\ Entry(e) \in Signals /\ Entry(e).kind = "entry"
                          /\ Entry(e).entry = e
    /\ \A v \in Values : /\ ContentReady(v) \in Signals
                         /\ ContentReady(v).kind = "content_ready"
                         /\ ContentReady(v).value = v
    /\ \A c \in Commands : Info(c) \in Signals /\ Info(c).kind = "info"
    /\ \A c \in Commands, e \in Entries \cup {NONE}, found, failed \in BOOLEAN :
         /\ Value(c, e, found, failed) \in Signals /\ Value(c, e, found, failed).kind = "value"
         /\ Value(c, e, found, failed).to = c /\ Value(c, e, found, failed).entry = e
         /\ Value(c, e, found, failed).found = found
         /\ Value(c, e, found, failed).failed = failed
  <1>1. OPENED \in Signals /\ CLOSED \in Signals
    BY DEF Signals
  <1>2. OPENED.kind = "opened" /\ CLOSED.kind = "closed"
    BY DEF OPENED, CLOSED
  <1>3. \A e \in Entries : Entry(e) \in Signals
    BY DEF Signals
  <1>4. \A e \in Entries : Entry(e).kind = "entry" /\ Entry(e).entry = e
    BY DEF Entry
  <1>5. \A v \in Values : ContentReady(v) \in Signals
    BY DEF Signals
  <1>6. \A v \in Values : ContentReady(v).kind = "content_ready" /\ ContentReady(v).value = v
    BY DEF ContentReady
  <1>7. \A c \in Commands : Info(c) \in Signals
    BY DEF Signals
  <1>8. \A c \in Commands : Info(c).kind = "info"
    BY DEF Info
  <1>9. \A c \in Commands, e \in Entries \cup {NONE}, found, failed \in BOOLEAN : Value(c, e, found, failed) \in Signals
    BY DEF Signals
  <1>10. \A c \in Commands, e \in Entries \cup {NONE}, found, failed \in BOOLEAN :
           /\ Value(c, e, found, failed).kind = "value" /\ Value(c, e, found, failed).to = c
           /\ Value(c, e, found, failed).entry = e /\ Value(c, e, found, failed).found = found
           /\ Value(c, e, found, failed).failed = failed
    BY DEF Value
  <1> QED
    BY <1>1, <1>2, <1>3, <1>4, <1>5, <1>6, <1>7, <1>8, <1>9, <1>10

\* A signal's kind says what it carries.
LEMMA SignalKinds ==
    ASSUME NEW signal \in Signals
    PROVE  /\ signal.kind = "entry" => signal.entry \in Entries /\ signal = Entry(signal.entry)
           /\ signal.kind = "content_ready" =>
                signal.value \in Values /\ signal = ContentReady(signal.value)
           /\ signal.kind = "value" =>
                signal.entry \in Entries \cup {NONE} /\ signal.to \in Commands
           /\ signal.kind = "closed" <=> signal = CLOSED
  <1>1. CASE signal \in {OPENED, CLOSED}
    BY <1>1 DEF OPENED, CLOSED
  <1>2. ASSUME NEW e \in Entries, signal = Entry(e)
        PROVE  signal.kind = "entry" /\ signal.entry = e
    BY <1>2 DEF Entry
  <1>3. ASSUME NEW v \in Values, signal = ContentReady(v)
        PROVE  signal.kind = "content_ready" /\ signal.value = v
    BY <1>3 DEF ContentReady
  <1>4. ASSUME NEW c \in Commands, signal = Info(c) PROVE signal.kind = "info"
    BY <1>4 DEF Info
  <1>5. ASSUME NEW c \in Commands, NEW e \in Entries \cup {NONE}, NEW found \in BOOLEAN, NEW failed \in BOOLEAN,
               signal = Value(c, e, found, failed)
        PROVE  signal.kind = "value" /\ signal.entry = e /\ signal.to = c
    BY <1>5 DEF Value
  <1>6. CLOSED.kind = "closed"
    BY DEF CLOSED
  <1>7. \/ signal \in {OPENED, CLOSED}
        \/ \E e \in Entries : signal = Entry(e)
        \/ \E v \in Values : signal = ContentReady(v)
        \/ \E c \in Commands : signal = Info(c)
        \/ \E c \in Commands, e \in Entries \cup {NONE}, found, failed \in BOOLEAN : signal = Value(c, e, found, failed)
    BY DEF Signals
  <1>8. CASE \E e \in Entries : signal = Entry(e)
    BY <1>2, <1>6, <1>8
  <1>9. CASE \E v \in Values : signal = ContentReady(v)
    BY <1>3, <1>6, <1>9
  <1>10. CASE \E c \in Commands : signal = Info(c)
    BY <1>4, <1>6, <1>10
  <1>11. CASE \E c \in Commands, e \in Entries \cup {NONE}, found, failed \in BOOLEAN : signal = Value(c, e, found, failed)
    BY <1>5, <1>6, <1>11
  <1> QED
    BY <1>1, <1>7, <1>8, <1>9, <1>10, <1>11

\* The fields of an entry and of a command.
LEMMA EntryFields ==
    ASSUME NEW e \in Entries
    PROVE  /\ e.key \in Keys /\ e.author \in Authors
           /\ e.time \in Times /\ e.value \in Values /\ e.time \in Nat /\ e # NONE
  BY MaxCommandsIsNat, MaxRemoteIsNat, NoneIsNoEntry DEF Entries, Times

\* Every bound on times is a natural number.
LEMMA TimesAreNat ==
    /\ \A n \in 0..MaxCommands : n \in Times
    /\ \A n \in 1..MaxRemote : n \in Times
    /\ Times \subseteq Nat /\ 0 \in Times
  BY MaxCommandsIsNat, MaxRemoteIsNat DEF Times

\* The values, by who wrote them.
LEMMA ValueKinds ==
    /\ EMPTY \in Values /\ EMPTY[1] = "empty"
    /\ \A n \in 0..MaxCommands : /\ Ours(n) \in Values /\ Ours(n)[1] = "ours"
                                 /\ Ours(n)[2] = n /\ Ours(n) # EMPTY
    /\ \A t \in Times : /\ Theirs(t) \in Values /\ Theirs(t)[1] = "theirs"
                        /\ Theirs(t) # EMPTY
  BY DEF Values, EMPTY, Ours, Theirs

\* What the replica makes of a write is made of what it had and the write.
LEMMA InsertMembers ==
    ASSUME NEW set, NEW e
    PROVE  /\ Insert(set, e) \subseteq set \cup {e}
           /\ \A x \in set : x \notin Insert(set, e) => Supersedes(e, x)
           /\ e \notin Insert(set, e) =>
                \E x \in set : x.author = e.author /\ Covers(x.key, e.key) /\ x.time >= e.time
  BY DEF Insert, Supersedes

\* An element of a queue with one more at its end.
LEMMA AppendElements ==
    ASSUME NEW S, NEW q \in Seq(S), NEW x \in S
    PROVE  /\ Append(q, x) \in Seq(S) /\ Len(Append(q, x)) = Len(q) + 1 /\ Len(q) \in Nat
           /\ \A i \in 1..Len(q) : Append(q, x)[i] = q[i]
           /\ Append(q, x)[Len(q) + 1] = x
  BY AppendProperties, LenProperties

\* An element of a queue without its head.
LEMMA TailElements ==
    ASSUME NEW S, NEW q \in Seq(S), q # <<>>
    PROVE  /\ Tail(q) \in Seq(S) /\ Len(Tail(q)) = Len(q) - 1 /\ Len(q) \in Nat \ {0}
           /\ \A i \in 1..Len(q) - 1 : Tail(q)[i] = q[i + 1]
           /\ Head(q) = q[1] /\ Head(q) \in S
  BY HeadTailProperties, EmptySeq

\* What the task sends, if anything, comes behind what is in the channel.
LEMMA SentElements ==
    ASSUME events \in Seq(Signals), NEW signal \in Signals, Sent(signal)
    PROVE  /\ events' \in Seq(Signals)
           /\ \A i \in 1..Len(events') :
                \/ i \in 1..Len(events) /\ events'[i] = events[i]
                \/ i = Len(events') /\ i = Len(events) + 1 /\ events'[i] = signal
                     /\ document = "held"
           /\ \A i \in 1..Len(events) : i \in 1..Len(events') /\ events'[i] = events[i]
  <1>1. CASE document = "held"
    BY <1>1, AppendElements DEF Sent
  <1>2. CASE document # "held"
    BY <1>2 DEF Sent
  <1> QED
    BY <1>1, <1>2

\* The same of what the replica announces to the subscription.
LEMMA AnnouncedElements ==
    ASSUME updates \in Seq(Signals), NEW signal \in Signals, Announced(signal)
    PROVE  /\ updates' \in Seq(Signals)
           /\ \A i \in 1..Len(updates') :
                \/ i \in 1..Len(updates) /\ updates'[i] = updates[i]
                \/ i = Len(updates) + 1 /\ updates'[i] = signal
           /\ \A i \in 1..Len(updates) : i \in 1..Len(updates') /\ updates'[i] = updates[i]
           /\ task \in Subscribed =>
                Len(updates) + 1 \in 1..Len(updates') /\ updates'[Len(updates) + 1] = signal
  <1>1. CASE task \in Subscribed
    BY <1>1, AppendElements DEF Announced
  <1>2. CASE task \notin Subscribed
    BY <1>2 DEF Announced
  <1> QED
    BY <1>1, <1>2

\* What the task sends to answer a read.
LEMMA AnswerSends ==
    ASSUME TypeOK, Answer
    PROVE  \E found, failed \in BOOLEAN :
             LET signal == Value(current, picked, found, failed) IN
             /\ Sent(signal)
             /\ signal \in Signals /\ signal.kind = "value" /\ signal.to = current
             /\ signal.entry = picked /\ signal.found = found /\ signal.failed = failed
             /\ failed => picked # NONE
             /\ ~failed => (found <=> picked # NONE /\ picked.value \in content)
  <1>1. current \in Commands /\ picked \in Entries \cup {NONE}
    BY DEF Answer, TypeOK
  <1>2. CASE Sent(Value(current, picked, picked # NONE /\ picked.value \in content, FALSE))
    <2>1. CASE picked # NONE /\ picked.value \in content
      <3>1. (picked # NONE /\ picked.value \in content) = TRUE
        BY <2>1
      <3>2. Sent(Value(current, picked, TRUE, FALSE))
        BY <1>2, <3>1
      <3> QED
        BY <1>1, <2>1, <3>2, MadeSignals, ZenonT(30)
    <2>2. CASE ~(picked # NONE /\ picked.value \in content)
      <3>1. (picked # NONE /\ picked.value \in content) = FALSE
        BY <2>2
      <3>2. Sent(Value(current, picked, FALSE, FALSE))
        BY <1>2, <3>1
      <3> QED
        BY <1>1, <2>2, <3>2, MadeSignals, ZenonT(30)
    <2> QED
      BY <2>1, <2>2
  <1>3. CASE picked # NONE /\ Sent(Value(current, picked, FALSE, TRUE))
    BY <1>1, <1>3, MadeSignals, ZenonT(30)
  <1> QED
    BY <1>2, <1>3 DEF Answer

-----------------------------------------------------------------------------
\* Types.

\* What a write of ours puts into the replica, and what a write of theirs does.
Made(c) == [key |-> c.key, author |-> US, time |-> clock + 1,
            value |-> IF c.op = "set" THEN Ours(c.n) ELSE EMPTY]
Brought(author, key, time, gone) ==
    [key |-> key, author |-> author, time |-> time,
     value |-> IF gone THEN EMPTY ELSE Theirs(time)]

\* A write of ours is an entry: there are no more of them than commands.
LEMMA MadeIsAnEntry ==
    ASSUME TypeOK, WritesWereGiven, task = "applying"
    PROVE  /\ Made(current) \in Entries /\ clock + 1 \in Times /\ clock \in Nat
           /\ Made(current).value \in Values
           /\ Made(current).author = US /\ Made(current).time = clock + 1
           /\ Made(current).key = current.key
           /\ Made(current).value = IF current.op = "set" THEN Ours(current.n) ELSE EMPTY
  <1>1. /\ clock \in Nat /\ given \in 0..MaxCommands /\ Len(commands) \in Nat
        /\ current \in Commands
    BY TimesAreNat, LenProperties DEF TypeOK
  <1>2. clock + 1 \in 0..MaxCommands
    BY <1>1, MaxCommandsIsNat DEF WritesWereGiven
  <1>3. clock + 1 \in Times
    BY <1>2, TimesAreNat
  <1>4. current.key \in Keys /\ current.n \in 0..MaxCommands
    BY <1>1, MaxCommandsIsNat DEF Commands
  <1>5. Ours(current.n) \in Values /\ EMPTY \in Values
    BY <1>4, ValueKinds
  <1>6. US \in Authors
    BY DEF Authors
  <1> QED
    BY <1>1, <1>3, <1>4, <1>5, <1>6 DEF Made, Entries

\* So is a write of theirs.
LEMMA BroughtIsAnEntry ==
    ASSUME NEW author \in Others, NEW key \in SharedKeys, NEW time \in 1..MaxRemote,
           NEW gone \in BOOLEAN
    PROVE  LET e == Brought(author, key, time, gone) IN
           /\ e \in Entries /\ e.author = author /\ e.author # US /\ e.time = time
           /\ e.key = key /\ e.value = IF gone THEN EMPTY ELSE Theirs(time)
  <1>1. time \in Times /\ Theirs(time) \in Values /\ EMPTY \in Values
    BY TimesAreNat, ValueKinds
  <1>2. author \in Authors /\ author # US /\ key \in Keys
    BY WeAreNoOther, SharedKeysAreKeys DEF Authors
  <1> QED
    BY <1>1, <1>2 DEF Brought, Entries

\* A command the script gives is one.
LEMMA GivenIsACommand ==
    ASSUME TypeOK, NEW op \in Operations, NEW key \in Keys, Command(op, key)
    PROVE  \E c \in Commands :
             /\ c.op = op /\ c.key = key /\ c.n = given + 1
             /\ op = "read" => c.floor = mine[key].n /\ c.kept = mine[key].kept
             /\ commands' = Append(commands, c)
             /\ given + 1 \in 1..MaxCommands
  <1> DEFINE last == IF op = "read" THEN mine[key] ELSE [n |-> 0, kept |-> FALSE]
             c == [op |-> op, key |-> key, n |-> given + 1, floor |-> last.n, kept |-> last.kept]
  <1>1. given + 1 \in 1..MaxCommands
    BY MaxCommandsIsNat DEF Command, TypeOK
  <1>2. CASE op = "read"
    <2>2. mine[key] \in [n : 0..MaxCommands, kept : BOOLEAN]
      BY DEF TypeOK
    <2>3. last.n \in 0..MaxCommands /\ last.kept \in BOOLEAN /\ last = mine[key]
      BY <1>2, <2>2
    <2>4. c \in Commands
      BY <1>1, <2>3 DEF Commands
    <2> QED
      BY <1>1, <1>2, <2>3, <2>4 DEF Command
  <1>3. CASE op # "read"
    <2>1. last.n = 0 /\ last.kept = FALSE
      BY <1>3
    <2>2. \A n : n = 0 => n \in 0..MaxCommands
      BY MaxCommandsIsNat
    <2> HIDE DEF last
    <2>3. last.n \in 0..MaxCommands /\ last.kept \in BOOLEAN
      BY <2>1, <2>2
    <2> USE DEF last
    <2>4. c \in Commands
      BY <1>1, <2>3 DEF Commands
    <2> QED
      BY <1>1, <1>3, <2>4 DEF Command
  <1> QED
    BY <1>2, <1>3

\* What the script may give is an operation and a key.
LEMMA CallsAreCommands == CommandAny => \E op \in Operations, key \in Keys : Command(op, key)
  BY CallsHaveKeys DEF CommandAny

\* The first state has its types.
LEMMA TypeInit == Init => TypeOK
  <1> SUFFICES ASSUME Init PROVE TypeOK
    OBVIOUS
  <1>1. \A S : <<>> \in Seq(S)
    OBVIOUS
  <1>2. 0 \in 0..MaxCommands /\ 0 \in Times
    BY MaxCommandsIsNat, TimesAreNat
  <1>3. Ours(0) \in Values
    BY <1>2, ValueKinds
  <1>4. entries \in SUBSET Entries
    <2>1. CASE entries = {}
      BY <2>1
    <2>2. CASE \E key \in SharedKeys : entries = {[key |-> key, author |-> US, time |-> 0, value |-> Ours(0)]}
      BY <1>2, <1>3, <2>2, SharedKeysAreKeys DEF Entries, Authors
    <2> QED
      BY <2>1, <2>2 DEF Init
  <1>5. mine \in [Keys -> [n : 0..MaxCommands, kept : BOOLEAN]]
    BY <1>2 DEF Init
  <1>6. content \in SUBSET Values
    BY <1>3 DEF Init
  <1> QED
    BY <1>1, <1>2, <1>4, <1>5, <1>6 DEF Init, TypeOK

\* Every step keeps the types.
LEMMA TypeStep == DInv /\ [Next]_vars => TypeOK'
  <1> SUFFICES ASSUME DInv, [Next]_vars PROVE TypeOK'
    OBVIOUS
  <1>1. TypeOK /\ WritesWereGiven
    BY DEF DInv
  <1> USE <1>1 DEF objectVars, replicaVars, askVars, scriptVars
  <1>e. \A S : <<>> \in Seq(S)
    OBVIOUS
  <1>2. CASE Spawn
    <2>1. events' \in Seq(Signals)
      <3>1. <<CLOSED>> \in Seq(Signals)
        BY MadeSignals
      <3> QED
        BY <1>2, <3>1, <1>e DEF Spawn
    <2> QED
      BY <1>2, <2>1 DEF Spawn, TypeOK, Alive, Opening
  <1>3. ASSUME NEW op \in Operations, NEW key \in Keys, Command(op, key)
        PROVE  TypeOK'
    <2>1. PICK c \in Commands : commands' = Append(commands, c) /\ given + 1 \in 1..MaxCommands
      BY <1>3, GivenIsACommand
    <2>2. commands' \in Seq(Commands)
      BY <2>1, AppendElements DEF TypeOK
    <2>3. given + 1 \in 0..MaxCommands /\ given' = given + 1
      BY <1>3, <2>1 DEF Command
    <2>4. Append(asked, given + 1) \in Seq(1..MaxCommands)
      BY <2>1, AppendElements DEF TypeOK
    <2>5. asked' \in Seq(1..MaxCommands)
      BY <1>3, <2>4 DEF Command, TypeOK
    <2>6. mine' \in [Keys -> [n : 0..MaxCommands, kept : BOOLEAN]]
      <3>1. ASSUME NEW k \in Keys PROVE mine'[k] \in [n : 0..MaxCommands, kept : BOOLEAN]
        <4>1. mine[k] \in [n : 0..MaxCommands, kept : BOOLEAN]
          BY DEF TypeOK
        <4>2. [n |-> given + 1, kept |-> op = "set" /\ k = key] \in [n : 0..MaxCommands, kept : BOOLEAN]
          BY <2>3
        <4> QED
          BY <1>3, <4>1, <4>2 DEF Command
      <3> QED
        BY <1>3, <3>1 DEF Command
    <2> QED
      BY <1>3, <2>2, <2>3, <2>5, <2>6 DEF Command, TypeOK
  <1>4. CASE Drain
    <2>1. deferred' \in Seq(Signals)
      BY <1>4, ConcatProperties DEF Drain, Handled, TypeOK
    <2> QED
      BY <1>4, <1>e, <2>1 DEF Drain, Handled, TypeOK
  <1>5. CASE Emit
    <2> DEFINE h == Head(deferred)
    <2>1. deferred' \in Seq(Signals) /\ h \in Signals
      BY <1>5, TailElements DEF Emit, TypeOK
    <2>2. answers' \in Nat
      BY <1>5 DEF Emit, TypeOK
    <2>3. mirror' \in SUBSET Entries
      <3>1. h.kind = "entry" => Insert(mirror, h.entry) \subseteq mirror \cup {h.entry} /\ h.entry \in Entries
        BY <2>1, SignalKinds, InsertMembers
      <3> QED
        BY <1>5, <3>1 DEF Emit, Mirrored, TypeOK
    <2>4. missed' \in SUBSET Values
      <3> DEFINE miss == h.kind = "value" /\ ~h.found /\ ~h.failed /\ h.entry # NONE
      <3>1. missed' = IF miss THEN missed \cup {h.entry.value}
                              ELSE IF h.kind = "content_ready" THEN missed \ {h.value} ELSE missed
        BY <1>5 DEF Emit, Missed
      <3>2. miss => h.entry \in Entries
        BY <2>1, SignalKinds
      <3>3. miss => h.entry.value \in Values
        BY <3>2, EntryFields
      <3> HIDE DEF miss
      <3> QED
        BY <3>1, <3>3 DEF TypeOK
    <2>5. ended' \in BOOLEAN
      BY <1>5 DEF Emit
    <2> QED
      BY <1>5, <2>1, <2>2, <2>3, <2>4, <2>5 DEF Emit, TypeOK
  <1>6. CASE Close
    BY <1>6, <1>e DEF Close, TypeOK
  <1>7. CASE Release
    BY <1>7, <1>e DEF Release, TypeOK
  <1>8. CASE Open
    <2>1. CASE /\ task' = IF task = "opening" THEN "updates" ELSE "running"
               /\ IF task = "updates" THEN Sent(OPENED) /\ mirror' = entries
                                      ELSE UNCHANGED <<events, mirror>>
               /\ UNCHANGED <<commands, updates>>
      <3>1. events' \in Seq(Signals)
        BY <2>1, MadeSignals, SentElements DEF TypeOK
      <3>2. mirror' \in SUBSET Entries
        BY <2>1 DEF TypeOK
      <3> QED
        BY <1>8, <2>1, <3>1, <3>2 DEF Open, TypeOK, Alive, Opening
    <2>2. CASE Sent(CLOSED) /\ Return /\ UNCHANGED mirror
      <3>1. events' \in Seq(Signals)
        BY <2>2, MadeSignals, SentElements DEF TypeOK
      <3> QED
        BY <1>8, <1>e, <2>2, <3>1 DEF Open, Return, TypeOK
    <2> QED
      BY <1>8, <2>1, <2>2 DEF Open
  <1>9. CASE TakeCommand
    <2>1. commands' \in Seq(Commands) /\ current' \in Commands
      BY <1>9, TailElements DEF TakeCommand, TypeOK
    <2> QED
      BY <1>9, <2>1 DEF TakeCommand, TypeOK, Alive
  <1>10. CASE Write
    <2>1. /\ Made(current) \in Entries /\ Made(current).value \in Values /\ clock + 1 \in Times
      BY <1>10, MadeIsAnEntry DEF Write
    <2>2. /\ entries' = Insert(entries, Made(current))
          /\ content' = content \cup {Made(current).value}
          /\ Announced(Entry(Made(current)))
      BY <1>10 DEF Write, Made
    <2>3. entries' \in SUBSET Entries
      BY <2>1, <2>2, InsertMembers DEF TypeOK
    <2>4. content' \in SUBSET Values
      BY <2>1, <2>2 DEF TypeOK
    <2>5. updates' \in Seq(Signals)
      BY <2>1, <2>2, MadeSignals, AnnouncedElements DEF TypeOK
    <2> QED
      BY <1>10, <2>1, <2>3, <2>4, <2>5 DEF Write, TypeOK, Alive
  <1>11. CASE Pick
    <2>1. picked' \in Entries \cup {NONE}
      BY <1>11 DEF Pick, Matches, TypeOK
    <2> QED
      BY <1>11, <2>1 DEF Pick, TypeOK, Alive
  <1>12. CASE Answer
    <2>1. PICK signal \in Signals : Sent(signal)
      BY <1>12, AnswerSends
    <2>2. events' \in Seq(Signals)
      BY <2>1, SentElements DEF TypeOK
    <2> QED
      BY <1>12, <2>2 DEF Answer, TypeOK, Alive
  <1>13. CASE Inform
    <2>1. events' \in Seq(Signals)
      BY <1>13, MadeSignals, SentElements DEF Inform, TypeOK
    <2> QED
      BY <1>13, <2>1 DEF Inform, TypeOK, Alive
  <1>14. CASE ApplyFails
    <2>1. events' \in Seq(Signals)
      BY <1>14, MadeSignals, SentElements DEF ApplyFails, TypeOK
    <2> QED
      BY <1>14, <2>1 DEF ApplyFails, TypeOK, Alive
  <1>15. CASE Report
    <2>1. updates' \in Seq(Signals) /\ Head(updates) \in Signals
      BY <1>15, TailElements DEF Report, TypeOK
    <2>2. events' \in Seq(Signals)
      BY <1>15, <2>1, SentElements DEF Report, TypeOK
    <2> QED
      BY <1>15, <2>1, <2>2 DEF Report, TypeOK, Alive
  <1>16. CASE UpdatesEnd
    <2>1. events' \in Seq(Signals)
      BY <1>16, MadeSignals, SentElements DEF UpdatesEnd, TypeOK
    <2> QED
      BY <1>16, <2>1 DEF UpdatesEnd, TypeOK, Alive
  <1>17. CASE CommandsClosed
    BY <1>17 DEF CommandsClosed, TypeOK, Alive
  <1>18. CASE Closed
    BY <1>18, <1>e DEF Closed, Return, TypeOK
  <1>19. ASSUME NEW author \in Others, NEW key \in SharedKeys, NEW time \in 1..MaxRemote,
                NEW gone \in BOOLEAN, RemoteInsert(author, key, time, gone)
         PROVE  TypeOK'
    <2> DEFINE e == Brought(author, key, time, gone)
    <2>1. e \in Entries
      BY BroughtIsAnEntry
    <2>2. /\ entries' = Insert(entries, e)
          /\ IF entries' # entries THEN Announced(Entry(e)) ELSE UNCHANGED updates
      BY <1>19 DEF RemoteInsert, Brought
    <2> HIDE DEF e
    <2>3. entries' \in SUBSET Entries
      BY <2>1, <2>2, InsertMembers DEF TypeOK
    <2>4. updates' \in Seq(Signals)
      BY <2>1, <2>2, MadeSignals, AnnouncedElements DEF TypeOK
    <2>5. arrived' \in SUBSET (1..MaxRemote)
      BY <1>19 DEF RemoteInsert, TypeOK
    <2> QED
      BY <1>19, <2>3, <2>4, <2>5 DEF RemoteInsert, TypeOK
  <1>20. ASSUME NEW e \in entries, NEW downloaded \in BOOLEAN, ContentArrives(e, downloaded)
         PROVE  TypeOK'
    <2>1. e.value \in Values
      BY EntryFields DEF TypeOK
    <2>2. updates' \in Seq(Signals)
      BY <1>20, <2>1, MadeSignals, AnnouncedElements DEF ContentArrives, TypeOK
    <2>3. content' \in SUBSET Values /\ silent' \in SUBSET Values
      BY <1>20, <2>1 DEF ContentArrives, TypeOK
    <2> QED
      BY <1>20, <2>2, <2>3 DEF ContentArrives, TypeOK
  <1>21. CASE RuntimeStops
    BY <1>21, <1>e DEF RuntimeStops, TypeOK, Alive, Opening
  <1>22. CASE UNCHANGED vars
    BY <1>22 DEF vars, TypeOK
  <1> QED
    BY <1>2, <1>3, <1>4, <1>5, <1>6, <1>7, <1>8, <1>9, <1>10, <1>11, <1>12, <1>13, <1>14, <1>15,
       <1>16, <1>17, <1>18, <1>19, <1>20, <1>21, <1>22, CallsAreCommands
    DEF Next, ContentArrivesAny, RemoteInsertAny

-----------------------------------------------------------------------------
\* The channel and its end.

\* Nothing is sent, announced or heard before the document is open, and
\* nothing stays in a channel nobody receives from.
LEMMA ChannelStep == DInv /\ [Next]_vars => Beginning' /\ ChannelGoesToo'
  <1> SUFFICES ASSUME DInv, [Next]_vars PROVE Beginning' /\ ChannelGoesToo'
    OBVIOUS
  <1>1. TypeOK /\ Beginning /\ ChannelGoesToo
    BY DEF DInv
  <1> USE <1>1 DEF objectVars, replicaVars, askVars, scriptVars, Opening
  <1>2. CASE Spawn
    BY <1>2 DEF Spawn, Beginning, ChannelGoesToo
  <1>3. CASE CommandAny
    BY <1>3 DEF CommandAny, Command, Beginning, ChannelGoesToo
  <1>4. CASE Drain
    BY <1>4 DEF Drain, Handled, Beginning, ChannelGoesToo
  <1>5. CASE Emit
    BY <1>5 DEF Emit, Beginning, ChannelGoesToo
  <1>6. CASE Close \/ Release
    BY <1>6 DEF Close, Release, Beginning, ChannelGoesToo
  <1>7. CASE Open
    BY <1>7 DEF Open, Sent, Return, Beginning, ChannelGoesToo
  <1>8. CASE TakeCommand \/ Write \/ Pick
    BY <1>8 DEF TakeCommand, Write, Pick, Beginning, ChannelGoesToo
  <1>9. CASE Answer \/ Inform \/ ApplyFails \/ Report \/ UpdatesEnd
    BY <1>9 DEF Answer, Inform, ApplyFails, Report, UpdatesEnd, Sent, Beginning, ChannelGoesToo
  <1>10. CASE CommandsClosed \/ Closed \/ RuntimeStops
    <2>1. CASE CommandsClosed \/ Closed
      BY <2>1 DEF CommandsClosed, Closed, Return, Beginning, ChannelGoesToo
    <2>2. CASE RuntimeStops
      BY <2>2 DEF RuntimeStops, Alive, Beginning, ChannelGoesToo
    <2> QED
      BY <1>10, <2>1, <2>2
  <1>11. CASE RemoteInsertAny
    BY <1>11 DEF RemoteInsertAny, RemoteInsert, Announced, Subscribed, Beginning, ChannelGoesToo
  <1>12. CASE ContentArrivesAny
    BY <1>12 DEF ContentArrivesAny, ContentArrives, Announced, Subscribed, Beginning, ChannelGoesToo
  <1>13. CASE UNCHANGED vars
    BY <1>13 DEF vars, Beginning, ChannelGoesToo
  <1> QED
    BY <1>2, <1>3, <1>4, <1>5, <1>6, <1>7, <1>8, <1>9, <1>10, <1>11, <1>12, <1>13 DEF Next

\* The subscription is told of entries and bytes only.
LEMMA UpdatesStep == DInv /\ [Next]_vars => UpdatesAreNews'
  <1> SUFFICES ASSUME DInv, [Next]_vars PROVE UpdatesAreNews'
    OBVIOUS
  <1>1. TypeOK /\ UpdatesAreNews /\ WritesWereGiven
    BY DEF DInv
  <1> USE <1>1 DEF objectVars, replicaVars, askVars, scriptVars
  <1>2. ASSUME UNCHANGED updates PROVE UpdatesAreNews'
    BY <1>2 DEF UpdatesAreNews
  <1>3. ASSUME updates' = <<>> PROVE UpdatesAreNews'
    BY <1>3 DEF UpdatesAreNews
  <1>4. ASSUME NEW signal \in Signals, Announced(signal), signal.kind \in {"entry", "content_ready"}
        PROVE  UpdatesAreNews'
    BY <1>4, AnnouncedElements DEF UpdatesAreNews, TypeOK
  <1>5. CASE Spawn \/ CommandAny \/ Drain \/ Emit \/ Close \/ Release \/ TakeCommand \/ Pick
    BY <1>2, <1>5 DEF Spawn, CommandAny, Command, Drain, Emit, Close, Release, TakeCommand, Pick
  <1>6. CASE Answer \/ Inform \/ ApplyFails \/ UpdatesEnd \/ CommandsClosed \/ UNCHANGED vars
    BY <1>2, <1>6 DEF Answer, Inform, ApplyFails, UpdatesEnd, CommandsClosed, vars
  <1>7. CASE Open \/ Closed \/ RuntimeStops
    BY <1>2, <1>3, <1>7 DEF Open, Closed, RuntimeStops, Return
  <1>8. CASE Report
    BY <1>8, TailElements DEF Report, UpdatesAreNews, TypeOK
  <1>9. CASE Write
    <2>1. Made(current) \in Entries /\ Announced(Entry(Made(current)))
      BY <1>9, MadeIsAnEntry DEF Write, Made
    <2> QED
      BY <1>4, <2>1, MadeSignals
  <1>10. ASSUME NEW author \in Others, NEW key \in SharedKeys, NEW time \in 1..MaxRemote,
                NEW gone \in BOOLEAN, RemoteInsert(author, key, time, gone)
         PROVE  UpdatesAreNews'
    <2> DEFINE e == Brought(author, key, time, gone)
    <2>1. e \in Entries
      BY BroughtIsAnEntry
    <2>2. Announced(Entry(e)) \/ UNCHANGED updates
      BY <1>10 DEF RemoteInsert, Brought
    <2> HIDE DEF e
    <2> QED
      BY <1>2, <1>4, <2>1, <2>2, MadeSignals
  <1>11. ASSUME NEW e \in entries, NEW downloaded \in BOOLEAN, ContentArrives(e, downloaded)
         PROVE  UpdatesAreNews'
    <2>1. e.value \in Values
      BY EntryFields DEF TypeOK
    <2> QED
      BY <1>2, <1>4, <1>11, <2>1, MadeSignals DEF ContentArrives
  <1> QED
    BY <1>5, <1>6, <1>7, <1>8, <1>9, <1>10, <1>11 DEF Next, ContentArrivesAny, RemoteInsertAny

\* A signal that is not the end, sent by a task that sent none, or the end
\* itself as the task stops sending, keeps the end last.
LEMMA SentKeepsEndsLast ==
    ASSUME TypeOK, EndsAreLast, NEW signal \in Signals, Sent(signal),
           task \in Opening \cup Subscribed,
           signal = CLOSED => task' \notin Opening \cup Subscribed
    PROVE  \A i \in 1..Len(events') : events'[i] = CLOSED =>
             i = Len(events') /\ task' \notin Opening \cup Subscribed
  <1>1. \A i \in 1..Len(events) : events[i] # CLOSED
    BY DEF EndsAreLast
  <1> QED
    BY <1>1, SentElements DEF TypeOK

\* Whatever sends, drains or emits keeps closed the last signal.
LEMMA EndsStep == DInv /\ [Next]_vars => EndsAreLast'
  <1> SUFFICES ASSUME DInv, [Next]_vars PROVE EndsAreLast'
    OBVIOUS
  <1>1. TypeOK /\ Beginning /\ ChannelGoesToo /\ UpdatesAreNews /\ EndsAreLast
    BY DEF DInv
  <1> USE <1>1 DEF objectVars, replicaVars, askVars, scriptVars
  <1>2. ASSUME UNCHANGED <<events, deferred, ended, document>>,
               task' \in Opening \cup Subscribed => task \in Opening \cup Subscribed
        PROVE  EndsAreLast'
    BY <1>2 DEF EndsAreLast
  <1>3. ASSUME NEW signal \in Signals, Sent(signal), task \in Opening \cup Subscribed,
               signal = CLOSED => task' \notin Opening \cup Subscribed,
               UNCHANGED <<deferred, ended, document>>
        PROVE  EndsAreLast'
    <2>1. \A i \in 1..Len(events') : events'[i] = CLOSED =>
             i = Len(events') /\ task' \notin Opening \cup Subscribed
      BY <1>3, SentKeepsEndsLast
    <2> QED
      BY <1>3, <2>1 DEF EndsAreLast
  <1>4. CASE Spawn
    <2>1. deferred' = <<>> /\ ~ended'
      BY <1>4 DEF Spawn, Beginning
    <2>2. CASE runtime = "up"
      <3>1. events' = <<>>
        BY <1>4, <2>2 DEF Spawn
      <3> QED
        BY <2>1, <3>1 DEF EndsAreLast
    <2>3. CASE runtime # "up"
      <3>1. events' = <<CLOSED>> /\ task' = "ended"
        BY <1>4, <2>3 DEF Spawn
      <3>2. Len(events') = 1
        BY <3>1
      <3> QED
        BY <2>1, <3>1, <3>2 DEF EndsAreLast, Opening, Subscribed
    <2> QED
      BY <2>2, <2>3
  <1>5. CASE CommandAny \/ UNCHANGED vars
    BY <1>2, <1>5 DEF CommandAny, Command, vars
  <1>6. CASE Drain
    <2> DEFINE d == Len(deferred)
               n == Len(events)
    <2>1. /\ deferred \in Seq(Signals) /\ events \in Seq(Signals) /\ deferred' = deferred \o events
          /\ document = "held" /\ events' = <<>> /\ d \in Nat /\ n \in Nat /\ ended' = ended
      BY <1>6, LenProperties DEF Drain, Handled, TypeOK
    <2>2. /\ Len(deferred') = d + n
          /\ \A i \in 1..d + n : deferred'[i] = IF i <= d THEN deferred[i] ELSE events[i - d]
      BY <2>1, ConcatProperties
    <2>3. \A i \in 1..d : deferred[i] # CLOSED
      BY <2>1 DEF EndsAreLast
    <2>4. \A i \in 1..n : events[i] = CLOSED => i = n
      BY DEF EndsAreLast
    <2>5. ~ended'
      BY <2>1 DEF EndsAreLast
    <2>6. DOMAIN events = 1..n
      BY <2>1, LenProperties
    <2>7. ASSUME NEW i \in 1..n, events[i] = CLOSED PROVE document' = "gone"
      BY <1>6, <2>6, <2>7 DEF Drain, Handled
    <2> HIDE DEF d, n
    <2>8. ASSUME NEW i \in 1..d + n, deferred'[i] = CLOSED
          PROVE  i = d + n /\ document' = "gone"
      <3>1. ~(i <= d) /\ events[i - d] = CLOSED /\ i - d \in 1..n
        BY <2>1, <2>2, <2>3, <2>8
      <3>2. i - d = n
        BY <2>4, <3>1
      <3> QED
        BY <2>1, <2>7, <3>1, <3>2
    <2> QED
      BY <2>1, <2>2, <2>5, <2>8 DEF EndsAreLast
  <1>7. CASE Emit
    <2>1. /\ deferred \in Seq(Signals) /\ deferred # <<>> /\ deferred' = Tail(deferred)
          /\ UNCHANGED <<document, task, events>> /\ ended' = (ended \/ Head(deferred) = CLOSED)
      BY <1>7 DEF Emit, TypeOK
    <2>2. /\ deferred' \in Seq(Signals) /\ Len(deferred') = Len(deferred) - 1
          /\ Len(deferred) \in Nat \ {0} /\ Head(deferred) = deferred[1]
          /\ \A i \in 1..Len(deferred) - 1 : deferred'[i] = deferred[i + 1]
      BY <2>1, TailElements
    <2>3. ASSUME NEW i \in 1..Len(deferred'), deferred'[i] = CLOSED
          PROVE  i = Len(deferred') /\ document' \notin {"none", "held"}
      <3>1. i + 1 \in 1..Len(deferred) /\ deferred[i + 1] = CLOSED
        BY <2>2, <2>3
      <3>2. i + 1 = Len(deferred) /\ document \notin {"none", "held"}
        BY <3>1 DEF EndsAreLast
      <3>3. i = Len(deferred')
        BY <2>2, <3>2
      <3>4. document' \notin {"none", "held"}
        BY <2>1, <3>2
      <3> QED
        BY <3>3, <3>4
    <2>4. ASSUME ended' PROVE deferred' = <<>> /\ document' \notin {"none", "held"}
      <3>0. ~ended
        BY <2>1 DEF EndsAreLast
      <3>1. deferred[1] = CLOSED /\ 1 \in 1..Len(deferred)
        <4>1. Head(deferred) = CLOSED
          BY <2>1, <2>4, <3>0
        <4> QED
          BY <2>2, <4>1
      <3>2. Len(deferred') = 0 /\ document \notin {"none", "held"}
        BY <2>2, <3>1 DEF EndsAreLast
      <3> QED
        BY <2>1, <2>2, <3>2, EmptySeq
    <2> QED
      BY <2>1, <2>3, <2>4 DEF EndsAreLast
  <1>8. CASE Close \/ Release
    BY <1>8 DEF Close, Release, EndsAreLast
  <1>9. CASE Open
    <2>1. CASE UNCHANGED events
      BY <1>2, <1>9, <2>1 DEF Open
    <2>2. CASE Sent(OPENED)
      <3>1. OPENED # CLOSED /\ OPENED \in Signals
        BY MadeSignals
      <3> QED
        BY <1>3, <1>9, <2>2, <3>1 DEF Open
    <2>3. CASE Sent(CLOSED) /\ Return
      BY <1>3, <1>9, <2>3, MadeSignals DEF Open, Return, Opening, Subscribed
    <2> QED
      BY <1>9, <2>1, <2>2, <2>3 DEF Open
  <1>10. CASE TakeCommand \/ Write \/ Pick
    BY <1>2, <1>10 DEF TakeCommand, Write, Pick, Subscribed
  <1>11. CASE Answer
    <2>2. PICK signal \in Signals : signal.kind = "value" /\ Sent(signal)
      BY <1>11, AnswerSends
    <2>3. signal # CLOSED
      BY <2>2, MadeSignals
    <2> QED
      BY <1>3, <1>11, <2>2, <2>3 DEF Answer, Subscribed
  <1>12. CASE Inform
    <2>1. current \in Commands
      BY <1>12 DEF Inform, TypeOK
    <2>2. Info(current) \in Signals /\ Info(current).kind = "info"
      BY <2>1, MadeSignals
    <2>3. Info(current) # CLOSED
      BY <2>2, MadeSignals
    <2> QED
      BY <1>2, <1>3, <1>12, <2>2, <2>3 DEF Inform, Subscribed
  <1>13. CASE ApplyFails \/ UpdatesEnd
    BY <1>3, <1>13, MadeSignals DEF ApplyFails, UpdatesEnd, Opening, Subscribed
  <1>14. CASE Report
    <2>1. Head(updates) \in Signals /\ Head(updates) = updates[1] /\ 1 \in 1..Len(updates)
      BY <1>14, TailElements DEF Report, TypeOK
    <2>2. Head(updates) # CLOSED
      BY <2>1, MadeSignals DEF UpdatesAreNews
    <2> QED
      BY <1>3, <1>14, <2>1, <2>2 DEF Report, Subscribed
  <1>15. CASE CommandsClosed \/ Closed \/ RuntimeStops
    BY <1>2, <1>15 DEF CommandsClosed, Closed, RuntimeStops, Return, Opening, Subscribed, Alive
  <1>16. CASE RemoteInsertAny
    BY <1>2, <1>16 DEF RemoteInsertAny, RemoteInsert
  <1>17. CASE ContentArrivesAny
    BY <1>2, <1>17 DEF ContentArrivesAny, ContentArrives
  <1> QED
    BY <1>4, <1>5, <1>6, <1>7, <1>8, <1>9, <1>10, <1>11, <1>12, <1>13, <1>14, <1>15, <1>16, <1>17
    DEF Next

-----------------------------------------------------------------------------
\* Our writes are counted.

\* A command is counted from when it is given until it has been applied.
LEMMA CountStep == DInv /\ [Next]_vars => WritesWereGiven'
  <1> SUFFICES ASSUME DInv, [Next]_vars PROVE WritesWereGiven'
    OBVIOUS
  <1>1. TypeOK /\ WritesWereGiven
    BY DEF DInv
  <1> USE DEF objectVars, replicaVars, askVars, scriptVars
  <1>2. /\ clock \in Nat /\ Len(commands) \in Nat /\ given \in Nat /\ commands \in Seq(Commands)
    BY <1>1, TimesAreNat, LenProperties, MaxCommandsIsNat DEF TypeOK
  <1>3. clock + Len(commands) + (IF task = "applying" THEN 1 ELSE 0) <= given
    BY <1>1 DEF WritesWereGiven
  <1>4. ASSUME UNCHANGED <<clock, commands, given>>, task' = "applying" => task = "applying"
        PROVE  WritesWereGiven'
    BY <1>2, <1>3, <1>4 DEF WritesWereGiven
  <1>5. ASSUME UNCHANGED <<clock, given>>, commands' = <<>>, task' = "applying" => task = "applying"
        PROVE  WritesWereGiven'
    <2>1. Len(commands') = 0
      BY <1>5
    <2> QED
      BY <1>2, <1>3, <1>5, <2>1 DEF WritesWereGiven
  <1>6. CASE Spawn \/ Drain \/ Emit \/ Close \/ Release \/ Pick \/ UNCHANGED vars
    BY <1>4, <1>6 DEF Spawn, Drain, Emit, Close, Release, Pick, vars
  <1>7. CASE Answer \/ Inform \/ ApplyFails \/ Report \/ UpdatesEnd \/ CommandsClosed
    BY <1>4, <1>7 DEF Answer, Inform, ApplyFails, Report, UpdatesEnd, CommandsClosed
  <1>8. CASE Open \/ Closed
    BY <1>4, <1>5, <1>8 DEF Open, Closed, Return
  <1>9. CASE RuntimeStops
    BY <1>5, <1>9 DEF RuntimeStops
  <1>10. CASE CommandAny
    <2>1. PICK op \in Operations, key \in Keys : Command(op, key)
      BY <1>10, CallsAreCommands
    <2>2. PICK c \in Commands : commands' = Append(commands, c)
      BY <1>1, <2>1, GivenIsACommand
    <2>3. Len(commands') = Len(commands) + 1
      BY <1>2, <2>2, AppendElements
    <2>4. UNCHANGED <<clock, task>> /\ given' = given + 1
      BY <2>1 DEF Command
    <2> QED
      BY <1>2, <1>3, <2>3, <2>4 DEF WritesWereGiven
  <1>11. CASE TakeCommand
    <2>1. Len(commands') = Len(commands) - 1
      BY <1>2, <1>11, TailElements DEF TakeCommand
    <2>2. UNCHANGED <<clock, given>> /\ task = "running" /\ task' = "applying"
      BY <1>11 DEF TakeCommand
    <2> QED
      BY <1>2, <1>3, <2>1, <2>2 DEF WritesWereGiven
  <1>12. CASE Write
    <2>1. UNCHANGED <<commands, given>> /\ clock' = clock + 1 /\ task = "applying" /\ task' = "running"
      BY <1>12 DEF Write
    <2> QED
      BY <1>2, <1>3, <2>1 DEF WritesWereGiven
  <1>13. CASE RemoteInsertAny
    BY <1>4, <1>13 DEF RemoteInsertAny, RemoteInsert
  <1>14. CASE ContentArrivesAny
    BY <1>4, <1>14 DEF ContentArrivesAny, ContentArrives
  <1> QED
    BY <1>6, <1>7, <1>8, <1>9, <1>10, <1>11, <1>12, <1>13, <1>14 DEF Next

-----------------------------------------------------------------------------
\* What the script is told.

\* A queue holds the signal of an entry.
Tells(queue, e) ==
    \E i \in 1..Len(queue) : queue[i].kind = "entry" /\ queue[i].entry = e
IsOf(signal, e) == signal.kind = "entry" /\ signal.entry = e

\* An empty queue tells nothing, and one more signal or one less changes what
\* is told by that signal.
LEMMA TellsNothing == \A e : ~Tells(<<>>, e)
  BY DEF Tells

\* A queue with one signal more tells what it told and that signal's entry.
LEMMA TellsAppend ==
    ASSUME NEW q \in Seq(Signals), NEW x \in Signals, NEW e
    PROVE  Tells(Append(q, x), e) <=> Tells(q, e) \/ IsOf(x, e)
  <1> DEFINE a == Append(q, x)
  <1>1. /\ Len(a) = Len(q) + 1 /\ Len(q) \in Nat
        /\ \A i \in 1..Len(q) : a[i] = q[i]
        /\ a[Len(q) + 1] = x
    BY AppendElements
  <1> HIDE DEF a
  <1>2. 1..Len(a) = 1..Len(q) \cup {Len(q) + 1}
    BY <1>1
  <1> QED
    BY <1>1, <1>2 DEF a, Tells, IsOf

\* A queue tells what its head is about and what the rest tells.
LEMMA TellsTail ==
    ASSUME NEW q \in Seq(Signals), q # <<>>, NEW e
    PROVE  Tells(q, e) <=> IsOf(Head(q), e) \/ Tells(Tail(q), e)
  <1>1. /\ Len(Tail(q)) = Len(q) - 1 /\ Len(q) \in Nat \ {0}
        /\ \A i \in 1..Len(q) - 1 : Tail(q)[i] = q[i + 1]
        /\ Head(q) = q[1]
    BY TailElements
  <1>2. ASSUME Tells(q, e) PROVE IsOf(Head(q), e) \/ Tells(Tail(q), e)
    <2>1. PICK i \in 1..Len(q) : IsOf(q[i], e)
      BY <1>2 DEF Tells, IsOf
    <2>2. CASE i = 1
      BY <1>1, <2>1, <2>2
    <2>3. CASE i # 1
      <3>1. i - 1 \in 1..Len(Tail(q)) /\ Tail(q)[i - 1] = q[(i - 1) + 1] /\ (i - 1) + 1 = i
        BY <1>1, <2>3
      <3> QED
        BY <2>1, <3>1 DEF Tells, IsOf
    <2> QED
      BY <2>2, <2>3
  <1>3. ASSUME Tells(Tail(q), e) PROVE Tells(q, e)
    <2>1. PICK i \in 1..Len(Tail(q)) : IsOf(Tail(q)[i], e)
      BY <1>3 DEF Tells, IsOf
    <2>2. i + 1 \in 1..Len(q) /\ Tail(q)[i] = q[i + 1]
      BY <1>1
    <2> QED
      BY <2>1, <2>2 DEF Tells, IsOf
  <1>4. ASSUME IsOf(Head(q), e) PROVE Tells(q, e)
    BY <1>1, <1>4 DEF Tells, IsOf
  <1> QED
    BY <1>2, <1>3, <1>4

\* Two queues in a row tell what each of them does.
LEMMA TellsConcat ==
    ASSUME NEW p \in Seq(Signals), NEW q \in Seq(Signals), NEW e
    PROVE  Tells(p \o q, e) <=> Tells(p, e) \/ Tells(q, e)
  <1> DEFINE pq == p \o q
             m == Len(p)
             n == Len(q)
  <1>1. /\ Len(pq) = m + n /\ m \in Nat /\ n \in Nat
        /\ \A i \in 1..m + n : pq[i] = IF i <= m THEN p[i] ELSE q[i - m]
    BY ConcatProperties, LenProperties
  <1> HIDE DEF pq, m, n
  <1>2. ASSUME NEW i \in 1..m + n PROVE IF i <= m THEN i \in 1..m /\ pq[i] = p[i]
                                                  ELSE i - m \in 1..n /\ pq[i] = q[i - m]
    BY <1>1
  <1>3. ASSUME NEW i \in 1..m PROVE i \in 1..m + n /\ pq[i] = p[i]
    BY <1>1
  <1>4. ASSUME NEW i \in 1..n PROVE i + m \in 1..m + n /\ pq[i + m] = q[i]
    <2>1. i + m \in 1..m + n /\ ~(i + m <= m) /\ (i + m) - m = i
      BY <1>1
    <2> QED
      BY <1>1, <2>1
  <1>5. ASSUME Tells(pq, e) PROVE Tells(p, e) \/ Tells(q, e)
    <2>1. PICK i \in 1..m + n : IsOf(pq[i], e)
      BY <1>1, <1>5 DEF Tells, IsOf
    <2> QED
      BY <1>2, <2>1 DEF Tells, IsOf, m, n
  <1>6. ASSUME Tells(p, e) PROVE Tells(pq, e)
    BY <1>1, <1>3, <1>6 DEF Tells, m
  <1>7. ASSUME Tells(q, e) PROVE Tells(pq, e)
    BY <1>1, <1>4, <1>7 DEF Tells, n
  <1> QED
    BY <1>5, <1>6, <1>7 DEF pq

\* What was told, by where it is.
LEMMA ToldWhere ==
    ASSUME NEW d \in Seq(Signals), NEW v \in Seq(Signals), NEW u \in Seq(Signals), NEW m, NEW e
    PROVE  e \in m \cup {((d \o v) \o u)[i].entry :
                           i \in {j \in DOMAIN ((d \o v) \o u) : ((d \o v) \o u)[j].kind = "entry"}}
             <=> e \in m \/ Tells(d, e) \/ Tells(v, e) \/ Tells(u, e)
  <1>1. PICK w : w = (d \o v) \o u
    OBVIOUS
  <1>2. d \o v \in Seq(Signals)
    BY ConcatProperties
  <1>3. w \in Seq(Signals)
    BY <1>1, <1>2, ConcatProperties
  <1>4. DOMAIN w = 1..Len(w)
    BY <1>3, LenProperties
  <1>5. Tells(w, e) <=> Tells(d, e) \/ Tells(v, e) \/ Tells(u, e)
    BY <1>1, <1>2, TellsConcat
  <1>6. e \in {w[i].entry : i \in {j \in DOMAIN w : w[j].kind = "entry"}} <=> Tells(w, e)
    BY <1>4 DEF Tells
  <1> QED
    BY <1>1, <1>5, <1>6, Zenon

\* The entries told: those shown, and those of the three queues on the way.
LEMMA ToldParts ==
    ASSUME TypeOK
    PROVE  \A e : e \in Told <=> e \in mirror \/ Tells(deferred, e) \/ Tells(events, e) \/ Tells(updates, e)
  <1>1. deferred \in Seq(Signals) /\ events \in Seq(Signals) /\ updates \in Seq(Signals)
    BY DEF TypeOK
  <1> QED
    BY <1>1, ToldWhere, Zenon DEF Told, Way, OnTheWay

\* The same after a step.
LEMMA ToldPartsNext ==
    ASSUME TypeOK'
    PROVE  \A e : e \in Told' <=>
             e \in mirror' \/ Tells(deferred', e) \/ Tells(events', e) \/ Tells(updates', e)
  <1>1. deferred' \in Seq(Signals) /\ events' \in Seq(Signals) /\ updates' \in Seq(Signals)
    BY DEF TypeOK
  <1> QED
    BY <1>1, ToldWhere, Zenon DEF Told, Way, OnTheWay

\* A signal sent or announced is told if it is of an entry.
LEMMA TellsSent ==
    ASSUME TypeOK, NEW signal \in Signals, Sent(signal), NEW e
    PROVE  Tells(events', e) <=> Tells(events, e) \/ (document = "held" /\ IsOf(signal, e))
  <1>1. CASE document = "held"
    BY <1>1, TellsAppend DEF Sent, TypeOK
  <1>2. CASE document # "held"
    BY <1>2 DEF Sent
  <1> QED
    BY <1>1, <1>2

\* The replica announces an entry exactly to a task that subscribed.
LEMMA TellsAnnounced ==
    ASSUME TypeOK, NEW signal \in Signals, Announced(signal), NEW e
    PROVE  Tells(updates', e) <=> Tells(updates, e) \/ (task \in Subscribed /\ IsOf(signal, e))
  <1>1. CASE task \in Subscribed
    BY <1>1, TellsAppend DEF Announced, TypeOK
  <1>2. CASE task \notin Subscribed
    BY <1>2 DEF Announced
  <1> QED
    BY <1>1, <1>2

\* A step that only moves signals along.
Quiet ==
    /\ UNCHANGED <<entries, arrived, clock>> /\ content \subseteq content'
    /\ \A e \in Told' : e \in Told
    /\ Listening' => Listening /\ \A e \in Told : e \in Told'

\* The steps that are not quiet.
Loud == Emit \/ Open \/ Write \/ RemoteInsertAny

\* A step is quiet, or one of these.
LEMMA QuietSteps == DInv /\ [Next]_vars => Quiet \/ Loud
  <1> SUFFICES ASSUME DInv, [Next]_vars PROVE Quiet \/ Loud
    OBVIOUS
  <1>1. TypeOK /\ Beginning /\ ChannelGoesToo
    BY DEF DInv
  <1>2. TypeOK'
    BY TypeStep
  <1> USE DEF objectVars, replicaVars, askVars, scriptVars
  <1>3. /\ \A e : e \in Told <=> e \in mirror \/ Tells(deferred, e) \/ Tells(events, e) \/ Tells(updates, e)
        /\ \A e : e \in Told' <=>
             e \in mirror' \/ Tells(deferred', e) \/ Tells(events', e) \/ Tells(updates', e)
    BY <1>1, <1>2, ToldParts, ToldPartsNext
  <1>4. ASSUME UNCHANGED <<mirror, deferred, events, updates, entries, arrived, clock>>,
               content \subseteq content', Listening' => Listening
        PROVE  Quiet
    BY <1>3, <1>4 DEF Quiet
  <1>5. ASSUME UNCHANGED <<mirror, entries, arrived, clock, content>>, ~Listening',
               \A e : Tells(deferred', e) => Tells(deferred, e),
               \A e : Tells(events', e) => Tells(events, e),
               \A e : Tells(updates', e) => Tells(updates, e)
        PROVE  Quiet
    BY <1>3, <1>5 DEF Quiet
  <1>6. ASSUME UNCHANGED <<mirror, deferred, updates, entries, arrived, clock, content>>,
               NEW signal \in Signals, Sent(signal), signal.kind # "entry", Listening' => Listening
        PROVE  Quiet
    <2>1. \A e : Tells(events', e) <=> Tells(events, e)
      BY <1>1, <1>6, TellsSent DEF IsOf
    <2> QED
      BY <1>3, <1>6, <2>1 DEF Quiet
  <1>7. CASE Spawn
    <2>1. events = <<>> /\ ~Listening'
      BY <1>1, <1>7 DEF Spawn, Beginning, Listening, Subscribed
    <2>2. \A e : ~Tells(events', e)
      BY <1>7, TellsNothing, MadeSignals DEF Spawn, Tells
    <2> QED
      BY <1>5, <1>7, <2>1, <2>2 DEF Spawn
  <1>8. CASE CommandAny \/ UNCHANGED vars
    BY <1>4, <1>8, ZenonT(30) DEF CommandAny, Command, vars, Listening
  <1>9. CASE Drain
    <2>1. \A e : Tells(deferred', e) <=> Tells(deferred, e) \/ Tells(events, e)
      BY <1>1, <1>9, TellsConcat DEF Drain, Handled, TypeOK
    <2>2. \A e : ~Tells(events', e)
      BY <1>9, TellsNothing DEF Drain
    <2>3. Listening' => Listening
      BY <1>9 DEF Drain, Handled, Listening
    <2> QED
      BY <1>3, <1>9, <2>1, <2>2, <2>3 DEF Drain, Quiet
  <1>10. CASE Close \/ Release
    <2>1. ~Listening'
      BY <1>10 DEF Close, Release, Listening
    <2> QED
      BY <1>5, <1>10, <2>1, TellsNothing DEF Close, Release
  <1>11. CASE TakeCommand \/ Pick \/ CommandsClosed
    <2>1. Listening' => Listening
      BY <1>11 DEF TakeCommand, Pick, CommandsClosed, Listening, Subscribed
    <2> QED
      BY <1>4, <1>11, <2>1 DEF TakeCommand, Pick, CommandsClosed
  <1>12. CASE Answer
    <2>1. PICK signal \in Signals : signal.kind = "value" /\ Sent(signal)
      BY <1>1, <1>12, AnswerSends
    <2>2. Listening' => Listening
      BY <1>12 DEF Answer, Listening, Subscribed
    <2> QED
      BY <1>6, <1>12, <2>1, <2>2 DEF Answer
  <1>13. CASE Inform
    <2>1. Info(current) \in Signals /\ Info(current).kind = "info"
      BY <1>1, <1>13, MadeSignals DEF Inform, TypeOK
    <2>2. Listening' => Listening
      BY <1>13 DEF Inform, Listening, Subscribed
    <2> QED
      BY <1>4, <1>6, <1>13, <2>1, <2>2 DEF Inform
  <1>14. CASE ApplyFails \/ UpdatesEnd
    <2>1. CLOSED \in Signals /\ CLOSED.kind # "entry"
      BY MadeSignals
    <2>2. ~Listening'
      BY <1>14 DEF ApplyFails, UpdatesEnd, Listening, Subscribed
    <2> QED
      BY <1>6, <1>14, <2>1, <2>2 DEF ApplyFails, UpdatesEnd
  <1>15. CASE Report
    <2>1. Head(updates) \in Signals /\ updates # <<>> /\ updates' = Tail(updates) /\ Sent(Head(updates))
      BY <1>1, <1>15, TailElements DEF Report, TypeOK
    <2>2. \A e : Tells(updates, e) <=> IsOf(Head(updates), e) \/ Tells(updates', e)
      BY <1>1, <2>1, TellsTail DEF TypeOK
    <2>3. \A e : Tells(events', e) <=> Tells(events, e) \/ (document = "held" /\ IsOf(Head(updates), e))
      BY <1>1, <2>1, TellsSent
    <2>4. Listening' => Listening /\ document = "held"
      BY <1>15 DEF Report, Listening, Subscribed
    <2> QED
      BY <1>3, <1>15, <2>2, <2>3, <2>4 DEF Report, Quiet
  <1>16. CASE Closed \/ RuntimeStops
    <2>1. ~Listening'
      BY <1>16 DEF Closed, RuntimeStops, Return, Listening, Subscribed, Alive
    <2> QED
      BY <1>5, <1>16, <2>1, TellsNothing DEF Closed, RuntimeStops, Return
  <1>17. ASSUME NEW x \in entries, NEW downloaded \in BOOLEAN, ContentArrives(x, downloaded)
         PROVE  Quiet
    <2>1. x.value \in Values
      BY <1>1, EntryFields DEF TypeOK
    <2>2. ContentReady(x.value) \in Signals /\ \A e : ~IsOf(ContentReady(x.value), e)
      BY <2>1, MadeSignals DEF IsOf
    <2>3. \A e : Tells(updates', e) <=> Tells(updates, e)
      BY <1>1, <1>17, <2>2, TellsAnnounced DEF ContentArrives
    <2>4. Listening' <=> Listening
      BY <1>17 DEF ContentArrives, Listening
    <2> QED
      BY <1>3, <1>17, <2>3, <2>4 DEF ContentArrives, Quiet
  <1> QED
    BY <1>7, <1>8, <1>9, <1>10, <1>11, <1>12, <1>13, <1>14, <1>15, <1>16, <1>17
    DEF Next, ContentArrivesAny, Loud

\* What the loud steps do to what is told: hearing an entry brings it to the
\* mirror, opening takes the replica as it is, and a write is announced.
LEMMA EmitTells ==
    ASSUME DInv, Emit
    PROVE  /\ UNCHANGED <<entries, arrived, clock, content>> /\ Listening' = Listening
           /\ \A e \in Told' : e \in Told
           /\ \A e \in Told : e \notin Told' => \E x \in Told : Supersedes(x, e)
  <1> DEFINE h == Head(deferred)
  <1>1. TypeOK /\ WritesDiffer
    BY DEF DInv
  <1>2. TypeOK'
    BY TypeStep DEF Next
  <1>3. /\ UNCHANGED <<events, updates, document, task, entries, arrived, clock, content>>
        /\ deferred # <<>> /\ deferred' = Tail(deferred) /\ mirror' = Mirrored(mirror, h)
    BY DEF Emit, objectVars, replicaVars
  <1>4. h \in Signals
    BY <1>1, <1>3, TailElements DEF TypeOK
  <1>5. \A e : Tells(deferred, e) <=> IsOf(h, e) \/ Tells(deferred', e)
    BY <1>1, <1>3, TellsTail DEF TypeOK
  <1>6. /\ \A e : e \in Told <=> e \in mirror \/ Tells(deferred, e) \/ Tells(events, e) \/ Tells(updates, e)
        /\ \A e : e \in Told' <=>
             e \in mirror' \/ Tells(deferred', e) \/ Tells(events', e) \/ Tells(updates', e)
    BY <1>1, <1>2, ToldParts, ToldPartsNext
  <1>7. Listening' = Listening
    BY <1>3 DEF Listening
  <1>8. CASE h.kind # "entry"
    <2>1. mirror' = mirror /\ \A e : ~IsOf(h, e)
      BY <1>3, <1>8 DEF Mirrored, IsOf
    <2> QED
      BY <1>3, <1>5, <1>6, <1>7, <2>1
  <1>9. CASE h.kind = "entry"
    <2>1. PICK w : w = h.entry
      OBVIOUS
    <2>2. w \in Entries /\ mirror' = Insert(mirror, w) /\ \A e : IsOf(h, e) <=> e = w
      BY <1>3, <1>4, <1>9, <2>1, SignalKinds DEF Mirrored, IsOf
    <2>3. /\ mirror' \subseteq mirror \cup {w}
          /\ \A x \in mirror : x \notin mirror' => Supersedes(w, x)
          /\ w \notin mirror' =>
                \E x \in mirror : x.author = w.author /\ Covers(x.key, w.key) /\ x.time >= w.time
      BY <2>2, InsertMembers
    <2>4. w \in Told /\ mirror \subseteq Told
      BY <1>5, <1>6, <2>2
    <2>5. \A e \in Told' : e \in Told
      BY <1>3, <1>5, <1>6, <2>2, <2>3
    <2>6. ASSUME w \notin mirror' PROVE \E x \in Told : Supersedes(x, w)
      <3>1. PICK x \in mirror : x.author = w.author /\ Covers(x.key, w.key) /\ x.time >= w.time
        BY <2>3, <2>6
      <3>2. x \in Entries /\ x.time \in Nat /\ w.time \in Nat
        BY <1>1, <2>2, EntryFields DEF TypeOK
      <3>3. CASE x.time = w.time
        <4>1. x = w
          BY <1>1, <2>4, <3>1, <3>3 DEF WritesDiffer, Known
        <4>2. ~Supersedes(w, w)
          BY <3>2 DEF Supersedes
        <4> QED
          BY <2>3, <2>6, <3>1, <4>1, <4>2
      <3>4. CASE x.time # w.time
        <4>1. x.time > w.time
          BY <3>1, <3>2, <3>4
        <4> QED
          BY <2>4, <3>1, <4>1 DEF Supersedes
      <3> QED
        BY <3>3, <3>4
    <2>7. ASSUME NEW e \in Told, e \notin Told' PROVE \E x \in Told : Supersedes(x, e)
      <3>1. (e \in mirror \/ e = w) /\ e \notin mirror'
        BY <1>3, <1>5, <1>6, <2>2, <2>7
      <3> QED
        BY <2>3, <2>4, <2>6, <3>1
    <2> QED
      BY <1>3, <1>7, <2>5, <2>7
  <1> QED
    BY <1>8, <1>9

\* Opening lists the entries of the replica: what is told is what is there.
LEMMA OpenTells ==
    ASSUME DInv, Open
    PROVE  /\ UNCHANGED <<entries, arrived, clock, content>>
           /\ \A e \in Told' : e \in Known
           /\ Listening' => \A e : e \in Told' <=> e \in entries
  <1>1. TypeOK /\ Beginning
    BY DEF DInv
  <1>2. TypeOK'
    BY TypeStep DEF Next
  <1> USE DEF replicaVars
  <1>3. /\ \A e : e \in Told <=> e \in mirror \/ Tells(deferred, e) \/ Tells(events, e) \/ Tells(updates, e)
        /\ \A e : e \in Told' <=>
             e \in mirror' \/ Tells(deferred', e) \/ Tells(events', e) \/ Tells(updates', e)
    BY <1>1, <1>2, ToldParts, ToldPartsNext
  <1>4. deferred' = <<>> /\ updates' = <<>> /\ events = <<>>
    BY <1>1 DEF Open, Return, Beginning
  <1>5. \A e : ~Tells(events', e)
    <2>1. CASE UNCHANGED events
      BY <1>4, <2>1, TellsNothing
    <2>2. CASE Sent(OPENED) \/ Sent(CLOSED)
      <3>1. \A e : ~IsOf(OPENED, e) /\ ~IsOf(CLOSED, e)
        BY MadeSignals DEF IsOf
      <3> QED
        BY <1>1, <1>4, <2>2, <3>1, TellsNothing, TellsSent, MadeSignals
    <2> QED
      BY <2>1, <2>2 DEF Open
  <1>6. \A e : e \in Told' <=> e \in mirror'
    BY <1>3, <1>4, <1>5, TellsNothing
  <1>7. \A e \in mirror' : e \in entries \/ e \in mirror
    BY DEF Open
  <1>8. Listening' => mirror' = entries
    BY DEF Open, Return, Listening, Subscribed, Opening
  <1>9. UNCHANGED <<entries, arrived, clock, content>>
    BY DEF Open
  <1> QED
    BY <1>3, <1>6, <1>7, <1>8, <1>9 DEF Known

\* A write that changes the replica is in it, and is told to a listener.
Landed(e) ==
    /\ entries' = Insert(entries, e)
    /\ \A x \in Told' : x \in Told \/ x = e
    /\ Listening' => Listening /\ \A x : x \in Told' <=> x \in Told \/ (entries' # entries /\ x = e)

\* A write of our own that the task applies lands.
LEMMA WriteLands ==
    ASSUME DInv, Write
    PROVE  Landed(Made(current))
  <1>1. TypeOK /\ WritesWereGiven /\ WritesDiffer
    BY DEF DInv
  <1>2. TypeOK'
    BY TypeStep DEF Next
  <1>3. PICK e : e = Made(current)
    OBVIOUS
  <1>4. e \in Entries /\ e.author = US /\ e.time = clock + 1 /\ clock \in Nat
    BY <1>1, <1>3, MadeIsAnEntry DEF Write
  <1>5. /\ entries' = Insert(entries, e) /\ Announced(Entry(e)) /\ task \in Subscribed
        /\ UNCHANGED <<mirror, deferred, events, document>>
    BY <1>3 DEF Write, Made, Subscribed, objectVars, scriptVars
  <1>6. \A x : Tells(updates', x) <=> Tells(updates, x) \/ x = e
    <2>1. Entry(e) \in Signals /\ \A x : IsOf(Entry(e), x) <=> x = e
      BY <1>4, MadeSignals DEF IsOf
    <2> QED
      BY <1>1, <1>5, <2>1, TellsAnnounced
  <1>7. \A x : x \in Told' <=> x \in Told \/ x = e
    BY <1>1, <1>2, <1>5, <1>6, ToldParts, ToldPartsNext
  <1>8. e \notin entries
    <2>1. ASSUME e \in entries PROVE FALSE
      <3>1. e.time <= clock
        BY <1>1, <1>4, <2>1 DEF WritesDiffer, Known, Origin
      <3> QED
        BY <1>4, <3>1
    <2> QED
      BY <2>1
  <1>9. e \in entries'
    <2>1. ASSUME e \notin entries' PROVE FALSE
      <3>1. PICK x \in entries : x.author = e.author /\ x.time >= e.time
        BY <1>5, <2>1, InsertMembers
      <3>2. x.time <= clock /\ x.time \in Nat
        BY <1>1, <1>4, <3>1, EntryFields DEF WritesDiffer, Known, Origin, TypeOK
      <3> QED
        BY <1>4, <3>1, <3>2
    <2> QED
      BY <2>1
  <1>10. Listening' => Listening
    BY <1>5 DEF Listening
  <1> QED
    BY <1>3, <1>5, <1>7, <1>8, <1>9, <1>10 DEF Landed

\* So does an entry that comes from another author.
LEMMA RemoteLands ==
    ASSUME DInv, NEW author \in Others, NEW key \in SharedKeys, NEW time \in 1..MaxRemote,
           NEW gone \in BOOLEAN, RemoteInsert(author, key, time, gone)
    PROVE  Landed(Brought(author, key, time, gone))
  <1>1. TypeOK
    BY DEF DInv
  <1>2. TypeOK'
    BY TypeStep DEF Next, RemoteInsertAny
  <1>3. PICK e : e = Brought(author, key, time, gone)
    OBVIOUS
  <1>4. e \in Entries
    BY <1>3, BroughtIsAnEntry
  <1>5. /\ entries' = Insert(entries, e)
        /\ IF entries' # entries THEN Announced(Entry(e)) ELSE UNCHANGED updates
        /\ UNCHANGED <<mirror, deferred, events, document, task>>
    BY <1>3 DEF RemoteInsert, Brought, objectVars, scriptVars
  <1>6. \A x : Tells(updates', x) <=> Tells(updates, x) \/ (entries' # entries /\ task \in Subscribed /\ x = e)
    <2>1. Entry(e) \in Signals /\ \A x : IsOf(Entry(e), x) <=> x = e
      BY <1>4, MadeSignals DEF IsOf
    <2>2. CASE entries' # entries
      BY <1>1, <1>5, <2>1, <2>2, TellsAnnounced
    <2>3. CASE entries' = entries
      BY <1>5, <2>3
    <2> QED
      BY <2>2, <2>3
  <1>7. \A x : x \in Told' <=> x \in Told \/ (entries' # entries /\ task \in Subscribed /\ x = e)
    BY <1>1, <1>2, <1>5, <1>6, ToldParts, ToldPartsNext
  <1>8. Listening' => Listening /\ task \in Subscribed
    BY <1>5 DEF Listening
  <1> QED
    BY <1>3, <1>5, <1>7, <1>8 DEF Landed

\* Everything known is an entry.
LEMMA KnownAreEntries == TypeOK => Known \subseteq Entries
  <1> SUFFICES ASSUME TypeOK, NEW e \in Known PROVE e \in Entries
    OBVIOUS
  <1>1. e \in entries \/ e \in mirror \/ Tells(deferred, e) \/ Tells(events, e) \/ Tells(updates, e)
    BY ToldParts DEF Known
  <1>2. ASSUME NEW q \in Seq(Signals), Tells(q, e) PROVE e \in Entries
    <2>1. PICK i \in 1..Len(q) : q[i].kind = "entry" /\ q[i].entry = e
      BY <1>2 DEF Tells
    <2>2. q[i] \in Signals
      BY ElementOfSeq
    <2> QED
      BY <2>1, <2>2, SignalKinds
  <1>3. /\ deferred \in Seq(Signals) /\ events \in Seq(Signals) /\ updates \in Seq(Signals)
        /\ entries \subseteq Entries /\ mirror \subseteq Entries
    BY DEF TypeOK
  <1> QED
    BY <1>1, <1>2, <1>3

\* Facts about an entry's origin last.
LEMMA OriginLasts ==
    ASSUME NEW e \in Entries, clock \in Nat, clock' \in Nat, clock <= clock',
           content \subseteq content', arrived \subseteq arrived', Origin(e)
    PROVE  Origin(e)'
  BY EntryFields DEF Origin

\* Our next write has a time of its own, and so has every write that arrives.
LEMMA DiffersStep == DInv /\ [Next]_vars => WritesDiffer'
  <1> SUFFICES ASSUME DInv, [Next]_vars PROVE WritesDiffer'
    OBVIOUS
  <1>1. TypeOK /\ WritesDiffer /\ WritesWereGiven
    BY DEF DInv
  <1>2. Known \subseteq Entries /\ clock \in Nat
    BY <1>1, KnownAreEntries, TimesAreNat DEF TypeOK
  <1>3. ASSUME \A e \in Known' : e \in Known, UNCHANGED <<arrived, clock>>, content \subseteq content'
        PROVE  WritesDiffer'
    <2>1. ASSUME NEW e \in Known' PROVE Origin(e)'
      <3>1. e \in Known /\ e \in Entries /\ Origin(e)
        BY <1>1, <1>2, <1>3 DEF WritesDiffer
      <3>2. clock' \in Nat /\ clock <= clock' /\ arrived \subseteq arrived'
        BY <1>2, <1>3
      <3> QED
        BY <1>2, <1>3, <3>1, <3>2, OriginLasts
    <2>2. \A e, x \in Known' : e.author = x.author /\ e.time = x.time => e = x
      BY <1>1, <1>3 DEF WritesDiffer
    <2> QED
      BY <2>1, <2>2 DEF WritesDiffer
  <1>4. ASSUME NEW e \in Entries, Landed(e), Origin(e)',
               \A x \in Known : ~(x.author = e.author /\ x.time = e.time),
               clock' \in Nat, clock <= clock', content \subseteq content', arrived \subseteq arrived'
        PROVE  WritesDiffer'
    <2>1. \A x \in Known' : x \in Known \/ x = e
      BY <1>4, InsertMembers DEF Landed, Known
    <2>2. ASSUME NEW x \in Known' PROVE Origin(x)'
      <3>1. CASE x = e
        BY <1>4, <3>1
      <3>2. CASE x \in Known
        <4>1. x \in Entries /\ Origin(x)
          BY <1>1, <1>2, <3>2 DEF WritesDiffer
        <4> QED
          BY <1>2, <1>4, <4>1, OriginLasts
      <3> QED
        BY <2>1, <3>1, <3>2
    <2>3. \A x, y \in Known' : x.author = y.author /\ x.time = y.time => x = y
      BY <1>1, <1>4, <2>1 DEF WritesDiffer
    <2> QED
      BY <2>2, <2>3 DEF WritesDiffer
  <1>5. CASE Quiet
    BY <1>3, <1>5 DEF Quiet, Known
  <1>6. CASE Emit
    BY <1>3, <1>6, EmitTells DEF Known
  <1>7. CASE Open
    BY <1>3, <1>7, OpenTells DEF Known
  <1>8. CASE Write
    <2>1. PICK e : e = Made(current)
      OBVIOUS
    <2>2. /\ e \in Entries /\ e.author = US /\ e.time = clock + 1
          /\ e.value = IF current.op = "set" THEN Ours(current.n) ELSE EMPTY
      BY <1>1, <1>8, <2>1, MadeIsAnEntry DEF Write
    <2>3. /\ clock' = clock + 1 /\ content' = content \cup {e.value} /\ arrived' = arrived
      BY <1>8, <2>1 DEF Write, Made
    <2>4. Landed(e)
      BY <1>8, <2>1, WriteLands
    <2>5. e.value = EMPTY \/ e.value[1] = "ours"
      BY <2>2 DEF Ours
    <2>6. Origin(e)'
      <3>1. e.time <= clock'
        BY <1>2, <2>2, <2>3
      <3> QED
        BY <2>2, <2>3, <2>5, <3>1 DEF Origin
    <2>7. \A x \in Known : ~(x.author = e.author /\ x.time = e.time)
      <3>1. ASSUME NEW x \in Known, x.author = e.author, x.time = e.time PROVE FALSE
        <4>1. x.time <= clock
          BY <1>1, <2>2, <3>1 DEF WritesDiffer, Origin
        <4> QED
          BY <1>2, <2>2, <3>1, <4>1
      <3> QED
        BY <3>1
    <2>8. clock' \in Nat /\ clock <= clock' /\ content \subseteq content' /\ arrived \subseteq arrived'
      BY <1>2, <2>3
    <2> QED
      BY <1>4, <2>2, <2>4, <2>6, <2>7, <2>8
  <1>9. ASSUME NEW author \in Others, NEW key \in SharedKeys, NEW time \in 1..MaxRemote,
               NEW gone \in BOOLEAN, RemoteInsert(author, key, time, gone)
        PROVE  WritesDiffer'
    <2>1. PICK e : e = Brought(author, key, time, gone)
      OBVIOUS
    <2>2. /\ e \in Entries /\ e.author = author /\ e.author # US /\ e.time = time
          /\ e.value = IF gone THEN EMPTY ELSE Theirs(time)
      BY <2>1, BroughtIsAnEntry
    <2>3. /\ clock' = clock /\ content' = content /\ arrived' = arrived \cup {time} /\ time \notin arrived
      BY <1>9 DEF RemoteInsert
    <2>4. Landed(e)
      BY <1>9, <2>1, RemoteLands
    <2>5. e.value = EMPTY \/ e.value[1] = "theirs"
      BY <2>2 DEF Theirs
    <2>6. Origin(e)'
      BY <2>2, <2>3, <2>5 DEF Origin
    <2>7. \A x \in Known : ~(x.author = e.author /\ x.time = e.time)
      BY <1>1, <2>2, <2>3 DEF WritesDiffer, Origin
    <2>8. clock' \in Nat /\ clock <= clock' /\ content \subseteq content' /\ arrived \subseteq arrived'
      BY <1>2, <2>3
    <2> QED
      BY <1>4, <2>2, <2>4, <2>6, <2>7, <2>8
  <1> QED
    BY <1>5, <1>6, <1>7, <1>8, <1>9, QuietSteps DEF Loud, RemoteInsertAny

\* A write that is void because of one that is void itself.
LEMMA SupersedesTransitive ==
    ASSUME NEW x \in Entries, NEW y \in Entries, NEW z \in Entries,
           Supersedes(x, y), Supersedes(y, z)
    PROVE  Supersedes(x, z)
  <1>1. /\ x.time \in Nat /\ y.time \in Nat /\ z.time \in Nat
        /\ x.key \in Keys /\ y.key \in Keys /\ z.key \in Keys
    BY EntryFields
  <1>2. x.time > z.time
    BY <1>1 DEF Supersedes
  <1>3. Covers(x.key, z.key)
    BY <1>1, PrefixesOrderKeys DEF Supersedes, Covers
  <1> QED
    BY <1>2, <1>3 DEF Supersedes

\* The replica stays free of void entries whatever is written.
LEMMA InsertKeepsApart ==
    ASSUME NEW set \in SUBSET Entries, NEW e \in Entries,
           \A x, y \in set : ~Supersedes(x, y)
    PROVE  \A x, y \in Insert(set, e) : ~Supersedes(x, y)
  <1> SUFFICES ASSUME NEW x \in Insert(set, e), NEW y \in Insert(set, e), Supersedes(x, y)
               PROVE  FALSE
    OBVIOUS
  <1>1. CASE \E w \in set : w.author = e.author /\ Covers(w.key, e.key) /\ w.time >= e.time
    BY <1>1 DEF Insert
  <1>2. CASE ~\E w \in set : w.author = e.author /\ Covers(w.key, e.key) /\ w.time >= e.time
    <2>1. Insert(set, e) = {w \in set : ~(w.author = e.author /\ Covers(e.key, w.key) /\ w.time < e.time)}
                             \cup {e}
      BY <1>2 DEF Insert
    <2>2. e.time \in Nat /\ x \in Entries /\ y \in Entries
      BY <2>1, EntryFields
    <2>3. x.time \in Nat /\ y.time \in Nat
      BY <2>2, EntryFields
    <2>4. ~Supersedes(e, e)
      BY <2>2 DEF Supersedes
    <2>5. x \in set => ~Supersedes(x, e)
      BY <1>2, <2>2, <2>3 DEF Supersedes
    <2>6. y # e => ~Supersedes(e, y)
      BY <2>1, <2>2, <2>3 DEF Supersedes
    <2> QED
      BY <2>1, <2>4, <2>5, <2>6
  <1> QED
    BY <1>1, <1>2

\* Writes reach the replica and the subscription in one step, and hearing of
\* one drops from the mirror only what it makes void.
LEMMA ReplicaStep == DInv /\ [Next]_vars => ReplicaIsTold'
  <1> SUFFICES ASSUME DInv, [Next]_vars PROVE ReplicaIsTold'
    OBVIOUS
  <1>1. TypeOK /\ WritesWereGiven /\ ReplicaIsTold
    BY DEF DInv
  <1>2. entries \subseteq Entries /\ Told \subseteq Entries
    BY <1>1, KnownAreEntries DEF Known, TypeOK
  <1>3. CASE Quiet
    <2>1. \A x, y \in entries' : ~Supersedes(x, y)
      BY <1>1, <1>3 DEF Quiet, ReplicaIsTold
    <2>2. ASSUME Listening'
          PROVE  /\ entries' \subseteq Told'
                 /\ \A e \in Told' : e \in entries' \/ \E x \in entries' : Supersedes(x, e)
      BY <1>1, <1>3, <2>2 DEF Quiet, ReplicaIsTold
    <2> QED
      BY <2>1, <2>2 DEF ReplicaIsTold
  <1>4. CASE Emit
    <2>1. /\ entries' = entries /\ Listening' = Listening
          /\ \A e \in Told' : e \in Told
          /\ \A e \in Told : e \notin Told' => \E x \in Told : Supersedes(x, e)
      BY <1>4, EmitTells
    <2>2. ASSUME Listening', NEW e \in entries PROVE e \in Told'
      <3>1. e \in Told /\ e \in Entries
        BY <1>1, <1>2, <2>1, <2>2 DEF ReplicaIsTold
      <3>2. ASSUME e \notin Told' PROVE FALSE
        <4>1. PICK y \in Told : Supersedes(y, e)
          BY <2>1, <3>1, <3>2
        <4>2. y \in entries \/ \E x \in entries : Supersedes(x, y)
          BY <1>1, <2>1, <2>2 DEF ReplicaIsTold
        <4>3. ASSUME NEW x \in entries, Supersedes(x, y) PROVE Supersedes(x, e)
          BY <1>2, <3>1, <4>1, <4>3, SupersedesTransitive
        <4> QED
          BY <1>1, <4>1, <4>2, <4>3 DEF ReplicaIsTold
      <3> QED
        BY <3>2
    <2>3. ASSUME Listening'
          PROVE  \A e \in Told' : e \in entries' \/ \E x \in entries' : Supersedes(x, e)
      BY <1>1, <2>1, <2>3 DEF ReplicaIsTold
    <2>4. \A x, y \in entries' : ~Supersedes(x, y)
      BY <1>1, <2>1 DEF ReplicaIsTold
    <2> QED
      BY <2>1, <2>2, <2>3, <2>4 DEF ReplicaIsTold
  <1>5. CASE Open
    <2>1. \A x, y \in entries' : ~Supersedes(x, y)
      BY <1>1, <1>5, OpenTells DEF ReplicaIsTold
    <2>2. ASSUME Listening'
          PROVE  /\ entries' \subseteq Told'
                 /\ \A e \in Told' : e \in entries' \/ \E x \in entries' : Supersedes(x, e)
      BY <1>5, <2>2, OpenTells
    <2> QED
      BY <2>1, <2>2 DEF ReplicaIsTold
  <1>6. ASSUME NEW e \in Entries, Landed(e) PROVE ReplicaIsTold'
    <2>1. /\ entries' = Insert(entries, e)
          /\ Listening' => Listening /\ \A x : x \in Told' <=> x \in Told \/ (entries' # entries /\ x = e)
      BY <1>6 DEF Landed
    <2>2. \A x, y \in entries' : ~Supersedes(x, y)
      BY <1>1, <1>2, <2>1, InsertKeepsApart DEF ReplicaIsTold
    <2>3. CASE entries' = entries
      BY <1>1, <2>1, <2>2, <2>3 DEF ReplicaIsTold
    <2>4. CASE entries' # entries
      <3>1. e \in entries'
        BY <2>1, <2>4 DEF Insert
      <3>2. /\ entries' \subseteq entries \cup {e}
            /\ \A x \in entries : x \notin entries' => Supersedes(e, x)
        BY <2>1, InsertMembers
      <3>3. ASSUME Listening' PROVE entries' \subseteq Told'
        BY <1>1, <2>1, <2>4, <3>2, <3>3 DEF ReplicaIsTold
      <3>4. ASSUME Listening', NEW y \in Told'
            PROVE  y \in entries' \/ \E x \in entries' : Supersedes(x, y)
        <4>1. CASE y = e
          BY <3>1, <4>1
        <4>2. CASE y \in entries
          BY <3>1, <3>2, <4>2
        <4>3. ASSUME NEW x \in entries, Supersedes(x, y), y \in Told
              PROVE  \E z \in entries' : Supersedes(z, y)
          <5>1. CASE x \in entries'
            BY <4>3, <5>1
          <5>2. CASE x \notin entries'
            <6>1. Supersedes(e, x) /\ x \in Entries /\ y \in Entries
              BY <1>2, <3>2, <4>3, <5>2
            <6>2. Supersedes(e, y)
              BY <4>3, <6>1, SupersedesTransitive
            <6> QED
              BY <3>1, <6>2
          <5> QED
            BY <5>1, <5>2
        <4>4. y = e \/ y \in Told
          BY <2>1, <3>4
        <4> QED
          BY <1>1, <2>1, <3>4, <4>1, <4>2, <4>3, <4>4 DEF ReplicaIsTold
      <3> QED
        BY <2>2, <3>3, <3>4 DEF ReplicaIsTold
    <2> QED
      BY <2>3, <2>4
  <1>7. CASE Write
    <2>1. Made(current) \in Entries
      BY <1>1, <1>7, MadeIsAnEntry DEF Write
    <2> QED
      BY <1>6, <1>7, <2>1, WriteLands
  <1>8. ASSUME NEW author \in Others, NEW key \in SharedKeys, NEW time \in 1..MaxRemote,
               NEW gone \in BOOLEAN, RemoteInsert(author, key, time, gone)
        PROVE  ReplicaIsTold'
    BY <1>6, <1>8, RemoteLands, BroughtIsAnEntry
  <1> QED
    BY <1>3, <1>4, <1>5, <1>7, <1>8, QuietSteps DEF Loud, RemoteInsertAny

-----------------------------------------------------------------------------
\* Answers.

\* A read that found bytes missing finds them once they are here.
LEMMA AnswersLast ==
    ASSUME NEW c, NEW e, NEW f \in BOOLEAN, NEW g \in BOOLEAN, f => g, Answers(c, e, f, FALSE)
    PROVE  Answers(c, e, g, FALSE)
  BY DEF Answers

\* The entry a read finds is one it may answer with.
LEMMA PickIsRight ==
    ASSUME DInv, Pick
    PROVE  Answers(current, picked', picked' # NONE /\ picked'.value \in content, FALSE)
  <1>1. TypeOK /\ WritesDiffer /\ InOrder
    BY DEF DInv
  <1>2. Holds(current.key, current.floor, current.kept)
    BY <1>1 DEF Pick, InOrder, Working, Subscribed
  <1>3. CASE Matches(current.key) = {}
    <2>1. picked' = NONE
      BY <1>3 DEF Pick
    <2>2. ~current.kept
      BY <1>2, <1>3 DEF Holds
    <2> QED
      BY <2>1, <2>2 DEF Answers
  <1>4. CASE Matches(current.key) # {}
    <2>1. PICK e : e = picked'
      OBVIOUS
    <2>2. e \in Matches(current.key)
      BY <1>4, <2>1 DEF Pick
    <2>3. e \in entries /\ e.value # EMPTY /\ e \in Entries
      BY <1>1, <2>2 DEF Matches, TypeOK
    <2>4. e # NONE /\ Origin(e)
      BY <1>1, <2>3, EntryFields DEF WritesDiffer, Known
    <2>5. e.author = US => e.value \in content /\ e.value[2] >= current.floor
      BY <1>2, <2>2, <2>4 DEF Holds, Origin
    <2>6. e.value \notin content => e.value[1] = "theirs"
      BY <2>3, <2>4 DEF Origin
    <2> QED
      BY <2>1, <2>4, <2>5, <2>6 DEF Answers
  <1> QED
    BY <1>3, <1>4

\* A read is answered with what it found, and the answer is passed on as it is.
LEMMA AnswersStep == DInv /\ [Next]_vars => AnswersAreRight'
  <1> SUFFICES ASSUME DInv, [Next]_vars PROVE AnswersAreRight'
    OBVIOUS
  <1>1. TypeOK /\ UpdatesAreNews /\ AnswersAreRight
    BY DEF DInv
  <1> USE DEF objectVars, replicaVars, askVars, scriptVars
  <1> DEFINE Read == task = "reading" =>
                       Answers(current, picked, picked # NONE /\ picked.value \in content, FALSE)
             Sends == \A i \in 1..Len(events) : events[i].kind = "value" =>
                        Answers(events[i].to, events[i].entry, events[i].found, events[i].failed)
             Shows == \A i \in 1..Len(deferred) : deferred[i].kind = "value" =>
                        Answers(deferred[i].to, deferred[i].entry, deferred[i].found, deferred[i].failed)
             Waits == \A value \in missed : value[1] = "theirs"
  <1>2. AnswersAreRight' <=> Read' /\ Sends' /\ Shows' /\ Waits'
    BY DEF AnswersAreRight
  <1>3. Read /\ Sends /\ Shows /\ Waits
    BY <1>1 DEF AnswersAreRight
  <1>4. Read'
    <2>1. CASE Pick
      <3>1. UNCHANGED <<current, content>>
        BY <2>1 DEF Pick
      <3> QED
        BY <2>1, <3>1, PickIsRight
    <2>2. ASSUME UNCHANGED <<task, current, picked>>, content \subseteq content' PROVE Read'
      <3>1. (picked # NONE /\ picked.value \in content) \in BOOLEAN
        OBVIOUS
      <3>2. (picked # NONE /\ picked.value \in content') \in BOOLEAN
        OBVIOUS
      <3>3. (picked # NONE /\ picked.value \in content) => (picked # NONE /\ picked.value \in content')
        BY <2>2
      <3>4. task = "reading" => Answers(current, picked, picked # NONE /\ picked.value \in content', FALSE)
        BY <1>3, <3>1, <3>2, <3>3, AnswersLast
      <3> QED
        BY <2>2, <3>4
    <2>3. ASSUME task' # "reading" PROVE Read'
      BY <2>3
    <2> HIDE DEF Read
    <2>4. CASE Spawn \/ Open \/ TakeCommand \/ Write \/ Answer \/ Inform \/ ApplyFails \/ Report
                 \/ UpdatesEnd \/ CommandsClosed \/ Closed
      BY <2>3, <2>4 DEF Spawn, Open, Return, TakeCommand, Write, Answer, Inform, ApplyFails, Report,
         UpdatesEnd, CommandsClosed, Closed
    <2>5. CASE CommandAny \/ Drain \/ Emit \/ Close \/ Release \/ UNCHANGED vars
      BY <2>2, <2>5 DEF CommandAny, Command, Drain, Emit, Close, Release, vars
    <2>6. CASE RemoteInsertAny \/ ContentArrivesAny
      <3>1. UNCHANGED <<task, current, picked>>
        BY <2>6, ZenonT(30) DEF RemoteInsertAny, RemoteInsert, ContentArrivesAny, ContentArrives
      <3>2. content' = content \/ \E e : content' = content \cup {e}
        BY <2>6, ZenonT(30) DEF RemoteInsertAny, RemoteInsert, ContentArrivesAny, ContentArrives
      <3> QED
        BY <2>2, <3>1, <3>2
    <2>7. CASE RuntimeStops
      <3>1. task' # "reading"
        BY <2>7 DEF RuntimeStops, Alive
      <3> QED
        BY <2>3, <3>1
    <2> QED
      BY <2>1, <2>4, <2>5, <2>6, <2>7 DEF Next
  <1>5. Sends'
    <2>1. ASSUME events' = events \/ events' = <<>> PROVE Sends'
      BY <1>3, <2>1
    <2>2. ASSUME NEW signal \in Signals, Sent(signal),
                 signal.kind = "value" => Answers(signal.to, signal.entry, signal.found, signal.failed)
          PROVE  Sends'
      BY <1>1, <1>3, <2>2, SentElements DEF TypeOK
    <2> HIDE DEF Sends
    <2>3. CASE Spawn
      <3>1. CASE events' = <<>>
        BY <2>1, <3>1
      <3>2. CASE events' = <<CLOSED>>
        BY <3>2, MadeSignals DEF Sends
      <3> QED
        BY <2>3, <3>1, <3>2 DEF Spawn
    <2>4. CASE CommandAny \/ Drain \/ Emit \/ Close \/ Release \/ TakeCommand \/ Write \/ Pick
                 \/ CommandsClosed \/ Closed \/ RuntimeStops \/ UNCHANGED vars
      BY <2>1, <2>4 DEF CommandAny, Command, Drain, Emit, Close, Release, TakeCommand, Write, Pick,
         CommandsClosed, Closed, RuntimeStops, vars
    <2>5. CASE RemoteInsertAny \/ ContentArrivesAny
      BY <2>1, <2>5 DEF RemoteInsertAny, RemoteInsert, ContentArrivesAny, ContentArrives
    <2>6. CASE Open \/ ApplyFails \/ UpdatesEnd
      <3>1. UNCHANGED events \/ Sent(OPENED) \/ Sent(CLOSED)
        BY <2>6 DEF Open, ApplyFails, UpdatesEnd
      <3> QED
        BY <2>1, <2>2, <3>1, MadeSignals
    <2>7. CASE Inform
      <3>1. Info(current) \in Signals /\ Info(current).kind = "info"
        BY <1>1, <2>7, MadeSignals DEF Inform, TypeOK
      <3>2. UNCHANGED events \/ Sent(Info(current))
        BY <2>7 DEF Inform
      <3> QED
        BY <2>1, <2>2, <3>1, <3>2
    <2>8. CASE Report
      <3>1. Head(updates) \in Signals /\ Head(updates) = updates[1] /\ 1 \in 1..Len(updates)
        BY <1>1, <2>8, TailElements DEF Report, TypeOK
      <3>2. Head(updates).kind # "value"
        BY <1>1, <3>1 DEF UpdatesAreNews
      <3> QED
        BY <2>2, <2>8, <3>1, <3>2 DEF Report
    <2>9. CASE Answer
      <3>1. PICK found \in BOOLEAN, failed \in BOOLEAN, signal \in Signals :
              /\ Sent(signal) /\ signal.to = current /\ signal.entry = picked
              /\ signal.found = found /\ signal.failed = failed
              /\ failed => picked # NONE
              /\ ~failed => (found <=> picked # NONE /\ picked.value \in content)
        BY <1>1, <2>9, AnswerSends
      <3>2. Answers(current, picked, picked # NONE /\ picked.value \in content, FALSE)
        BY <1>3, <2>9 DEF Answer
      <3>3. Answers(current, picked, found, failed)
        BY <3>1, <3>2 DEF Answers
      <3> QED
        BY <2>2, <3>1, <3>3
    <2> QED
      BY <2>3, <2>4, <2>5, <2>6, <2>7, <2>8, <2>9 DEF Next
  <1>6. Shows'
    <2>1. ASSUME deferred' = deferred \/ deferred' = <<>> PROVE Shows'
      BY <1>3, <2>1
    <2>2. CASE Drain
      <3> DEFINE d == Len(deferred)
                 n == Len(events)
      <3>1. /\ deferred' = deferred \o events /\ d \in Nat /\ n \in Nat
            /\ deferred \in Seq(Signals) /\ events \in Seq(Signals)
        BY <1>1, <2>2, LenProperties DEF Drain, Handled, TypeOK
      <3>2. /\ Len(deferred') = d + n
            /\ \A i \in 1..d + n : deferred'[i] = IF i <= d THEN deferred[i] ELSE events[i - d]
        BY <3>1, ConcatProperties
      <3>3. ASSUME NEW i \in 1..d + n PROVE IF i <= d THEN i \in 1..d ELSE i - d \in 1..n
        BY <3>1
      <3> QED
        BY <1>3, <3>2, <3>3
    <2>3. CASE Emit
      <3>1. /\ Len(deferred') = Len(deferred) - 1 /\ Len(deferred) \in Nat \ {0}
            /\ \A i \in 1..Len(deferred) - 1 : deferred'[i] = deferred[i + 1]
        BY <1>1, <2>3, TailElements DEF Emit, TypeOK
      <3>2. \A i \in 1..Len(deferred) - 1 : i + 1 \in 1..Len(deferred)
        BY <3>1
      <3> QED
        BY <1>3, <3>1, <3>2
    <2> HIDE DEF Shows
    <2>4. CASE Spawn \/ CommandAny \/ Close \/ Release \/ Open \/ TakeCommand \/ Write \/ Pick
                 \/ Answer \/ UNCHANGED vars
      BY <2>1, <2>4 DEF Spawn, CommandAny, Command, Close, Release, Open, TakeCommand, Write, Pick,
         Answer, vars
    <2>5. CASE Inform \/ ApplyFails \/ Report \/ UpdatesEnd \/ CommandsClosed \/ Closed
                 \/ RemoteInsertAny \/ ContentArrivesAny \/ RuntimeStops
      BY <2>1, <2>5 DEF Inform, ApplyFails, Report, UpdatesEnd, CommandsClosed, Closed,
         RemoteInsertAny, RemoteInsert, ContentArrivesAny, ContentArrives, RuntimeStops
    <2> QED
      BY <2>2, <2>3, <2>4, <2>5 DEF Next
  <1>7. Waits'
    <2>1. ASSUME UNCHANGED missed PROVE Waits'
      BY <1>3, <2>1
    <2>2. CASE Emit
      <3> DEFINE h == Head(deferred)
                 miss == h.kind = "value" /\ ~h.found /\ ~h.failed /\ h.entry # NONE
      <3>1. h = deferred[1] /\ 1 \in 1..Len(deferred)
        BY <1>1, <2>2, TailElements DEF Emit, TypeOK
      <3>2. missed' = IF miss THEN missed \cup {h.entry.value}
                              ELSE IF h.kind = "content_ready" THEN missed \ {h.value} ELSE missed
        BY <2>2 DEF Emit, Missed
      <3>3. miss => h.entry.value[1] = "theirs"
        BY <1>3, <3>1 DEF Answers
      <3> HIDE DEF miss
      <3> QED
        BY <1>3, <3>2, <3>3
    <2> HIDE DEF Waits
    <2>3. CASE Spawn \/ CommandAny \/ Drain \/ Close \/ Release \/ Open \/ TakeCommand \/ Write \/ Pick
                 \/ Answer \/ UNCHANGED vars
      BY <2>1, <2>3 DEF Spawn, CommandAny, Command, Drain, Close, Release, Open, TakeCommand, Write,
         Pick, Answer, vars
    <2>4. CASE Inform \/ ApplyFails \/ Report \/ UpdatesEnd \/ CommandsClosed \/ Closed
                 \/ RemoteInsertAny \/ ContentArrivesAny \/ RuntimeStops
      BY <2>1, <2>4 DEF Inform, ApplyFails, Report, UpdatesEnd, CommandsClosed, Closed,
         RemoteInsertAny, RemoteInsert, ContentArrivesAny, ContentArrives, RuntimeStops
    <2> QED
      BY <2>2, <2>3, <2>4 DEF Next
  <1> QED
    BY <1>2, <1>4, <1>5, <1>6, <1>7

-----------------------------------------------------------------------------
\* Announcements.

\* What one more signal, one signal less, or a queue behind another does to
\* the announcements.
LEMMA ReadyAppend ==
    ASSUME NEW q \in Seq(Signals), NEW x \in Signals, NEW v
    PROVE  /\ Ready(q, v) => Ready(Append(q, x), v)
           /\ \A i \in 1..Len(q) : ReadyAfter(q, i, v) => ReadyAfter(Append(q, x), i, v)
           /\ x = ContentReady(v) =>
                /\ Ready(Append(q, x), v)
                /\ \A i \in 1..Len(q) : ReadyAfter(Append(q, x), i, v)
  <1> DEFINE a == Append(q, x)
  <1>1. /\ Len(a) = Len(q) + 1 /\ Len(q) \in Nat
        /\ \A i \in 1..Len(q) : a[i] = q[i]
        /\ a[Len(q) + 1] = x
    BY AppendElements
  <1> HIDE DEF a
  <1>2. /\ \A i \in 1..Len(q) : i \in 1..Len(a) /\ Len(q) + 1 > i
        /\ Len(q) + 1 \in 1..Len(a)
    BY <1>1
  <1>3. Ready(q, v) => Ready(a, v)
    BY <1>1, <1>2 DEF Ready
  <1>4. \A i \in 1..Len(q) : ReadyAfter(q, i, v) => ReadyAfter(a, i, v)
    BY <1>1, <1>2 DEF ReadyAfter
  <1>5. ASSUME x = ContentReady(v) PROVE Ready(a, v) /\ \A i \in 1..Len(q) : ReadyAfter(a, i, v)
    BY <1>1, <1>2, <1>5 DEF Ready, ReadyAfter
  <1> QED
    BY <1>3, <1>4, <1>5 DEF a

\* What announces content in a queue is its head or in the rest.
LEMMA ReadyTail ==
    ASSUME NEW q \in Seq(Signals), q # <<>>, NEW v
    PROVE  /\ Ready(q, v) => Head(q) = ContentReady(v) \/ Ready(Tail(q), v)
           /\ \A i \in 1..Len(q) - 1 : ReadyAfter(q, i + 1, v) => ReadyAfter(Tail(q), i, v)
           /\ ReadyAfter(q, 1, v) => Ready(Tail(q), v)
  <1>1. /\ Len(Tail(q)) = Len(q) - 1 /\ Len(q) \in Nat \ {0}
        /\ \A i \in 1..Len(q) - 1 : Tail(q)[i] = q[i + 1]
        /\ Head(q) = q[1]
    BY TailElements
  <1>2. PICK t : t = Tail(q)
    OBVIOUS
  <1>3. ASSUME NEW j \in 1..Len(q), j # 1 PROVE j - 1 \in 1..Len(t) /\ t[j - 1] = q[j]
    <2>1. j - 1 \in 1..Len(q) - 1 /\ (j - 1) + 1 = j
      BY <1>1, <1>3
    <2> QED
      BY <1>1, <1>2, <2>1
  <1>4. Ready(q, v) => Head(q) = ContentReady(v) \/ Ready(t, v)
    BY <1>1, <1>3 DEF Ready
  <1>5. ReadyAfter(q, 1, v) => Ready(t, v)
    <2>1. \A j \in 1..Len(q) : j > 1 => j # 1
      BY <1>1
    <2> QED
      BY <1>3, <2>1 DEF Ready, ReadyAfter
  <1>6. ASSUME NEW i \in 1..Len(q) - 1, ReadyAfter(q, i + 1, v) PROVE ReadyAfter(t, i, v)
    <2>1. PICK j \in 1..Len(q) : j > i + 1 /\ q[j] = ContentReady(v)
      BY <1>6 DEF ReadyAfter
    <2>2. j # 1 /\ j - 1 > i
      BY <1>1, <2>1
    <2> QED
      BY <1>3, <2>1, <2>2 DEF ReadyAfter
  <1> QED
    BY <1>2, <1>4, <1>5, <1>6

\* What announces content in either queue does so in both put together.
LEMMA ReadyConcat ==
    ASSUME NEW p \in Seq(Signals), NEW q \in Seq(Signals), NEW v
    PROVE  /\ Ready(p, v) \/ Ready(q, v) => Ready(p \o q, v)
           /\ \A i \in 1..Len(p) : ReadyAfter(p, i, v) \/ Ready(q, v) => ReadyAfter(p \o q, i, v)
           /\ \A i \in 1..Len(q) : ReadyAfter(q, i, v) => ReadyAfter(p \o q, i + Len(p), v)
  <1> DEFINE pq == p \o q
             m == Len(p)
             n == Len(q)
  <1>1. /\ Len(pq) = m + n /\ m \in Nat /\ n \in Nat
        /\ \A i \in 1..m + n : pq[i] = IF i <= m THEN p[i] ELSE q[i - m]
    BY ConcatProperties, LenProperties
  <1> HIDE DEF pq, m, n
  <1>2. ASSUME NEW i \in 1..m PROVE i \in 1..m + n /\ pq[i] = p[i]
    BY <1>1
  <1>3. ASSUME NEW i \in 1..n PROVE i + m \in 1..m + n /\ pq[i + m] = q[i]
    <2>1. i + m \in 1..m + n /\ ~(i + m <= m) /\ (i + m) - m = i
      BY <1>1
    <2> QED
      BY <1>1, <2>1
  <1>4. Ready(p, v) => Ready(pq, v)
    BY <1>1, <1>2 DEF Ready, m
  <1>5. Ready(q, v) => Ready(pq, v)
    BY <1>1, <1>3 DEF Ready, n
  <1>6. ASSUME NEW i \in 1..m, ReadyAfter(p, i, v) PROVE ReadyAfter(pq, i, v)
    BY <1>1, <1>2, <1>6 DEF ReadyAfter, m
  <1>7. ASSUME NEW i \in 1..m, Ready(q, v) PROVE ReadyAfter(pq, i, v)
    <2>1. PICK j \in 1..n : q[j] = ContentReady(v)
      BY <1>7 DEF Ready, n
    <2>2. j + m > i
      BY <1>1
    <2> QED
      BY <1>1, <1>3, <2>1, <2>2 DEF ReadyAfter
  <1>8. ASSUME NEW i \in 1..n, ReadyAfter(q, i, v) PROVE ReadyAfter(pq, i + m, v)
    <2>1. PICK j \in 1..n : j > i /\ q[j] = ContentReady(v)
      BY <1>8 DEF ReadyAfter, n
    <2>2. j + m > i + m
      BY <1>1, <2>1
    <2> QED
      BY <1>1, <1>3, <2>1, <2>2 DEF ReadyAfter
  <1> QED
    BY <1>4, <1>5, <1>6, <1>7, <1>8 DEF pq, m, n

\* What is missing is theirs.
LEMMA MissesAreTheirs ==
    ASSUME AnswersAreRight, NEW v
    PROVE  /\ v \in missed => v[1] = "theirs"
           /\ \A i \in 1..Len(deferred) : Misses(deferred[i], v) => v[1] = "theirs"
           /\ \A i \in 1..Len(events) : Misses(events[i], v) => v[1] = "theirs"
  BY DEF AnswersAreRight, Answers, Misses

\* What a blob operation brought stays so.
LEMMA SilentGrows == [Next]_vars => silent \subseteq silent'
  <1> USE DEF replicaVars
  <1>1. CASE Spawn \/ CommandAny \/ Drain \/ Emit \/ Close \/ Release \/ Open \/ UNCHANGED vars
    BY <1>1 DEF Spawn, CommandAny, Command, Drain, Emit, Close, Release, Open, vars
  <1>2. CASE TakeCommand \/ Write \/ Pick \/ Answer \/ Inform \/ ApplyFails \/ RuntimeStops
    BY <1>2 DEF TakeCommand, Write, Pick, Answer, Inform, ApplyFails, RuntimeStops
  <1>3. CASE Report \/ UpdatesEnd \/ CommandsClosed \/ Closed \/ RemoteInsertAny
    BY <1>3 DEF Report, UpdatesEnd, CommandsClosed, Closed, RemoteInsertAny, RemoteInsert
  <1>4. CASE ContentArrivesAny
    BY <1>4 DEF ContentArrivesAny, ContentArrives
  <1> QED
    BY <1>1, <1>2, <1>3, <1>4 DEF Next

\* An announcement is behind every answer that missed the bytes, as these are
\* in the store before it is made.
LEMMA AnnouncementsStep == DInv /\ [Next]_vars => AnnouncementsFollow'
  <1> SUFFICES ASSUME DInv, [Next]_vars, Listening', NEW v \in content' \ silent'
               PROVE  /\ v \in missed' =>
                           Ready(deferred', v) \/ Ready(events', v) \/ Ready(updates', v)
                      /\ \A i \in 1..Len(deferred') : Misses(deferred'[i], v) =>
                           ReadyAfter(deferred', i, v) \/ Ready(events', v) \/ Ready(updates', v)
                      /\ \A i \in 1..Len(events') : Misses(events'[i], v) =>
                           ReadyAfter(events', i, v) \/ Ready(updates', v)
    BY DEF AnnouncementsFollow, Misses
  <1> DEFINE Waits == v \in missed => Ready(deferred, v) \/ Ready(events, v) \/ Ready(updates, v)
             Shows == \A i \in 1..Len(deferred) : Misses(deferred[i], v) =>
                        ReadyAfter(deferred, i, v) \/ Ready(events, v) \/ Ready(updates, v)
             Sends == \A i \in 1..Len(events) : Misses(events[i], v) =>
                        ReadyAfter(events, i, v) \/ Ready(updates, v)
  <1> SUFFICES Waits' /\ Shows' /\ Sends'
    BY DEF Misses
  <1>1. TypeOK /\ Beginning /\ UpdatesAreNews /\ AnswersAreRight /\ AnnouncementsFollow /\ WritesWereGiven
    BY DEF DInv
  <1>2. deferred \in Seq(Signals) /\ events \in Seq(Signals) /\ updates \in Seq(Signals)
    BY <1>1 DEF TypeOK
  <1>3. Listening /\ v \in content => Waits /\ Shows /\ Sends
    BY <1>1, SilentGrows DEF AnnouncementsFollow
  <1> USE DEF objectVars, replicaVars, askVars, scriptVars
  <1>4. ASSUME UNCHANGED <<missed, deferred, events, updates>>, Waits, Shows, Sends
        PROVE  Waits' /\ Shows' /\ Sends'
    BY <1>4 DEF Misses
  <1>5. ASSUME UNCHANGED <<missed, deferred, updates>>, NEW signal \in Signals, Sent(signal),
               ~Misses(signal, v), Listening, v \in content
        PROVE  Waits' /\ Shows' /\ Sends'
    <2>1. events' = Append(events, signal)
      BY <1>5 DEF Sent, Listening
    <2>2. /\ Ready(events, v) => Ready(events', v)
          /\ \A i \in 1..Len(events) : ReadyAfter(events, i, v) => ReadyAfter(events', i, v)
      BY <1>2, <1>5, <2>1, ReadyAppend
    <2>3. \A i \in 1..Len(events') :
             (i \in 1..Len(events) /\ events'[i] = events[i]) \/ events'[i] = signal
      BY <1>2, <1>5, SentElements
    <2>4. Waits'
      BY <1>3, <1>5, <2>2
    <2>5. Shows'
      BY <1>3, <1>5, <2>2 DEF Misses
    <2>6. Sends'
      <3> SUFFICES ASSUME NEW i \in 1..Len(events'), Misses(events'[i], v)
                   PROVE  ReadyAfter(events', i, v) \/ Ready(updates', v)
        BY DEF Misses
      <3>1. i \in 1..Len(events) /\ Misses(events[i], v)
        BY <1>5, <2>3
      <3> QED
        BY <1>3, <1>5, <2>2, <3>1
    <2> QED
      BY <2>4, <2>5, <2>6
  <1>6. ASSUME UNCHANGED <<missed, deferred, events>>, NEW signal \in Signals, Announced(signal), Listening,
               \/ v \in content
               \/ v[1] # "theirs"
               \/ signal = ContentReady(v)
        PROVE  Waits' /\ Shows' /\ Sends'
    <2>1. updates' = Append(updates, signal)
      BY <1>6 DEF Announced, Listening
    <2>2. /\ Ready(updates, v) => Ready(updates', v)
          /\ signal = ContentReady(v) => Ready(updates', v)
      BY <1>2, <1>6, <2>1, ReadyAppend
    <2>3. CASE v \in content \/ v[1] # "theirs"
      <3>1. Waits /\ Shows /\ Sends
        BY <1>1, <1>3, <1>6, <2>3, MissesAreTheirs
      <3>2. Waits'
        BY <1>6, <2>2, <3>1
      <3>3. Shows'
        BY <1>6, <2>2, <3>1 DEF Misses
      <3>4. Sends'
        BY <1>6, <2>2, <3>1 DEF Misses
      <3> QED
        BY <3>2, <3>3, <3>4
    <2>4. CASE signal = ContentReady(v)
      BY <2>2, <2>4
    <2> QED
      BY <1>6, <2>3, <2>4
  <1>7. CASE Spawn \/ Close \/ Release \/ ApplyFails \/ UpdatesEnd \/ CommandsClosed \/ Closed
    <2>1. ~Listening'
      BY <1>7 DEF Spawn, Close, Release, ApplyFails, UpdatesEnd, CommandsClosed, Closed, Return,
         Listening, Subscribed
    <2> QED
      BY <2>1
  <1>8. CASE RuntimeStops
    <2>1. ~Listening'
      BY <1>8 DEF RuntimeStops, Listening, Subscribed, Alive
    <2> QED
      BY <2>1
  <1>9. CASE CommandAny \/ UNCHANGED vars
    <2>1. UNCHANGED <<missed, deferred, events, updates, content>> /\ (Listening' <=> Listening)
      BY <1>9 DEF CommandAny, Command, vars, Listening
    <2> QED
      BY <1>3, <1>4, <2>1
  <1>10. CASE TakeCommand \/ Pick
    <2>1. UNCHANGED <<missed, deferred, events, updates, content>> /\ Listening
      BY <1>10 DEF TakeCommand, Pick, Listening, Subscribed
    <2> QED
      BY <1>3, <1>4, <2>1
  <1>11. CASE Drain
    <2> DEFINE d == Len(deferred)
               n == Len(events)
    <2>1. /\ deferred' = deferred \o events /\ d \in Nat /\ n \in Nat /\ events' = <<>>
          /\ UNCHANGED <<missed, updates, content, task>> /\ document = "held"
      BY <1>2, <1>11, LenProperties DEF Drain, Handled
    <2>2. /\ Len(deferred') = d + n
          /\ \A i \in 1..d + n : deferred'[i] = IF i <= d THEN deferred[i] ELSE events[i - d]
      BY <1>2, <2>1, ConcatProperties
    <2>3. Waits /\ Shows /\ Sends
      BY <1>3, <2>1 DEF Listening
    <2>4. /\ Ready(deferred, v) \/ Ready(events, v) => Ready(deferred', v)
          /\ \A i \in 1..d : ReadyAfter(deferred, i, v) \/ Ready(events, v) => ReadyAfter(deferred', i, v)
          /\ \A i \in 1..n : ReadyAfter(events, i, v) => ReadyAfter(deferred', i + d, v)
      BY <1>2, <2>1, ReadyConcat
    <2>5. Waits'
      BY <2>1, <2>3, <2>4
    <2>6. Shows'
      <3> SUFFICES ASSUME NEW i \in 1..d + n, Misses(deferred'[i], v)
                   PROVE  ReadyAfter(deferred', i, v) \/ Ready(updates', v)
        BY <2>2 DEF Misses
      <3>1. CASE i <= d
        <4>1. i \in 1..d /\ Misses(deferred[i], v)
          BY <2>1, <2>2, <3>1
        <4> QED
          BY <2>1, <2>3, <2>4, <4>1
      <3>2. CASE ~(i <= d)
        <4>1. i - d \in 1..n /\ Misses(events[i - d], v) /\ (i - d) + d = i
          BY <2>1, <2>2, <3>2
        <4>2. ReadyAfter(events, i - d, v) \/ Ready(updates, v)
          BY <2>3, <4>1
        <4> QED
          BY <2>1, <2>4, <4>1, <4>2
      <3> QED
        BY <3>1, <3>2
    <2>7. Sends'
      BY <2>1
    <2> QED
      BY <2>5, <2>6, <2>7
  <1>12. CASE Emit
    <2> DEFINE h == Head(deferred)
               miss == h.kind = "value" /\ ~h.found /\ ~h.failed /\ h.entry # NONE
    <2>1. /\ deferred # <<>> /\ deferred' = Tail(deferred) /\ UNCHANGED <<events, updates, content>>
          /\ Listening
      BY <1>12 DEF Emit, Listening
    <2>2. /\ Len(deferred') = Len(deferred) - 1 /\ Len(deferred) \in Nat \ {0}
          /\ \A i \in 1..Len(deferred) - 1 : deferred'[i] = deferred[i + 1]
          /\ h = deferred[1] /\ h \in Signals
      BY <1>2, <2>1, TailElements
    <2>3. Waits /\ Shows /\ Sends /\ v \in Values
      BY <1>1, <1>3, <2>1 DEF TypeOK
    <2>4. /\ Ready(deferred, v) => h = ContentReady(v) \/ Ready(deferred', v)
          /\ \A i \in 1..Len(deferred) - 1 : ReadyAfter(deferred, i + 1, v) => ReadyAfter(deferred', i, v)
          /\ ReadyAfter(deferred, 1, v) => Ready(deferred', v)
      BY <1>2, <2>1, ReadyTail
    <2>5. missed' = IF miss THEN missed \cup {h.entry.value}
                            ELSE IF h.kind = "content_ready" THEN missed \ {h.value} ELSE missed
      BY <1>12 DEF Emit, Missed
    <2>6. Waits'
      <3> SUFFICES ASSUME v \in missed'
                   PROVE  Ready(deferred', v) \/ Ready(events, v) \/ Ready(updates, v)
        BY <2>1
      <3>1. CASE Misses(h, v)
        <4>1. 1 \in 1..Len(deferred) /\ Misses(deferred[1], v)
          BY <2>2, <3>1
        <4> QED
          BY <2>3, <2>4, <4>1
      <3>2. CASE ~Misses(h, v)
        <4>1. v \in missed
          BY <2>5, <3>2 DEF Misses
        <4>2. h # ContentReady(v)
          BY <2>3, <2>5, MadeSignals
        <4> QED
          BY <2>3, <2>4, <4>1, <4>2
      <3> QED
        BY <3>1, <3>2
    <2>7. Shows'
      <3> SUFFICES ASSUME NEW i \in 1..Len(deferred) - 1, Misses(deferred'[i], v)
                   PROVE  ReadyAfter(deferred', i, v) \/ Ready(events, v) \/ Ready(updates, v)
        BY <2>1, <2>2 DEF Misses
      <3>1. i + 1 \in 1..Len(deferred) /\ Misses(deferred[i + 1], v)
        BY <2>2
      <3> QED
        BY <2>3, <2>4, <3>1
    <2>8. Sends'
      BY <2>1, <2>3 DEF Misses
    <2> QED
      BY <2>6, <2>7, <2>8
  <1>13. CASE Open
    <2>1. deferred' = <<>> /\ missed' = {} /\ events = <<>>
      BY <1>1, <1>13 DEF Open, Beginning
    <2>2. events' = <<OPENED>>
      <3>1. task = "updates" /\ task' = "running" /\ document = "held"
        BY <1>13 DEF Open, Return, Listening, Opening, Subscribed
      <3>2. Sent(OPENED)
        BY <1>13, <3>1 DEF Open, Return
      <3> QED
        BY <2>1, <3>1, <3>2 DEF Sent
    <2>3. \A i \in 1..Len(events') : ~Misses(events'[i], v)
      BY <2>2, MadeSignals DEF Misses
    <2> QED
      BY <2>1, <2>3 DEF Misses
  <1>14. CASE Write
    <2>1. PICK e : e = Made(current)
      OBVIOUS
    <2>2. /\ e \in Entries /\ e.value = IF current.op = "set" THEN Ours(current.n) ELSE EMPTY
      BY <1>1, <1>14, <2>1, MadeIsAnEntry DEF Write
    <2>3. /\ content' = content \cup {e.value} /\ Announced(Entry(e)) /\ Listening
          /\ UNCHANGED <<missed, deferred, events>>
      BY <1>14, <2>1 DEF Write, Made, Listening, Subscribed
    <2>4. e.value[1] # "theirs"
      BY <2>2 DEF Ours, EMPTY
    <2>5. Entry(e) \in Signals
      BY <2>2, MadeSignals
    <2> QED
      BY <1>6, <2>3, <2>4, <2>5
  <1>15. CASE Answer
    <2>1. PICK found \in BOOLEAN, failed \in BOOLEAN, signal \in Signals :
            /\ Sent(signal) /\ signal.entry = picked
            /\ signal.found = found /\ signal.failed = failed
            /\ ~failed => (found <=> picked # NONE /\ picked.value \in content)
      BY <1>1, <1>15, AnswerSends
    <2>2. UNCHANGED <<missed, deferred, updates, content>> /\ Listening
      BY <1>15 DEF Answer, Listening, Subscribed
    <2>3. ~Misses(signal, v)
      BY <2>1, <2>2 DEF Misses
    <2> QED
      BY <1>5, <2>1, <2>2, <2>3
  <1>16. CASE Inform
    <2>1. Info(current) \in Signals /\ Info(current).kind = "info"
      BY <1>1, <1>16, MadeSignals DEF Inform, TypeOK
    <2>2. ~Misses(Info(current), v)
      BY <2>1 DEF Misses
    <2>3. UNCHANGED <<missed, deferred, updates, content>> /\ Listening
      BY <1>16 DEF Inform, Listening, Subscribed
    <2>4. UNCHANGED events \/ Sent(Info(current))
      BY <1>16 DEF Inform
    <2> QED
      BY <1>3, <1>4, <1>5, <2>1, <2>2, <2>3, <2>4
  <1>17. CASE Report
    <2> DEFINE h == Head(updates)
    <2>1. /\ UNCHANGED <<missed, deferred, content>> /\ Listening /\ updates # <<>>
          /\ updates' = Tail(updates) /\ Sent(h)
      BY <1>17 DEF Report, Listening, Subscribed
    <2>2. h \in Signals /\ h = updates[1] /\ 1 \in 1..Len(updates)
      BY <1>2, <2>1, TailElements
    <2>3. ~Misses(h, v)
      BY <1>1, <2>2 DEF UpdatesAreNews, Misses
    <2>4. events' = Append(events, h)
      BY <2>1 DEF Sent, Listening
    <2>5. /\ Ready(events, v) => Ready(events', v)
          /\ \A i \in 1..Len(events) : ReadyAfter(events, i, v) => ReadyAfter(events', i, v)
          /\ h = ContentReady(v) =>
               Ready(events', v) /\ \A i \in 1..Len(events) : ReadyAfter(events', i, v)
      BY <1>2, <2>2, <2>4, ReadyAppend
    <2>6. Ready(updates, v) => h = ContentReady(v) \/ Ready(updates', v)
      BY <1>2, <2>1, ReadyTail
    <2>7. \A i \in 1..Len(events') :
             (i \in 1..Len(events) /\ events'[i] = events[i]) \/ events'[i] = h
      BY <1>2, <2>1, <2>2, SentElements
    <2>8. Waits /\ Shows /\ Sends
      BY <1>3, <2>1
    <2> HIDE DEF h
    <2>9. Waits'
      BY <2>1, <2>5, <2>6, <2>8
    <2>10. Shows'
      BY <2>1, <2>5, <2>6, <2>8 DEF Misses
    <2>11. Sends'
      <3> SUFFICES ASSUME NEW i \in 1..Len(events'), Misses(events'[i], v)
                   PROVE  ReadyAfter(events', i, v) \/ Ready(updates', v)
        BY DEF Misses
      <3>1. i \in 1..Len(events) /\ Misses(events[i], v)
        BY <2>3, <2>7
      <3> QED
        BY <2>5, <2>6, <2>8, <3>1
    <2> QED
      BY <2>9, <2>10, <2>11
  <1>18. ASSUME NEW author \in Others, NEW key \in SharedKeys, NEW time \in 1..MaxRemote,
                NEW gone \in BOOLEAN, RemoteInsert(author, key, time, gone)
         PROVE  Waits' /\ Shows' /\ Sends'
    <2>1. PICK e : e = Brought(author, key, time, gone)
      OBVIOUS
    <2>2. e \in Entries
      BY <2>1, BroughtIsAnEntry
    <2>3. Announced(Entry(e)) \/ UNCHANGED updates
      BY <1>18, <2>1 DEF RemoteInsert, Brought
    <2>4. UNCHANGED <<missed, deferred, events, content>> /\ Listening
      BY <1>18 DEF RemoteInsert, Listening
    <2>5. Entry(e) \in Signals
      BY <2>2, MadeSignals
    <2> QED
      BY <1>3, <1>4, <1>6, <2>3, <2>4, <2>5
  <1>19. ASSUME NEW e \in entries, NEW downloaded \in BOOLEAN, ContentArrives(e, downloaded)
         PROVE  Waits' /\ Shows' /\ Sends'
    <2>1. e.value \in Values
      BY <1>1, EntryFields DEF TypeOK
    <2>2. ContentReady(e.value) \in Signals
      BY <2>1, MadeSignals
    <2>3. UNCHANGED <<missed, deferred, events>> /\ Listening /\ v \in content \cup {e.value}
      BY <1>19 DEF ContentArrives, Listening
    <2>4. CASE downloaded
      <3>1. Announced(ContentReady(e.value))
        BY <1>19, <2>4 DEF ContentArrives
      <3> QED
        BY <1>6, <2>2, <2>3, <3>1
    <2>5. CASE ~downloaded
      <3>1. UNCHANGED updates /\ silent' = silent \cup {e.value}
        BY <1>19, <2>5 DEF ContentArrives
      <3>2. v \in content
        BY <2>3, <3>1
      <3> QED
        BY <1>3, <1>4, <2>3, <3>1, <3>2
    <2> QED
      BY <2>4, <2>5
  <1> QED
    BY <1>7, <1>8, <1>9, <1>10, <1>11, <1>12, <1>13, <1>14, <1>15, <1>16, <1>17, <1>18, <1>19
    DEF Next, RemoteInsertAny, ContentArrivesAny

-----------------------------------------------------------------------------
\* The order of the commands.

\* A queue that begins with the same commands reaches the same.
LEMMA ReachesSame ==
    ASSUME NEW p, NEW q, NEW b \in BOOLEAN, NEW c \in BOOLEAN, NEW key, NEW n, NEW kept, NEW i \in Nat,
           \A l \in 1..i : q[l] = p[l], b => c, Reaches(p, b, key, n, kept, i)
    PROVE  Reaches(q, c, key, n, kept, i)
  <1>1. CASE \E j \in 1..i : /\ Writes(p[j], key) /\ Is(p[j], key, n, kept)
                             /\ \A l \in j + 1..i : ~Writes(p[l], key)
    <2>1. PICK j \in 1..i : /\ Writes(p[j], key) /\ Is(p[j], key, n, kept)
                            /\ \A l \in j + 1..i : ~Writes(p[l], key)
      BY <1>1
    <2>2. Writes(q[j], key) /\ Is(q[j], key, n, kept)
      BY <2>1
    <2>3. ASSUME NEW l \in j + 1..i PROVE ~Writes(q[l], key)
      <3>1. l \in 1..i
        OBVIOUS
      <3> QED
        BY <2>1, <3>1
    <2> QED
      BY <2>2, <2>3 DEF Reaches
  <1>2. CASE (\A l \in 1..i : ~Writes(p[l], key)) /\ b
    <2>1. \A l \in 1..i : ~Writes(q[l], key)
      BY <1>2
    <2> QED
      BY <1>2, <2>1 DEF Reaches
  <1> QED
    BY <1>1, <1>2 DEF Reaches

\* With one more command the queue reaches that one if it writes, and what it
\* reached before if it does not.
LEMMA ReachesNext ==
    ASSUME NEW q, NEW b \in BOOLEAN, NEW key, NEW n, NEW kept, NEW i \in Nat,
           IF Writes(q[i + 1], key) THEN Is(q[i + 1], key, n, kept) ELSE Reaches(q, b, key, n, kept, i)
    PROVE  Reaches(q, b, key, n, kept, i + 1)
  <1>1. CASE Writes(q[i + 1], key)
    <2>1. i + 1 \in 1..i + 1 /\ \A l \in (i + 1) + 1..i + 1 : FALSE
      OBVIOUS
    <2> QED
      BY <1>1, <2>1 DEF Reaches
  <1>2. CASE ~Writes(q[i + 1], key)
    <2>1. \A l \in 1..i + 1 : l \in 1..i \/ l = i + 1
      OBVIOUS
    <2>2. CASE \E j \in 1..i : /\ Writes(q[j], key) /\ Is(q[j], key, n, kept)
                               /\ \A l \in j + 1..i : ~Writes(q[l], key)
      <3>1. PICK j \in 1..i : /\ Writes(q[j], key) /\ Is(q[j], key, n, kept)
                              /\ \A l \in j + 1..i : ~Writes(q[l], key)
        BY <2>2
      <3>2. ASSUME NEW l \in j + 1..i + 1 PROVE ~Writes(q[l], key)
        <4>1. l \in j + 1..i \/ l = i + 1
          OBVIOUS
        <4> QED
          BY <1>2, <3>1, <4>1
      <3>3. j \in 1..i + 1
        OBVIOUS
      <3> QED
        BY <3>1, <3>2, <3>3 DEF Reaches
    <2>3. CASE (\A l \in 1..i : ~Writes(q[l], key)) /\ b
      BY <1>2, <2>1, <2>3 DEF Reaches
    <2> QED
      BY <1>2, <2>2, <2>3 DEF Reaches
  <1> QED
    BY <1>1, <1>2

\* Taking the first command makes it the one at hand.
LEMMA ReachesTail ==
    ASSUME NEW q \in Seq(Commands), q # <<>>, NEW b \in BOOLEAN, NEW key, NEW n, NEW kept, NEW i \in Nat,
           i + 1 <= Len(q), Reaches(q, b, key, n, kept, i + 1)
    PROVE  Reaches(Tail(q), IF Writes(q[1], key) THEN Is(q[1], key, n, kept) ELSE b, key, n, kept, i)
  <1>1. PICK t : t = Tail(q)
    OBVIOUS
  <1>2. PICK c : c = IF Writes(q[1], key) THEN Is(q[1], key, n, kept) ELSE b
    OBVIOUS
  <1>3. Len(q) \in Nat /\ \A l \in 1..Len(q) - 1 : t[l] = q[l + 1]
    BY <1>1, TailElements
  <1>4. \A l \in 1..i : l + 1 \in 1..i + 1 /\ t[l] = q[l + 1]
    BY <1>3
  <1>5. CASE \E j \in 1..i + 1 : /\ Writes(q[j], key) /\ Is(q[j], key, n, kept)
                                 /\ \A l \in j + 1..i + 1 : ~Writes(q[l], key)
    <2>1. PICK j \in 1..i + 1 : /\ Writes(q[j], key) /\ Is(q[j], key, n, kept)
                                /\ \A l \in j + 1..i + 1 : ~Writes(q[l], key)
      BY <1>5
    <2>2. CASE j = 1
      <3>1. c = Is(q[1], key, n, kept)
        BY <1>2, <2>1, <2>2
      <3>2. ASSUME NEW l \in 1..i PROVE ~Writes(t[l], key)
        <4>1. l + 1 \in 1 + 1..i + 1
          OBVIOUS
        <4> QED
          BY <1>4, <2>1, <2>2, <4>1
      <3> QED
        BY <1>1, <1>2, <2>1, <2>2, <3>1, <3>2 DEF Reaches
    <2>3. CASE j # 1
      <3>1. PICK k : k = j - 1
        OBVIOUS
      <3>2. k \in 1..i /\ k + 1 = j
        BY <2>3, <3>1
      <3>3. t[k] = q[j]
        BY <1>4, <3>2
      <3>4. ASSUME NEW l \in k + 1..i PROVE ~Writes(t[l], key)
        <4>1. l \in 1..i /\ l + 1 \in j + 1..i + 1
          BY <3>2
        <4> QED
          BY <1>4, <2>1, <4>1
      <3> QED
        BY <1>1, <1>2, <2>1, <3>2, <3>3, <3>4 DEF Reaches
    <2> QED
      BY <2>2, <2>3
  <1>6. CASE (\A l \in 1..i + 1 : ~Writes(q[l], key)) /\ b
    <2>1. 1 \in 1..i + 1
      OBVIOUS
    <2>2. c = b
      BY <1>2, <1>6, <2>1
    <2>3. \A l \in 1..i : ~Writes(t[l], key)
      BY <1>4, <1>6
    <2> QED
      BY <1>1, <1>2, <1>6, <2>2, <2>3 DEF Reaches
  <1> QED
    BY <1>5, <1>6 DEF Reaches

\* A write of ours leaves at its keys its value, or nothing.
LEMMA WriteSettles ==
    ASSUME DInv, Write, NEW key \in Keys, NEW n \in Nat, NEW kept \in BOOLEAN, Settled(key, n, kept)
    PROVE  Holds(key, n, kept)'
  <1>1. TypeOK /\ WritesWereGiven /\ WritesDiffer /\ InOrder /\ task = "applying"
    BY DEF DInv, Write
  <1>2. PICK e : e = Made(current)
    OBVIOUS
  <1>3. /\ e \in Entries /\ e.author = US /\ e.time = clock + 1 /\ e.key = current.key /\ clock \in Nat
        /\ e.value = IF current.op = "set" THEN Ours(current.n) ELSE EMPTY
    BY <1>1, <1>2, MadeIsAnEntry
  <1>4. entries' = Insert(entries, e)
    BY <1>2 DEF Write, Made
  <1>5. \A x \in entries : x.author = US => x.time \in Nat /\ x.time < e.time /\ ~(x.time >= e.time)
    <2>1. \A x \in entries : x.author = US => x.time \in Nat /\ x.time <= clock
      BY <1>1, EntryFields DEF WritesDiffer, Known, Origin, TypeOK
    <2> QED
      BY <1>3, <2>1
  <1>6. entries' = {x \in entries : ~(x.author = US /\ Covers(e.key, x.key))} \cup {e}
    <2>1. ~\E x \in entries : x.author = e.author /\ Covers(x.key, e.key) /\ x.time >= e.time
      BY <1>3, <1>5
    <2>2. entries' = {x \in entries : ~(x.author = e.author /\ Covers(e.key, x.key) /\ x.time < e.time)}
                       \cup {e}
      BY <1>4, <2>1 DEF Insert
    <2> QED
      BY <1>3, <1>5, <2>2
  <1>7. PICK own : own = {x \in entries' : x.key = key /\ x.value # EMPTY /\ x.author = US}
    OBVIOUS
  <1>8. {x \in Matches(key)' : x.author = US} = own
    BY <1>7 DEF Matches
  <1>9. CASE Covers(current.key, key)
    <2>1. Writes(current, key) /\ Is(current, key, n, kept)
      BY <1>1, <1>9 DEF Write, Writes, Settled
    <2>2. \A x \in own : x = e
      BY <1>3, <1>6, <1>7, <1>9
    <2>3. CASE current.op = "set" /\ current.key = key
      <3>2. e.key = key
        BY <1>3, <2>3
      <3>3. current.n \in 0..MaxCommands
        BY <1>1, MaxCommandsIsNat DEF TypeOK, Commands
      <3>4. e.value # EMPTY /\ e.value[2] = current.n
        BY <1>3, <2>3, <3>3, ValueKinds
      <3>5. e \in own
        BY <1>3, <1>6, <1>7, <3>2, <3>4
      <3>6. e.value[2] >= n
        BY <2>1, <3>4 DEF Is
      <3> QED
        BY <1>8, <2>2, <3>5, <3>6 DEF Holds
    <2>4. CASE ~(current.op = "set" /\ current.key = key)
      <3>1. own = {}
        BY <1>1, <1>3, <1>7, <2>2, <2>4 DEF Write
      <3>2. ~kept
        BY <2>1, <2>4 DEF Is
      <3> QED
        BY <1>8, <3>1, <3>2 DEF Holds
    <2> QED
      BY <2>3, <2>4
  <1>10. CASE ~Covers(current.key, key)
    <2>1. Holds(key, n, kept)
      BY <1>1, <1>10 DEF Settled, Writes
    <2>2. e.key # key
      BY <1>3, <1>10 DEF Covers
    <2>3. own = {x \in Matches(key) : x.author = US}
      BY <1>3, <1>6, <1>7, <1>10, <2>2 DEF Matches
    <2> QED
      BY <1>8, <2>1, <2>3 DEF Holds
  <1> QED
    BY <1>9, <1>10

\* A write of another author leaves ours alone.
LEMMA RemoteSettles ==
    ASSUME DInv, NEW author \in Others, NEW k \in SharedKeys, NEW time \in 1..MaxRemote,
           NEW gone \in BOOLEAN, RemoteInsert(author, k, time, gone),
           NEW key \in Keys, NEW n, NEW kept, Holds(key, n, kept)
    PROVE  Holds(key, n, kept)'
  <1>1. PICK e : e = Brought(author, k, time, gone)
    OBVIOUS
  <1>2. e.author # US
    BY <1>1, BroughtIsAnEntry
  <1>3. entries' = Insert(entries, e)
    BY <1>1 DEF RemoteInsert, Brought
  <1>4. \A x : x.author = US => (x \in entries' <=> x \in entries)
    BY <1>2, <1>3 DEF Insert
  <1>5. {x \in Matches(key)' : x.author = US} = {x \in Matches(key) : x.author = US}
    BY <1>4 DEF Matches
  <1> QED
    BY <1>5 DEF Holds

\* The order, part by part: what was asked last, what waits, what is at hand.
LastInOrder == \A key \in Keys : AppliedTo(key, mine[key].n, mine[key].kept, Len(commands))
WaitingInOrder ==
    \A i \in 1..Len(commands) :
        commands[i].op = "read" =>
          AppliedTo(commands[i].key, commands[i].floor, commands[i].kept, i - 1)
AtHandInOrder ==
    task = "applying" /\ current.op = "read" =>
        Holds(current.key, current.floor, current.kept)

\* InOrder, by where a command is: done, waiting, or at hand.
LEMMA OrderParts ==
    /\ InOrder <=> (task \in Working => LastInOrder /\ WaitingInOrder /\ AtHandInOrder)
    /\ InOrder' <=> (task' \in Working => LastInOrder' /\ WaitingInOrder' /\ AtHandInOrder')
  BY DEF InOrder, LastInOrder, WaitingInOrder, AtHandInOrder

\* The numbers the commands carry.
LEMMA CommandNumbers ==
    ASSUME TypeOK
    PROVE  /\ \A key \in Keys : mine[key].n \in Nat /\ mine[key].kept \in BOOLEAN
           /\ \A i \in 1..Len(commands) :
                /\ commands[i] \in Commands /\ commands[i].key \in Keys
                /\ commands[i].floor \in Nat /\ commands[i].kept \in BOOLEAN
           /\ Len(commands) \in Nat /\ commands \in Seq(Commands)
  <1>1. ASSUME NEW key \in Keys PROVE mine[key].n \in Nat /\ mine[key].kept \in BOOLEAN
    <2>1. mine[key] \in [n : 0..MaxCommands, kept : BOOLEAN]
      BY DEF TypeOK
    <2> QED
      BY <2>1, MaxCommandsIsNat
  <1>2. commands \in Seq(Commands) /\ Len(commands) \in Nat
    BY LenProperties DEF TypeOK
  <1>3. ASSUME NEW i \in 1..Len(commands)
        PROVE  /\ commands[i] \in Commands /\ commands[i].key \in Keys
               /\ commands[i].floor \in Nat /\ commands[i].kept \in BOOLEAN
    <2>1. commands[i] \in Commands
      BY <1>2, ElementOfSeq
    <2> QED
      BY <2>1, MaxCommandsIsNat DEF Commands
  <1> QED
    BY <1>1, <1>2, <1>3

\* A step that takes and gives no command and undoes nothing that was settled.
LEMMA OrderCarries ==
    ASSUME TypeOK, InOrder, task \in Working, UNCHANGED <<commands, mine>>, AtHandInOrder',
           \A key \in Keys, n \in Nat, kept \in BOOLEAN :
             Settled(key, n, kept) => Settled(key, n, kept)'
    PROVE  InOrder'
  <1>1. LastInOrder /\ WaitingInOrder
    BY OrderParts
  <1>2. ASSUME NEW key \in Keys, NEW n \in Nat, NEW kept \in BOOLEAN, NEW i \in Nat,
               AppliedTo(key, n, kept, i)
        PROVE  AppliedTo(key, n, kept, i)'
    <2>1. Reaches(commands, Settled(key, n, kept), key, n, kept, i)
      BY <1>2 DEF AppliedTo
    <2>2. Settled(key, n, kept) \in BOOLEAN /\ Settled(key, n, kept)' \in BOOLEAN
      BY DEF Settled, Is, Holds
    <2>3. Reaches(commands, Settled(key, n, kept)', key, n, kept, i)
      BY <2>1, <2>2, ReachesSame
    <2> QED
      BY <2>3 DEF AppliedTo
  <1>3. LastInOrder'
    <2> SUFFICES ASSUME NEW key \in Keys
                 PROVE  AppliedTo(key, mine[key].n, mine[key].kept, Len(commands))'
      BY DEF LastInOrder
    <2>1. AppliedTo(key, mine[key].n, mine[key].kept, Len(commands))
      BY <1>1 DEF LastInOrder
    <2> QED
      BY <1>2, <2>1, CommandNumbers
  <1>4. WaitingInOrder'
    <2> SUFFICES ASSUME NEW i \in 1..Len(commands)
                 PROVE  commands[i].op = "read" =>
                          AppliedTo(commands[i].key, commands[i].floor, commands[i].kept, i - 1)'
      BY DEF WaitingInOrder
    <2>1. i - 1 \in Nat
      BY CommandNumbers
    <2> QED
      BY <1>1, <1>2, <2>1, CommandNumbers DEF WaitingInOrder
  <1> QED
    BY <1>3, <1>4, OrderParts

\* A command is given behind those that wait.
LEMMA OrderWhenGiven ==
    ASSUME DInv, NEW op \in Operations, NEW key \in Keys, Command(op, key), task \in Working
    PROVE  InOrder'
  <1>1. TypeOK /\ LastInOrder /\ WaitingInOrder /\ AtHandInOrder
    BY OrderParts DEF DInv
  <1>2. PICK c \in Commands :
             /\ c.op = op /\ c.key = key /\ c.n = given + 1
             /\ op = "read" => c.floor = mine[key].n /\ c.kept = mine[key].kept
             /\ commands' = Append(commands, c)
    BY <1>1, GivenIsACommand
  <1>3. /\ UNCHANGED <<task, current, entries>>
        /\ mine' = [k \in Keys |-> IF op \in {"set", "delete"} /\ Covers(key, k)
                                   THEN [n |-> given + 1, kept |-> op = "set" /\ k = key] ELSE mine[k]]
    BY DEF Command, replicaVars
  <1>4. /\ Len(commands') = Len(commands) + 1 /\ Len(commands) \in Nat
        /\ \A i \in 1..Len(commands) : commands'[i] = commands[i]
        /\ commands'[Len(commands) + 1] = c
    BY <1>1, <1>2, AppendElements, CommandNumbers
  <1>5. \A k, n, kept : Settled(k, n, kept)' = Settled(k, n, kept)
    BY <1>3 DEF Settled, Holds, Matches
  <1>6. ASSUME NEW k, NEW n, NEW kept, NEW i \in Nat, i <= Len(commands), AppliedTo(k, n, kept, i)
        PROVE  AppliedTo(k, n, kept, i)'
    <2>1. \A l \in 1..i : commands'[l] = commands[l]
      BY <1>4, <1>6
    <2>2. Settled(k, n, kept) \in BOOLEAN /\ Settled(k, n, kept)' \in BOOLEAN
      BY DEF Settled, Is, Holds
    <2>3. Reaches(commands, Settled(k, n, kept), k, n, kept, i)
      BY <1>6 DEF AppliedTo
    <2>4. Reaches(commands', Settled(k, n, kept)', k, n, kept, i)
      BY <1>5, <2>1, <2>2, <2>3, ReachesSame
    <2> QED
      BY <2>4 DEF AppliedTo
  <1>7. LastInOrder'
    <2> SUFFICES ASSUME NEW k \in Keys, NEW n, NEW kept, n = mine'[k].n, kept = mine'[k].kept
                 PROVE  Reaches(commands', Settled(k, n, kept)', k, n, kept, Len(commands) + 1)
      BY <1>4, Zenon DEF LastInOrder, AppliedTo
    <2>1. Settled(k, n, kept)' \in BOOLEAN
      BY DEF Settled, Is, Holds
    <2>2. CASE Writes(c, k)
      <3>1. n = given + 1 /\ kept = (op = "set" /\ k = key)
        BY <1>2, <1>3, <2>2 DEF Writes
      <3>2. Is(c, k, n, kept)
        BY <1>2, <3>1 DEF Is
      <3> QED
        BY <1>4, <2>1, <2>2, <3>2, ReachesNext
    <2>3. CASE ~Writes(c, k)
      <3>1. mine'[k] = mine[k]
        BY <1>2, <1>3, <2>3 DEF Writes
      <3>2. AppliedTo(k, n, kept, Len(commands))
        BY <1>1, <3>1 DEF LastInOrder
      <3>3. Len(commands) <= Len(commands)
        BY <1>4
      <3>4. Reaches(commands', Settled(k, n, kept)', k, n, kept, Len(commands))
        <4>1. PICK m \in Nat : m = Len(commands)
          BY <1>4
        <4>2. AppliedTo(k, n, kept, m)'
          BY <1>6, <3>2, <3>3, <4>1
        <4> QED
          BY <4>1, <4>2 DEF AppliedTo
      <3> QED
        BY <1>4, <2>1, <2>3, <3>4, ReachesNext
    <2> QED
      BY <2>2, <2>3
  <1>8. WaitingInOrder'
    <2> SUFFICES ASSUME NEW i \in 1..Len(commands) + 1, NEW x, x = commands'[i]
                 PROVE  x.op = "read" => AppliedTo(x.key, x.floor, x.kept, i - 1)'
      BY <1>4, Zenon DEF WaitingInOrder
    <2>1. CASE i \in 1..Len(commands)
      <3>1. x = commands[i] /\ i - 1 \in Nat /\ i - 1 <= Len(commands)
        BY <1>4, <2>1
      <3>2. x.op = "read" => AppliedTo(x.key, x.floor, x.kept, i - 1)
        BY <1>1, <2>1, <3>1 DEF WaitingInOrder
      <3> QED
        BY <1>6, <3>1, <3>2
    <2>2. CASE i = Len(commands) + 1
      <3>1. x = c /\ i - 1 = Len(commands) /\ i - 1 \in Nat /\ i - 1 <= Len(commands)
        BY <1>4, <2>2
      <3>2. op = "read" => AppliedTo(x.key, x.floor, x.kept, i - 1)
        BY <1>1, <1>2, <3>1 DEF LastInOrder
      <3> QED
        BY <1>2, <1>3, <1>6, <3>1, <3>2
    <2> QED
      BY <1>4, <2>1, <2>2
  <1>9. AtHandInOrder'
    BY <1>1, <1>3 DEF AtHandInOrder, Holds, Matches
  <1> QED
    BY <1>7, <1>8, <1>9, OrderParts

\* The command at hand is the first that waited.
LEMMA OrderWhenTaken ==
    ASSUME DInv, TakeCommand
    PROVE  InOrder'
  <1>1. TypeOK /\ LastInOrder /\ WaitingInOrder
    BY OrderParts DEF DInv, TakeCommand, Working, Subscribed
  <1>2. /\ task = "running" /\ task' = "applying" /\ commands # <<>> /\ commands' = Tail(commands)
        /\ current' = Head(commands) /\ UNCHANGED <<entries, mine>>
    BY DEF TakeCommand, replicaVars, askVars
  <1>3. /\ Len(commands') = Len(commands) - 1 /\ Len(commands) \in Nat \ {0}
        /\ \A i \in 1..Len(commands) - 1 : commands'[i] = commands[i + 1]
        /\ current' = commands[1]
    BY <1>1, <1>2, TailElements, CommandNumbers
  <1>4. \A key, n, kept : /\ Settled(key, n, kept) = Holds(key, n, kept)
                          /\ Settled(key, n, kept)' = IF Writes(commands[1], key) THEN Is(commands[1], key, n, kept)
                                                                                ELSE Holds(key, n, kept)
    BY <1>2, <1>3 DEF Settled, Holds, Matches
  <1>5. ASSUME NEW key, NEW n, NEW kept, NEW i \in Nat, i + 1 <= Len(commands),
               AppliedTo(key, n, kept, i + 1)
        PROVE  AppliedTo(key, n, kept, i)'
    <2>1. Holds(key, n, kept) \in BOOLEAN
      BY DEF Holds
    <2>2. Reaches(commands, Holds(key, n, kept), key, n, kept, i + 1)
      BY <1>4, <1>5 DEF AppliedTo
    <2>3. Reaches(Tail(commands), IF Writes(commands[1], key) THEN Is(commands[1], key, n, kept)
                                                               ELSE Holds(key, n, kept), key, n, kept, i)
      BY <1>1, <1>2, <1>5, <2>1, <2>2, ReachesTail, CommandNumbers
    <2> QED
      BY <1>2, <1>4, <2>3 DEF AppliedTo
  <1>6. LastInOrder'
    <2> SUFFICES ASSUME NEW key \in Keys, NEW n, NEW kept, n = mine[key].n, kept = mine[key].kept
                 PROVE  Reaches(commands', Settled(key, n, kept)', key, n, kept, Len(commands) - 1)
      <3>1. Len(commands') = Len(commands) - 1 /\ mine' = mine
        BY <1>2, <1>3
      <3> QED
        BY <3>1, Zenon DEF LastInOrder, AppliedTo
    <2>1. PICK m : m = Len(commands) - 1
      OBVIOUS
    <2>2. m \in Nat /\ m + 1 = Len(commands) /\ m + 1 <= Len(commands)
      BY <1>3, <2>1
    <2>3. AppliedTo(key, n, kept, m + 1)
      BY <1>1, <2>2 DEF LastInOrder
    <2>4. AppliedTo(key, n, kept, m)'
      BY <1>5, <2>2, <2>3
    <2> QED
      BY <2>1, <2>4 DEF AppliedTo
  <1>7. WaitingInOrder'
    <2> SUFFICES ASSUME NEW i \in 1..Len(commands) - 1, NEW c, c = commands'[i]
                 PROVE  c.op = "read" => AppliedTo(c.key, c.floor, c.kept, i - 1)'
      BY <1>3, Zenon DEF WaitingInOrder
    <2>1. /\ i + 1 \in 1..Len(commands) /\ c = commands[i + 1]
          /\ (i + 1) - 1 = (i - 1) + 1 /\ i - 1 \in Nat /\ (i - 1) + 1 <= Len(commands)
      BY <1>3
    <2>2. c.op = "read" => AppliedTo(c.key, c.floor, c.kept, (i - 1) + 1)
      BY <1>1, <2>1 DEF WaitingInOrder
    <2> QED
      BY <1>5, <2>1, <2>2
  <1>8. AtHandInOrder'
    <2>1. 1 \in 1..Len(commands)
      BY <1>3
    <2>2. PICK c : c = commands[1]
      OBVIOUS
    <2>3. c.op = "read" => AppliedTo(c.key, c.floor, c.kept, 1 - 1)
      BY <1>1, <2>1, <2>2 DEF WaitingInOrder
    <2>4. AppliedTo(c.key, c.floor, c.kept, 1 - 1) => Holds(c.key, c.floor, c.kept)
      <3>1. \A j \in 1..(1 - 1) : FALSE
        OBVIOUS
      <3> QED
        BY <1>4, <3>1 DEF AppliedTo, Reaches
    <2> QED
      BY <1>2, <1>3, <2>2, <2>3, <2>4 DEF AtHandInOrder, Holds, Matches
  <1> QED
    BY <1>6, <1>7, <1>8, OrderParts

\* Commands are applied in the order given, each to its end before the next.
LEMMA OrderStep == DInv /\ [Next]_vars => InOrder'
  <1> SUFFICES ASSUME DInv, [Next]_vars, task' \in Working PROVE InOrder'
    BY DEF InOrder
  <1>1. TypeOK /\ Beginning /\ InOrder
    BY DEF DInv
  <1> USE DEF objectVars, replicaVars, askVars, scriptVars
  <1>2. ASSUME UNCHANGED <<commands, mine, entries, task, current>> PROVE InOrder'
    <2>1. \A key, n, kept : /\ Settled(key, n, kept)' = Settled(key, n, kept)
                            /\ Holds(key, n, kept)' = Holds(key, n, kept)
      BY <1>2 DEF Settled, Holds, Matches
    <2>2. AtHandInOrder'
      BY <1>1, <1>2, <2>1, OrderParts DEF AtHandInOrder
    <2> QED
      BY <1>1, <1>2, <2>1, <2>2, OrderCarries
  <1>3. ASSUME UNCHANGED <<commands, mine, entries>>, task \in Working,
               task = "applying" => current.op \notin {"set", "delete"},
               task' # "applying",
               task' = "reading" => task = "applying" /\ current' = current
        PROVE  InOrder'
    <2>1. \A key, n, kept : Settled(key, n, kept) => Settled(key, n, kept)'
      BY <1>3 DEF Settled, Writes, Holds, Matches
    <2>2. AtHandInOrder'
      BY <1>1, <1>3, OrderParts DEF AtHandInOrder
    <2> QED
      BY <1>1, <1>3, <2>1, <2>2, OrderCarries
  <1>4. CASE Spawn
    BY <1>1, <1>3, <1>4 DEF Spawn, Beginning, Working
  <1>5. CASE CommandAny
    BY <1>5, OrderWhenGiven, CallsAreCommands, ZenonT(30) DEF Command
  <1>6. CASE Drain \/ Emit \/ Close \/ Release \/ UNCHANGED vars
    BY <1>2, <1>6 DEF Drain, Emit, Close, Release, vars
  <1>7. CASE Open
    <2>1. task \in {"opening", "updates"} /\ task' \in {"updates", "running"}
          /\ UNCHANGED <<commands, mine, entries>>
      BY <1>7 DEF Open, Return, Opening, Working, Subscribed
    <2> QED
      BY <1>3, <2>1 DEF Working, Opening
  <1>8. CASE TakeCommand
    BY <1>8, OrderWhenTaken
  <1>9. CASE Write
    <2>1. task = "applying" /\ task' = "running" /\ UNCHANGED <<commands, mine>>
      BY <1>9 DEF Write
    <2>2. \A key \in Keys, n \in Nat, kept \in BOOLEAN : Settled(key, n, kept) => Settled(key, n, kept)'
      <3>1. \A key, n, kept : Settled(key, n, kept)' = Holds(key, n, kept)'
        BY <2>1 DEF Settled
      <3> QED
        BY <1>9, <3>1, WriteSettles
    <2>3. AtHandInOrder'
      BY <2>1 DEF AtHandInOrder
    <2> QED
      BY <1>1, <2>1, <2>2, <2>3, OrderCarries DEF Working, Subscribed
  <1>10. CASE Pick \/ Answer \/ Inform
    BY <1>3, <1>10 DEF Pick, Answer, Inform, Working, Subscribed
  <1>11. CASE Report
    BY <1>3, <1>11 DEF Report, Working, Subscribed
  <1>12. CASE ApplyFails \/ UpdatesEnd \/ CommandsClosed \/ Closed
    BY <1>12 DEF ApplyFails, UpdatesEnd, CommandsClosed, Closed, Return, Working, Opening, Subscribed
  <1>13. CASE RuntimeStops
    <2>1. task = "none" /\ task' = task
      BY <1>1, <1>13 DEF RuntimeStops, Working, Opening, Subscribed, Alive, TypeOK
    <2> QED
      BY <1>1, <1>3, <1>13, <2>1 DEF RuntimeStops, Beginning, Working
  <1>14. ASSUME NEW author \in Others, NEW k \in SharedKeys, NEW time \in 1..MaxRemote,
                NEW gone \in BOOLEAN, RemoteInsert(author, k, time, gone)
         PROVE  InOrder'
    <2>1. UNCHANGED <<commands, mine, task, current>>
      BY <1>14 DEF RemoteInsert
    <2>2. \A key \in Keys : \A n, kept : Holds(key, n, kept) => Holds(key, n, kept)'
      BY <1>14, RemoteSettles
    <2>3. \A key \in Keys, n \in Nat, kept \in BOOLEAN : Settled(key, n, kept) => Settled(key, n, kept)'
      BY <2>1, <2>2 DEF Settled
    <2>4. AtHandInOrder'
      <3>1. task = "applying" => current.key \in Keys
        BY <1>1 DEF TypeOK, Commands
      <3> QED
        BY <1>1, <1>14, <2>1, <2>2, <3>1, OrderParts DEF AtHandInOrder, RemoteInsert, Working, Opening
    <2> QED
      BY <1>1, <2>1, <2>3, <2>4, OrderCarries
  <1>15. CASE ContentArrivesAny
    BY <1>2, <1>15 DEF ContentArrivesAny, ContentArrives
  <1> QED
    BY <1>4, <1>5, <1>6, <1>7, <1>8, <1>9, <1>10, <1>11, <1>12, <1>13, <1>14, <1>15
    DEF Next, RemoteInsertAny

-----------------------------------------------------------------------------
\* The theorems.

\* The first state satisfies the invariant.
LEMMA DocumentInit == Init => DInv
  <1> SUFFICES ASSUME Init PROVE DInv
    OBVIOUS
  <1>1. TypeOK
    BY TypeInit
  <1>2. /\ document = "none" /\ task = "none" /\ commands = <<>> /\ updates = <<>> /\ events = <<>>
        /\ deferred = <<>> /\ mirror = {} /\ missed = {} /\ ended = FALSE /\ clock = 0 /\ given = 0
        /\ content = {Ours(0)} /\ mine = [key \in Keys |-> [n |-> 0, kept |-> FALSE]]
    BY DEF Init
  <1>3. Beginning /\ ChannelGoesToo
    BY <1>2 DEF Beginning, ChannelGoesToo
  <1>4. UpdatesAreNews /\ EndsAreLast
    BY <1>2 DEF UpdatesAreNews, EndsAreLast
  <1>5. WritesWereGiven
    BY <1>2 DEF WritesWereGiven
  <1>6. \A e : e \notin Told
    BY <1>1, <1>2, ToldParts, TellsNothing
  <1>7. /\ \A e \in entries : e.author = US /\ e.time = 0 /\ e.value = Ours(0)
        /\ \A e, x \in entries : e = x
    BY DEF Init
  <1>8. Ours(0)[1] = "ours" /\ Ours(0)[2] = 0
    BY DEF Ours
  <1>9. WritesDiffer
    <2>1. \A e \in Known : e \in entries
      BY <1>6 DEF Known
    <2>2. \A e \in Known : Origin(e)
      <3> SUFFICES ASSUME NEW e \in Known PROVE Origin(e)
        OBVIOUS
      <3>1. e.author = US /\ e.time = 0 /\ e.value = Ours(0)
        BY <1>7, <2>1
      <3>2. e.time <= clock
        BY <1>2, <3>1
      <3> QED
        BY <1>2, <1>8, <3>1, <3>2 DEF Origin
    <2> QED
      BY <1>7, <2>1, <2>2 DEF WritesDiffer
  <1>10. ReplicaIsTold
    <2>1. \A e, x \in entries : ~Supersedes(x, e)
      BY <1>7 DEF Supersedes
    <2> QED
      BY <1>2, <2>1 DEF ReplicaIsTold, Listening
  <1>11. InOrder
    <2>1. Len(commands) = 0
      BY <1>2
    <2>2. ASSUME NEW key \in Keys PROVE AppliedTo(key, mine[key].n, mine[key].kept, Len(commands))
      <3>1. mine[key].n = 0 /\ mine[key].kept = FALSE
        BY <1>2
      <3>2. \A e \in Matches(key) : e.value[2] >= 0
        BY <1>7, <1>8 DEF Matches
      <3>3. Settled(key, 0, FALSE)
        BY <1>2, <3>2 DEF Settled, Holds
      <3>4. \A l \in 1..0 : FALSE
        OBVIOUS
      <3> QED
        BY <2>1, <3>1, <3>3, <3>4 DEF AppliedTo, Reaches
    <2> QED
      BY <1>2, <2>1, <2>2 DEF InOrder
  <1>12. AnswersAreRight
    BY <1>2 DEF AnswersAreRight
  <1>13. AnnouncementsFollow
    BY <1>2 DEF AnnouncementsFollow, Listening
  <1> QED
    BY <1>1, <1>3, <1>4, <1>5, <1>9, <1>10, <1>11, <1>12, <1>13 DEF DInv

\* The invariant holds throughout: the types, the two ways from the replica to
\* the script, and the order in which the task applies what it is given.
THEOREM DocumentInvariant == Spec => []DInv
  <1>1. DInv /\ [Next]_vars => DInv'
    BY TypeStep, ChannelStep, UpdatesStep, EndsStep, CountStep, DiffersStep, ReplicaStep, OrderStep,
       AnswersStep, AnnouncementsStep DEF DInv
  <1> QED
    BY <1>1, DocumentInit, PTL DEF Spec

\* Of ours a read answers with nothing older than the script's last write over
\* its key, and finds no entry only if that was no set of the key: its command
\* stands behind the write's in the channel, and the task applies each to its end
\* (docs.rs run and apply).
THEOREM AnswersFollowWrites == Spec => []ReadYourWrites
  <1>1. DInv => ReadYourWrites
    <2> SUFFICES ASSUME DInv, NEW i \in DOMAIN OnTheWay, NEW signal, signal = OnTheWay[i],
                        signal.kind = "value"
                 PROVE  /\ signal.entry = NONE => ~signal.to.kept
                        /\ signal.entry # NONE /\ signal.entry.author = US =>
                             /\ signal.found \/ signal.failed
                             /\ signal.entry.value[2] >= signal.to.floor
      BY DEF ReadYourWrites
    <2>1. deferred \in Seq(Signals) /\ events \in Seq(Signals) /\ AnswersAreRight
      BY DEF DInv, TypeOK
    <2>2. PICK w : w = deferred \o events
      OBVIOUS
    <2>3. /\ w \in Seq(Signals) /\ Len(w) = Len(deferred) + Len(events)
          /\ \A j \in 1..Len(deferred) + Len(events) :
               w[j] = IF j <= Len(deferred) THEN deferred[j] ELSE events[j - Len(deferred)]
      BY <2>1, <2>2, ConcatProperties
    <2>4. Len(deferred) \in Nat /\ Len(events) \in Nat /\ i \in 1..Len(w) /\ signal = w[i]
      BY <2>1, <2>2, <2>3, LenProperties DEF OnTheWay
    <2>5. Answers(signal.to, signal.entry, signal.found, signal.failed)
      <3>1. CASE i <= Len(deferred)
        <4>1. i \in 1..Len(deferred) /\ signal = deferred[i]
          BY <2>3, <2>4, <3>1
        <4> QED
          BY <2>1, <4>1 DEF AnswersAreRight
      <3>2. CASE ~(i <= Len(deferred))
        <4>1. i - Len(deferred) \in 1..Len(events) /\ signal = events[i - Len(deferred)]
          BY <2>3, <2>4, <3>2
        <4> QED
          BY <2>1, <4>1 DEF AnswersAreRight
      <3> QED
        BY <3>1, <3>2
    <2> QED
      BY <2>5 DEF Answers
  <1> QED
    BY <1>1, DocumentInvariant, PTL

\* The entry signals add up to the replica: whoever wrote, and in whatever
\* order the writes arrived, the latest of what the script was told or is to be
\* told is what the replica keeps (docs.rs report, document.rs handle).
THEOREM SignalsAddUp == Spec => []EveryWriteIsTold
  <1>1. DInv => EveryWriteIsTold
    <2> SUFFICES ASSUME DInv, Listening PROVE Latest(Told) = entries
      BY DEF EveryWriteIsTold
    <2>1. /\ \A e, x \in entries : ~Supersedes(x, e)
          /\ entries \subseteq Told
          /\ \A e \in Told : e \in entries \/ \E x \in entries : Supersedes(x, e)
      BY DEF DInv, ReplicaIsTold
    <2>2. entries \subseteq Entries /\ Told \subseteq Entries
      BY KnownAreEntries DEF DInv, Known
    <2>3. ASSUME NEW e \in Latest(Told) PROVE e \in entries
      BY <2>1 DEF Latest
    <2>4. ASSUME NEW e \in entries, NEW x \in Told, Supersedes(x, e) PROVE FALSE
      <3>1. x \notin entries
        BY <2>1, <2>4
      <3>2. PICK y \in entries : Supersedes(y, x)
        BY <2>1, <3>1
      <3>3. Supersedes(y, e)
        BY <2>2, <2>4, <3>2, SupersedesTransitive
      <3> QED
        BY <2>1, <3>3
    <2>5. ASSUME NEW e \in entries PROVE e \in Latest(Told)
      BY <2>1, <2>4, <2>5 DEF Latest
    <2> QED
      BY <2>3, <2>5
  <1> QED
    BY <1>1, DocumentInvariant, PTL

\* A read that came before the bytes, and did not fail, is followed by their
\* announcement if the document downloads them: they are put into the store
\* before the announcement is made, and both take the same way to the script
\* (docs.rs report and apply).
THEOREM MissesAreFollowed == Spec => []MissesAreAnnounced
  <1>1. DInv => MissesAreAnnounced
    <2> SUFFICES ASSUME DInv, Listening, NEW v \in content \ silent
                 PROVE  /\ v \in missed => \E j \in DOMAIN Way : Way[j] = ContentReady(v)
                        /\ \A i \in DOMAIN Way : Misses(Way[i], v) =>
                              \E j \in DOMAIN Way : j > i /\ Way[j] = ContentReady(v)
      BY DEF MissesAreAnnounced
    <2>1. deferred \in Seq(Signals) /\ events \in Seq(Signals) /\ updates \in Seq(Signals)
      BY DEF DInv, TypeOK
    <2>2. /\ v \in missed => Ready(deferred, v) \/ Ready(events, v) \/ Ready(updates, v)
          /\ \A i \in 1..Len(deferred) : Misses(deferred[i], v) =>
               ReadyAfter(deferred, i, v) \/ Ready(events, v) \/ Ready(updates, v)
          /\ \A i \in 1..Len(events) : Misses(events[i], v) =>
               ReadyAfter(events, i, v) \/ Ready(updates, v)
          /\ \A i \in 1..Len(updates) : ~Misses(updates[i], v)
      <3>1. \A i \in 1..Len(updates) : ~Misses(updates[i], v)
        BY DEF DInv, UpdatesAreNews, Misses
      <3> QED
        BY <3>1 DEF DInv, AnnouncementsFollow
    <2>3. PICK p : p = deferred \o events
      OBVIOUS
    <2>4. /\ p \in Seq(Signals) /\ Len(p) = Len(deferred) + Len(events)
          /\ \A i \in 1..Len(deferred) + Len(events) :
               p[i] = IF i <= Len(deferred) THEN deferred[i] ELSE events[i - Len(deferred)]
          /\ Len(deferred) \in Nat /\ Len(events) \in Nat /\ Len(updates) \in Nat
      BY <2>1, <2>3, ConcatProperties, LenProperties
    <2>5. PICK w : w = p \o updates
      OBVIOUS
    <2>6. /\ w \in Seq(Signals) /\ Len(w) = Len(p) + Len(updates)
          /\ \A i \in 1..Len(p) + Len(updates) : w[i] = IF i <= Len(p) THEN p[i] ELSE updates[i - Len(p)]
      <3>1. p \in Seq(Signals) /\ updates \in Seq(Signals)
        BY <2>1, <2>4
      <3>2. /\ p \o updates \in Seq(Signals) /\ Len(p \o updates) = Len(p) + Len(updates)
            /\ \A i \in 1..Len(p) + Len(updates) :
                 (p \o updates)[i] = IF i <= Len(p) THEN p[i] ELSE updates[i - Len(p)]
        BY <3>1, ConcatProperties
      <3> QED
        BY <2>5, <3>2, Zenon
    <2>7. Way = w /\ DOMAIN w = 1..Len(w)
      BY <2>3, <2>5, <2>6, LenProperties DEF Way, OnTheWay
    <2>8. v \in missed => Ready(w, v)
      BY <2>1, <2>2, <2>3, <2>4, <2>5, ReadyConcat
    <2>9. ASSUME NEW i \in 1..Len(p), Misses(p[i], v) PROVE ReadyAfter(p, i, v) \/ Ready(updates, v)
      <3>1. CASE i <= Len(deferred)
        <4>1. i \in 1..Len(deferred) /\ Misses(deferred[i], v)
          BY <2>4, <2>9, <3>1
        <4> QED
          BY <2>1, <2>2, <2>3, <4>1, ReadyConcat
      <3>2. CASE ~(i <= Len(deferred))
        <4>1. PICK k : k = i - Len(deferred)
          OBVIOUS
        <4>2. k \in 1..Len(events) /\ Misses(events[k], v) /\ k + Len(deferred) = i
          BY <2>4, <2>9, <3>2, <4>1
        <4>3. ReadyAfter(events, k, v) => ReadyAfter(p, k + Len(deferred), v)
          BY <2>1, <2>3, <4>2, ReadyConcat
        <4> QED
          BY <2>2, <4>2, <4>3
      <3> QED
        BY <3>1, <3>2
    <2>10. ASSUME NEW i \in 1..Len(w), Misses(w[i], v) PROVE ReadyAfter(w, i, v)
      <3>1. CASE i <= Len(p)
        <4>1. i \in 1..Len(p) /\ Misses(p[i], v)
          BY <2>4, <2>6, <2>10, <3>1
        <4> QED
          BY <2>1, <2>4, <2>5, <2>9, <4>1, ReadyConcat
      <3>2. CASE ~(i <= Len(p))
        <4>1. i - Len(p) \in 1..Len(updates) /\ Misses(updates[i - Len(p)], v)
          BY <2>4, <2>6, <2>10, <3>2
        <4> QED
          BY <2>2, <4>1
      <3> QED
        BY <3>1, <3>2
    <2> QED
      BY <2>7, <2>8, <2>10 DEF Ready, ReadyAfter
  <1> QED
    BY <1>1, DocumentInvariant, PTL

-----------------------------------------------------------------------------
\* The handle.

\* The deferred signals as Reports sees them.
Shown == [i \in DOMAIN deferred |-> Kind(deferred[i])]

\* They are a sequence of kinds, as long as the signals.
LEMMA ShownTypes ==
    ASSUME NEW queue \in Seq(Signals)
    PROVE  LET shown == [i \in DOMAIN queue |-> Kind(queue[i])] IN
             /\ shown \in Seq({"news", "end"}) /\ Len(shown) = Len(queue)
             /\ \A i \in 1..Len(queue) : shown[i] = Kind(queue[i])
  <1> DEFINE n == Len(queue)
             shown == [i \in 1..n |-> Kind(queue[i])]
  <1>1. DOMAIN queue = 1..n /\ n \in Nat
    BY LenProperties
  <1>2. \A i \in 1..n : Kind(queue[i]) \in {"news", "end"}
    BY DEF Kind
  <1>3. shown \in Seq({"news", "end"}) /\ Len(shown) = n /\ \A i \in 1..n : shown[i] = Kind(queue[i])
    BY <1>1, <1>2
  <1> QED
    BY <1>1, <1>3

\* A frame shows the script the channel's events behind what was deferred.
LEMMA DrainIsAFrame == DInv /\ Drain => Handle!Frame
  <1> SUFFICES ASSUME DInv, Drain PROVE Handle!Frame
    OBVIOUS
  <1> USE DEF DInv
  <1> DEFINE K == {"news", "end"}
             d == Len(deferred)
             n == Len(events)
             after == [i \in DOMAIN (deferred') |-> Kind(deferred'[i])]
  <1>1. /\ deferred \in Seq(Signals) /\ events \in Seq(Signals) /\ deferred' = deferred \o events
        /\ events # <<>> /\ document = "held" /\ d \in Nat /\ n \in Nat \ {0}
    BY EmptySeq, LenProperties DEF Drain, Handled, TypeOK
  <1>2. /\ deferred' \in Seq(Signals) /\ Len(deferred') = d + n
        /\ \A i \in 1..d + n :
             deferred'[i] = IF i <= d THEN deferred[i] ELSE events[i - d]
    BY <1>1, ConcatProperties
  <1>3. Shown \in Seq(K) /\ Len(Shown) = d /\ \A i \in 1..d : Shown[i] = Kind(deferred[i])
    BY <1>1, ShownTypes DEF Shown
  <1>4. /\ after \in Seq(K) /\ Len(after) = d + n
        /\ \A i \in 1..d + n : after[i] = Kind(deferred'[i])
    BY <1>2, ShownTypes
  <1> HIDE DEF d, n, after
  <1>5. ASSUME NEW i \in 1..d PROVE after[i] = Shown[i]
    <2>1. i \in 1..d + n /\ i <= d
      BY <1>1
    <2> QED
      BY <1>2, <1>3, <1>4, <2>1
  <1>6. ASSUME NEW i \in d + 1..d + n
        PROVE  i - d \in 1..n /\ after[i] = Kind(events[i - d])
    <2>1. i \in 1..d + n /\ ~(i <= d) /\ i - d \in 1..n
      BY <1>1
    <2> QED
      BY <1>2, <1>4, <2>1
  <1>7. \A i \in 1..n : events[i] = CLOSED => i = n
    BY DEF EndsAreLast, n
  <1>8. ASSUME NEW i \in d + 1..(d + n) - 1 PROVE after[i] = "news"
    <2>1. i \in d + 1..d + n /\ i - d # n
      BY <1>1
    <2> QED
      BY <1>6, <1>7, <2>1 DEF Kind
  <1>9. after[d + n] = "end" <=> events[n] = CLOSED
    <2>1. d + n \in d + 1..d + n /\ (d + n) - d = n
      BY <1>1
    <2> QED
      BY <1>6, <2>1 DEF Kind
  <1>10. document' = (IF events[n] = CLOSED THEN "gone" ELSE "held") /\ UNCHANGED ended
    <2>1. DOMAIN events = 1..n /\ n \in 1..n
      BY <1>1, LenProperties DEF n
    <2> QED
      BY <1>1, <1>7, <2>1 DEF Drain, Handled, objectVars, scriptVars
  <1>11. d <= d + n /\ d < d + n
    BY <1>1
  <1> QED
    BY <1>1, <1>3, <1>4, <1>5, <1>8, <1>9, <1>10, <1>11 DEF Handle!Frame, Shown, after

\* The signal Godot emits is the oldest one shown, and the script heard no end
\* before it.
LEMMA EmitIsAnEmit == DInv /\ Emit => Handle!Emit
  <1> SUFFICES ASSUME DInv, Emit PROVE Handle!Emit
    OBVIOUS
  <1> USE DEF DInv
  <1> DEFINE K == {"news", "end"}
             after == [i \in DOMAIN (deferred') |-> Kind(deferred'[i])]
  <1>1. /\ deferred \in Seq(Signals) /\ deferred # <<>> /\ deferred' = Tail(deferred)
        /\ UNCHANGED document
    BY DEF Emit, TypeOK, objectVars
  <1>2. /\ deferred' \in Seq(Signals) /\ Len(deferred') = Len(deferred) - 1
        /\ Len(deferred) \in Nat \ {0} /\ Head(deferred) = deferred[1]
        /\ \A i \in 1..Len(deferred') : deferred'[i] = deferred[i + 1]
    BY <1>1, HeadTailProperties, EmptySeq
  <1>3. /\ Shown \in Seq(K) /\ Len(Shown) = Len(deferred)
        /\ \A i \in 1..Len(deferred) : Shown[i] = Kind(deferred[i])
    BY <1>1, ShownTypes DEF Shown
  <1>4. /\ after \in Seq(K) /\ Len(after) = Len(deferred')
        /\ \A i \in 1..Len(deferred') : after[i] = Kind(deferred'[i])
    BY <1>2, ShownTypes
  <1> HIDE DEF after
  <1>5. Shown # <<>> /\ Head(Shown) = Shown[1] /\ Shown[1] = Kind(Head(deferred))
    BY <1>2, <1>3
  <1>6. after = Tail(Shown)
    <2>1. /\ Tail(Shown) \in Seq(K) /\ Len(Tail(Shown)) = Len(after)
          /\ \A i \in 1..Len(Tail(Shown)) : Tail(Shown)[i] = Shown[i + 1]
      BY <1>2, <1>3, <1>4, <1>5, HeadTailProperties
    <2>2. ASSUME NEW i \in 1..Len(after) PROVE after[i] = Tail(Shown)[i]
      <3>1. i + 1 \in 1..Len(deferred) /\ i \in 1..Len(deferred')
        BY <1>2, <1>4
      <3> QED
        BY <1>2, <1>3, <1>4, <2>1, <3>1
    <2> QED
      BY <1>4, <2>1, <2>2, SeqEqual
  <1>7. ~ended
    BY <1>1 DEF EndsAreLast
  <1>8. ended' <=> Head(Shown) = "end"
    <2>1. ended' = (ended \/ Head(deferred) = CLOSED)
      BY DEF Emit
    <2> QED
      BY <1>5, <1>7, <2>1 DEF Kind
  <1>9. ended' = (Head(Shown) = "end")
    <2>1. ended' \in BOOLEAN
      BY DEF Emit
    <2> QED
      BY <1>8, <2>1
  <1> QED
    BY <1>1, <1>5, <1>6, <1>7, <1>9 DEF Handle!Emit, Shown, after

\* A document is a handle: whatever ends its task, lets go of it or stops the
\* runtime, the script hears news, closed at most once, and nothing behind it
\* (document.rs: "Nothing follows it").
THEOREM DocumentIsAHandle == Spec => IsAHandle
  <1>1. Init => Handle!Init
    BY DEF Init, Handle!Init
  <1>2. DInv /\ [Next]_vars => [Handle!Next]_(Handle!vars)
    <2> SUFFICES ASSUME DInv, [Next]_vars PROVE [Handle!Next]_(Handle!vars)
      OBVIOUS
    <2> USE DEF objectVars, replicaVars, askVars, scriptVars
    <2>1. ASSUME UNCHANGED <<document, deferred, ended>> PROVE UNCHANGED Handle!vars
      BY <2>1 DEF Handle!vars
    <2>2. CASE Spawn
      <3>1. Handle!Begin
        BY <2>2 DEF Spawn, Handle!Begin
      <3> QED
        BY <3>1 DEF Handle!Next
    <2>3. CASE Drain
      BY <2>3, DrainIsAFrame DEF Handle!Next
    <2>4. CASE Emit
      BY <2>4, EmitIsAnEmit DEF Handle!Next
    <2>5. CASE Close
      <3>1. Handle!LetGo
        BY <2>5 DEF Close, Handle!LetGo
      <3> QED
        BY <3>1 DEF Handle!Next
    <2>6. CASE Release
      <3>1. Handle!Release
        BY <2>6 DEF Release, Handle!Release
      <3> QED
        BY <3>1 DEF Handle!Next
    <2>7. CASE CommandAny \/ Open \/ TakeCommand \/ Write \/ Pick \/ Answer \/ Inform \/ ApplyFails
                 \/ UNCHANGED vars
      BY <2>1, <2>7 DEF CommandAny, Command, Open, TakeCommand, Write, Pick, Answer, Inform, ApplyFails,
         vars
    <2>8. CASE Report \/ UpdatesEnd \/ CommandsClosed \/ Closed \/ RemoteInsertAny \/ ContentArrivesAny
                 \/ RuntimeStops
      BY <2>1, <2>8, ZenonT(30) DEF Report, UpdatesEnd, CommandsClosed, Closed, RemoteInsertAny, RemoteInsert,
         ContentArrivesAny, ContentArrives, RuntimeStops
    <2> QED
      BY <2>2, <2>3, <2>4, <2>5, <2>6, <2>7, <2>8 DEF Next
  <1> QED
    BY <1>1, <1>2, DocumentInvariant, PTL DEF Spec, IsAHandle, Handle!Safety
=============================================================================
