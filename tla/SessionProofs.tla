--------------------------- MODULE SessionProofs ---------------------------
(***************************************************************************)
(* Proofs about Session, for any number of clients: type correctness, the  *)
(* agreement of every client's roster with the host's, that no peer        *)
(* reported gone comes back, that ids are not shared, and that a packet    *)
(* reaches only whom it was sent to; and about Datagrams, one channel of   *)
(* one of its links, for every modulus and any number of packets: ordered  *)
(* delivery until half the sequence numbers are used, and no fresh         *)
(* datagram taken for stale across wraps.  The two modules share no state. *)
(***************************************************************************)
EXTENDS Session, Datagrams, TLAPS

----------------------------------------------------------------------------
(* Sequences. *)

\* Appending to a queue (a control frame written to a link's stream) keeps
\* what was in it and puts the new message last.
LEMMA AppendFacts ==
    ASSUME NEW S, NEW q \in Seq(S), NEW m \in S
    PROVE  /\ Append(q, m) \in Seq(S)
           /\ Len(q) \in Nat
           /\ DOMAIN q = 1 .. Len(q)
           /\ DOMAIN Append(q, m) = 1 .. Len(q) + 1
           /\ \A k \in 1 .. Len(q) : Append(q, m)[k] = q[k]
           /\ Append(q, m)[Len(q) + 1] = m
  OBVIOUS

\* Taking the head of a queue (a frame read, a message applied) shifts the
\* rest down by one.
LEMMA TailFacts ==
    ASSUME NEW S, NEW q \in Seq(S), q # <<>>
    PROVE  /\ Head(q) \in S
           /\ Head(q) = q[1]
           /\ Tail(q) \in Seq(S)
           /\ Len(q) \in Nat \ {0}
           /\ DOMAIN q = 1 .. Len(q)
           /\ DOMAIN Tail(q) = 1 .. Len(q) - 1
           /\ \A k \in 1 .. Len(q) - 1 : Tail(q)[k] = q[k + 1]
  OBVIOUS

----------------------------------------------------------------------------
(* What each queue operation does to the agreement about one peer. *)

\* control_to: a message that mentions p settles what is on its way about p,
\* any other leaves it.
LEMMA AgreeAppend ==
    ASSUME NEW w \in Seq(Control), NEW i \in Seq(Control \cup {Lost}),
           NEW view, NEW roster, NEW roster2, NEW p, NEW m \in Control,
           Agree(w, i, view, roster, p),
           Mentions(m, p) => (p \in roster2 <=> SaysIn(m, p)),
           ~Mentions(m, p) => (p \in roster2 <=> p \in roster)
    PROVE  Agree(Append(w, m), i, view, roster2, p)
  <1> DEFINE a == Append(w, m)
  <1>1. /\ Len(w) \in Nat
        /\ DOMAIN w = 1 .. Len(w)
        /\ DOMAIN a = 1 .. Len(w) + 1
        /\ \A k \in 1 .. Len(w) : a[k] = w[k]
        /\ a[Len(w) + 1] = m
    BY AppendFacts
  <1> HIDE DEF a
  <1>2. CASE Mentions(m, p)
    <2>1. ~Silent(a, p)
      BY <1>1, <1>2 DEF Silent
    <2>2. ASSUME NEW k \in DOMAIN a, LastWord(a, p, k)
          PROVE  k = Len(w) + 1
      BY <1>1, <1>2, <2>2 DEF LastWord
    <2> QED
      BY <1>1, <1>2, <2>1, <2>2 DEF Agree, a
  <1>3. CASE ~Mentions(m, p)
    <2>1. Silent(a, p) <=> Silent(w, p)
      BY <1>1, <1>3 DEF Silent
    <2>2. ASSUME NEW k \in DOMAIN a, LastWord(a, p, k)
          PROVE  k \in DOMAIN w /\ a[k] = w[k] /\ LastWord(w, p, k)
      BY <1>1, <1>3, <2>2 DEF LastWord
    <2> QED
      BY <1>1, <1>3, <2>1, <2>2 DEF Agree, a
  <1> QED
    BY <1>2, <1>3

\* read_stream: moving the head of the stream to the end of `internal` keeps
\* the order of what is on its way.
LEMMA AgreeMove ==
    ASSUME NEW w \in Seq(Control), NEW i \in Seq(Control \cup {Lost}),
           NEW view, NEW roster, NEW p, w # <<>>,
           Agree(w, i, view, roster, p)
    PROVE  Agree(Tail(w), Append(i, Head(w)), view, roster, p)
  <1> DEFINE a == Append(i, Head(w))
             t == Tail(w)
  <1>1. /\ Head(w) = w[1]
        /\ Head(w) \in Control
        /\ Len(w) \in Nat \ {0}
        /\ DOMAIN w = 1 .. Len(w)
        /\ DOMAIN t = 1 .. Len(w) - 1
        /\ \A k \in 1 .. Len(w) - 1 : t[k] = w[k + 1]
    BY TailFacts
  <1>2. /\ Len(i) \in Nat
        /\ DOMAIN i = 1 .. Len(i)
        /\ DOMAIN a = 1 .. Len(i) + 1
        /\ \A k \in 1 .. Len(i) : a[k] = i[k]
        /\ a[Len(i) + 1] = w[1]
    BY <1>1, AppendFacts
  <1> HIDE DEF a, t
  <1>3. ASSUME NEW k \in DOMAIN t, LastWord(t, p, k)
        PROVE  k + 1 \in DOMAIN w /\ t[k] = w[k + 1] /\ LastWord(w, p, k + 1)
    <2>1. k + 1 \in DOMAIN w /\ t[k] = w[k + 1]
      BY <1>1
    <2>2. ASSUME NEW j \in DOMAIN w, j > k + 1 PROVE ~Mentions(w[j], p)
      <3>1. j - 1 \in DOMAIN t /\ j - 1 > k /\ t[j - 1] = w[j]
        BY <1>1, <2>2
      <3> QED
        BY <3>1, <1>3 DEF LastWord
    <2> QED
      BY <2>1, <2>2, <1>3 DEF LastWord
  <1>4. ASSUME Silent(t, p)
        PROVE  \A j \in DOMAIN w : j > 1 => ~Mentions(w[j], p)
    <2> SUFFICES ASSUME NEW j \in DOMAIN w, j > 1 PROVE ~Mentions(w[j], p)
      OBVIOUS
    <2>1. j - 1 \in DOMAIN t /\ t[j - 1] = w[j]
      BY <1>1
    <2> QED
      BY <2>1, <1>4 DEF Silent
  <1>5. CASE Mentions(w[1], p)
    <2>1. ~Silent(a, p)
      BY <1>2, <1>5 DEF Silent
    <2>2. ASSUME NEW k \in DOMAIN a, LastWord(a, p, k) PROVE k = Len(i) + 1
      BY <1>2, <1>5, <2>2 DEF LastWord
    <2>3. Silent(t, p) => LastWord(w, p, 1)
      BY <1>1, <1>4, <1>5 DEF LastWord
    <2>4. Silent(t, p) => (p \in roster <=> SaysIn(w[1], p))
      BY <2>3, <1>1 DEF Agree
    <2> QED
      BY <1>2, <1>3, <2>1, <2>2, <2>4 DEF Agree, a, t
  <1>6. CASE ~Mentions(w[1], p)
    <2>1. Silent(t, p) => Silent(w, p)
      BY <1>1, <1>4, <1>6 DEF Silent
    <2>2. Silent(a, p) => Silent(i, p)
      BY <1>2, <1>6 DEF Silent
    <2>3. ASSUME NEW k \in DOMAIN a, LastWord(a, p, k)
          PROVE  k \in DOMAIN i /\ a[k] = i[k] /\ LastWord(i, p, k)
      BY <1>2, <1>6, <2>3 DEF LastWord
    <2> QED
      BY <1>3, <2>1, <2>2, <2>3 DEF Agree, a, t
  <1> QED
    BY <1>5, <1>6

\* State::apply: taking the head of `internal` and changing the view of p the
\* way it says.
LEMMA AgreeApply ==
    ASSUME NEW w \in Seq(Control), NEW i \in Seq(Control \cup {Lost}),
           NEW view, NEW view2, NEW roster, NEW p, i # <<>>,
           Agree(w, i, view, roster, p),
           Mentions(Head(i), p) => (p \in view2 <=> SaysIn(Head(i), p)),
           ~Mentions(Head(i), p) => (p \in view2 <=> p \in view)
    PROVE  Agree(w, Tail(i), view2, roster, p)
  <1> DEFINE t == Tail(i)
  <1>1. /\ Head(i) = i[1]
        /\ Len(i) \in Nat \ {0}
        /\ DOMAIN i = 1 .. Len(i)
        /\ DOMAIN t = 1 .. Len(i) - 1
        /\ \A k \in 1 .. Len(i) - 1 : t[k] = i[k + 1]
    BY TailFacts
  <1> HIDE DEF t
  <1>2. ASSUME NEW k \in DOMAIN t, LastWord(t, p, k)
        PROVE  k + 1 \in DOMAIN i /\ t[k] = i[k + 1] /\ LastWord(i, p, k + 1)
    <2>1. k + 1 \in DOMAIN i /\ t[k] = i[k + 1]
      BY <1>1
    <2>2. ASSUME NEW j \in DOMAIN i, j > k + 1 PROVE ~Mentions(i[j], p)
      <3>1. j - 1 \in DOMAIN t /\ j - 1 > k /\ t[j - 1] = i[j]
        BY <1>1, <2>2
      <3> QED
        BY <3>1, <1>2 DEF LastWord
    <2> QED
      BY <2>1, <2>2, <1>2 DEF LastWord
  <1>3. ASSUME Silent(t, p)
        PROVE  \A j \in DOMAIN i : j > 1 => ~Mentions(i[j], p)
    <2> SUFFICES ASSUME NEW j \in DOMAIN i, j > 1 PROVE ~Mentions(i[j], p)
      OBVIOUS
    <2>1. j - 1 \in DOMAIN t /\ t[j - 1] = i[j]
      BY <1>1
    <2> QED
      BY <2>1, <1>3 DEF Silent
  <1>4. CASE Mentions(i[1], p)
    <2>1. Silent(t, p) => LastWord(i, p, 1)
      BY <1>1, <1>3, <1>4 DEF LastWord
    <2>2. Silent(w, p) /\ Silent(t, p) => (p \in roster <=> SaysIn(i[1], p))
      BY <2>1, <1>1 DEF Agree
    <2> QED
      BY <1>1, <1>2, <1>4, <2>2 DEF Agree, t
  <1>5. CASE ~Mentions(i[1], p)
    <2>1. Silent(t, p) => Silent(i, p)
      BY <1>1, <1>3, <1>5 DEF Silent
    <2> QED
      BY <1>1, <1>2, <1>5, <2>1 DEF Agree, t
  <1> QED
    BY <1>4, <1>5

----------------------------------------------------------------------------
(* Type correctness. *)

\* The ids of the host's links are ids it handed out.
LEMMA LinkIdsType ==
    ASSUME TypeOK, \A c \in links : peer[c] # 0
    PROVE  LinkIds \in SUBSET Ids
  BY MaxIdAssumption DEF TypeOK, LinkIds, Ids, HOST_ID

\* Control messages built by welcome and lost are control messages.
LEMMA ControlTypes ==
    ASSUME NEW id \in Ids, NEW ps \in SUBSET Ids
    PROVE  Welcome(id, ps) \in Control /\ PeerJoined(id) \in Control /\ PeerLeft(id) \in Control
  BY DEF Welcome, PeerJoined, PeerLeft, Control

\* The type of the session's state with the one fact its induction needs: a
\* link carries an id.
TInv == TypeOK /\ \A c \in links : peer[c] # 0

\* The initial state is well typed.
LEMMA TypeInit == Init => TInv
  <1> SUFFICES ASSUME Init PROVE TInv
    OBVIOUS
  <1> QED
    BY MaxIdAssumption, MaxSendsAssumption, HostAssumption
    DEF Init, TInv, TypeOK, Nodes, Ids, HOST_ID, FIRST_CLIENT_ID, ConnEnd

\* Every step of the session keeps its state well typed.
LEMMA TypeStep == TInv /\ [Next]_vars => TInv'
  <1> SUFFICES ASSUME TInv, [Next]_vars PROVE TInv'
    OBVIOUS
  <1> USE MaxIdAssumption, MaxSendsAssumption, HostAssumption
  <1> USE DEF TInv, TypeOK, vars, hostVars, endVars, viewVars, dataVars
  <1>0. Host \in Nodes /\ Clients \subseteq Nodes /\ HOST_ID \in Ids
    BY DEF Nodes, Ids, HOST_ID, FIRST_CLIENT_ID
  <1>a. LinkIds \in SUBSET Ids
    BY LinkIdsType
  <1>1. ASSUME NEW c \in Clients, DialFails(c) PROVE TInv'
    BY <1>0, <1>1 DEF DialFails
  <1>2. ASSUME NEW c \in Clients, Connect(c) PROVE TInv'
    BY <1>0, <1>2 DEF Connect, ConnEnd
  <1>3. ASSUME NEW c \in Clients, HostAccept(c) PROVE TInv'
    <2>1. next_id \in Ids /\ next_id # 0
      BY <1>3 DEF HostAccept, Ids, HOST_ID, FIRST_CLIENT_ID
    <2>2. wire' \in [Clients -> Seq(Control)]
      <3>1. Welcome(next_id, LinkIds) \in Control /\ PeerJoined(next_id) \in Control
        BY <1>a, <2>1, ControlTypes
      <3>2. \A d \in Clients : /\ Append(wire[d], Welcome(next_id, LinkIds)) \in Seq(Control)
                               /\ Append(wire[d], PeerJoined(next_id)) \in Seq(Control)
        BY <3>1
      <3> QED
        BY <1>3, <3>2 DEF HostAccept, ControlTo
    <2>3. announced' \in [Nodes -> SUBSET Ids]
      BY <1>0, <1>3, <2>1 DEF HostAccept, Announce
    <2>4. next_id' \in FIRST_CLIENT_ID .. MaxId + 1
      BY <1>3 DEF HostAccept, FIRST_CLIENT_ID
    <2>5. peer' \in [Clients -> 0 .. MaxId] /\ \A d \in links' : peer'[d] # 0
      BY <1>3, <2>1 DEF HostAccept, Ids, HOST_ID
    <2> QED
      BY <1>3, <2>2, <2>3, <2>4, <2>5 DEF HostAccept
  <1>4. ASSUME NEW c \in Clients, ReadControl(c) PROVE TInv'
    <2>1. Head(wire[c]) \in Control /\ Tail(wire[c]) \in Seq(Control)
      BY <1>4 DEF ReadControl
    <2>2. Append(internal[c], Head(wire[c])) \in Seq(Control \cup {Lost})
      BY <2>1
    <2> QED
      BY <1>4, <2>1, <2>2 DEF ReadControl
  <1>5. ASSUME NEW c \in Clients, ClientWatch(c) PROVE TInv'
    <2>1. Append(internal[c], Lost) \in Seq(Control \cup {Lost})
      OBVIOUS
    <2> QED
      BY <1>5, <2>1 DEF ClientWatch, ConnEnd
  <1>6. ASSUME NEW c \in Clients, ApplyControl(c) PROVE TInv'
    <2> DEFINE msg == Head(internal[c])
    <2>1. msg \in Control \cup {Lost} /\ Tail(internal[c]) \in Seq(Control \cup {Lost})
      BY <1>6 DEF ApplyControl
    <2>2. /\ msg.kind = "Welcome" => msg.your_id \in Ids /\ msg.peers \in SUBSET Ids
          /\ msg.kind = "PeerJoined" => msg.id \in Ids
          /\ msg.kind = "PeerLeft" => msg.id \in Ids
      BY <2>1 DEF Control, Lost
    <2> HIDE DEF msg
    <2>3. CASE /\ msg.kind = "Welcome"
               /\ ready' = [ready EXCEPT ![c] = msg.your_id]
               /\ Announce(c, {HOST_ID} \cup msg.peers)
               /\ UNCHANGED gone
      <3>1. announced' \in [Nodes -> SUBSET Ids] /\ ready' \in [Nodes -> 0 .. MaxId]
        BY <1>0, <2>2, <2>3 DEF Announce, Ids, HOST_ID
      <3> QED
        BY <1>6, <2>1, <2>3, <3>1 DEF ApplyControl
    <2>4. CASE /\ msg.kind = "PeerJoined"
               /\ Announce(c, {msg.id})
               /\ UNCHANGED <<ready, gone>>
      <3>1. announced' \in [Nodes -> SUBSET Ids]
        BY <1>0, <2>2, <2>4 DEF Announce
      <3> QED
        BY <1>6, <2>1, <2>4, <3>1 DEF ApplyControl
    <2>5. CASE /\ msg.kind = "PeerLeft"
               /\ Forget(c, msg.id)
               /\ UNCHANGED ready
      <3>1. announced' \in [Nodes -> SUBSET Ids] /\ gone' \in [Nodes -> SUBSET Ids]
        BY <1>0, <2>2, <2>5 DEF Forget
      <3> QED
        BY <1>6, <2>1, <2>5, <3>1 DEF ApplyControl
    <2> QED
      BY <1>6, <2>3, <2>4, <2>5 DEF ApplyControl, msg
  <1>7. ASSUME NEW c \in Clients, ClientLost(c) PROVE TInv'
    <2>1. Tail(internal[c]) \in Seq(Control \cup {Lost})
      BY <1>7 DEF ClientLost
    <2>2. announced' \in [Nodes -> SUBSET Ids] /\ gone' \in [Nodes -> SUBSET Ids]
      BY <1>0, <1>7 DEF ClientLost, Forget
    <2> QED
      BY <1>0, <1>7, <2>1, <2>2 DEF ClientLost
  <1>8. ASSUME NEW c \in Clients, ClientDisconnect(c) \/ ClientEndCloses(c) PROVE TInv'
    BY <1>8 DEF ClientDisconnect, ClientEndCloses, ConnEnd
  <1>9. ASSUME NEW c \in Clients, ClientClose(c) PROVE TInv'
    BY <1>0, <1>9 DEF ClientClose, Shut, ConnEnd
  <1>10. ASSUME NEW c \in Clients, HostEndCloses(c) \/ HostDisconnect(c) PROVE TInv'
    BY <1>10 DEF HostEndCloses, HostDisconnect, ConnEnd
  <1>11. ASSUME NEW c \in Clients, HostWatch(c) PROVE TInv'
    BY <1>11 DEF HostWatch, ConnEnd
  <1>12. ASSUME NEW c \in Clients, HostLost(c) PROVE TInv'
    <2>1. CASE c \in links
      <3>1. peer[c] \in Ids
        BY <2>1 DEF Ids, HOST_ID
      <3>2. wire' \in [Clients -> Seq(Control)]
        <4>1. PeerLeft(peer[c]) \in Control
          BY <3>1 DEF PeerLeft, Control
        <4>2. \A d \in Clients : Append(wire[d], PeerLeft(peer[c])) \in Seq(Control)
          BY <4>1
        <4>3. wire' = [d \in Clients |-> IF d \in links \ {c}
                                          THEN ControlTo(d, PeerLeft(peer[c]))
                                          ELSE wire[d]]
          BY <1>12, <2>1 DEF HostLost
        <4> QED
          BY <4>2, <4>3 DEF ControlTo
      <3>3. announced' \in [Nodes -> SUBSET Ids] /\ gone' \in [Nodes -> SUBSET Ids]
        <4>1. Forget(Host, peer[c])
          BY <1>12, <2>1 DEF HostLost
        <4> QED
          BY <1>0, <3>1, <4>1 DEF Forget
      <3>4. /\ losses' = losses \ {c} /\ links' = links \ {c}
            /\ UNCHANGED <<task, next_id, offered, peer, hasHost, endVars, internal,
                           ready, closed, dataVars>>
        BY <1>12 DEF HostLost
      <3> QED
        BY <3>2, <3>3, <3>4
    <2>2. CASE c \notin links
      BY <1>12, <2>2 DEF HostLost
    <2> QED
      BY <2>1, <2>2
  <1>13. ASSUME HostClose PROVE TInv'
    BY <1>0, <1>13 DEF HostClose, Shut, ConnEnd
  <1>14. ASSUME NEW t \in Targets, HostSend(t) PROVE TInv'
    <2>1. [from |-> Host, to |-> t] \in Packet
      BY <1>0 DEF Packet
    <2>2. \A d \in Clients : Append(down[d], [from |-> Host, to |-> t]) \in Seq(Packet)
      BY <2>1
    <2>3. down' \in [Clients -> Seq(Packet)]
      BY <1>14, <2>2 DEF HostSend
    <2> QED
      BY <1>14, <2>3 DEF HostSend
  <1>15. ASSUME NEW c \in Clients, NEW t \in Targets, ClientSend(c, t) PROVE TInv'
    <2>1. [from |-> c, to |-> t] \in Packet
      BY <1>0 DEF Packet
    <2>2. Append(up[c], [from |-> c, to |-> t]) \in Seq(Packet)
      BY <2>1
    <2>3. up' \in [Clients -> Seq(Packet)]
      BY <1>15, <2>2 DEF ClientSend
    <2> QED
      BY <1>15, <2>3, SMTT(30) DEF ClientSend
  <1>16. ASSUME NEW c \in Clients, ClientDeliver(c) PROVE TInv'
    <2>1. Head(down[c]) \in Packet /\ Tail(down[c]) \in Seq(Packet)
      BY <1>16 DEF ClientDeliver
    <2>2. [pkt |-> Head(down[c]), peer |-> HOST_ID, known |-> HOST_ID \in announced[c]]
             \in [pkt : Packet, peer : 0 .. MaxId, known : BOOLEAN]
      BY <2>1 DEF HOST_ID, FIRST_CLIENT_ID
    <2>3. delivered' \in [Nodes -> SUBSET [pkt : Packet, peer : 0 .. MaxId, known : BOOLEAN]]
      BY <1>0, <1>16, <2>2 DEF ClientDeliver, Deliver
    <2> QED
      BY <1>16, <2>1, <2>3 DEF ClientDeliver
  <1>17. ASSUME NEW c \in Clients, HostDeliver(c) PROVE TInv'
    <2>1. Head(up[c]) \in Packet /\ Tail(up[c]) \in Seq(Packet)
      BY <1>17 DEF HostDeliver
    <2>2. [pkt |-> Head(up[c]), peer |-> peer[c], known |-> peer[c] \in announced[Host]]
             \in [pkt : Packet, peer : 0 .. MaxId, known : BOOLEAN]
      BY <2>1
    <2>3. delivered' \in [Nodes -> SUBSET [pkt : Packet, peer : 0 .. MaxId, known : BOOLEAN]]
      BY <1>0, <1>17, <2>2 DEF HostDeliver, Deliver
    <2> QED
      BY <1>17, <2>1, <2>3 DEF HostDeliver
  <1>18. CASE UNCHANGED vars
    BY <1>18
  <1> QED
    BY <1>1, <1>2, <1>3, <1>4, <1>5, <1>6, <1>7, <1>8, <1>9, <1>10, <1>11, <1>12,
       <1>13, <1>14, <1>15, <1>16, <1>17, <1>18 DEF Next

\* Every reachable state of the session is well typed.
THEOREM TypeCorrect == Spec => []TypeOK
  <1>1. TInv => TypeOK
    BY DEF TInv
  <1> QED
    BY <1>1, TypeInit, TypeStep, PTL DEF Spec

----------------------------------------------------------------------------
(* The inductive invariant behind ViewsAgree, NoReturn and IdsAgree. *)

\* Where a client's connection stands: nothing has reached a client the host
\* has not accepted, an open client end has a running task behind it, and a
\* loss on its way to the host's task is of a closed end.
StageOK(c) ==
    /\ task[c] = "dialling" => /\ hostEnd[c] = "none" /\ clientEnd[c] = "none"
                               /\ c \notin offered /\ peer[c] = 0
    /\ clientEnd[c] = "open" => task[c] = "running"
    /\ c \in offered => peer[c] = 0
    /\ c \in links => peer[c] # 0
    /\ c \in losses => hostEnd[c] = "reported"
    /\ peer[c] = 0 => /\ wire[c] = <<>> /\ announced[c] = {} /\ gone[c] = {}
                      /\ ready[c] = 0
                      /\ \A k \in DOMAIN internal[c] : internal[c][k] = Lost

\* The host hands out each id once, from FIRST_CLIENT_ID up to next_id.
GivenIds == FIRST_CLIENT_ID .. next_id - 1
IdsOK ==
    /\ \A c \in Clients : peer[c] # 0 => peer[c] \in GivenIds
    /\ \A c, d \in Clients : peer[c] = peer[d] /\ peer[c] # 0 => c = d
    /\ \A n \in Nodes : announced[n] \cup gone[n] \subseteq {HOST_ID} \cup GivenIds
    /\ \A c \in Clients : ready[c] \in {0, peer[c]}

\* A message to c names c's own id in Welcome, and ids handed out elsewhere.
MsgOK(c, m) ==
    /\ m.kind = "Welcome" => m.your_id = peer[c] /\ m.peers \subseteq GivenIds
    /\ m.kind \in {"PeerJoined", "PeerLeft"} => m.id \in GivenIds

\* b may not follow a: a second Welcome, or a peer that is in after it left.
Clash(a, b) ==
    \/ a.kind = "Welcome" /\ b.kind = "Welcome"
    \/ \E p \in Ids : SaysOut(a, p) /\ SaysIn(b, p)

Orderly(w, i) ==
    /\ \A j, k \in DOMAIN w : j < k => ~Clash(w[j], w[k])
    /\ \A j, k \in DOMAIN i : j < k => ~Clash(i[j], i[k])
    /\ \A j \in DOMAIN i, k \in DOMAIN w : ~Clash(i[j], w[k])

\* m comes too late for a view: it would announce again what is known or gone.
Late(m, view, dead) ==
    \/ m.kind = "Welcome" /\ HOST_ID \in view \cup dead
    \/ \E p \in dead : SaysIn(m, p)

QueueOK(c) ==
    /\ \A k \in DOMAIN wire[c] : MsgOK(c, wire[c][k]) /\ ~Late(wire[c][k], announced[c], gone[c])
    /\ \A k \in DOMAIN internal[c] :
         MsgOK(c, internal[c][k]) /\ ~Late(internal[c][k], announced[c], gone[c])
    /\ Orderly(wire[c], internal[c])

IInv ==
    /\ TInv
    /\ \A c \in Clients : StageOK(c)
    /\ IdsOK
    /\ \A c \in Clients : QueueOK(c)
    /\ NoReturn
    /\ ViewsAgree

----------------------------------------------------------------------------
(* What each queue operation does to the order of what is on its way. *)

\* control_to keeps a queue orderly if the new message may follow all of it.
LEMMA OrderlyAppend ==
    ASSUME NEW w \in Seq(Control), NEW i \in Seq(Control \cup {Lost}), NEW m \in Control,
           Orderly(w, i),
           \A k \in DOMAIN w : ~Clash(w[k], m),
           \A k \in DOMAIN i : ~Clash(i[k], m)
    PROVE  Orderly(Append(w, m), i)
  <1> DEFINE a == Append(w, m)
  <1>1. /\ Len(w) \in Nat
        /\ DOMAIN w = 1 .. Len(w)
        /\ DOMAIN a = 1 .. Len(w) + 1
        /\ \A k \in 1 .. Len(w) : a[k] = w[k]
        /\ a[Len(w) + 1] = m
    BY AppendFacts
  <1> HIDE DEF a
  <1>2. \A j, k \in DOMAIN a : j < k => j \in DOMAIN w /\ a[j] = w[j]
    BY <1>1
  <1>3. \A k \in DOMAIN a : (k \in DOMAIN w /\ a[k] = w[k]) \/ a[k] = m
    BY <1>1
  <1>4. \A j, k \in DOMAIN a : j < k => ~Clash(a[j], a[k])
    BY <1>2, <1>3 DEF Orderly
  <1>5. \A j \in DOMAIN i, k \in DOMAIN a : ~Clash(i[j], a[k])
    BY <1>3 DEF Orderly
  <1> QED
    BY <1>4, <1>5 DEF Orderly, a

\* The close watcher's Lost may follow anything, and anything may follow it.
LEMMA OrderlyLost ==
    ASSUME NEW w \in Seq(Control), NEW i \in Seq(Control \cup {Lost}), Orderly(w, i)
    PROVE  Orderly(w, Append(i, Lost))
  <1> DEFINE a == Append(i, Lost)
  <1>1. /\ Len(i) \in Nat
        /\ DOMAIN i = 1 .. Len(i)
        /\ DOMAIN a = 1 .. Len(i) + 1
        /\ \A k \in 1 .. Len(i) : a[k] = i[k]
        /\ a[Len(i) + 1] = Lost
    BY AppendFacts
  <1> HIDE DEF a
  <1>2. \A x : ~Clash(x, Lost) /\ ~Clash(Lost, x)
    BY DEF Clash, Lost, SaysIn, SaysOut
  <1>3. \A j, k \in DOMAIN a : j < k => j \in DOMAIN i /\ a[j] = i[j]
    BY <1>1
  <1>4. \A k \in DOMAIN a : (k \in DOMAIN i /\ a[k] = i[k]) \/ a[k] = Lost
    BY <1>1
  <1>5. \A j, k \in DOMAIN a : j < k => ~Clash(a[j], a[k])
    BY <1>2, <1>3, <1>4 DEF Orderly
  <1>6. \A j \in DOMAIN a, k \in DOMAIN w : ~Clash(a[j], w[k])
    BY <1>2, <1>4 DEF Orderly
  <1> QED
    BY <1>5, <1>6 DEF Orderly, a

\* read_stream hands frames on in order.
LEMMA OrderlyMove ==
    ASSUME NEW w \in Seq(Control), NEW i \in Seq(Control \cup {Lost}), w # <<>>,
           Orderly(w, i)
    PROVE  Orderly(Tail(w), Append(i, Head(w)))
  <1> DEFINE a == Append(i, Head(w))
             t == Tail(w)
  <1>1. /\ Head(w) = w[1]
        /\ Head(w) \in Control
        /\ Len(w) \in Nat \ {0}
        /\ DOMAIN w = 1 .. Len(w)
        /\ DOMAIN t = 1 .. Len(w) - 1
        /\ \A k \in 1 .. Len(w) - 1 : t[k] = w[k + 1]
    BY TailFacts
  <1>2. /\ Len(i) \in Nat
        /\ DOMAIN i = 1 .. Len(i)
        /\ DOMAIN a = 1 .. Len(i) + 1
        /\ \A k \in 1 .. Len(i) : a[k] = i[k]
        /\ a[Len(i) + 1] = w[1]
    BY <1>1, AppendFacts
  <1> HIDE DEF a, t
  <1>3. \A j, k \in DOMAIN a : j < k => j \in DOMAIN i /\ a[j] = i[j]
    BY <1>2
  <1>4. \A k \in DOMAIN a : (k \in DOMAIN i /\ a[k] = i[k]) \/ a[k] = w[1]
    BY <1>2
  <1>5. \A k \in DOMAIN t : 1 \in DOMAIN w /\ k + 1 \in DOMAIN w /\ 1 < k + 1 /\ t[k] = w[k + 1]
    BY <1>1
  <1>6. \A j, k \in DOMAIN t : j < k => j + 1 < k + 1
    BY <1>1
  <1>7. \A j, k \in DOMAIN t : j < k => ~Clash(t[j], t[k])
    BY <1>5, <1>6 DEF Orderly
  <1>8. 1 \in DOMAIN w
    BY <1>1
  <1>9. \A j, k \in DOMAIN a : j < k => ~Clash(a[j], a[k])
    BY <1>3, <1>4, <1>8 DEF Orderly
  <1>10. \A j \in DOMAIN a, k \in DOMAIN t : ~Clash(a[j], t[k])
    BY <1>4, <1>5 DEF Orderly
  <1> QED
    BY <1>7, <1>9, <1>10 DEF Orderly, a, t

\* The message a client takes from `internal` may be followed by all the rest.
LEMMA OrderlyTail ==
    ASSUME NEW w \in Seq(Control), NEW i \in Seq(Control \cup {Lost}), i # <<>>,
           Orderly(w, i)
    PROVE  /\ Orderly(w, Tail(i))
           /\ \A k \in DOMAIN Tail(i) : ~Clash(Head(i), Tail(i)[k])
           /\ \A k \in DOMAIN w : ~Clash(Head(i), w[k])
           /\ \A k \in DOMAIN Tail(i) : \E j \in DOMAIN i : Tail(i)[k] = i[j]
  <1> DEFINE t == Tail(i)
  <1>1. /\ Head(i) = i[1]
        /\ Len(i) \in Nat \ {0}
        /\ DOMAIN i = 1 .. Len(i)
        /\ DOMAIN t = 1 .. Len(i) - 1
        /\ \A k \in 1 .. Len(i) - 1 : t[k] = i[k + 1]
    BY TailFacts
  <1> HIDE DEF t
  <1>2. \A k \in DOMAIN t : k + 1 \in DOMAIN i /\ 1 < k + 1 /\ t[k] = i[k + 1]
    BY <1>1
  <1>3. 1 \in DOMAIN i
    BY <1>1
  <1>4. \A j, k \in DOMAIN t : j < k => j + 1 < k + 1
    BY <1>1
  <1>5. \A j, k \in DOMAIN t : j < k => ~Clash(t[j], t[k])
    BY <1>2, <1>4 DEF Orderly
  <1>6. \A j \in DOMAIN t, k \in DOMAIN w : ~Clash(t[j], w[k])
    BY <1>2 DEF Orderly
  <1>7. Orderly(w, t)
    BY <1>5, <1>6 DEF Orderly
  <1>8. \A k \in DOMAIN t : ~Clash(i[1], t[k])
    BY <1>2, <1>3 DEF Orderly
  <1>9. \A k \in DOMAIN w : ~Clash(i[1], w[k])
    BY <1>3 DEF Orderly
  <1> QED
    BY <1>1, <1>2, <1>7, <1>8, <1>9 DEF t

----------------------------------------------------------------------------
(* The induction. *)

\* The initial state satisfies the invariant.
LEMMA InvInit == Init => IInv
  <1> SUFFICES ASSUME Init PROVE IInv
    OBVIOUS
  <1>1. TInv
    BY TypeInit
  <1>2. ASSUME NEW c \in Clients PROVE StageOK(c)
    <2>1. c \in Nodes /\ c # Host
      BY HostAssumption DEF Nodes
    <2>2. wire[c] = <<>> /\ internal[c] = <<>> /\ DOMAIN <<>> = {}
      BY DEF Init
    <2> QED
      BY <2>1, <2>2 DEF Init, StageOK
  <1>3. IdsOK
    BY HostAssumption DEF Init, IdsOK, Nodes
  <1>4. ASSUME NEW c \in Clients PROVE QueueOK(c)
    <2>1. wire[c] = <<>> /\ internal[c] = <<>> /\ DOMAIN <<>> = {}
      BY DEF Init
    <2> QED
      BY <2>1 DEF QueueOK, Orderly
  <1>5. NoReturn /\ ViewsAgree
    BY DEF Init, NoReturn, ViewsAgree
  <1> QED
    BY <1>1, <1>2, <1>3, <1>4, <1>5 DEF IInv

\* A step that leaves ids, links, views and queues alone, and opens no link,
\* keeps everything the invariant says of them.
LEMMA Frame ==
    ASSUME IInv, UNCHANGED <<next_id, links, peer, wire, internal, announced, gone, ready>>,
           \A c \in links : Carries(c)' => Carries(c)
    PROVE  IdsOK' /\ (\A c \in Clients : QueueOK(c)') /\ NoReturn' /\ ViewsAgree'
  <1>1. IdsOK'
    BY DEF IInv, IdsOK, GivenIds
  <1>2. \A c \in Clients : QueueOK(c)'
    BY DEF IInv, QueueOK, MsgOK, GivenIds
  <1>3. NoReturn'
    BY DEF IInv, NoReturn
  <1>4. ViewsAgree'
    BY DEF IInv, ViewsAgree, LinkIds
  <1> QED
    BY <1>1, <1>2, <1>3, <1>4

\* The steps that only move tasks, connection ends and packets.
LEMMA PlainSteps ==
    ASSUME IInv,
           \/ UNCHANGED vars
           \/ \E t \in Targets : HostSend(t)
           \/ \E c \in Clients :
                \/ DialFails(c) \/ ClientDisconnect(c) \/ ClientEndCloses(c)
                \/ HostEndCloses(c) \/ HostDisconnect(c) \/ HostWatch(c)
                \/ ClientDeliver(c) \/ HostDeliver(c)
                \/ \E t \in Targets : ClientSend(c, t)
    PROVE  /\ \A c \in Clients : StageOK(c)'
           /\ IdsOK' /\ (\A c \in Clients : QueueOK(c)') /\ NoReturn' /\ ViewsAgree'
  <1> USE DEF vars, hostVars, endVars, viewVars, dataVars
  <1>t. TypeOK /\ \A c \in Clients : StageOK(c)
    BY DEF IInv, TInv
  <1>n. Clients \subseteq Nodes
    BY DEF Nodes
  <1>1. CASE UNCHANGED vars \/ \E t \in Targets : HostSend(t)
    <2>1. UNCHANGED <<task, hostVars, hasHost, endVars, wire, internal, viewVars>>
      BY <1>1 DEF HostSend
    <2>2. \A c \in Clients : StageOK(c)'
      BY <1>t, <2>1 DEF StageOK
    <2> QED
      BY <2>1, <2>2, Frame DEF Carries
  <1>2. ASSUME NEW c \in Clients,
               \/ ClientDeliver(c) \/ HostDeliver(c) \/ \E t \in Targets : ClientSend(c, t)
        PROVE  /\ \A d \in Clients : StageOK(d)'
               /\ IdsOK' /\ (\A d \in Clients : QueueOK(d)') /\ NoReturn' /\ ViewsAgree'
    <2>1. UNCHANGED <<task, hostVars, hasHost, endVars, wire, internal, viewVars>>
      BY <1>2 DEF ClientDeliver, HostDeliver, ClientSend
    <2>2. \A d \in Clients : StageOK(d)'
      BY <1>t, <2>1 DEF StageOK
    <2> QED
      BY <2>1, <2>2, Frame DEF Carries
  <1>3. ASSUME NEW c \in Clients, DialFails(c)
        PROVE  /\ \A d \in Clients : StageOK(d)'
               /\ IdsOK' /\ (\A d \in Clients : QueueOK(d)') /\ NoReturn' /\ ViewsAgree'
    <2>1. \A d \in Clients : StageOK(d)'
      BY <1>t, <1>n, <1>3 DEF StageOK, DialFails, TypeOK
    <2> QED
      BY <1>3, <2>1, Frame DEF DialFails, Carries
  <1>4. ASSUME NEW c \in Clients, ClientDisconnect(c) \/ ClientEndCloses(c)
        PROVE  /\ \A d \in Clients : StageOK(d)'
               /\ IdsOK' /\ (\A d \in Clients : QueueOK(d)') /\ NoReturn' /\ ViewsAgree'
    <2>1. \A d \in Clients : StageOK(d)'
      <3>1. /\ clientEnd[c] = "open"
            /\ clientEnd' = [clientEnd EXCEPT ![c] = "closed"]
            /\ UNCHANGED <<task, hostVars, hostEnd, wire, internal, viewVars>>
        BY <1>4 DEF ClientDisconnect, ClientEndCloses
      <3>2. task[c] # "dialling"
        BY <1>t, <3>1 DEF StageOK
      <3> QED
        BY <1>t, <3>1, <3>2 DEF StageOK, TypeOK
    <2>2. \A d \in Clients : Carries(d)' => Carries(d)
      BY <1>t, <1>4 DEF ClientDisconnect, ClientEndCloses, Carries, TypeOK
    <2> QED
      BY <1>t, <1>4, <2>1, <2>2, Frame DEF ClientDisconnect, ClientEndCloses, TypeOK
  <1>5. ASSUME NEW c \in Clients, HostEndCloses(c) \/ HostDisconnect(c) \/ HostWatch(c)
        PROVE  /\ \A d \in Clients : StageOK(d)'
               /\ IdsOK' /\ (\A d \in Clients : QueueOK(d)') /\ NoReturn' /\ ViewsAgree'
    <2>1. /\ hostEnd[c] \in {"open", "closed"}
          /\ hostEnd' = [hostEnd EXCEPT ![c] = IF hostEnd[c] = "open" THEN "closed" ELSE "reported"]
          /\ losses' = losses \/ (losses' = losses \cup {c} /\ hostEnd[c] = "closed")
          /\ UNCHANGED <<task, next_id, offered, links, peer, clientEnd, wire, internal, viewVars>>
      BY <1>5 DEF HostEndCloses, HostDisconnect, HostWatch
    <2>2. /\ hostEnd'[c] = IF hostEnd[c] = "open" THEN "closed" ELSE "reported"
          /\ \A d \in Clients \ {c} : hostEnd'[d] = hostEnd[d]
      BY <1>t, <2>1 DEF TypeOK
    <2>3. StageOK(c)'
      BY <1>t, <2>1, <2>2 DEF StageOK
    <2>4. \A d \in Clients \ {c} : StageOK(d)'
      BY <1>t, <2>1, <2>2 DEF StageOK
    <2>5. \A d \in Clients : Carries(d)' => Carries(d)
      BY <2>1, <2>2 DEF Carries
    <2> QED
      BY <1>t, <2>1, <2>3, <2>4, <2>5, Frame DEF TypeOK
  <1> QED
    BY <1>1, <1>2, <1>3, <1>4, <1>5

\* Connect opens a connection nothing has been written to.
LEMMA ConnectStep ==
    ASSUME IInv, NEW c \in Clients, Connect(c)
    PROVE  /\ \A d \in Clients : StageOK(d)'
           /\ IdsOK' /\ (\A d \in Clients : QueueOK(d)') /\ NoReturn' /\ ViewsAgree'
  <1> USE DEF vars, hostVars, endVars, viewVars, dataVars
  <1>t. TypeOK /\ (\A d \in Clients : StageOK(d)) /\ Clients \subseteq Nodes
    BY DEF IInv, TInv, Nodes
  <1>1. c \notin links /\ peer[c] = 0 /\ task[c] = "dialling" /\ hostEnd[c] = "none"
    BY <1>t DEF StageOK, Connect
  <1>2. \A d \in links : Carries(d)' => Carries(d)
    BY <1>t, <1>1 DEF Connect, Carries, TypeOK
  <1>3. ASSUME NEW d \in Clients PROVE StageOK(d)'
    <2>1. CASE d = c
      <3>1. task'[c] = "running" /\ clientEnd'[c] = "open" /\ hostEnd'[c] = "open"
        BY <1>t DEF Connect, TypeOK
      <3>2. c \notin losses
        BY <1>t, <1>1 DEF StageOK
      <3> QED
        BY <1>t, <1>1, <2>1, <3>1, <3>2 DEF StageOK, Connect
    <2>2. CASE d # c
      <3>1. task'[d] = task[d] /\ clientEnd'[d] = clientEnd[d] /\ hostEnd'[d] = hostEnd[d]
        BY <1>t, <2>2 DEF Connect, TypeOK
      <3> QED
        BY <1>t, <2>2, <3>1 DEF StageOK, Connect
    <2> QED
      BY <2>1, <2>2
  <1> QED
    BY <1>2, <1>3, Frame DEF Connect

\* ReadControl moves a frame on: queues change for c only, and keep their order.
LEMMA ReadStep ==
    ASSUME IInv, NEW c \in Clients, ReadControl(c)
    PROVE  /\ \A d \in Clients : StageOK(d)'
           /\ IdsOK' /\ (\A d \in Clients : QueueOK(d)') /\ NoReturn' /\ ViewsAgree'
  <1> USE DEF vars, hostVars, endVars, viewVars, dataVars
  <1> DEFINE w == wire[c]
             i == internal[c]
  <1>t. /\ TypeOK /\ (\A d \in Clients : StageOK(d) /\ QueueOK(d)) /\ IdsOK /\ NoReturn /\ ViewsAgree
        /\ Clients \subseteq Nodes
    BY DEF IInv, TInv, Nodes
  <1>w. w \in Seq(Control) /\ i \in Seq(Control \cup {Lost}) /\ w # <<>>
    BY <1>t DEF TypeOK, ReadControl
  <1>1. /\ wire' = [wire EXCEPT ![c] = Tail(w)]
        /\ internal' = [internal EXCEPT ![c] = Append(i, Head(w))]
        /\ UNCHANGED <<task, hostVars, hasHost, endVars, viewVars, dataVars>>
    BY DEF ReadControl
  <1>2. /\ wire'[c] = Tail(w) /\ internal'[c] = Append(i, Head(w))
        /\ \A d \in Clients \ {c} : wire'[d] = wire[d] /\ internal'[d] = internal[d]
    BY <1>t, <1>1 DEF TypeOK
  <1>3. peer[c] # 0
    BY <1>t, <1>w DEF StageOK
  <1>4. \A d \in Clients : StageOK(d)'
    BY <1>t, <1>1, <1>2, <1>3 DEF StageOK
  <1>5. IdsOK' /\ NoReturn'
    BY <1>t, <1>1 DEF IdsOK, NoReturn, GivenIds
  <1>6. QueueOK(c)'
    <2>1. /\ Head(w) = w[1] /\ Head(w) \in Control
          /\ Len(w) \in Nat \ {0}
          /\ DOMAIN w = 1 .. Len(w)
          /\ DOMAIN Tail(w) = 1 .. Len(w) - 1
          /\ \A k \in 1 .. Len(w) - 1 : Tail(w)[k] = w[k + 1]
      BY <1>w, TailFacts
    <2>2. \A k \in DOMAIN Tail(w) : \E j \in DOMAIN w : Tail(w)[k] = w[j]
      BY <2>1
    <2>3. /\ Len(i) \in Nat
          /\ DOMAIN i = 1 .. Len(i)
          /\ DOMAIN Append(i, Head(w)) = 1 .. Len(i) + 1
          /\ \A k \in 1 .. Len(i) : Append(i, Head(w))[k] = i[k]
          /\ Append(i, Head(w))[Len(i) + 1] = Head(w)
      BY <1>w, <2>1, AppendFacts
    <2>4. \A k \in DOMAIN Append(i, Head(w)) :
            \/ Append(i, Head(w))[k] = w[1] /\ 1 \in DOMAIN w
            \/ \E j \in DOMAIN i : Append(i, Head(w))[k] = i[j]
      BY <2>1, <2>3
    <2>5. Orderly(Tail(w), Append(i, Head(w)))
      BY <1>t, <1>w, OrderlyMove DEF QueueOK
    <2> HIDE DEF w, i
    <2>6. \A m : MsgOK(c, m)' <=> MsgOK(c, m)
      BY <1>1 DEF MsgOK, GivenIds
    <2>7. /\ \A k \in DOMAIN w : MsgOK(c, w[k]) /\ ~Late(w[k], announced[c], gone[c])
          /\ \A k \in DOMAIN i : MsgOK(c, i[k]) /\ ~Late(i[k], announced[c], gone[c])
      BY <1>t DEF QueueOK, w, i
    <2>8. announced' = announced /\ gone' = gone
      BY <1>1
    <2> QED
      BY <1>2, <2>2, <2>4, <2>5, <2>6, <2>7, <2>8 DEF QueueOK
  <1>7. ASSUME NEW d \in Clients \ {c} PROVE QueueOK(d)'
    BY <1>t, <1>1, <1>2 DEF QueueOK, MsgOK, GivenIds
  <1>8. ViewsAgree'
    <2> SUFFICES ASSUME NEW d \in links, Carries(d), NEW p \in Ids \ {HOST_ID, peer[d]}
                 PROVE  Agree(wire'[d], internal'[d], announced[d], LinkIds, p)
      BY <1>1 DEF ViewsAgree, Carries, LinkIds
    <2>1. Agree(wire[d], internal[d], announced[d], LinkIds, p)
      BY <1>t DEF ViewsAgree
    <2>2. CASE d = c
      <3>1. Agree(w, i, announced[c], LinkIds, p)
        BY <2>1, <2>2
      <3>2. Agree(Tail(w), Append(i, Head(w)), announced[c], LinkIds, p)
        BY <1>w, <3>1, AgreeMove
      <3> QED
        BY <1>2, <2>2, <3>2
    <2>3. CASE d # c
      BY <1>t, <1>2, <2>1, <2>3 DEF TypeOK
    <2> QED
      BY <2>2, <2>3
  <1> QED
    BY <1>4, <1>5, <1>6, <1>7, <1>8

\* ClientWatch puts Lost behind what was read; the client's end is closed, so
\* the agreement claims nothing of it any more.
LEMMA WatchStep ==
    ASSUME IInv, NEW c \in Clients, ClientWatch(c)
    PROVE  /\ \A d \in Clients : StageOK(d)'
           /\ IdsOK' /\ (\A d \in Clients : QueueOK(d)') /\ NoReturn' /\ ViewsAgree'
  <1> USE DEF vars, hostVars, endVars, viewVars, dataVars
  <1> DEFINE i == internal[c]
  <1>t. /\ TypeOK /\ (\A d \in Clients : StageOK(d) /\ QueueOK(d)) /\ IdsOK /\ NoReturn /\ ViewsAgree
        /\ Clients \subseteq Nodes
    BY DEF IInv, TInv, Nodes
  <1>w. wire[c] \in Seq(Control) /\ i \in Seq(Control \cup {Lost})
    BY <1>t DEF TypeOK
  <1>1. /\ internal' = [internal EXCEPT ![c] = Append(i, Lost)]
        /\ clientEnd' = [clientEnd EXCEPT ![c] = "reported"]
        /\ clientEnd[c] = "closed" /\ task[c] = "running"
        /\ UNCHANGED <<task, hostVars, hasHost, hostEnd, wire, viewVars, dataVars>>
    BY DEF ClientWatch
  <1>2. /\ internal'[c] = Append(i, Lost) /\ clientEnd'[c] = "reported"
        /\ \A d \in Clients \ {c} : internal'[d] = internal[d] /\ clientEnd'[d] = clientEnd[d]
    BY <1>t, <1>1 DEF TypeOK
  <1>3. /\ Len(i) \in Nat
        /\ DOMAIN i = 1 .. Len(i)
        /\ DOMAIN Append(i, Lost) = 1 .. Len(i) + 1
        /\ \A k \in 1 .. Len(i) : Append(i, Lost)[k] = i[k]
        /\ Append(i, Lost)[Len(i) + 1] = Lost
    BY <1>w, AppendFacts
  <1>4. \A k \in DOMAIN Append(i, Lost) :
          Append(i, Lost)[k] = Lost \/ \E j \in DOMAIN i : Append(i, Lost)[k] = i[j]
    BY <1>3
  <1>5. \A d \in Clients : StageOK(d)'
    <2>1. StageOK(c)'
      BY <1>t, <1>1, <1>2, <1>4 DEF StageOK
    <2>2. \A d \in Clients \ {c} : StageOK(d)'
      BY <1>t, <1>1, <1>2 DEF StageOK
    <2> QED
      BY <2>1, <2>2
  <1>6. IdsOK' /\ NoReturn'
    BY <1>t, <1>1 DEF IdsOK, NoReturn, GivenIds
  <1>7. QueueOK(c)'
    <2>1. MsgOK(c, Lost) /\ \A view, dead : ~Late(Lost, view, dead)
      BY DEF MsgOK, Late, Lost, SaysIn
    <2>2. Orderly(wire[c], Append(i, Lost))
      BY <1>t, <1>w, OrderlyLost DEF QueueOK
    <2>3. \A m : MsgOK(c, m)' <=> MsgOK(c, m)
      BY <1>1 DEF MsgOK, GivenIds
    <2>4. /\ \A k \in DOMAIN wire[c] : MsgOK(c, wire[c][k]) /\ ~Late(wire[c][k], announced[c], gone[c])
          /\ \A k \in DOMAIN i : MsgOK(c, i[k]) /\ ~Late(i[k], announced[c], gone[c])
      BY <1>t DEF QueueOK
    <2>5. announced' = announced /\ gone' = gone /\ wire' = wire
      BY <1>1
    <2> HIDE DEF i
    <2> QED
      BY <1>2, <1>4, <2>1, <2>2, <2>3, <2>4, <2>5 DEF QueueOK
  <1>8. ASSUME NEW d \in Clients \ {c} PROVE QueueOK(d)'
    BY <1>t, <1>1, <1>2 DEF QueueOK, MsgOK, GivenIds
  <1>9. ViewsAgree'
    <2> SUFFICES ASSUME NEW d \in links, Carries(d)', NEW p \in Ids \ {HOST_ID, peer[d]}
                 PROVE  Agree(wire[d], internal'[d], announced[d], LinkIds, p)
      BY <1>1 DEF ViewsAgree, LinkIds
    <2>1. d \in Clients \ {c}
      BY <1>t, <1>2 DEF Carries, TypeOK
    <2>2. Carries(d)
      BY <1>1, <1>2, <2>1 DEF Carries
    <2> QED
      BY <1>t, <1>2, <2>1, <2>2 DEF ViewsAgree
  <1> QED
    BY <1>5, <1>6, <1>7, <1>8, <1>9

\* ClientClose empties c's queues and shuts its end.
LEMMA CloseStep ==
    ASSUME IInv, NEW c \in Clients, ClientClose(c)
    PROVE  /\ \A d \in Clients : StageOK(d)'
           /\ IdsOK' /\ (\A d \in Clients : QueueOK(d)') /\ NoReturn' /\ ViewsAgree'
  <1> USE DEF vars, hostVars, endVars, viewVars, dataVars
  <1>t. /\ TypeOK /\ (\A d \in Clients : StageOK(d) /\ QueueOK(d)) /\ IdsOK /\ NoReturn /\ ViewsAgree
        /\ Clients \subseteq Nodes
    BY DEF IInv, TInv, Nodes
  <1>1. /\ wire' = [wire EXCEPT ![c] = <<>>]
        /\ internal' = [internal EXCEPT ![c] = <<>>]
        /\ clientEnd' = [clientEnd EXCEPT ![c] = Shut(@)]
        /\ task' = [task EXCEPT ![c] = "ended"]
        /\ UNCHANGED <<hostVars, hostEnd, announced, gone, ready, dataVars>>
    BY DEF ClientClose
  <1>2. /\ wire'[c] = <<>> /\ internal'[c] = <<>> /\ task'[c] = "ended"
        /\ clientEnd'[c] # "open"
        /\ \A d \in Clients \ {c} : /\ wire'[d] = wire[d] /\ internal'[d] = internal[d]
                                     /\ clientEnd'[d] = clientEnd[d] /\ task'[d] = task[d]
    BY <1>t, <1>1 DEF TypeOK, Shut
  <1>3. DOMAIN <<>> = {}
    OBVIOUS
  <1>5. \A d \in Clients : StageOK(d)'
    <2>1. StageOK(c)'
      BY <1>t, <1>1, <1>2, <1>3 DEF StageOK
    <2>2. \A d \in Clients \ {c} : StageOK(d)'
      BY <1>t, <1>1, <1>2 DEF StageOK
    <2> QED
      BY <2>1, <2>2
  <1>6. IdsOK' /\ NoReturn'
    BY <1>t, <1>1 DEF IdsOK, NoReturn, GivenIds
  <1>7. QueueOK(c)'
    BY <1>2, <1>3 DEF QueueOK, Orderly
  <1>8. ASSUME NEW d \in Clients \ {c} PROVE QueueOK(d)'
    BY <1>t, <1>1, <1>2 DEF QueueOK, MsgOK, GivenIds
  <1>9. ViewsAgree'
    <2> SUFFICES ASSUME NEW d \in links, Carries(d)', NEW p \in Ids \ {HOST_ID, peer[d]}
                 PROVE  Agree(wire'[d], internal'[d], announced[d], LinkIds, p)
      BY <1>1 DEF ViewsAgree, LinkIds
    <2>1. d \in Clients \ {c}
      BY <1>t, <1>2 DEF Carries, TypeOK
    <2>2. Carries(d)
      BY <1>1, <1>2, <2>1 DEF Carries
    <2> QED
      BY <1>t, <1>2, <2>1, <2>2 DEF ViewsAgree
  <1> QED
    BY <1>5, <1>6, <1>7, <1>8, <1>9

\* HostClose drops every link: the agreement claims nothing any more.
LEMMA HostCloseStep ==
    ASSUME IInv, HostClose
    PROVE  /\ \A d \in Clients : StageOK(d)'
           /\ IdsOK' /\ (\A d \in Clients : QueueOK(d)') /\ NoReturn' /\ ViewsAgree'
  <1> USE DEF vars, hostVars, endVars, viewVars, dataVars
  <1>t. /\ TypeOK /\ (\A d \in Clients : StageOK(d) /\ QueueOK(d)) /\ IdsOK /\ NoReturn
        /\ Clients \subseteq Nodes
    BY DEF IInv, TInv, Nodes
  <1>1. /\ links' = {} /\ offered' = {} /\ losses' = {}
        /\ UNCHANGED <<next_id, peer, hasHost, clientEnd, wire, internal,
                       announced, gone, ready, dataVars>>
    BY DEF HostClose
  <1>2. \A d \in Clients : task'[d] = task[d] /\ (hostEnd[d] = "none" => hostEnd'[d] = "none")
    BY <1>t, HostAssumption DEF HostClose, Shut, TypeOK
  <1>3. \A d \in Clients : StageOK(d)'
    BY <1>t, <1>1, <1>2 DEF StageOK
  <1>4. IdsOK' /\ NoReturn' /\ ViewsAgree'
    BY <1>t, <1>1 DEF IdsOK, NoReturn, GivenIds, ViewsAgree
  <1>5. ASSUME NEW d \in Clients PROVE QueueOK(d)'
    BY <1>t, <1>1 DEF QueueOK, MsgOK, GivenIds
  <1> QED
    BY <1>3, <1>4, <1>5

\* Taking the head of `internal`, in terms of the view and the dead of c before
\* (announced, gone) and after (view2, dead2).  This is what State::apply and
\* State::lost share.
LEMMA TakeStep ==
    ASSUME IInv, NEW c \in Clients, task[c] = "running", internal[c] # <<>>,
           NEW view2, NEW dead2, NEW id2,
           internal' = [internal EXCEPT ![c] = Tail(@)],
           announced' = [announced EXCEPT ![c] = view2],
           gone' = [gone EXCEPT ![c] = dead2],
           ready' = [ready EXCEPT ![c] = id2],
           UNCHANGED <<task, hostVars, endVars, wire>>,
           peer[c] = 0 => view2 = {} /\ dead2 = {},
           id2 \in {0, peer[c]},
           view2 \cap dead2 = {},
           view2 \cup dead2 \subseteq {HOST_ID} \cup GivenIds,
           \A m : ~Late(m, announced[c], gone[c]) /\ MsgOK(c, m) /\ ~Clash(Head(internal[c]), m)
                    => ~Late(m, view2, dead2),
           \A p \in Ids \ {HOST_ID} :
             /\ Mentions(Head(internal[c]), p) => (p \in view2 <=> SaysIn(Head(internal[c]), p))
             /\ ~Mentions(Head(internal[c]), p) => (p \in view2 <=> p \in announced[c])
    PROVE  /\ \A d \in Clients : StageOK(d)'
           /\ IdsOK' /\ (\A d \in Clients : QueueOK(d)') /\ NoReturn' /\ ViewsAgree'
  <1> USE DEF hostVars, endVars
  <1> DEFINE i == internal[c]
             t == Tail(i)
  <1>t. /\ TypeOK /\ (\A d \in Clients : StageOK(d) /\ QueueOK(d)) /\ IdsOK /\ NoReturn /\ ViewsAgree
        /\ Clients \subseteq Nodes /\ Host \in Nodes /\ Host \notin Clients
    BY HostAssumption DEF IInv, TInv, Nodes
  <1>w. wire[c] \in Seq(Control) /\ i \in Seq(Control \cup {Lost}) /\ i # <<>>
    BY <1>t DEF TypeOK
  <1>1. /\ internal'[c] = t /\ announced'[c] = view2 /\ gone'[c] = dead2 /\ ready'[c] = id2
        /\ \A d \in Clients \ {c} : internal'[d] = internal[d]
        /\ \A n \in Nodes \ {c} : /\ announced'[n] = announced[n] /\ gone'[n] = gone[n]
                                   /\ ready'[n] = ready[n]
    BY <1>t DEF TypeOK
  <1>2. /\ Orderly(wire[c], t)
        /\ \A k \in DOMAIN t : ~Clash(Head(i), t[k])
        /\ \A k \in DOMAIN wire[c] : ~Clash(Head(i), wire[c][k])
        /\ \A k \in DOMAIN t : \E j \in DOMAIN i : t[k] = i[j]
    BY <1>t, <1>w, OrderlyTail DEF QueueOK
  <1> HIDE DEF i, t
  <1>3. \A d \in Clients : StageOK(d)'
    <2>1. StageOK(c)'
      BY <1>t, <1>1, <1>2 DEF StageOK, i
    <2>2. \A d \in Clients \ {c} : StageOK(d)'
      BY <1>t, <1>1 DEF StageOK
    <2> QED
      BY <2>1, <2>2
  <1>4. IdsOK'
    <2>1. \A n \in Nodes : announced'[n] \cup gone'[n] \subseteq {HOST_ID} \cup GivenIds
      BY <1>t, <1>1 DEF IdsOK
    <2>2. \A d \in Clients : ready'[d] \in {0, peer[d]}
      BY <1>t, <1>1 DEF IdsOK
    <2> QED
      BY <1>t, <2>1, <2>2 DEF IdsOK, GivenIds
  <1>5. NoReturn'
    BY <1>t, <1>1 DEF NoReturn
  <1>6. QueueOK(c)'
    <2>1. /\ \A k \in DOMAIN wire[c] : MsgOK(c, wire[c][k]) /\ ~Late(wire[c][k], announced[c], gone[c])
          /\ \A k \in DOMAIN i : MsgOK(c, i[k]) /\ ~Late(i[k], announced[c], gone[c])
      BY <1>t DEF QueueOK, i
    <2>2. /\ \A k \in DOMAIN wire[c] : ~Late(wire[c][k], view2, dead2)
          /\ \A k \in DOMAIN t : MsgOK(c, t[k]) /\ ~Late(t[k], view2, dead2)
      BY <1>2, <2>1 DEF i
    <2>3. \A m : MsgOK(c, m)' <=> MsgOK(c, m)
      BY DEF MsgOK, GivenIds
    <2> QED
      BY <1>1, <1>2, <2>1, <2>2, <2>3, ZenonT(30) DEF QueueOK
  <1>7. ASSUME NEW d \in Clients \ {c} PROVE QueueOK(d)'
    <2>1. /\ internal'[d] = internal[d] /\ announced'[d] = announced[d] /\ gone'[d] = gone[d]
      BY <1>t, <1>1
    <2> QED
      BY <1>t, <2>1 DEF QueueOK, MsgOK, GivenIds
  <1>8. ViewsAgree'
    <2> SUFFICES ASSUME NEW d \in links, Carries(d), NEW p \in Ids \ {HOST_ID, peer[d]}
                 PROVE  Agree(wire[d], internal'[d], announced'[d], LinkIds, p)
      BY ZenonT(30) DEF ViewsAgree, Carries, LinkIds
    <2>1. Agree(wire[d], internal[d], announced[d], LinkIds, p)
      BY <1>t DEF ViewsAgree
    <2>2. CASE d = c
      <3>1. Agree(wire[c], i, announced[c], LinkIds, p)
        BY <2>1, <2>2 DEF i
      <3>2. /\ Mentions(Head(i), p) => (p \in view2 <=> SaysIn(Head(i), p))
            /\ ~Mentions(Head(i), p) => (p \in view2 <=> p \in announced[c])
        BY DEF i
      <3>3. Agree(wire[c], Tail(i), view2, LinkIds, p)
        BY <1>w, <3>1, <3>2, AgreeApply
      <3> QED
        BY <1>1, <2>2, <3>3 DEF t
    <2>3. CASE d # c
      BY <1>t, <1>1, <2>1, <2>3 DEF TypeOK
    <2> QED
      BY <2>2, <2>3
  <1> QED
    BY <1>3, <1>4, <1>5, <1>6, <1>7, <1>8

\* ApplyControl: Welcome, PeerJoined and PeerLeft each change the view the way
\* they say, and nothing behind them on the queue comes too late for it.
LEMMA ApplyStep ==
    ASSUME IInv, NEW c \in Clients, ApplyControl(c)
    PROVE  /\ \A d \in Clients : StageOK(d)'
           /\ IdsOK' /\ (\A d \in Clients : QueueOK(d)') /\ NoReturn' /\ ViewsAgree'
  <1> DEFINE m == Head(internal[c])
  <1>t. /\ TypeOK /\ StageOK(c) /\ QueueOK(c) /\ IdsOK /\ NoReturn /\ c \in Nodes
    BY DEF IInv, TInv, Nodes
  <1>1. /\ task[c] = "running" /\ internal[c] # <<>>
        /\ internal' = [internal EXCEPT ![c] = Tail(@)]
        /\ UNCHANGED <<task, hostVars, endVars, wire>>
    BY DEF ApplyControl
  <1>2. m \in Control \cup {Lost} /\ MsgOK(c, m) /\ ~Late(m, announced[c], gone[c])
    <2>1. internal[c] \in Seq(Control \cup {Lost})
      BY <1>t DEF TypeOK
    <2>2. m = internal[c][1] /\ 1 \in DOMAIN internal[c] /\ m \in Control \cup {Lost}
      BY <1>1, <2>1, TailFacts
    <2> QED
      BY <1>t, <2>2 DEF QueueOK
  <1>3. m.kind # "Lost" => peer[c] # 0
    <2>1. internal[c] \in Seq(Control \cup {Lost})
      BY <1>t DEF TypeOK
    <2>2. m = internal[c][1] /\ 1 \in DOMAIN internal[c]
      BY <1>1, <2>1, TailFacts
    <2> QED
      BY <1>t, <2>2 DEF StageOK, Lost
  <1>4. announced \in [Nodes -> SUBSET Ids] /\ gone \in [Nodes -> SUBSET Ids]
    BY <1>t DEF TypeOK
  <1>5. announced[c] \cup gone[c] \subseteq {HOST_ID} \cup GivenIds /\ announced[c] \cap gone[c] = {}
    BY <1>t DEF IdsOK, NoReturn
  <1>6. HOST_ID \notin GivenIds
    BY DEF GivenIds, HOST_ID, FIRST_CLIENT_ID
  <1>7. ready[c] \in {0, peer[c]} /\ ready = [ready EXCEPT ![c] = ready[c]]
        /\ gone = [gone EXCEPT ![c] = gone[c]]
    BY <1>t DEF IdsOK, TypeOK
  <1>8. CASE /\ m.kind = "Welcome"
             /\ ready' = [ready EXCEPT ![c] = m.your_id]
             /\ Announce(c, {HOST_ID} \cup m.peers)
             /\ UNCHANGED gone
    <2> DEFINE view2 == announced[c] \cup ({HOST_ID} \cup m.peers)
    <2>1. announced' = [announced EXCEPT ![c] = view2] /\ gone' = [gone EXCEPT ![c] = gone[c]]
      BY <1>7, <1>8 DEF Announce
    <2>2. m.your_id = peer[c] /\ m.peers \subseteq GivenIds /\ peer[c] # 0
      BY <1>2, <1>3, <1>8 DEF MsgOK
    <2>3. HOST_ID \notin gone[c] /\ m.peers \cap gone[c] = {}
      BY <1>2, <1>8 DEF Late, SaysIn
    <2>4. view2 \cap gone[c] = {} /\ view2 \cup gone[c] \subseteq {HOST_ID} \cup GivenIds
      BY <1>5, <2>2, <2>3
    <2>5. \A x : ~Late(x, announced[c], gone[c]) /\ MsgOK(c, x) /\ ~Clash(m, x)
                   => ~Late(x, view2, gone[c])
      BY <1>8 DEF Late, Clash
    <2>6. \A p \in Ids \ {HOST_ID} :
            /\ Mentions(m, p) => (p \in view2 <=> SaysIn(m, p))
            /\ ~Mentions(m, p) => (p \in view2 <=> p \in announced[c])
      BY <1>8 DEF Mentions, SaysIn, SaysOut
    <2>7. m.your_id \in {0, peer[c]}
      BY <2>2
    <2> HIDE DEF view2, m
    <2> QED
      BY <1>1, <1>8, <2>1, <2>2, <2>4, <2>5, <2>6, <2>7, TakeStep DEF m
  <1>9. CASE /\ m.kind = "PeerJoined"
             /\ Announce(c, {m.id})
             /\ UNCHANGED <<ready, gone>>
    <2> DEFINE view2 == announced[c] \cup {m.id}
    <2>1. /\ announced' = [announced EXCEPT ![c] = view2] /\ gone' = [gone EXCEPT ![c] = gone[c]]
          /\ ready' = [ready EXCEPT ![c] = ready[c]]
      BY <1>7, <1>9 DEF Announce
    <2>2. m.id \in GivenIds /\ peer[c] # 0
      BY <1>2, <1>3, <1>9 DEF MsgOK
    <2>3. m.id \notin gone[c] /\ m.id # HOST_ID
      BY <1>2, <1>6, <1>9, <2>2 DEF Late, SaysIn
    <2>4. view2 \cap gone[c] = {} /\ view2 \cup gone[c] \subseteq {HOST_ID} \cup GivenIds
      BY <1>5, <2>2, <2>3
    <2>5. \A x : ~Late(x, announced[c], gone[c]) /\ MsgOK(c, x) /\ ~Clash(m, x)
                   => ~Late(x, view2, gone[c])
      BY <2>3 DEF Late
    <2>6. \A p \in Ids \ {HOST_ID} :
            /\ Mentions(m, p) => (p \in view2 <=> SaysIn(m, p))
            /\ ~Mentions(m, p) => (p \in view2 <=> p \in announced[c])
      BY <1>9 DEF Mentions, SaysIn, SaysOut
    <2> HIDE DEF view2, m
    <2> QED
      BY <1>1, <1>7, <1>9, <2>1, <2>2, <2>4, <2>5, <2>6, TakeStep, ZenonT(30) DEF m
  <1>10. CASE /\ m.kind = "PeerLeft"
              /\ Forget(c, m.id)
              /\ UNCHANGED ready
    <2> DEFINE view2 == announced[c] \ {m.id}
               dead2 == gone[c] \cup (announced[c] \cap {m.id})
    <2>1. /\ announced' = [announced EXCEPT ![c] = view2] /\ gone' = [gone EXCEPT ![c] = dead2]
          /\ ready' = [ready EXCEPT ![c] = ready[c]]
      BY <1>7, <1>10 DEF Forget
    <2>2. m.id \in GivenIds /\ peer[c] # 0
      BY <1>2, <1>3, <1>10 DEF MsgOK
    <2>3. m.id # HOST_ID /\ m.id \in Ids
      BY <1>2, <1>6, <1>10, <2>2 DEF Control, Lost
    <2>4. view2 \cap dead2 = {} /\ view2 \cup dead2 \subseteq {HOST_ID} \cup GivenIds
      BY <1>5, <2>2, <2>3
    <2>5. ASSUME NEW x, ~Late(x, announced[c], gone[c]), ~Clash(m, x)
          PROVE  ~Late(x, view2, dead2)
      <3>1. ~SaysIn(x, m.id)
        BY <1>10, <2>3, <2>5 DEF Clash, SaysOut
      <3> QED
        BY <2>3, <2>5, <3>1 DEF Late
    <2>6. \A p \in Ids \ {HOST_ID} :
            /\ Mentions(m, p) => (p \in view2 <=> SaysIn(m, p))
            /\ ~Mentions(m, p) => (p \in view2 <=> p \in announced[c])
      BY <1>10 DEF Mentions, SaysIn, SaysOut
    <2>7. \A x : ~Late(x, announced[c], gone[c]) /\ MsgOK(c, x) /\ ~Clash(m, x)
                   => ~Late(x, view2, dead2)
      BY <2>5
    <2> HIDE DEF view2, dead2, m
    <2> QED
      BY <1>1, <1>7, <2>1, <2>2, <2>4, <2>7, <2>6, TakeStep DEF m
  <1> QED
    BY <1>8, <1>9, <1>10 DEF ApplyControl

\* ClientLost forgets the host; no Welcome can follow one already applied, so
\* the host is not announced again.
LEMMA LostStep ==
    ASSUME IInv, NEW c \in Clients, ClientLost(c)
    PROVE  /\ \A d \in Clients : StageOK(d)'
           /\ IdsOK' /\ (\A d \in Clients : QueueOK(d)') /\ NoReturn' /\ ViewsAgree'
  <1> DEFINE m == Head(internal[c])
             view2 == announced[c] \ {HOST_ID}
             dead2 == gone[c] \cup (announced[c] \cap {HOST_ID})
  <1>t. /\ TypeOK /\ StageOK(c) /\ QueueOK(c) /\ IdsOK /\ NoReturn /\ c \in Nodes
    BY DEF IInv, TInv, Nodes
  <1>1. /\ task[c] = "running" /\ internal[c] # <<>> /\ m = Lost
        /\ internal' = [internal EXCEPT ![c] = Tail(@)]
        /\ UNCHANGED <<task, hostVars, endVars, wire, ready>>
        /\ Forget(c, HOST_ID)
    BY DEF ClientLost
  <1>2. /\ announced' = [announced EXCEPT ![c] = view2] /\ gone' = [gone EXCEPT ![c] = dead2]
        /\ ready' = [ready EXCEPT ![c] = ready[c]]
    BY <1>t, <1>1 DEF Forget, TypeOK
  <1>3. announced[c] \cup gone[c] \subseteq {HOST_ID} \cup GivenIds /\ announced[c] \cap gone[c] = {}
        /\ ready[c] \in {0, peer[c]}
    BY <1>t DEF IdsOK, NoReturn
  <1>4. view2 \cap dead2 = {} /\ view2 \cup dead2 \subseteq {HOST_ID} \cup GivenIds
    BY <1>3
  <1>5. peer[c] = 0 => view2 = {} /\ dead2 = {}
    BY <1>t DEF StageOK
  <1>6. ASSUME NEW x, ~Late(x, announced[c], gone[c]), MsgOK(c, x)
        PROVE  ~Late(x, view2, dead2)
    <2>1. ~SaysIn(x, HOST_ID)
      <3>1. HOST_ID \notin GivenIds
        BY DEF GivenIds, HOST_ID, FIRST_CLIENT_ID
      <3> QED
        BY <1>6, <3>1 DEF MsgOK, SaysIn
    <2> QED
      BY <1>6, <2>1 DEF Late
  <1>7. \A p \in Ids \ {HOST_ID} : ~Mentions(m, p) /\ (p \in view2 <=> p \in announced[c])
    BY <1>1 DEF Mentions, SaysIn, SaysOut, Lost
  <1> HIDE DEF view2, dead2, m
  <1> QED
    BY <1>1, <1>2, <1>3, <1>4, <1>5, <1>6, <1>7, TakeStep DEF m

\* HostAccept: a fresh id for c, a Welcome that lists the roster, and the news
\* for everyone on it.
LEMMA AcceptStep ==
    ASSUME IInv, NEW c \in Clients, HostAccept(c)
    PROVE  /\ \A d \in Clients : StageOK(d)'
           /\ IdsOK' /\ (\A d \in Clients : QueueOK(d)') /\ NoReturn' /\ ViewsAgree'
  <1> USE DEF hostVars, endVars, viewVars, dataVars
  <1>a. PICK W : W = Welcome(next_id, LinkIds)
    OBVIOUS
  <1>b. PICK J : J = PeerJoined(next_id)
    OBVIOUS
  <1>t. /\ TypeOK /\ (\A d \in Clients : StageOK(d) /\ QueueOK(d)) /\ IdsOK /\ NoReturn /\ ViewsAgree
        /\ Clients \subseteq Nodes /\ Host \in Nodes /\ Host \notin Clients
    BY HostAssumption DEF IInv, TInv, Nodes
  <1>1. /\ c \in offered /\ next_id' = next_id + 1 /\ offered' = offered \ {c}
        /\ peer' = [peer EXCEPT ![c] = next_id]
        /\ links' = links \cup {c}
        /\ wire' = [d \in Clients |->
                  IF d = c THEN ControlTo(c, W)
                  ELSE IF d \in links THEN ControlTo(d, J) ELSE wire[d]]
        /\ announced' = [announced EXCEPT ![Host] = @ \cup {next_id}]
        /\ UNCHANGED <<task, endVars, losses, internal, gone, ready>>
    BY <1>a, <1>b DEF HostAccept, Announce
  <1>2. next_id \in Ids /\ next_id \in Nat /\ next_id >= FIRST_CLIENT_ID
    BY <1>t, MaxIdAssumption DEF HostAccept, TypeOK, Ids, HOST_ID, FIRST_CLIENT_ID
  <1>3. /\ peer[c] = 0 /\ c \notin links /\ wire[c] = <<>> /\ announced[c] = {} /\ gone[c] = {}
        /\ ready[c] = 0 /\ \A k \in DOMAIN internal[c] : internal[c][k] = Lost
    BY <1>t, <1>1 DEF StageOK
  <1>4. /\ peer'[c] = next_id /\ \A d \in Clients \ {c} : peer'[d] = peer[d]
    BY <1>t, <1>1 DEF TypeOK
  <1>5. /\ announced'[Host] = announced[Host] \cup {next_id}
        /\ \A n \in Nodes \ {Host} : announced'[n] = announced[n]
    BY <1>t, <1>1 DEF TypeOK
  <1>6. /\ LinkIds' = LinkIds \cup {next_id} /\ LinkIds \subseteq GivenIds
        /\ next_id \notin GivenIds /\ GivenIds' = GivenIds \cup {next_id}
    <2>1. next_id \notin GivenIds /\ GivenIds' = GivenIds \cup {next_id}
      BY <1>1, <1>2 DEF GivenIds, FIRST_CLIENT_ID
    <2>2. LinkIds \subseteq GivenIds
      BY <1>t DEF LinkIds, IdsOK, StageOK, TypeOK
    <2>3. LinkIds' = LinkIds \cup {next_id}
      <3>1. \A d \in links : peer'[d] = peer[d]
        BY <1>t, <1>3, <1>4 DEF TypeOK
      <3> QED
        BY <1>1, <1>4, <3>1 DEF LinkIds
    <2> QED
      BY <2>1, <2>2, <2>3
  <1>7. W \in Control /\ J \in Control
    <2>1. LinkIds \in SUBSET Ids
      BY <1>t, LinkIdsType DEF StageOK, TypeOK
    <2> QED
      BY <1>a, <1>b, <1>2, <2>1, ControlTypes
  <1>8. \A d \in Clients : StageOK(d)'
    <2>1. StageOK(c)'
      <3>1. next_id # 0 /\ c \notin offered'
        BY <1>1, <1>2 DEF FIRST_CLIENT_ID
      <3>2. task[c] # "dialling"
        BY <1>t, <1>1 DEF StageOK
      <3> QED
        BY <1>t, <1>1, <1>4, <3>1, <3>2 DEF StageOK
    <2>2. ASSUME NEW d \in Clients \ {c} PROVE StageOK(d)'
      <3>1. peer'[d] = peer[d] /\ announced'[d] = announced[d]
        BY <1>t, <1>4, <1>5
      <3>2. peer[d] = 0 => wire'[d] = wire[d]
        BY <1>t, <1>1 DEF StageOK
      <3>3. /\ d \in offered' <=> d \in offered
            /\ d \in links' <=> d \in links
        BY <1>1
      <3> QED
        BY <1>t, <1>1, <3>1, <3>2, <3>3 DEF StageOK
    <2> QED
      BY <2>1, <2>2
  <1>9. IdsOK'
    <2>1. \A d \in Clients : peer'[d] # 0 => peer'[d] \in GivenIds'
      BY <1>t, <1>4, <1>6 DEF IdsOK
    <2>2. \A d, e \in Clients : peer'[d] = peer'[e] /\ peer'[d] # 0 => d = e
      BY <1>t, <1>4, <1>6 DEF IdsOK
    <2>3. \A n \in Nodes : announced'[n] \cup gone'[n] \subseteq {HOST_ID} \cup GivenIds'
      BY <1>t, <1>1, <1>5, <1>6 DEF IdsOK
    <2>4. \A d \in Clients : ready'[d] \in {0, peer'[d]}
      BY <1>t, <1>1, <1>3, <1>4 DEF IdsOK
    <2> QED
      BY <2>1, <2>2, <2>3, <2>4 DEF IdsOK
  <1>10. NoReturn'
    <2>1. next_id \notin gone[Host]
      <3>1. next_id # HOST_ID
        BY <1>2 DEF HOST_ID, FIRST_CLIENT_ID
      <3> QED
        BY <1>t, <1>6, <3>1 DEF IdsOK
    <2> QED
      BY <1>t, <1>1, <1>5, <2>1 DEF NoReturn
  <1>11. \A d \in Clients \ {c} : \A m : MsgOK(d, m) => MsgOK(d, m)'
    BY <1>4, <1>6 DEF MsgOK
  <1>12. QueueOK(c)'
    <2>1. wire'[c] = <<>> \/ wire'[c] = Append(<<>>, W)
      BY <1>1, <1>3 DEF ControlTo
    <2>2. \A k \in DOMAIN wire'[c] : wire'[c][k] = W
      BY <2>1, <1>7
    <2>3. \A j, k \in DOMAIN wire'[c] : ~(j < k)
      BY <2>1, <1>7
    <2>4. MsgOK(c, W)' /\ ~Late(W, {}, {})
      BY <1>a, <1>4, <1>6 DEF MsgOK, Late, Welcome, SaysIn
    <2>5. MsgOK(c, Lost)' /\ ~Late(Lost, {}, {}) /\ \A x : ~Clash(Lost, x) /\ ~Clash(x, Lost)
      BY DEF MsgOK, Late, Lost, Clash, SaysIn, SaysOut
    <2>6. announced'[c] = {} /\ gone'[c] = {} /\ internal'[c] = internal[c]
      BY <1>t, <1>1, <1>3, <1>5
    <2>7. Orderly(wire'[c], internal'[c])
      BY <1>3, <2>3, <2>5, <2>6 DEF Orderly
    <2> QED
      BY <1>3, <2>2, <2>4, <2>5, <2>6, <2>7 DEF QueueOK
  <1>13. ASSUME NEW d \in Clients \ {c} PROVE QueueOK(d)'
    <2>1. /\ announced'[d] = announced[d] /\ gone'[d] = gone[d] /\ internal'[d] = internal[d]
          /\ wire'[d] = wire[d] \/ wire'[d] = Append(wire[d], J)
      BY <1>t, <1>1, <1>5 DEF ControlTo
    <2>2. /\ \A k \in DOMAIN wire[d] : MsgOK(d, wire[d][k]) /\ ~Late(wire[d][k], announced[d], gone[d])
          /\ \A k \in DOMAIN internal[d] : MsgOK(d, internal[d][k]) /\ ~Late(internal[d][k], announced[d], gone[d])
          /\ Orderly(wire[d], internal[d])
      BY <1>t DEF QueueOK
    <2>3. MsgOK(d, J)'
      BY <1>b, <1>6 DEF MsgOK, PeerJoined
    <2>4. ~Late(J, announced[d], gone[d])
      <3>1. next_id \notin gone[d]
        <4>1. next_id # HOST_ID
          BY <1>2 DEF HOST_ID, FIRST_CLIENT_ID
        <4> QED
          BY <1>t, <1>6, <4>1 DEF IdsOK
      <3> QED
        BY <1>b, <3>1 DEF Late, SaysIn, PeerJoined
    <2>5. \A m : MsgOK(d, m) => ~Clash(m, J)
      BY <1>b, <1>6 DEF MsgOK, Clash, SaysOut, SaysIn, PeerJoined
    <2>6. wire[d] \in Seq(Control) /\ internal[d] \in Seq(Control \cup {Lost})
      BY <1>t DEF TypeOK
    <2>7. Orderly(Append(wire[d], J), internal[d])
      BY <1>7, <2>2, <2>5, <2>6, OrderlyAppend
    <2>8. \A k \in DOMAIN Append(wire[d], J) :
            Append(wire[d], J)[k] = J \/ \E j \in DOMAIN wire[d] : Append(wire[d], J)[k] = wire[d][j]
      <3>1. /\ Len(wire[d]) \in Nat
            /\ DOMAIN wire[d] = 1 .. Len(wire[d])
            /\ DOMAIN Append(wire[d], J) = 1 .. Len(wire[d]) + 1
            /\ \A k \in 1 .. Len(wire[d]) : Append(wire[d], J)[k] = wire[d][k]
            /\ Append(wire[d], J)[Len(wire[d]) + 1] = J
        BY <1>7, <2>6, AppendFacts
      <3> QED
        BY <3>1
    <2>9. CASE wire'[d] = wire[d]
      BY <1>11, <2>1, <2>2, <2>9 DEF QueueOK
    <2>10. CASE wire'[d] = Append(wire[d], J)
      BY <1>11, <2>1, <2>2, <2>3, <2>4, <2>7, <2>8, <2>10 DEF QueueOK
    <2> QED
      BY <2>1, <2>9, <2>10
  <1>14. ViewsAgree'
    <2> SUFFICES ASSUME NEW d \in links \cup {c}, Carries(d), NEW p \in Ids \ {HOST_ID, peer'[d]}
                 PROVE  Agree(wire'[d], internal[d], announced'[d], LinkIds \cup {next_id}, p)
      BY <1>1, <1>6 DEF ViewsAgree, Carries
    <2>0. d \in Clients
      BY <1>t DEF TypeOK
    <2>1. announced'[d] = announced[d]
      BY <1>t, <1>5, <2>0
    <2>2. CASE d = c
      <3>1. wire'[c] = Append(<<>>, W) /\ p # next_id
        BY <1>1, <1>3, <1>4, <2>2 DEF ControlTo
      <3>2. Agree(<<>>, internal[c], {}, LinkIds \ {p}, p)
        <4>1. Silent(internal[c], p)
          BY <1>3 DEF Silent, Mentions, SaysIn, SaysOut, Lost
        <4>2. \A k \in DOMAIN internal[c] : ~LastWord(internal[c], p, k)
          BY <4>1 DEF LastWord, Silent
        <4>3. DOMAIN <<>> = {}
          OBVIOUS
        <4> QED
          BY <4>2, <4>3 DEF Agree
      <3>3. /\ Mentions(W, p) => (p \in LinkIds \cup {next_id} <=> SaysIn(W, p))
            /\ ~Mentions(W, p) => (p \in LinkIds \cup {next_id} <=> p \in LinkIds \ {p})
        BY <1>a, <3>1 DEF Mentions, SaysIn, SaysOut, Welcome
      <3>4. <<>> \in Seq(Control) /\ internal[c] \in Seq(Control \cup {Lost})
        BY <1>t DEF TypeOK
      <3>5. Agree(Append(<<>>, W), internal[c], {}, LinkIds \cup {next_id}, p)
        BY <1>7, <3>2, <3>3, <3>4, AgreeAppend
      <3> QED
        BY <1>3, <2>1, <2>2, <3>1, <3>5
    <2>3. CASE d # c
      <3>1. wire'[d] = Append(wire[d], J) /\ d \in links /\ peer'[d] = peer[d]
        BY <1>1, <1>4, <2>0, <2>3 DEF ControlTo
      <3>2. Agree(wire[d], internal[d], announced[d], LinkIds, p)
        BY <1>t, <3>1 DEF ViewsAgree
      <3>3. /\ Mentions(J, p) => (p \in LinkIds \cup {next_id} <=> SaysIn(J, p))
            /\ ~Mentions(J, p) => (p \in LinkIds \cup {next_id} <=> p \in LinkIds)
        BY <1>b DEF Mentions, SaysIn, SaysOut, PeerJoined
      <3>4. wire[d] \in Seq(Control) /\ internal[d] \in Seq(Control \cup {Lost})
        BY <1>t, <2>0 DEF TypeOK
      <3>5. Agree(Append(wire[d], J), internal[d], announced[d], LinkIds \cup {next_id}, p)
        BY <1>7, <3>2, <3>3, <3>4, AgreeAppend
      <3> QED
        BY <2>1, <3>1, <3>5
    <2> QED
      BY <2>2, <2>3
  <1> QED
    BY <1>8, <1>9, <1>10, <1>12, <1>13, <1>14

\* HostLost: the peer leaves the roster and everyone left on it is told.
LEMMA HostLostStep ==
    ASSUME IInv, NEW c \in Clients, HostLost(c)
    PROVE  /\ \A d \in Clients : StageOK(d)'
           /\ IdsOK' /\ (\A d \in Clients : QueueOK(d)') /\ NoReturn' /\ ViewsAgree'
  <1> USE DEF hostVars, endVars, viewVars, dataVars
  <1>t. /\ TypeOK /\ (\A d \in Clients : StageOK(d) /\ QueueOK(d)) /\ IdsOK /\ NoReturn /\ ViewsAgree
        /\ Clients \subseteq Nodes /\ Host \in Nodes /\ Host \notin Clients
    BY HostAssumption DEF IInv, TInv, Nodes
  <1>1. /\ losses' = losses \ {c} /\ links' = links \ {c}
        /\ UNCHANGED <<task, next_id, offered, peer, endVars, internal, ready>>
    BY DEF HostLost
  <1>2. CASE c \notin links
    <2>1. UNCHANGED <<announced, gone, wire>> /\ links' = links
      BY <1>1, <1>2 DEF HostLost
    <2>2. \A d \in Clients : StageOK(d)'
      BY <1>t, <1>1, <2>1 DEF StageOK
    <2> QED
      BY <1>1, <2>1, <2>2, Frame DEF Carries
  <1>3. CASE c \in links
    <2> DEFINE q == peer[c]
    <2>a. PICK L : L = PeerLeft(q)
      OBVIOUS
    <2>1. /\ wire' = [d \in Clients |-> IF d \in links \ {c} THEN ControlTo(d, L) ELSE wire[d]]
          /\ announced' = [announced EXCEPT ![Host] = @ \ {q}]
          /\ gone' = [gone EXCEPT ![Host] = @ \cup (announced[Host] \cap {q})]
      BY <1>3, <2>a DEF HostLost, Forget
    <2>2. /\ announced'[Host] = announced[Host] \ {q}
          /\ gone'[Host] = gone[Host] \cup (announced[Host] \cap {q})
          /\ \A n \in Nodes \ {Host} : announced'[n] = announced[n] /\ gone'[n] = gone[n]
      BY <1>t, <2>1 DEF TypeOK
    <2>3. q \in GivenIds /\ q # 0 /\ q \in Ids
      BY <1>t, <1>3, MaxIdAssumption DEF StageOK, IdsOK, TypeOK, GivenIds, Ids, HOST_ID, FIRST_CLIENT_ID
    <2>4. LinkIds' = LinkIds \ {q} /\ GivenIds' = GivenIds
      <3>1. \A d \in links : peer[d] = q => d = c
        BY <1>t, <2>3 DEF IdsOK, TypeOK
      <3> QED
        BY <1>1, <3>1 DEF LinkIds, GivenIds
    <2>5. L \in Control
      BY <2>a, <2>3 DEF PeerLeft, Control
    <2> HIDE DEF q
    <2>6. \A d \in Clients : StageOK(d)'
      <3> SUFFICES ASSUME NEW d \in Clients PROVE StageOK(d)'
        OBVIOUS
      <3>1. announced'[d] = announced[d] /\ gone'[d] = gone[d]
        BY <1>t, <2>2
      <3>2. peer[d] = 0 => wire'[d] = wire[d]
        BY <1>t, <2>1 DEF StageOK
      <3> QED
        BY <1>t, <1>1, <3>1, <3>2 DEF StageOK
    <2>7. IdsOK'
      <3>1. \A n \in Nodes : announced'[n] \cup gone'[n] \subseteq {HOST_ID} \cup GivenIds
        BY <1>t, <2>2, <2>3 DEF IdsOK
      <3> QED
        BY <1>t, <1>1, <2>4, <3>1 DEF IdsOK
    <2>8. NoReturn'
      BY <1>t, <2>2 DEF NoReturn
    <2>9. ASSUME NEW d \in Clients PROVE QueueOK(d)'
      <3>1. /\ announced'[d] = announced[d] /\ gone'[d] = gone[d] /\ internal'[d] = internal[d]
            /\ wire'[d] = wire[d] \/ wire'[d] = Append(wire[d], L)
        BY <1>t, <1>1, <2>1, <2>2 DEF ControlTo
      <3>2. /\ \A k \in DOMAIN wire[d] : MsgOK(d, wire[d][k]) /\ ~Late(wire[d][k], announced[d], gone[d])
            /\ \A k \in DOMAIN internal[d] : MsgOK(d, internal[d][k]) /\ ~Late(internal[d][k], announced[d], gone[d])
            /\ Orderly(wire[d], internal[d])
        BY <1>t DEF QueueOK
      <3>3. /\ MsgOK(d, L) /\ ~Late(L, announced[d], gone[d])
            /\ \A m : ~Clash(m, L)
        BY <2>a, <2>3 DEF MsgOK, Late, Clash, SaysIn, PeerLeft
      <3>4. \A m : MsgOK(d, m)' <=> MsgOK(d, m)
        BY <1>1, <2>4 DEF MsgOK
      <3>5. wire[d] \in Seq(Control) /\ internal[d] \in Seq(Control \cup {Lost})
        BY <1>t DEF TypeOK
      <3>6. Orderly(Append(wire[d], L), internal[d])
        BY <2>5, <3>2, <3>3, <3>5, OrderlyAppend
      <3>7. \A k \in DOMAIN Append(wire[d], L) :
              Append(wire[d], L)[k] = L \/ \E j \in DOMAIN wire[d] : Append(wire[d], L)[k] = wire[d][j]
        <4>1. /\ Len(wire[d]) \in Nat
              /\ DOMAIN wire[d] = 1 .. Len(wire[d])
              /\ DOMAIN Append(wire[d], L) = 1 .. Len(wire[d]) + 1
              /\ \A k \in 1 .. Len(wire[d]) : Append(wire[d], L)[k] = wire[d][k]
              /\ Append(wire[d], L)[Len(wire[d]) + 1] = L
          BY <2>5, <3>5, AppendFacts
        <4> QED
          BY <4>1
      <3>8. CASE wire'[d] = wire[d]
        BY <3>1, <3>2, <3>4, <3>8 DEF QueueOK
      <3>9. CASE wire'[d] = Append(wire[d], L)
        BY <3>1, <3>2, <3>3, <3>4, <3>6, <3>7, <3>9 DEF QueueOK
      <3> QED
        BY <3>1, <3>8, <3>9
    <2>10. ViewsAgree'
      <3> SUFFICES ASSUME NEW d \in links \ {c}, Carries(d), NEW p \in Ids \ {HOST_ID, peer[d]}
                   PROVE  Agree(wire'[d], internal[d], announced'[d], LinkIds \ {q}, p)
        BY <1>1, <2>4 DEF ViewsAgree, Carries
      <3>0. d \in Clients
        BY <1>t DEF TypeOK
      <3>1. announced'[d] = announced[d] /\ wire'[d] = Append(wire[d], L)
        BY <1>t, <2>1, <2>2, <3>0 DEF ControlTo
      <3>2. Agree(wire[d], internal[d], announced[d], LinkIds, p)
        BY <1>t DEF ViewsAgree
      <3>3. /\ Mentions(L, p) => (p \in LinkIds \ {q} <=> SaysIn(L, p))
            /\ ~Mentions(L, p) => (p \in LinkIds \ {q} <=> p \in LinkIds)
        BY <2>a DEF Mentions, SaysIn, SaysOut, PeerLeft
      <3>4. wire[d] \in Seq(Control) /\ internal[d] \in Seq(Control \cup {Lost})
        BY <1>t, <3>0 DEF TypeOK
      <3>5. Agree(Append(wire[d], L), internal[d], announced[d], LinkIds \ {q}, p)
        BY <2>5, <3>2, <3>3, <3>4, AgreeAppend
      <3> QED
        BY <3>1, <3>5
    <2> QED
      BY <2>6, <2>7, <2>8, <2>9, <2>10
  <1> QED
    BY <1>2, <1>3

\* Every step keeps the invariant.
LEMMA InvStep == IInv /\ [Next]_vars => IInv'
  <1> SUFFICES ASSUME IInv, [Next]_vars PROVE IInv'
    OBVIOUS
  <1>1. TInv'
    BY TypeStep DEF IInv
  <1>2. /\ \A d \in Clients : StageOK(d)'
        /\ IdsOK' /\ (\A d \in Clients : QueueOK(d)') /\ NoReturn' /\ ViewsAgree'
    BY PlainSteps, ConnectStep, ReadStep, WatchStep, CloseStep, HostCloseStep,
       ApplyStep, LostStep, AcceptStep, HostLostStep DEF Next
  <1> QED
    BY <1>1, <1>2 DEF IInv

\* The invariant gives the client ids their meaning.
LEMMA InvIds == IInv => IdsAgree
  BY DEF IInv, TInv, TypeOK, StageOK, IdsOK, IdsAgree

\* The invariant holds in every reachable state.
LEMMA Invariant == Spec => []IInv
  BY InvInit, InvStep, PTL DEF Spec

\* Membership agreement: in every reachable state of a session with any number
\* of clients, what each connected client has applied and what is on its way
\* to it amount to the host's roster.
THEOREM RosterAgreement == Spec => []ViewsAgree
  <1>1. IInv => ViewsAgree
    BY DEF IInv
  <1> QED
    BY <1>1, Invariant, PTL

\* A peer a session reported as disconnected is never announced by it again.
THEOREM NoGhosts == Spec => []NoReturn
  <1>1. IInv => NoReturn
    BY DEF IInv
  <1> QED
    BY <1>1, Invariant, PTL

\* The id a client learns is the one the host knows it by, and no one else's.
THEOREM DistinctIds == Spec => []IdsAgree
  BY InvIds, Invariant, PTL

----------------------------------------------------------------------------
(* Whom the host's packets reach.  TargetsRespected is about what was       *)
(* delivered, while State::send chooses the links long before: the choice  *)
(* has to stay right while the packet is in flight.  It does because a      *)
(* client's id, once given, is its own for good, and because nothing is     *)
(* sent to a connection that has none.                                     *)

Fits(t, id) == t = id \/ (t <= 0 /\ -t # id)

Addressed ==
    \A c \in Clients :
      /\ peer[c] = 0 => down[c] = <<>> /\ delivered[c] = {}
      /\ \A i \in DOMAIN down[c] : Fits(down[c][i].to, peer[c])
      /\ \A d \in delivered[c] : Fits(d.pkt.to, peer[c])

\* Nothing is in flight at the start.
LEMMA AddressedInit == Init => Addressed
  <1> SUFFICES ASSUME Init, NEW c \in Clients
               PROVE  /\ down[c] = <<>> /\ delivered[c] = {}
                      /\ DOMAIN down[c] = {}
    BY DEF Addressed
  <1>1. down[c] = <<>> /\ delivered[c] = {}
    BY DEF Init, Nodes
  <1> QED
    BY <1>1

\* State::send's choice among the host's links: a link it picks fits the target.
LEMMA RouteFits ==
    ASSUME IInv, NEW c \in links, NEW t \in Targets, peer[c] \in Route(LinkIds, t)
    PROVE  Fits(t, peer[c]) /\ peer[c] # 0
  <1>1. c \in Clients /\ peer[c] # 0 /\ peer[c] \in GivenIds /\ peer[c] \in Int
    BY MaxIdAssumption DEF IInv, TInv, TypeOK, StageOK, IdsOK
  <1>2. peer[c] # HOST_ID
    BY <1>1, MaxIdAssumption DEF GivenIds, FIRST_CLIENT_ID, HOST_ID, IInv, TInv, TypeOK
  <1>3. t \in Int
    BY MaxIdAssumption DEF Targets
  <1>4. CASE t <= 0
    BY <1>1, <1>3, <1>4 DEF Route, Fits
  <1>5. CASE ~(t <= 0)
    BY <1>1, <1>2, <1>5 DEF Route, Fits
  <1> QED
    BY <1>1, <1>4, <1>5

\* HostSend: the new packet fits every link it goes to, and those have an id.
LEMMA SendAddressed ==
    ASSUME IInv, Addressed, NEW t \in Targets, HostSend(t)
    PROVE  Addressed'
  <1> DEFINE pkt == [from |-> Host, to |-> t]
  <1> SUFFICES ASSUME NEW c \in Clients
               PROVE  /\ peer[c] = 0 => down'[c] = <<>> /\ delivered[c] = {}
                      /\ \A i \in DOMAIN down'[c] : Fits(down'[c][i].to, peer[c])
                      /\ \A d \in delivered[c] : Fits(d.pkt.to, peer[c])
    BY DEF HostSend, hostVars, Addressed
  <1>1. CASE c \in links /\ peer[c] \in Route(LinkIds, t) /\ Carries(c)
    <2>1. Fits(t, peer[c]) /\ peer[c] # 0
      BY <1>1, RouteFits
    <2>2. down'[c] = Append(down[c], pkt)
      BY <1>1 DEF HostSend
    <2>3. down[c] \in Seq(Packet) /\ pkt \in Packet
      BY DEF IInv, TInv, TypeOK, Packet, Nodes
    <2>4. pkt.to = t
      OBVIOUS
    <2> HIDE DEF pkt
    <2>5. /\ Len(down[c]) \in Nat
          /\ DOMAIN down[c] = 1 .. Len(down[c])
          /\ DOMAIN down'[c] = 1 .. Len(down[c]) + 1
          /\ \A k \in 1 .. Len(down[c]) : down'[c][k] = down[c][k]
          /\ down'[c][Len(down[c]) + 1] = pkt
      BY <2>2, <2>3, AppendFacts
    <2>6. ASSUME NEW i \in DOMAIN down'[c] PROVE Fits(down'[c][i].to, peer[c])
      <3>1. CASE i \in 1 .. Len(down[c])
        BY <2>5, <3>1 DEF Addressed
      <3>2. CASE i = Len(down[c]) + 1
        BY <2>1, <2>4, <2>5, <3>2
      <3> QED
        BY <2>5, <3>1, <3>2
    <2> QED
      BY <2>1, <2>6 DEF Addressed
  <1>2. CASE ~(c \in links /\ peer[c] \in Route(LinkIds, t) /\ Carries(c))
    <2>1. down'[c] = down[c]
      BY <1>2 DEF HostSend
    <2> QED
      BY <2>1 DEF Addressed
  <1> QED
    BY <1>1, <1>2

\* ClientDeliver: the head of the stream becomes an event.
LEMMA DeliverAddressed ==
    ASSUME IInv, Addressed, NEW c \in Clients, ClientDeliver(c)
    PROVE  Addressed'
  <1>1. /\ down' = [down EXCEPT ![c] = Tail(@)] /\ down[c] # <<>>
        /\ peer' = peer
        /\ delivered' = [delivered EXCEPT ![c] = @ \cup
             {[pkt |-> Head(down[c]), peer |-> HOST_ID, known |-> HOST_ID \in announced[c]]}]
    BY DEF ClientDeliver, Deliver, hostVars
  <1>2. /\ down \in [Clients -> Seq(Packet)] /\ c \in Nodes /\ Clients \subseteq Nodes
        /\ DOMAIN delivered = Nodes
    BY DEF IInv, TInv, TypeOK, Nodes
  <1>3. \A d \in Clients \ {c} : down'[d] = down[d] /\ delivered'[d] = delivered[d]
    BY <1>1, <1>2
  <1>4. /\ down'[c] = Tail(down[c])
        /\ delivered'[c] = delivered[c] \cup
             {[pkt |-> Head(down[c]), peer |-> HOST_ID, known |-> HOST_ID \in announced[c]]}
    BY <1>1, <1>2
  <1>5. /\ Head(down[c]) = down[c][1]
        /\ Len(down[c]) \in Nat \ {0}
        /\ DOMAIN down[c] = 1 .. Len(down[c])
        /\ DOMAIN down'[c] = 1 .. Len(down[c]) - 1
        /\ \A k \in 1 .. Len(down[c]) - 1 : down'[c][k] = down[c][k + 1]
    BY <1>1, <1>2, <1>4, TailFacts
  <1>6. peer[c] # 0
    BY <1>1 DEF Addressed
  <1>7. \A i \in DOMAIN down'[c] : Fits(down'[c][i].to, peer[c])
    <2> SUFFICES ASSUME NEW i \in DOMAIN down'[c] PROVE Fits(down'[c][i].to, peer[c])
      OBVIOUS
    <2>1. i + 1 \in DOMAIN down[c] /\ down'[c][i] = down[c][i + 1]
      BY <1>5
    <2> QED
      BY <2>1 DEF Addressed
  <1>8. \A d \in delivered'[c] : Fits(d.pkt.to, peer[c])
    <2>1. Fits(down[c][1].to, peer[c])
      BY <1>5 DEF Addressed
    <2> SUFFICES ASSUME NEW d \in delivered'[c] PROVE Fits(d.pkt.to, peer[c])
      OBVIOUS
    <2>2. d \in delivered[c] \/ d.pkt = down[c][1]
      BY <1>4, <1>5
    <2> QED
      BY <2>1, <2>2 DEF Addressed
  <1> QED
    BY <1>1, <1>3, <1>6, <1>7, <1>8 DEF Addressed

\* Every step keeps the packets in flight and delivered where they belong.
LEMMA AddressedStep == IInv /\ Addressed /\ [Next]_vars => Addressed'
  <1> SUFFICES ASSUME IInv, Addressed, [Next]_vars PROVE Addressed'
    OBVIOUS
  <1>1. ASSUME UNCHANGED <<peer, down, delivered>> PROVE Addressed'
    BY <1>1 DEF Addressed
  <1>2. CASE UNCHANGED vars
    BY <1>1, <1>2 DEF vars, hostVars, dataVars
  <1>3. ASSUME NEW c \in Clients, HostAccept(c) PROVE Addressed'
    <2>1. down[c] = <<>> /\ delivered[c] = {}
      BY <1>3 DEF HostAccept, Addressed, IInv, StageOK
    <2>2. UNCHANGED <<down, delivered>> /\ \A d \in Clients \ {c} : peer'[d] = peer[d]
      BY <1>3 DEF HostAccept, dataVars, IInv, TInv, TypeOK
    <2>3. DOMAIN down[c] = {}
      BY <2>1
    <2> QED
      BY <2>1, <2>2, <2>3 DEF Addressed
  <1>4. ASSUME NEW c \in Clients, HostDeliver(c) PROVE Addressed'
    <2>1. UNCHANGED <<peer, down>>
      BY <1>4 DEF HostDeliver, hostVars
    <2>2. \A d \in Clients : delivered'[d] = delivered[d]
      BY <1>4, HostAssumption DEF HostDeliver, Deliver, IInv, TInv, TypeOK, Nodes
    <2> QED
      BY <2>1, <2>2 DEF Addressed
  <1>5. ASSUME NEW c \in Clients, ClientDeliver(c) PROVE Addressed'
    BY <1>5, DeliverAddressed
  <1>6. ASSUME NEW t \in Targets, HostSend(t) PROVE Addressed'
    BY <1>6, SendAddressed
  <1>7. ASSUME NEW c \in Clients, NEW t \in Targets, ClientSend(c, t) PROVE Addressed'
    BY <1>1, <1>7 DEF ClientSend, hostVars
  <1>8. CASE HostClose
    BY <1>1, <1>8 DEF HostClose, dataVars
  <1>9. ASSUME NEW c \in Clients,
               \/ DialFails(c) \/ Connect(c) \/ ReadControl(c) \/ ClientWatch(c)
               \/ ApplyControl(c) \/ ClientLost(c)
        PROVE  Addressed'
    BY <1>1, <1>9 DEF DialFails, Connect, ReadControl, ClientWatch, ApplyControl, ClientLost,
                      hostVars, dataVars
  <1>10. ASSUME NEW c \in Clients,
                \/ ClientDisconnect(c) \/ ClientClose(c) \/ ClientEndCloses(c)
                \/ HostEndCloses(c) \/ HostWatch(c) \/ HostLost(c) \/ HostDisconnect(c)
         PROVE  Addressed'
    BY <1>1, <1>10 DEF ClientDisconnect, ClientClose, ClientEndCloses, HostEndCloses,
                       HostWatch, HostLost, HostDisconnect, hostVars, dataVars
  <1> QED
    BY <1>2, <1>3, <1>4, <1>5, <1>6, <1>7, <1>8, <1>9, <1>10 DEF Next

\* The host's packets reach nobody they were not for: in a session with any
\* number of clients, whatever joined and left while a packet was in flight,
\* what a client is given was sent to its id, to everyone, or to everyone but
\* another (State::send, read_stream).
THEOREM TargetsAreRespected == Spec => []TargetsRespected
  <1>1. Addressed => TargetsRespected
    BY DEF Addressed, TargetsRespected, Fits
  <1> QED
    BY <1>1, Invariant, AddressedInit, AddressedStep, PTL DEF Spec

----------------------------------------------------------------------------
(* The datagrams of one channel of a link. *)

\* What is needed of the limits.
LEMMA SequenceLimits == MAX \in Nat /\ MAX >= 3 /\ Half \in Nat /\ Half <= MAX
  BY ModulusAssumption DEF MAX, Half

\* Two ordered packets less than a cycle apart: their sequence numbers differ
\* as their ordinals do, or by a wrap less.
Apart(a, s, b, t) ==
    a > 0 /\ a <= b /\ b - a < MAX => t - s = b - a \/ t - s = b - a - MAX

\* Exactly the ordered packets have a sequence number.
Numbered ==
    /\ \A d \in flight : d.n = 0 <=> d.seq = 0
    /\ last = 0 <=> seen = 0
    /\ issued = 0 <=> counter = 0

\* Sequence numbers under way, seen last and sent last are as far apart as
\* what they stand for.
Spaced ==
    /\ \A d \in flight : Apart(d.n, d.seq, issued, counter)
    /\ \A d \in flight : Apart(last, seen, d.n, d.seq)
    /\ \A d, e \in flight : Apart(d.n, d.seq, e.n, e.seq)
    /\ Apart(last, seen, issued, counter)

\* Until the first wrap a sequence number is the ordinal, and until half of
\* them are used the last datagram delivered is the newest.
Plain ==
    /\ issued <= Half =>
         /\ counter = issued
         /\ seen = last
         /\ \A d \in flight : d.seq = d.n
         /\ \A n \in got : n <= last

GInv == DatagramsTypeOK /\ Numbered /\ Spaced /\ Plain

\* The initial state satisfies the invariant.
LEMMA GInit == DatagramsInit => GInv
  <1> SUFFICES ASSUME DatagramsInit PROVE GInv
    OBVIOUS
  <1> USE SequenceLimits, MaxPacketsAssumption DEF DatagramsInit
  <1>1. stream \in Seq(Ordinals)
    <2>1. stream = <<>>
      OBVIOUS
    <2> QED
      BY <2>1
  <1>w. warned \in BOOLEAN
    OBVIOUS
  <1>2. DatagramsTypeOK
    <2>1. issued \in 0 .. sends /\ counter \in 0 .. MAX /\ seen \in 0 .. MAX /\ sends \in 0 .. MaxPackets
      OBVIOUS
    <2>2. last \in Ordinals
      BY DEF Ordinals
    <2>3. flight \subseteq [n : Ordinals, seq : 0 .. MAX] /\ got \subseteq Ordinals /\ got_stream \subseteq Ordinals
      OBVIOUS
    <2> QED
      BY <1>1, <1>w, <2>1, <2>2, <2>3 DEF DatagramsTypeOK
  <1>3. Numbered /\ Spaced /\ Plain
    BY DEF Numbered, Spaced, Apart, Plain
  <1> QED
    BY <1>2, <1>3 DEF GInv

\* Sending an ordered packet.
LEMMA SendPacketStep ==
    ASSUME GInv, NEW mode \in Modes, NEW oversized \in BOOLEAN, Send(mode, oversized)
    PROVE  GInv'
  <1> USE SequenceLimits, MaxPacketsAssumption
  <1>1. sends \in Nat /\ issued \in Nat /\ counter \in 0 .. MAX /\ seen \in 0 .. MAX /\ last \in 0 .. issued
    BY DEF GInv, DatagramsTypeOK, Ordinals
  <1>2. \A d \in flight : d.n \in 0 .. issued /\ d.seq \in 0 .. MAX
    BY DEF GInv, DatagramsTypeOK, Ordinals
  <1>3. /\ sends' = sends + 1 /\ sends < MaxPackets
        /\ seen' = seen /\ last' = last /\ got' = got /\ got_stream' = got_stream
        /\ warned' \in BOOLEAN
    BY DEF Send, GInv, DatagramsTypeOK
  <1>4. CASE mode # "UnreliableOrdered"
    <2>1. /\ issued' = issued /\ counter' = counter
          /\ flight' = flight \/ flight' = flight \cup {[n |-> 0, seq |-> 0]}
          /\ stream' = stream \/ stream' = Append(stream, 0)
      BY <1>4 DEF Send
    <2>2. \A d \in flight' : d \in flight \/ (d.n = 0 /\ d.seq = 0)
      BY <2>1
    <2>3. DatagramsTypeOK'
      BY <1>1, <1>3, <2>1, SMTT(30) DEF GInv, DatagramsTypeOK, Ordinals
    <2>4. Numbered' /\ Spaced' /\ Plain'
      BY <1>1, <1>2, <1>3, <2>1, <2>2 DEF GInv, Numbered, Spaced, Apart, Plain
    <2> QED
      BY <2>3, <2>4 DEF GInv
  <1>5. CASE mode = "UnreliableOrdered"
    <2> DEFINE n == issued + 1
               s == NextSequence(counter)
    <2>1. /\ issued' = n /\ counter' = s
          /\ \/ flight' = flight \cup {[n |-> n, seq |-> s]} /\ stream' = stream
             \/ flight' = flight /\ stream' = Append(stream, n)
      BY <1>5 DEF Send
    <2>2. s \in 1 .. MAX /\ (s = counter + 1 \/ (s = 1 /\ counter = MAX))
      BY <1>1 DEF NextSequence
    <2>3. \A d \in flight' : d \in flight \/ (d.n = n /\ d.seq = s)
      BY <2>1
    <2>4. DatagramsTypeOK'
      <3>1. n \in 0 .. n /\ 0 .. issued \subseteq 0 .. n
        BY <1>1
      <3>2. stream \in Seq(0 .. n)
        BY <3>1 DEF GInv, DatagramsTypeOK, Ordinals
      <3>3. stream' \in Seq(0 .. n)
        BY <2>1, <3>1, <3>2
      <3>4. flight' \subseteq [n : 0 .. n, seq : 0 .. MAX]
        BY <2>1, <2>2, <3>1 DEF GInv, DatagramsTypeOK, Ordinals
      <3> QED
        BY <1>1, <1>3, <2>1, <2>2, <3>1, <3>3, <3>4 DEF GInv, DatagramsTypeOK, Ordinals
    <2> HIDE DEF s
    <2>5. Numbered'
      BY <1>1, <1>2, <1>3, <2>1, <2>2, <2>3 DEF GInv, Numbered
    <2>6. \A d \in flight : Apart(d.n, d.seq, n, s)
      BY <1>1, <1>2, <2>2 DEF GInv, Numbered, Spaced, Apart
    <2>7. Apart(last, seen, n, s)
      BY <1>1, <2>2 DEF GInv, Numbered, Spaced, Apart
    <2>8. Apart(n, s, n, s)
      BY <1>1, <2>2 DEF Apart
    <2>9. \A d \in flight : Apart(n, s, d.n, d.seq)
      BY <1>1, <1>2 DEF Apart
    <2> HIDE DEF n
    <2>10. Spaced'
      <3>1. \A d \in flight' : Apart(d.n, d.seq, n, s) /\ Apart(last, seen, d.n, d.seq)
        BY <2>3, <2>6, <2>7, <2>8 DEF GInv, Spaced
      <3>2. \A d, e \in flight' : Apart(d.n, d.seq, e.n, e.seq)
        BY <2>3, <2>6, <2>8, <2>9 DEF GInv, Spaced
      <3> QED
        BY <1>3, <2>1, <2>7, <3>1, <3>2 DEF Spaced, Apart
    <2>11. Plain'
      <3> SUFFICES ASSUME issued' <= Half PROVE Plain'
        BY DEF Plain
      <3>1. n = issued + 1 /\ issued <= Half /\ counter = issued /\ s = n
        BY <1>1, <2>1, <2>2 DEF n, GInv, Plain
      <3> QED
        BY <1>3, <2>1, <2>3, <3>1 DEF GInv, Plain
    <2> QED
      BY <2>4, <2>5, <2>10, <2>11 DEF GInv
  <1> QED
    BY <1>4, <1>5

\* The datagram reader, and what it passes on.
LEMMA DatagramStep ==
    ASSUME GInv, NEW d \in flight, ReadDatagram(d)
    PROVE  GInv' /\ (issued <= Half => \A n \in got' \ got : \A m \in got : m < n)
  <1> USE SequenceLimits
  <1>1. /\ issued \in Nat /\ last \in 0 .. issued /\ seen \in 0 .. MAX /\ got \subseteq 0 .. issued
        /\ d.n \in 0 .. issued /\ d.seq \in 0 .. MAX
    BY MaxPacketsAssumption DEF GInv, DatagramsTypeOK, Ordinals
  <1>2. CASE d.seq = 0 \/ Stale(d.seq)
    BY <1>2 DEF ReadDatagram, GInv, DatagramsTypeOK, Ordinals, Numbered, Spaced, Apart, Plain
  <1>3. CASE ~(d.seq = 0 \/ Stale(d.seq))
    <2>1. /\ seen' = d.seq /\ last' = d.n /\ got' = got \cup {d.n} /\ flight' = flight \ {d}
          /\ UNCHANGED <<counter, warned, stream, issued, got_stream, sends>>
      BY <1>3 DEF ReadDatagram
    <2>2. DatagramsTypeOK'
      BY <1>1, <2>1 DEF GInv, DatagramsTypeOK, Ordinals
    <2>3. Numbered'
      BY <2>1 DEF GInv, Numbered
    <2>4. Spaced'
      BY <2>1 DEF GInv, Spaced, Apart
    <2>5. issued <= Half => last <= d.n
      <3> SUFFICES ASSUME issued <= Half PROVE last <= d.n
        OBVIOUS
      <3>1. seen = last /\ d.seq = d.n
        BY DEF GInv, Plain
      <3>2. d.seq >= 1 /\ (d.seq >= seen \/ seen - d.seq >= Half)
        BY <1>1, <1>3 DEF Stale
      <3> QED
        BY <1>1, <3>1, <3>2
    <2>6. Plain'
      BY <1>1, <2>1, <2>5 DEF GInv, Plain
    <2>7. issued <= Half => \A n \in got' \ got : \A m \in got : m < n
      BY <1>1, <2>1, <2>5 DEF GInv, Plain
    <2> QED
      BY <2>2, <2>3, <2>4, <2>6, <2>7 DEF GInv
  <1> QED
    BY <1>2, <1>3

\* A lost datagram, and a frame read from the stream.
LEMMA StreamStep ==
    ASSUME GInv, (\E d \in flight : Lose(d)) \/ ReadStream \/ UNCHANGED datagramVars
    PROVE  GInv' /\ got' = got
  <1>1. CASE \E d \in flight : Lose(d)
    BY <1>1 DEF Lose, GInv, DatagramsTypeOK, Ordinals, Numbered, Spaced, Apart, Plain
  <1>2. CASE ReadStream
    <2>1. DatagramsTypeOK'
      <3>1. stream \in Seq(Ordinals) /\ stream # <<>>
        BY <1>2 DEF ReadStream, GInv, DatagramsTypeOK
      <3>2. Tail(stream) \in Seq(Ordinals) /\ Head(stream) \in Ordinals
        BY <3>1
      <3> QED
        BY <1>2, <3>2 DEF ReadStream, GInv, DatagramsTypeOK, Ordinals
    <2> QED
      BY <1>2, <2>1 DEF ReadStream, GInv, Numbered, Spaced, Apart, Plain
  <1>3. CASE UNCHANGED datagramVars
    BY <1>3 DEF datagramVars, GInv, DatagramsTypeOK, Ordinals, Numbered, Spaced, Apart, Plain
  <1> QED
    BY <1>1, <1>2, <1>3

\* Every step keeps the invariant and delivers in order.
LEMMA PacketStep ==
    ASSUME GInv, [DatagramsNext]_datagramVars
    PROVE  GInv' /\ (issued <= Half => \A n \in got' \ got : \A m \in got : m < n)
  <1>1. ASSUME NEW mode \in Modes, NEW oversized \in BOOLEAN, Send(mode, oversized)
        PROVE  GInv' /\ got' = got
    BY <1>1, SendPacketStep DEF Send
  <1> QED
    BY <1>1, DatagramStep, StreamStep DEF DatagramsNext

\* The invariant holds in every reachable state.
LEMMA GInvariant == DatagramsSpec => []GInv
  <1>1. GInv /\ [DatagramsNext]_datagramVars => GInv'
    BY PacketStep
  <1> QED
    BY <1>1, GInit, PTL DEF DatagramsSpec

\* Ordered datagrams are delivered in the order they were sent until half the
\* sequence numbers of the channel are used.
THEOREM OrderedDelivery == DatagramsSpec => InOrderUntilHalf
  <1>1. GInv /\ [DatagramsNext]_datagramVars =>
          [issued <= Half => \A n \in got' \ got : \A m \in got : m < n]_datagramVars
    BY PacketStep
  <1> QED
    BY <1>1, GInvariant, PTL DEF DatagramsSpec, InOrderUntilHalf

\* However often the counter wrapped, the reader takes no datagram for stale
\* that is newer than the last one delivered by at most half a cycle.
THEOREM WrapIsTolerated == DatagramsSpec => []FreshIsNotStale
  <1>1. GInv => FreshIsNotStale
    <2> SUFFICES ASSUME GInv, NEW d \in flight, d.n > last, d.n - last <= MAX - Half, Stale(d.seq)
                 PROVE  FALSE
      BY DEF FreshIsNotStale
    <2>1. issued \in Nat /\ last \in 0 .. issued /\ seen \in 0 .. MAX
          /\ d.n \in 0 .. issued /\ d.seq \in 0 .. MAX
      BY MaxPacketsAssumption DEF GInv, DatagramsTypeOK, Ordinals
    <2>2. seen > 0 /\ last > 0
      BY <2>1, SequenceLimits DEF Stale, GInv, Numbered
    <2>3. Half >= 1
      BY ModulusAssumption DEF Half, MAX
    <2>4. d.seq - seen = d.n - last \/ d.seq - seen = d.n - last - MAX
      BY <2>1, <2>2, <2>3, SequenceLimits DEF GInv, Spaced, Apart
    <2> QED
      BY <2>1, <2>4, SequenceLimits DEF Stale
  <1> QED
    BY <1>1, GInvariant, PTL

=============================================================================
