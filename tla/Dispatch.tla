------------------------------ MODULE Dispatch ------------------------------
(***************************************************************************)
(* The dispatcher of one endpoint (dispatch.rs): a registry of claimed      *)
(* ALPNs behind a mutex, the ALPN list the endpoint negotiates, which is    *)
(* republished after every change of the registry but outside its lock,    *)
(* and the accept loop with one task per incoming connection.              *)
(*                                                                         *)
(* A claimant is one call of Dispatcher::register: a hosting session, a    *)
(* listener, or one of the gossip, blobs and documents services.  Every    *)
(* register runs on the main thread, and so does every drop but that of a  *)
(* hosting session, whose registration lives in the session's task.  A     *)
(* claimant is itself the identity of its channel of connections.          *)
(***************************************************************************)
EXTENDS Naturals, FiniteSets

CONSTANTS
    AlpnNames,   \* protocol identifiers
    Claimants,   \* calls of register
    Sessions,    \* the claimants that are hosting sessions
    HostAlpn,    \* session.rs's ALPN
    Dials,       \* incoming connection attempts
    NoOne        \* no claimant

ASSUME NoOneAssumption == NoOne \notin Claimants
ASSUME SessionsAssumption == Sessions \subseteq Claimants /\ HostAlpn \in AlpnNames

VARIABLES
    protocols,   \* the registry: which claimant holds each ALPN
    published,   \* the ALPNs the endpoint negotiates
    open,        \* the endpoint has not been closed
    stage,       \* how far each claimant's register or drop has come
    want,        \* the ALPN each claimant asked for
    snap,        \* the keys publish_alpns collected, not yet set
    refuse,      \* Protocol::refuse of each claimant
    wish,        \* IrohPeer::refuse_new_connections of each claimant
    dial         \* each attempt: where it is, its ALPN, whom it is routed to

claimVars == <<stage, want, snap, refuse, wish>>
dispatchVars == <<protocols, published, open, claimVars, dial>>

Claimed == {a \in AlpnNames : protocols[a] # NoOne}

DispatchInit ==
    /\ protocols = [a \in AlpnNames |-> NoOne]
    /\ published = {}
    /\ open = TRUE
    /\ stage = [o \in Claimants |-> "idle"]
    /\ want \in {w \in [Claimants -> AlpnNames] : \A o \in Sessions : w[o] = HostAlpn}
    /\ snap = [o \in Claimants |-> {}]
    /\ refuse = [o \in Claimants |-> FALSE]
    /\ wish \in {w \in [Claimants -> BOOLEAN] : \A o \in Claimants \ Sessions : ~w[o]}
    /\ dial \in [Dials -> [at : {"idle"}, alpn : AlpnNames, to : {NoOne}]]

----------------------------------------------------------------------------
(* Claiming: insert under the lock, collect the keys under the lock again,  *)
(* hand them to the endpoint under no lock.                                *)

\* The main thread is inside register, host() or a drop.
MainBusy ==
    \E o \in Claimants :
      \/ stage[o] \in {"inserted", "collected", "registered"}
      \/ o \notin Sessions /\ stage[o] \in {"removed", "recollected"}

\* Mutant: a taken ALPN is taken over.
RegisterUnchecked(o) ==
    /\ stage[o] = "idle"
    /\ ~MainBusy
    /\ protocols' = [protocols EXCEPT ![want[o]] = o]
    /\ stage' = [stage EXCEPT ![o] = "inserted"]
    /\ UNCHANGED <<published, open, want, snap, refuse, wish, dial>>

\* register: `contains_key` decides; a taken ALPN gives None.
Register(o) ==
    /\ stage[o] = "idle"
    /\ ~MainBusy
    /\ IF protocols[want[o]] = NoOne
       THEN /\ protocols' = [protocols EXCEPT ![want[o]] = o]
            /\ stage' = [stage EXCEPT ![o] = "inserted"]
       ELSE /\ stage' = [stage EXCEPT ![o] = "denied"]
            /\ UNCHANGED protocols
    /\ UNCHANGED <<published, open, want, snap, refuse, wish, dial>>

\* publish_alpns, first half: the keys, as they are now.
CollectKeys(o, from, to) ==
    /\ stage[o] = from
    /\ snap' = [snap EXCEPT ![o] = Claimed]
    /\ stage' = [stage EXCEPT ![o] = to]
    /\ UNCHANGED <<protocols, published, open, want, refuse, wish, dial>>

\* publish_alpns, second half: set_alpns with what was collected.
SetAlpns(o, from, to) ==
    /\ stage[o] = from
    /\ published' = snap[o]
    /\ stage' = [stage EXCEPT ![o] = to]
    /\ UNCHANGED <<protocols, open, want, snap, refuse, wish, dial>>

\* The caller has its Registration.  A host that wants no connections stores
\* its flag only now, in Session::set_refuse_new_connections.
PushRefuse(o) ==
    /\ stage[o] = "registered"
    /\ refuse' = [refuse EXCEPT ![o] = wish[o]]
    /\ stage' = [stage EXCEPT ![o] = "held"]
    /\ UNCHANGED <<protocols, published, open, want, snap, wish, dial>>

\* IrohPeer::set_refuse_new_connections on a running host.
ToggleRefuse(o) ==
    /\ o \in Sessions
    /\ stage[o] = "held"
    /\ wish' = [wish EXCEPT ![o] = ~@]
    /\ refuse' = [refuse EXCEPT ![o] = ~wish[o]]
    /\ UNCHANGED <<protocols, published, open, stage, want, snap, dial>>

\* Claim::drop: remove the key, whoever it maps to, then publish.
DropClaim(o) ==
    /\ stage[o] = "held"
    /\ o \in Sessions \/ ~MainBusy
    /\ protocols' = [protocols EXCEPT ![want[o]] = NoOne]
    /\ stage' = [stage EXCEPT ![o] = "removed"]
    /\ UNCHANGED <<published, open, want, snap, refuse, wish, dial>>

\* The endpoint is closed: accept() returns None and the accept loop ends.
EndpointClose ==
    /\ open
    /\ open' = FALSE
    /\ UNCHANGED <<protocols, published, claimVars, dial>>

----------------------------------------------------------------------------
(* Incoming connections. *)

Place(x, at, to) ==
    dial' = [dial EXCEPT ![x] = [at |-> at, alpn |-> dial[x].alpn, to |-> to]]

Move(x, at) == Place(x, at, dial[x].to)

\* wanted: claimed by a protocol that is accepting.
Wanted(a) == protocols[a] # NoOne /\ ~refuse[protocols[a]]

\* accept_loop: refused if the offer can be read and nobody wants it, else a
\* dispatch task is spawned.  An offer that cannot be read gets its chance.
Accept(x) ==
    /\ dial[x].at = "idle"
    /\ open
    /\ \/ Move(x, "handshake")
       \/ ~Wanted(dial[x].alpn) /\ Move(x, "refused")
    /\ UNCHANGED <<protocols, published, open, claimVars>>

\* The handshake settles on the ALPN if the endpoint negotiates it.
Handshake(x) ==
    /\ dial[x].at = "handshake"
    /\ open
    /\ Move(x, IF dial[x].alpn \in published THEN "connected" ELSE "failed")
    /\ UNCHANGED <<protocols, published, open, claimVars>>

\* The handshake is lost, or the endpoint closed under it.
HandshakeFails(x) ==
    /\ dial[x].at = "handshake"
    /\ Move(x, "failed")
    /\ UNCHANGED <<protocols, published, open, claimVars>>

\* Mutant: the claim is not looked at again after the handshake.
LookupUnchecked(x) ==
    /\ dial[x].at = "connected"
    /\ Place(x, "routed", protocols[dial[x].alpn])
    /\ UNCHANGED <<protocols, published, open, claimVars>>

\* dispatch, under the lock: close it, or take the claimant's sender.
Lookup(x) ==
    /\ dial[x].at = "connected"
    /\ IF Wanted(dial[x].alpn)
       THEN Place(x, "routed", protocols[dial[x].alpn])
       ELSE Move(x, "closed")
    /\ UNCHANGED <<protocols, published, open, claimVars>>

\* dispatch, past the lock: send fails once the claimant's receiver is gone.
Send(x) ==
    /\ dial[x].at = "routed"
    /\ Move(x, IF stage[dial[x].to] = "gone" THEN "dropped" ELSE "queued")
    /\ UNCHANGED <<protocols, published, open, claimVars>>

\* Registration::accept and try_accept: the claimant takes the connection.
Take(x) ==
    /\ dial[x].at = "queued"
    /\ stage[dial[x].to] = "held"
    /\ Move(x, "taken")
    /\ UNCHANGED <<protocols, published, open, claimVars>>

----------------------------------------------------------------------------
Claim(o) ==
    \/ CollectKeys(o, "inserted", "collected")
    \/ SetAlpns(o, "collected", "registered")
    \/ PushRefuse(o)

Republish(o) ==
    \/ CollectKeys(o, "removed", "recollected")
    \/ SetAlpns(o, "recollected", "gone")

Route(x) == Accept(x) \/ Handshake(x) \/ HandshakeFails(x) \/ Lookup(x) \/ Send(x)

DispatchNext ==
    \/ \E o \in Claimants :
         Register(o) \/ Claim(o) \/ ToggleRefuse(o) \/ DropClaim(o) \/ Republish(o)
    \/ EndpointClose
    \/ \E x \in Dials : Route(x) \/ Take(x)

DispatchSpec == DispatchInit /\ [][DispatchNext]_dispatchVars

----------------------------------------------------------------------------
(* Properties. *)

Holding == {"inserted", "collected", "registered", "held"}
Stages == Holding \cup {"idle", "denied", "removed", "recollected", "gone"}
Places == {"idle", "refused", "handshake", "failed", "connected", "closed",
           "routed", "dropped", "queued", "taken"}

\* Every variable of the registry and its callers stays within its type.
DispatchTypeOK ==
    /\ protocols \in [AlpnNames -> Claimants \cup {NoOne}]
    /\ published \subseteq AlpnNames
    /\ open \in BOOLEAN
    /\ stage \in [Claimants -> Stages]
    /\ want \in [Claimants -> AlpnNames]
    /\ snap \in [Claimants -> SUBSET AlpnNames]
    /\ refuse \in [Claimants -> BOOLEAN]
    /\ wish \in {w \in [Claimants -> BOOLEAN] : \A o \in Claimants \ Sessions : ~w[o]}
    /\ dial \in [Dials -> [at : Places, alpn : AlpnNames, to : Claimants \cup {NoOne}]]

\* Claim::drop removes the key without asking whose it is, and that is right:
\* from insertion to drop the entry of a claimant's ALPN is its own, so no
\* release evicts another's claim and no two hold one ALPN.
HolderIsRegistered ==
    /\ \A o \in Claimants : stage[o] \in Holding => protocols[want[o]] = o
    /\ \A a \in AlpnNames : protocols[a] # NoOne =>
         stage[protocols[a]] \in Holding /\ want[protocols[a]] = a

\* A connection is only ever handed to a claimant of the ALPN it negotiated,
\* even when the claim changed hands between lookup and send.
RoutedByAlpn ==
    \A x \in Dials : dial[x].at \in {"routed", "queued", "taken"} =>
      dial[x].to # NoOne /\ want[dial[x].to] = dial[x].alpn

\* With no register or drop under way the endpoint negotiates exactly the
\* claimed ALPNs.
Quiet == \A o \in Claimants : stage[o] \in {"idle", "denied", "held", "gone"}

\* dispatch.rs, start: "the endpoint's ALPN list is derived from the
\* registry".
PublishedIsRegistry == Quiet => published = Claimed

\* peer.rs, set_refuse_new_connections: "so the accept loop turns peers away
\* before the handshake, instead of admitting them": a host that refuses from
\* the outset is handed no connection.
RefuserGetsNone ==
    \A x \in Dials : dial[x].at \in {"queued", "taken"} =>
      ~(wish[dial[x].to] /\ stage[dial[x].to] = "registered")

=============================================================================
