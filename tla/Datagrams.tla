----------------------------- MODULE Datagrams -----------------------------
(***************************************************************************)
(* Game packets on one channel of one link (session.rs: write_reliable,    *)
(* write_datagram, spawn_stream_writer, spawn_readers, read_stream).        *)
(*                                                                         *)
(* A channel has a reliable stream, and datagrams with a sequence number:   *)
(* 0 for unordered packets, and for ordered ones a counter that wraps past  *)
(* zero.  The receiver keeps the last sequence it passed on and ignores     *)
(* what it takes to be older.  The stream and the datagrams have a reader   *)
(* task each, and QUIC may lose and reorder datagrams (it never repeats     *)
(* one).                                                                    *)
(*                                                                         *)
(* Ordered packets are numbered from 1 in the order they are sent.  That   *)
(* ordinal is not on the wire: it is what the sequence number stands for.   *)
(* Other packets have ordinal 0.                                            *)
(***************************************************************************)
EXTENDS Integers, Sequences

CONSTANTS
    Modulus,     \* 2^32: sequence numbers are modulo this
    MaxPackets   \* bound: packets sent on the channel

ASSUME ModulusAssumption == Modulus \in Nat /\ Modulus >= 4
ASSUME MaxPacketsAssumption == MaxPackets \in Nat

MAX == Modulus - 1       \* u32::MAX
Half == MAX \div 2       \* u32::MAX / 2

Modes == {"Reliable", "Unreliable", "UnreliableOrdered"}

VARIABLES
    counter,     \* Link::sequences of the channel
    warned,      \* Link::warned holds the channel
    flight,      \* datagrams under way: ordinal and sequence number
    stream,      \* frames on the channel's stream: their ordinals
    seen,        \* the datagram reader's `last` of the channel
    issued,      \* ordered packets sent so far
    last,        \* the ordinal `seen` stands for
    got,         \* ordinals delivered from datagrams
    got_stream,  \* ordinals delivered from the stream
    sends        \* packets sent so far

datagramVars == <<counter, warned, flight, stream, seen, issued, last, got, got_stream, sends>>

DatagramsInit ==
    /\ counter = 0
    /\ warned = FALSE
    /\ flight = {}
    /\ stream = <<>>
    /\ seen = 0
    /\ issued = 0
    /\ last = 0
    /\ got = {}
    /\ got_stream = {}
    /\ sends = 0

----------------------------------------------------------------------------
\* The sequence number after s: wrapping, and never zero.
NextSequence(s) == IF s = MAX THEN 1 ELSE s + 1

\* send_one: by mode and, for a datagram, by whether the framed packet is over
\* the limit, which is the path's and so may change at any time.
Send(mode, oversized) ==
    LET ordered == mode = "UnreliableOrdered"
        n == IF ordered THEN issued + 1 ELSE 0
        sequence == IF ordered THEN NextSequence(counter) ELSE 0
    IN  /\ sends < MaxPackets
        /\ sends' = sends + 1
        /\ issued' = IF ordered THEN n ELSE issued
        /\ counter' = IF ordered THEN sequence ELSE counter
        /\ warned' = (warned \/ (mode # "Reliable" /\ oversized))
        /\ IF mode = "Reliable" \/ oversized
           THEN stream' = Append(stream, n) /\ UNCHANGED flight
           ELSE flight' = flight \cup {[n |-> n, seq |-> sequence]} /\ UNCHANGED stream
        /\ UNCHANGED <<seen, last, got, got_stream>>

\* A datagram is lost on the way.
Lose(d) ==
    /\ flight' = flight \ {d}
    /\ UNCHANGED <<counter, warned, stream, seen, issued, last, got, got_stream, sends>>

\* Mutant: the wrap is not tolerated.
StaleUnwrapped(sequence) == sequence < seen

\* Mutant: nothing is stale.
StaleNever(sequence) == FALSE

\* The datagram reader's test for "older than what we already delivered".
Stale(sequence) == sequence < seen /\ seen - sequence < Half

\* The datagram reader: the unordered are passed on, the stale ignored.
ReadDatagram(d) ==
    /\ flight' = flight \ {d}
    /\ IF d.seq = 0 \/ Stale(d.seq)
       THEN UNCHANGED <<seen, last, got>>
       ELSE /\ seen' = d.seq
            /\ last' = d.n
            /\ got' = got \cup {d.n}
    /\ UNCHANGED <<counter, warned, stream, issued, got_stream, sends>>

\* The stream's reader passes on the next frame.
ReadStream ==
    /\ stream # <<>>
    /\ stream' = Tail(stream)
    /\ got_stream' = got_stream \cup ({Head(stream)} \ {0})
    /\ UNCHANGED <<counter, warned, flight, seen, issued, last, got, sends>>

DatagramsNext ==
    \/ \E mode \in Modes : \E oversized \in BOOLEAN : Send(mode, oversized)
    \/ \E d \in flight : Lose(d) \/ ReadDatagram(d)
    \/ ReadStream

DatagramsSpec == DatagramsInit /\ [][DatagramsNext]_datagramVars

\* The reader tasks are run; datagrams need not arrive.
DatagramsFairness ==
    /\ WF_datagramVars(ReadStream)
    /\ WF_datagramVars(\E d \in flight : Lose(d) \/ ReadDatagram(d))

DatagramsFairSpec == DatagramsSpec /\ DatagramsFairness

----------------------------------------------------------------------------
(* Properties. *)

Ordinals == 0 .. issued

\* Counters, packets under way and packets delivered stay within their types.
DatagramsTypeOK ==
    /\ sends \in 0 .. MaxPackets
    /\ issued \in 0 .. sends
    /\ counter \in 0 .. MAX
    /\ warned \in BOOLEAN
    /\ flight \subseteq [n : Ordinals, seq : 0 .. MAX]
    /\ stream \in Seq(Ordinals)
    /\ seen \in 0 .. MAX
    /\ last \in Ordinals
    /\ got \subseteq Ordinals
    /\ got_stream \subseteq Ordinals

\* Ordered datagrams are delivered in the order they were sent, whatever the
\* network reorders, on a channel that has sent no more than half the sequence
\* numbers.
InOrderUntilHalf ==
    [][issued <= Half => \A n \in got' \ got : \A m \in got : m < n]_datagramVars

\* spawn_readers, "while tolerating the counter wrapping around": a datagram
\* newer than the last one delivered is not taken for stale, across any number
\* of wraps, so long as no more than half the sequence numbers lie between.
FreshIsNotStale ==
    \A d \in flight :
      d.n > last /\ d.n - last <= MAX - Half => ~Stale(d.seq)

----------------------------------------------------------------------------
(* What the comments say, and the code does not do. *)

\* spawn_readers: "Ignore anything older than what we already delivered, while
\* tolerating the counter wrapping around."  A delay of less than half the
\* sequence numbers is no excuse for passing an older datagram on.
OlderIsIgnored ==
    \A d \in flight : d.n > 0 /\ d.n < last /\ last - d.n < Half => Stale(d.seq)

\* write_datagram: "Delivery is kept; ordering guarantees only get stronger."
\* No packet sent as ordered arrives after one that was sent later.
OversizeKeepsOrder ==
    [][\A n \in (got' \cup got_stream') \ (got \cup got_stream) :
         \A m \in got \cup got_stream : m < n]_datagramVars

=============================================================================
