--------------------------- MODULE StreamProofs ---------------------------
(***************************************************************************)
(* Proofs about Stream, for any number of units put by either side: what a *)
(* script reads is an unbroken beginning of what the other put, a clean    *)
(* end means all of it was read, and no write fails without a reason.      *)
(***************************************************************************)
EXTENDS Stream, SequenceTheorems, TLAPS

----------------------------------------------------------------------------
(* The two sides. *)

\* A stream has exactly two sides, each the other of the other.
LEMMA OtherSide ==
    ASSUME NEW s \in Sides
    PROVE  /\ Other(s) \in Sides /\ Other(s) # s /\ Other(Other(s)) = s
           /\ \A x \in Sides : x = s \/ x = Other(s)
  <1>1. \A x \in Sides : /\ Other(x) \in Sides /\ Other(x) # x
                         /\ \A y \in Sides : y = x \/ y = Other(x)
    BY SidesAssumption DEF Other, Sides
  <1> QED
    BY <1>1

----------------------------------------------------------------------------
(* Queues of integers. *)

\* A chunk queued, a unit written or a report sent goes last.
LEMMA AppendFacts ==
    ASSUME NEW q \in Seq(Int), NEW m \in Int
    PROVE  /\ Append(q, m) \in Seq(Int)
           /\ Len(q) \in Nat /\ Len(Append(q, m)) = Len(q) + 1
           /\ DOMAIN q = 1 .. Len(q)
           /\ DOMAIN Append(q, m) = 1 .. Len(q) + 1
           /\ \A k \in 1 .. Len(q) : Append(q, m)[k] = q[k]
           /\ Append(q, m)[Len(q) + 1] = m
           /\ Append(q, m) # <<>>
  OBVIOUS

\* Taking the head of a queue shifts the rest down by one.
LEMMA TailFacts ==
    ASSUME NEW q \in Seq(Int), q # <<>>
    PROVE  /\ Head(q) \in Int /\ Head(q) = q[1]
           /\ Tail(q) \in Seq(Int)
           /\ Len(q) \in Nat \ {0} /\ Len(Tail(q)) = Len(q) - 1
           /\ DOMAIN q = 1 .. Len(q)
           /\ DOMAIN Tail(q) = 1 .. Len(q) - 1
           /\ \A k \in 1 .. Len(q) - 1 : Tail(q)[k] = q[k + 1]
  OBVIOUS

\* State::drain takes the reports up to the end, if there is one.
LEMMA UnitsFacts ==
    ASSUME NEW q \in Seq(Int)
    PROVE  /\ Units(q) \in Seq(Int)
           /\ Len(q) \in Nat /\ DOMAIN q = 1 .. Len(q)
           /\ Len(Units(q)) = IF EndReported(q) THEN Len(q) - 1 ELSE Len(q)
           /\ Len(Units(q)) \in Nat
           /\ DOMAIN Units(q) = 1 .. Len(Units(q))
           /\ \A i \in DOMAIN Units(q) : i \in DOMAIN q /\ Units(q)[i] = q[i]
  <1>0. Len(q) \in Nat /\ DOMAIN q = 1 .. Len(q)
    OBVIOUS
  <1>1. CASE EndReported(q)
    <2>1. Units(q) = SubSeq(q, 1, Len(q) - 1) /\ q # <<>>
      BY <1>1 DEF Units, EndReported
    <2>2. Len(q) \in Nat \ {0}
      BY <1>0, <2>1, EmptySeq
    <2>3. /\ SubSeq(q, 1, Len(q) - 1) \in Seq(Int)
          /\ Len(SubSeq(q, 1, Len(q) - 1)) = Len(q) - 1
          /\ DOMAIN SubSeq(q, 1, Len(q) - 1) = 1 .. Len(q) - 1
          /\ \A i \in 1 .. Len(q) - 1 : SubSeq(q, 1, Len(q) - 1)[i] = q[i]
      BY <1>0, <2>2, SubSeqProperties
    <2> QED
      BY <1>0, <1>1, <2>1, <2>2, <2>3
  <1>2. CASE ~EndReported(q)
    BY <1>0, <1>2 DEF Units
  <1> QED
    BY <1>1, <1>2

\* Nothing reported is no end and no data.
LEMMA NoReports ==
    /\ <<>> \in Seq(Int) /\ Len(<<>>) = 0 /\ DOMAIN <<>> = {}
    /\ ~EndReported(<<>>) /\ Units(<<>>) = <<>>
    /\ \A b : EndOf(<<>>, b) = b
  BY DEF EndReported, Units, EndOf

\* A unit reported after no end is one more to drain.
LEMMA ReportData ==
    ASSUME NEW q \in Seq(Int), NEW m \in Int, m > 0, ~EndReported(q)
    PROVE  ~EndReported(Append(q, m)) /\ Units(Append(q, m)) = Append(q, m) /\ Units(q) = q
  BY AppendFacts DEF EndReported, Units

\* An end reported after no end leaves what there is to drain.
LEMMA ReportEnd ==
    ASSUME NEW q \in Seq(Int), NEW m \in Int, m <= 0, ~EndReported(q)
    PROVE  /\ EndReported(Append(q, m)) /\ Units(q) = q
           /\ Len(Units(Append(q, m))) = Len(q)
           /\ \A i \in DOMAIN Units(Append(q, m)) : i \in DOMAIN q /\ Units(Append(q, m))[i] = q[i]
           /\ \A b : EndOf(Append(q, m), b) = m
  <1>0. PICK a : a = Append(q, m)
    OBVIOUS
  <1>1. /\ a \in Seq(Int) /\ a # <<>> /\ Len(a) = Len(q) + 1 /\ Len(q) \in Nat
        /\ DOMAIN q = 1 .. Len(q) /\ a[Len(a)] = m
        /\ \A k \in 1 .. Len(q) : a[k] = q[k]
    BY <1>0, AppendFacts
  <1>2. EndReported(a)
    BY <1>1 DEF EndReported
  <1>3. /\ Len(Units(a)) = Len(q) /\ DOMAIN Units(a) = 1 .. Len(q)
        /\ \A i \in DOMAIN Units(a) : Units(a)[i] = a[i]
    BY <1>1, <1>2, UnitsFacts
  <1>4. \A i \in DOMAIN Units(a) : i \in DOMAIN q /\ Units(a)[i] = q[i]
    BY <1>1, <1>3
  <1> QED
    BY <1>0, <1>1, <1>2, <1>3, <1>4 DEF Units, EndOf

(* Sums of lengths, kept apart from the sequences they are lengths of. *)

\* A sum of three lengths, grouped either way.
LEMMA SumOfThree ==
    ASSUME NEW a \in Int, NEW b \in Int, NEW c \in Int
    PROVE  a + (b + c) = a + b + c
  OBVIOUS

\* One unit moved from what follows to what comes before.
LEMMA MoveOne ==
    ASSUME NEW a \in Int, NEW b \in Int, NEW c \in Int
    PROVE  (a + (b + 1)) + c = (a + b) + (c + 1) /\ (b + 1) + c = b + (c + 1)
  OBVIOUS

\* A unit that goes from one stage to the next.
LEMMA OneMore ==
    ASSUME NEW a \in Int, NEW b \in Int, NEW c \in Int
    PROVE  a + b + (c + 1) = (a + b + c) + 1 /\ (a + 1) + (b - 1) = a + b
  OBVIOUS

\* What comes after the first a units.
LEMMA After ==
    ASSUME NEW a \in Nat, NEW b \in Nat, NEW i \in Nat, i > 0
    PROVE  /\ a + b \in Nat /\ a + b + i \in Nat /\ a + b + i > 0
           /\ a + 1 > 0 /\ a + 1 \in Int
  OBVIOUS

\* The units after n, in order.
Run(q, n) == \A i \in DOMAIN q : q[i] = n + i

\* The unit that comes next continues a run.
LEMMA RunAppend ==
    ASSUME NEW q \in Seq(Int), NEW n \in Int, Run(q, n)
    PROVE  Run(Append(q, n + Len(q) + 1), n)
  BY AppendFacts DEF Run

\* Taking the head of a run leaves a run.
LEMMA RunTail ==
    ASSUME NEW q \in Seq(Int), NEW n \in Int, Run(q, n), q # <<>>
    PROVE  Head(q) = n + 1 /\ Run(Tail(q), n + 1)
  <1>1. Head(q) = n + 1
    BY TailFacts DEF Run
  <1>2. ASSUME NEW i \in DOMAIN Tail(q) PROVE Tail(q)[i] = (n + 1) + i
    <2>1. i \in Int /\ i + 1 \in DOMAIN q /\ Tail(q)[i] = q[i + 1]
      BY TailFacts
    <2> QED
      BY <2>1 DEF Run
  <1> QED
    BY <1>1, <1>2 DEF Run

\* A run behind the run it follows is one run.
LEMMA RunConcat ==
    ASSUME NEW p \in Seq(Int), NEW q \in Seq(Int), NEW n \in Int,
           NEW m \in Int, m = n + Len(p), Run(p, n), Run(q, m)
    PROVE  p \o q \in Seq(Int) /\ Len(p \o q) = Len(p) + Len(q) /\ Run(p \o q, n)
  <1>1. /\ p \o q \in Seq(Int) /\ Len(p \o q) = Len(p) + Len(q)
        /\ \A i \in 1 .. Len(p) + Len(q) : (p \o q)[i] = IF i <= Len(p) THEN p[i] ELSE q[i - Len(p)]
    BY ConcatProperties
  <1>2. /\ Len(p) \in Nat /\ Len(q) \in Nat
        /\ DOMAIN p = 1 .. Len(p) /\ DOMAIN q = 1 .. Len(q)
        /\ DOMAIN (p \o q) = 1 .. Len(p) + Len(q)
    BY <1>1, LenProperties
  <1>3. ASSUME NEW i \in DOMAIN (p \o q) PROVE (p \o q)[i] = n + i
    <2>1. CASE i <= Len(p)
      BY <1>1, <1>2, <2>1 DEF Run
    <2>2. CASE ~(i <= Len(p))
      <3>1. i - Len(p) \in DOMAIN q
        BY <1>2, <2>2
      <3> QED
        BY <1>1, <1>2, <2>2, <3>1 DEF Run
    <2> QED
      BY <2>1, <2>2
  <1> QED
    BY <1>1, <1>3 DEF Run

\* Cutting a run in two: the first k units, and the run of what is left.
LEMMA RunFirst ==
    ASSUME NEW q \in Seq(Int), NEW n \in Int, Run(q, n), NEW k \in Nat, k <= Len(q)
    PROVE  /\ SubSeq(q, 1, k) \in Seq(Int) /\ Len(SubSeq(q, 1, k)) = k
           /\ Run(SubSeq(q, 1, k), n)
  <1>0. Len(q) \in Nat /\ DOMAIN q = 1 .. Len(q) /\ \A i \in 1 .. Len(q) : q[i] \in Int
    BY LenProperties
  <1>1. PICK t : t = SubSeq(q, 1, k)
    OBVIOUS
  <1>2. /\ t \in Seq(Int) /\ Len(t) = (IF 1 <= k THEN k - 1 + 1 ELSE 0)
        /\ \A i \in 1 .. k - 1 + 1 : t[i] = q[1 + i - 1]
    BY <1>0, <1>1, SubSeqProperties
  <1>3. Len(t) = k
    BY <1>2
  <1>4. DOMAIN t = 1 .. k
    BY <1>2, <1>3, LenProperties
  <1>5. ASSUME NEW i \in DOMAIN t PROVE t[i] = n + i
    <2>1. i \in 1 .. k - 1 + 1 /\ 1 + i - 1 = i /\ i \in DOMAIN q
      BY <1>0, <1>4
    <2>2. t[i] = q[i]
      BY <1>2, <2>1
    <2> QED
      BY <2>1, <2>2 DEF Run
  <1> QED
    BY <1>1, <1>2, <1>3, <1>5 DEF Run

\* The other half of the cut.
LEMMA RunRest ==
    ASSUME NEW q \in Seq(Int), NEW n \in Int, Run(q, n), NEW k \in Nat, k <= Len(q)
    PROVE  /\ SubSeq(q, k + 1, Len(q)) \in Seq(Int)
           /\ Len(SubSeq(q, k + 1, Len(q))) = Len(q) - k
           /\ Run(SubSeq(q, k + 1, Len(q)), n + k)
  <1>0. Len(q) \in Nat /\ DOMAIN q = 1 .. Len(q) /\ \A i \in 1 .. Len(q) : q[i] \in Int
    BY LenProperties
  <1>1. PICK t, c, e : t = SubSeq(q, c, e) /\ c = k + 1 /\ e = Len(q)
    OBVIOUS
  <1>2. c \in Int /\ e \in Int /\ \A i \in c .. e : q[i] \in Int
    BY <1>0, <1>1
  <1>3. /\ t \in Seq(Int) /\ Len(t) = (IF c <= e THEN e - c + 1 ELSE 0)
        /\ \A i \in 1 .. e - c + 1 : t[i] = q[c + i - 1]
    BY <1>1, <1>2, SubSeqProperties
  <1>4. Len(t) = e - k
    <2>1. CASE c <= e
      BY <1>0, <1>1, <1>3, <2>1
    <2>2. CASE ~(c <= e)
      <3>0. e \in Nat /\ k <= e /\ ~(k + 1 <= e)
        BY <1>0, <1>1, <2>2
      <3>1. e - k = 0
        BY <3>0
      <3> QED
        BY <1>3, <2>2, <3>1
    <2> QED
      BY <2>1, <2>2
  <1>5. DOMAIN t = 1 .. e - k
    BY <1>3, <1>4, LenProperties
  <1>6. ASSUME NEW i \in DOMAIN t PROVE t[i] = (n + k) + i
    <2>1. i \in 1 .. e - c + 1 /\ c + i - 1 = k + i /\ k + i \in DOMAIN q /\ i \in Int
      BY <1>0, <1>1, <1>5
    <2>2. t[i] = q[k + i]
      BY <1>3, <2>1
    <2> QED
      BY <2>1, <2>2 DEF Run
  <1> QED
    BY <1>1, <1>3, <1>4, <1>6 DEF Run

\* A run from a natural number on is made of units.
LEMMA RunIsUnits ==
    ASSUME NEW q \in Seq(Int), NEW n \in Nat, Run(q, n)
    PROVE  q \in Seq(Unit)
  <1>1. Len(q) \in Nat /\ q \in [1 .. Len(q) -> Int] /\ DOMAIN q = 1 .. Len(q)
    BY LenProperties
  <1>2. \A i \in 1 .. Len(q) : q[i] \in Unit
    BY <1>1 DEF Run, Unit
  <1> QED
    BY <1>1, <1>2, IsASeq

\* State::take: of what was taken (t) and what there is (all), k more units
\* are taken and the rest is kept.
LEMMA RunTake ==
    ASSUME NEW t \in Seq(Int), NEW all \in Seq(Int), Run(t, 0), Run(all, Len(t)),
           NEW k \in Nat, k <= Len(all)
    PROVE  LET t2 == t \o SubSeq(all, 1, k)
               b2 == SubSeq(all, k + 1, Len(all))
           IN  /\ t2 \in Seq(Int) /\ b2 \in Seq(Int)
               /\ Run(t2, 0) /\ Run(b2, Len(t2))
               /\ Len(t2) + Len(b2) = Len(t) + Len(all)
  <1> DEFINE b2 == SubSeq(all, k + 1, Len(all))
             t2 == t \o SubSeq(all, 1, k)
  <1>1. Len(t) \in Int /\ Len(t) = 0 + Len(t) /\ 0 \in Int /\ Len(all) \in Nat
    BY LenProperties
  <1>2. PICK x : x = SubSeq(all, 1, k)
    OBVIOUS
  <1>3. x \in Seq(Int) /\ Len(x) = k /\ Run(x, Len(t))
    BY <1>1, <1>2, RunFirst
  <1>4. b2 \in Seq(Int) /\ Len(b2) = Len(all) - k /\ Run(b2, Len(t) + k)
    BY <1>1, RunRest
  <1>5. t2 \in Seq(Int) /\ Len(t2) = Len(t) + Len(x) /\ Run(t2, 0)
    BY <1>1, <1>2, <1>3, RunConcat
  <1> HIDE DEF t2, b2
  <1>6. Len(t2) = Len(t) + k
    BY <1>3, <1>5
  <1>7. Run(b2, Len(t2))
    BY <1>4, <1>6
  <1>8. Len(t2) + Len(b2) = Len(t) + Len(all)
    BY <1>1, <1>4, <1>6
  <1> QED
    BY <1>4, <1>5, <1>7, <1>8 DEF t2, b2

\* State::fill: taking the first report.  An end is the only one; a unit
\* leaves the rest to be drained as before.
LEMMA TakeReport ==
    ASSUME NEW q \in Seq(Int), q # <<>>,
           \A i \in DOMAIN q : i # Len(q) => q[i] > 0
    PROVE  /\ Head(q) <= 0 => /\ Tail(q) = <<>> /\ EndReported(q)
                              /\ Len(Units(q)) = 0 /\ q[Len(q)] = Head(q)
           /\ Head(q) > 0 => /\ EndReported(Tail(q)) <=> EndReported(q)
                             /\ Len(Units(q)) = Len(Units(Tail(q))) + 1
                             /\ Units(q)[1] = Head(q) /\ 1 \in DOMAIN Units(q)
                             /\ \A i \in DOMAIN Units(Tail(q)) :
                                  i + 1 \in DOMAIN Units(q) /\ Units(Tail(q))[i] = Units(q)[i + 1]
                             /\ \A b : EndOf(Tail(q), b) = EndOf(q, b)
                             /\ \A i \in DOMAIN Tail(q) : i # Len(Tail(q)) => Tail(q)[i] > 0
  <1>0. PICK t : t = Tail(q)
    OBVIOUS
  <1>1. /\ Head(q) \in Int /\ Head(q) = q[1] /\ t \in Seq(Int)
        /\ Len(q) \in Nat \ {0} /\ Len(t) = Len(q) - 1
        /\ DOMAIN q = 1 .. Len(q) /\ DOMAIN t = 1 .. Len(q) - 1
        /\ \A k \in 1 .. Len(q) - 1 : t[k] = q[k + 1]
    BY <1>0, TailFacts
  <1>2. /\ Len(Units(q)) = IF EndReported(q) THEN Len(q) - 1 ELSE Len(q)
        /\ DOMAIN Units(q) = 1 .. Len(Units(q))
        /\ \A i \in DOMAIN Units(q) : Units(q)[i] = q[i]
    BY UnitsFacts
  <1>3. CASE Head(q) <= 0
    <2>1. Len(q) = 1
      BY <1>1, <1>3
    <2>2. t = <<>>
      BY <1>1, <2>1, EmptySeq
    <2>3. EndReported(q)
      BY <1>1, <1>3, <2>1 DEF EndReported
    <2> QED
      BY <1>0, <1>1, <1>2, <1>3, <2>1, <2>2, <2>3
  <1>4. CASE Head(q) > 0
    <2>1. EndReported(t) <=> EndReported(q)
      <3>1. CASE Len(q) = 1
        <4>1. t = <<>>
          BY <1>1, <3>1, EmptySeq
        <4> QED
          BY <1>1, <1>4, <3>1, <4>1 DEF EndReported
      <3>2. CASE Len(q) # 1
        <4>1. t # <<>> /\ t[Len(t)] = q[Len(q)]
          BY <1>1, <3>2, NoReports
        <4> QED
          BY <4>1 DEF EndReported
      <3> QED
        BY <3>1, <3>2
    <2>2. EndReported(q) => t[Len(t)] = q[Len(q)]
      <3>1. ASSUME EndReported(q) PROVE Len(q) # 1
        BY <1>1, <1>4, <3>1 DEF EndReported
      <3> QED
        BY <1>1, <3>1
    <2>3. /\ Len(Units(t)) = IF EndReported(t) THEN Len(t) - 1 ELSE Len(t)
          /\ Len(Units(t)) \in Nat
          /\ DOMAIN Units(t) = 1 .. Len(Units(t))
          /\ \A i \in DOMAIN Units(t) : i \in DOMAIN t /\ Units(t)[i] = t[i]
      BY <1>1, UnitsFacts
    <2>4. Len(Units(q)) = Len(Units(t)) + 1
      BY <1>1, <1>2, <2>1, <2>3
    <2>5. 1 \in DOMAIN Units(q) /\ Units(q)[1] = Head(q)
      <3>1. 1 \in DOMAIN Units(q)
        BY <1>2, <2>3, <2>4
      <3> QED
        BY <1>1, <1>2, <3>1
    <2>6. ASSUME NEW i \in DOMAIN Units(t)
          PROVE  i + 1 \in DOMAIN Units(q) /\ Units(t)[i] = Units(q)[i + 1]
      <3>0. i \in DOMAIN t /\ Units(t)[i] = t[i] /\ i \in 1 .. Len(Units(t))
        BY <2>3
      <3>1. i \in 1 .. Len(q) - 1 /\ Units(t)[i] = t[i] /\ i + 1 \in DOMAIN Units(q)
        <4>1. i \in 1 .. Len(q) - 1 /\ i \in Nat
          BY <1>1, <3>0
        <4>2. i + 1 \in 1 .. Len(Units(q))
          BY <2>3, <2>4, <3>0
        <4> QED
          BY <1>2, <3>0, <4>1, <4>2
      <3>2. t[i] = q[i + 1]
        BY <1>1, <3>1
      <3> QED
        BY <1>2, <3>1, <3>2
    <2>7. \A b : EndOf(t, b) = EndOf(q, b)
      BY <2>1, <2>2 DEF EndOf
    <2>8. ASSUME NEW i \in DOMAIN t, i # Len(t) PROVE t[i] > 0
      <3>1. i + 1 \in DOMAIN q /\ i + 1 # Len(q) /\ t[i] = q[i + 1]
        BY <1>1, <2>8, SMTT(30)
      <3> QED
        BY <3>1
    <2> QED
      BY <1>0, <1>1, <1>4, <2>1, <2>4, <2>5, <2>6, <2>7, <2>8
  <1> QED
    BY <1>1, <1>3, <1>4

----------------------------------------------------------------------------
(* The inductive invariant.  ReadsArePrefix and CleanEndIsComplete follow   *)
(* the units from put_data at one side to get_data at the other: through    *)
(* the writer's queue, the wire, the reader's reports and the buffer.  What *)
(* makes them inductive is where each unit is in that pipeline: every stage *)
(* holds a run of consecutive units that starts where the stage after it    *)
(* ends.                                                                    *)

\* Units of the other side that reached side s, and those that were sent to it.
Got(s) == Len(taken[s]) + Len(buffered[s]) + Len(Units(reports[s]))
SentTo(s) == Got(s) + Len(wire[Other(s)])

\* The first n chunks of a queue are data.
Data(q, n) == \A j \in 1 .. n : q[j] > 0

\* What side s has read, holds and is about to drain are one run of units,
\* and an end is the last report.
Received(s) ==
    /\ Run(taken[s], 0)
    /\ Run(buffered[s], Len(taken[s]))
    /\ Run(Units(reports[s]), Len(taken[s]) + Len(buffered[s]))
    /\ \A i \in DOMAIN reports[s] : i # Len(reports[s]) => reports[s][i] > 0
    /\ Len(taken[s]) <= put[Other(s)]

\* The tasks of a side start together, the reader reports an end as the last
\* thing it does, and only a script that holds the stream waits for it.
Tasking(s) ==
    /\ writer[s] = "none" => reader[s] = "none"
    /\ held[s] = "absent" => s # Opener /\ reader[s] = "none" /\ writer[s] = "none"
    /\ EndReported(reports[s]) => reader[s] = "done"
    /\ ended[s] # NOT_ENDED => reader[s] = "done" /\ reports[s] = <<>>
    /\ waiting[s] > 0 => held[s] = "held"
    /\ sending[s] # "open" => writer[s] = "done"

\* What side s asked its writer to do, and what has come of it.
Asked(s) ==
    /\ \A i \in DOMAIN queue[s] : queue[s][i] <= put[s]
    /\ Queued(s, ABORT) => abortCalled[s]
    /\ aborted[s] => abortCalled[s]
    /\ abortCalled[s] /\ writer[s] # "done" => Queued(s, ABORT)
    /\ held[s] = "closed" => whole[s] # -1 \/ abortCalled[s]
    /\ whole[s] # -1 /\ writer[s] # "done" =>
         Queued(s, FINISH) \/ (held[s] = "closed" /\ whole[s] = put[s])

\* Why a side's writes may fail.
Excused(s) ==
    /\ stopped[s] => abortCalled[Other(s)] \/ held[Other(s)] = "closed"
    /\ sending[s] = "failed" => ~alive \/ abortCalled[Other(s)] \/ held[Other(s)] = "closed"

\* The units on the wire, and the chunks queued behind them up to the first
\* that ends the writer, follow what side s got: as long as s keeps the stream.
InFlight(s) ==
    LET o == Other(s) IN
    /\ Run(wire[o], Got(s))
    /\ SentTo(s) <= put[o]
    /\ \A i \in DOMAIN queue[o] : Data(queue[o], i) => queue[o][i] = SentTo(s) + i
    /\ writer[o] # "done" /\ Data(queue[o], Len(queue[o])) =>
         put[o] = SentTo(s) + Len(queue[o])
    /\ \A i \in DOMAIN queue[o] : queue[o][i] = FINISH /\ Data(queue[o], i - 1) =>
         whole[o] = SentTo(s) + i - 1
    /\ sending[o] = "finished" => whole[o] = SentTo(s)

\* A clean end, reported or seen, comes after all the other side finished.
Cleanly(s) ==
    ended[s] = CLEAN \/ EndOf(reports[s], NOT_ENDED) = CLEAN => whole[Other(s)] = Got(s)

SInv ==
    /\ TypeOK
    /\ \A s \in Sides : Received(s) /\ Tasking(s) /\ Asked(s) /\ Excused(s)
    /\ \A s \in Sides : held[s] # "closed" => InFlight(s) /\ Cleanly(s)

\* A queue of some integers is a queue of integers.
LEMMA WidenSeq ==
    ASSUME NEW S \in SUBSET Int, NEW q \in Seq(S)
    PROVE  q \in Seq(Int)
  <1>1. Len(q) \in Nat /\ q \in [1 .. Len(q) -> S] /\ DOMAIN q = 1 .. Len(q)
    BY LenProperties
  <1>2. \A i \in 1 .. Len(q) : q[i] \in Int
    BY <1>1
  <1> QED
    BY <1>1, <1>2, IsASeq

\* All queues are queues of integers, so their lengths add up.
LEMMA SeqTypes ==
    ASSUME TypeOK, NEW x \in Sides
    PROVE  /\ queue[x] \in Seq(Int) /\ wire[x] \in Seq(Int) /\ reports[x] \in Seq(Int)
           /\ buffered[x] \in Seq(Int) /\ taken[x] \in Seq(Int)
           /\ Units(reports[x]) \in Seq(Int)
           /\ put[x] \in Nat /\ whole[x] \in Int /\ waiting[x] \in Nat
           /\ Len(taken[x]) \in Nat /\ Len(buffered[x]) \in Nat /\ Len(Units(reports[x])) \in Nat
           /\ Len(queue[x]) \in Nat /\ Len(wire[x]) \in Nat
           /\ Got(x) \in Nat /\ SentTo(x) \in Nat
  <1>1. /\ queue[x] \in Seq(Int) /\ wire[x] \in Seq(Int) /\ reports[x] \in Seq(Int)
        /\ buffered[x] \in Seq(Int) /\ taken[x] \in Seq(Int)
        /\ wire[Other(x)] \in Seq(Int)
    <2>1. /\ Unit \in SUBSET Int /\ Unit \cup {FINISH, ABORT} \in SUBSET Int
          /\ Unit \cup {CLEAN, ERROR} \in SUBSET Int
      BY DEF Unit, FINISH, ABORT, CLEAN, ERROR
    <2>2. /\ queue[x] \in Seq(Unit \cup {FINISH, ABORT}) /\ wire[x] \in Seq(Unit)
          /\ reports[x] \in Seq(Unit \cup {CLEAN, ERROR})
          /\ buffered[x] \in Seq(Unit) /\ taken[x] \in Seq(Unit)
          /\ wire[Other(x)] \in Seq(Unit)
      BY OtherSide DEF TypeOK
    <2> QED
      BY <2>1, <2>2, WidenSeq
  <1>2. put[x] \in Nat /\ whole[x] \in Int /\ waiting[x] \in Nat
    BY DEF TypeOK
  <1>3. /\ Len(taken[x]) \in Nat /\ Len(buffered[x]) \in Nat /\ Len(Units(reports[x])) \in Nat
        /\ Len(queue[x]) \in Nat /\ Len(wire[x]) \in Nat /\ Len(wire[Other(x)]) \in Nat
        /\ Units(reports[x]) \in Seq(Int)
    BY <1>1, LenProperties, UnitsFacts
  <1>4. Got(x) \in Nat
    <2>1. \A a, b, c \in Nat : a + b + c \in Nat
      OBVIOUS
    <2> QED
      BY <1>3, <2>1 DEF Got
  <1>5. SentTo(x) \in Nat
    BY <1>3, <1>4 DEF SentTo
  <1> QED
    BY <1>1, <1>2, <1>3, <1>4, <1>5

----------------------------------------------------------------------------
(* What each part of the invariant depends on. *)

\* Steps that leave what side x received alone.
LEMMA KeepReceived ==
    ASSUME TypeOK, TypeOK', NEW x \in Sides, Received(x),
           taken'[x] = taken[x], buffered'[x] = buffered[x], reports'[x] = reports[x],
           put'[Other(x)] >= put[Other(x)]
    PROVE  Received(x)'
  <1>1. /\ Len(taken[x]) \in Nat /\ put[Other(x)] \in Nat /\ put'[Other(x)] \in Nat
        /\ Len(taken[x]) <= put[Other(x)]
    BY OtherSide, SeqTypes DEF TypeOK, Received
  <1>2. Len(taken'[x]) <= put'[Other(x)]
    BY <1>1
  <1> QED
    BY <1>2 DEF Received

\* Steps that leave the tasks of side x and what they said alone.
LEMMA KeepTasking ==
    ASSUME NEW x \in Sides, Tasking(x),
           writer'[x] = writer[x], reader'[x] = reader[x], held'[x] = held[x],
           reports'[x] = reports[x], ended'[x] = ended[x], waiting'[x] = waiting[x],
           sending'[x] = sending[x]
    PROVE  Tasking(x)'
  BY DEF Tasking

\* Steps that leave what side x asked of its writer alone.
LEMMA KeepAsked ==
    ASSUME NEW x \in Sides, Asked(x),
           queue'[x] = queue[x], put'[x] = put[x], abortCalled'[x] = abortCalled[x],
           aborted'[x] = aborted[x], writer'[x] = writer[x], held'[x] = held[x],
           whole'[x] = whole[x]
    PROVE  Asked(x)'
  BY DEF Asked, Queued

\* Once there is a reason for a side's writes to fail there always is.
LEMMA KeepExcused ==
    ASSUME NEW x \in Sides, Excused(x),
           stopped'[x] = stopped[x], sending'[x] = sending[x], alive' => alive,
           abortCalled[Other(x)] => abortCalled'[Other(x)],
           held[Other(x)] = "closed" => held'[Other(x)] = "closed"
    PROVE  Excused(x)'
  BY DEF Excused

\* Steps that leave what is on its way to side x, and how much it got, alone.
LEMMA KeepInFlight ==
    ASSUME NEW x \in Sides, InFlight(x), Got(x)' = Got(x),
           wire'[Other(x)] = wire[Other(x)], put'[Other(x)] = put[Other(x)],
           queue'[Other(x)] = queue[Other(x)], writer'[Other(x)] = writer[Other(x)],
           whole'[Other(x)] = whole[Other(x)], sending'[Other(x)] = sending[Other(x)]
    PROVE  InFlight(x)'
  <1>1. SentTo(x)' = SentTo(x)
    BY DEF SentTo
  <1> QED
    BY <1>1 DEF InFlight, Data, Run

\* A writer that stops drops its queue, and what it sent is all there will be.
LEMMA StopInFlight ==
    ASSUME NEW x \in Sides, InFlight(x), Got(x)' = Got(x),
           wire'[Other(x)] = wire[Other(x)], put'[Other(x)] = put[Other(x)],
           queue'[Other(x)] = <<>>, writer'[Other(x)] = "done",
           whole'[Other(x)] = whole[Other(x)],
           sending'[Other(x)] = "finished" => whole[Other(x)] = SentTo(x)
    PROVE  InFlight(x)'
  <1>1. SentTo(x)' = SentTo(x)
    BY DEF SentTo
  <1> QED
    BY <1>1, NoReports DEF InFlight, Run

\* The requests of a writer that stopped are settled.
LEMMA StopAsked ==
    ASSUME NEW x \in Sides, Asked(x), queue'[x] = <<>>, writer'[x] = "done",
           put'[x] = put[x], abortCalled'[x] = abortCalled[x], held'[x] = held[x],
           whole'[x] = whole[x], aborted'[x] => abortCalled[x]
    PROVE  Asked(x)'
  BY NoReports DEF Asked, Queued

\* A chunk queued behind the others (put_data, finish, abort) is the next unit,
\* or ends what the writer will send.
LEMMA AppendInFlight ==
    ASSUME TypeOK, TypeOK', NEW x \in Sides, InFlight(x), Got(x)' = Got(x), NEW m \in Int,
           wire'[Other(x)] = wire[Other(x)], put'[Other(x)] >= put[Other(x)],
           queue'[Other(x)] = Append(queue[Other(x)], m),
           sending'[Other(x)] # "finished", writer[Other(x)] # "done",
           m > 0 => m = put[Other(x)] + 1 /\ put'[Other(x)] = m,
           m = FINISH /\ Data(queue[Other(x)], Len(queue[Other(x)])) => whole'[Other(x)] = put[Other(x)],
           \A i \in DOMAIN queue[Other(x)] :
             queue[Other(x)][i] = FINISH => whole'[Other(x)] = whole[Other(x)]
    PROVE  InFlight(x)'
  <1> DEFINE o == Other(x)
             q == queue[o]
  <1>0. /\ o \in Sides /\ q \in Seq(Int) /\ put[o] \in Nat /\ put'[o] \in Nat
        /\ SentTo(x) \in Nat /\ Len(q) \in Nat
    BY OtherSide, SeqTypes DEF TypeOK
  <1>1. SentTo(x)' = SentTo(x)
    BY DEF SentTo
  <1>2. PICK a : a = Append(q, m)
    OBVIOUS
  <1>3. /\ Len(a) = Len(q) + 1 /\ DOMAIN q = 1 .. Len(q) /\ DOMAIN a = 1 .. Len(q) + 1
        /\ \A k \in 1 .. Len(q) : a[k] = q[k]
        /\ a[Len(q) + 1] = m /\ queue'[o] = a
    BY <1>0, <1>2, AppendFacts
  <1> HIDE DEF q
  <1>4. /\ SentTo(x) <= put[o]
        /\ \A i \in DOMAIN q : Data(q, i) => q[i] = SentTo(x) + i
        /\ Data(q, Len(q)) => put[o] = SentTo(x) + Len(q)
        /\ \A i \in DOMAIN q : q[i] = FINISH /\ Data(q, i - 1) => whole[o] = SentTo(x) + i - 1
    BY DEF InFlight, q
  <1>5. ASSUME NEW i \in 0 .. Len(q) PROVE Data(a, i) <=> Data(q, i)
    BY <1>0, <1>3 DEF Data
  <1>6. Data(a, Len(q) + 1) => Data(q, Len(q)) /\ m > 0
    BY <1>0, <1>3 DEF Data
  <1>7. Run(wire'[o], Got(x)')
    BY DEF InFlight
  <1>8. SentTo(x) <= put'[o]
    BY <1>0, <1>4
  <1>9. ASSUME NEW i \in DOMAIN a, Data(a, i) PROVE a[i] = SentTo(x) + i
    <2>1. CASE i \in 1 .. Len(q)
      BY <1>0, <1>3, <1>4, <1>5, <1>9, <2>1
    <2>2. CASE i = Len(q) + 1
      <3>1. Data(q, Len(q)) /\ m > 0
        BY <1>6, <1>9, <2>2
      <3>2. put[o] = SentTo(x) + Len(q) /\ m = put[o] + 1
        BY <1>4, <3>1
      <3> QED
        BY <1>0, <1>3, <2>2, <3>2
    <2> QED
      BY <1>0, <1>3, <2>1, <2>2
  <1>10. ASSUME Data(a, Len(a)) PROVE put'[o] = SentTo(x) + Len(a)
    <2>1. Data(q, Len(q)) /\ m > 0
      BY <1>3, <1>6, <1>10
    <2>2. put[o] = SentTo(x) + Len(q) /\ m = put[o] + 1 /\ put'[o] = m
      BY <1>4, <2>1
    <2> QED
      BY <1>0, <1>3, <2>2
  <1>11. ASSUME NEW i \in DOMAIN a, a[i] = FINISH, Data(a, i - 1)
         PROVE  whole'[o] = SentTo(x) + i - 1
    <2>1. CASE i \in 1 .. Len(q)
      <3>1. q[i] = FINISH /\ i \in DOMAIN q
        BY <1>3, <1>11, <2>1
      <3>2. Data(q, i - 1)
        BY <1>0, <1>5, <1>11, <2>1
      <3>3. whole'[o] = whole[o]
        BY <3>1 DEF q
      <3> QED
        BY <1>4, <3>1, <3>2, <3>3
    <2>2. CASE i = Len(q) + 1
      <3>0. i - 1 = Len(q)
        BY <1>0, <2>2
      <3>1. m = FINISH /\ Data(q, Len(q))
        BY <1>0, <1>3, <1>5, <1>11, <2>2, <3>0
      <3>2. whole'[o] = put[o] /\ put[o] = SentTo(x) + Len(q)
        BY <1>4, <3>1 DEF q
      <3> QED
        BY <1>0, <2>2, <3>2
    <2> QED
      BY <1>0, <1>3, <2>1, <2>2
  <1> QED
    BY <1>1, <1>3, <1>7, <1>8, <1>9, <1>10, <1>11 DEF InFlight

\* An end reported is the last report and leaves the units to drain.
LEMMA ReportsEnd ==
    ASSUME NEW r \in Seq(Int), ~EndReported(r), \A i \in DOMAIN r : i # Len(r) => r[i] > 0,
           NEW m \in Int, m <= 0, NEW n \in Int, Run(Units(r), n)
    PROVE  /\ Run(Units(Append(r, m)), n)
           /\ Len(Units(Append(r, m))) = Len(Units(r))
           /\ \A i \in DOMAIN Append(r, m) : i # Len(Append(r, m)) => Append(r, m)[i] > 0
  <1>1. PICK a : a = Append(r, m)
    OBVIOUS
  <1>2. /\ Len(r) \in Nat /\ Len(a) = Len(r) + 1 /\ DOMAIN r = 1 .. Len(r)
        /\ DOMAIN a = 1 .. Len(r) + 1 /\ \A k \in 1 .. Len(r) : a[k] = r[k]
    BY <1>1, AppendFacts
  <1>3. /\ Units(r) = r /\ Len(Units(a)) = Len(r)
        /\ \A i \in DOMAIN Units(a) : i \in DOMAIN r /\ Units(a)[i] = r[i]
    BY <1>1, ReportEnd
  <1>4. Run(Units(a), n)
    BY <1>3 DEF Run
  <1>5. \A i \in DOMAIN r : r[i] > 0
    <2> SUFFICES ASSUME NEW i \in DOMAIN r PROVE r[i] > 0
      OBVIOUS
    <2>1. CASE i = Len(r)
      <3>1. r # <<>> /\ r[i] \in Int
        BY <1>2, <2>1, NoReports
      <3> QED
        BY <2>1, <3>1 DEF EndReported
    <2> QED
      BY <2>1
  <1>6. \A i \in DOMAIN a : i # Len(a) => a[i] > 0
    BY <1>2, <1>5
  <1> QED
    BY <1>1, <1>3, <1>4, <1>6

\* Steps that leave the ends side x heard of alone.
LEMMA KeepCleanly ==
    ASSUME NEW x \in Sides, Cleanly(x), Got(x)' = Got(x),
           ended'[x] = ended[x], reports'[x] = reports[x],
           whole'[Other(x)] = whole[Other(x)]
    PROVE  Cleanly(x)'
  BY DEF Cleanly

\* How much side x got depends on its own queues only.
LEMMA KeepGot ==
    ASSUME NEW x \in Sides,
           taken'[x] = taken[x], buffered'[x] = buffered[x], reports'[x] = reports[x]
    PROVE  Got(x)' = Got(x)
  BY DEF Got

\* The parts of the invariant, side by side.
Parts(x) ==
    /\ Received(x) /\ Tasking(x) /\ Asked(x) /\ Excused(x)
    /\ held[x] # "closed" => InFlight(x) /\ Cleanly(x)

\* Enough to show for a step that happens at side s.
LEMMA BothSides ==
    ASSUME TypeOK', NEW s \in Sides, Parts(s)', Parts(Other(s))'
    PROVE  SInv'
  BY OtherSide DEF SInv, Parts

\* The invariant holds at the start.
LEMMA SInvInit == Init => SInv
  <1> SUFFICES ASSUME Init PROVE SInv
    OBVIOUS
  <1>1. TypeOK
    BY SidesAssumption DEF Init, TypeOK, Unit, Tasks, NOT_ENDED
  <1>2. ASSUME NEW s \in Sides PROVE Parts(s)
    <2>0. Other(s) \in Sides
      BY OtherSide
    <2>1. /\ wire[s] = <<>> /\ queue[s] = <<>> /\ reports[s] = <<>> /\ buffered[s] = <<>>
          /\ taken[s] = <<>> /\ put[s] = 0 /\ whole[s] = -1 /\ ended[s] = NOT_ENDED
          /\ wire[Other(s)] = <<>> /\ queue[Other(s)] = <<>> /\ put[Other(s)] = 0
          /\ sending[s] = "open" /\ sending[Other(s)] = "open" /\ waiting[s] = 0
          /\ writer[s] = "none" /\ reader[s] = "none"
      BY <2>0 DEF Init
    <2>2. ~abortCalled[s] /\ ~aborted[s] /\ ~stopped[s] /\ held[s] # "closed"
      BY DEF Init
    <2>3. Got(s) = 0 /\ SentTo(s) = 0
      BY <2>1, NoReports DEF Got, SentTo
    <2>4. Received(s)
      BY <2>1, NoReports DEF Received, Run
    <2>5. Tasking(s)
      <3>1. held[s] = "absent" => s # Opener
        BY DEF Init
      <3> QED
        BY <2>1, <3>1, NoReports DEF Tasking, NOT_ENDED
    <2>6. Asked(s)
      BY <2>1, <2>2, NoReports DEF Asked, Queued
    <2>7. Excused(s)
      BY <2>1, <2>2 DEF Excused
    <2>8. InFlight(s)
      BY <2>1, <2>3, NoReports DEF InFlight, Run
    <2>9. Cleanly(s)
      BY <2>1, NoReports DEF Cleanly, NOT_ENDED, CLEAN
    <2> QED
      BY <2>4, <2>5, <2>6, <2>7, <2>8, <2>9 DEF Parts
  <1> QED
    BY <1>1, <1>2 DEF SInv, Parts

----------------------------------------------------------------------------
(* Type correctness. *)

\* A call that drains and takes (get_partial_data, get_data) keeps what side s
\* received one run, and changes nothing of how much it got.
LEMMA DrainStep ==
    ASSUME SInv, NEW s \in Sides, NEW n \in Nat, DrainAndTake(s, n)
    PROVE  /\ taken' \in [Sides -> Seq(Unit)] /\ buffered' \in [Sides -> Seq(Unit)]
           /\ reports' = [reports EXCEPT ![s] = <<>>]
           /\ ended' = [ended EXCEPT ![s] = EndOf(reports[s], @)]
           /\ \A x \in Sides \ {s} : taken'[x] = taken[x] /\ buffered'[x] = buffered[x]
           /\ Run(taken'[s], 0) /\ Run(buffered'[s], Len(taken'[s]))
           /\ Len(taken'[s]) \in Nat /\ Len(buffered'[s]) \in Nat
           /\ Len(taken'[s]) + Len(buffered'[s]) = Got(s)
  <1>t. TypeOK /\ Received(s)
    BY DEF SInv
  <1>1. PICK all, k : /\ all = buffered[s] \o Units(reports[s])
                      /\ k = IF n <= Len(all) THEN n ELSE Len(all)
    OBVIOUS
  <1>2. PICK t2, b2 : t2 = taken[s] \o SubSeq(all, 1, k) /\ b2 = SubSeq(all, k + 1, Len(all))
    OBVIOUS
  <1>3. /\ taken' = [taken EXCEPT ![s] = t2] /\ buffered' = [buffered EXCEPT ![s] = b2]
        /\ reports' = [reports EXCEPT ![s] = <<>>]
        /\ ended' = [ended EXCEPT ![s] = EndOf(reports[s], @)]
    BY <1>1, <1>2 DEF DrainAndTake
  <1>4. /\ taken[s] \in Seq(Int) /\ buffered[s] \in Seq(Int) /\ reports[s] \in Seq(Int)
        /\ Units(reports[s]) \in Seq(Int)
    BY <1>t, SeqTypes
  <1>5. Run(taken[s], 0) /\ Run(buffered[s], Len(taken[s]))
        /\ Run(Units(reports[s]), Len(taken[s]) + Len(buffered[s]))
    BY <1>t DEF Received
  <1>6. /\ all \in Seq(Int) /\ Len(all) = Len(buffered[s]) + Len(Units(reports[s]))
        /\ Run(all, Len(taken[s]))
    <2>1. Len(taken[s]) \in Int /\ Len(taken[s]) + Len(buffered[s]) \in Int
      BY <1>t, SeqTypes
    <2> QED
      BY <1>1, <1>4, <1>5, <2>1, RunConcat
  <1>k. k \in Nat /\ k <= Len(all)
    <2>1. Len(all) \in Nat
      BY <1>6, LenProperties
    <2>2. CASE n <= Len(all)
      BY <1>1, <2>2
    <2>3. CASE ~(n <= Len(all))
      <3>1. k = Len(all)
        BY <1>1, <2>3
      <3>2. \A m \in Nat : m <= m
        OBVIOUS
      <3> QED
        BY <2>1, <3>1, <3>2, Zenon
    <2> QED
      BY <2>2, <2>3
  <1>7. /\ t2 \in Seq(Int) /\ b2 \in Seq(Int) /\ Run(t2, 0) /\ Run(b2, Len(t2))
        /\ Len(t2) + Len(b2) = Got(s)
    <2>1. /\ t2 \in Seq(Int) /\ b2 \in Seq(Int) /\ Run(t2, 0) /\ Run(b2, Len(t2))
          /\ Len(t2) + Len(b2) = Len(taken[s]) + Len(all)
      BY <1>2, <1>4, <1>5, <1>6, <1>k, RunTake, Zenon
    <2>2. Len(taken[s]) + Len(all) = Got(s)
      <3>1. Len(taken[s]) \in Int /\ Len(buffered[s]) \in Int /\ Len(Units(reports[s])) \in Int
        BY <1>t, SeqTypes
      <3> QED
        <4>1. Len(taken[s]) + (Len(buffered[s]) + Len(Units(reports[s]))) = Got(s)
          BY <3>1, SumOfThree DEF Got
        <4>2. Len(all) = Len(buffered[s]) + Len(Units(reports[s]))
          BY <1>6
        <4> QED
          BY <4>1, <4>2, Zenon
    <2> QED
      BY <2>1, <2>2
  <1>8. Len(t2) \in Nat /\ Len(b2) \in Nat
    BY <1>7, LenProperties
  <1>9. t2 \in Seq(Unit) /\ b2 \in Seq(Unit)
    BY <1>7, <1>8, RunIsUnits
  <1>10. taken \in [Sides -> Seq(Unit)] /\ buffered \in [Sides -> Seq(Unit)]
    BY <1>t DEF TypeOK
  <1>11. /\ taken' \in [Sides -> Seq(Unit)] /\ buffered' \in [Sides -> Seq(Unit)]
         /\ taken'[s] = t2 /\ buffered'[s] = b2
         /\ \A x \in Sides \ {s} : taken'[x] = taken[x] /\ buffered'[x] = buffered[x]
    BY <1>3, <1>9, <1>10
  <1> QED
    BY <1>3, <1>7, <1>8, <1>11

\* The report fill takes, or none, and what that leaves.
LEMMA FillStep ==
    ASSUME SInv, NEW s \in Sides, Fill(s)
    PROVE  /\ taken' \in [Sides -> Seq(Unit)] /\ buffered' \in [Sides -> Seq(Unit)]
           /\ ended' \in [Sides -> {NOT_ENDED, CLEAN, ERROR}] /\ waiting' \in [Sides -> Nat]
           /\ reports' \in [Sides -> Seq(Unit \cup {CLEAN, ERROR})]
           /\ \A x \in Sides \ {s} : /\ taken'[x] = taken[x] /\ buffered'[x] = buffered[x]
                                     /\ reports'[x] = reports[x] /\ ended'[x] = ended[x]
                                     /\ waiting'[x] = waiting[x]
           /\ Run(taken'[s], 0) /\ Run(buffered'[s], Len(taken'[s]))
           /\ Run(Units(reports'[s]), Len(taken'[s]) + Len(buffered'[s]))
           /\ \A i \in DOMAIN reports'[s] : i # Len(reports'[s]) => reports'[s][i] > 0
           /\ Got(s)' = Got(s)
           /\ EndReported(reports'[s]) => EndReported(reports[s])
           /\ ended'[s] # NOT_ENDED /\ ended[s] = NOT_ENDED =>
                reports'[s] = <<>> /\ (EndReported(reports[s]) \/ reader[s] = "done")
           /\ ended[s] # NOT_ENDED => reports'[s] = reports[s]
           /\ ended'[s] = CLEAN \/ EndOf(reports'[s], NOT_ENDED) = CLEAN =>
                ended[s] = CLEAN \/ EndOf(reports[s], NOT_ENDED) = CLEAN
  <1>t. TypeOK /\ Received(s) /\ Tasking(s)
    BY DEF SInv
  <1>1. /\ taken[s] \in Seq(Int) /\ buffered[s] \in Seq(Int) /\ reports[s] \in Seq(Int)
        /\ Units(reports[s]) \in Seq(Int) /\ waiting[s] \in Nat
        /\ Len(taken[s]) \in Nat /\ Len(buffered[s]) \in Nat /\ Len(Units(reports[s])) \in Nat
    BY <1>t, SeqTypes
  <1>2. /\ Run(taken[s], 0) /\ Run(buffered[s], Len(taken[s]))
        /\ Run(Units(reports[s]), Len(taken[s]) + Len(buffered[s]))
        /\ \A i \in DOMAIN reports[s] : i # Len(reports[s]) => reports[s][i] > 0
    BY <1>t DEF Received
  <1> DEFINE none == reports[s] = <<>>
             over == none \/ Head(reports[s]) <= 0
  <1>3. PICK all, n, r2, e2 :
          /\ all = IF over THEN buffered[s] ELSE Append(buffered[s], Head(reports[s]))
          /\ n = waiting[s]
          /\ r2 = IF none THEN reports[s] ELSE Tail(reports[s])
          /\ e2 = IF none THEN ERROR ELSE EndOf(<<Head(reports[s])>>, ended[s])
    OBVIOUS
  <1>4. PICK t2, b2 :
          IF Len(all) >= n
          THEN t2 = taken[s] \o SubSeq(all, 1, n) /\ b2 = SubSeq(all, n + 1, Len(all))
          ELSE t2 = taken[s] /\ b2 = all
    OBVIOUS
  <1>5. /\ none => reader[s] = "done"
        /\ reports' = [reports EXCEPT ![s] = r2] /\ ended' = [ended EXCEPT ![s] = e2]
        /\ waiting' = [waiting EXCEPT ![s] = IF over \/ Len(all) >= n THEN 0 ELSE n]
    BY <1>3 DEF Fill
  <1>6. taken' = [taken EXCEPT ![s] = t2] /\ buffered' = [buffered EXCEPT ![s] = b2]
    <2>1. taken = [taken EXCEPT ![s] = taken[s]]
      BY <1>t DEF TypeOK
    <2>2. CASE Len(all) >= n
      BY <1>3, <1>4, <2>2 DEF Fill
    <2>3. CASE ~(Len(all) >= n)
      BY <1>3, <1>4, <2>1, <2>3 DEF Fill
    <2> QED
      BY <2>2, <2>3
  \* What the reports are worth after the first is taken.
  <1>7. /\ all \in Seq(Int) /\ r2 \in Seq(Int)
        /\ Run(all, Len(taken[s]))
        /\ Run(Units(r2), Len(taken[s]) + Len(all))
        /\ Len(all) + Len(Units(r2)) = Len(buffered[s]) + Len(Units(reports[s]))
        /\ \A i \in DOMAIN r2 : i # Len(r2) => r2[i] > 0
        /\ EndReported(r2) => EndReported(reports[s])
        /\ e2 \in {NOT_ENDED, CLEAN, ERROR}
        /\ e2 # NOT_ENDED /\ ended[s] = NOT_ENDED =>
             r2 = <<>> /\ (EndReported(reports[s]) \/ reader[s] = "done")
        /\ reports[s] = <<>> => r2 = <<>>
        /\ e2 = CLEAN \/ EndOf(r2, NOT_ENDED) = CLEAN =>
             ended[s] = CLEAN \/ EndOf(reports[s], NOT_ENDED) = CLEAN
    <2>1. CASE none
      <3>1. all = buffered[s] /\ r2 = <<>> /\ e2 = ERROR /\ reports[s] = <<>>
        BY <1>3, <2>1
      <3>2. EndOf(r2, NOT_ENDED) # CLEAN /\ e2 # CLEAN
        BY <3>1, NoReports DEF NOT_ENDED, CLEAN, ERROR
      <3> QED
        BY <1>1, <1>2, <1>5, <2>1, <3>1, <3>2, NoReports
    <2>2. CASE ~none /\ Head(reports[s]) <= 0
      <3>1. all = buffered[s] /\ r2 = Tail(reports[s])
        BY <1>3, <2>2
      <3>2. /\ Tail(reports[s]) = <<>> /\ EndReported(reports[s])
            /\ Len(Units(reports[s])) = 0 /\ reports[s][Len(reports[s])] = Head(reports[s])
        BY <1>1, <1>2, <2>2, TakeReport
      <3>3. e2 = Head(reports[s]) /\ EndOf(reports[s], NOT_ENDED) = Head(reports[s])
        <4>1. EndReported(<<Head(reports[s])>>) /\ <<Head(reports[s])>>[Len(<<Head(reports[s])>>)] = Head(reports[s])
          BY <2>2 DEF EndReported
        <4> QED
          BY <1>3, <2>2, <3>2, <4>1 DEF EndOf
      <3>4. Head(reports[s]) \in {CLEAN, ERROR}
        <4>1. reports[s] \in Seq(Unit \cup {CLEAN, ERROR})
          BY <1>t DEF TypeOK
        <4>2. Head(reports[s]) \in Unit \cup {CLEAN, ERROR}
          BY <2>2, <4>1, HeadTailProperties
        <4> QED
          BY <2>2, <4>2 DEF Unit
      <3>5. Units(r2) = <<>> /\ ~EndReported(r2) /\ EndOf(r2, NOT_ENDED) = NOT_ENDED /\ r2 = <<>>
        BY <3>1, <3>2, NoReports
      <3>6. NOT_ENDED # CLEAN
        BY DEF NOT_ENDED, CLEAN
      <3>7. Run(Units(r2), Len(taken[s]) + Len(all)) /\ \A i \in DOMAIN r2 : FALSE
        BY <3>5, NoReports DEF Run
      <3>8. Len(all) + Len(Units(r2)) = Len(buffered[s]) + Len(Units(reports[s]))
        BY <1>1, <3>1, <3>2, <3>5, NoReports
      <3> QED
        BY <1>1, <1>2, <2>2, <3>1, <3>2, <3>3, <3>4, <3>5, <3>6, <3>7, <3>8, NoReports
    <2>3. CASE ~none /\ ~(Head(reports[s]) <= 0)
      <3>0. PICK h : h = Head(reports[s])
        OBVIOUS
      <3>1. all = Append(buffered[s], h) /\ r2 = Tail(reports[s]) /\ h \in Int /\ h > 0
        BY <1>1, <1>3, <2>3, <3>0, TailFacts
      <3>2. r2 \in Seq(Int)
        BY <1>1, <2>3, <3>1, TailFacts
      <3>3. /\ EndReported(r2) <=> EndReported(reports[s])
            /\ Len(Units(reports[s])) = Len(Units(r2)) + 1
            /\ Units(reports[s])[1] = h /\ 1 \in DOMAIN Units(reports[s])
            /\ \A i \in DOMAIN Units(r2) :
                 i + 1 \in DOMAIN Units(reports[s]) /\ Units(r2)[i] = Units(reports[s])[i + 1]
            /\ \A b : EndOf(r2, b) = EndOf(reports[s], b)
            /\ \A i \in DOMAIN r2 : i # Len(r2) => r2[i] > 0
        BY <1>1, <1>2, <2>3, <3>0, <3>1, TakeReport
      <3>4. e2 = ended[s]
        <4>1. ~EndReported(<<h>>)
          BY <3>1 DEF EndReported
        <4> QED
          BY <1>3, <2>3, <3>0, <4>1 DEF EndOf
      <3>5. h = Len(taken[s]) + Len(buffered[s]) + 1
        BY <1>2, <3>3 DEF Run
      <3>6. all \in Seq(Int) /\ Len(all) = Len(buffered[s]) + 1 /\ Run(all, Len(taken[s]))
        <4>1. Len(taken[s]) \in Int
          BY <1>1
        <4>2. Run(Append(buffered[s], Len(taken[s]) + Len(buffered[s]) + 1), Len(taken[s]))
          BY <1>1, <1>2, <4>1, RunAppend
        <4>3. all \in Seq(Int) /\ Len(all) = Len(buffered[s]) + 1
          BY <1>1, <3>1, AppendFacts
        <4> QED
          BY <3>1, <3>5, <4>2, <4>3
      <3>7. Run(Units(r2), Len(taken[s]) + Len(all))
        <4>0. Len(Units(r2)) \in Nat /\ DOMAIN Units(r2) = 1 .. Len(Units(r2))
          BY <3>2, UnitsFacts
        <4>1. ASSUME NEW i \in DOMAIN Units(r2) PROVE Units(r2)[i] = (Len(taken[s]) + Len(all)) + i
          <5>1. Units(r2)[i] = (Len(taken[s]) + Len(buffered[s])) + (i + 1)
            BY <1>2, <3>3 DEF Run
          <5> QED
            <6>1. i \in Int /\ Len(taken[s]) \in Int /\ Len(buffered[s]) \in Int
              BY <1>1, <4>0
            <6> QED
              <7>1. (Len(taken[s]) + (Len(buffered[s]) + 1)) + i
                      = (Len(taken[s]) + Len(buffered[s])) + (i + 1)
                BY <6>1, MoveOne
              <7>2. Len(all) = Len(buffered[s]) + 1
                BY <3>6
              <7> QED
                BY <5>1, <7>1, <7>2, Zenon
        <4> QED
          BY <4>1 DEF Run
      <3>8. Len(all) + Len(Units(r2)) = Len(buffered[s]) + Len(Units(reports[s]))
        <4>1. Len(Units(r2)) \in Nat
          BY <3>2, UnitsFacts
        <4>2. Len(Units(r2)) \in Int /\ Len(buffered[s]) \in Int
          BY <1>1, <4>1
        <4> QED
          <5>1. (Len(buffered[s]) + 1) + Len(Units(r2)) = Len(buffered[s]) + (Len(Units(r2)) + 1)
            BY <4>2, 0 \in Int, MoveOne
          <5>2. Len(all) = Len(buffered[s]) + 1 /\ Len(Units(reports[s])) = Len(Units(r2)) + 1
            BY <3>3, <3>6
          <5> QED
            BY <5>1, <5>2, Zenon
      <3>9. e2 \in {NOT_ENDED, CLEAN, ERROR}
        BY <1>t, <3>4 DEF TypeOK
      <3> QED
        BY <2>3, <3>2, <3>3, <3>4, <3>6, <3>7, <3>8, <3>9
    <2> QED
      BY <2>1, <2>2, <2>3
  <1>8. /\ t2 \in Seq(Int) /\ b2 \in Seq(Int) /\ Run(t2, 0) /\ Run(b2, Len(t2))
        /\ Len(t2) + Len(b2) = Len(taken[s]) + Len(all)
    <2>1. Len(all) \in Nat /\ n \in Nat
      BY <1>1, <1>3, <1>7, LenProperties
    <2>2. CASE Len(all) >= n
      <3>1. n <= Len(all) /\ t2 = taken[s] \o SubSeq(all, 1, n) /\ b2 = SubSeq(all, n + 1, Len(all))
        BY <1>4, <2>1, <2>2
      <3> QED
        <4>1. /\ taken[s] \in Seq(Int) /\ all \in Seq(Int) /\ Run(taken[s], 0)
              /\ Run(all, Len(taken[s])) /\ n \in Nat /\ n <= Len(all)
          BY <1>1, <1>2, <1>7, <2>1, <3>1
        <4> QED
          BY <3>1, <4>1, RunTake, Zenon
    <2>3. CASE ~(Len(all) >= n)
      BY <1>1, <1>2, <1>4, <1>7, <2>3
    <2> QED
      BY <2>2, <2>3
  <1>9. /\ taken' \in [Sides -> Seq(Unit)] /\ buffered' \in [Sides -> Seq(Unit)]
        /\ taken'[s] = t2 /\ buffered'[s] = b2
        /\ \A x \in Sides \ {s} : taken'[x] = taken[x] /\ buffered'[x] = buffered[x]
    <2>1. Len(t2) \in Nat
      BY <1>8, LenProperties
    <2>2. t2 \in Seq(Unit) /\ b2 \in Seq(Unit)
      BY <1>8, <2>1, RunIsUnits
    <2>3. taken \in [Sides -> Seq(Unit)] /\ buffered \in [Sides -> Seq(Unit)]
      BY <1>t DEF TypeOK
    <2> QED
      BY <1>6, <2>2, <2>3
  <1>10. /\ reports' \in [Sides -> Seq(Unit \cup {CLEAN, ERROR})] /\ reports'[s] = r2
         /\ \A x \in Sides \ {s} : reports'[x] = reports[x]
    <2>1. reports \in [Sides -> Seq(Unit \cup {CLEAN, ERROR})]
      BY <1>t DEF TypeOK
    <2>2. r2 \in Seq(Unit \cup {CLEAN, ERROR})
      <3>1. reports[s] \in Seq(Unit \cup {CLEAN, ERROR})
        BY <2>1
      <3> QED
        BY <1>3, <3>1, HeadTailProperties
    <2> QED
      BY <1>5, <2>1, <2>2
  <1>11. /\ ended' \in [Sides -> {NOT_ENDED, CLEAN, ERROR}] /\ waiting' \in [Sides -> Nat]
         /\ ended'[s] = e2
         /\ \A x \in Sides \ {s} : ended'[x] = ended[x] /\ waiting'[x] = waiting[x]
    <2>1. ended \in [Sides -> {NOT_ENDED, CLEAN, ERROR}] /\ waiting \in [Sides -> Nat]
      BY <1>t DEF TypeOK
    <2>2. e2 \in {NOT_ENDED, CLEAN, ERROR}
      BY <1>7
    <2>3. ended' \in [Sides -> {NOT_ENDED, CLEAN, ERROR}] /\ ended'[s] = e2
          /\ \A x \in Sides \ {s} : ended'[x] = ended[x]
      BY <1>5, <2>1, <2>2
    <2>4. PICK w : w = IF over \/ Len(all) >= n THEN 0 ELSE n
      OBVIOUS
    <2>5. w \in Nat /\ waiting' = [waiting EXCEPT ![s] = w]
      BY <1>1, <1>3, <1>5, <2>4
    <2> QED
      BY <2>1, <2>3, <2>5
  <1>12. Run(Units(r2), Len(t2) + Len(b2))
    BY <1>7, <1>8
  <1>13. Got(s)' = Got(s)
    <2>1. Got(s)' = Len(t2) + Len(b2) + Len(Units(r2))
      BY <1>9, <1>10 DEF Got
    <2>2. Len(Units(r2)) \in Nat /\ Len(all) \in Nat
      BY <1>7, UnitsFacts, LenProperties
    <2>3. Len(taken[s]) + Len(all) + Len(Units(r2)) = Got(s)
      <3>1. /\ Len(taken[s]) \in Int /\ Len(all) \in Int /\ Len(Units(r2)) \in Int
            /\ Len(buffered[s]) \in Int /\ Len(Units(reports[s])) \in Int
        BY <1>1, <2>2
      <3>2. Got(s) = Len(taken[s]) + (Len(buffered[s]) + Len(Units(reports[s])))
        BY <3>1, SumOfThree, ZenonT(30) DEF Got
      <3>3. Len(taken[s]) + Len(all) + Len(Units(r2)) = Len(taken[s]) + (Len(all) + Len(Units(r2)))
        BY <3>1, SumOfThree, ZenonT(30)
      <3> QED
        BY <1>7, <3>2, <3>3, Zenon
    <2> QED
      BY <1>8, <2>1, <2>3
  <1>14. ended[s] # NOT_ENDED => r2 = reports[s]
    BY <1>t, <1>7 DEF Tasking
  <1> QED
    BY <1>7, <1>8, <1>9, <1>10, <1>11, <1>12, <1>13, <1>14

\* Every step keeps the two sides well typed.
LEMMA TypeStep == SInv /\ [Next]_vars => TypeOK'
  <1> SUFFICES ASSUME SInv, [Next]_vars PROVE TypeOK'
    OBVIOUS
  <1>t. TypeOK
    BY DEF SInv
  <1> USE DEF taskVars, scriptVars
  <1>s. Opener \in Sides /\ Acceptor \in Sides
    BY DEF Sides
  <1>e. \A S : <<>> \in Seq(S)
    BY EmptySeq
  <1>1. CASE UNCHANGED vars
    BY <1>t, <1>1 DEF vars, TypeOK
  <1>2. CASE Open
    <2>1. CASE alive
      BY <1>s, <1>t, <1>2, <2>1, ZenonT(30) DEF Open, TypeOK, Tasks
    <2>2. CASE ~alive
      <3>1. writer' \in [Sides -> Tasks] /\ reader' \in [Sides -> Tasks]
        BY <1>s, <1>t, <1>2, <2>2, ZenonT(30) DEF Open, TypeOK, Tasks
      <3>2. queue' \in [Sides -> Seq(Unit \cup {FINISH, ABORT})]
        <4>1. queue' = [queue EXCEPT ![Opener] = <<>>]
          BY <1>2, <2>2 DEF Open
        <4>2. queue \in [Sides -> Seq(Unit \cup {FINISH, ABORT})]
          BY <1>t DEF TypeOK
        <4> QED
          BY <1>s, <1>e, <4>1, <4>2
      <3>3. reports' \in [Sides -> Seq(Unit \cup {CLEAN, ERROR})]
        <4>1. Append(reports[Opener], ERROR) \in Seq(Unit \cup {CLEAN, ERROR})
          BY <1>s, <1>t DEF TypeOK
        <4> QED
          BY <1>s, <1>t, <1>2, <2>2, <4>1 DEF Open, TypeOK
      <3> QED
        BY <1>t, <1>2, <3>1, <3>2, <3>3 DEF Open, TypeOK
    <2> QED
      BY <2>1, <2>2
  <1>3. CASE Adopt
    BY <1>s, <1>t, <1>3 DEF Adopt, TypeOK, Tasks
  <1>4. CASE ConnectionLost
    BY <1>t, <1>4 DEF ConnectionLost, TypeOK
  <1>w. ASSUME NEW s \in Sides, NEW half \in {"finished", "reset", "failed"}, WriterDone(s, half)
        PROVE  /\ writer' \in [Sides -> Tasks]
               /\ sending' \in [Sides -> {"open", "finished", "reset", "failed"}]
               /\ queue' \in [Sides -> Seq(Unit \cup {FINISH, ABORT})]
    <2>1. /\ writer \in [Sides -> Tasks]
          /\ sending \in [Sides -> {"open", "finished", "reset", "failed"}]
          /\ queue \in [Sides -> Seq(Unit \cup {FINISH, ABORT})]
      BY <1>t DEF TypeOK
    <2>2. writer' \in [Sides -> Tasks]
      BY <1>w, <2>1 DEF WriterDone, Tasks
    <2>3. sending' \in [Sides -> {"open", "finished", "reset", "failed"}]
      BY <1>w, <2>1 DEF WriterDone
    <2>4. queue' \in [Sides -> Seq(Unit \cup {FINISH, ABORT})]
      BY <1>w, <1>e, <2>1 DEF WriterDone
    <2> QED
      BY <2>2, <2>3, <2>4
  <1>5. ASSUME NEW s \in Sides, WriteData(s) PROVE TypeOK'
    <2>0. Head(queue[s]) \in Unit /\ Tail(queue[s]) \in Seq(Unit \cup {FINISH, ABORT})
      <3>1. queue[s] \in Seq(Unit \cup {FINISH, ABORT}) /\ queue[s] # <<>> /\ Head(queue[s]) > 0
        BY <1>t, <1>5 DEF TypeOK, WriteData
      <3> QED
        BY <3>1, HeadTailProperties DEF FINISH, ABORT
    <2>1. CASE /\ wire' = [wire EXCEPT ![s] = Append(@, Head(queue[s]))]
               /\ queue' = [queue EXCEPT ![s] = Tail(@)]
               /\ UNCHANGED <<writer, sending>>
      <3>1. Append(wire[s], Head(queue[s])) \in Seq(Unit)
        BY <1>t, <2>0 DEF TypeOK
      <3>2. wire' \in [Sides -> Seq(Unit)]
        BY <1>t, <2>1, <3>1 DEF TypeOK
      <3>3. queue' \in [Sides -> Seq(Unit \cup {FINISH, ABORT})]
        BY <1>t, <2>0, <2>1 DEF TypeOK
      <3> QED
        BY <1>t, <1>5, <2>1, <3>2, <3>3 DEF TypeOK, WriteData
    <2>2. CASE WriterDone(s, "failed") /\ UNCHANGED wire
      BY <1>t, <1>w, <1>5, <2>2 DEF TypeOK, WriteData
    <2> QED
      BY <1>5, <2>1, <2>2 DEF WriteData
  <1>6. ASSUME NEW s \in Sides, WriteFinish(s) PROVE TypeOK'
    BY <1>t, <1>w, <1>6 DEF TypeOK, WriteFinish
  <1>7. ASSUME NEW s \in Sides, WriteAbort(s) PROVE TypeOK'
    <2>1. aborted' \in [Sides -> BOOLEAN]
      BY <1>t, <1>7 DEF TypeOK, WriteAbort
    <2> QED
      BY <1>t, <1>w, <1>7, <2>1 DEF TypeOK, WriteAbort
  <1>r. ASSUME NEW s \in Sides PROVE
          /\ ReaderDone(s) => reader' \in [Sides -> Tasks]
          /\ stopped' = [stopped EXCEPT ![Other(s)] = TRUE] => stopped' \in [Sides -> BOOLEAN]
    BY <1>t, OtherSide DEF ReaderDone, TypeOK, Tasks
  <1>8. ASSUME NEW s \in Sides, ReadAborted(s) PROVE TypeOK'
    BY <1>t, <1>r, <1>8 DEF TypeOK, ReadAborted
  <1>9. ASSUME NEW s \in Sides, ReadData(s) PROVE TypeOK'
    <2>0. /\ Head(wire[Other(s)]) \in Unit /\ Tail(wire[Other(s)]) \in Seq(Unit)
      <3>1. wire[Other(s)] \in Seq(Unit) /\ wire[Other(s)] # <<>>
        BY <1>t, <1>9, OtherSide DEF TypeOK, ReadData
      <3> QED
        BY <3>1, HeadTailProperties
    <2>1. wire' \in [Sides -> Seq(Unit)]
      BY <1>t, <1>9, <2>0 DEF TypeOK, ReadData
    <2>2. CASE held[s] = "held"
      <3>1. Append(reports[s], Head(wire[Other(s)])) \in Seq(Unit \cup {CLEAN, ERROR})
        BY <1>t, <2>0, SMTT(30) DEF TypeOK
      <3>2. reports' \in [Sides -> Seq(Unit \cup {CLEAN, ERROR})]
        BY <1>t, <1>9, <2>2, <3>1 DEF TypeOK, ReadData
      <3> QED
        BY <1>t, <1>9, <2>1, <2>2, <3>2 DEF TypeOK, ReadData
    <2>3. CASE held[s] # "held"
      <3>1. /\ ReaderDone(s) /\ UNCHANGED reports
            /\ stopped' = [stopped EXCEPT ![Other(s)] = TRUE]
            /\ UNCHANGED <<alive, writer, queue, aborted, sending, scriptVars>>
        BY <1>9, <2>3 DEF ReadData
      <3> QED
        BY <1>t, <1>r, <2>1, <3>1 DEF TypeOK
    <2> QED
      BY <2>2, <2>3
  <1>10. ASSUME NEW s \in Sides, NEW how \in {CLEAN, ERROR}, ReadEnd(s, how) PROVE TypeOK'
    <2>1. Append(reports[s], how) \in Seq(Unit \cup {CLEAN, ERROR})
      BY <1>t DEF TypeOK
    <2>2. reports' \in [Sides -> Seq(Unit \cup {CLEAN, ERROR})]
      BY <1>t, <1>10, <2>1 DEF TypeOK, ReadEnd
    <2> QED
      BY <1>t, <1>r, <1>10, <2>2 DEF TypeOK, ReadEnd
  <1>11. ASSUME NEW s \in Sides, Put(s) PROVE TypeOK'
    <2>0. put[s] \in Nat
      BY <1>t DEF TypeOK
    <2>1. put' \in [Sides -> Nat]
      BY <1>t, <1>11, <2>0 DEF TypeOK, Put
    <2>2. queue' \in [Sides -> Seq(Unit \cup {FINISH, ABORT})]
      <3>1. put[s] + 1 \in Unit
        BY <2>0 DEF Unit
      <3>2. Append(queue[s], put[s] + 1) \in Seq(Unit \cup {FINISH, ABORT})
        BY <1>t, <3>1, AppendProperties DEF TypeOK
      <3> QED
        BY <1>t, <1>11, <3>2 DEF TypeOK, Put
    <2> QED
      BY <1>t, <1>11, <2>1, <2>2 DEF TypeOK, Put
  <1>12. ASSUME NEW s \in Sides, Finish(s) PROVE TypeOK'
    <2>0. put[s] \in Nat
      BY <1>t DEF TypeOK
    <2>1. whole' \in [Sides -> Nat \cup {-1}]
      BY <1>t, <1>12, <2>0 DEF TypeOK, Finish
    <2>2. queue' \in [Sides -> Seq(Unit \cup {FINISH, ABORT})]
      <3>2. Append(queue[s], FINISH) \in Seq(Unit \cup {FINISH, ABORT})
        BY <1>t, AppendProperties DEF TypeOK
      <3> QED
        BY <1>t, <1>12, <3>2 DEF TypeOK, Finish
    <2> QED
      BY <1>t, <1>12, <2>1, <2>2 DEF TypeOK, Finish
  <1>13. ASSUME NEW s \in Sides, Abort(s) PROVE TypeOK'
    <2>1. abortCalled' \in [Sides -> BOOLEAN]
      BY <1>t, <1>13 DEF TypeOK, Abort
    <2>2. queue' \in [Sides -> Seq(Unit \cup {FINISH, ABORT})]
      <3>2. Append(queue[s], ABORT) \in Seq(Unit \cup {FINISH, ABORT})
        BY <1>t, AppendProperties DEF TypeOK
      <3> QED
        BY <1>t, <1>13, <3>2 DEF TypeOK, Abort
    <2> QED
      BY <1>t, <1>13, <2>1, <2>2 DEF TypeOK, Abort
  <1>14. ASSUME NEW s \in Sides, Close(s) PROVE TypeOK'
    <2>0. put[s] \in Nat
      BY <1>t DEF TypeOK
    <2>1. whole' \in [Sides -> Nat \cup {-1}]
      BY <1>t, <1>14, <2>0 DEF TypeOK, Close
    <2>2. held' \in [Sides -> {"absent", "held", "closed"}]
      BY <1>t, <1>14 DEF TypeOK, Close
    <2>3. /\ buffered' \in [Sides -> Seq(Unit)]
          /\ reports' \in [Sides -> Seq(Unit \cup {CLEAN, ERROR})]
      BY <1>t, <1>e, <1>14 DEF TypeOK, Close
    <2> QED
      BY <1>t, <1>14, <2>1, <2>2, <2>3 DEF TypeOK, Close
  <1>d. ASSUME NEW s \in Sides, NEW n \in Nat, DrainAndTake(s, n)
        PROVE  /\ taken' \in [Sides -> Seq(Unit)] /\ buffered' \in [Sides -> Seq(Unit)]
               /\ reports' \in [Sides -> Seq(Unit \cup {CLEAN, ERROR})]
               /\ ended' \in [Sides -> {NOT_ENDED, CLEAN, ERROR}]
    <2>1. /\ taken' \in [Sides -> Seq(Unit)] /\ buffered' \in [Sides -> Seq(Unit)]
          /\ reports' = [reports EXCEPT ![s] = <<>>]
          /\ ended' = [ended EXCEPT ![s] = EndOf(reports[s], @)]
      BY <1>d, DrainStep
    <2>2. EndOf(reports[s], ended[s]) \in {NOT_ENDED, CLEAN, ERROR}
      <3>1. reports[s] \in Seq(Unit \cup {CLEAN, ERROR}) /\ ended[s] \in {NOT_ENDED, CLEAN, ERROR}
        BY <1>t DEF TypeOK
      <3>2. CASE EndReported(reports[s])
        <4>1. Len(reports[s]) \in Nat \ {0} /\ reports[s][Len(reports[s])] <= 0
          BY <3>1, <3>2, EmptySeq DEF EndReported
        <4>2. reports[s][Len(reports[s])] \in Unit \cup {CLEAN, ERROR}
          BY <3>1, <4>1, ElementOfSeq
        <4>3. reports[s][Len(reports[s])] \in {CLEAN, ERROR}
          BY <4>1, <4>2 DEF Unit
        <4> QED
          BY <3>2, <4>3 DEF EndOf
      <3> QED
        BY <3>1, <3>2 DEF EndOf
    <2> QED
      BY <1>t, <1>e, <2>1, <2>2 DEF TypeOK
  <1>15. ASSUME NEW s \in Sides, NEW n \in 0 .. 1, GetPartial(s, n) PROVE TypeOK'
    <2>1. /\ n \in Nat /\ DrainAndTake(s, n)
          /\ UNCHANGED <<alive, taskVars, queue, held, waiting, put, whole, abortCalled>>
      BY <1>15 DEF GetPartial
    <2>2. /\ taken' \in [Sides -> Seq(Unit)] /\ buffered' \in [Sides -> Seq(Unit)]
          /\ reports' \in [Sides -> Seq(Unit \cup {CLEAN, ERROR})]
          /\ ended' \in [Sides -> {NOT_ENDED, CLEAN, ERROR}]
      BY <1>d, <2>1
    <2> QED
      BY <1>t, <2>1, <2>2 DEF TypeOK
  <1>16. ASSUME NEW s \in Sides, NEW n \in Wants(s), GetData(s, n) PROVE TypeOK'
    <2>1. n \in Nat
      BY MaxPutsAssumption, OtherSide DEF Wants
    <2>2. PICK m \in Nat : DrainAndTake(s, m)
      BY <1>16, <2>1 DEF GetData
    <2>3. waiting' \in [Sides -> Nat]
      BY <1>t, <1>16, <2>1 DEF TypeOK, GetData
    <2> QED
      BY <1>t, <1>d, <1>16, <2>2, <2>3 DEF TypeOK, GetData
  <1>17. ASSUME NEW s \in Sides, Fill(s) PROVE TypeOK'
    <2>1. /\ taken' \in [Sides -> Seq(Unit)] /\ buffered' \in [Sides -> Seq(Unit)]
          /\ ended' \in [Sides -> {NOT_ENDED, CLEAN, ERROR}] /\ waiting' \in [Sides -> Nat]
          /\ reports' \in [Sides -> Seq(Unit \cup {CLEAN, ERROR})]
      BY <1>17, FillStep
    <2>2. UNCHANGED <<alive, taskVars, queue, held, put, whole, abortCalled>>
      BY <1>17 DEF Fill
    <2> QED
      BY <1>t, <2>1, <2>2 DEF TypeOK
  <1> QED
    BY <1>1, <1>2, <1>3, <1>4, <1>5, <1>6, <1>7, <1>8, <1>9, <1>10, <1>11, <1>12, <1>13,
       <1>14, <1>15, <1>16, <1>17 DEF Next, Write, Read

----------------------------------------------------------------------------
(* The steps of the two sides and of the connection. *)

\* Stream::open: the tasks start, or fail, before anything was reported.
LEMMA OpenStep ==
    ASSUME SInv, TypeOK', Open
    PROVE  SInv'
  <1> DEFINE s == Opener
             o == Other(Opener)
  <1>0. /\ s \in Sides /\ o \in Sides /\ o # s /\ Other(o) = s
    BY OtherSide DEF Sides
  <1>t. TypeOK /\ Parts(s) /\ Parts(o) /\ writer[s] = "none"
    BY <1>0 DEF SInv, Parts, Open
  <1>1. /\ UNCHANGED <<alive, aborted, wire, sending, stopped, held, buffered, ended, waiting,
                       taken, put, whole, abortCalled>>
        /\ writer'[o] = writer[o] /\ reader'[o] = reader[o] /\ queue'[o] = queue[o]
        /\ reports'[o] = reports[o] /\ writer'[s] # "none"
    BY <1>0, <1>t, SMTT(30) DEF Open, TypeOK, scriptVars
  <1>2. /\ ~EndReported(reports[s]) /\ ended[s] = NOT_ENDED /\ reader[s] = "none"
        /\ sending[s] = "open" /\ held[s] # "absent"
    BY <1>t DEF Parts, Tasking
  <1>3. /\ reports[s] \in Seq(Int) /\ Run(Units(reports[s]), Len(taken[s]) + Len(buffered[s]))
        /\ Len(taken[s]) + Len(buffered[s]) \in Int
        /\ \A i \in DOMAIN reports[s] : i # Len(reports[s]) => reports[s][i] > 0
        /\ put[o] \in Nat /\ put[s] \in Nat
    <2>1. /\ reports[s] \in Seq(Int) /\ put[o] \in Nat /\ put[s] \in Nat
          /\ Len(taken[s]) \in Nat /\ Len(buffered[s]) \in Nat
      BY <1>0, <1>t, SeqTypes
    <2>2. Len(taken[s]) + Len(buffered[s]) \in Int
      BY <2>1
    <2> QED
      BY <1>t, <2>1, <2>2 DEF Parts, Received
  \* What the opener hears.
  <1>4. /\ Run(Units(reports'[s]), Len(taken[s]) + Len(buffered[s]))
        /\ Len(Units(reports'[s])) = Len(Units(reports[s]))
        /\ \A i \in DOMAIN reports'[s] : i # Len(reports'[s]) => reports'[s][i] > 0
        /\ EndOf(reports'[s], NOT_ENDED) # CLEAN
        /\ EndReported(reports'[s]) => reader'[s] = "done"
    <2>1. EndOf(reports[s], NOT_ENDED) # CLEAN
      BY <1>2 DEF EndOf, NOT_ENDED, CLEAN
    <2>2. CASE reports'[s] = reports[s]
      BY <1>2, <1>3, <2>1, <2>2
    <2>3. CASE reports'[s] = Append(reports[s], ERROR) /\ reader'[s] = "done"
      <3>1. ERROR \in Int /\ ERROR <= 0 /\ ERROR # CLEAN
        BY DEF ERROR, CLEAN
      <3>2. EndOf(reports'[s], NOT_ENDED) = ERROR
        BY <1>2, <1>3, <2>3, <3>1, ReportEnd
      <3> QED
        BY <1>2, <1>3, <2>3, <3>1, <3>2, ReportsEnd
    <2>4. reports'[s] = reports[s] \/ (reports'[s] = Append(reports[s], ERROR) /\ reader'[s] = "done")
      <3>0. reports \in [Sides -> Seq(Unit \cup {CLEAN, ERROR})] /\ reader \in [Sides -> Tasks]
        BY <1>t DEF TypeOK
      <3>1. CASE alive
        BY <3>1 DEF Open
      <3>2. CASE ~alive
        <4>1. /\ reader' = [reader EXCEPT ![s] = "done"]
              /\ reports' = [reports EXCEPT ![s] = IF held[s] = "held" THEN Append(@, ERROR) ELSE @]
          BY <3>2 DEF Open
        <4> QED
          BY <1>0, <3>0, <4>1
      <3> QED
        BY <3>1, <3>2
    <2> QED
      BY <2>2, <2>3, <2>4
  <1>g. Got(s)' = Got(s) /\ Got(o)' = Got(o)
    BY <1>0, <1>1, <1>4 DEF Got
  <1>5. Parts(s)'
    <2>1. Received(s)'
      BY <1>t, <1>1, <1>4 DEF Parts, Received
    <2>2. Tasking(s)'
      BY <1>t, <1>1, <1>2, <1>4 DEF Parts, Tasking
    <2>3. Asked(s)'
      <3>1. CASE alive
        <4>1. queue'[s] = queue[s] /\ writer'[s] # "done"
          BY <1>0, <1>t, <3>1 DEF Open, TypeOK
        <4> QED
          BY <1>t, <1>1, <4>1 DEF Parts, Asked, Queued
      <3>2. CASE ~alive
        <4>1. queue'[s] = <<>> /\ writer'[s] = "done"
          BY <1>0, <1>t, <3>2 DEF Open, TypeOK
        <4>2. Asked(s)
          BY <1>t DEF Parts
        <4>3. aborted'[s] => abortCalled[s]
          BY <1>1, <4>2 DEF Asked
        <4> QED
          BY <1>0, <1>1, <4>1, <4>2, <4>3, StopAsked
      <3> QED
        BY <3>1, <3>2
    <2>4. Excused(s)'
      BY <1>0, <1>t, <1>1, KeepExcused DEF Parts
    <2>5. ASSUME held[s] # "closed" PROVE InFlight(s)'
      BY <1>0, <1>t, <1>1, <1>g, <2>5, KeepInFlight DEF Parts
    <2>6. Cleanly(s)'
      <3>1. ended'[s] # CLEAN
        BY <1>1, <1>2 DEF NOT_ENDED, CLEAN
      <3> QED
        BY <1>4, <3>1 DEF Cleanly
    <2> QED
      BY <1>1, <2>1, <2>2, <2>3, <2>4, <2>5, <2>6 DEF Parts
  <1>6. Parts(o)'
    <2>1. Received(o)'
      <3>1. put'[s] >= put[s]
        BY <1>1, <1>3
      <3> QED
        BY <1>0, <1>t, <1>1, <3>1, KeepReceived DEF Parts
    <2>2. Tasking(o)'
      BY <1>0, <1>t, <1>1, KeepTasking DEF Parts
    <2>3. Asked(o)'
      BY <1>0, <1>t, <1>1, KeepAsked DEF Parts
    <2>4. Excused(o)'
      BY <1>0, <1>t, <1>1, KeepExcused DEF Parts
    <2>5. ASSUME held[o] # "closed" PROVE InFlight(o)'
      <3>0. InFlight(o)
        BY <1>t, <2>5 DEF Parts
      <3>1. CASE alive
        <4>1. queue'[s] = queue[s] /\ writer'[s] # "done"
          BY <1>0, <1>t, <3>1 DEF Open, TypeOK
        <4>2. SentTo(o)' = SentTo(o)
          BY <1>0, <1>1, <1>g DEF SentTo
        <4> QED
          BY <1>0, <1>t, <1>1, <1>g, <3>0, <4>1, <4>2 DEF InFlight
      <3>2. CASE ~alive
        <4>1. queue'[s] = <<>> /\ writer'[s] = "done"
          BY <1>0, <1>t, <3>2 DEF Open, TypeOK
        <4>2. sending'[s] # "finished"
          BY <1>1, <1>2
        <4> QED
          BY <1>0, <1>1, <1>g, <3>0, <4>1, <4>2, StopInFlight
      <3> QED
        BY <3>1, <3>2
    <2>6. ASSUME held[o] # "closed" PROVE Cleanly(o)'
      BY <1>0, <1>t, <1>1, <1>g, <2>6, KeepCleanly DEF Parts
    <2> QED
      BY <1>1, <2>1, <2>2, <2>3, <2>4, <2>5, <2>6 DEF Parts
  <1> QED
    BY <1>0, <1>5, <1>6, BothSides

\* Stream::adopt: the acceptor's tasks start on a stream nothing was read from.
LEMMA AdoptStep ==
    ASSUME SInv, TypeOK', Adopt
    PROVE  SInv'
  <1> DEFINE s == Acceptor
             o == Other(Acceptor)
  <1>0. /\ s \in Sides /\ o \in Sides /\ o # s /\ Other(o) = s /\ s # Opener
    BY OtherSide, SidesAssumption DEF Sides
  <1>t. TypeOK /\ Parts(s) /\ Parts(o) /\ held[s] = "absent"
    BY <1>0 DEF SInv, Parts, Adopt
  <1>1. /\ UNCHANGED <<alive, queue, aborted, wire, sending, stopped, reports, buffered,
                       ended, waiting, taken, put, whole, abortCalled>>
        /\ writer'[o] = writer[o] /\ reader'[o] = reader[o] /\ held'[o] = held[o]
        /\ writer'[s] = "running" /\ reader'[s] = "running" /\ held'[s] = "held"
    BY <1>0, <1>t DEF Adopt, TypeOK
  <1>2. /\ ~EndReported(reports[s]) /\ ended[s] = NOT_ENDED /\ writer[s] = "none"
        /\ sending[s] = "open" /\ ~(waiting[s] > 0)
    BY <1>t DEF Parts, Tasking
  <1>g. Got(s)' = Got(s) /\ Got(o)' = Got(o)
    BY <1>0, <1>1, KeepGot
  <1>3. put[s] \in Nat /\ put[o] \in Nat /\ put'[s] >= put[s] /\ put'[o] >= put[o]
    BY <1>0, <1>t, <1>1, SeqTypes
  <1>4. Parts(s)'
    <2>1. Received(s)'
      BY <1>0, <1>t, <1>1, <1>3, KeepReceived DEF Parts
    <2>2. Tasking(s)'
      BY <1>0, <1>1, <1>2 DEF Tasking
    <2>3. Asked(s)'
      BY <1>t, <1>1, <1>2 DEF Parts, Asked, Queued
    <2>4. Excused(s)'
      BY <1>0, <1>t, <1>1, KeepExcused DEF Parts
    <2>5. InFlight(s)'
      BY <1>0, <1>t, <1>1, <1>g, KeepInFlight DEF Parts
    <2>6. Cleanly(s)'
      BY <1>0, <1>t, <1>1, <1>g, KeepCleanly DEF Parts
    <2> QED
      BY <2>1, <2>2, <2>3, <2>4, <2>5, <2>6 DEF Parts
  <1>5. Parts(o)'
    <2>1. Received(o)'
      BY <1>0, <1>t, <1>1, <1>3, KeepReceived DEF Parts
    <2>2. Tasking(o)'
      BY <1>0, <1>t, <1>1, KeepTasking DEF Parts
    <2>3. Asked(o)'
      BY <1>0, <1>t, <1>1, KeepAsked DEF Parts
    <2>4. Excused(o)'
      BY <1>0, <1>t, <1>1, KeepExcused DEF Parts
    <2>5. ASSUME held[o] # "closed" PROVE InFlight(o)'
      <3>1. SentTo(o)' = SentTo(o)
        BY <1>0, <1>1, <1>g DEF SentTo
      <3>2. InFlight(o) /\ writer'[s] # "done" /\ writer[s] # "done"
        BY <1>t, <1>1, <1>2, <2>5 DEF Parts
      <3> QED
        BY <1>0, <1>1, <1>g, <3>1, <3>2 DEF InFlight
    <2>6. ASSUME held[o] # "closed" PROVE Cleanly(o)'
      BY <1>0, <1>t, <1>1, <1>g, <2>6, KeepCleanly DEF Parts
    <2> QED
      BY <1>1, <2>1, <2>2, <2>3, <2>4, <2>5, <2>6 DEF Parts
  <1> QED
    BY <1>0, <1>4, <1>5, BothSides

\* The loss of the connection is a reason for every write to fail.
LEMMA LossStep ==
    ASSUME SInv, TypeOK', ConnectionLost
    PROVE  SInv'
  <1>1. /\ UNCHANGED <<taskVars, queue, reports, scriptVars>> /\ ~alive'
    BY DEF ConnectionLost
  <1>2. ASSUME NEW x \in Sides PROVE Parts(x)'
    <2>0. Parts(x)
      BY DEF SInv, Parts
    <2>1. Excused(x)'
      BY <1>1, <2>0 DEF Parts, Excused, taskVars, scriptVars
    <2>2. Got(x)' = Got(x)
      BY <1>1, KeepGot DEF scriptVars
    <2>3. SentTo(x)' = SentTo(x)
      BY <1>1, <2>2 DEF SentTo, taskVars
    <2>4. Received(x)' /\ Tasking(x)' /\ Asked(x)'
      BY <1>1, <2>0 DEF Parts, Received, Tasking, Asked, Queued, taskVars, scriptVars
    <2>5. held[x] # "closed" => InFlight(x)' /\ Cleanly(x)'
      BY <1>1, <2>0, <2>2, <2>3 DEF Parts, InFlight, Cleanly, taskVars, scriptVars
    <2> QED
      BY <1>1, <2>1, <2>4, <2>5 DEF Parts, scriptVars
  <1> QED
    BY <1>2 DEF SInv, Parts

\* The writer of side s stops: it failed, finished or was reset.
LEMMA WriterStops ==
    ASSUME SInv, TypeOK', NEW s \in Sides, writer[s] = "running",
           NEW half \in {"finished", "reset", "failed"}, WriterDone(s, half),
           UNCHANGED <<alive, reader, wire, stopped, reports, scriptVars>>,
           \A x \in Sides \ {s} : aborted'[x] = aborted[x],
           aborted'[s] => abortCalled[s],
           half = "failed" => stopped[s] \/ ~alive,
           half = "finished" => \A x \in Sides : held[x] # "closed" /\ Other(x) = s => whole[s] = SentTo(x)
    PROVE  SInv'
  <1> DEFINE o == Other(s)
  <1>0. /\ o \in Sides /\ o # s /\ Other(o) = s
    BY OtherSide
  <1>t. TypeOK /\ Parts(s) /\ Parts(o)
    BY <1>0 DEF SInv, Parts
  <1>1. /\ UNCHANGED <<alive, reader, wire, stopped, reports, held, buffered, ended, waiting,
                       taken, put, whole, abortCalled>>
        /\ writer'[o] = writer[o] /\ sending'[o] = sending[o] /\ queue'[o] = queue[o]
        /\ writer'[s] = "done" /\ sending'[s] = half /\ queue'[s] = <<>> /\ aborted'[o] = aborted[o]
    BY <1>0, <1>t DEF WriterDone, TypeOK, scriptVars
  <1>g. Got(s)' = Got(s) /\ Got(o)' = Got(o)
    BY <1>0, <1>1, KeepGot
  <1>3. put[s] \in Nat /\ put[o] \in Nat /\ put'[s] >= put[s] /\ put'[o] >= put[o]
    BY <1>0, <1>t, <1>1, SeqTypes
  <1>4. Parts(s)'
    <2>1. Received(s)'
      BY <1>0, <1>t, <1>1, <1>3, KeepReceived DEF Parts
    <2>2. Tasking(s)'
      BY <1>0, <1>t, <1>1 DEF Parts, Tasking
    <2>3. Asked(s)'
      BY <1>0, <1>t, <1>1, StopAsked DEF Parts
    <2>4. Excused(s)'
      BY <1>0, <1>t, <1>1 DEF Parts, Excused
    <2>5. ASSUME held[s] # "closed" PROVE InFlight(s)'
      BY <1>0, <1>t, <1>1, <1>g, <2>5, KeepInFlight DEF Parts
    <2>6. ASSUME held[s] # "closed" PROVE Cleanly(s)'
      BY <1>0, <1>t, <1>1, <1>g, <2>6, KeepCleanly DEF Parts
    <2> QED
      BY <1>1, <2>1, <2>2, <2>3, <2>4, <2>5, <2>6 DEF Parts
  <1>5. Parts(o)'
    <2>1. Received(o)'
      BY <1>0, <1>t, <1>1, <1>3, KeepReceived DEF Parts
    <2>2. Tasking(o)'
      BY <1>0, <1>t, <1>1, KeepTasking DEF Parts
    <2>3. Asked(o)'
      BY <1>0, <1>t, <1>1, KeepAsked DEF Parts
    <2>4. Excused(o)'
      BY <1>0, <1>t, <1>1, KeepExcused DEF Parts
    <2>5. ASSUME held[o] # "closed" PROVE InFlight(o)'
      <3>1. InFlight(o)
        BY <1>t, <2>5 DEF Parts
      <3>2. sending'[s] = "finished" => whole[s] = SentTo(o)
        BY <1>0, <1>1, <2>5
      <3> QED
        BY <1>0, <1>1, <1>g, <3>1, <3>2, StopInFlight
    <2>6. ASSUME held[o] # "closed" PROVE Cleanly(o)'
      BY <1>0, <1>t, <1>1, <1>g, <2>6, KeepCleanly DEF Parts
    <2> QED
      BY <1>1, <2>1, <2>2, <2>3, <2>4, <2>5, <2>6 DEF Parts
  <1> QED
    BY <1>0, <1>4, <1>5, BothSides

\* Chunk::Finish, or the sender dropped and nothing left: all that was to be
\* sent before is on its way.
LEMMA FinishedStep ==
    ASSUME SInv, TypeOK', NEW s \in Sides, WriteFinish(s)
    PROVE  SInv'
  <1>1. ASSUME NEW x \in Sides, held[x] # "closed", Other(x) = s
        PROVE  whole[s] = SentTo(x)
    <2>0. TypeOK /\ InFlight(x) /\ Asked(s) /\ writer[s] # "done"
      BY <1>1 DEF SInv, WriteFinish
    <2>1. SentTo(x) \in Nat /\ queue[s] \in Seq(Int) /\ put[s] \in Nat
      BY <2>0, SeqTypes
    <2>2. CASE queue[s] # <<>> /\ Head(queue[s]) = FINISH
      <3>1. 1 \in DOMAIN queue[s] /\ queue[s][1] = FINISH
        BY <2>1, <2>2, TailFacts
      <3>2. Data(queue[s], 1 - 1)
        BY DEF Data
      <3>3. whole[s] = SentTo(x) + 1 - 1
        BY <1>1, <2>0, <3>1, <3>2 DEF InFlight
      <3> QED
        BY <2>1, <3>3
    <2>3. CASE queue[s] = <<>> /\ held[s] = "closed"
      <3>1. ~Queued(s, ABORT) /\ ~Queued(s, FINISH)
        BY <2>3, NoReports DEF Queued
      <3>2. whole[s] = put[s]
        BY <2>0, <2>3, <3>1 DEF Asked
      <3>3. Data(queue[s], Len(queue[s])) /\ Len(queue[s]) = 0
        BY <2>3, NoReports DEF Data
      <3>4. put[s] = SentTo(x) + Len(queue[s])
        BY <1>1, <2>0, <3>3 DEF InFlight
      <3> QED
        BY <2>1, <3>2, <3>3, <3>4
    <2> QED
      BY <2>2, <2>3 DEF WriteFinish
  <1>2. /\ writer[s] = "running" /\ WriterDone(s, "finished")
        /\ UNCHANGED <<alive, reader, aborted, wire, stopped, reports, scriptVars>>
    BY DEF WriteFinish
  <1>3. aborted'[s] => abortCalled[s]
    BY <1>2 DEF SInv, Asked
  <1> QED
    BY <1>1, <1>2, <1>3, WriterStops

\* Chunk::Abort: the reset is asked for.
LEMMA AbortedStep ==
    ASSUME SInv, TypeOK', NEW s \in Sides, WriteAbort(s)
    PROVE  SInv'
  <1>1. /\ writer[s] = "running" /\ WriterDone(s, "reset")
        /\ UNCHANGED <<alive, reader, wire, stopped, reports, scriptVars>>
        /\ \A x \in Sides \ {s} : aborted'[x] = aborted[x]
    BY DEF WriteAbort, SInv, TypeOK
  <1>2. abortCalled[s]
    <2>1. queue[s] \in Seq(Int) /\ queue[s] # <<>> /\ Head(queue[s]) = ABORT
      BY SeqTypes DEF SInv, WriteAbort
    <2>2. Queued(s, ABORT)
      BY <2>1, TailFacts DEF Queued
    <2> QED
      BY <2>2 DEF SInv, Asked
  <1> QED
    BY <1>1, <1>2, WriterStops

\* The first chunks of a queue are data if its head is and those of its tail are.
LEMMA DataTail ==
    ASSUME NEW q \in Seq(Int), q # <<>>, q[1] > 0,
           NEW i \in 0 .. Len(q) - 1, Data(Tail(q), i)
    PROVE  Data(q, i + 1)
  <1>1. /\ Len(q) \in Nat \ {0} /\ DOMAIN Tail(q) = 1 .. Len(q) - 1
        /\ \A k \in 1 .. Len(q) - 1 : Tail(q)[k] = q[k + 1]
    BY TailFacts
  <1> SUFFICES ASSUME NEW j \in 1 .. i + 1 PROVE q[j] > 0
    BY DEF Data
  <1>2. CASE j = 1
    BY <1>2
  <1>3. CASE j # 1
    <2>1. j - 1 \in 1 .. i /\ j - 1 \in 1 .. Len(q) - 1 /\ (j - 1) + 1 = j
      BY <1>1, <1>3
    <2>2. Tail(q)[j - 1] > 0
      BY <2>1 DEF Data
    <2>3. Tail(q)[j - 1] = q[(j - 1) + 1]
      BY <1>1, <2>1
    <2> QED
      BY <2>1, <2>2, <2>3
  <1> QED
    BY <1>2, <1>3

\* Chunk::Data, written: the next unit moves from the queue to the wire.
LEMMA WrittenStep ==
    ASSUME SInv, TypeOK', NEW s \in Sides, writer[s] = "running",
           queue[s] # <<>>, Head(queue[s]) > 0,
           wire' = [wire EXCEPT ![s] = Append(@, Head(queue[s]))],
           queue' = [queue EXCEPT ![s] = Tail(@)],
           UNCHANGED <<writer, sending, alive, reader, aborted, stopped, reports, scriptVars>>
    PROVE  SInv'
  <1> DEFINE o == Other(s)
  <1>0. /\ o \in Sides /\ o # s /\ Other(o) = s
    BY OtherSide
  <1>t. TypeOK /\ Parts(s) /\ Parts(o)
    BY <1>0 DEF SInv, Parts
  <1>h. PICK h, q, w, t, a : /\ h = Head(queue[s]) /\ q = queue[s] /\ w = wire[s]
                             /\ t = Tail(queue[s]) /\ a = Append(wire[s], Head(queue[s]))
    OBVIOUS
  <1>1. /\ UNCHANGED <<alive, reader, writer, sending, aborted, stopped, reports, held, buffered,
                       ended, waiting, taken, put, whole, abortCalled>>
        /\ wire'[o] = wire[o] /\ queue'[o] = queue[o] /\ wire'[s] = a /\ queue'[s] = t
    BY <1>0, <1>t, <1>h DEF TypeOK, scriptVars
  <1>2. /\ q \in Seq(Int) /\ w \in Seq(Int) /\ q # <<>> /\ h > 0
        /\ put[s] \in Nat /\ put[o] \in Nat /\ Got(o) \in Nat /\ SentTo(o) \in Nat
        /\ Len(w) \in Nat /\ SentTo(o) = Got(o) + Len(w) /\ whole[s] \in Int
    BY <1>0, <1>t, <1>h, SeqTypes DEF SentTo
  <1>3. /\ h \in Int /\ h = q[1] /\ t \in Seq(Int) /\ Len(q) \in Nat \ {0} /\ Len(t) = Len(q) - 1
        /\ DOMAIN q = 1 .. Len(q) /\ DOMAIN t = 1 .. Len(q) - 1
        /\ \A k \in 1 .. Len(q) - 1 : t[k] = q[k + 1]
    BY <1>2, <1>h, TailFacts
  <1>g. Got(s)' = Got(s) /\ Got(o)' = Got(o)
    BY <1>0, <1>1, KeepGot
  <1>p. put'[s] >= put[s] /\ put'[o] >= put[o]
    BY <1>1, <1>2
  <1>4. \A m \in {FINISH, ABORT} : Queued(s, m)' <=> Queued(s, m)
    <2> SUFFICES ASSUME NEW m \in {FINISH, ABORT}
                 PROVE  (\E k \in DOMAIN t : t[k] = m) <=> (\E k \in DOMAIN q : q[k] = m)
      BY <1>1, <1>h DEF Queued
    <2>0. m <= 0 /\ m \in Int
      BY DEF FINISH, ABORT
    <2>1. ASSUME NEW k \in DOMAIN t, t[k] = m PROVE \E j \in DOMAIN q : q[j] = m
      <3>1. k + 1 \in DOMAIN q /\ q[k + 1] = m
        BY <1>3, <2>1
      <3> QED
        BY <3>1
    <2>2. ASSUME NEW k \in DOMAIN q, q[k] = m PROVE \E j \in DOMAIN t : t[j] = m
      <3>1. k # 1
        BY <1>2, <1>3, <2>0, <2>2
      <3>2. k - 1 \in 1 .. Len(q) - 1 /\ (k - 1) + 1 = k
        BY <1>3, <3>1
      <3>3. k - 1 \in DOMAIN t /\ t[k - 1] = m
        BY <1>3, <2>2, <3>2
      <3> QED
        BY <3>3
    <2> QED
      BY <2>1, <2>2
  <1>5. Parts(s)'
    <2>1. Received(s)'
      BY <1>0, <1>t, <1>1, <1>p, KeepReceived DEF Parts
    <2>2. Tasking(s)'
      BY <1>0, <1>t, <1>1, KeepTasking DEF Parts
    <2>3. Asked(s)'
      <3>1. \A i \in DOMAIN t : t[i] <= put[s]
        <4> SUFFICES ASSUME NEW i \in DOMAIN t PROVE t[i] <= put[s]
          OBVIOUS
        <4>1. i + 1 \in DOMAIN q /\ t[i] = q[i + 1]
          BY <1>3
        <4> QED
          BY <1>t, <1>h, <4>1 DEF Parts, Asked
      <3> QED
        BY <1>t, <1>1, <1>4, <3>1 DEF Parts, Asked
    <2>4. Excused(s)'
      BY <1>0, <1>t, <1>1, KeepExcused DEF Parts
    <2>5. ASSUME held[s] # "closed" PROVE InFlight(s)'
      BY <1>0, <1>t, <1>1, <1>g, <2>5, KeepInFlight DEF Parts
    <2>6. ASSUME held[s] # "closed" PROVE Cleanly(s)'
      BY <1>0, <1>t, <1>1, <1>g, <2>6, KeepCleanly DEF Parts
    <2> QED
      BY <1>1, <2>1, <2>2, <2>3, <2>4, <2>5, <2>6 DEF Parts
  <1>6. Parts(o)'
    <2>1. Received(o)'
      BY <1>0, <1>t, <1>1, <1>p, KeepReceived DEF Parts
    <2>2. Tasking(o)'
      BY <1>0, <1>t, <1>1, KeepTasking DEF Parts
    <2>3. Asked(o)'
      BY <1>0, <1>t, <1>1, KeepAsked DEF Parts
    <2>4. Excused(o)'
      BY <1>0, <1>t, <1>1, KeepExcused DEF Parts
    <2>5. ASSUME held[o] # "closed" PROVE InFlight(o)'
      <3>0. /\ Run(w, Got(o))
            /\ \A i \in DOMAIN q : Data(q, i) => q[i] = SentTo(o) + i
            /\ Data(q, Len(q)) => put[s] = SentTo(o) + Len(q)
            /\ \A i \in DOMAIN q : q[i] = FINISH /\ Data(q, i - 1) => whole[s] = SentTo(o) + i - 1
        BY <1>0, <1>t, <1>h, <2>5 DEF Parts, InFlight
      <3>1. h = SentTo(o) + 1 /\ h <= put[s]
        <4>1. 1 \in DOMAIN q /\ Data(q, 1)
          BY <1>2, <1>3 DEF Data
        <4>2. q[1] = SentTo(o) + 1
          BY <3>0, <4>1
        <4>3. q[1] <= put[s]
          BY <1>t, <1>h, <4>1 DEF Parts, Asked
        <4> QED
          BY <1>3, <4>2, <4>3
      <3>2. Run(a, Got(o)) /\ Len(a) = Len(w) + 1
        <4>1. Got(o) \in Int /\ h = Got(o) + Len(w) + 1
          BY <1>2, <3>1
        <4>2. Run(Append(w, Got(o) + Len(w) + 1), Got(o))
          BY <1>2, <3>0, <4>1, RunAppend
        <4>3. Len(Append(w, h)) = Len(w) + 1
          BY <1>2, <1>3, AppendFacts
        <4> QED
          BY <1>h, <4>1, <4>2, <4>3
      <3>3. SentTo(o)' = SentTo(o) + 1
        <4>1. SentTo(o)' = Got(o) + Len(a)
          BY <1>0, <1>1, <1>g DEF SentTo
        <4> QED
          BY <1>2, <3>2, <4>1
      <3>4. SentTo(o)' <= put[s]
        BY <1>2, <3>1, <3>3
      <3>5. ASSUME NEW i \in DOMAIN t, Data(t, i) PROVE t[i] = SentTo(o)' + i
        <4>1. i \in 0 .. Len(q) - 1 /\ i + 1 \in DOMAIN q /\ t[i] = q[i + 1] /\ i \in Nat
          BY <1>3
        <4>2. Data(q, i + 1)
          BY <1>2, <1>3, <1>h, <3>5, <4>1, DataTail
        <4>3. q[i + 1] = SentTo(o) + (i + 1)
          BY <3>0, <4>1, <4>2
        <4> QED
          BY <1>2, <3>3, <4>1, <4>3
      <3>6. ASSUME Data(t, Len(t)) PROVE put[s] = SentTo(o)' + Len(t)
        <4>1. Len(t) \in 0 .. Len(q) - 1 /\ Len(t) + 1 = Len(q)
          BY <1>3
        <4>2. Data(q, Len(q))
          BY <1>2, <1>3, <1>h, <3>6, <4>1, DataTail
        <4> QED
          BY <1>2, <1>3, <3>0, <3>3, <4>2
      <3>7. ASSUME NEW i \in DOMAIN t, t[i] = FINISH, Data(t, i - 1)
            PROVE  whole[s] = SentTo(o)' + i - 1
        <4>1. i - 1 \in 0 .. Len(q) - 1 /\ i + 1 \in DOMAIN q /\ q[i + 1] = FINISH /\ i \in Nat
          BY <1>3, <3>7, SMTT(30)
        <4>2. Data(q, (i - 1) + 1)
          BY <1>2, <1>3, <1>h, <3>7, <4>1, DataTail
        <4>3. (i - 1) + 1 = (i + 1) - 1
          BY <4>1
        <4>4. whole[s] = SentTo(o) + (i + 1) - 1
          BY <3>0, <4>1, <4>2, <4>3
        <4> QED
          BY <1>2, <3>3, <4>1, <4>4
      <3>8. sending[s] # "finished"
        BY <1>t DEF Parts, Tasking
      <3> QED
        BY <1>0, <1>1, <1>g, <3>2, <3>4, <3>5, <3>6, <3>7, <3>8 DEF InFlight
    <2>6. ASSUME held[o] # "closed" PROVE Cleanly(o)'
      BY <1>0, <1>t, <1>1, <1>g, <2>6, KeepCleanly DEF Parts
    <2> QED
      BY <1>1, <2>1, <2>2, <2>3, <2>4, <2>5, <2>6 DEF Parts
  <1> QED
    BY <1>0, <1>5, <1>6, BothSides

\* Chunk::Data: written, or the write fails because of the other side or the
\* connection.
LEMMA DataStep ==
    ASSUME SInv, TypeOK', NEW s \in Sides, WriteData(s)
    PROVE  SInv'
  <1>1. CASE /\ wire' = [wire EXCEPT ![s] = Append(@, Head(queue[s]))]
             /\ queue' = [queue EXCEPT ![s] = Tail(@)]
             /\ UNCHANGED <<writer, sending>>
    BY <1>1, WrittenStep DEF WriteData
  <1>2. CASE (stopped[s] \/ ~alive) /\ WriterDone(s, "failed") /\ UNCHANGED wire
    <2>1. /\ writer[s] = "running"
          /\ UNCHANGED <<alive, reader, aborted, wire, stopped, reports, scriptVars>>
      BY <1>2 DEF WriteData
    <2>2. aborted'[s] => abortCalled[s]
      BY <2>1 DEF SInv, Asked
    <2> QED
      BY <1>2, <2>1, <2>2, WriterStops
  <1> QED
    BY <1>1, <1>2 DEF WriteData

\* The reader of side s stops, having said nothing more than its reports.
LEMMA ReaderStops ==
    ASSUME SInv, TypeOK', NEW s \in Sides, reader[s] = "running", ReaderDone(s),
           UNCHANGED <<alive, writer, queue, aborted, sending, scriptVars>>,
           \A x \in Sides \ {s} : reports'[x] = reports[x],
           stopped'[s] = stopped[s],
           stopped'[Other(s)] => stopped[Other(s)] \/ abortCalled[s] \/ held[s] = "closed",
           wire' = wire \/ (held[s] = "closed" /\ wire'[s] = wire[s]),
           \/ reports'[s] = reports[s]
           \/ \E how \in {CLEAN, ERROR} :
                /\ reports'[s] = Append(reports[s], how) /\ wire' = wire
                /\ how = CLEAN /\ held[s] # "closed" => whole[Other(s)] = Got(s)
    PROVE  SInv'
  <1> DEFINE o == Other(s)
  <1>0. /\ o \in Sides /\ o # s /\ Other(o) = s
    BY OtherSide
  <1>t. TypeOK /\ Parts(s) /\ Parts(o)
    BY <1>0 DEF SInv, Parts
  <1>1. /\ UNCHANGED <<alive, writer, queue, aborted, sending, held, buffered, ended, waiting,
                       taken, put, whole, abortCalled>>
        /\ reader'[o] = reader[o] /\ reader'[s] = "done" /\ reports'[o] = reports[o]
        /\ wire'[s] = wire[s]
    BY <1>0, <1>t DEF ReaderDone, TypeOK, scriptVars
  <1>2. ~EndReported(reports[s]) /\ ended[s] = NOT_ENDED /\ writer[s] # "none" /\ held[s] # "absent"
    BY <1>t DEF Parts, Tasking
  <1>3. /\ reports[s] \in Seq(Int) /\ Run(Units(reports[s]), Len(taken[s]) + Len(buffered[s]))
        /\ Len(taken[s]) + Len(buffered[s]) \in Int
        /\ \A i \in DOMAIN reports[s] : i # Len(reports[s]) => reports[s][i] > 0
        /\ put[o] \in Nat /\ put[s] \in Nat
    <2>1. /\ reports[s] \in Seq(Int) /\ put[o] \in Nat /\ put[s] \in Nat
          /\ Len(taken[s]) \in Nat /\ Len(buffered[s]) \in Nat
      BY <1>0, <1>t, SeqTypes
    <2>2. Len(taken[s]) + Len(buffered[s]) \in Int
      BY <2>1
    <2> QED
      BY <1>t, <2>1, <2>2 DEF Parts, Received
  \* What side s hears last.
  <1>4. /\ Run(Units(reports'[s]), Len(taken[s]) + Len(buffered[s]))
        /\ Len(Units(reports'[s])) = Len(Units(reports[s]))
        /\ \A i \in DOMAIN reports'[s] : i # Len(reports'[s]) => reports'[s][i] > 0
        /\ EndOf(reports'[s], NOT_ENDED) = CLEAN /\ held[s] # "closed" => whole[o] = Got(s)
    <2>1. EndOf(reports[s], NOT_ENDED) # CLEAN
      BY <1>2 DEF EndOf, NOT_ENDED, CLEAN
    <2>2. CASE reports'[s] = reports[s]
      BY <1>3, <2>1, <2>2
    <2>3. ASSUME NEW how \in {CLEAN, ERROR}, reports'[s] = Append(reports[s], how),
                 how = CLEAN /\ held[s] # "closed" => whole[o] = Got(s)
          PROVE  /\ Run(Units(reports'[s]), Len(taken[s]) + Len(buffered[s]))
                 /\ Len(Units(reports'[s])) = Len(Units(reports[s]))
                 /\ \A i \in DOMAIN reports'[s] : i # Len(reports'[s]) => reports'[s][i] > 0
                 /\ EndOf(reports'[s], NOT_ENDED) = CLEAN /\ held[s] # "closed" => whole[o] = Got(s)
      <3>1. how \in Int /\ how <= 0
        BY DEF ERROR, CLEAN
      <3>2. EndOf(reports'[s], NOT_ENDED) = how
        BY <1>2, <1>3, <2>3, <3>1, ReportEnd
      <3> QED
        BY <1>2, <1>3, <2>3, <3>1, <3>2, ReportsEnd
    <2> QED
      BY <2>2, <2>3
  <1>g. Got(s)' = Got(s) /\ Got(o)' = Got(o)
    BY <1>0, <1>1, <1>4 DEF Got
  <1>p. put'[s] >= put[s] /\ put'[o] >= put[o]
    BY <1>1, <1>3
  <1>5. Parts(s)'
    <2>1. Received(s)'
      BY <1>t, <1>1, <1>4 DEF Parts, Received
    <2>2. Tasking(s)'
      BY <1>t, <1>1, <1>2, <1>4 DEF Parts, Tasking
    <2>3. Asked(s)'
      BY <1>0, <1>t, <1>1, KeepAsked DEF Parts
    <2>4. Excused(s)'
      BY <1>0, <1>t, <1>1, KeepExcused DEF Parts
    <2>5. ASSUME held[s] # "closed" PROVE InFlight(s)'
      BY <1>0, <1>t, <1>1, <1>g, <2>5, KeepInFlight DEF Parts
    <2>6. ASSUME held[s] # "closed" PROVE Cleanly(s)'
      <3>1. ended'[s] # CLEAN
        BY <1>1, <1>2 DEF NOT_ENDED, CLEAN
      <3> QED
        BY <1>1, <1>4, <1>g, <2>6, <3>1 DEF Cleanly
    <2> QED
      BY <1>1, <2>1, <2>2, <2>3, <2>4, <2>5, <2>6 DEF Parts
  <1>6. Parts(o)'
    <2>1. Received(o)'
      BY <1>0, <1>t, <1>1, <1>p, KeepReceived DEF Parts
    <2>2. Tasking(o)'
      BY <1>0, <1>t, <1>1, KeepTasking DEF Parts
    <2>3. Asked(o)'
      BY <1>0, <1>t, <1>1, KeepAsked DEF Parts
    <2>4. Excused(o)'
      BY <1>0, <1>t, <1>1 DEF Parts, Excused
    <2>5. ASSUME held[o] # "closed" PROVE InFlight(o)'
      BY <1>0, <1>t, <1>1, <1>g, <2>5, KeepInFlight DEF Parts
    <2>6. ASSUME held[o] # "closed" PROVE Cleanly(o)'
      BY <1>0, <1>t, <1>1, <1>g, <2>6, KeepCleanly DEF Parts
    <2> QED
      BY <1>1, <2>1, <2>2, <2>3, <2>4, <2>5, <2>6 DEF Parts
  <1> QED
    BY <1>0, <1>5, <1>6, BothSides

\* The arm of abort.recv(): the other side's writes now fail for a reason.
LEMMA ReadAbortedStep ==
    ASSUME SInv, TypeOK', NEW s \in Sides, ReadAborted(s)
    PROVE  SInv'
  <1>1. /\ reader[s] = "running" /\ ReaderDone(s)
        /\ UNCHANGED <<alive, writer, queue, aborted, wire, sending, reports, scriptVars>>
    BY DEF ReadAborted
  <1>2. stopped'[s] = stopped[s]
    BY OtherSide, ZenonT(30) DEF ReadAborted, SInv, TypeOK
  <1>3. abortCalled[s]
    BY DEF ReadAborted, SInv, Asked
  <1> QED
    BY <1>1, <1>2, <1>3, ReaderStops

\* read_chunk yields None or an error.
LEMMA ReadEndStep ==
    ASSUME SInv, TypeOK', NEW s \in Sides, NEW how \in {CLEAN, ERROR}, ReadEnd(s, how)
    PROVE  SInv'
  <1> DEFINE o == Other(s)
  <1>0. TypeOK /\ o \in Sides /\ Tasking(s)
    BY OtherSide DEF SInv
  <1>1. /\ reader[s] = "running" /\ ReaderDone(s)
        /\ UNCHANGED <<alive, writer, queue, aborted, wire, sending, stopped, scriptVars>>
    BY DEF ReadEnd
  <1>2. \A x \in Sides \ {s} : reports'[x] = reports[x]
    BY <1>0 DEF ReadEnd, TypeOK
  <1>3. \/ reports'[s] = reports[s]
        \/ reports'[s] = Append(reports[s], how)
    BY <1>0 DEF ReadEnd, TypeOK
  <1>4. ASSUME how = CLEAN, held[s] # "closed" PROVE whole[o] = Got(s)
    <2>1. wire[o] = <<>> /\ sending[o] = "finished"
      BY <1>4 DEF ReadEnd, CLEAN, ERROR
    <2>2. whole[o] = SentTo(s)
      BY <1>4, <2>1 DEF SInv, InFlight
    <2>3. SentTo(s) = Got(s) + 0 /\ Got(s) \in Nat
      BY <1>0, <2>1, NoReports, SeqTypes DEF SentTo
    <2> QED
      BY <2>2, <2>3
  <1>5. stopped'[s] = stopped[s] /\ (stopped'[o] => stopped[o]) /\ wire' = wire
    BY <1>1
  <1>6. \/ reports'[s] = reports[s]
        \/ \E e \in {CLEAN, ERROR} :
             /\ reports'[s] = Append(reports[s], e) /\ wire' = wire
             /\ e = CLEAN /\ held[s] # "closed" => whole[o] = Got(s)
    BY <1>3, <1>4, <1>5
  <1> QED
    BY <1>1, <1>2, <1>5, <1>6, ReaderStops

\* read_chunk yields a unit that is reported: it is the next.
LEMMA ReportedStep ==
    ASSUME SInv, TypeOK', NEW s \in Sides, ReadData(s), held[s] = "held"
    PROVE  SInv'
  <1> DEFINE o == Other(s)
  <1>0. /\ o \in Sides /\ o # s /\ Other(o) = s
    BY OtherSide
  <1>t. TypeOK /\ Parts(s) /\ Parts(o) /\ reader[s] = "running" /\ wire[o] # <<>>
    BY <1>0 DEF SInv, Parts, ReadData
  <1>h. PICK h, w, r : h = Head(wire[o]) /\ w = wire[o] /\ r = reports[s]
    OBVIOUS
  <1>1. /\ UNCHANGED <<alive, writer, queue, aborted, sending, reader, stopped, held, buffered,
                       ended, waiting, taken, put, whole, abortCalled>>
        /\ reports'[o] = reports[o] /\ wire'[s] = wire[s]
        /\ wire'[o] = Tail(w) /\ reports'[s] = Append(r, h)
    BY <1>0, <1>t, <1>h DEF ReadData, TypeOK, scriptVars
  <1>2. ~EndReported(r) /\ ended[s] = NOT_ENDED
    BY <1>t, <1>h DEF Parts, Tasking
  <1>3. /\ w \in Seq(Int) /\ r \in Seq(Int) /\ Got(s) \in Nat /\ SentTo(s) \in Nat
        /\ Len(taken[s]) \in Nat /\ Len(buffered[s]) \in Nat /\ Len(Units(r)) \in Nat
        /\ put[o] \in Nat /\ put[s] \in Nat /\ Len(w) \in Nat
        /\ Got(s) = Len(taken[s]) + Len(buffered[s]) + Len(Units(r))
        /\ SentTo(s) = Got(s) + Len(w)
    BY <1>0, <1>t, <1>h, SeqTypes DEF Got, SentTo
  <1>4. /\ Run(w, Got(s)) /\ InFlight(s) /\ Received(s)
    BY <1>t, <1>h DEF Parts, InFlight
  <1>5. h = Got(s) + 1 /\ Run(Tail(w), Got(s) + 1) /\ h > 0 /\ h \in Int /\ Len(Tail(w)) = Len(w) - 1
    <2>1. Got(s) \in Int
      BY <1>3
    <2>2. h = Got(s) + 1 /\ Run(Tail(w), Got(s) + 1)
      BY <1>3, <1>4, <1>h, <1>t, <2>1, RunTail
    <2>3. Len(Tail(w)) = Len(w) - 1
      BY <1>3, <1>h, <1>t, TailFacts
    <2>4. Got(s) + 1 > 0 /\ Got(s) + 1 \in Int
      BY <1>3, 0 \in Nat, 1 \in Nat, 1 > 0, After
    <2> QED
      BY <2>2, <2>3, <2>4, Zenon
  <1>6. /\ ~EndReported(Append(r, h)) /\ Units(Append(r, h)) = Append(r, h) /\ Units(r) = r
        /\ Len(Append(r, h)) = Len(r) + 1
    BY <1>2, <1>3, <1>5, ReportData, AppendFacts
  <1>7. Got(s)' = Got(s) + 1 /\ Got(o)' = Got(o)
    <2>1. Got(s)' = Len(taken[s]) + Len(buffered[s]) + Len(Append(r, h))
      BY <1>1, <1>6 DEF Got
    <2>2. Len(Append(r, h)) = Len(Units(r)) + 1
      BY <1>6
    <2>3. Len(taken[s]) \in Int /\ Len(buffered[s]) \in Int /\ Len(Units(r)) \in Int
      BY <1>3
    <2>4. Len(taken[s]) + Len(buffered[s]) + (Len(Units(r)) + 1)
            = (Len(taken[s]) + Len(buffered[s]) + Len(Units(r))) + 1
      BY <2>3, OneMore
    <2>5. Got(s)' = Got(s) + 1
      BY <1>3, <2>1, <2>2, <2>4, Zenon
    <2> QED
      BY <1>0, <1>1, <2>5, KeepGot
  <1>8. SentTo(s)' = SentTo(s)
    <2>1. SentTo(s)' = Got(s)' + Len(Tail(w))
      BY <1>1 DEF SentTo
    <2>2. Got(s) \in Int /\ Len(w) \in Int
      BY <1>3
    <2>3. (Got(s) + 1) + (Len(w) - 1) = Got(s) + Len(w)
      BY <2>2, 0 \in Int, OneMore
    <2> QED
      BY <1>3, <1>5, <1>7, <2>1, <2>3, Zenon
  <1>p. put'[s] >= put[s] /\ put'[o] >= put[o]
    BY <1>1, <1>3
  <1>9. Parts(s)'
    <2>1. Received(s)'
      <3>1. Run(Units(Append(r, h)), Len(taken[s]) + Len(buffered[s]))
        <4>0. Len(taken[s]) + Len(buffered[s]) \in Int
          BY <1>3, 1 \in Nat, 1 > 0, After
        <4>1. PICK n \in Int : n = Len(taken[s]) + Len(buffered[s])
          BY <4>0
        <4>2. Run(r, n) /\ h = n + Len(r) + 1
          BY <1>h, <1>3, <1>4, <1>5, <1>6, <4>1, Zenon DEF Received
        <4>3. Run(Append(r, n + Len(r) + 1), n)
          BY <1>3, <4>2, RunAppend
        <4> QED
          BY <1>6, <4>1, <4>2, <4>3
      <3>2. \A i \in DOMAIN Append(r, h) : i # Len(Append(r, h)) => Append(r, h)[i] > 0
        <4>1. \A i \in DOMAIN r : r[i] > 0
          <5> SUFFICES ASSUME NEW i \in DOMAIN r PROVE r[i] > 0
            OBVIOUS
          <5>1. Units(r)[i] = Len(taken[s]) + Len(buffered[s]) + i
            BY <1>h, <1>4, <1>6 DEF Received, Run
          <5>2. i \in Nat /\ i > 0
            BY <1>3, LenProperties
          <5>3. Len(taken[s]) + Len(buffered[s]) + i > 0
            BY <1>3, <5>2, After
          <5> QED
            BY <1>6, <5>1, <5>3, Zenon
        <4>2. /\ Len(r) \in Nat /\ DOMAIN r = 1 .. Len(r) /\ DOMAIN Append(r, h) = 1 .. Len(r) + 1
              /\ \A k \in 1 .. Len(r) : Append(r, h)[k] = r[k]
          BY <1>3, <1>5, AppendFacts
        <4> QED
          BY <1>6, <4>1, <4>2
      <3> QED
        BY <1>1, <1>4, <3>1, <3>2 DEF Received
    <2>2. Tasking(s)'
      BY <1>t, <1>1, <1>2, <1>6 DEF Parts, Tasking
    <2>3. Asked(s)'
      BY <1>0, <1>t, <1>1, KeepAsked DEF Parts
    <2>4. Excused(s)'
      BY <1>0, <1>t, <1>1, KeepExcused DEF Parts
    <2>5. InFlight(s)'
      BY <1>1, <1>4, <1>5, <1>7, <1>8 DEF InFlight
    <2>6. Cleanly(s)'
      BY <1>1, <1>2, <1>6 DEF Cleanly, EndOf, NOT_ENDED, CLEAN
    <2> QED
      BY <2>1, <2>2, <2>3, <2>4, <2>5, <2>6 DEF Parts
  <1>10. Parts(o)'
    <2>1. Received(o)'
      BY <1>0, <1>t, <1>1, <1>p, KeepReceived DEF Parts
    <2>2. Tasking(o)'
      BY <1>0, <1>t, <1>1, KeepTasking DEF Parts
    <2>3. Asked(o)'
      BY <1>0, <1>t, <1>1, KeepAsked DEF Parts
    <2>4. Excused(o)'
      BY <1>0, <1>t, <1>1, KeepExcused DEF Parts
    <2>5. ASSUME held[o] # "closed" PROVE InFlight(o)'
      BY <1>0, <1>t, <1>1, <1>7, <2>5, KeepInFlight DEF Parts
    <2>6. ASSUME held[o] # "closed" PROVE Cleanly(o)'
      BY <1>0, <1>t, <1>1, <1>7, <2>6, KeepCleanly DEF Parts
    <2> QED
      BY <1>1, <2>1, <2>2, <2>3, <2>4, <2>5, <2>6 DEF Parts
  <1> QED
    BY <1>0, <1>9, <1>10, BothSides

\* read_chunk yields data: reported, or the reader stops because the script
\* closed the stream.
LEMMA ReadDataStep ==
    ASSUME SInv, TypeOK', NEW s \in Sides, ReadData(s)
    PROVE  SInv'
  <1>1. CASE held[s] = "held"
    BY <1>1, ReportedStep
  <1>2. CASE held[s] # "held"
    <2>0. TypeOK /\ Tasking(s) /\ Other(s) \in Sides /\ Other(s) # s
      BY OtherSide DEF SInv
    <2>1. /\ reader[s] = "running" /\ ReaderDone(s) /\ UNCHANGED reports
          /\ stopped' = [stopped EXCEPT ![Other(s)] = TRUE]
          /\ wire' = [wire EXCEPT ![Other(s)] = Tail(@)]
          /\ UNCHANGED <<alive, writer, queue, aborted, sending, scriptVars>>
      BY <1>2 DEF ReadData
    <2>2. held[s] = "closed"
      BY <1>2, <2>0, <2>1 DEF TypeOK, Tasking
    <2>3. stopped'[s] = stopped[s] /\ wire'[s] = wire[s]
      BY <2>0, <2>1 DEF TypeOK
    <2> QED
      BY <2>1, <2>2, <2>3, ReaderStops
  <1> QED
    BY <1>1, <1>2

----------------------------------------------------------------------------
(* The script's calls. *)

\* A call that reads (get_data, fill, get_partial_data) moves units from the
\* reports to the buffer and from there to the script, and loses none.
LEMMA ScriptReads ==
    ASSUME SInv, TypeOK', NEW s \in Sides, held[s] = "held",
           UNCHANGED <<alive, taskVars, queue, held, put, whole, abortCalled>>,
           \A x \in Sides \ {s} : /\ taken'[x] = taken[x] /\ buffered'[x] = buffered[x]
                                  /\ reports'[x] = reports[x] /\ ended'[x] = ended[x]
                                  /\ waiting'[x] = waiting[x],
           Run(taken'[s], 0), Run(buffered'[s], Len(taken'[s])),
           Run(Units(reports'[s]), Len(taken'[s]) + Len(buffered'[s])),
           \A i \in DOMAIN reports'[s] : i # Len(reports'[s]) => reports'[s][i] > 0,
           Got(s)' = Got(s),
           EndReported(reports'[s]) => EndReported(reports[s]),
           ended'[s] # NOT_ENDED =>
             reports'[s] = <<>> /\ (EndReported(reports[s]) \/ reader[s] = "done"),
           ended'[s] = CLEAN \/ EndOf(reports'[s], NOT_ENDED) = CLEAN =>
             ended[s] = CLEAN \/ EndOf(reports[s], NOT_ENDED) = CLEAN
    PROVE  SInv'
  <1> DEFINE o == Other(s)
  <1>0. /\ o \in Sides /\ o # s /\ Other(o) = s
    BY OtherSide
  <1>t. TypeOK /\ Parts(s) /\ Parts(o) /\ InFlight(s) /\ Cleanly(s)
    BY <1>0 DEF SInv, Parts
  <1>1. /\ UNCHANGED <<alive, writer, reader, aborted, wire, sending, stopped, queue, held, put,
                       whole, abortCalled>>
        /\ taken'[o] = taken[o] /\ buffered'[o] = buffered[o] /\ reports'[o] = reports[o]
        /\ ended'[o] = ended[o] /\ waiting'[o] = waiting[o]
    BY <1>0 DEF taskVars
  <1>g. Got(o)' = Got(o)
    BY <1>0, <1>1, KeepGot
  <1>2. /\ put[s] \in Nat /\ put[o] \in Nat /\ SentTo(s) \in Nat /\ Got(s) \in Nat
        /\ Len(wire[o]) \in Nat /\ put'[s] >= put[s] /\ put'[o] >= put[o]
    BY <1>0, <1>t, <1>1, SeqTypes, SMTT(30)
  <1>3. Len(taken'[s]) <= put'[o]
    <2>1. Got(s) <= put[o]
      <3>1. SentTo(s) <= put[o] /\ SentTo(s) = Got(s) + Len(wire[o])
        BY <1>t DEF InFlight, SentTo
      <3>2. \A g, w, p \in Nat : g + w <= p => g <= p
        OBVIOUS
      <3> QED
        BY <1>2, <3>1, <3>2
    <2>2. /\ Len(taken'[s]) \in Nat /\ Len(buffered'[s]) \in Nat /\ Len(Units(reports'[s])) \in Nat
      <3>1. /\ taken'[s] \in Seq(Unit) /\ buffered'[s] \in Seq(Unit)
            /\ reports'[s] \in Seq(Unit \cup {CLEAN, ERROR})
        BY DEF TypeOK
      <3>2. Unit \cup {CLEAN, ERROR} \in SUBSET Int
        BY DEF Unit, CLEAN, ERROR
      <3>3. reports'[s] \in Seq(Int)
        BY <3>1, <3>2, WidenSeq
      <3> QED
        BY <3>1, <3>3, LenProperties, UnitsFacts
    <2>3. Got(s) = Len(taken'[s]) + Len(buffered'[s]) + Len(Units(reports'[s]))
      BY DEF Got
    <2>4. \A t, b, u, p \in Nat : t + b + u <= p => t <= p
      OBVIOUS
    <2>5. Len(taken'[s]) + Len(buffered'[s]) + Len(Units(reports'[s])) <= put[o]
      BY <2>1, <2>3, Zenon
    <2>6. Len(taken'[s]) <= put[o]
      BY <1>2, <2>2, <2>4, <2>5, Zenon
    <2> QED
      BY <1>1, <2>6
  <1>4. Parts(s)'
    <2>1. Received(s)'
      BY <1>3 DEF Received
    <2>2. Tasking(s)'
      BY <1>t, <1>1 DEF Parts, Tasking
    <2>3. Asked(s)'
      BY <1>0, <1>t, <1>1, KeepAsked DEF Parts
    <2>4. Excused(s)'
      BY <1>0, <1>t, <1>1, KeepExcused DEF Parts
    <2>5. InFlight(s)'
      BY <1>0, <1>t, <1>1, KeepInFlight DEF Parts
    <2>6. Cleanly(s)'
      BY <1>t, <1>1 DEF Cleanly
    <2> QED
      BY <1>1, <2>1, <2>2, <2>3, <2>4, <2>5, <2>6 DEF Parts
  <1>5. Parts(o)'
    <2>1. Received(o)'
      BY <1>0, <1>t, <1>1, <1>2, KeepReceived DEF Parts
    <2>2. Tasking(o)'
      BY <1>0, <1>t, <1>1, KeepTasking DEF Parts
    <2>3. Asked(o)'
      BY <1>0, <1>t, <1>1, KeepAsked DEF Parts
    <2>4. Excused(o)'
      BY <1>0, <1>t, <1>1, KeepExcused DEF Parts
    <2>5. ASSUME held[o] # "closed" PROVE InFlight(o)'
      BY <1>0, <1>t, <1>1, <1>g, <2>5, KeepInFlight DEF Parts
    <2>6. ASSUME held[o] # "closed" PROVE Cleanly(o)'
      BY <1>0, <1>t, <1>1, <1>g, <2>6, KeepCleanly DEF Parts
    <2> QED
      BY <1>1, <2>1, <2>2, <2>3, <2>4, <2>5, <2>6 DEF Parts
  <1> QED
    BY <1>0, <1>4, <1>5, BothSides

\* fill: blocking_recv returned.
LEMMA FilledStep ==
    ASSUME SInv, TypeOK', NEW s \in Sides, Fill(s)
    PROVE  SInv'
  <1>1. /\ held[s] = "held" /\ Tasking(s)
        /\ UNCHANGED <<alive, taskVars, queue, held, put, whole, abortCalled>>
    BY DEF SInv, Tasking, Fill
  <1>2. ended'[s] # NOT_ENDED =>
          reports'[s] = <<>> /\ (EndReported(reports[s]) \/ reader[s] = "done")
    BY <1>1, FillStep DEF Tasking
  <1> QED
    BY <1>1, <1>2, FillStep, ScriptReads

\* A call that drains: an end that was reported is now known.
LEMMA DrainedStep ==
    ASSUME SInv, TypeOK', NEW s \in Sides, NEW n \in Nat, DrainAndTake(s, n), held[s] = "held",
           \A x \in Sides \ {s} : waiting'[x] = waiting[x],
           UNCHANGED <<alive, taskVars, queue, held, put, whole, abortCalled>>
    PROVE  SInv'
  <1>t. TypeOK /\ Tasking(s)
    BY DEF SInv
  <1>1. /\ reports'[s] = <<>> /\ ended'[s] = EndOf(reports[s], ended[s])
        /\ \A x \in Sides \ {s} : /\ taken'[x] = taken[x] /\ buffered'[x] = buffered[x]
                                  /\ reports'[x] = reports[x] /\ ended'[x] = ended[x]
        /\ Run(taken'[s], 0) /\ Run(buffered'[s], Len(taken'[s]))
        /\ Len(taken'[s]) \in Nat /\ Len(buffered'[s]) \in Nat
        /\ Len(taken'[s]) + Len(buffered'[s]) = Got(s)
    BY <1>t, DrainStep DEF TypeOK
  <1>2. /\ Run(Units(reports'[s]), Len(taken'[s]) + Len(buffered'[s]))
        /\ \A i \in DOMAIN reports'[s] : i # Len(reports'[s]) => reports'[s][i] > 0
        /\ ~EndReported(reports'[s]) /\ EndOf(reports'[s], NOT_ENDED) = NOT_ENDED
    BY <1>1, NoReports DEF Run
  <1>3. Got(s)' = Got(s)
    <2>1. Got(s)' = Len(taken'[s]) + Len(buffered'[s]) + 0
      BY <1>1, NoReports DEF Got
    <2>2. \A a, b \in Nat : a + b + 0 = a + b
      OBVIOUS
    <2> QED
      BY <1>1, <2>1, <2>2
  <1>4. ended'[s] # NOT_ENDED => EndReported(reports[s]) \/ reader[s] = "done"
    BY <1>t, <1>1 DEF EndOf, Tasking
  <1>5. ended'[s] = CLEAN => ended[s] = CLEAN \/ EndOf(reports[s], NOT_ENDED) = CLEAN
    BY <1>1 DEF EndOf
  <1>6. EndOf(reports'[s], NOT_ENDED) # CLEAN
    BY <1>2 DEF NOT_ENDED, CLEAN
  <1> QED
    BY <1>1, <1>2, <1>3, <1>4, <1>5, <1>6, ScriptReads

\* get_partial_data, and the calls that only drain.
LEMMA PartialStep ==
    ASSUME SInv, TypeOK', NEW s \in Sides, NEW n \in 0 .. 1, GetPartial(s, n)
    PROVE  SInv'
  <1>1. /\ n \in Nat /\ DrainAndTake(s, n) /\ held[s] = "held" /\ UNCHANGED waiting
        /\ UNCHANGED <<alive, taskVars, queue, held, put, whole, abortCalled>>
    BY DEF GetPartial, Idle
  <1> QED
    BY <1>1, DrainedStep

\* get_data: it takes all it asked for, or drains and gives up or waits.
LEMMA GetStep ==
    ASSUME SInv, TypeOK', NEW s \in Sides, NEW n \in Wants(s), GetData(s, n)
    PROVE  SInv'
  <1>1. n \in Nat
    BY MaxPutsAssumption, OtherSide DEF Wants
  <1>2. PICK m \in Nat : DrainAndTake(s, m)
    BY <1>1 DEF GetData
  <1>3. /\ held[s] = "held" /\ \A x \in Sides \ {s} : waiting'[x] = waiting[x]
        /\ UNCHANGED <<alive, taskVars, queue, held, put, whole, abortCalled>>
    BY DEF GetData, Idle, SInv, TypeOK
  <1> QED
    BY <1>2, <1>3, DrainedStep

\* A chunk queued by put_data, finish or abort: the next unit, or an end that
\* is remembered as such.
LEMMA ChunkQueued ==
    ASSUME SInv, TypeOK', NEW s \in Sides, held[s] = "held", writer[s] # "done", NEW m \in Int,
           queue' = [queue EXCEPT ![s] = Append(@, m)],
           UNCHANGED <<alive, taskVars, reports, held, buffered, ended, waiting, taken>>,
           \A x \in Sides \ {s} : /\ put'[x] = put[x] /\ whole'[x] = whole[x]
                                  /\ abortCalled'[x] = abortCalled[x],
           put'[s] >= put[s], m <= put'[s],
           m > 0 => m = put[s] + 1 /\ put'[s] = m,
           m = FINISH /\ Data(queue[s], Len(queue[s])) => whole'[s] = put[s],
           whole'[s] # whole[s] => m = FINISH /\ whole[s] = -1 /\ ~Queued(s, FINISH),
           abortCalled[s] => abortCalled'[s],
           abortCalled'[s] => abortCalled[s] \/ m = ABORT,
           m = ABORT => abortCalled'[s]
    PROVE  SInv'
  <1> DEFINE o == Other(s)
  <1>0. /\ o \in Sides /\ o # s /\ Other(o) = s
    BY OtherSide
  <1>t. TypeOK /\ Parts(s) /\ Parts(o)
    BY <1>0 DEF SInv, Parts
  <1>h. PICK q, a : q = queue[s] /\ a = Append(queue[s], m)
    OBVIOUS
  <1>1. /\ UNCHANGED <<alive, writer, reader, aborted, wire, sending, stopped, reports, held,
                       buffered, ended, waiting, taken>>
        /\ put'[o] = put[o] /\ whole'[o] = whole[o] /\ abortCalled'[o] = abortCalled[o]
        /\ queue'[o] = queue[o] /\ queue'[s] = a
    BY <1>0, <1>t, <1>h DEF TypeOK, taskVars
  <1>2. /\ q \in Seq(Int) /\ put[s] \in Nat /\ put[o] \in Nat /\ put'[s] \in Nat
        /\ Got(o) \in Nat /\ Len(q) \in Nat
    BY <1>0, <1>t, <1>h, SeqTypes DEF TypeOK
  <1>3. /\ DOMAIN q = 1 .. Len(q) /\ DOMAIN a = 1 .. Len(q) + 1
        /\ \A k \in 1 .. Len(q) : a[k] = q[k]
        /\ a[Len(q) + 1] = m
    BY <1>2, <1>h, AppendFacts
  <1>g. Got(s)' = Got(s) /\ Got(o)' = Got(o)
    BY <1>0, <1>1, KeepGot
  <1>p. put'[s] >= put[s] /\ put'[o] >= put[o]
    BY <1>1, <1>2
  <1>4. \A c : Queued(s, c)' <=> Queued(s, c) \/ c = m
    <2> SUFFICES ASSUME NEW c
                 PROVE  (\E k \in DOMAIN a : a[k] = c) <=> (\E k \in DOMAIN q : q[k] = c) \/ c = m
      BY <1>1, <1>h DEF Queued
    <2>1. Len(q) + 1 \in DOMAIN a /\ DOMAIN q \subseteq DOMAIN a
      BY <1>2, <1>3
    <2>2. \A k \in DOMAIN a : k \in DOMAIN q \/ k = Len(q) + 1
      BY <1>2, <1>3
    <2> QED
      BY <1>3, <2>1, <2>2
  <1>5. Parts(s)'
    <2>1. Received(s)'
      BY <1>0, <1>t, <1>1, <1>p, KeepReceived DEF Parts
    <2>2. Tasking(s)'
      BY <1>0, <1>t, <1>1, KeepTasking DEF Parts
    <2>3. Asked(s)'
      <3>1. \A i \in DOMAIN a : a[i] <= put'[s]
        <4> SUFFICES ASSUME NEW i \in DOMAIN a PROVE a[i] <= put'[s]
          OBVIOUS
        <4>1. CASE i = Len(q) + 1
          BY <1>3, <4>1
        <4>2. CASE i # Len(q) + 1
          <5>1. i \in DOMAIN q /\ a[i] = q[i] /\ q[i] \in Int
            BY <1>2, <1>3, <4>2, ElementOfSeq
          <5>2. q[i] <= put[s]
            BY <1>t, <1>h, <5>1 DEF Parts, Asked
          <5> QED
            BY <1>2, <1>p, <5>1, <5>2
        <4> QED
          BY <4>1, <4>2
      <3>2. Queued(s, ABORT)' => abortCalled'[s]
        BY <1>t, <1>4 DEF Parts, Asked
      <3>3. aborted'[s] => abortCalled'[s]
        BY <1>t, <1>1 DEF Parts, Asked
      <3>4. abortCalled'[s] => Queued(s, ABORT)'
        BY <1>t, <1>4 DEF Parts, Asked
      <3>5. whole'[s] # -1 => Queued(s, FINISH)'
        BY <1>t, <1>4 DEF Parts, Asked
      <3>6. held'[s] # "closed"
        BY <1>1
      <3> QED
        BY <1>1, <3>1, <3>2, <3>3, <3>4, <3>5, <3>6 DEF Asked
    <2>4. Excused(s)'
      BY <1>0, <1>t, <1>1, KeepExcused DEF Parts
    <2>5. InFlight(s)'
      BY <1>0, <1>t, <1>1, <1>g, KeepInFlight DEF Parts
    <2>6. Cleanly(s)'
      BY <1>0, <1>t, <1>1, <1>g, KeepCleanly DEF Parts
    <2> QED
      BY <1>1, <2>1, <2>2, <2>3, <2>4, <2>5, <2>6 DEF Parts
  <1>6. Parts(o)'
    <2>1. Received(o)'
      BY <1>0, <1>t, <1>1, <1>p, KeepReceived DEF Parts
    <2>2. Tasking(o)'
      BY <1>0, <1>t, <1>1, KeepTasking DEF Parts
    <2>3. Asked(o)'
      BY <1>0, <1>t, <1>1, KeepAsked DEF Parts
    <2>4. Excused(o)'
      BY <1>0, <1>t, <1>1, KeepExcused DEF Parts
    <2>5. ASSUME held[o] # "closed" PROVE InFlight(o)'
      <3>1. InFlight(o)
        BY <1>t, <2>5 DEF Parts
      <3>2. sending'[s] # "finished"
        BY <1>t, <1>1 DEF Parts, Tasking
      <3>3. \A i \in DOMAIN queue[s] : queue[s][i] = FINISH => whole'[s] = whole[s]
        BY DEF Queued
      <3> QED
        BY <1>0, <1>t, <1>1, <1>h, <1>g, <3>1, <3>2, <3>3, AppendInFlight
    <2>6. ASSUME held[o] # "closed" PROVE Cleanly(o)'
      <3>1. Cleanly(o)
        BY <1>t, <2>6 DEF Parts
      <3>2. Got(o) # -1
        BY <1>2
      <3> QED
        BY <1>0, <1>1, <1>g, <3>1, <3>2 DEF Cleanly
    <2> QED
      BY <1>1, <2>1, <2>2, <2>3, <2>4, <2>5, <2>6 DEF Parts
  <1> QED
    BY <1>0, <1>5, <1>6, BothSides

\* put_data queues the next unit.
LEMMA PutStep ==
    ASSUME SInv, TypeOK', NEW s \in Sides, Put(s)
    PROVE  SInv'
  <1>1. put[s] \in Nat /\ put'[s] = put[s] + 1 /\ \A x \in Sides \ {s} : put'[x] = put[x]
    BY DEF SInv, TypeOK, Put
  <1>2. /\ held[s] = "held" /\ writer[s] # "done" /\ UNCHANGED <<whole, abortCalled>>
        /\ queue' = [queue EXCEPT ![s] = Append(@, put[s] + 1)]
        /\ UNCHANGED <<alive, taskVars, reports, held, buffered, ended, waiting, taken>>
    BY DEF Put, Idle
  <1>3. PICK m \in Int : m = put[s] + 1
    BY <1>1
  <1>4. m # FINISH /\ m # ABORT /\ put'[s] >= put[s] /\ m <= put'[s]
    BY <1>1, <1>3 DEF FINISH, ABORT
  <1> QED
    BY <1>1, <1>2, <1>3, <1>4, ChunkQueued

\* finish queues the end; behind data alone, no abort has come before.
LEMMA FinishStep ==
    ASSUME SInv, TypeOK', NEW s \in Sides, Finish(s)
    PROVE  SInv'
  <1>t. TypeOK /\ Asked(s) /\ put[s] \in Nat /\ whole[s] \in Int
    BY SeqTypes DEF SInv
  <1>1. /\ held[s] = "held" /\ writer[s] # "done" /\ UNCHANGED <<put, abortCalled>>
        /\ queue' = [queue EXCEPT ![s] = Append(@, FINISH)]
        /\ UNCHANGED <<alive, taskVars, reports, held, buffered, ended, waiting, taken>>
        /\ whole[s] = -1 /\ ~Queued(s, FINISH)
    BY DEF Finish, Idle
  <1>2. /\ whole'[s] = IF abortCalled[s] THEN whole[s] ELSE put[s]
        /\ \A x \in Sides \ {s} : whole'[x] = whole[x]
    BY <1>t DEF Finish, TypeOK
  <1>3. Data(queue[s], Len(queue[s])) => ~abortCalled[s]
    <2>1. queue[s] \in Seq(Int) /\ DOMAIN queue[s] = 1 .. Len(queue[s])
      BY <1>t, SeqTypes, LenProperties
    <2>2. Data(queue[s], Len(queue[s])) => ~Queued(s, ABORT)
      BY <2>1 DEF Data, Queued, ABORT
    <2> QED
      BY <1>t, <1>1, <2>2 DEF Asked
  <1>4. FINISH \in Int /\ FINISH # ABORT /\ ~(FINISH > 0) /\ FINISH <= put'[s] /\ put'[s] >= put[s]
    BY <1>t, <1>1 DEF FINISH, ABORT
  <1> QED
    BY <1>1, <1>2, <1>3, <1>4, ChunkQueued

\* abort queues the reset and is remembered.
LEMMA AbortStep ==
    ASSUME SInv, TypeOK', NEW s \in Sides, Abort(s)
    PROVE  SInv'
  <1>t. TypeOK /\ put[s] \in Nat
    BY SeqTypes DEF SInv
  <1>1. /\ held[s] = "held" /\ writer[s] # "done" /\ UNCHANGED <<put, whole>>
        /\ queue' = [queue EXCEPT ![s] = Append(@, ABORT)]
        /\ UNCHANGED <<alive, taskVars, reports, held, buffered, ended, waiting, taken>>
    BY DEF Abort, Idle
  <1>2. abortCalled'[s] /\ \A x \in Sides \ {s} : abortCalled'[x] = abortCalled[x]
    BY <1>t DEF Abort, TypeOK
  <1>3. ABORT \in Int /\ FINISH # ABORT /\ ~(ABORT > 0) /\ ABORT <= put'[s] /\ put'[s] >= put[s]
    BY <1>t, <1>1 DEF FINISH, ABORT
  <1> QED
    BY <1>1, <1>2, <1>3, ChunkQueued

\* close: what was buffered and reported is dropped, and the writer is left to
\* send what was put.
LEMMA CloseStep ==
    ASSUME SInv, TypeOK', NEW s \in Sides, Close(s)
    PROVE  SInv'
  <1> DEFINE o == Other(s)
  <1>0. /\ o \in Sides /\ o # s /\ Other(o) = s
    BY OtherSide
  <1>t. TypeOK /\ Parts(s) /\ Parts(o) /\ held[s] = "held" /\ waiting[s] = 0
    BY <1>0 DEF SInv, Parts, Close, Idle
  <1>1. /\ UNCHANGED <<alive, writer, reader, aborted, wire, sending, stopped, queue, ended,
                       waiting, taken, put, abortCalled>>
        /\ held'[s] = "closed" /\ buffered'[s] = <<>> /\ reports'[s] = <<>>
        /\ held'[o] = held[o] /\ buffered'[o] = buffered[o] /\ reports'[o] = reports[o]
        /\ whole'[o] = whole[o]
        /\ whole'[s] = IF whole[s] = -1 /\ ~abortCalled[s] THEN put[s] ELSE whole[s]
    BY <1>0, <1>t DEF Close, TypeOK, taskVars
  <1>2. /\ put[s] \in Nat /\ put[o] \in Nat /\ put'[s] >= put[s] /\ put'[o] >= put[o]
        /\ Got(o) \in Nat /\ SentTo(o) \in Nat /\ queue[s] \in Seq(Int) /\ whole[s] \in Int
        /\ Len(queue[s]) \in Nat /\ DOMAIN queue[s] = 1 .. Len(queue[s])
    BY <1>0, <1>t, <1>1, SeqTypes, LenProperties, SMTT(30)
  <1>g. Got(o)' = Got(o)
    BY <1>0, <1>1, KeepGot
  <1>3. Parts(s)'
    <2>1. Received(s)'
      <3>1. Run(taken'[s], 0) /\ Len(taken'[s]) <= put'[o]
        BY <1>t, <1>1 DEF Parts, Received
      <3> QED
        BY <1>1, <3>1, NoReports DEF Received, Run
    <2>2. Tasking(s)'
      BY <1>t, <1>1, NoReports DEF Parts, Tasking
    <2>3. Asked(s)'
      <3>1. /\ \A i \in DOMAIN queue'[s] : queue'[s][i] <= put'[s]
            /\ Queued(s, ABORT)' => abortCalled'[s]
            /\ aborted'[s] => abortCalled'[s]
            /\ abortCalled'[s] /\ writer'[s] # "done" => Queued(s, ABORT)'
        BY <1>t, <1>1 DEF Parts, Asked, Queued
      <3>2. whole'[s] # -1 \/ abortCalled'[s]
        BY <1>1, <1>2
      <3>3. whole'[s] # -1 /\ writer'[s] # "done" => Queued(s, FINISH)' \/ whole'[s] = put'[s]
        <4>1. whole[s] # -1 /\ writer[s] # "done" => Queued(s, FINISH)
          BY <1>t DEF Parts, Asked
        <4>2. Queued(s, FINISH)' <=> Queued(s, FINISH)
          BY <1>1 DEF Queued
        <4> QED
          BY <1>1, <1>2, <4>1, <4>2
      <3> QED
        BY <1>1, <3>1, <3>2, <3>3 DEF Asked
    <2>4. Excused(s)'
      BY <1>0, <1>t, <1>1, KeepExcused DEF Parts
    <2> QED
      BY <1>1, <2>1, <2>2, <2>3, <2>4 DEF Parts
  <1>4. Parts(o)'
    <2>1. Received(o)'
      BY <1>0, <1>t, <1>1, <1>2, KeepReceived DEF Parts
    <2>2. Tasking(o)'
      BY <1>0, <1>t, <1>1, KeepTasking DEF Parts
    <2>3. Asked(o)'
      BY <1>0, <1>t, <1>1, KeepAsked DEF Parts
    <2>4. Excused(o)'
      BY <1>0, <1>t, <1>1, KeepExcused DEF Parts
    <2>5. ASSUME held[o] # "closed" PROVE InFlight(o)'
      <3>0. InFlight(o)
        BY <1>t, <2>5 DEF Parts
      <3>1. SentTo(o)' = SentTo(o)
        BY <1>0, <1>1, <1>g DEF SentTo
      <3>2. ASSUME NEW i \in DOMAIN queue[s], queue[s][i] = FINISH, Data(queue[s], i - 1)
            PROVE  whole'[s] = SentTo(o) + i - 1
        <4>1. whole[s] = SentTo(o) + i - 1
          BY <1>0, <3>0, <3>2 DEF InFlight
        <4>2. whole[s] # -1
          BY <1>2, <4>1
        <4> QED
          BY <1>1, <4>1, <4>2
      <3>3. ASSUME sending[s] = "finished" PROVE whole'[s] = SentTo(o)
        <4>1. whole[s] = SentTo(o)
          BY <1>0, <3>0, <3>3 DEF InFlight
        <4> QED
          BY <1>1, <1>2, <4>1
      <3> QED
        BY <1>0, <1>1, <1>g, <3>0, <3>1, <3>2, <3>3 DEF InFlight
    <2>6. ASSUME held[o] # "closed" PROVE Cleanly(o)'
      <3>1. Cleanly(o)
        BY <1>t, <2>6 DEF Parts
      <3>2. Got(o) # -1
        BY <1>2
      <3> QED
        BY <1>0, <1>1, <1>g, <3>1, <3>2 DEF Cleanly
    <2> QED
      BY <1>1, <2>1, <2>2, <2>3, <2>4, <2>5, <2>6 DEF Parts
  <1> QED
    BY <1>0, <1>3, <1>4, BothSides

----------------------------------------------------------------------------
(* The theorems. *)

\* Every step of the tasks, the scripts and the connection keeps the invariant.
LEMMA SInvStep == SInv /\ [Next]_vars => SInv'
  <1> SUFFICES ASSUME SInv, [Next]_vars PROVE SInv'
    OBVIOUS
  <1>t. TypeOK'
    BY TypeStep
  <1>1. CASE UNCHANGED vars
    <2>1. \A x \in Sides : Got(x)' = Got(x) /\ SentTo(x)' = SentTo(x)
      BY <1>1 DEF Got, SentTo, vars, taskVars, scriptVars
    <2>2. ASSUME NEW x \in Sides PROVE Received(x)' /\ Tasking(x)' /\ Asked(x)' /\ Excused(x)'
      <3>0. Received(x) /\ Tasking(x) /\ Asked(x) /\ Excused(x)
        BY DEF SInv
      <3>1. Received(x)'
        BY <1>1, <3>0 DEF Received, vars, taskVars, scriptVars
      <3>2. Tasking(x)'
        BY <1>1, <3>0 DEF Tasking, vars, taskVars, scriptVars
      <3>3. Asked(x)'
        BY <1>1, <3>0 DEF Asked, Queued, vars, taskVars, scriptVars
      <3>4. Excused(x)'
        BY <1>1, <3>0 DEF Excused, vars, taskVars, scriptVars
      <3> QED
        BY <3>1, <3>2, <3>3, <3>4
    <2>3. ASSUME NEW x \in Sides, held'[x] # "closed" PROVE InFlight(x)' /\ Cleanly(x)'
      BY <1>1, <2>1, <2>3 DEF SInv, InFlight, Cleanly, vars, taskVars, scriptVars
    <2> QED
      BY <1>t, <2>2, <2>3 DEF SInv
  <1>2. CASE Open \/ Adopt \/ ConnectionLost
    BY <1>t, <1>2, OpenStep, AdoptStep, LossStep
  <1>3. ASSUME NEW s \in Sides, Write(s) PROVE SInv'
    BY <1>t, <1>3, DataStep, FinishedStep, AbortedStep DEF Write
  <1>4. ASSUME NEW s \in Sides, Read(s) PROVE SInv'
    BY <1>t, <1>4, ReadAbortedStep, ReadDataStep, ReadEndStep DEF Read
  <1>5. ASSUME NEW s \in Sides, Put(s) \/ Finish(s) \/ Abort(s) \/ Close(s) PROVE SInv'
    BY <1>t, <1>5, PutStep, FinishStep, AbortStep, CloseStep
  <1>6. ASSUME NEW s \in Sides, \/ Fill(s)
                                \/ \E n \in 0 .. 1 : GetPartial(s, n)
                                \/ \E n \in Wants(s) : GetData(s, n)
        PROVE  SInv'
    BY <1>t, <1>6, FilledStep, PartialStep, GetStep
  <1> QED
    BY <1>1, <1>2, <1>3, <1>4, <1>5, <1>6 DEF Next

\* The pipeline from put_data at one side to get_data at the other holds its
\* units in order, whatever the tasks, the scripts and the connection do
\* (raw.rs carry, stream.rs).
THEOREM StreamInvariant == Spec => []SInv
  <1> QED
    BY SInvInit, SInvStep, PTL DEF Spec

\* A run of units from the first on is the units up to its length.
LEMMA RunIsUpTo ==
    ASSUME NEW q \in Seq(Int), Run(q, 0)
    PROVE  q = UpTo(Len(q))
  <1>1. Len(q) \in Nat /\ q \in [1 .. Len(q) -> Int] /\ DOMAIN q = 1 .. Len(q)
    BY LenProperties
  <1>2. \A i \in 1 .. Len(q) : q[i] = i
    BY <1>1 DEF Run
  <1>3. q = [i \in 1 .. Len(q) |-> q[i]]
    BY <1>1
  <1> QED
    BY <1>2, <1>3 DEF UpTo

\* What a script has read (stream.rs get_data, get_partial_data) is always an
\* unbroken beginning of what the other side put.
THEOREM ReadsAreAPrefix == Spec => []ReadsArePrefix
  <1>1. SInv => ReadsArePrefix
    <2> SUFFICES ASSUME SInv, NEW s \in Sides
                 PROVE  taken[s] = UpTo(Len(taken[s])) /\ Len(taken[s]) <= put[Other(s)]
      BY DEF ReadsArePrefix
    <2>1. taken[s] \in Seq(Int) /\ Received(s)
      BY SeqTypes DEF SInv
    <2> QED
      BY <2>1, RunIsUpTo DEF Received
  <1> QED
    BY <1>1, StreamInvariant, PTL

\* A stream that a script sees end without an error (stream.rs State::ended)
\* has delivered all the other put before its finish or close.
THEOREM CleanEndsAreComplete == Spec => []CleanEndIsComplete
  <1>1. SInv => CleanEndIsComplete
    <2> SUFFICES ASSUME SInv, NEW s \in Sides, held[s] = "held", ended[s] = CLEAN
                 PROVE  /\ whole[Other(s)] # -1
                        /\ taken[s] \o buffered[s] = UpTo(whole[Other(s)])
      BY DEF CleanEndIsComplete
    <2>1. /\ taken[s] \in Seq(Int) /\ buffered[s] \in Seq(Int) /\ Got(s) \in Nat
          /\ Len(taken[s]) \in Nat /\ Len(buffered[s]) \in Nat
          /\ Received(s) /\ Tasking(s) /\ Cleanly(s)
      BY SeqTypes DEF SInv
    <2>2. reports[s] = <<>> /\ whole[Other(s)] = Got(s)
      BY <2>1 DEF Tasking, Cleanly, NOT_ENDED, CLEAN
    <2>3. Got(s) = Len(taken[s]) + Len(buffered[s])
      <3>1. Got(s) = Len(taken[s]) + Len(buffered[s]) + 0
        BY <2>2, NoReports DEF Got
      <3>2. \A a, b \in Nat : a + b + 0 = a + b
        OBVIOUS
      <3> QED
        BY <2>1, <3>1, <3>2
    <2>4. /\ taken[s] \o buffered[s] \in Seq(Int) /\ Run(taken[s] \o buffered[s], 0)
          /\ Len(taken[s] \o buffered[s]) = Len(taken[s]) + Len(buffered[s])
      <3>1. Len(taken[s]) = 0 + Len(taken[s]) /\ Len(taken[s]) \in Int /\ 0 \in Int
        BY <2>1
      <3>2. Run(taken[s], 0) /\ Run(buffered[s], Len(taken[s]))
        BY <2>1 DEF Received
      <3> QED
        BY <2>1, <3>1, <3>2, RunConcat
    <2>5. taken[s] \o buffered[s] = UpTo(Len(taken[s] \o buffered[s]))
      BY <2>4, RunIsUpTo
    <2>6. whole[Other(s)] # -1
      BY <2>1, <2>2
    <2> QED
      BY <2>2, <2>3, <2>4, <2>5, <2>6, Zenon
  <1> QED
    BY <1>1, StreamInvariant, PTL

\* A writer that fails (raw.rs carry) fails because the connection is gone or
\* because the other side aborted or closed.
THEOREM PutsFailForAReason == Spec => []PutFailsForAReason
  <1>1. SInv => PutFailsForAReason
    BY DEF SInv, Excused, PutFailsForAReason
  <1> QED
    BY <1>1, StreamInvariant, PTL

=============================================================================
