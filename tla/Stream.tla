------------------------------- MODULE Stream -------------------------------
(***************************************************************************)
(* One bidirectional stream of a raw connection: raw.rs's Stream, whose     *)
(* carry runs a writer and a reader task at each side, and stream.rs's      *)
(* IrohStream, through which a script on the main thread reads and writes.  *)
(*                                                                         *)
(* At each side the script queues chunks for the writer task; the reader    *)
(* task queues reports, which every call of the script first drains into a *)
(* buffer.  A blocked get_data holds the main thread.  Dropping the queue's *)
(* sender (close) ends the writer once it has emptied the queue, and        *)
(* dropping the reports' receiver ends the reader at its next report.       *)
(*                                                                         *)
(* Bytes are units, numbered per side in the order they were put.  A chunk  *)
(* is one unit; how units are grouped into chunks is left out.              *)
(***************************************************************************)
EXTENDS Integers, Sequences

CONSTANTS
    Opener,      \* the side that called open_stream
    Acceptor,    \* the side that sees stream_opened
    MaxPuts      \* bound: units each side puts

ASSUME SidesAssumption == Opener # Acceptor
Sides == {Opener, Acceptor}
ASSUME MaxPutsAssumption == MaxPuts \in [Sides -> Nat]

Other(s) == CHOOSE o \in Sides : o # s

\* In a queue of units: Chunk::Finish and Chunk::Abort, and Incoming::Ended
\* without and with a reason.
FINISH == 0
ABORT == -1
CLEAN == 0
ERROR == -1
NOT_ENDED == 1

VARIABLES
    alive,       \* the connection is up
    held,        \* State::stream: "absent" before it exists, "held", "closed"
    writer,      \* the writer task: "none", "running", "done"
    reader,      \* the reader task
    queue,       \* Chunks queued for the writer: a unit, FINISH or ABORT
    aborted,     \* carry's `aborted` channel holds a code
    wire,        \* units sent by a side, not yet read by the other
    sending,     \* a side's send half: "open", "finished", "reset", "failed"
    stopped,     \* the other side stopped reading what this one sends
    reports,     \* Incoming queued for the script: a unit, CLEAN or ERROR
    buffered,    \* State::buffered
    ended,       \* State::ended: NOT_ENDED, CLEAN or ERROR
    waiting,     \* units the blocked get_data waits for, 0 if none does
    taken,       \* units the script has read
    put,         \* units put_data accepted
    whole,       \* `put` when the script finished or closed what it had not
                 \* aborted, -1 before
    abortCalled  \* the script called abort, and it returned true

taskVars == <<writer, reader, aborted, wire, sending, stopped>>
scriptVars == <<held, buffered, ended, waiting, taken, put, whole, abortCalled>>
vars == <<alive, taskVars, queue, reports, scriptVars>>

\* Stream::open has returned at the opener, and open_bi is under way.
Init ==
    /\ alive = TRUE
    /\ held = [s \in Sides |-> IF s = Opener THEN "held" ELSE "absent"]
    /\ writer = [s \in Sides |-> "none"]
    /\ reader = [s \in Sides |-> "none"]
    /\ queue = [s \in Sides |-> <<>>]
    /\ aborted = [s \in Sides |-> FALSE]
    /\ wire = [s \in Sides |-> <<>>]
    /\ sending = [s \in Sides |-> "open"]
    /\ stopped = [s \in Sides |-> FALSE]
    /\ reports = [s \in Sides |-> <<>>]
    /\ buffered = [s \in Sides |-> <<>>]
    /\ ended = [s \in Sides |-> NOT_ENDED]
    /\ waiting = [s \in Sides |-> 0]
    /\ taken = [s \in Sides |-> <<>>]
    /\ put = [s \in Sides |-> 0]
    /\ whole = [s \in Sides |-> -1]
    /\ abortCalled = [s \in Sides |-> FALSE]

----------------------------------------------------------------------------
(* The stream comes into being. *)

\* Stream::open: open_bi succeeds and carry starts, or fails and says so.
Open ==
    /\ writer[Opener] = "none"
    /\ IF alive
       THEN /\ writer' = [writer EXCEPT ![Opener] = "running"]
            /\ reader' = [reader EXCEPT ![Opener] = "running"]
            /\ UNCHANGED <<queue, reports>>
       ELSE /\ writer' = [writer EXCEPT ![Opener] = "done"]
            /\ reader' = [reader EXCEPT ![Opener] = "done"]
            /\ queue' = [queue EXCEPT ![Opener] = <<>>]
            /\ reports' = [reports EXCEPT ![Opener] =
                             IF held[Opener] = "held" THEN Append(@, ERROR) ELSE @]
    /\ UNCHANGED <<alive, aborted, wire, sending, stopped, scriptVars>>

\* Stream::adopt, once the opener's first bytes or its end arrive.
Adopt ==
    /\ held[Acceptor] = "absent"
    /\ alive
    /\ wire[Opener] # <<>> \/ sending[Opener] # "open"
    /\ held' = [held EXCEPT ![Acceptor] = "held"]
    /\ writer' = [writer EXCEPT ![Acceptor] = "running"]
    /\ reader' = [reader EXCEPT ![Acceptor] = "running"]
    /\ UNCHANGED <<alive, queue, aborted, wire, sending, stopped, reports, buffered,
                   ended, waiting, taken, put, whole, abortCalled>>

\* The connection is lost or closed under the stream.
ConnectionLost ==
    /\ alive
    /\ alive' = FALSE
    /\ UNCHANGED <<taskVars, queue, reports, scriptVars>>

----------------------------------------------------------------------------
(* The writer task: carry's while loop. *)

WriterDone(s, half) ==
    /\ writer' = [writer EXCEPT ![s] = "done"]
    /\ sending' = [sending EXCEPT ![s] = half]
    /\ queue' = [queue EXCEPT ![s] = <<>>]

\* Chunk::Data.  A write after the other side stopped reading, or after the
\* connection was lost, fails as soon as this side has heard of it.
WriteData(s) ==
    /\ writer[s] = "running"
    /\ queue[s] # <<>>
    /\ Head(queue[s]) > 0
    /\ \/ /\ wire' = [wire EXCEPT ![s] = Append(@, Head(queue[s]))]
          /\ queue' = [queue EXCEPT ![s] = Tail(@)]
          /\ UNCHANGED <<writer, sending>>
       \/ /\ stopped[s] \/ ~alive
          /\ WriterDone(s, "failed")
          /\ UNCHANGED wire
    /\ UNCHANGED <<alive, reader, aborted, stopped, reports, scriptVars>>

\* Mutant: a dropped sender ends the writer at once.
WriteFinishEagerly(s) ==
    /\ writer[s] = "running"
    /\ \/ queue[s] # <<>> /\ Head(queue[s]) = FINISH
       \/ held[s] = "closed"
    /\ WriterDone(s, "finished")
    /\ UNCHANGED <<alive, reader, aborted, wire, stopped, reports, scriptVars>>

\* Mutant: a dropped sender leaves the stream unfinished.
WriteFinishOnlyIfAsked(s) ==
    /\ writer[s] = "running"
    /\ queue[s] # <<>>
    /\ Head(queue[s]) = FINISH
    /\ WriterDone(s, "finished")
    /\ UNCHANGED <<alive, reader, aborted, wire, stopped, reports, scriptVars>>

\* Chunk::Finish, or nothing left and the sender dropped: send.finish().
WriteFinish(s) ==
    /\ writer[s] = "running"
    /\ \/ queue[s] # <<>> /\ Head(queue[s]) = FINISH
       \/ queue[s] = <<>> /\ held[s] = "closed"
    /\ WriterDone(s, "finished")
    /\ UNCHANGED <<alive, reader, aborted, wire, stopped, reports, scriptVars>>

\* Chunk::Abort: reset the send half and tell the reader task.
WriteAbort(s) ==
    /\ writer[s] = "running"
    /\ queue[s] # <<>>
    /\ Head(queue[s]) = ABORT
    /\ WriterDone(s, "reset")
    /\ aborted' = [aborted EXCEPT ![s] = TRUE]
    /\ UNCHANGED <<alive, reader, wire, stopped, reports, scriptVars>>

----------------------------------------------------------------------------
(* The reader task: carry's select! loop.  Dropping the receive half before *)
(* its end was read tells the other side to stop, as abort does.            *)

ReaderDone(s) == reader' = [reader EXCEPT ![s] = "done"]

\* Mutant: the writer's end, which drops its side of the channel, counts as a code.
ReadAbortedOrDone(s) ==
    /\ reader[s] = "running"
    /\ aborted[s] \/ writer[s] = "done"
    /\ ReaderDone(s)
    /\ stopped' = [stopped EXCEPT ![Other(s)] = TRUE]
    /\ UNCHANGED <<alive, writer, queue, aborted, wire, sending, reports, scriptVars>>

\* The arm of abort.recv().
ReadAborted(s) ==
    /\ reader[s] = "running"
    /\ aborted[s]
    /\ ReaderDone(s)
    /\ stopped' = [stopped EXCEPT ![Other(s)] = TRUE]
    /\ UNCHANGED <<alive, writer, queue, aborted, wire, sending, reports, scriptVars>>

\* read_chunk yields data: reported, or the task returns for want of a reader.
ReadData(s) ==
    LET o == Other(s) IN
    /\ reader[s] = "running"
    /\ wire[o] # <<>>
    /\ wire' = [wire EXCEPT ![o] = Tail(@)]
    /\ IF held[s] = "held"
       THEN /\ reports' = [reports EXCEPT ![s] = Append(@, Head(wire[o]))]
            /\ UNCHANGED <<reader, stopped>>
       ELSE /\ ReaderDone(s)
            /\ stopped' = [stopped EXCEPT ![o] = TRUE]
            /\ UNCHANGED reports
    /\ UNCHANGED <<alive, writer, queue, aborted, sending, scriptVars>>

\* read_chunk yields None after the last byte, or an error: the other side
\* reset its half, or the connection is lost.  A reset overtakes data.
ReadEnd(s, how) ==
    LET o == Other(s) IN
    /\ reader[s] = "running"
    /\ \/ how = CLEAN /\ wire[o] = <<>> /\ sending[o] = "finished"
       \/ how = ERROR /\ (sending[o] = "reset" \/ ~alive)
    /\ ReaderDone(s)
    /\ reports' = [reports EXCEPT ![s] = IF held[s] = "held" THEN Append(@, how) ELSE @]
    /\ UNCHANGED <<alive, writer, queue, aborted, wire, sending, stopped, scriptVars>>

----------------------------------------------------------------------------
(* The script. *)

\* Bound: a get_data asks for one unit or for all the other side may put.
Wants(s) == {1, MaxPuts[Other(s)]} \ {0}

Idle(s) == held[s] = "held" /\ waiting[s] = 0

Queued(s, chunk) == \E i \in DOMAIN queue[s] : queue[s][i] = chunk

\* put_data.  Once the writer task is done Stream::write fails, which changes
\* nothing and puts nothing.
Put(s) ==
    /\ Idle(s)
    /\ put[s] < MaxPuts[s]
    /\ writer[s] # "done"
    /\ put' = [put EXCEPT ![s] = @ + 1]
    /\ queue' = [queue EXCEPT ![s] = Append(@, put[s] + 1)]
    /\ UNCHANGED <<alive, taskVars, reports, held, buffered, ended, waiting, taken,
                   whole, abortCalled>>

\* finish, the first time: later ones come after the writer's last chunk.
Finish(s) ==
    /\ Idle(s)
    /\ whole[s] = -1 /\ ~Queued(s, FINISH)
    /\ writer[s] # "done"
    /\ whole' = [whole EXCEPT ![s] = IF abortCalled[s] THEN @ ELSE put[s]]
    /\ queue' = [queue EXCEPT ![s] = Append(@, FINISH)]
    /\ UNCHANGED <<alive, taskVars, reports, held, buffered, ended, waiting, taken,
                   put, abortCalled>>

\* abort: queued like everything else.
Abort(s) ==
    /\ Idle(s)
    /\ ~abortCalled[s]
    /\ writer[s] # "done"
    /\ abortCalled' = [abortCalled EXCEPT ![s] = TRUE]
    /\ queue' = [queue EXCEPT ![s] = Append(@, ABORT)]
    /\ UNCHANGED <<alive, taskVars, reports, held, buffered, ended, waiting, taken,
                   put, whole>>

\* close: the Stream is dropped and with it both channels' near ends.
Close(s) ==
    /\ Idle(s)
    /\ held' = [held EXCEPT ![s] = "closed"]
    /\ buffered' = [buffered EXCEPT ![s] = <<>>]
    /\ reports' = [reports EXCEPT ![s] = <<>>]
    /\ whole' = [whole EXCEPT ![s] =
                    IF @ = -1 /\ ~abortCalled[s] THEN put[s] ELSE @]
    /\ UNCHANGED <<alive, taskVars, queue, ended, waiting, taken, put, abortCalled>>

\* State::drain: the data reported, and how it ended.  The reader task returns
\* once it has reported an end, so an end is the last report.
EndReported(q) == q # <<>> /\ q[Len(q)] <= 0
Units(q) == IF EndReported(q) THEN SubSeq(q, 1, Len(q) - 1) ELSE q
EndOf(q, before) == IF EndReported(q) THEN q[Len(q)] ELSE before

\* Mutant: what was taken stays buffered.
DrainAndKeep(s, n) ==
    LET all == buffered[s] \o Units(reports[s])
        k == IF n <= Len(all) THEN n ELSE Len(all)
    IN  /\ taken' = [taken EXCEPT ![s] = @ \o SubSeq(all, 1, k)]
        /\ buffered' = [buffered EXCEPT ![s] = all]
        /\ ended' = [ended EXCEPT ![s] = EndOf(reports[s], @)]
        /\ reports' = [reports EXCEPT ![s] = <<>>]

\* A call that drains the reports and then takes n units, or what there is.
DrainAndTake(s, n) ==
    LET all == buffered[s] \o Units(reports[s])
        k == IF n <= Len(all) THEN n ELSE Len(all)
    IN  /\ taken' = [taken EXCEPT ![s] = @ \o SubSeq(all, 1, k)]
        /\ buffered' = [buffered EXCEPT ![s] = SubSeq(all, k + 1, Len(all))]
        /\ ended' = [ended EXCEPT ![s] = EndOf(reports[s], @)]
        /\ reports' = [reports EXCEPT ![s] = <<>>]

\* get_partial_data; with n = 0 get_available_bytes, is_open and get_error.
GetPartial(s, n) ==
    /\ Idle(s)
    /\ DrainAndTake(s, n)
    /\ UNCHANGED <<alive, taskVars, queue, held, waiting, put, whole, abortCalled>>

\* get_data: take all n, fail if the stream ended short, or block in fill.
GetData(s, n) ==
    /\ Idle(s)
    /\ LET enough == Len(buffered[s]) + Len(Units(reports[s])) >= n
       IN  /\ DrainAndTake(s, IF enough THEN n ELSE 0)
           /\ waiting' = [waiting EXCEPT ![s] =
                            IF enough \/ EndOf(reports[s], ended[s]) # NOT_ENDED THEN 0 ELSE n]
    /\ UNCHANGED <<alive, taskVars, queue, held, put, whole, abortCalled>>

\* Mutant: a reader that is gone without a report is waited for.
FillWaitsForReport(s) ==
    /\ waiting[s] > 0
    /\ LET none == reports[s] = <<>>
           over == none \/ Head(reports[s]) <= 0
           all == IF over THEN buffered[s] ELSE Append(buffered[s], Head(reports[s]))
           n == waiting[s]
       IN  /\ ~none
           /\ reports' = [reports EXCEPT ![s] = IF none THEN @ ELSE Tail(@)]
           /\ ended' = [ended EXCEPT ![s] = IF none THEN ERROR ELSE EndOf(<<Head(reports[s])>>, @)]
           /\ IF Len(all) >= n
              THEN /\ taken' = [taken EXCEPT ![s] = @ \o SubSeq(all, 1, n)]
                   /\ buffered' = [buffered EXCEPT ![s] = SubSeq(all, n + 1, Len(all))]
              ELSE /\ buffered' = [buffered EXCEPT ![s] = all]
                   /\ UNCHANGED taken
           /\ waiting' = [waiting EXCEPT ![s] = IF over \/ Len(all) >= n THEN 0 ELSE n]
    /\ UNCHANGED <<alive, taskVars, queue, held, put, whole, abortCalled>>

\* fill: blocking_recv returns, with a report or because the reader task is
\* gone without one; get_data returns when that is enough or the end.
Fill(s) ==
    /\ waiting[s] > 0
    /\ LET none == reports[s] = <<>>
           over == none \/ Head(reports[s]) <= 0
           all == IF over THEN buffered[s] ELSE Append(buffered[s], Head(reports[s]))
           n == waiting[s]
       IN  /\ none => reader[s] = "done"
           /\ reports' = [reports EXCEPT ![s] = IF none THEN @ ELSE Tail(@)]
           /\ ended' = [ended EXCEPT ![s] = IF none THEN ERROR ELSE EndOf(<<Head(reports[s])>>, @)]
           /\ IF Len(all) >= n
              THEN /\ taken' = [taken EXCEPT ![s] = @ \o SubSeq(all, 1, n)]
                   /\ buffered' = [buffered EXCEPT ![s] = SubSeq(all, n + 1, Len(all))]
              ELSE /\ buffered' = [buffered EXCEPT ![s] = all]
                   /\ UNCHANGED taken
           /\ waiting' = [waiting EXCEPT ![s] = IF over \/ Len(all) >= n THEN 0 ELSE n]
    /\ UNCHANGED <<alive, taskVars, queue, held, put, whole, abortCalled>>

----------------------------------------------------------------------------
Write(s) == WriteData(s) \/ WriteFinish(s) \/ WriteAbort(s)
Read(s) == ReadAborted(s) \/ ReadData(s) \/ (\E how \in {CLEAN, ERROR} : ReadEnd(s, how))

Next ==
    \/ Open
    \/ Adopt
    \/ ConnectionLost
    \/ \E s \in Sides :
         \/ Write(s) \/ Read(s) \/ Fill(s)
         \/ Put(s) \/ Finish(s) \/ Abort(s) \/ Close(s)
         \/ \E n \in 0 .. 1 : GetPartial(s, n)
         \/ \E n \in Wants(s) : GetData(s, n)

Spec == Init /\ [][Next]_vars

\* The tasks run, and so does the main thread: a report wakes a blocked get_data,
\* and otherwise a script polls.
Fairness ==
    /\ WF_vars(Open \/ Adopt)
    /\ \A s \in Sides :
         /\ WF_vars(Write(s)) /\ WF_vars(Read(s))
         /\ WF_vars(Fill(s) \/ GetPartial(s, 0))

FairSpec == Spec /\ Fairness

----------------------------------------------------------------------------
(* Properties. *)

Tasks == {"none", "running", "done"}
Unit == Nat \ {0}

\* Queues, tasks and buffers of both sides stay within their types.
TypeOK ==
    /\ alive \in BOOLEAN
    /\ held \in [Sides -> {"absent", "held", "closed"}]
    /\ writer \in [Sides -> Tasks] /\ reader \in [Sides -> Tasks]
    /\ queue \in [Sides -> Seq(Unit \cup {FINISH, ABORT})]
    /\ aborted \in [Sides -> BOOLEAN] /\ stopped \in [Sides -> BOOLEAN]
    /\ wire \in [Sides -> Seq(Unit)]
    /\ sending \in [Sides -> {"open", "finished", "reset", "failed"}]
    /\ reports \in [Sides -> Seq(Unit \cup {CLEAN, ERROR})]
    /\ buffered \in [Sides -> Seq(Unit)] /\ taken \in [Sides -> Seq(Unit)]
    /\ ended \in [Sides -> {NOT_ENDED, CLEAN, ERROR}]
    /\ waiting \in [Sides -> Nat]
    /\ put \in [Sides -> Nat] /\ whole \in [Sides -> Nat \cup {-1}]
    /\ abortCalled \in [Sides -> BOOLEAN]

UpTo(n) == [i \in 1 .. n |-> i]

\* An end of stream without an error means nothing is missing and nothing was
\* abandoned: a script that sees its stream end cleanly has, read or still
\* buffered, exactly what the other put before a finish or close that no abort
\* came before, in order, whatever aborts, closes and losses ran against it.
CleanEndIsComplete ==
    \A s \in Sides : held[s] = "held" /\ ended[s] = CLEAN =>
      /\ whole[Other(s)] # -1
      /\ taken[s] \o buffered[s] = UpTo(whole[Other(s)])

\* The writer task's send fails for one of three causes: the connection is gone,
\* or the other side aborted or closed (raw.rs carry).  A script that only reads
\* slowly, or is done writing itself, fails nobody.
PutFailsForAReason ==
    \A s \in Sides : sending[s] = "failed" =>
      ~alive \/ abortCalled[Other(s)] \/ held[Other(s)] = "closed"

\* Whatever happens, what a script has read is an unbroken beginning of what
\* the other put, however partial and blocking reads were mixed.
ReadsArePrefix ==
    \A s \in Sides : taken[s] = UpTo(Len(taken[s])) /\ Len(taken[s]) <= put[Other(s)]

\* A side that finishes, aborts or closes is heard by the other: its is_open
\* goes false, unless it has itself given the stream up.
EndIsHeard ==
    \A s \in Sides :
      LET o == Other(s) IN
      (whole[s] # -1 \/ abortCalled[s]) /\ held[o] = "held" ~>
        (ended[o] # NOT_ENDED \/ held[o] = "closed" \/ abortCalled[o])

\* A blocked get_data returns once the other side has ended its half, the
\* connection is lost, or this side's abort has stopped the reader.
GetReturns ==
    \A s \in Sides :
      waiting[s] > 0 /\ (sending[Other(s)] # "open" \/ ~alive \/ aborted[s]) ~> waiting[s] = 0

----------------------------------------------------------------------------
(* What the documentation says, and the code does not do. *)

\* stream.rs, abort: "Ends the stream in both directions at once": a script
\* that aborted and keeps polling sees its stream end.
AbortEndsReading ==
    \A s \in Sides : abortCalled[s] ~> (ended[s] # NOT_ENDED \/ held[s] = "closed")

\* stream.rs, close: "anything they send afterwards goes nowhere, with no error
\* on their side": a writer fails, and every later put_data with it, only for a
\* reason other than the peer's close.
CloseIsSilent ==
    \A s \in Sides : sending[s] = "failed" => ~alive \/ abortCalled[Other(s)]

\* raw.rs, abort: "Anything still queued is abandoned": after abort returns,
\* nothing more of this side goes out.
AbortAbandonsQueue ==
    [][\A s \in Sides : abortCalled[s] => Len(wire'[s]) <= Len(wire[s])]_vars

=============================================================================
