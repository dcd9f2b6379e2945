------------------------------ MODULE Reports -------------------------------
(***************************************************************************)
(* What every handle promises the script that holds it.                    *)
(*                                                                         *)
(* IrohTopic, IrohTransfer and IrohDocument are three copies of one        *)
(* pattern: an object that polls a task's channel once a frame and turns   *)
(* what it finds into deferred signals.  This is the pattern as the        *)
(* script sees it: news while the object is live, at most one end, nothing *)
(* after that end, and nothing new once the script let go.                 *)
(*                                                                         *)
(* The modules Topic, Transfers and Document implement it.                 *)
(***************************************************************************)
EXTENDS Naturals, Sequences

VARIABLES
    held,      \* "none", "held", "gone" (finished or let go) or "freed"
    deferred,  \* the signals call_deferred still has to emit, as kinds
    over       \* the script has heard the signal that ends the handle

vars == <<held, deferred, over>>

Init ==
    /\ held = "none"
    /\ deferred = <<>>
    /\ over = FALSE

\* An endpoint method hands the object to the script.
Begin ==
    /\ held = "none"
    /\ held' = "held"
    /\ UNCHANGED <<deferred, over>>

\* A frame: signals join the queue in order.  An end is the last of them and
\* finishes the handle in the same step.
Frame ==
    /\ held = "held"
    /\ deferred' \in Seq({"news", "end"})
    /\ LET old == Len(deferred)
           all == Len(deferred')
       IN  /\ old <= all
           /\ \A i \in 1 .. old : deferred'[i] = deferred[i]
           /\ \A i \in old + 1 .. all - 1 : deferred'[i] = "news"
           /\ held' = IF old < all /\ deferred'[all] = "end" THEN "gone" ELSE "held"
    /\ UNCHANGED over

\* Godot emits the oldest deferred signal.
Emit ==
    /\ deferred # <<>>
    /\ ~over
    /\ over' = (Head(deferred) = "end")
    /\ deferred' = Tail(deferred)
    /\ UNCHANGED held

\* leave, cancel or close: nothing is queued any more.
LetGo ==
    /\ held = "held"
    /\ held' = "gone"
    /\ UNCHANGED <<deferred, over>>

\* The last reference goes, and deferred calls on the object with it.
Release ==
    /\ held \in {"held", "gone"}
    /\ held' = "freed"
    /\ deferred' = <<>>
    /\ UNCHANGED over

Next == Begin \/ Frame \/ Emit \/ LetGo \/ Release

Safety == Init /\ [][Next]_vars

\* Godot runs its deferred calls at the end of every frame.
Spec == Safety /\ WF_vars(Emit)

=============================================================================
