------------------------------ MODULE MCStream ------------------------------
(* Stream with a few units each way. *)
EXTENDS Stream

CONSTANTS OpenerPuts, AcceptorPuts

Puts == [s \in Sides |-> IF s = Opener THEN OpenerPuts ELSE AcceptorPuts]

=============================================================================
