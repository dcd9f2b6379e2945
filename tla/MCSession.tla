----------------------------- MODULE MCSession -----------------------------
(* Session on small instances. *)
EXTENDS Session, TLC

\* Clients are interchangeable: nothing in Session orders them.  Used by the
\* safety runs only.
ClientSymmetry == Permutations(Clients)

=============================================================================
