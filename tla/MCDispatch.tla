----------------------------- MODULE MCDispatch -----------------------------
(* Dispatch on small instances. *)
EXTENDS Dispatch, TLC

\* Sessions are interchangeable, and so are the other claimants.
ClaimantSymmetry == Permutations(Sessions) \cup Permutations(Claimants \ Sessions)

=============================================================================
