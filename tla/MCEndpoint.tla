----------------------------- MODULE MCEndpoint -----------------------------
EXTENDS Endpoint, TLC

\* The endpoints are interchangeable.
Symmetry == Permutations(Endpoints)
=============================================================================
