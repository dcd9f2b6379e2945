---------------------------- MODULE MCConnection ----------------------------
(* Connection with a few datagrams and streams. *)
EXTENDS Connection

=============================================================================
