---------------------------- MODULE MCDatagrams ----------------------------
(* Datagrams with few sequence numbers, so that the counter wraps. *)
EXTENDS Datagrams

=============================================================================
