------------------------------- MODULE MCPeer -------------------------------
(* Peer with a few sessions in a row. *)
EXTENDS Peer

=============================================================================
