---------------------------- MODULE MCPeerState ----------------------------
(***************************************************************************)
(* The instance of PeerState that TLC checks: a vehicle with two peers.    *)
(***************************************************************************)
EXTENDS PeerState

CONSTANTS PeerA, PeerB

TwoEndpoints == <<PeerA, PeerB>>

=============================================================================
