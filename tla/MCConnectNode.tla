----------------------------- MODULE MCConnectNode -----------------------------
(* ConnectNode for TLC. *)
EXTENDS ConnectNode
=============================================================================
