---------------------------- MODULE MCProvisioning -----------------------------
(* Provisioning for TLC. *)
EXTENDS Provisioning
=============================================================================
