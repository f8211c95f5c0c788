---------------------------- MODULE MCClientStore ----------------------------
(* ClientStore for TLC: keys as interchangeable model values.              *)
EXTENDS ClientStore, TLC

Keys == Permutations(NetKey) \cup Permutations(AppKey)
=============================================================================
