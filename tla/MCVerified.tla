----------------------------- MODULE MCVerified -----------------------------
(***************************************************************************)
(* The networks of MCNetwork with the verifier.                            *)
(***************************************************************************)
EXTENDS MCNetwork, VerifiedNetwork

Hosts == {a, b}
=============================================================================
