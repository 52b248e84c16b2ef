----------------------------- MODULE MCRefusals -----------------------------
(***************************************************************************)
(* Refusals on the small instances of Auth.                                *)
(***************************************************************************)
EXTENDS MCAuth, Refusals
=============================================================================
