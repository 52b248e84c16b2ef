------------------------------ MODULE MCLeases ------------------------------
(***************************************************************************)
(* Leases on the small instances of Auth.                                  *)
(***************************************************************************)
EXTENDS MCAuth, Leases
=============================================================================
