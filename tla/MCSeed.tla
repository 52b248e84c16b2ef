------------------------------- MODULE MCSeed -------------------------------
(***************************************************************************)
(* The seeders and the country list on a small instance.                   *)
(***************************************************************************)
EXTENDS CountryList

TwoCountries == <<"USA","CAN">>
=============================================================================
