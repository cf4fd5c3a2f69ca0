------------------------------ MODULE MCCache ------------------------------
(***************************************************************************)
(* The caching lessons for TLC: three requests.                            *)
(***************************************************************************)
EXTENDS Cache
=============================================================================
