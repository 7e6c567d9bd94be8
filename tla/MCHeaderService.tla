-------------------------- MODULE MCHeaderService --------------------------
(* Small instances of HeaderService. *)
EXTENDS HeaderService
=============================================================================
