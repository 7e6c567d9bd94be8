----------------------------- MODULE MCFreezer -----------------------------
(* Small instances of Freezer. *)
EXTENDS Freezer

CONSTANTS headers, blobs
=============================================================================
