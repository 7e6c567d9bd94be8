---------------------------- MODULE MCP2PServer ----------------------------
(* A small instance of P2PServer for TLC. *)
EXTENDS P2PServer
CONSTANTS a, b
=============================================================================
