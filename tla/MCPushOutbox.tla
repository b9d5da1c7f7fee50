----------------------------- MODULE MCPushOutbox -----------------------------
(* A small instance of PushOutbox for TLC.                                 *)
EXTENDS PushOutbox
=============================================================================
