--------------------------- MODULE MCServerLocks ---------------------------
(* A small instance of ServerLocks: channels of one message.                *)
EXTENDS ServerLocks, TLC
=============================================================================
