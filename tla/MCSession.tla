----------------------------- MODULE MCSession ------------------------------
(* One connection, with objects of up to MaxChunks chunks.                 *)
EXTENDS Session
=============================================================================
