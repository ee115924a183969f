----------------------------- MODULE MCWsStream -----------------------------
(***************************************************************************)
(* Small instances of WsStream for TLC.                                    *)
(***************************************************************************)
EXTENDS WsStreamProofs
=============================================================================
