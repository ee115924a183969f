------------------------- MODULE MCPipelinedClient -------------------------
(***************************************************************************)
(* Small instances of PipelinedClient for TLC.                             *)
(***************************************************************************)
EXTENDS PipelinedClientProofs
=============================================================================
