----------------------------- MODULE MCWsServer -----------------------------
(***************************************************************************)
(* Small instances of WsServer for TLC.                                    *)
(***************************************************************************)
EXTENDS WsServerOrder

\* Clients differ only in their names.
Symmetry == Permutations(Client)
=============================================================================
