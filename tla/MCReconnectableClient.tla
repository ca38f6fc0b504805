----------------------- MODULE MCReconnectableClient -----------------------
(***************************************************************************)
(* TLC instance of ReconnectableClient.                                    *)
(***************************************************************************)
EXTENDS ReconnectableClient
=============================================================================
