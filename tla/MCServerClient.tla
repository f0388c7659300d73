--------------------------- MODULE MCServerClient ---------------------------
(***************************************************************************)
(* Small instances of ServerClient.                                        *)
(***************************************************************************)
EXTENDS ServerClient
=============================================================================
