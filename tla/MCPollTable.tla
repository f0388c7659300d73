---------------------------- MODULE MCPollTable -----------------------------
(***************************************************************************)
(* Small instances of PollTable.                                           *)
(***************************************************************************)
EXTENDS PollTable
=============================================================================
