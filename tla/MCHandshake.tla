---------------------------- MODULE MCHandshake ----------------------------
(***************************************************************************)
(* Small instances of Handshake.                                           *)
(***************************************************************************)
EXTENDS Handshake

\* EXCOM_VERSION_MAJOR, _MINOR and _PATCH.
MCServerVersion == <<0, 0, 1>>

\* The same version, the furthest compatible one, and those just too far.
MCClientVersions == {<<0, 0, 1>>, <<0, 3, 11>>,
                     <<0, 4, 1>>, <<0, 0, 12>>, <<1, 0, 1>>}
=============================================================================
