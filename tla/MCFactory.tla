----------------------------- MODULE MCFactory ------------------------------
(***************************************************************************)
(* Small instances of Factory.                                             *)
(***************************************************************************)
EXTENDS Factory

MCThreads == Workers \cup Producers
=============================================================================
