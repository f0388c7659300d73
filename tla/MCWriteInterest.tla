-------------------------- MODULE MCWriteInterest --------------------------
(***************************************************************************)
(* Small instances of WriteInterest.                                       *)
(***************************************************************************)
EXTENDS WriteInterest

AnyPeer == [lockstep : BOOLEAN, whole : BOOLEAN]
=============================================================================
