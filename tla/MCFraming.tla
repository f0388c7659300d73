----------------------------- MODULE MCFraming ------------------------------
(***************************************************************************)
(* Small instances of Framing.                                             *)
(***************************************************************************)
EXTENDS Framing

\* Empty bodies, numbers and strings, the empty string too, in clear and
\* encrypted.
MCPackets ==
  {[type |-> 1,  text |-> <<>>,  numbers |-> <<>>,        enc |-> FALSE],
   [type |-> 4,  text |-> <<7>>, numbers |-> <<0, 1, 2>>, enc |-> FALSE],
   [type |-> 7,  text |-> <<>>,  numbers |-> <<>>,        enc |-> FALSE],
   [type |-> 6,  text |-> <<>>,  numbers |-> <<>>,        enc |-> TRUE],
   [type |-> 16, text |-> <<1>>, numbers |-> <<>>,        enc |-> TRUE]}

\* Bytes that are no packet's, read as a packet of no known type.
MCStrange == {[type |-> 9, text |-> <<>>, numbers |-> <<>>, enc |-> FALSE]}
=============================================================================
