----------------------------- MODULE ByteStream -----------------------------
(***************************************************************************)
(* What an excom_buffer_t that is written to a socket promises its users,  *)
(* without capacity, positions, locks or memory: the bytes that reach the  *)
(* socket are the bytes that were appended, in that order, each once.      *)
(* Module Buffer is shown to implement it.                                 *)
(***************************************************************************)
EXTENDS Integers, Sequences

CONSTANT Strings          \* the byte strings one append may carry

VARIABLES accepted,       \* every byte taken over from an appender so far
          delivered       \* every byte handed to the socket so far

streamVars == <<accepted, delivered>>

StreamInit == accepted = <<>> /\ delivered = <<>>

\* One append: all of its bytes or none of them.
Accept(str) ==
  /\ accepted' = accepted \o str
  /\ UNCHANGED delivered

\* One write(2) that takes the next n bytes.
Deliver(n) ==
  /\ delivered' = delivered \o
       SubSeq(accepted, Len(delivered) + 1, Len(delivered) + n)
  /\ UNCHANGED accepted

\* The user throws away what has not been written yet (reset, destroy).
Wipe ==
  /\ accepted' = delivered
  /\ UNCHANGED delivered

StreamNext ==
  \/ \E str \in Strings : Accept(str)
  \/ \E n \in 1 .. (Len(accepted) - Len(delivered)) : Deliver(n)
  \/ Wipe

StreamSpec == StreamInit /\ [][StreamNext]_streamVars
=============================================================================
