------------------------------ MODULE MCBuffer ------------------------------
(***************************************************************************)
(* Small instances of Buffer.                                              *)
(***************************************************************************)
EXTENDS Buffer, TLC

CONSTANTS worker, event, owner     \* threads

\* Bytes differ so that a reordering shows; the strings are shorter than,
\* equal to and longer than the room that is left at some point.
MCByte == {1, 2}
MCStrings == {<<1>>, <<2, 1, 2>>}
MCStringsAndEmpty == MCStrings \cup {<<>>}

\* Two threads append and the event thread writes.  None calls sappend, which
\* copies past max when malloc has failed.
SharedOps ==
  (worker :> {"cappend", "bappend"}) @@ (owner :> {"cappend", "freeze"})
    @@ (event :> {"write"})
SharedThreads == {worker, owner, event}

\* The roles of the server: the worker appends, the event thread writes.
ServerOps == (worker :> Appends) @@ (event :> {"write"})
ServerThreads == {worker, event}

\* One thread uses the whole interface, but for the sappend that overflows when
\* malloc fails.
OwnerOps == owner :> (Operations \ {"sappend"})
OwnerThreads == {owner}
=============================================================================
