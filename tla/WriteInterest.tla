---------------------------- MODULE WriteInterest ----------------------------
(***************************************************************************)
(* How the replies of a connection get from the worker thread, which       *)
(* appends them to buf.out, to the event thread, which writes buf.out to   *)
(* the socket when epoll reports it writable (src/excom-server/client.c,   *)
(* src/excom/event/epoll.c).  Both threads change the WRITE bit of         *)
(* client->event.flags and pass the flags on to epoll_ctl, without a lock. *)
(*                                                                         *)
(* The loads and stores of the flags and the system calls are steps; what  *)
(* excom_buffer_write does with the bytes is the subject of module Buffer. *)
(***************************************************************************)
EXTENDS Integers

CONSTANTS MaxPackets,    \* bound: the packets the peer sends
          ReplySize,     \* the length of a reply
          Peers          \* the peers the server may meet

\* A peer may send its next packet only once it has the last reply, and its
\* connection may be such that write(2) takes all it is given, or fails.
ASSUME BoundAssumption == MaxPackets \in Nat /\ ReplySize \in Nat \ {0}
ASSUME PeerAssumption == Peers \subseteq [lockstep : BOOLEAN, whole : BOOLEAN]

VARIABLES peer,       \* the peer at the other end
          flags,      \* whether client->event.flags has EXCOM_EVENT_WRITE
          interest,   \* whether epoll watches the socket for writing
          arrived,    \* the packets the peer has sent
          queue,      \* packets read by the event thread, not yet handled
          out,        \* bytes in buf.out that are not yet written
          epc, eflags, earg,  \* event thread: place, flags it has loaded
          wpc, warg           \* worker: place, flags it passes to epoll_ctl

vars == <<peer, flags, interest, arrived, queue, out, epc, eflags, earg, wpc, warg>>

Init ==
  /\ peer \in Peers
  /\ flags = FALSE /\ interest = FALSE
  /\ arrived = 0 /\ queue = 0 /\ out = 0
  /\ epc = "poll" /\ eflags = FALSE /\ earg = FALSE
  /\ wpc = "handle" /\ warg = FALSE

-----------------------------------------------------------------------------
(***************************************************************************)
(* The event thread.                                                       *)
(***************************************************************************)

\* A READ event: a packet of the peer goes to the worker.
ReadEvent ==
  /\ epc = "poll" /\ arrived < MaxPackets
  /\ peer.lockstep => queue = 0 /\ out = 0
  /\ arrived' = arrived + 1 /\ queue' = queue + 1
  /\ UNCHANGED <<peer, flags, interest, out, epc, eflags, earg, wpc, warg>>

\* A WRITE event, and excom_buffer_write takes n bytes.
Written(n) ==
  /\ epc = "poll" /\ interest
  /\ n = 0 => out = 0
  /\ peer.whole => n = out
  /\ out' = out - n
  /\ epc' = "toggle"
  /\ UNCHANGED <<peer, flags, interest, arrived, queue, eflags, earg, wpc,
                 warg>>

\* A WRITE event, and write(2) fails with EAGAIN.  When the event was nothing
\* but WRITE the bit is set again; otherwise nothing is done.
NotWritten ==
  /\ epc = "poll" /\ interest /\ out > 0
  /\ epc' \in {"set", "poll"}
  /\ UNCHANGED <<peer, flags, interest, arrived, queue, out, eflags, earg,
                 wpc, warg>>

\* event.root->flags ^= EXCOM_EVENT_WRITE: a load and a store.
LoadFlags ==
  /\ epc = "toggle"
  /\ eflags' = flags
  /\ epc' = "store"
  /\ UNCHANGED <<peer, flags, interest, arrived, queue, out, earg, wpc, warg>>

\* Mutant: |= instead of ^=.
MutStoreFlags ==
  /\ epc = "store"
  /\ flags' = TRUE
  /\ epc' = "update"
  /\ UNCHANGED <<peer, interest, arrived, queue, out, eflags, earg, wpc, warg>>

StoreFlags ==
  /\ epc = "store"
  /\ flags' = ~eflags
  /\ epc' = "update"
  /\ UNCHANGED <<peer, interest, arrived, queue, out, eflags, earg, wpc, warg>>

SetFlags ==
  /\ epc = "set"
  /\ flags' = TRUE
  /\ epc' = "update"
  /\ UNCHANGED <<peer, interest, arrived, queue, out, eflags, earg, wpc, warg>>

\* excom_event_epoll_update reads the flags, then calls epoll_ctl.
EventUpdate ==
  /\ epc = "update"
  /\ earg' = flags
  /\ epc' = "ctl"
  /\ UNCHANGED <<peer, flags, interest, arrived, queue, out, eflags, wpc,
                 warg>>

EventCtl ==
  /\ epc = "ctl"
  /\ interest' = earg
  /\ epc' = "poll"
  /\ UNCHANGED <<peer, flags, arrived, queue, out, eflags, earg, wpc, warg>>

-----------------------------------------------------------------------------
(***************************************************************************)
(* The worker thread.                                                      *)
(***************************************************************************)

\* A packet is handled.  Not every packet has a reply, but a peer that waits
\* for a reply sends only packets that have one.
Handle ==
  /\ wpc = "handle" /\ queue > 0
  /\ queue' = queue - 1
  /\ \/ out' = out + ReplySize
     \/ ~peer.lockstep /\ UNCHANGED out
  /\ wpc' = "set"
  /\ UNCHANGED <<peer, flags, interest, arrived, epc, eflags, earg, warg>>

\* client->event.flags |= EXCOM_EVENT_WRITE
WorkerSet ==
  /\ wpc = "set"
  /\ flags' = TRUE
  /\ wpc' = "update"
  /\ UNCHANGED <<peer, interest, arrived, queue, out, epc, eflags, earg, warg>>

WorkerUpdate ==
  /\ wpc = "update"
  /\ warg' = flags
  /\ wpc' = "ctl"
  /\ UNCHANGED <<peer, flags, interest, arrived, queue, out, epc, eflags,
                 earg>>

\* Mutant: the flags are never passed on to epoll_ctl.
MutWorkerCtl ==
  /\ wpc = "ctl"
  /\ wpc' = "handle"
  /\ UNCHANGED <<peer, flags, interest, arrived, queue, out, epc, eflags,
                 earg, warg>>

WorkerCtl ==
  /\ wpc = "ctl"
  /\ interest' = warg
  /\ wpc' = "handle"
  /\ UNCHANGED <<peer, flags, arrived, queue, out, epc, eflags, earg, warg>>

-----------------------------------------------------------------------------
WriteEvent == (\E n \in 0 .. out : Written(n)) \/ NotWritten

EventHandler ==
  LoadFlags \/ StoreFlags \/ SetFlags \/ EventUpdate \/ EventCtl

WorkerThread == Handle \/ WorkerSet \/ WorkerUpdate \/ WorkerCtl

Next == ReadEvent \/ WriteEvent \/ EventHandler \/ WorkerThread

Spec == Init /\ [][Next]_vars

\* Both threads keep running, epoll_wait keeps reporting a writable socket that
\* is watched, and a peer that reads makes write(2) succeed again and again.
FairSpec ==
  /\ Spec
  /\ WF_vars(WriteEvent) /\ WF_vars(EventHandler) /\ WF_vars(WorkerThread)
  /\ SF_vars(\E n \in 0 .. out : Written(n))

-----------------------------------------------------------------------------
(***************************************************************************)
(* Properties.                                                             *)
(***************************************************************************)

\* Every field keeps its type; in particular a write never takes more bytes
\* than buf.out holds.
TypeOK ==
  /\ peer \in Peers
  /\ flags \in BOOLEAN /\ interest \in BOOLEAN
  /\ arrived \in 0 .. MaxPackets /\ queue \in Nat /\ out \in Nat
  /\ epc \in {"poll", "toggle", "store", "set", "update", "ctl"}
  /\ eflags \in BOOLEAN /\ earg \in BOOLEAN
  /\ wpc \in {"handle", "set", "update", "ctl"} /\ warg \in BOOLEAN

\* The event loop does not spin: once the peer has fallen silent and nothing
\* is left to do, the socket is no longer watched for writing, which epoll would
\* report at every turn.
LoopQuiets == <>[]~interest

\* The peer waits for each reply, and its connection takes a reply whole.
Patient == peer.lockstep /\ peer.whole

\* With a patient peer, the threads never touch the flags at the same time: the
\* worker is idle whenever the event thread changes them.
TogglesAlone == Patient /\ epc # "poll" => wpc = "handle" /\ queue = 0

\* With a patient peer, bytes in buf.out are never left behind: when both threads
\* are idle, epoll watches the socket for writing.
NeverStranded ==
  Patient /\ out > 0 /\ epc = "poll" /\ wpc = "handle" => interest

\* A patient peer gets every reply, whole.
PatientPeerServed == Patient /\ out > 0 ~> out = 0

\* What holds of a connection to a patient peer: the flag and epoll's interest
\* agree with buf.out between turns, and within a turn only one thread is about
\* to make them agree.
LockStepInv ==
  /\ epc # "poll" => wpc = "handle" /\ queue = 0
  /\ queue \in {0, 1} /\ (queue > 0 => out = 0)
  /\ wpc # "handle" => out > 0 /\ queue = 0 /\ ~interest
  /\ wpc \in {"update", "ctl"} => flags
  /\ wpc = "ctl" => warg
  /\ epc = "toggle" => out = 0 /\ flags
  /\ epc = "store" => out = 0 /\ eflags
  /\ epc = "set" => out > 0
  /\ epc = "update" => (flags <=> out > 0)
  /\ epc = "ctl" => (earg <=> out > 0) /\ (flags <=> earg)
  /\ epc = "poll" /\ wpc = "handle" =>
       (interest <=> out > 0) /\ (flags <=> interest)

\* The inductive invariant of both.
PatientInv == TypeOK /\ (Patient => LockStepInv)
=============================================================================
