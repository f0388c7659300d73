---------------------------- MODULE ServerClient ----------------------------
(***************************************************************************)
(* One connection of the server (src/excom-server/client.c): the event     *)
(* thread reads packets and links them into client_data->packets, and the  *)
(* connection's worker thread takes them off and handles them.  The event  *)
(* thread holds client_data->mutex while it changes the list; the worker   *)
(* holds it only while it decides whether to wait, and walks the list      *)
(* without it.  When the peer goes away the event thread frees the list,   *)
(* wakes the worker and joins it.                                          *)
(*                                                                         *)
(* Every load and store of a field the two threads share is a step, in the *)
(* order of the source: the Makefile builds without optimisation.  The     *)
(* bytes of a packet are left out: a packet is its place in the order of   *)
(* arrival, and a step of the event loop reads whole packets.              *)
(***************************************************************************)
EXTENDS Integers, Sequences

CONSTANTS MaxPackets,     \* bound: the packets the peer sends
          NULL,           \* the null pointer
          Wild            \* an uninitialised pointer that is not NULL

Packet == 1 .. MaxPackets
Pointer == Packet \cup {NULL, Wild}

ASSUME PacketsAssumption == MaxPackets \in Nat
ASSUME PointerAssumption == NULL # Wild /\ NULL \notin Nat /\ Wild \notin Nat

VARIABLES packets, last,      \* client_data->packets and ->last
          next,               \* next[p]: the _next field of packet p
          received,           \* the packets allocated so far: 1 .. received
          freed,              \* those of them that were freed
          disconnected,       \* client_data->disconnected
          data,               \* what client->data points to: live or freed
          mutex,              \* the thread that holds client_data->mutex
          signalled,          \* whether the waiting worker has been woken
          sock, inbuf,        \* packets in the socket and in buf.in
          peer,               \* the peer's end of the connection
          patient,            \* whether the peer sends, and closes, only when
                              \* the worker waits and has handled everything
          epc, epacket,       \* event thread: place, local variable packet
          wpc, wpacket, wnext,\* worker: place, packet, the _next it loaded
          handled,            \* history: the packets handled, in order
          fault               \* a thread followed an invalid pointer

list   == <<packets, last, next>>
heap   == <<received, freed>>
client == <<disconnected, data>>
conn   == <<sock, inbuf, peer, patient>>
event  == <<epc, epacket>>
worker == <<wpc, wpacket, wnext>>
vars   == <<list, heap, client, mutex, signalled, conn, event, worker, handled,
            fault>>

\* Whether following pointer p is defined.
Valid(p) == p \in 1 .. received /\ p \notin freed

\* excom_server_client_connect, which starts the worker.
Init ==
  /\ packets = NULL /\ last = NULL
  /\ next = [p \in Packet |-> Wild]
  /\ received = 0 /\ freed = {}
  /\ disconnected = FALSE /\ data = "live"
  /\ mutex = "none" /\ signalled = FALSE
  /\ sock = 0 /\ inbuf = 0 /\ peer = "open" /\ patient \in BOOLEAN
  /\ epc = "poll" /\ epacket = NULL
  /\ wpc = "lock" /\ wpacket = NULL /\ wnext = NULL
  /\ handled = <<>>
  /\ fault = FALSE

-----------------------------------------------------------------------------
(***************************************************************************)
(* The peer sends packets and closes its end.                              *)
(***************************************************************************)

Quiet == wpc = "wait" /\ epc = "poll" /\ sock = 0 /\ packets = NULL

PeerSends ==
  /\ peer = "open" /\ sock + inbuf + received < MaxPackets
  /\ patient => Quiet
  /\ sock' = sock + 1
  /\ UNCHANGED <<list, heap, client, mutex, signalled, inbuf, peer, patient,
                 event, worker, handled, fault>>

PeerCloses ==
  /\ peer = "open"
  /\ patient => Quiet
  /\ peer' = "closed"
  /\ UNCHANGED <<list, heap, client, mutex, signalled, sock, inbuf, patient,
                 event, worker, handled, fault>>

-----------------------------------------------------------------------------
(***************************************************************************)
(* The event thread: excom_server_client_read and check_packet.            *)
(***************************************************************************)

EventGoto(place) == epc' = place

\* read until EAGAIN, then check_packet; at the end of the stream the client
\* is closed instead, without looking at what was read before the end.
Read ==
  /\ epc = "poll" /\ (sock > 0 \/ peer = "closed")
  /\ inbuf' = inbuf + sock /\ sock' = 0
  /\ EventGoto(IF peer = "closed" THEN "close" ELSE "check_lock")
  /\ UNCHANGED <<received, mutex, signalled, epacket>>

\* Mutant: a lock that does not wait.
MutEventLock ==
  /\ epc \in {"check_lock", "close_lock"}
  /\ mutex' = "event"
  /\ EventGoto(IF epc = "check_lock" THEN "check" ELSE "close_first")
  /\ UNCHANGED <<received, signalled, sock, inbuf, epacket>>

EventLock ==
  /\ epc \in {"check_lock", "close_lock"} /\ mutex = "none"
  /\ mutex' = "event"
  /\ EventGoto(IF epc = "check_lock" THEN "check" ELSE "close_first")
  /\ UNCHANGED <<received, signalled, sock, inbuf, epacket>>

\* The next packet of buf.in; malloc leaves its _next uninitialised.
ReadPacket ==
  /\ epc = "check" /\ inbuf > 0
  /\ inbuf' = inbuf - 1
  /\ received' = received + 1
  /\ epacket' = received + 1
  /\ EventGoto("link")
  /\ UNCHANGED <<mutex, signalled, sock>>

\* read_packet refuses a packet of type INVALID: it is freed, and check_packet
\* leaves what may be behind it in buf.in.
ReadFails ==
  /\ epc = "check" /\ inbuf > 0
  /\ inbuf' = inbuf - 1
  /\ mutex' = "none"
  /\ EventGoto("signal")
  /\ UNCHANGED <<received, signalled, sock, epacket>>

TestPackets ==
  /\ epc = "link"
  /\ EventGoto(IF packets = NULL THEN "first_last" ELSE "append")
  /\ UNCHANGED <<list, fault>>

\* packets = last = packet stores last first.
SetLast ==
  /\ epc \in {"first_last", "append_last"}
  /\ last' = epacket
  /\ EventGoto(IF epc = "first_last" THEN "first_packets" ELSE "terminate")
  /\ UNCHANGED <<packets, next, fault>>

SetPackets ==
  /\ epc = "first_packets"
  /\ packets' = epacket
  /\ EventGoto("terminate")
  /\ UNCHANGED <<last, next, fault>>

\* last->_next = packet
AppendToLast ==
  /\ epc = "append"
  /\ next' = IF Valid(last) THEN [next EXCEPT ![last] = epacket] ELSE next
  /\ fault' = ~Valid(last)
  /\ EventGoto("append_last")
  /\ UNCHANGED <<packets, last>>

\* packet->_next = NULL
Terminate ==
  /\ epc = "terminate"
  /\ next' = [next EXCEPT ![epacket] = NULL]
  /\ EventGoto("check")
  /\ UNCHANGED <<packets, last, fault>>

CheckUnlock ==
  /\ epc = "check" /\ inbuf = 0
  /\ mutex' = "none"
  /\ EventGoto("signal")
  /\ UNCHANGED <<received, signalled, sock, inbuf, epacket>>

\* Mutant: check_packet signals nobody.
MutSignal ==
  /\ epc = "signal"
  /\ EventGoto("poll")
  /\ UNCHANGED <<received, mutex, signalled, sock, inbuf, epacket>>

\* excom_cond_signal: no effect unless the worker waits.
Signal ==
  /\ epc = "signal"
  /\ signalled' = (signalled \/ wpc = "wait")
  /\ EventGoto("poll")
  /\ UNCHANGED <<received, mutex, sock, inbuf, epacket>>

-----------------------------------------------------------------------------
(***************************************************************************)
(* The event thread: excom_server_client_close.                            *)
(***************************************************************************)

Close ==
  /\ epc = "close"
  /\ EventGoto(IF disconnected THEN "closed" ELSE "close_lock")
  /\ UNCHANGED <<freed, client, mutex, signalled, epacket, fault>>

CloseFirst ==
  /\ epc = "close_first"
  /\ epacket' = packets
  /\ EventGoto("close_free")
  /\ UNCHANGED <<freed, client, mutex, signalled, fault>>

\* One packet of the list is freed; the list itself is left as it is.
CloseFree ==
  /\ epc = "close_free" /\ epacket # NULL
  /\ IF Valid(epacket)
       THEN /\ freed' = freed \cup {epacket}
            /\ epacket' = next[epacket] /\ UNCHANGED fault
       ELSE fault' = TRUE /\ UNCHANGED <<freed, epacket>>
  /\ UNCHANGED <<client, mutex, signalled, epc>>

\* disconnected = true, broadcast, unlock.
Disconnect ==
  /\ epc = "close_free" /\ epacket = NULL
  /\ disconnected' = TRUE
  /\ signalled' = (signalled \/ wpc = "wait")
  /\ mutex' = "none"
  /\ EventGoto("join")
  /\ UNCHANGED <<freed, data, epacket, fault>>

\* The join returns once the worker has exited; then client_data is freed.
Join ==
  /\ epc = "join" /\ wpc = "exited"
  /\ data' = "freed"
  /\ EventGoto("closed")
  /\ UNCHANGED <<freed, disconnected, mutex, signalled, epacket, fault>>

-----------------------------------------------------------------------------
(***************************************************************************)
(* The worker thread.                                                      *)
(***************************************************************************)

WorkerGoto(place) == wpc' = place

WorkerLock ==
  /\ wpc = "lock" /\ mutex = "none"
  /\ mutex' = "worker"
  /\ WorkerGoto("test")
  /\ UNCHANGED <<signalled, wpacket>>

\* excom_cond_wait gives the mutex up when there is nothing to do.
Test ==
  /\ wpc = "test"
  /\ IF packets = NULL
       THEN WorkerGoto("wait") /\ mutex' = "none"
       ELSE WorkerGoto("take") /\ UNCHANGED mutex
  /\ UNCHANGED <<signalled, wpacket>>

\* excom_cond_wait returns, with the mutex held, once.
Wake ==
  /\ wpc = "wait" /\ mutex = "none" /\ signalled
  /\ mutex' = "worker" /\ signalled' = FALSE
  /\ WorkerGoto("take")
  /\ UNCHANGED wpacket

\* pthread_cond_wait may also return without a signal.
SpuriousWake ==
  /\ wpc = "wait" /\ mutex = "none" /\ ~signalled
  /\ mutex' = "worker"
  /\ WorkerGoto("take")
  /\ UNCHANGED <<signalled, wpacket>>

\* Mutant: a do loop instead of the while loop, so that NULL is handled too.
MutTakeNull ==
  /\ wpc = "take"
  /\ wpacket' = packets
  /\ IF disconnected
       THEN WorkerGoto("exited") /\ UNCHANGED mutex
       ELSE WorkerGoto("handle") /\ mutex' = "none"
  /\ UNCHANGED signalled

\* Mutant: the worker does not look at disconnected.
MutTakeForever ==
  /\ wpc = "take"
  /\ wpacket' = packets
  /\ WorkerGoto("loop") /\ mutex' = "none"
  /\ UNCHANGED signalled

\* A disconnected worker leaves with the mutex held.
Take ==
  /\ wpc = "take"
  /\ wpacket' = packets
  /\ IF disconnected
       THEN WorkerGoto("exited") /\ UNCHANGED mutex
       ELSE WorkerGoto("loop") /\ mutex' = "none"
  /\ UNCHANGED signalled

LoopEnds ==
  /\ wpc = "loop" /\ wpacket = NULL
  /\ WorkerGoto("lock")
  /\ UNCHANGED <<list, wpacket, wnext, handled, fault>>

\* packet->_next; an uninitialised one may also happen to be NULL.
LoadNext ==
  /\ wpc = "loop" /\ wpacket # NULL
  /\ fault' = ~Valid(wpacket)
  /\ IF Valid(wpacket)
       THEN wnext' \in {next[wpacket]} \cup
                         (IF next[wpacket] = Wild THEN {NULL} ELSE {})
       ELSE wnext' = Wild
  /\ WorkerGoto("advance")
  /\ UNCHANGED <<list, wpacket, handled>>

\* Mutant: the packet stays on the list.
MutAdvance ==
  /\ wpc = "advance"
  /\ WorkerGoto("tail")
  /\ UNCHANGED <<list, wpacket, wnext, handled, fault>>

Advance ==
  /\ wpc = "advance"
  /\ packets' = wnext
  /\ WorkerGoto("tail")
  /\ UNCHANGED <<last, next, wpacket, wnext, handled, fault>>

TestTail ==
  /\ wpc = "tail"
  /\ WorkerGoto(IF packets = NULL THEN "clear_last" ELSE "handle")
  /\ UNCHANGED <<list, wpacket, wnext, handled, fault>>

ClearLast ==
  /\ wpc = "clear_last"
  /\ last' = NULL
  /\ WorkerGoto("handle")
  /\ UNCHANGED <<packets, next, wpacket, wnext, handled, fault>>

Handle ==
  /\ wpc = "handle"
  /\ handled' = Append(handled, wpacket)
  /\ fault' = ~Valid(wpacket)
  /\ WorkerGoto("next")
  /\ UNCHANGED <<list, wpacket, wnext>>

NextPacket ==
  /\ wpc = "next"
  /\ wpacket' = packets
  /\ WorkerGoto("loop")
  /\ UNCHANGED <<list, wnext, handled, fault>>

-----------------------------------------------------------------------------
\* What each part of the two threads leaves alone.
Check ==
  /\ Read \/ EventLock \/ ReadPacket \/ ReadFails \/ CheckUnlock \/ Signal
  /\ UNCHANGED <<list, freed, client, peer, patient, worker, handled, fault>>

Link ==
  /\ TestPackets \/ SetLast \/ SetPackets \/ AppendToLast \/ Terminate
  /\ UNCHANGED <<heap, client, mutex, signalled, conn, epacket, worker, handled>>

Closing ==
  /\ Close \/ CloseFirst \/ CloseFree \/ Disconnect \/ Join
  /\ UNCHANGED <<list, received, conn, worker, handled>>

Waiting ==
  /\ WorkerLock \/ Test \/ Wake \/ Take
  /\ UNCHANGED <<list, heap, client, conn, event, wnext, handled, fault>>

Walk ==
  /\ \/ LoopEnds \/ LoadNext \/ Advance \/ TestTail \/ ClearLast \/ Handle
     \/ NextPacket
  /\ UNCHANGED <<heap, client, mutex, signalled, conn, event>>

EventThread == Check \/ Link \/ Closing

WorkerThread == Waiting \/ Walk

Spurious ==
  SpuriousWake
    /\ UNCHANGED <<list, heap, client, conn, event, wnext, handled, fault>>

\* A program that has followed an invalid pointer has no further behaviour to
\* model.
Next ==
  /\ ~fault
  /\ PeerSends \/ PeerCloses \/ EventThread \/ WorkerThread \/ Spurious

Spec == Init /\ [][Next]_vars

\* Both threads keep running; neither needs the mutex to be fair, since the
\* other gives it up and waits.
FairSpec == Spec /\ WF_vars(EventThread) /\ WF_vars(WorkerThread)

-----------------------------------------------------------------------------
(***************************************************************************)
(* Properties.                                                             *)
(***************************************************************************)

\* Every field keeps its type; in particular a packet is freed once it has been
\* allocated, and no more packets are in flight than the peer has sent.
TypeOK ==
  /\ packets \in Pointer /\ last \in Pointer
  /\ next \in [Packet -> Pointer]
  /\ received \in 0 .. MaxPackets /\ freed \subseteq 1 .. received
  /\ disconnected \in BOOLEAN /\ data \in {"live", "freed"}
  /\ mutex \in {"none", "event", "worker"}
  /\ signalled \in BOOLEAN
  /\ sock \in 0 .. MaxPackets /\ inbuf \in 0 .. MaxPackets
  /\ peer \in {"open", "closed"} /\ patient \in BOOLEAN
  /\ epc \in {"poll", "check_lock", "check", "link", "first_last",
              "first_packets", "append", "append_last", "terminate", "signal",
              "close", "close_lock", "close_first", "close_free", "join",
              "closed"}
  /\ epacket \in Pointer
  /\ wpc \in {"lock", "test", "wait", "take", "loop", "advance", "tail",
              "clear_last", "handle", "next", "exited"}
  /\ wpacket \in Pointer /\ wnext \in Pointer
  /\ handled \in Seq(Packet)
  /\ fault \in BOOLEAN

\* Packets are handled in the order they arrived and none of them twice,
\* although the worker takes them off the list without the mutex.
HandledInOrder ==
  \A i, j \in 1 .. Len(handled) : i < j => handled[i] < handled[j]

\* The worker never touches client_data after excom_server_client_close has
\* freed it: the join comes first, on every path.
WorkerGoneBeforeFree == data = "freed" => wpc = "exited"

\* A worker that waits has been woken for every packet on the list: the event
\* thread is still on its way to the signal, or the signal has been sent.
NoLostWakeup ==
  wpc = "wait" /\ packets # NULL =>
    signalled \/ mutex = "event" \/ epc = "signal"

\* The inductive invariant of the two: who holds the mutex.  A worker that has
\* exited holds it for good.
WakeupInv ==
  /\ epc \in {"check", "link", "first_last", "first_packets", "append",
              "append_last", "terminate", "close_first", "close_free"}
       => mutex = "event"
  /\ wpc \in {"test", "take", "exited"} => mutex = "worker"
  /\ NoLostWakeup
  /\ WorkerGoneBeforeFree

\* What the unlocked list is good for: as long as check_packet and close run only
\* while the worker waits, neither thread follows a link that is not set, NULL or
\* freed, whatever the condition wakes the worker for.
PatientSafe == patient => ~fault

\* ... and every packet is handled.
PatientHandled ==
  \A p \in Packet :
    (patient /\ received >= p) ~> \E i \in DOMAIN handled : handled[i] = p

\* A close that finds the worker waiting ends: the broadcast wakes the worker,
\* which sees disconnected and exits, and the join returns.
CloseOfWaitingEnds ==
  (epc = "join" /\ wpc = "wait" /\ signalled) ~> (data = "freed")

-----------------------------------------------------------------------------
(***************************************************************************)
(* What the repository says of the server and the code does not keep to.   *)
(***************************************************************************)

\* protocol.h:49: "packets can be sent back and forth normally": while the
\* peer stays connected, every packet that was linked into the list is handled.
EveryPacketHandled ==
  \A p \in Packet :
    (received >= p) ~>
      (peer = "closed" \/ fault \/ \E i \in DOMAIN handled : handled[i] = p)

\* event.h:203: the loop can be stopped from anywhere, so it gets out of every
\* close and back to the test of its loop flag.
CloseEnds == disconnected ~> (data = "freed" \/ fault)
=============================================================================
