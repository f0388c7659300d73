------------------------- MODULE ServerClientProofs -------------------------
(***************************************************************************)
(* Proofs about ServerClient: however many packets arrive, the worker is   *)
(* never left waiting on a packet without a wakeup, it is gone before      *)
(* client_data is freed, it handles packets in order, and a peer that      *)
(* waits for it meets no invalid pointer.                                  *)
(***************************************************************************)
EXTENDS ServerClient, TLAPS

\* Every step of the peer, the event thread and the worker keeps WakeupInv.
LEMMA WakeupStep == WakeupInv /\ [Next]_vars => WakeupInv'
<1> SUFFICES ASSUME WakeupInv, [Next]_vars PROVE WakeupInv'
  OBVIOUS
<1> USE DEF WakeupInv, NoLostWakeup, WorkerGoneBeforeFree, list, heap, client,
            conn, event, worker
<1>1. CASE PeerSends
  BY <1>1 DEF PeerSends
<1>2. CASE PeerCloses
  BY <1>2 DEF PeerCloses
<1>3. CASE Check
  <2>1. CASE Read
    BY <1>3, <2>1 DEF Check, Read, EventGoto
  <2>2. CASE EventLock
    BY <1>3, <2>2 DEF Check, EventLock, EventGoto
  <2>3. CASE ReadPacket
    BY <1>3, <2>3 DEF Check, ReadPacket, EventGoto
  <2>4. CASE CheckUnlock \/ ReadFails
    BY <1>3, <2>4 DEF Check, CheckUnlock, ReadFails, EventGoto
  <2>5. CASE Signal
    BY <1>3, <2>5 DEF Check, Signal, EventGoto
  <2>6. QED
    BY <1>3, <2>1, <2>2, <2>3, <2>4, <2>5 DEF Check
<1>4. CASE Link
  <2>1. CASE TestPackets
    BY <1>4, <2>1 DEF Link, TestPackets, EventGoto
  <2>2. CASE SetLast
    BY <1>4, <2>2 DEF Link, SetLast, EventGoto
  <2>3. CASE SetPackets
    BY <1>4, <2>3 DEF Link, SetPackets, EventGoto
  <2>4. CASE AppendToLast
    BY <1>4, <2>4 DEF Link, AppendToLast, EventGoto
  <2>5. CASE Terminate
    BY <1>4, <2>5 DEF Link, Terminate, EventGoto
  <2>6. QED
    BY <1>4, <2>1, <2>2, <2>3, <2>4, <2>5 DEF Link
<1>5. CASE Closing
  <2>1. CASE Close
    BY <1>5, <2>1 DEF Closing, Close, EventGoto
  <2>2. CASE CloseFirst
    BY <1>5, <2>2 DEF Closing, CloseFirst, EventGoto
  <2>3. CASE CloseFree
    BY <1>5, <2>3 DEF Closing, CloseFree, EventGoto
  <2>4. CASE Disconnect
    BY <1>5, <2>4 DEF Closing, Disconnect, EventGoto
  <2>5. CASE Join
    BY <1>5, <2>5 DEF Closing, Join, EventGoto
  <2>6. QED
    BY <1>5, <2>1, <2>2, <2>3, <2>4, <2>5 DEF Closing
<1>6. CASE Waiting
  <2>1. CASE WorkerLock
    BY <1>6, <2>1 DEF Waiting, WorkerLock, WorkerGoto
  <2>2. CASE Test
    BY <1>6, <2>2 DEF Waiting, Test, WorkerGoto
  <2>3. CASE Wake
    BY <1>6, <2>3 DEF Waiting, Wake, WorkerGoto
  <2>4. CASE Take
    BY <1>6, <2>4 DEF Waiting, Take, WorkerGoto
  <2>5. QED
    BY <1>6, <2>1, <2>2, <2>3, <2>4 DEF Waiting
<1>7. CASE Walk
  <2>1. CASE LoopEnds
    BY <1>7, <2>1 DEF Walk, LoopEnds, WorkerGoto
  <2>2. CASE LoadNext
    BY <1>7, <2>2 DEF Walk, LoadNext, WorkerGoto
  <2>3. CASE Advance
    BY <1>7, <2>3 DEF Walk, Advance, WorkerGoto
  <2>4. CASE TestTail
    BY <1>7, <2>4 DEF Walk, TestTail, WorkerGoto
  <2>5. CASE ClearLast
    BY <1>7, <2>5 DEF Walk, ClearLast, WorkerGoto
  <2>6. CASE Handle
    BY <1>7, <2>6 DEF Walk, Handle, WorkerGoto
  <2>7. CASE NextPacket
    BY <1>7, <2>7 DEF Walk, NextPacket, WorkerGoto
  <2>8. QED
    BY <1>7, <2>1, <2>2, <2>3, <2>4, <2>5, <2>6, <2>7 DEF Walk
<1>8. CASE Spurious
  BY <1>8 DEF Spurious, SpuriousWake, WorkerGoto
<1>9. CASE UNCHANGED vars
  BY <1>9 DEF vars
<1>10. QED
  BY <1>1, <1>2, <1>3, <1>4, <1>5, <1>6, <1>7, <1>8, <1>9 DEF Next,
     EventThread, WorkerThread

\* Who holds client_data->mutex at each step of the two threads, and what follows
\* for the wakeups and the free.
THEOREM WakeupInvariant == Spec => []WakeupInv
<1>1. Init => WakeupInv
  BY DEF Init, WakeupInv, NoLostWakeup, WorkerGoneBeforeFree
<1>2. QED
  BY <1>1, WakeupStep, PTL DEF Spec

\* check_packet signals the condition after every packet it links, and the
\* worker tests the list with the mutex held, so a worker in excom_cond_wait
\* has a wakeup coming for whatever is on the list; and
\* excom_server_client_close frees client_data only once the worker is gone.
THEOREM WakeupsReachTheWorker ==
  Spec => [](NoLostWakeup /\ WorkerGoneBeforeFree)
<1>1. WakeupInv => NoLostWakeup /\ WorkerGoneBeforeFree
  BY DEF WakeupInv
<1>2. QED
  BY <1>1, WakeupInvariant, PTL

\* The join in excom_server_client_close comes before the free on every path:
\* worker never has client_data freed under it.
THEOREM WorkerOutlivedByData == Spec => []WorkerGoneBeforeFree
  BY WakeupsReachTheWorker, PTL
-----------------------------------------------------------------------------
(***************************************************************************)
(* The type invariant and the order in which packets are handled.          *)
(***************************************************************************)

\* A pointer to a packet that has been allocated, or none.
IsLink(p) == p \in 1 .. received \cup {NULL, Wild}

\* Every pointer is to a packet that has been allocated.
Bounded ==
  /\ sock + inbuf + received <= MaxPackets
  /\ IsLink(packets) /\ IsLink(last) /\ IsLink(wpacket) /\ IsLink(wnext)
  /\ \A p \in Packet : IsLink(next[p])
  /\ \A i \in 1 .. Len(handled) : handled[i] <= received

\* The packet that check_packet is linking is the newest, and until it is linked
\* nothing refers to it.
Fresh ==
  /\ epc \in {"link", "first_last", "first_packets", "append", "append_last",
              "terminate"} => received > 0 /\ epacket = received
  /\ epc \in {"link", "first_last", "first_packets", "append"} =>
       /\ packets # received /\ wpacket # received /\ wnext # received
       /\ \A p \in Packet : next[p] # received
       /\ \A i \in 1 .. Len(handled) : handled[i] # received
  /\ epc \in {"link", "first_last", "append"} => last # received

\* A worker that has got past the load of _next has a packet.
HasPacket ==
  wpc \in {"advance", "tail", "clear_last", "handle", "next"} /\ ~fault =>
    wpacket \in 1 .. received

\* The inductive invariant behind the types: handled is a sequence of packets only
\* because nothing but a packet gets past the load of _next.
TypeInv == TypeOK /\ Bounded /\ Fresh /\ HasPacket

\* Every step keeps the types and what the pointers may refer to.
LEMMA TypeStep == TypeInv /\ [Next]_vars => TypeInv'
<1> SUFFICES ASSUME TypeInv, ~fault, [Next]_vars PROVE TypeInv'
  <2>1. CASE fault /\ Next
    BY <2>1 DEF Next
  <2>2. CASE UNCHANGED vars
    BY <2>2 DEF vars, TypeInv, TypeOK, Bounded, Fresh, HasPacket, IsLink,
       list, heap, client, conn, event, worker
  <2>3. QED
    BY <2>1, <2>2
<1> USE PacketsAssumption, PointerAssumption DEF TypeInv, TypeOK, Bounded,
   Fresh, HasPacket, IsLink, Pointer, Packet, Valid, list, heap, client,
   conn, event, worker
<1>1. CASE PeerSends
  BY <1>1 DEF PeerSends, Quiet
<1>2. CASE PeerCloses
  BY <1>2 DEF PeerCloses, Quiet
<1>3. CASE Check
  <2>1. CASE Read
    BY <1>3, <2>1 DEF Check, Read, EventGoto
  <2>2. CASE EventLock
    BY <1>3, <2>2 DEF Check, EventLock, EventGoto
  <2>3. CASE ReadPacket
    <3> USE <1>3, <2>3 DEF Check, ReadPacket, EventGoto
    <3>1. TypeOK'
      OBVIOUS
    <3>2. Bounded'
      OBVIOUS
    <3>3. Fresh'
      OBVIOUS
    <3>4. HasPacket'
      OBVIOUS
    <3>5. QED
      BY <3>1, <3>2, <3>3, <3>4
  <2>4. CASE CheckUnlock \/ ReadFails
    BY <1>3, <2>4 DEF Check, CheckUnlock, ReadFails, EventGoto
  <2>5. CASE Signal
    BY <1>3, <2>5 DEF Check, Signal, EventGoto
  <2>6. QED
    BY <1>3, <2>1, <2>2, <2>3, <2>4, <2>5 DEF Check
<1>4. CASE Link
  <2>1. CASE TestPackets
    BY <1>4, <2>1 DEF Link, TestPackets, EventGoto
  <2>2. CASE SetLast
    BY <1>4, <2>2 DEF Link, SetLast, EventGoto
  <2>3. CASE SetPackets
    BY <1>4, <2>3 DEF Link, SetPackets, EventGoto
  <2>4. CASE AppendToLast
    <3> USE <1>4, <2>4 DEF Link, AppendToLast, EventGoto
    <3>1. TypeOK'
      OBVIOUS
    <3>2. Bounded'
      OBVIOUS
    <3>3. Fresh'
      OBVIOUS
    <3>4. HasPacket'
      OBVIOUS
    <3>5. QED
      BY <3>1, <3>2, <3>3, <3>4
  <2>5. CASE Terminate
    BY <1>4, <2>5 DEF Link, Terminate, EventGoto
  <2>6. QED
    BY <1>4, <2>1, <2>2, <2>3, <2>4, <2>5 DEF Link
<1>5. CASE Closing
  <2>1. CASE Close
    BY <1>5, <2>1 DEF Closing, Close, EventGoto
  <2>2. CASE CloseFirst
    BY <1>5, <2>2 DEF Closing, CloseFirst, EventGoto
  <2>3. CASE CloseFree
    <3> USE <1>5, <2>3 DEF Closing, CloseFree, EventGoto
    <3>1. TypeOK'
      <4>1. (epacket \in Pointer)'
        OBVIOUS
      <4>2. freed' \subseteq 1 .. received
        OBVIOUS
      <4>4. (fault \in BOOLEAN)'
        BY Zenon
      <4>5. QED
        BY <4>1, <4>2, <4>4
    <3>2. Bounded'
      OBVIOUS
    <3>3. Fresh'
      OBVIOUS
    <3>4. HasPacket'
      OBVIOUS
    <3>5. QED
      BY <3>1, <3>2, <3>3, <3>4
  <2>4. CASE Disconnect
    BY <1>5, <2>4 DEF Closing, Disconnect, EventGoto
  <2>5. CASE Join
    BY <1>5, <2>5 DEF Closing, Join, EventGoto
  <2>6. QED
    BY <1>5, <2>1, <2>2, <2>3, <2>4, <2>5 DEF Closing
<1>6. CASE Waiting
  <2>1. CASE WorkerLock
    BY <1>6, <2>1 DEF Waiting, WorkerLock, WorkerGoto
  <2>2. CASE Test
    BY <1>6, <2>2 DEF Waiting, Test, WorkerGoto
  <2>3. CASE Wake
    <3> USE <1>6, <2>3 DEF Waiting, Wake, WorkerGoto
    <3>1. TypeOK'
      <4>1. (signalled \in BOOLEAN)'
        BY Zenon
      <4>2. QED
        BY <4>1
    <3>2. Bounded'
      OBVIOUS
    <3>3. Fresh'
      OBVIOUS
    <3>4. HasPacket'
      OBVIOUS
    <3>5. QED
      BY <3>1, <3>2, <3>3, <3>4
  <2>4. CASE Take
    BY <1>6, <2>4 DEF Waiting, Take, WorkerGoto
  <2>5. QED
    BY <1>6, <2>1, <2>2, <2>3, <2>4 DEF Waiting
<1>7. CASE Walk
  <2>1. CASE LoopEnds
    BY <1>7, <2>1 DEF Walk, LoopEnds, WorkerGoto
  <2>2. CASE LoadNext
    <3> USE <1>7, <2>2 DEF Walk, LoadNext, WorkerGoto
    <3>1. TypeOK'
      OBVIOUS
    <3>2. Bounded'
      OBVIOUS
    <3>3. Fresh'
      OBVIOUS
    <3>4. HasPacket'
      OBVIOUS
    <3>5. QED
      BY <3>1, <3>2, <3>3, <3>4
  <2>3. CASE Advance
    BY <1>7, <2>3 DEF Walk, Advance, WorkerGoto
  <2>4. CASE TestTail
    BY <1>7, <2>4 DEF Walk, TestTail, WorkerGoto
  <2>5. CASE ClearLast
    BY <1>7, <2>5 DEF Walk, ClearLast, WorkerGoto
  <2>6. CASE Handle
    <3> USE <1>7, <2>6 DEF Walk, Handle, WorkerGoto
    <3>1. TypeOK'
      <4>1. wpacket \in Packet
        OBVIOUS
      <4>2. (handled \in Seq(Packet))'
        BY <4>1
      <4>3. (fault \in BOOLEAN)'
        OBVIOUS
      <4>4. QED
        BY <4>2, <4>3
    <3>2. Bounded'
      OBVIOUS
    <3>3. Fresh'
      OBVIOUS
    <3>4. HasPacket'
      OBVIOUS
    <3>5. QED
      BY <3>1, <3>2, <3>3, <3>4
  <2>7. CASE NextPacket
    BY <1>7, <2>7 DEF Walk, NextPacket, WorkerGoto
  <2>8. QED
    BY <1>7, <2>1, <2>2, <2>3, <2>4, <2>5, <2>6, <2>7 DEF Walk
<1>8. CASE Spurious
  BY <1>8 DEF Spurious, SpuriousWake, WorkerGoto
<1>9. CASE UNCHANGED vars
  BY <1>9 DEF vars
<1>10. QED
  BY <1>1, <1>2, <1>3, <1>4, <1>5, <1>6, <1>7, <1>8, <1>9 DEF Next,
     EventThread, WorkerThread

\* It holds from the connect on.
LEMMA TypeInvariant == Spec => []TypeInv
<1>1. Init => TypeInv
  <2> SUFFICES ASSUME Init PROVE TypeInv
    OBVIOUS
  <2>1. /\ disconnected \in BOOLEAN /\ signalled \in BOOLEAN
        /\ patient \in BOOLEAN /\ fault \in BOOLEAN
    BY Zenon DEF Init
  <2>2. TypeOK
    BY <2>1, PacketsAssumption DEF Init, TypeOK, Pointer, Packet
  <2>3. Bounded /\ Fresh /\ HasPacket
    BY PacketsAssumption, PointerAssumption DEF Init, Bounded, Fresh, HasPacket,
       IsLink, Packet
  <2>4. QED
    BY <2>2, <2>3 DEF TypeInv
<1>2. QED
  BY <1>1, TypeStep, PTL DEF Spec

\* Every field of client_data, every packet and every local variable of the two
\* threads keeps its type, although both change the list; in particular worker
\* hands no handler anything but a packet.
THEOREM TypeCorrect == Spec => []TypeOK
<1>1. TypeInv => TypeOK
  BY DEF TypeInv
<1>2. QED
  BY <1>1, TypeInvariant, PTL

\* Links lead to later packets, and so do the worker's steps along them: what is
\* handled next, and what is on the list, is newer than what has been handled.
Ascending ==
  /\ \A p \in Packet : next[p] \in Nat => p < next[p]
  /\ \A i \in 1 .. Len(handled) :
       /\ wpc \in {"lock", "test", "wait", "take", "loop", "next", "exited"} =>
            (packets \in Nat => handled[i] < packets)
       /\ wpc \in {"loop", "advance", "tail", "clear_last", "handle"} =>
            (wpacket \in Nat => handled[i] < wpacket)
  /\ wpc = "advance" /\ ~fault => (wnext \in Nat => wpacket < wnext)
  /\ wpc \in {"tail", "clear_last", "handle"} /\ ~fault =>
       (packets \in Nat => wpacket < packets)

\* Every step keeps the order, whatever the races lose.
LEMMA OrderStep ==
  TypeInv /\ Ascending /\ HandledInOrder /\ [Next]_vars
    => Ascending' /\ HandledInOrder'
<1> SUFFICES ASSUME TypeInv, Ascending, HandledInOrder, ~fault, [Next]_vars
             PROVE  Ascending' /\ HandledInOrder'
  <2>1. CASE fault /\ Next
    BY <2>1 DEF Next
  <2>2. CASE UNCHANGED vars
    BY <2>2 DEF vars, Ascending, HandledInOrder, list, worker
  <2>3. QED
    BY <2>1, <2>2
<1> USE PacketsAssumption, PointerAssumption DEF TypeInv, TypeOK, Bounded,
   Fresh, HasPacket, IsLink, Ascending, HandledInOrder, Pointer, Packet,
   Valid, list, heap, client, conn, event, worker
<1>1. CASE PeerSends
  BY <1>1 DEF PeerSends, Quiet
<1>2. CASE PeerCloses
  BY <1>2 DEF PeerCloses, Quiet
<1>3. CASE Check
  <2>1. CASE Read
    BY <1>3, <2>1 DEF Check, Read, EventGoto
  <2>2. CASE EventLock
    BY <1>3, <2>2 DEF Check, EventLock, EventGoto
  <2>3. CASE ReadPacket
    BY <1>3, <2>3 DEF Check, ReadPacket, EventGoto
  <2>4. CASE CheckUnlock \/ ReadFails
    BY <1>3, <2>4 DEF Check, CheckUnlock, ReadFails, EventGoto
  <2>5. CASE Signal
    BY <1>3, <2>5 DEF Check, Signal, EventGoto
  <2>6. QED
    BY <1>3, <2>1, <2>2, <2>3, <2>4, <2>5 DEF Check
<1>4. CASE Link
  <2>1. CASE TestPackets
    BY <1>4, <2>1 DEF Link, TestPackets, EventGoto
  <2>2. CASE SetLast
    BY <1>4, <2>2 DEF Link, SetLast, EventGoto
  <2>3. CASE SetPackets
    BY <1>4, <2>3 DEF Link, SetPackets, EventGoto
  <2>4. CASE AppendToLast
    BY <1>4, <2>4 DEF Link, AppendToLast, EventGoto
  <2>5. CASE Terminate
    BY <1>4, <2>5 DEF Link, Terminate, EventGoto
  <2>6. QED
    BY <1>4, <2>1, <2>2, <2>3, <2>4, <2>5 DEF Link
<1>5. CASE Closing
  <2>1. CASE Close
    BY <1>5, <2>1 DEF Closing, Close, EventGoto
  <2>2. CASE CloseFirst
    BY <1>5, <2>2 DEF Closing, CloseFirst, EventGoto
  <2>3. CASE CloseFree
    BY <1>5, <2>3 DEF Closing, CloseFree, EventGoto
  <2>4. CASE Disconnect
    BY <1>5, <2>4 DEF Closing, Disconnect, EventGoto
  <2>5. CASE Join
    BY <1>5, <2>5 DEF Closing, Join, EventGoto
  <2>6. QED
    BY <1>5, <2>1, <2>2, <2>3, <2>4, <2>5 DEF Closing
<1>6. CASE Waiting
  <2>1. CASE WorkerLock
    BY <1>6, <2>1 DEF Waiting, WorkerLock, WorkerGoto
  <2>2. CASE Test
    BY <1>6, <2>2 DEF Waiting, Test, WorkerGoto
  <2>3. CASE Wake
    BY <1>6, <2>3 DEF Waiting, Wake, WorkerGoto
  <2>4. CASE Take
    BY <1>6, <2>4 DEF Waiting, Take, WorkerGoto
  <2>5. QED
    BY <1>6, <2>1, <2>2, <2>3, <2>4 DEF Waiting
<1>7. CASE Walk
  <2>1. CASE LoopEnds
    BY <1>7, <2>1 DEF Walk, LoopEnds, WorkerGoto
  <2>2. CASE LoadNext
    BY <1>7, <2>2 DEF Walk, LoadNext, WorkerGoto
  <2>3. CASE Advance
    BY <1>7, <2>3 DEF Walk, Advance, WorkerGoto
  <2>4. CASE TestTail
    BY <1>7, <2>4 DEF Walk, TestTail, WorkerGoto
  <2>5. CASE ClearLast
    BY <1>7, <2>5 DEF Walk, ClearLast, WorkerGoto
  <2>6. CASE Handle
    BY <1>7, <2>6 DEF Walk, Handle, WorkerGoto
  <2>7. CASE NextPacket
    BY <1>7, <2>7 DEF Walk, NextPacket, WorkerGoto
  <2>8. QED
    BY <1>7, <2>1, <2>2, <2>3, <2>4, <2>5, <2>6, <2>7 DEF Walk
<1>8. CASE Spurious
  BY <1>8 DEF Spurious, SpuriousWake, WorkerGoto
<1>9. CASE UNCHANGED vars
  BY <1>9 DEF vars
<1>10. QED
  BY <1>1, <1>2, <1>3, <1>4, <1>5, <1>6, <1>7, <1>8, <1>9 DEF Next,
     EventThread, WorkerThread

\* worker handles packets in the order check_packet has read them in and none of
\* them twice, although it takes them off the list without the mutex: the races
\* can lose packets, and never repeat or swap them.
THEOREM PacketsHandledInOrder == Spec => []HandledInOrder
<1>1. Init => Ascending /\ HandledInOrder
  BY PointerAssumption DEF Init, Ascending, HandledInOrder, Packet
<1>2. QED
  BY <1>1, OrderStep, TypeInvariant, PTL DEF Spec

-----------------------------------------------------------------------------
(***************************************************************************)
(* A peer that sends only while the worker waits.                          *)
(***************************************************************************)

\* The list is empty and the worker has nothing in hand.
Resting ==
  /\ packets = NULL
  /\ \/ wpc \in {"lock", "test", "wait", "take", "exited"}
     \/ wpc = "loop" /\ wpacket = NULL

\* p is the newest packet, linked and with no other behind it, or none.
Alone(p) == p = NULL \/ (p = received /\ received > 0 /\ next[received] = NULL)

\* What each step of the two threads knows while the peer is patient: there is one
\* packet at a time, check_packet links it while the worker is at rest, and the
\* worker takes it off while check_packet is not running.
LoneInv ==
  /\ ~fault /\ freed = {}
  /\ sock + inbuf <= 1
  /\ sock = 1 => epc = "poll" /\ peer = "open" /\ Resting
  /\ inbuf = 1 => epc \in {"check_lock", "check"} /\ Resting
  /\ peer = "closed" => sock = 0 /\ inbuf = 0 /\ Resting
  /\ epc \notin {"append", "append_last"}
  /\ epc = "check_lock" => inbuf = 1
  /\ epc \in {"check_lock", "check", "link", "first_last", "first_packets",
              "terminate", "signal"} => peer = "open"
  /\ epc \in {"close", "close_lock", "close_first", "close_free", "join",
              "closed"} => peer = "closed"
  /\ epc = "close_free" => epacket = NULL
  /\ epc \in {"link", "first_last", "first_packets"} => Resting
  /\ epc = "terminate" => packets = received
  /\ epc \in {"terminate", "check"} =>
       wpc \in {"wait", "lock"} \/ (wpc = "loop" /\ wpacket = NULL)
  /\ epc \in {"check", "signal", "poll"} => Alone(packets)
  /\ wpc = "loop" => Alone(wpacket)
  /\ wpc \in {"advance", "tail", "clear_last", "handle", "next"} =>
       wpacket = received /\ received > 0 /\ epc \in {"signal", "poll"}
  /\ wpc = "advance" => wnext = NULL
  /\ wpc \in {"tail", "clear_last", "handle", "next"} => packets = NULL

PatientInv == patient => LoneInv

\* The kind of peer does not change.
LEMMA PatientFixed == [Next]_vars => (patient' <=> patient)
  BY DEF vars, conn, Next, PeerSends, PeerCloses, EventThread, WorkerThread,
         Check, Link, Closing, Waiting, Walk, Spurious

\* Every step keeps LoneInv, which needs the mutex (WakeupInv) while the packet is
\* being linked.
LEMMA PatientStep ==
  TypeInv /\ WakeupInv /\ PatientInv /\ [Next]_vars => PatientInv'
<1> SUFFICES ASSUME TypeInv, WakeupInv, patient, LoneInv, [Next]_vars
             PROVE  LoneInv'
  BY PatientFixed DEF PatientInv
<1> USE PacketsAssumption, PointerAssumption DEF TypeInv, TypeOK, Bounded,
   Fresh, HasPacket, IsLink, WakeupInv, LoneInv, Resting, Alone, Pointer,
   Packet, Valid, list, heap, client, conn, event, worker
<1>1. CASE PeerSends
  BY <1>1 DEF PeerSends, Quiet
<1>2. CASE PeerCloses
  BY <1>2 DEF PeerCloses, Quiet
<1>3. CASE Check
  <2>1. CASE Read
    BY <1>3, <2>1 DEF Check, Read, EventGoto
  <2>2. CASE EventLock
    BY <1>3, <2>2 DEF Check, EventLock, EventGoto
  <2>3. CASE ReadPacket
    BY <1>3, <2>3 DEF Check, ReadPacket, EventGoto
  <2>4. CASE CheckUnlock \/ ReadFails
    BY <1>3, <2>4 DEF Check, CheckUnlock, ReadFails, EventGoto
  <2>5. CASE Signal
    BY <1>3, <2>5 DEF Check, Signal, EventGoto
  <2>6. QED
    BY <1>3, <2>1, <2>2, <2>3, <2>4, <2>5 DEF Check
<1>4. CASE Link
  <2>1. CASE TestPackets
    BY <1>4, <2>1 DEF Link, TestPackets, EventGoto
  <2>2. CASE SetLast
    BY <1>4, <2>2 DEF Link, SetLast, EventGoto
  <2>3. CASE SetPackets
    BY <1>4, <2>3 DEF Link, SetPackets, EventGoto
  <2>4. CASE AppendToLast
    BY <1>4, <2>4 DEF Link, AppendToLast, EventGoto
  <2>5. CASE Terminate
    BY <1>4, <2>5 DEF Link, Terminate, EventGoto
  <2>6. QED
    BY <1>4, <2>1, <2>2, <2>3, <2>4, <2>5 DEF Link
<1>5. CASE Closing
  <2>1. CASE Close
    BY <1>5, <2>1 DEF Closing, Close, EventGoto
  <2>2. CASE CloseFirst
    BY <1>5, <2>2 DEF Closing, CloseFirst, EventGoto
  <2>3. CASE CloseFree
    BY <1>5, <2>3 DEF Closing, CloseFree, EventGoto
  <2>4. CASE Disconnect
    BY <1>5, <2>4 DEF Closing, Disconnect, EventGoto
  <2>5. CASE Join
    BY <1>5, <2>5 DEF Closing, Join, EventGoto
  <2>6. QED
    BY <1>5, <2>1, <2>2, <2>3, <2>4, <2>5 DEF Closing
<1>6. CASE Waiting
  <2>1. CASE WorkerLock
    BY <1>6, <2>1 DEF Waiting, WorkerLock, WorkerGoto
  <2>2. CASE Test
    BY <1>6, <2>2 DEF Waiting, Test, WorkerGoto
  <2>3. CASE Wake
    BY <1>6, <2>3 DEF Waiting, Wake, WorkerGoto
  <2>4. CASE Take
    BY <1>6, <2>4 DEF Waiting, Take, WorkerGoto
  <2>5. QED
    BY <1>6, <2>1, <2>2, <2>3, <2>4 DEF Waiting
<1>7. CASE Walk
  <2>1. CASE LoopEnds
    BY <1>7, <2>1 DEF Walk, LoopEnds, WorkerGoto
  <2>2. CASE LoadNext
    BY <1>7, <2>2 DEF Walk, LoadNext, WorkerGoto
  <2>3. CASE Advance
    BY <1>7, <2>3 DEF Walk, Advance, WorkerGoto
  <2>4. CASE TestTail
    BY <1>7, <2>4 DEF Walk, TestTail, WorkerGoto
  <2>5. CASE ClearLast
    BY <1>7, <2>5 DEF Walk, ClearLast, WorkerGoto
  <2>6. CASE Handle
    BY <1>7, <2>6 DEF Walk, Handle, WorkerGoto
  <2>7. CASE NextPacket
    BY <1>7, <2>7 DEF Walk, NextPacket, WorkerGoto
  <2>8. QED
    BY <1>7, <2>1, <2>2, <2>3, <2>4, <2>5, <2>6, <2>7 DEF Walk
<1>8. CASE Spurious
  BY <1>8 DEF Spurious, SpuriousWake, WorkerGoto
<1>9. CASE UNCHANGED vars
  BY <1>9 DEF vars
<1>10. QED
  BY <1>1, <1>2, <1>3, <1>4, <1>5, <1>6, <1>7, <1>8, <1>9 DEF Next,
     EventThread, WorkerThread

\* As long as check_packet and excom_server_client_close run only while worker
\* waits, neither thread follows a link that is not set, is NULL or leads to a
\* freed packet, for any number of packets and any spurious wakeups.
THEOREM PatientPeerIsSafe == Spec => []PatientSafe
<1>1. Init => PatientInv
  BY PointerAssumption DEF Init, PatientInv, LoneInv, Resting, Alone
<1>2. PatientInv => PatientSafe
  BY DEF PatientInv, LoneInv, PatientSafe
<1>3. QED
  BY <1>1, <1>2, PatientStep, TypeInvariant, WakeupInvariant, PTL DEF Spec
=============================================================================
