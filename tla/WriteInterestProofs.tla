------------------------- MODULE WriteInterestProofs -------------------------
(***************************************************************************)
(* Proofs about WriteInterest: its type invariant whatever the peer does,  *)
(* and, for a patient peer, which waits for each reply and whose connection *)
(* takes a reply whole, that no reply is stranded in buf.out.              *)
(***************************************************************************)
EXTENDS WriteInterest, TLAPS

\* Every step of either thread keeps the types.
LEMMA TypeStep == TypeOK /\ [Next]_vars => TypeOK'
<1> SUFFICES ASSUME TypeOK, [Next]_vars PROVE TypeOK'
  OBVIOUS
<1> USE BoundAssumption, PeerAssumption DEF TypeOK
<1>1. CASE ReadEvent
  BY <1>1 DEF ReadEvent
<1>2. CASE \E n \in 0 .. out : Written(n)
  <2>1. PICK n \in 0 .. out : Written(n)
    BY <1>2
  <2>2. out - n \in Nat
    OBVIOUS
  <2>3. QED
    BY <2>1, <2>2 DEF Written
<1>3. CASE NotWritten
  BY <1>3 DEF NotWritten
<1>4. CASE EventHandler
  BY <1>4 DEF EventHandler, LoadFlags, StoreFlags, SetFlags, EventUpdate,
     EventCtl
<1>5. CASE Handle
  <2>1. queue - 1 \in Nat /\ out + ReplySize \in Nat
    BY <1>5 DEF Handle
  <2>2. QED
    BY <1>5, <2>1 DEF Handle
<1>6. CASE WorkerSet \/ WorkerUpdate \/ WorkerCtl
  BY <1>6 DEF WorkerSet, WorkerUpdate, WorkerCtl
<1>7. CASE UNCHANGED vars
  BY <1>7 DEF vars
<1>8. QED
  BY <1>1, <1>2, <1>3, <1>4, <1>5, <1>6, <1>7 DEF Next, WriteEvent, WorkerThread

\* The initial state has the types.
LEMMA InitTyped == Init => TypeOK
<1> SUFFICES ASSUME Init PROVE TypeOK
  OBVIOUS
<1>1. arrived \in 0 .. MaxPackets /\ queue \in Nat /\ out \in Nat
  BY BoundAssumption DEF Init
<1>2. QED
  BY <1>1, Zenon DEF Init, TypeOK

\* The flags, the counters and the places of both threads keep their types
\* under every interleaving of excom_server_client_write and worker.
THEOREM TypeCorrect == Spec => []TypeOK
<1>1. Init => TypeOK
  BY InitTyped
<1>2. QED
  BY <1>1, TypeStep, PTL DEF Spec

-----------------------------------------------------------------------------
\* Every step of a connection to a patient peer keeps LockStepInv.
LEMMA LockStepStep ==
  ASSUME TypeOK, Patient, LockStepInv, [Next]_vars
  PROVE  LockStepInv'
<1>t. TypeOK'
  BY TypeStep
<1>p. peer.lockstep /\ peer.whole
  BY DEF Patient
<1> USE BoundAssumption DEF LockStepInv
<1>1. CASE ReadEvent
  BY <1>1, <1>t, <1>p DEF ReadEvent, TypeOK
<1>2. CASE \E n \in 0 .. out : Written(n)
  <2>1. PICK n \in 0 .. out : Written(n)
    BY <1>2
  <2>2. out' = 0 /\ interest /\ epc = "poll"
    BY <2>1, <1>p DEF Written, TypeOK
  <2>3. QED
    BY <2>1, <2>2, <1>t DEF Written, TypeOK
<1>3. CASE NotWritten
  <2>1. CASE epc' = "set"
    BY <1>3, <2>1, <1>t DEF NotWritten, TypeOK
  <2>2. CASE epc' = "poll"
    BY <1>3, <2>2, <1>t DEF NotWritten, TypeOK
  <2>3. QED
    BY <1>3, <2>1, <2>2 DEF NotWritten
<1>4. CASE LoadFlags
  BY <1>4, <1>t DEF LoadFlags, TypeOK
<1>5. CASE StoreFlags
  <2>1. ~flags' /\ out = 0
    BY <1>5, Zenon DEF StoreFlags, TypeOK
  <2>2. /\ epc = "store" /\ epc' = "update"
        /\ UNCHANGED <<interest, arrived, queue, out, eflags, earg, wpc, warg>>
    BY <1>5 DEF StoreFlags
  <2>3. QED
    BY <2>1, <2>2, <1>t DEF TypeOK
<1>6. CASE SetFlags
  BY <1>6, <1>t DEF SetFlags, TypeOK
<1>7. CASE EventUpdate
  BY <1>7, <1>t DEF EventUpdate, TypeOK
<1>8. CASE EventCtl
  BY <1>8, <1>t DEF EventCtl, TypeOK
<1>9. CASE Handle
  BY <1>9, <1>t, <1>p DEF Handle, TypeOK
<1>10. CASE WorkerSet
  BY <1>10, <1>t DEF WorkerSet, TypeOK
<1>11. CASE WorkerUpdate
  BY <1>11, <1>t DEF WorkerUpdate, TypeOK
<1>12. CASE WorkerCtl
  BY <1>12, <1>t DEF WorkerCtl, TypeOK
<1>13. CASE UNCHANGED vars
  BY <1>13, <1>t DEF vars, TypeOK
<1>14. QED
  BY <1>1, <1>2, <1>3, <1>4, <1>5, <1>6, <1>7, <1>8, <1>9, <1>10, <1>11,
     <1>12, <1>13 DEF Next, WriteEvent, EventHandler, WorkerThread

\* A peer does not change.
LEMMA PeerStep == [Next]_vars => peer' = peer
  BY DEF Next, vars, WriteEvent, EventHandler, WorkerThread, ReadEvent, Written,
     NotWritten, LoadFlags, StoreFlags, SetFlags, EventUpdate, EventCtl, Handle,
     WorkerSet, WorkerUpdate, WorkerCtl

\* What every step of either thread knows about the flag, the interest and buf.out
\* while the peer is patient.
THEOREM PatientInvariant == Spec => []PatientInv
<1>1. Init => PatientInv
  <2> SUFFICES ASSUME Init PROVE LockStepInv
    BY InitTyped DEF PatientInv
  <2>1. QED
    BY DEF Init, LockStepInv
<1>2. PatientInv /\ [Next]_vars => PatientInv'
  <2> SUFFICES ASSUME PatientInv, [Next]_vars PROVE PatientInv'
    OBVIOUS
  <2>1. TypeOK'
    BY TypeStep DEF PatientInv
  <2>2. Patient' <=> Patient
    BY PeerStep DEF Patient
  <2>3. Patient => LockStepInv'
    BY LockStepStep DEF PatientInv
  <2>4. QED
    BY <2>1, <2>2, <2>3 DEF PatientInv
<1>3. QED
  BY <1>1, <1>2, PTL DEF Spec

\* With a patient peer, the unlocked updates of client->event.flags by the two
\* threads never overlap, and whenever both threads are idle a reply in buf.out
\* has epoll watching for its write.
THEOREM PatientPeerNeverStranded == Spec => [](TogglesAlone /\ NeverStranded)
<1>1. PatientInv => TogglesAlone /\ NeverStranded
  BY DEF PatientInv, LockStepInv, TogglesAlone, NeverStranded
<1>2. QED
  BY <1>1, PatientInvariant, PTL

\* The load and store of flags ^= WRITE in the event thread and flags |= WRITE in
\* worker never overlap when the peer is patient.
THEOREM FlagsChangedAlone == Spec => []TogglesAlone
  BY PatientPeerNeverStranded, PTL
=============================================================================
