-------------------------- MODULE PollTableProofs ---------------------------
(***************************************************************************)
(* Proofs about PollTable, for any events and any initial size: the table  *)
(* has room for every event, holds exactly the registered ones until a     *)
(* remove moves a part of it, and the loop stays inside it unless a runner *)
(* removes two events in one call.                                         *)
(***************************************************************************)
EXTENDS PollTable, FiniteSetTheorems, TLAPS

\* A slot of fds and events.
Slot == [ev : Event \cup {NULL}, write : BOOLEAN, revents : BOOLEAN]

\* A destroyed table has no events, and no slots.
Gone == fault = "none" /\ lpc = "destroyed" => nfds = 0 /\ registered = {}

\* The slot that the loop will write to when the runner returns: one remove takes
\* the event at most out of the used slots, never out of the table.
SlotStays ==
  fault = "none" /\ ~moved /\ ~hasty /\ lpc = "run" =>
    i < max /\ (~once => i < nfds)

\* The inductive invariant.
TableInv ==
  /\ TypeOK /\ TableExact /\ SafeRun
  /\ Gone /\ SlotStays

-----------------------------------------------------------------------------
\* What the invariant gives while nothing has gone wrong: the used slots are slots,
\* and the slot of a registered event is one of them, if no part has moved.
LEMMA UsedSlots ==
  ASSUME TableInv, fault = "none"
  PROVE  /\ nfds \in Nat /\ max \in Nat /\ nfds <= max
         /\ lpc # "destroyed" => max > 0
         /\ DOMAIN table = 0 .. max - 1
         /\ \A k \in 0 .. max - 1 : table[k] \in Slot
         /\ \A k \in 0 .. nfds - 1 : k \in 0 .. max - 1
         /\ ~moved =>
              /\ \A v \in registered :
                   /\ bdata[v] \in 0 .. nfds - 1
                   /\ table[bdata[v]].ev = v /\ table[bdata[v]].write = flags[v]
              /\ \A k \in 0 .. nfds - 1 :
                   table[k].ev \in registered /\ bdata[table[k].ev] = k
<1>1. /\ nfds \in Nat /\ max \in Nat
      /\ table \in [0 .. max - 1 -> Slot]
      /\ bdata \in [Event -> Nat] /\ registered \subseteq Event
  BY DEF TableInv, TypeOK, Slot
<1>2. nfds <= max /\ (lpc # "destroyed" => max > 0)
  BY <1>1 DEF TableInv, SafeRun, Gone
<1>3. DOMAIN table = 0 .. max - 1 /\ \A k \in 0 .. max - 1 : table[k] \in Slot
  BY <1>1
<1>4. \A k \in 0 .. nfds - 1 : k \in 0 .. max - 1
  BY <1>1, <1>2
<1>5. ASSUME ~moved, NEW v \in registered
      PROVE  /\ bdata[v] \in 0 .. nfds - 1
             /\ table[bdata[v]].ev = v /\ table[bdata[v]].write = flags[v]
  BY <1>1, <1>5 DEF TableInv, TableExact
<1>6. ~moved => \A k \in 0 .. nfds - 1 :
                   table[k].ev \in registered /\ bdata[table[k].ev] = k
  BY DEF TableInv, TableExact
<1>7. QED
  BY <1>1, <1>2, <1>3, <1>4, <1>5, <1>6

\* A step that leaves the table alone and goes on with the loop.
LEMMA ElsewhereKeeps ==
  ASSUME TableInv, fault = "none", lpc # "destroyed", UNCHANGED tableVars,
         n' \in Nat, e' \in Nat, i' \in Nat, ready' \subseteq Event,
         loop' \in BOOLEAN, once' \in BOOLEAN, hasty' = hasty,
         lpc' \in {"setup", "poll", "scan", "run", "ended"},
         fault' \in {"none", "overrun", "stale"},
         fault' # "none" => moved,
         lpc' = "run" => \/ lpc = "run" /\ i' = i /\ once' = once
                         \/ i' < nfds
  PROVE  TableInv'
<1>1. TypeOK'
  BY DEF TableInv, TypeOK, tableVars
<1>2. TableExact'
  BY DEF TableInv, TableExact, tableVars
<1>3. SafeRun'
  BY DEF TableInv, SafeRun, tableVars
<1>4. Gone'
  BY DEF Gone
<1>5. SlotStays'
  <2>1. nfds \in Nat /\ max \in Nat /\ nfds <= max
    BY UsedSlots
  <2>2. QED
    BY <2>1 DEF TableInv, SlotStays, TypeOK, tableVars
<1>6. QED
  BY <1>1, <1>2, <1>3, <1>4, <1>5 DEF TableInv

\* The loop reports as many events as there are slots with one.
LEMMA ReportedCount == ASSUME nfds \in Nat PROVE Cardinality(Reported) \in Nat
<1>1. IsFiniteSet(0 .. nfds - 1)
  BY FS_Interval
<1>2. IsFiniteSet(Reported)
  BY <1>1, FS_Subset DEF Reported
<1>3. QED
  BY <1>2, FS_CardinalityType

\* poll(2) and the runner's return write revents only.
LEMMA ReventsKeep ==
  ASSUME TableInv, fault = "none", fault' = "none", lpc # "destroyed",
         lpc' = "scan", table' \in [0 .. max - 1 -> Slot],
         \A k \in 0 .. max - 1 : /\ table'[k].ev = table[k].ev
                                 /\ table'[k].write = table[k].write,
         UNCHANGED <<nfds, max, bdata, flags, registered, moved, loop, ready, hasty>>,
         n' \in Nat, e' \in Nat, i' \in Nat, once' \in BOOLEAN
  PROVE  TableInv'
<1>1. /\ DOMAIN table = 0 .. max - 1
      /\ \A k \in 0 .. max - 1 : table[k] \in Slot
      /\ \A k \in 0 .. nfds - 1 : k \in 0 .. max - 1
  BY UsedSlots
<1>2. TypeOK'
  BY DEF TableInv, TypeOK, Slot
<1>3. TableExact'
  BY <1>1, UsedSlots DEF TableExact
<1>4. SafeRun' /\ Gone' /\ SlotStays'
  BY DEF TableInv, SafeRun, Gone, SlotStays
<1>5. QED
  BY <1>2, <1>3, <1>4 DEF TableInv

\* The steps of the loop keep the invariant.
LEMMA LoopKeeps ==
  ASSUME TableInv, fault = "none", LoopSteps \/ LoopEnd \/ Destroy
  PROVE  TableInv'
<1>0. /\ nfds \in Nat /\ max \in Nat /\ nfds <= max
      /\ DOMAIN table = 0 .. max - 1
      /\ \A k \in 0 .. max - 1 : table[k] \in Slot
      /\ \A k \in 0 .. nfds - 1 : k \in 0 .. max - 1
      /\ n \in Nat /\ e \in Nat /\ i \in Nat /\ ready \subseteq Event
      /\ loop \in BOOLEAN /\ once \in BOOLEAN
      /\ lpc \in {"setup", "poll", "scan", "run", "ended", "destroyed"}
  BY UsedSlots DEF TableInv, TypeOK
<1>1. CASE Begin \/ Leave
  BY <1>0, <1>1, ElsewhereKeeps DEF Begin, Leave, scanVars
<1>2. CASE Poll
  <2>1. /\ lpc = "poll" /\ lpc' = "scan" /\ e' = 0 /\ i' = 0 /\ n' \in Nat
        /\ UNCHANGED <<nfds, max, bdata, flags, registered, moved, loop, ready, once,
                       hasty, fault>>
    BY <1>0, <1>2, ReportedCount DEF Poll
  <2>2. \A k \in 0 .. max - 1 :
          table'[k] = IF k < nfds THEN [table[k] EXCEPT !.revents = k \in Reported]
                                  ELSE table[k]
    BY <1>0, <1>2 DEF Poll
  <2>3. \A k \in 0 .. max - 1 : /\ table'[k] \in Slot
                                /\ table'[k].ev = table[k].ev
                                /\ table'[k].write = table[k].write
    <3> SUFFICES ASSUME NEW k \in 0 .. max - 1
                 PROVE  /\ table'[k] \in Slot
                        /\ table'[k].ev = table[k].ev
                        /\ table'[k].write = table[k].write
      OBVIOUS
    <3>1. CASE k < nfds
      <4>1. PICK b \in BOOLEAN : b = (k \in Reported)
        <5> (k \in Reported) \in BOOLEAN
          OBVIOUS
        <5> QED
          BY Zenon
      <4>2. table'[k] = [table[k] EXCEPT !.revents = b]
        BY <2>2, <3>1, <4>1
      <4>3. QED
        BY <1>0, <4>2 DEF Slot
    <3>2. CASE ~(k < nfds)
      BY <1>0, <2>2, <3>2
    <3>3. QED
      BY <3>1, <3>2
  <2>4. table' \in [0 .. max - 1 -> Slot]
    BY <1>0, <1>2, <2>3 DEF Poll
  <2>5. QED
    BY <1>0, <2>1, <2>3, <2>4, ReventsKeep
<1>3. CASE Interrupted
  <2>1. loop' \in BOOLEAN
    BY <1>3, Zenon DEF Interrupted
  <2>2. QED
    BY <1>0, <1>3, <2>1, ElsewhereKeeps DEF Interrupted
<1>4. CASE Skip
  BY <1>0, <1>4, ElsewhereKeeps DEF Skip
<1>5. CASE Run
  <2>1. once' \in BOOLEAN
    BY <1>5, Zenon DEF Run
  <2>2. /\ lpc' = "run" /\ i < nfds /\ lpc = "scan" /\ ready' \subseteq ready
        /\ UNCHANGED <<tableVars, scanVars, loop, hasty>>
        /\ fault' = IF table[i].ev \in registered THEN fault ELSE "stale"
    BY <1>5 DEF Run, More
  <2>3. ~moved => table[i].ev \in registered
    BY <1>0, <2>2, UsedSlots
  <2>4. QED
    BY <1>0, <2>1, <2>2, <2>3, ElsewhereKeeps DEF scanVars
<1>6. CASE RunnerReturns
  <2>1. /\ lpc = "run" /\ lpc' = "scan" /\ e' = e + 1 /\ i' = i + 1
        /\ UNCHANGED <<nfds, max, bdata, flags, registered, moved, n, loop, ready,
                       once, hasty>>
    BY <1>6 DEF RunnerReturns
  <2>2. CASE i \in DOMAIN table
    <3>1. table' = [table EXCEPT ![i].revents = FALSE] /\ fault' = "none"
      BY <1>6, <2>2 DEF RunnerReturns
    <3>2. \A k \in 0 .. max - 1 :
            table'[k] = IF k = i THEN [table[k] EXCEPT !.revents = FALSE] ELSE table[k]
      BY <1>0, <3>1
    <3>3. \A k \in 0 .. max - 1 : /\ table'[k] \in Slot
                                  /\ table'[k].ev = table[k].ev
                                  /\ table'[k].write = table[k].write
      BY <1>0, <3>2 DEF Slot
    <3>4. table' \in [0 .. max - 1 -> Slot]
      BY <1>0, <3>1, <3>3
    <3>5. QED
      BY <1>0, <2>1, <3>1, <3>3, <3>4, ReventsKeep
  <2>3. CASE i \notin DOMAIN table
    <3>1. fault' = "overrun" /\ table' = table
      BY <1>6, <2>3 DEF RunnerReturns
    <3>2. moved \/ hasty
      BY <1>0, <2>1, <2>3 DEF TableInv, SlotStays
    <3>3. TypeOK'
      BY <1>0, <2>1, <3>1 DEF TableInv, TypeOK
    <3>4. QED
      BY <2>1, <3>1, <3>2, <3>3 DEF TableInv, TableExact, SafeRun, Gone, SlotStays
  <2>4. QED
    BY <2>2, <2>3
<1>7. CASE Turn
  BY <1>0, <1>7, ElsewhereKeeps DEF Turn, scanVars
<1>8. CASE LoopEnd
  <2>1. loop' \in BOOLEAN
    BY <1>8, Zenon DEF LoopEnd
  <2>2. CASE lpc # "destroyed"
    BY <1>0, <1>8, <2>1, <2>2, ElsewhereKeeps DEF LoopEnd, scanVars
  <2>3. CASE lpc = "destroyed"
    <3>1. TypeOK'
      BY <1>8, <2>1 DEF LoopEnd, scanVars, tableVars, TableInv, TypeOK
    <3>2. QED
      BY <1>8, <3>1 DEF LoopEnd, scanVars, tableVars, TableInv, TableExact, SafeRun,
         Gone, SlotStays
  <2>4. QED
    BY <2>2, <2>3
<1>9. CASE Destroy
  <2>1. table' \in [0 .. max' - 1 -> Slot] /\ max' = 0 /\ nfds' = 0
    BY <1>9 DEF Destroy
  <2>2. TypeOK'
    BY <1>0, <1>9, <2>1 DEF Destroy, scanVars, TableInv, TypeOK, Slot
  <2>3. QED
    BY <1>9, <2>1, <2>2 DEF Destroy, scanVars, TableInv, TableExact, SafeRun, Gone,
       SlotStays
<1>10. QED
  BY <1>1, <1>2, <1>3, <1>4, <1>5, <1>6, <1>7, <1>8, <1>9 DEF LoopSteps

\* excom_event_poll_add keeps the invariant: the table has grown enough for the
\* new slot, and what was in it is still there.
LEMMA AddKeeps ==
  ASSUME TableInv, fault = "none", NEW v \in Event, Add(v)
  PROVE  TableInv'
<1>0. /\ nfds \in Nat /\ max \in Nat /\ nfds <= max /\ max > 0
      /\ DOMAIN table = 0 .. max - 1
      /\ \A k \in 0 .. max - 1 : table[k] \in Slot
      /\ lpc \in {"setup", "run"} /\ ~moved /\ v \notin registered
  BY UsedSlots DEF Add, Calling
<1>1. Grown \in Nat /\ Grown > nfds /\ Grown >= max /\ nfds \in 0 .. Grown - 1
  BY <1>0 DEF Grown
<1> DEFINE new == [ev |-> v, write |-> flags[v], revents |-> FALSE]
<1>2. new \in Slot
  BY DEF Slot, TableInv, TypeOK
<1>3. /\ table' = [Resized(Grown) EXCEPT ![nfds] = new]
      /\ max' = Grown /\ nfds' = nfds + 1 /\ registered' = registered \cup {v}
      /\ bdata' = [bdata EXCEPT ![v] = nfds]
      /\ UNCHANGED <<flags, moved, scanVars, loop, lpc, ready, once, hasty, fault>>
  BY <1>1 DEF Add
<1> HIDE DEF new
<1>4. Resized(Grown) \in [0 .. Grown - 1 -> Slot]
  <2>1. Empty \in Slot
    BY DEF Empty, Slot
  <2>2. QED
    BY <1>0, <2>1 DEF Resized
<1>5. /\ table' \in [0 .. Grown - 1 -> Slot]
      /\ table'[nfds] = new
      /\ \A k \in 0 .. nfds - 1 : table'[k] = table[k]
  <2>1. \A k \in 0 .. nfds - 1 : k \in 0 .. Grown - 1 /\ Resized(Grown)[k] = table[k]
    BY <1>0, <1>1 DEF Resized
  <2>2. QED
    BY <1>0, <1>1, <1>2, <1>3, <1>4, <2>1
<1>6. /\ bdata' \in [Event -> Nat] /\ bdata'[v] = nfds
      /\ \A u \in Event \ {v} : bdata'[u] = bdata[u]
  BY <1>0, <1>3 DEF TableInv, TypeOK
<1>7. TypeOK'
  BY <1>0, <1>1, <1>3, <1>5, <1>6 DEF TableInv, TypeOK, Slot, scanVars
<1>8. TableExact'
  <2>1. ASSUME NEW u \in registered'
        PROVE  /\ bdata'[u] < nfds'
               /\ table'[bdata'[u]].ev = u /\ table'[bdata'[u]].write = flags'[u]
    <3>1. CASE u = v
      BY <1>0, <1>3, <1>5, <1>6, <3>1 DEF new
    <3>2. CASE u # v
      <4>1. u \in registered /\ u \in Event /\ u \in Event \ {v}
        BY <1>3, <3>2 DEF TableInv, TypeOK
      <4>2. /\ bdata[u] \in 0 .. nfds - 1
            /\ table[bdata[u]].ev = u /\ table[bdata[u]].write = flags[u]
        BY <1>0, <4>1, UsedSlots
      <4>3. QED
        BY <1>0, <1>3, <1>5, <1>6, <4>1, <4>2
    <3>3. QED
      BY <3>1, <3>2
  <2>2. ASSUME NEW k \in 0 .. nfds
        PROVE  table'[k].ev \in registered' /\ bdata'[table'[k].ev] = k
    <3>1. CASE k = nfds
      BY <1>3, <1>5, <1>6, <3>1 DEF new
    <3>2. CASE k # nfds
      <4>1. k \in 0 .. nfds - 1
        BY <1>0, <3>2
      <4>2. table[k].ev \in registered /\ bdata[table[k].ev] = k /\ table'[k] = table[k]
        BY <1>0, <1>5, <4>1, UsedSlots
      <4>3. table[k].ev \in Event \ {v}
        BY <1>0, <4>2 DEF TableInv, TypeOK
      <4>4. QED
        BY <1>3, <1>6, <4>2, <4>3
    <3>3. QED
      BY <3>1, <3>2
  <2>3. nfds' - 1 = nfds
    BY <1>0, <1>3
  <2>4. QED
    BY <2>1, <2>2, <2>3 DEF TableExact
<1>9. SafeRun' /\ Gone' /\ SlotStays'
  <2>1. i \in Nat
    BY DEF TableInv, TypeOK
  <2>2. QED
    BY <1>0, <1>1, <1>3, <2>1 DEF TableInv, SafeRun, Gone, SlotStays, scanVars
<1>10. QED
  BY <1>7, <1>8, <1>9 DEF TableInv

\* excom_event_poll_update keeps it: as long as nothing has moved, the slot that
\* _bdata names is the event's own, and inside the table.
LEMMA UpdateKeeps ==
  ASSUME TableInv, fault = "none", NEW v \in Event, Update(v)
  PROVE  TableInv'
<1>0. /\ nfds \in Nat /\ max \in Nat /\ nfds <= max
      /\ DOMAIN table = 0 .. max - 1
      /\ \A k \in 0 .. max - 1 : table[k] \in Slot
      /\ v \in registered /\ registered \subseteq Event
      /\ flags \in [Event -> BOOLEAN] /\ bdata \in [Event -> Nat]
  BY UsedSlots DEF Update, TableInv, TypeOK
<1>1. /\ flags' = [flags EXCEPT ![v] = ~@]
      /\ table' = IF Found(v) THEN [table EXCEPT ![bdata[v]].write = ~flags[v]]
                              ELSE table
      /\ fault' = IF Outside(v) THEN "overrun" ELSE fault
      /\ UNCHANGED <<nfds, max, bdata, registered, moved, scanVars, loop, lpc, ready,
                     once, hasty>>
  BY DEF Update
<1>2. flags' \in [Event -> BOOLEAN]
  BY <1>0, <1>1
<1>3. table' \in [0 .. max - 1 -> Slot]
  <2>1. CASE Found(v)
    <3>1. PICK b \in BOOLEAN : b = ~flags[v]
      OBVIOUS
    <3>2. table' = [table EXCEPT ![bdata[v]].write = b]
      BY <1>1, <2>1, <3>1
    <3>3. [table[bdata[v]] EXCEPT !.write = b] \in Slot
      BY <1>0, <2>1 DEF Found, Slot
    <3>4. table \in [0 .. max - 1 -> Slot]
      BY <1>0 DEF TableInv, TypeOK, Slot
    <3>5. QED
      BY <3>2, <3>3, <3>4
  <2>2. CASE ~Found(v)
    BY <1>0, <1>1, <2>2 DEF TableInv, TypeOK, Slot
  <2>3. QED
    BY <2>1, <2>2
<1>4. TypeOK'
  BY <1>1, <1>2, <1>3 DEF TableInv, TypeOK, Slot, scanVars
<1>5. ASSUME ~moved
      PROVE  /\ fault' = "none" /\ TableExact'
  <2>1. /\ bdata[v] \in 0 .. nfds - 1 /\ table[bdata[v]].ev = v
        /\ bdata[v] \in 0 .. max - 1
    BY <1>0, <1>5, UsedSlots
  <2>2. Found(v) /\ ~Outside(v)
    BY <1>0, <2>1 DEF Found, Outside
  <2>3. table' = [table EXCEPT ![bdata[v]].write = ~flags[v]] /\ fault' = "none"
    BY <1>1, <2>2
  <2>4. /\ table'[bdata[v]].write = flags'[v]
        /\ \A k \in 0 .. max - 1 : table'[k].ev = table[k].ev
        /\ \A k \in 0 .. max - 1 : k # bdata[v] => table'[k] = table[k]
        /\ \A u \in Event \ {v} : flags'[u] = flags[u]
    BY <1>0, <1>1, <2>1, <2>3 DEF Slot
  <2>5. \A u \in registered : u # v => bdata[u] # bdata[v] /\ bdata[u] \in 0 .. nfds - 1
          /\ table[bdata[u]].ev = u /\ table[bdata[u]].write = flags[u]
    BY <1>0, <1>5, <2>1, UsedSlots
  <2>6. \A k \in 0 .. nfds - 1 :
          k \in 0 .. max - 1 /\ table[k].ev \in registered /\ bdata[table[k].ev] = k
    BY <1>0, <1>5, UsedSlots
  <2>7. ASSUME NEW u \in registered
        PROVE  /\ bdata[u] < nfds
               /\ table'[bdata[u]].ev = u /\ table'[bdata[u]].write = flags'[u]
    <3>1. CASE u = v
      BY <1>0, <2>1, <2>4, <3>1
    <3>2. CASE u # v
      BY <1>0, <2>4, <2>5, <2>6, <3>2
    <3>3. QED
      BY <3>1, <3>2
  <2>8. QED
    BY <1>1, <2>3, <2>4, <2>6, <2>7 DEF TableExact
<1>6. CASE moved
  BY <1>1, <1>4, <1>6 DEF TableInv, TableExact, SafeRun, Gone, SlotStays, scanVars
<1>7. CASE ~moved
  BY <1>1, <1>4, <1>5, <1>7 DEF TableInv, SafeRun, Gone, SlotStays, scanVars
<1>8. QED
  BY <1>6, <1>7

\* excom_event_poll_remove keeps it: the halved table has room for what is left and
\* for the slot of the runner that removes one event.
LEMMA RemoveKeeps ==
  ASSUME TableInv, fault = "none", NEW v \in Event, Remove(v)
  PROVE  TableInv'
<1>0. /\ nfds \in Nat /\ max \in Nat /\ nfds <= max /\ max > 0
      /\ DOMAIN table = 0 .. max - 1
      /\ \A k \in 0 .. max - 1 : table[k] \in Slot
      /\ v \in registered /\ registered \subseteq Event
      /\ lpc \in {"setup", "run"} /\ ~moved
      /\ bdata[v] \in 0 .. nfds - 1 /\ table[bdata[v]].ev = v
  BY UsedSlots DEF Remove, Calling, TableInv, TypeOK
<1>1. Found(v)
  BY <1>0 DEF Found
<1> DEFINE k == bdata[v]
           middle == k + 1 < nfds
           kept == IF middle THEN Moved(k) ELSE table
           size == Shrunk(nfds - 1)
<1>2. /\ nfds' = nfds - 1 /\ max' = size
      /\ table' = [s \in 0 .. size - 1 |-> kept[s]]
      /\ moved' = (moved \/ middle)
      /\ fault' = IF middle /\ nfds = max THEN "overrun" ELSE fault
      /\ registered' = registered \ {v} /\ ready' = ready \ {v}
      /\ bdata' = [bdata EXCEPT ![v] = 0] /\ flags' = [flags EXCEPT ![v] = FALSE]
      /\ once' = (lpc = "run") /\ hasty' = (hasty \/ once)
      /\ UNCHANGED <<scanVars, loop, lpc>>
  BY <1>1 DEF Remove
<1>3. /\ size \in Nat /\ size <= max /\ nfds - 1 \in Nat /\ nfds - 1 < size
      /\ nfds - 1 <= size /\ size > 0
  BY <1>0 DEF Shrunk
<1>4. table' \in [0 .. size - 1 -> Slot]
  <2>1. \A s \in 0 .. max - 1 : kept[s] \in Slot
    <3>1. CASE middle
      <4>1. ASSUME NEW s \in 0 .. max - 1 PROVE Moved(k)[s] \in Slot
        <5>1. s \in k + 1 .. nfds => s - 1 \in 0 .. max - 1
          BY <1>0
        <5>2. QED
          BY <1>0, <5>1 DEF Moved
      <4>2. QED
        BY <3>1, <4>1
    <3>2. CASE ~middle
      BY <1>0, <3>2
    <3>3. QED
      BY <3>1, <3>2
  <2>2. \A s \in 0 .. size - 1 : s \in 0 .. max - 1
    BY <1>0, <1>3
  <2> HIDE DEF kept, size
  <2>3. QED
    BY <1>2, <2>1, <2>2
<1>5. TypeOK'
  <2>1. moved' \in BOOLEAN /\ once' \in BOOLEAN /\ hasty' \in BOOLEAN
    BY <1>2 DEF TableInv, TypeOK
  <2>2. bdata' \in [Event -> Nat] /\ flags' \in [Event -> BOOLEAN]
    BY <1>2 DEF TableInv, TypeOK
  <2> HIDE DEF kept, size, middle
  <2>3. QED
    BY <1>2, <1>3, <1>4, <2>1, <2>2 DEF TableInv, TypeOK, Slot, scanVars
<1>6. ASSUME ~middle PROVE TableExact'
  <2>1. k = nfds - 1
    BY <1>0, <1>6
  <2>2. \A s \in 0 .. nfds - 2 : /\ table'[s] = table[s] /\ table[s].ev \in registered'
                                 /\ bdata'[table[s].ev] = s
    <3> SUFFICES ASSUME NEW s \in 0 .. nfds - 2
                 PROVE  /\ table'[s] = table[s] /\ table[s].ev \in registered'
                        /\ bdata'[table[s].ev] = s
      OBVIOUS
    <3>1. s \in 0 .. size - 1 /\ s \in 0 .. nfds - 1
      BY <1>0, <1>3
    <3>2. table[s].ev \in registered /\ bdata[table[s].ev] = s /\ table[s].ev # v
      BY <1>0, <2>1, <3>1, UsedSlots
    <3>3. QED
      BY <1>0, <1>2, <1>6, <3>1, <3>2 DEF TableInv, TypeOK
  <2>3. ASSUME NEW u \in registered'
        PROVE  /\ bdata'[u] < nfds'
               /\ table'[bdata'[u]].ev = u /\ table'[bdata'[u]].write = flags'[u]
    <3>1. u \in registered /\ u # v /\ u \in Event
      BY <1>0, <1>2
    <3>2. /\ bdata[u] \in 0 .. nfds - 1 /\ table[bdata[u]].ev = u
          /\ table[bdata[u]].write = flags[u]
      BY <1>0, <3>1, UsedSlots
    <3>3. bdata[u] \in 0 .. nfds - 2
      BY <1>0, <2>1, <3>1, <3>2
    <3>4. bdata'[u] = bdata[u] /\ flags'[u] = flags[u]
      BY <1>2, <3>1 DEF TableInv, TypeOK
    <3>5. QED
      BY <1>0, <1>2, <2>2, <3>2, <3>3, <3>4
  <2>4. nfds' - 1 = nfds - 2
    BY <1>0, <1>2
  <2>5. QED
    BY <2>2, <2>3, <2>4 DEF TableExact
<1>7. TableExact'
  BY <1>2, <1>6 DEF TableExact
<1>8. SafeRun' /\ Gone'
  BY <1>0, <1>2, <1>3 DEF SafeRun, Gone
<1>9. SlotStays'
  <2> SUFFICES ASSUME ~hasty', ~moved', lpc' = "run"
               PROVE  i' < max' /\ (~once' => i' < nfds')
    BY DEF SlotStays
  <2>1. ~hasty /\ ~once /\ lpc = "run" /\ once' /\ i' = i /\ i \in Nat
    BY <1>2 DEF scanVars, TableInv, TypeOK
  <2>2. i < nfds
    BY <1>0, <2>1 DEF TableInv, SlotStays
  <2>3. QED
    BY <1>0, <1>2, <1>3, <2>1, <2>2
<1>10. QED
  BY <1>5, <1>7, <1>8, <1>9 DEF TableInv

\* The invariant holds in every state.
LEMMA TableInvariant == Spec => []TableInv
<1>1. Init => TableInv
  <2> SUFFICES ASSUME Init PROVE TableInv
    OBVIOUS
  <2>1. /\ loop \in BOOLEAN /\ once \in BOOLEAN /\ hasty \in BOOLEAN
        /\ moved \in BOOLEAN /\ FALSE \in BOOLEAN
    BY Zenon DEF Init
  <2>2. table \in [0 .. InitialSize - 1 -> Slot]
    <3>1. Empty \in Slot
      BY <2>1 DEF Empty, Slot
    <3>2. QED
      BY <3>1 DEF Init
  <2>3. flags \in [Event -> BOOLEAN] /\ bdata \in [Event -> Nat]
    BY <2>1 DEF Init
  <2>4. TypeOK
    BY <2>1, <2>2, <2>3, PollAssumption DEF Init, TypeOK, Slot
  <2>5. TableExact /\ SafeRun /\ Gone /\ SlotStays
    BY PollAssumption DEF Init, TableExact, SafeRun, Gone, SlotStays
  <2>6. QED
    BY <2>4, <2>5 DEF TableInv
<1>2. TableInv /\ [Next]_vars => TableInv'
  <2> SUFFICES ASSUME TableInv, [Next]_vars PROVE TableInv'
    OBVIOUS
  <2>1. CASE UNCHANGED vars
    BY <2>1 DEF vars, tableVars, scanVars, TableInv, TypeOK, TableExact, SafeRun, Gone,
       SlotStays
  <2>2. ASSUME NEW v \in Event, fault = "none", Arrives(v) PROVE TableInv'
    <3>1. lpc # "destroyed"
      BY <2>2 DEF Arrives, TableInv, Gone
    <3>2. QED
      BY <2>2, <3>1, ElsewhereKeeps DEF Arrives, scanVars, TableInv, TypeOK
  <2>3. QED
    BY <2>1, <2>2, LoopKeeps, AddKeeps, UpdateKeeps, RemoveKeeps DEF Next
<1>3. QED
  BY <1>1, <1>2, PTL DEF Spec

\* The fields of the backend keep their types; the number of events never becomes
\* negative, and fds and events never have another size than max.
THEOREM TypeCorrect == Spec => []TypeOK
<1>1. TableInv => TypeOK
  BY DEF TableInv
<1>2. QED
  BY <1>1, TableInvariant, PTL

\* As long as no remove has moved a part of the table, its used slots are the
\* registered events with their flags, each at its _bdata.
THEOREM TableStaysExact == Spec => []TableExact
<1>1. TableInv => TableExact
  BY DEF TableInv
<1>2. QED
  BY <1>1, TableInvariant, PTL

\* Doubling and halving leave room for every event; the loop uses memory outside the
\* table, or an event that was removed, only after a remove that moved slots, or a
\* runner that removed two events in one call.
THEOREM LoopStaysInside == Spec => []SafeRun
<1>1. TableInv => SafeRun
  BY DEF TableInv
<1>2. QED
  BY <1>1, TableInvariant, PTL
=============================================================================
