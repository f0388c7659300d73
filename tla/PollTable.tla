----------------------------- MODULE PollTable ------------------------------
(***************************************************************************)
(* The poll backend of the event loop (src/excom/event/poll.c): the table  *)
(* of events that add, update and remove maintain, and the loop that goes  *)
(* through it while the runner it calls changes it.                        *)
(*                                                                         *)
(* fds and events are one table here: every operation treats slot k of the *)
(* two alike.  A slot below max that was never written holds NULL.         *)
(***************************************************************************)
EXTENDS Integers, FiniteSets

CONSTANTS Event,        \* the excom_event_t structs, each with its own fd
          InitialSize,  \* EXCOM_POLL_INITIAL_SIZE
          NULL

ASSUME PollAssumption == InitialSize \in Nat \ {0} /\ NULL \notin Event

VARIABLES table,        \* fds and events
          nfds, max,
          bdata,        \* event->_bdata
          flags,        \* event->flags: whether WRITE is set
          loop,         \* base->loop
          lpc, n, e, i, \* place and locals of the loop
          ready,        \* the events whose descriptor has something to report
          registered,   \* history: the events added and not removed
          once, hasty,  \* history: this call of the runner has removed an
                        \* event, and some call has removed two
          moved,        \* history: a remove has moved part of the table
          fault         \* memory outside the table was used ("overrun"), or an
                        \* event that is no longer registered ("stale")

tableVars == <<table, nfds, max, bdata, flags, registered, moved>>
scanVars  == <<n, e, i>>
vars == <<tableVars, scanVars, loop, lpc, ready, once, hasty, fault>>

Empty == [ev |-> NULL, write |-> FALSE, revents |-> FALSE]

\* realloc: what fits into the new block is kept.
Resized(size) ==
  [k \in 0 .. size - 1 |-> IF k \in DOMAIN table THEN table[k] ELSE Empty]

\* excom_event_base_poll_init.
Init ==
  /\ table = [k \in 0 .. InitialSize - 1 |-> Empty]
  /\ nfds = 0 /\ max = InitialSize
  /\ bdata = [v \in Event |-> 0] /\ flags = [v \in Event |-> FALSE]
  /\ loop = TRUE /\ lpc = "setup" /\ n = 0 /\ e = 0 /\ i = 0
  /\ ready = {} /\ registered = {}
  /\ once = FALSE /\ hasty = FALSE /\ moved = FALSE /\ fault = "none"

-----------------------------------------------------------------------------
(***************************************************************************)
(* What the application calls: before the loop, and in the runner.         *)
(***************************************************************************)

\* Bound: no event is added or removed once a remove has moved a part of the
\* table, which is then wrong; the loop goes on, and so do updates.
Calling == lpc \in {"setup", "run"} /\ ~moved

\* The size of the table that an add needs.
Grown == IF nfds + 1 > max THEN 2 * max ELSE max

\* Mutant: _bdata is set after nfds has been counted up.
MutAdd(v) ==
  /\ Calling /\ v \notin registered
  /\ max' = Grown
  /\ bdata' = [bdata EXCEPT ![v] = nfds + 1]
  /\ table' = [Resized(Grown) EXCEPT ![nfds] =
                 [ev |-> v, write |-> flags[v], revents |-> FALSE]]
  /\ nfds' = nfds + 1
  /\ registered' = registered \cup {v}
  /\ UNCHANGED <<flags, moved, scanVars, loop, lpc, ready, once, hasty, fault>>

\* excom_event_poll_add.
Add(v) ==
  /\ Calling /\ v \notin registered
  /\ max' = Grown
  /\ bdata' = [bdata EXCEPT ![v] = nfds]
  /\ IF nfds \in 0 .. Grown - 1
       THEN /\ table' = [Resized(Grown) EXCEPT ![nfds] =
                           [ev |-> v, write |-> flags[v], revents |-> FALSE]]
            /\ UNCHANGED fault
       ELSE fault' = "overrun" /\ UNCHANGED table
  /\ nfds' = nfds + 1
  /\ registered' = registered \cup {v}
  /\ UNCHANGED <<flags, moved, scanVars, loop, lpc, ready, once, hasty>>

\* The test of update and remove: _bdata is still the event's slot.
Found(v) == bdata[v] <= nfds /\ bdata[v] \in DOMAIN table
              /\ table[bdata[v]].ev = v

\* The test itself reads outside the table.
Outside(v) == bdata[v] <= nfds /\ bdata[v] \notin DOMAIN table

\* excom_event_poll_update, after a change of the flags.  It is also called by
\* a server client's worker, at any time.
Update(v) ==
  /\ v \in registered
  /\ flags' = [flags EXCEPT ![v] = ~@]
  /\ table' = IF Found(v) THEN [table EXCEPT ![bdata[v]].write = ~flags[v]]
                          ELSE table
  /\ fault' = IF Outside(v) THEN "overrun" ELSE fault
  /\ UNCHANGED <<nfds, max, bdata, registered, moved, scanVars, loop, lpc, ready,
                 once, hasty>>

\* Mutant: the table is halved when it is half full.
MutShrunk(m) == IF m <= max \div 2 THEN max \div 2 ELSE max

\* The size of the table when m events are left.
Shrunk(m) == IF m < max \div 2 THEN max \div 2 ELSE max

\* The memmove of remove: the slots from k on move up by one, into slot k + 1
\* and on to slot nfds.
Moved(k) == [s \in DOMAIN table |-> IF s \in k + 1 .. nfds THEN table[s - 1]
                                                           ELSE table[s]]

\* excom_event_poll_remove.  The _bdata of the other events is left as it is.
\* When the table is full, the last slot is moved beyond its end.  The struct
\* goes back to the application, which frees it.
Remove(v) ==
  /\ Calling /\ v \in registered
  /\ registered' = registered \ {v}
  /\ ready' = ready \ {v}
  /\ IF Found(v)
       THEN LET k == bdata[v]
                middle == k + 1 < nfds
                kept == IF middle THEN Moved(k) ELSE table
            IN  /\ nfds' = nfds - 1
                /\ max' = Shrunk(nfds - 1)
                /\ table' = [s \in 0 .. Shrunk(nfds - 1) - 1 |-> kept[s]]
                /\ moved' = (moved \/ middle)
                /\ fault' = IF middle /\ nfds = max THEN "overrun" ELSE fault
       ELSE UNCHANGED <<table, nfds, max, moved, fault>>
  /\ bdata' = [bdata EXCEPT ![v] = 0] /\ flags' = [flags EXCEPT ![v] = FALSE]
  /\ once' = (lpc = "run") /\ hasty' = (hasty \/ once)
  /\ UNCHANGED <<scanVars, loop, lpc>>

-----------------------------------------------------------------------------
(***************************************************************************)
(* The loop.                                                               *)
(***************************************************************************)

Arrives(v) ==
  /\ v \in registered /\ v \notin ready
  /\ ready' = ready \cup {v}
  /\ UNCHANGED <<tableVars, scanVars, loop, lpc, once, hasty, fault>>

\* excom_event_poll_loop_end, and SIGINT.
LoopEnd ==
  /\ loop /\ loop' = FALSE
  /\ UNCHANGED <<tableVars, scanVars, lpc, ready, once, hasty, fault>>

Begin ==
  /\ lpc = "setup" /\ lpc' = "poll"
  /\ UNCHANGED <<tableVars, scanVars, loop, ready, once, hasty, fault>>

\* The slots for which poll(2) reports something: that of a descriptor that is
\* not open any more is one of them (POLLNVAL).
Reported == {k \in 0 .. nfds - 1 : table[k].ev \in ready \cup (Event \ registered)}

\* poll(2) returns, with nothing after the timeout.
Poll ==
  /\ lpc = "poll" /\ loop
  /\ table' = [k \in DOMAIN table |->
                 IF k < nfds THEN [table[k] EXCEPT !.revents = k \in Reported]
                             ELSE table[k]]
  /\ n' = Cardinality(Reported) /\ e' = 0 /\ i' = 0
  /\ lpc' = "scan"
  /\ UNCHANGED <<nfds, max, bdata, flags, registered, moved, loop, ready, once,
                 hasty, fault>>

\* poll(2) is interrupted, which ends the loop.
Interrupted ==
  /\ lpc = "poll" /\ loop
  /\ loop' = FALSE
  /\ n' = 0 /\ e' = 0 /\ i' = 0
  /\ lpc' = "scan"
  /\ UNCHANGED <<tableVars, ready, once, hasty, fault>>

More == e < n /\ i < nfds

\* Mutant: e counts slots, not events.
MutSkip ==
  /\ lpc = "scan" /\ More /\ ~table[i].revents
  /\ i' = i + 1 /\ e' = e + 1
  /\ UNCHANGED <<tableVars, n, loop, lpc, ready, once, hasty, fault>>

Skip ==
  /\ lpc = "scan" /\ More /\ ~table[i].revents
  /\ i' = i + 1
  /\ UNCHANGED <<tableVars, n, e, loop, lpc, ready, once, hasty, fault>>

\* The runner is called with the event, which reads what has arrived.
Run ==
  /\ lpc = "scan" /\ More /\ table[i].revents
  /\ LET v == table[i].ev IN
       /\ fault' = IF v \in registered THEN fault ELSE "stale"
       /\ ready' = ready \ {v}
  /\ lpc' = "run" /\ once' = FALSE
  /\ UNCHANGED <<tableVars, scanVars, loop, hasty>>

\* The runner returns and revents of slot i is cleared.
RunnerReturns ==
  /\ lpc = "run"
  /\ IF i \in DOMAIN table
       THEN table' = [table EXCEPT ![i].revents = FALSE] /\ UNCHANGED fault
       ELSE fault' = "overrun" /\ UNCHANGED table
  /\ e' = e + 1 /\ i' = i + 1
  /\ lpc' = "scan"
  /\ UNCHANGED <<nfds, max, bdata, flags, registered, moved, n, loop, ready,
                 once, hasty>>

Turn ==
  /\ lpc = "scan" /\ ~More
  /\ lpc' = IF loop THEN "poll" ELSE "ended"
  /\ UNCHANGED <<tableVars, scanVars, loop, ready, once, hasty, fault>>

\* The loop flag is found cleared before another poll(2).
Leave ==
  /\ lpc = "poll" /\ ~loop
  /\ lpc' = "ended"
  /\ UNCHANGED <<tableVars, scanVars, loop, ready, once, hasty, fault>>

\* Mutant: max is left as it was.
MutDestroy ==
  /\ lpc = "ended"
  /\ table' = [k \in {} |-> Empty] /\ nfds' = 0
  /\ registered' = {} /\ ready' = {}
  /\ lpc' = "destroyed"
  /\ UNCHANGED <<max, bdata, flags, moved, scanVars, loop, once, hasty, fault>>

\* excom_event_base_poll_destroy.
Destroy ==
  /\ lpc = "ended"
  /\ table' = [k \in {} |-> Empty] /\ nfds' = 0 /\ max' = 0
  /\ registered' = {} /\ ready' = {}
  /\ lpc' = "destroyed"
  /\ UNCHANGED <<bdata, flags, moved, scanVars, loop, once, hasty, fault>>

-----------------------------------------------------------------------------
LoopSteps == Begin \/ Poll \/ Interrupted \/ Skip \/ Run \/ RunnerReturns
               \/ Turn \/ Leave

Next ==
  /\ fault = "none"
  /\ \/ LoopSteps \/ LoopEnd \/ Destroy
     \/ \E v \in Event : Add(v) \/ Update(v) \/ Remove(v) \/ Arrives(v)

Spec == Init /\ [][Next]_vars

\* The thread of the loop runs, and the runner returns.
FairSpec == Spec /\ WF_vars(fault = "none" /\ LoopSteps)

-----------------------------------------------------------------------------
(***************************************************************************)
(* Properties.                                                             *)
(***************************************************************************)

\* Every field keeps its type.
TypeOK ==
  /\ nfds \in Nat /\ max \in Nat
  /\ table \in [0 .. max - 1 -> [ev : Event \cup {NULL}, write : BOOLEAN,
                                 revents : BOOLEAN]]
  /\ bdata \in [Event -> Nat] /\ flags \in [Event -> BOOLEAN]
  /\ loop \in BOOLEAN
  /\ lpc \in {"setup", "poll", "scan", "run", "ended", "destroyed"}
  /\ n \in Nat /\ e \in Nat /\ i \in Nat
  /\ ready \subseteq Event /\ registered \subseteq Event
  /\ once \in BOOLEAN /\ hasty \in BOOLEAN /\ moved \in BOOLEAN
  /\ fault \in {"none", "overrun", "stale"}

\* As long as events are removed in the reverse order of their addition, which
\* never moves a part of the table, the slots below nfds are the registered
\* events with their flags, each at its _bdata: no event that was removed is
\* left, none that was not is lost, and an update reaches the right slot.
TableExact ==
  fault = "none" /\ ~moved =>
  /\ \A v \in registered :
       /\ bdata[v] < nfds
       /\ table[bdata[v]].ev = v /\ table[bdata[v]].write = flags[v]
  /\ \A k \in 0 .. nfds - 1 :
       table[k].ev \in registered /\ bdata[table[k].ev] = k

\* The growth and the halving of the table leave room for every event, and never
\* a table of no slots, which could not grow again; the loop runs no event that
\* was removed unless a remove has moved slots, and what the runner does to the
\* table makes the loop write outside only then, or if one call removed two events.
SafeRun ==
  /\ fault = "none" /\ lpc # "destroyed" => nfds <= max /\ max > 0
  /\ fault # "none" => moved \/ hasty

\* An event with something to report is run, or removed, unless the loop ends.
ReadyIsRun ==
  \A v \in Event :
    v \in ready ~> (v \notin ready \/ moved \/ fault # "none" \/ ~loop
                      \/ lpc = "setup")
=============================================================================
