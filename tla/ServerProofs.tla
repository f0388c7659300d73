---------------------------- MODULE ServerProofs ----------------------------
(***************************************************************************)
(* Proofs about Server, for any number of clients: no event refers to a    *)
(* freed client, the ways a connection ends leave nothing behind, and the  *)
(* list is right for as long as it holds one client at a time.             *)
(***************************************************************************)
EXTENDS Server, TLAPS

\* What Hangup does to the sets of a connection.
LEMMA HangupKeeps ==
  ASSUME NEW c \in Client, TypeOK, Hangup(c)
  PROVE  /\ open' \subseteq Client /\ fds' \subseteq Client
         /\ watched' \subseteq Client
         /\ watched' = watched \ {c}
         /\ open = fds /\ open = watched => open' = fds' /\ open' = watched'
  BY DEF Hangup, TypeOK

\* What Disconnect does to the list, when the client is allocated.
LEMMA DisconnectKeeps ==
  ASSUME NEW c \in alloc, TypeOK, AloneListed, fault = "none", Disconnect(c)
  PROVE  /\ clients' \in Pointer /\ alloc' \subseteq Client
         /\ prev' \in [Client -> Pointer] /\ next' \in [Client -> Pointer]
         /\ alone' = alone
         /\ fault' \in {"none", "list"}
         /\ alloc \ {c} \subseteq alloc'
         /\ AloneListed'
         /\ alone => clients' = NULL /\ clients = c /\ next[c] = NULL
<1>1. CASE alone
  <2>1. alloc = {clients} \ {NULL} /\ prev[c] = NULL /\ next[c] = NULL
    BY <1>1 DEF AloneListed
  <2>2. clients = c /\ alloc = {c} /\ c \in Client
    BY <2>1 DEF TypeOK
  <2>3. ~Dangling(prev[c]) /\ ~Dangling(next[c])
    BY <2>1 DEF Dangling
  <2>4. clients' = NULL /\ alloc' = {} /\ fault' = "none" /\ alone' = alone
    BY <2>1, <2>2, <2>3 DEF Disconnect
  <2>5. prev' \in [Client -> Pointer] /\ next' \in [Client -> Pointer]
    BY <2>1, <2>3 DEF Disconnect, TypeOK, Pointer
  <2>6. QED
    BY <2>1, <2>2, <2>4, <2>5 DEF AloneListed, Pointer
<1>2. CASE ~alone
  <2>1. CASE Dangling(prev[c]) \/ Dangling(next[c])
    BY <1>2, <2>1 DEF Disconnect, list, TypeOK, AloneListed
  <2>2. CASE ~(Dangling(prev[c]) \/ Dangling(next[c]))
    <3>1. c \in Client /\ prev[c] \in Pointer /\ next[c] \in Pointer
      BY DEF TypeOK
    <3>2. prev' \in [Client -> Pointer] /\ next' \in [Client -> Pointer]
      BY <2>2, <3>1 DEF Disconnect, TypeOK
    <3>3. QED
      BY <1>2, <2>2, <3>1, <3>2 DEF Disconnect, TypeOK, AloneListed
  <2>3. QED
    BY <2>1, <2>2
<1>3. QED
  BY <1>1, <1>2

\* An event leaves the batch: the others remain, each about a client of its own.
LEMMA EventLeaves ==
  ASSUME NEW c \in Client, NEW b \in BOOLEAN, ServerInv,
         [client |-> c, close |-> b] \in batch,
         batch' = batch \ {[client |-> c, close |-> b]}
  PROVE  /\ batch' \subseteq Event
         /\ \A e \in batch' \ {Listen} : e.client \in watched \ {c}
         /\ \A e, f \in batch' : e.client = f.client => e = f
         /\ c \in watched /\ c \in alloc /\ c # closing
<1>1. batch' \subseteq Event /\ \A e, f \in batch' : e.client = f.client => e = f
  BY DEF ServerInv, TypeOK
<1>2. [client |-> c, close |-> b] # Listen
  BY ClientAssumption DEF Listen
<1>3. c \in watched /\ c \in alloc /\ c # closing
  BY <1>2 DEF ServerInv
<1>4. \A e \in batch' \ {Listen} : e.client \in watched \ {c}
  BY DEF ServerInv
<1>5. QED
  BY <1>1, <1>3, <1>4

\* The close of a client that is open begins: its event has left the batch.
LEMMA CloseBegins ==
  ASSUME ServerInv, fault = "none", NEW c \in open,
         NEW by \in {"_accept", "read", "on_event", "destroy"},
         BeginClose(c, by),
         batch' \subseteq batch, \A e \in batch' \ {Listen} : e.client # c,
         by = "destroy" => batch' = {},
         UNCHANGED <<list, conns, backlog, loop, walk, fault>>,
         peer' \in [Client -> {"none", "connected"} \cup Ended],
         \A d \in Client : peer'[d] = "none" <=> peer[d] = "none"
  PROVE  ServerInv'
<1>1. /\ closing' = c /\ caller' = by /\ epc' = "join"
      /\ worker' \in {"woken", "busy"}
  BY DEF BeginClose
<1>2. TypeOK'
  BY <1>1 DEF ServerInv, TypeOK, list, conns, Pointer
<1>3. QED
  BY <1>1, <1>2 DEF ServerInv, TypeOK, AllOrNothing, AloneListed, list, conns

\* What the invariant says about a join that returns.
LEMMA JoinReturns ==
  ASSUME ServerInv, fault = "none",
         NEW by \in {"_accept", "read", "on_event", "destroy"}, Joined(by)
  PROVE  /\ closing \in Client /\ closing \in open /\ closing \in alloc
         /\ closing' = NULL /\ caller' = "none" /\ worker' = "none"
         /\ \A e \in batch \ {Listen} : e.client \in watched \ {closing}
         /\ open = watched /\ open = fds /\ epc = "join" /\ caller = by
  BY DEF ServerInv, TypeOK, AllOrNothing, Joined

\* The steps of the peers and of the worker, and the end of the loop, keep the
\* invariant.
LEMMA OthersKeep == ServerInv /\ (Others \/ WorkerEnds) => ServerInv'
<1> SUFFICES ASSUME ServerInv, Others \/ WorkerEnds PROVE ServerInv'
  OBVIOUS
<1>1. CASE LoopEnd
  BY <1>1 DEF LoopEnd, ServerInv, TypeOK, AllOrNothing, AloneListed, list, conns, join
<1>2. ASSUME NEW c \in Client, PeerConnects(c) \/ PeerEnds(c) PROVE ServerInv'
  <2>1. /\ peer' \in [Client -> {"none", "connected"} \cup Ended]
        /\ backlog' \subseteq Client
        /\ \A d \in Client : d \in backlog' \/ peer'[d] = "none" => d \notin watched
        /\ \A d \in backlog' : peer'[d] # "none"
    <3>1. CASE PeerConnects(c)
      BY <3>1 DEF PeerConnects, ServerInv, TypeOK
    <3>2. CASE PeerEnds(c)
      BY <3>2 DEF PeerEnds, ServerInv, TypeOK, Ended
    <3>3. QED
      BY <1>2, <3>1, <3>2
  <2>2. UNCHANGED <<list, conns, join, batch, epc, loop, walk, fault>>
    BY <1>2 DEF PeerConnects, PeerEnds
  <2>3. QED
    BY <2>1, <2>2 DEF ServerInv, TypeOK, AllOrNothing, AloneListed, list, conns, join
<1>3. CASE SpuriousWake \/ WorkerEnds
  BY <1>3 DEF SpuriousWake, WorkerEnds, ServerInv, TypeOK, AllOrNothing,
     AloneListed, list, conns
<1>4. QED
  BY <1>1, <1>2, <1>3 DEF Others

\* The steps of the loop, of the handlers and of the destroy keep it.
LEMMA EventThreadKeeps == ServerInv /\ EventThread => ServerInv'
<1> SUFFICES ASSUME ServerInv, EventThread PROVE ServerInv'
  OBVIOUS
<1>0. fault = "none"
  BY DEF EventThread
<1>1. CASE EpollWait
  <2>1. PICK data \in SUBSET {c \in watched : peer[c] \notin Ended} :
          batch' = [client : data, close : {FALSE}]
                     \cup [client : {c \in watched : peer[c] \in Ended},
                           close : {TRUE}]
                     \cup {e \in {Listen} : backlog # {}}
    BY <1>1 DEF EpollWait
  <2> DEFINE ended == {c \in watched : peer[c] \in Ended}
  <2>2. /\ data \subseteq Client /\ data \subseteq watched
        /\ ended \subseteq Client /\ ended \subseteq watched
        /\ \A c \in data : c \notin ended
    BY DEF ServerInv, TypeOK
  <2>3. \A e \in batch' : \/ e = Listen
                          \/ /\ e \in [client : Client, close : BOOLEAN]
                             /\ e.client \in data /\ e.close = FALSE
                          \/ /\ e \in [client : Client, close : BOOLEAN]
                             /\ e.client \in ended /\ e.close = TRUE
    BY <2>1, <2>2
  <2> HIDE DEF ended
  <2>4. batch' \subseteq Event
    BY <2>3 DEF Event
  <2>5. \A e \in batch' \ {Listen} : e.client \in watched /\ e.client # closing
    <3>1. closing \notin Client
      BY <1>1, ClientAssumption DEF EpollWait, ServerInv
    <3>2. QED
      BY <2>2, <2>3, <3>1
  <2>6. \A e, f \in batch' : e.client = f.client => e = f
    <3> SUFFICES ASSUME NEW e \in batch', NEW f \in batch', e.client = f.client
                 PROVE  e = f
      OBVIOUS
    <3>1. Listen.client \notin Client
      BY ClientAssumption DEF Listen
    <3>2. CASE e = Listen \/ f = Listen
      BY <2>3, <3>1, <3>2
    <3>3. CASE e # Listen /\ f # Listen
      <4>1. /\ e \in [client : Client, close : BOOLEAN]
            /\ f \in [client : Client, close : BOOLEAN]
            /\ e.close = f.close
        BY <2>2, <2>3, <3>3
      <4>2. QED
        BY <4>1
    <3>4. QED
      BY <3>2, <3>3
  <2>7. QED
    BY <1>1, <2>4, <2>5, <2>6
       DEF EpollWait, ServerInv, TypeOK, AllOrNothing, AloneListed, list, conns, join
<1>2. CASE BatchDone
  BY <1>2 DEF BatchDone, ServerInv, TypeOK, AllOrNothing, AloneListed, list, conns, join
<1>3. CASE ListenEvent \/ AcceptDone
  BY <1>3 DEF ListenEvent, AcceptDone, ServerInv, TypeOK, AllOrNothing,
     AloneListed, list, conns, join
<1>4. ASSUME NEW c \in Client, Accept(c) PROVE ServerInv'
  <2>1. /\ UNCHANGED <<batch, loop, walk>> /\ epc = "accept" /\ c \in backlog
        /\ backlog' = backlog \ {c}
        /\ peer' \in [Client -> {"none", "connected"} \cup Ended]
        /\ \A d \in Client : peer'[d] = "none" <=> peer[d] = "none"
    BY <1>4 DEF Accept, ErrorRead, Ended, ServerInv, TypeOK
  <2>2. CASE Dangling(clients)
    <3>1. ~alone
      BY <2>2 DEF Dangling, ServerInv, AloneListed
    <3>2. fault' = "list" /\ UNCHANGED <<list, conns, join, epc>>
      BY <1>4, <2>2 DEF Accept
    <3>3. QED
      BY <2>1, <3>1, <3>2
         DEF ServerInv, TypeOK, AllOrNothing, AloneListed, list, conns, join
  <2>3. CASE ~Dangling(clients)
    <3>1. /\ prev' = [prev EXCEPT ![c] = clients]
          /\ next' = [d \in Client |-> CASE d = c       -> clients
                                        [] d = clients -> c
                                        [] OTHER       -> next[d]]
          /\ clients' = c /\ alloc' = alloc \cup {c}
          /\ alone' = (alone /\ clients = NULL)
          /\ open' = open \cup {c} /\ fds' = fds \cup {c}
          /\ watched' = watched \cup {c}
          /\ \/ BeginClose(c, "_accept")
             \/ UNCHANGED <<join, epc>>
          /\ UNCHANGED fault
      BY <1>4, <2>3 DEF Accept
    <3>2. /\ open' \subseteq Client /\ fds' \subseteq Client
          /\ watched' \subseteq Client
          /\ open' = fds' /\ open' = watched'
      BY <1>0, <3>1 DEF ServerInv, TypeOK, AllOrNothing
    <3>3. /\ prev' \in [Client -> Pointer] /\ next' \in [Client -> Pointer]
          /\ clients' \in Pointer /\ alone' \in BOOLEAN
      BY <3>1 DEF ServerInv, TypeOK, Pointer
    <3>4. AloneListed'
      <4> SUFFICES ASSUME alone' PROVE AloneListed'
        BY DEF AloneListed
      <4>1. alone /\ clients = NULL
        BY <3>1
      <4>2. alloc = {}
        BY <4>1 DEF ServerInv, AloneListed
      <4>3. prev'[c] = NULL /\ next'[c] = NULL
        BY <3>1, <4>1 DEF ServerInv, TypeOK
      <4>4. alloc' = {c} /\ clients' = c /\ c # NULL
        BY <3>1, <4>2, ClientAssumption
      <4>5. QED
        BY <1>0, <3>1, <4>3, <4>4 DEF AloneListed
    <3>5. /\ \/ closing' = c /\ caller' = "_accept" /\ epc' = "join"
             \/ UNCHANGED <<closing, caller, epc>>
          /\ closing' \in Pointer /\ epc' \in {"accept", "join"}
          /\ caller' \in {"none", "_accept", "read", "on_event", "destroy"}
          /\ worker' \in {"none", "busy", "woken", "waiting", "exited"}
      BY <2>1, <3>1 DEF BeginClose, join, ServerInv, TypeOK, Pointer
    <3>6. TypeOK'
      BY <2>1, <3>1, <3>2, <3>3, <3>5 DEF ServerInv, TypeOK
    <3>7. c \notin watched /\ \A e \in batch \ {Listen} : e.client # c
      BY <2>1 DEF ServerInv
    <3>8. \A d \in Client : d \in backlog' \/ peer'[d] = "none" => d \notin watched'
      BY <2>1, <3>1 DEF ServerInv
    <3>9. \A e \in batch' \ {Listen} : e.client \in watched' /\ e.client # closing'
      BY <2>1, <3>1, <3>5, <3>7 DEF ServerInv
    <3>10. \/ closing' = NULL /\ caller' = "none" /\ epc' = "accept"
           \/ closing' = c /\ caller' = "_accept" /\ epc' = "join"
      BY <2>1, <3>5 DEF ServerInv
    <3>11. /\ watched' \subseteq alloc' /\ AllOrNothing'
           /\ \A d \in backlog' : peer'[d] # "none"
      BY <2>1, <3>1, <3>2 DEF ServerInv, TypeOK, AllOrNothing
    <3>12. \A e, f \in batch' : e.client = f.client => e = f
      BY <2>1 DEF ServerInv
    <3>13. QED
      BY <3>1, <3>4, <3>6, <3>8, <3>9, <3>10, <3>11, <3>12 DEF ServerInv
  <2>4. QED
    BY <2>2, <2>3
<1>5. ASSUME NEW c \in Client, ReadEvent(c) PROVE ServerInv'
  <2>1. /\ batch' \subseteq batch /\ batch' \subseteq Event
        /\ \A e \in batch' \ {Listen} : e.client \in watched \ {c}
        /\ \A e, f \in batch' : e.client = f.client => e = f
        /\ c \in watched
    BY <1>5, EventLeaves DEF ReadEvent
  <2>2. /\ UNCHANGED <<list, conns, backlog, loop, walk, fault>> /\ epc = "events"
        /\ peer' \in [Client -> {"none", "connected"} \cup Ended]
        /\ \A d \in Client : peer'[d] = "none" <=> peer[d] = "none"
    BY <1>5 DEF ReadEvent, ErrorRead, Ended, ServerInv, TypeOK
  <2>3. c \in open
    BY <1>0, <2>1 DEF ServerInv, AllOrNothing
  <2>4. CASE BeginClose(c, "read")
    BY <1>0, <2>1, <2>2, <2>3, <2>4, CloseBegins
  <2>5. CASE UNCHANGED <<join, epc>>
    BY <2>1, <2>2, <2>5
       DEF ServerInv, TypeOK, AllOrNothing, AloneListed, list, conns, join
  <2>6. QED
    BY <1>5, <2>4, <2>5 DEF ReadEvent
<1>6. ASSUME NEW c \in Client, CloseEvent(c) PROVE ServerInv'
  <2>1. /\ batch' \subseteq batch
        /\ \A e \in batch' \ {Listen} : e.client \in watched \ {c}
        /\ c \in watched
    BY <1>6, EventLeaves DEF CloseEvent
  <2>2. UNCHANGED <<list, conns, peer, backlog, loop, walk, fault>>
    BY <1>6 DEF CloseEvent
  <2>3. c \in open /\ BeginClose(c, "on_event")
    BY <1>0, <1>6, <2>1 DEF CloseEvent, ServerInv, AllOrNothing
  <2>4. peer' \in [Client -> {"none", "connected"} \cup Ended]
    BY <2>2 DEF ServerInv, TypeOK
  <2>5. QED
    BY <1>0, <2>1, <2>2, <2>3, <2>4, CloseBegins
<1>7. CASE Destroy
  BY <1>7 DEF Destroy, ServerInv, TypeOK, AllOrNothing, AloneListed, list, conns, join
<1>8. CASE DestroyClient
  <2>1. /\ UNCHANGED <<conns, peer, backlog, batch, loop>>
        /\ epc = "destroy" /\ walk # NULL /\ batch = {}
    BY <1>8 DEF DestroyClient, ServerInv
  <2>2. CASE Dangling(walk) /\ fault' = "list" /\ UNCHANGED <<list, join, epc, walk>>
    <3>1. ~alone
      BY <2>1, <2>2 DEF Dangling, ServerInv, AloneListed
    <3>2. QED
      BY <2>1, <2>2, <3>1
         DEF ServerInv, TypeOK, AllOrNothing, AloneListed, list, conns, join
  <2>3. CASE /\ walk \in open /\ BeginClose(walk, "destroy")
             /\ UNCHANGED <<list, walk, fault>>
    <3>1. peer' \in [Client -> {"none", "connected"} \cup Ended]
      BY <2>1 DEF ServerInv, TypeOK
    <3>2. QED
      BY <1>0, <2>1, <2>3, <3>1, CloseBegins
  <2>4. CASE /\ walk \in alloc \ open /\ Disconnect(walk) /\ walk' = next[walk]
             /\ UNCHANGED <<join, epc>>
    <3>1. /\ clients' \in Pointer /\ alloc' \subseteq Client
          /\ prev' \in [Client -> Pointer] /\ next' \in [Client -> Pointer]
          /\ alone' = alone /\ fault' \in {"none", "list"}
          /\ alloc \ {walk} \subseteq alloc' /\ AloneListed'
          /\ alone => clients' = NULL /\ next[walk] = NULL
      BY <1>0, <2>4, DisconnectKeeps DEF ServerInv
    <3>2. walk' \in Pointer
      BY <2>4 DEF ServerInv, TypeOK
    <3>3. watched' \subseteq alloc'
      BY <1>0, <2>1, <2>4, <3>1 DEF ServerInv, AllOrNothing, conns
    <3>4. TypeOK'
      BY <2>1, <2>4, <3>1, <3>2 DEF ServerInv, TypeOK, conns, join
    <3>5. AllOrNothing'
      BY <1>0, <2>1 DEF ServerInv, AllOrNothing, conns
    <3>6. QED
      BY <2>1, <2>4, <3>1, <3>3, <3>4, <3>5 DEF ServerInv, conns, join
  <2>5. QED
    BY <1>8, <2>2, <2>3, <2>4 DEF DestroyClient
<1>9. CASE Destroyed
  BY <1>9 DEF Destroyed, ServerInv, TypeOK, Pointer, AllOrNothing, AloneListed,
     conns, join
<1>10. CASE AcceptJoined
  <2>1. /\ UNCHANGED <<list, peer, backlog, batch, loop, walk>>
        /\ closing \in Client /\ closing' = NULL /\ caller' = "none"
        /\ worker' = "none" /\ NULL \notin Client
        /\ \A e \in batch \ {Listen} : e.client \in watched \ {closing}
        /\ open = watched /\ open = fds /\ epc = "join" /\ caller = "_accept"
    BY <1>0, <1>10, JoinReturns, ClientAssumption DEF AcceptJoined
  <2>2. CASE fault' = "root" /\ UNCHANGED <<conns, epc>>
    BY <2>1, <2>2 DEF ServerInv, TypeOK, Pointer, AllOrNothing, AloneListed, list, conns
  <2>3. CASE Hangup(closing) /\ epc' = "accept" /\ UNCHANGED fault
    BY <1>0, <2>1, <2>3
       DEF Hangup, ServerInv, TypeOK, Pointer, AllOrNothing, AloneListed, list
  <2>4. QED
    BY <1>10, <2>2, <2>3 DEF AcceptJoined
<1>11. CASE ReadJoined
  <2>1. /\ UNCHANGED <<list, peer, backlog, batch, loop, walk, fault>>
        /\ closing \in Client /\ closing' = NULL /\ caller' = "none"
        /\ worker' = "none" /\ NULL \notin Client /\ epc' = "events"
        /\ \A e \in batch \ {Listen} : e.client \in watched \ {closing}
        /\ open = watched /\ open = fds
    BY <1>0, <1>11, JoinReturns, ClientAssumption DEF ReadJoined
  <2>2. QED
    BY <1>0, <1>11, <2>1
       DEF ReadJoined, Hangup, ServerInv, TypeOK, Pointer, AllOrNothing,
           AloneListed, list
<1>12. CASE CloseJoined
  <2>1. /\ UNCHANGED <<peer, backlog, batch, loop, walk>>
        /\ closing \in Client /\ closing \in alloc
        /\ closing' = NULL /\ caller' = "none"
        /\ worker' = "none" /\ NULL \notin Client /\ epc' = "events"
        /\ \A e \in batch \ {Listen} : e.client \in watched \ {closing}
        /\ open = watched /\ open = fds
    BY <1>0, <1>12, JoinReturns, ClientAssumption DEF CloseJoined
  <2>2. /\ clients' \in Pointer /\ alloc' \subseteq Client
        /\ prev' \in [Client -> Pointer] /\ next' \in [Client -> Pointer]
        /\ alone' = alone /\ fault' \in {"none", "list"}
        /\ alloc \ {closing} \subseteq alloc' /\ AloneListed'
    BY <1>0, <1>12, <2>1, DisconnectKeeps DEF CloseJoined, ServerInv
  <2>3. /\ open' \subseteq Client /\ watched' = watched \ {closing}
        /\ open' = watched' /\ open' = fds'
    BY <1>12, <2>1 DEF CloseJoined, Hangup, ServerInv, TypeOK
  <2>4. TypeOK'
    BY <2>1, <2>2, <2>3 DEF ServerInv, TypeOK, Pointer
  <2>5. QED
    BY <2>1, <2>2, <2>3, <2>4 DEF ServerInv, AllOrNothing
<1>13. CASE DestroyJoined
  <2>1. /\ UNCHANGED <<list, fds, watched, peer, backlog, batch, epc, loop, walk>>
        /\ closing' = NULL /\ caller' = "none" /\ worker' = "none"
        /\ open' = open \ {closing} /\ fault' = "root"
        /\ NULL \notin Client /\ epc = "join"
    BY <1>0, <1>13, JoinReturns, ClientAssumption DEF DestroyJoined
  <2>2. QED
    BY <2>1 DEF ServerInv, TypeOK, Pointer, AllOrNothing, AloneListed, list
<1>14. QED
  BY <1>1, <1>2, <1>3, <1>4, <1>5, <1>6, <1>7, <1>8, <1>9, <1>10, <1>11, <1>12,
     <1>13 DEF EventThread

\* The server starts without clients.
LEMMA InitHolds == Init => ServerInv
<1> SUFFICES ASSUME Init PROVE ServerInv
  OBVIOUS
<1>1. TypeOK
  BY DEF Init, TypeOK, Pointer
<1>2. QED
  BY <1>1 DEF Init, ServerInv, AllOrNothing, AloneListed

\* The invariant is kept by every step of the loop, the peers and the shutdown.
THEOREM ServerInvariant == Spec => []ServerInv
<1>1. ServerInv /\ [Next]_vars => ServerInv'
  <2>1. ServerInv /\ UNCHANGED vars => ServerInv'
    BY DEF vars, list, conns, join, ServerInv, TypeOK, AllOrNothing, AloneListed
  <2>2. QED
    BY <2>1, OthersKeep, EventThreadKeeps DEF Next
<1>2. QED
  BY InitHolds, <1>1, PTL DEF Spec

\* For any number of clients that connect, close and reset at any moment: epoll
\* and the loop never refer to a freed client, descriptor, event and connection
\* of a client end together, and no link to freed memory is followed, and the
\* list is right, while clients come one at a time.
THEOREM ServerSafe == Spec => [](EventsAreLive /\ AllOrNothing /\ AloneListed)
<1>1. ServerInv => EventsAreLive /\ AllOrNothing /\ AloneListed
  BY DEF ServerInv, EventsAreLive
<1>2. QED
  BY <1>1, ServerInvariant, PTL

\* The client list, the connections and the batch keep their types.
THEOREM TypeCorrect == Spec => []TypeOK
<1>1. ServerInv => TypeOK
  BY DEF ServerInv
<1>2. QED
  BY <1>1, ServerInvariant, PTL

\* Whichever of read and CLOSE event ends a connection, its data, its descriptor
\* and its registration with epoll are given up together.
THEOREM EndsTogether == Spec => []AllOrNothing
  BY ServerSafe, PTL

\* While clients come one at a time, the list that _accept and _disconnect keep
\* holds the one that is connected.
THEOREM OneClientListed == Spec => []AloneListed
  BY ServerSafe, PTL
=============================================================================
