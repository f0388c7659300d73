------------------------------- MODULE Server -------------------------------
(***************************************************************************)
(* The server's clients (src/excom/server.c): accept, the events of epoll, *)
(* disconnect and destroy, on the doubly linked list server->clients.  All *)
(* of it runs in the event thread; the peers and SIGINT interleave with it.*)
(*                                                                         *)
(* Of excom_server_client_read and _close only what server.c depends on is *)
(* here: the end of the connection, the join of its worker, which may not  *)
(* return, the event's removal and the close of the descriptor.            *)
(* ServerClient has the rest.                                              *)
(***************************************************************************)
CONSTANTS Client,     \* the client structs that malloc may return, each once
          NULL

ASSUME ClientAssumption == NULL \notin Client

VARIABLES clients,      \* server->clients
          prev, next,   \* _prev and _next of a client
          alloc,        \* the clients that are allocated
          open,         \* the clients whose data is not NULL
          fds,          \* the clients whose descriptor is open
          watched,      \* the clients whose event is registered with epoll
          peer,         \* what the other end of each connection has done
          backlog,      \* connections that wait to be accepted
          batch,        \* events epoll_wait returned, not yet handled
          epc,          \* place of the event thread
          loop,         \* base.loop
          walk,         \* the client that excom_server_destroy is at
          closing,      \* the client that is being closed, or NULL
          caller,       \* the function that closes it
          worker,       \* where the worker of that client is
          alone,        \* history: no two clients were ever on the list
          fault         \* invalid memory was used: freed memory through a
                        \* "list" link, or through an event's "root"

list  == <<clients, prev, next, alloc, alone>>
conns == <<open, fds, watched>>
join  == <<closing, caller, worker>>
vars  == <<list, conns, join, peer, backlog, batch, epc, loop, walk, fault>>

Pointer == Client \cup {NULL}

\* A peer that has ended has closed its socket, or reset the connection.
Ended == {"closed", "reset"}

Listen == [client |-> NULL, close |-> FALSE]

Event == [client : Client, close : BOOLEAN] \cup {Listen}

\* excom_server_init, _bind and the beginning of _run.
Init ==
  /\ clients = NULL
  /\ prev = [c \in Client |-> NULL] /\ next = [c \in Client |-> NULL]
  /\ alloc = {} /\ open = {} /\ fds = {} /\ watched = {}
  /\ peer = [c \in Client |-> "none"]
  /\ backlog = {} /\ batch = {} /\ epc = "wait" /\ loop = TRUE /\ walk = NULL
  /\ closing = NULL /\ caller = "none" /\ worker = "none"
  /\ alone = TRUE /\ fault = "none"

-----------------------------------------------------------------------------
(***************************************************************************)
(* The other ends, and what stops the loop.                                *)
(***************************************************************************)

PeerConnects(c) ==
  /\ peer[c] = "none"
  /\ peer' = [peer EXCEPT ![c] = "connected"] /\ backlog' = backlog \cup {c}
  /\ UNCHANGED <<list, conns, join, batch, epc, loop, walk, fault>>

\* The peer may end the connection before the server has accepted it.
PeerEnds(c) ==
  /\ peer[c] = "connected"
  /\ \E how \in Ended : peer' = [peer EXCEPT ![c] = how]
  /\ UNCHANGED <<list, conns, join, backlog, batch, epc, loop, walk, fault>>

\* excom_event_loop_end, from the SIGINT handler or an error of the socket.
LoopEnd ==
  /\ loop /\ loop' = FALSE
  /\ UNCHANGED <<list, conns, join, peer, backlog, batch, epc, walk, fault>>

-----------------------------------------------------------------------------
(***************************************************************************)
(* The close of a connection waits for its worker.                         *)
(***************************************************************************)

\* excom_server_client_close up to the join.  A worker that waits has been woken
\* by the broadcast; one that is busy with a packet has not heard it.
BeginClose(c, by) ==
  /\ closing' = c /\ caller' = by
  /\ worker' \in {"woken", "busy"}
  /\ epc' = "join"

\* The worker looks at disconnected behind excom_cond_wait only: one that was
\* woken exits; one that was busy exits when it finds packets on the list, and
\* otherwise waits for a broadcast that has passed.
WorkerEnds ==
  /\ \/ worker = "woken" /\ worker' = "exited"
     \/ worker = "busy" /\ worker' \in {"exited", "waiting"}
  /\ UNCHANGED <<list, conns, closing, caller, peer, backlog, batch, epc, loop,
                 walk, fault>>

\* excom_cond_wait returns for no reason.
SpuriousWake ==
  /\ worker = "waiting" /\ worker' = "woken"
  /\ UNCHANGED <<list, conns, closing, caller, peer, backlog, batch, epc, loop,
                 walk, fault>>

\* The join returns, and the caller's function continues.
Joined(by) ==
  /\ epc = "join" /\ caller = by /\ worker = "exited"
  /\ closing' = NULL /\ caller' = "none" /\ worker' = "none"

-----------------------------------------------------------------------------
(***************************************************************************)
(* The loop.                                                               *)
(***************************************************************************)

\* epoll_wait returns every connection that has ended and the listening socket
\* if someone waits; data may have arrived from any of the others.  maxevents
\* is 32: bound, no more than that are ready at once.
EpollWait ==
  /\ epc = "wait" /\ loop
  /\ \E data \in SUBSET {c \in watched : peer[c] \notin Ended} :
       batch' = [client : data, close : {FALSE}]
                  \cup [client : {c \in watched : peer[c] \in Ended}, close : {TRUE}]
                  \cup {e \in {Listen} : backlog # {}}
  /\ batch' # {}
  /\ epc' = "events"
  /\ UNCHANGED <<list, conns, join, peer, backlog, loop, walk, fault>>

BatchDone ==
  /\ epc = "events" /\ batch = {}
  /\ epc' = "wait"
  /\ UNCHANGED <<list, conns, join, peer, backlog, batch, loop, walk, fault>>

\* on_event for the listening socket.
ListenEvent ==
  /\ epc = "events" /\ Listen \in batch
  /\ batch' = batch \ {Listen}
  /\ epc' = "accept"
  /\ UNCHANGED <<list, conns, join, peer, backlog, loop, walk, fault>>

\* A pointer to a client that has been freed.
Dangling(p) == p # NULL /\ p \notin alloc

\* read(2) reports a reset once, which excom_server_client_read ignores; the next
\* read finds the end of the stream.
ErrorRead(c) == [peer EXCEPT ![c] = IF @ = "reset" THEN "closed" ELSE @]

\* excom_server_client_read finds the end of the stream.
EndOfStream(c) == c \in open /\ peer[c] = "closed"

\* One turn of _accept: the client becomes the head of the list, and the old
\* head's _next is made to point back to it.  The first read may find the end.
Accept(c) ==
  /\ epc = "accept" /\ c \in backlog
  /\ backlog' = backlog \ {c}
  /\ IF Dangling(clients)
       THEN fault' = "list" /\ UNCHANGED <<list, conns, join, epc>>
       ELSE /\ prev' = [prev EXCEPT ![c] = clients]
            /\ next' = [d \in Client |-> CASE d = c       -> clients
                                          [] d = clients -> c
                                          [] OTHER       -> next[d]]
            /\ clients' = c
            /\ alloc' = alloc \cup {c}
            /\ alone' = (alone /\ clients = NULL)
            /\ open' = open \cup {c} /\ fds' = fds \cup {c}
            /\ watched' = watched \cup {c}
            /\ IF peer[c] = "closed"
                 THEN BeginClose(c, "_accept")
                 ELSE UNCHANGED <<join, epc>>
            /\ UNCHANGED fault
  /\ peer' = ErrorRead(c)
  /\ UNCHANGED <<batch, loop, walk>>

\* accept(2) fails: nobody is waiting, or some other error.
AcceptDone ==
  /\ epc = "accept"
  /\ epc' = "events"
  /\ UNCHANGED <<list, conns, join, peer, backlog, batch, loop, walk, fault>>

\* _disconnect: unlinks and frees the client.
Disconnect(c) ==
  IF Dangling(prev[c]) \/ Dangling(next[c])
    THEN fault' = "list" /\ UNCHANGED list
    ELSE /\ clients' = IF clients = c THEN next[c] ELSE clients
         /\ next' = [d \in Client |-> IF d = prev[c] THEN next[c] ELSE next[d]]
         /\ prev' = [d \in Client |-> IF d = next[c] THEN prev[c] ELSE prev[d]]
         /\ alloc' = alloc \ {c}
         /\ UNCHANGED <<alone, fault>>

\* Mutant: the event is not removed and the descriptor not closed.
MutHangup(c) == open' = open \ {c} /\ UNCHANGED <<watched, fds>>

\* The rest of excom_server_client_close, behind the join, and close(2).
Hangup(c) ==
  open' = open \ {c} /\ watched' = watched \ {c} /\ fds' = fds \ {c}

\* The event that _accept passes to the read has no root, which
\* excom_event_remove then follows: a crash, or no effect, and close(2) removes
\* the event.
AcceptJoined ==
  /\ Joined("_accept")
  /\ \/ fault' = "root" /\ UNCHANGED <<conns, epc>>
     \/ Hangup(closing) /\ epc' = "accept" /\ UNCHANGED fault
  /\ UNCHANGED <<list, peer, backlog, batch, loop, walk>>

\* A READ event: at the end of the stream the connection is closed.
ReadEvent(c) ==
  /\ epc = "events" /\ [client |-> c, close |-> FALSE] \in batch
  /\ batch' = batch \ {[client |-> c, close |-> FALSE]}
  /\ IF EndOfStream(c)
       THEN BeginClose(c, "read")
       ELSE UNCHANGED <<join, epc>>
  /\ peer' = ErrorRead(c)
  /\ UNCHANGED <<list, conns, backlog, loop, walk, fault>>

ReadJoined ==
  /\ Joined("read")
  /\ Hangup(closing)
  /\ epc' = "events"
  /\ UNCHANGED <<list, peer, backlog, batch, loop, walk, fault>>

\* Mutant: only the end of the stream closes the connection.
MutCloseEvent(c) ==
  /\ epc = "events" /\ [client |-> c, close |-> TRUE] \in batch
  /\ batch' = batch \ {[client |-> c, close |-> TRUE]}
  /\ IF EndOfStream(c)
       THEN BeginClose(c, "on_event")
       ELSE UNCHANGED <<join, epc>>
  /\ UNCHANGED <<list, conns, peer, backlog, loop, walk, fault>>

\* A READ and CLOSE event, of a client that is open as all that epoll watches
\* are: the connection is closed by the read or after it.
CloseEvent(c) ==
  /\ epc = "events" /\ [client |-> c, close |-> TRUE] \in batch
  /\ batch' = batch \ {[client |-> c, close |-> TRUE]}
  /\ BeginClose(c, "on_event")
  /\ UNCHANGED <<list, conns, peer, backlog, loop, walk, fault>>

\* ... and then the client is unlinked and freed.
CloseJoined ==
  /\ Joined("on_event")
  /\ Hangup(closing)
  /\ Disconnect(closing)
  /\ epc' = "events"
  /\ UNCHANGED <<peer, backlog, batch, loop, walk>>

-----------------------------------------------------------------------------
(***************************************************************************)
(* excom_server_destroy, when the loop has ended.                          *)
(***************************************************************************)

Destroy ==
  /\ epc = "wait" /\ ~loop
  /\ walk' = clients
  /\ epc' = "destroy"
  /\ UNCHANGED <<list, conns, join, peer, backlog, batch, loop, fault>>

\* A client that has been closed, or is freed, or is open.
DestroyClient ==
  /\ epc = "destroy" /\ walk # NULL
  /\ \/ /\ Dangling(walk)
        /\ fault' = "list" /\ UNCHANGED <<list, join, epc, walk>>
     \/ /\ walk \in open
        /\ BeginClose(walk, "destroy")
        /\ UNCHANGED <<list, walk, fault>>
     \/ /\ walk \in alloc \ open
        /\ Disconnect(walk)
        /\ walk' = next[walk]
        /\ UNCHANGED <<join, epc>>
  /\ UNCHANGED <<conns, peer, backlog, batch, loop>>

\* The close of a connection that is open follows the root of the shutdown
\* event, which is NULL.
DestroyJoined ==
  /\ Joined("destroy")
  /\ open' = open \ {closing} /\ fault' = "root"
  /\ UNCHANGED <<list, fds, watched, peer, backlog, batch, epc, loop, walk>>

Destroyed ==
  /\ epc = "destroy" /\ walk = NULL
  /\ clients' = NULL
  /\ epc' = "destroyed"
  /\ UNCHANGED <<prev, next, alloc, alone, conns, join, peer, backlog, batch, loop,
                 walk, fault>>

-----------------------------------------------------------------------------
EventThread ==
  /\ fault = "none"
  /\ \/ EpollWait \/ BatchDone \/ ListenEvent \/ AcceptDone
     \/ \E c \in Client : Accept(c) \/ ReadEvent(c) \/ CloseEvent(c)
     \/ AcceptJoined \/ ReadJoined \/ CloseJoined
     \/ Destroy \/ DestroyClient \/ DestroyJoined \/ Destroyed

Others ==
  LoopEnd \/ SpuriousWake \/ \E c \in Client : PeerConnects(c) \/ PeerEnds(c)

Next == EventThread \/ WorkerEnds \/ Others

Spec == Init /\ [][Next]_vars

\* The event thread and the worker it waits for keep running.
FairSpec == Spec /\ WF_vars(EventThread) /\ WF_vars(WorkerEnds)

-----------------------------------------------------------------------------
(***************************************************************************)
(* Properties.                                                             *)
(***************************************************************************)

\* Every field keeps its type; in particular every link is NULL or a client.
TypeOK ==
  /\ clients \in Pointer /\ walk \in Pointer
  /\ prev \in [Client -> Pointer] /\ next \in [Client -> Pointer]
  /\ alloc \subseteq Client /\ open \subseteq Client
  /\ fds \subseteq Client /\ watched \subseteq Client
  /\ peer \in [Client -> {"none", "connected"} \cup Ended]
  /\ backlog \subseteq Client /\ batch \subseteq Event
  /\ epc \in {"wait", "events", "accept", "join", "destroy", "destroyed"}
  /\ closing \in Pointer
  /\ caller \in {"none", "_accept", "read", "on_event", "destroy"}
  /\ worker \in {"none", "busy", "woken", "waiting", "exited"}
  /\ loop \in BOOLEAN /\ alone \in BOOLEAN
  /\ fault \in {"none", "list", "root"}

\* Neither epoll nor the events the loop is working through refer to a client
\* that has been freed: excom_event_epoll_loop follows data.ptr unseen.
EventsAreLive == watched \cup {e.client : e \in batch \ {Listen}} \subseteq alloc

\* As long as the server runs, a client has a connection, a descriptor and an
\* event, or none of the three: nothing is left behind by the two ways in which
\* a connection ends.
AllOrNothing == fault = "none" => open = fds /\ open = watched

\* As long as no client is accepted while another is on the list, the list is
\* the allocated client, and it takes two to follow a link to freed memory.
AloneListed ==
  alone => /\ alloc = {clients} \ {NULL}
           /\ \A c \in alloc : prev[c] = NULL /\ next[c] = NULL
           /\ fault # "list"

\* The inductive invariant: an event that waits in the batch is about a client
\* that is still watched, and is the only one about it, and not about the client
\* that is being closed, which is open until the join returns; a client that waits
\* to be accepted is not watched; and excom_server_destroy begins at the head of
\* the list.
ServerInv ==
  /\ TypeOK
  /\ watched \subseteq alloc /\ AllOrNothing /\ AloneListed
  /\ \A e \in batch \ {Listen} : e.client \in watched /\ e.client # closing
  /\ \A e, f \in batch : e.client = f.client => e = f
  /\ epc \in {"wait", "destroy", "destroyed"} \/ caller = "destroy" => batch = {}
  /\ IF epc = "join" THEN fault = "none" => closing \in open
                     ELSE closing = NULL /\ caller = "none"
  /\ \A c \in Client : c \in backlog \/ peer[c] = "none" => c \notin watched
  /\ \A c \in backlog : peer[c] # "none"
  /\ epc = "destroy" /\ alone => walk = clients

\* The event thread is in the join of a worker that has missed the broadcast.
Hung == epc = "join" /\ worker = "waiting"

\* A connection that its peer has ended is closed, unless the server stops or the
\* close of some connection does not return, because its worker was busy when it
\* was told to end: a worker that waits, or finds more packets, hears of it.
EndedIsClosed ==
  \A c \in Client :
    (c \in open /\ peer[c] \in Ended)
      ~> (c \notin open \/ fault # "none" \/ ~loop \/ Hung)
=============================================================================
