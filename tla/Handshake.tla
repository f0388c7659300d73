------------------------------ MODULE Handshake ------------------------------
(***************************************************************************)
(* The handshake between a client and the server (src/excom-server):       *)
(* protocol version, public keys, ping and pong, and the first command.    *)
(* The client is the bundled one (src/excom-client), or an application     *)
(* with a packet handler of its own, which sends packets as it likes.      *)
(*                                                                         *)
(* The bundled client reads, handles and answers in one thread, one packet *)
(* per READ event.  In the server the event thread reads packets, decoding *)
(* each with the keys as they are at that moment, while the worker handles *)
(* the packets read before and changes the keys.  The list between the two *)
(* is a queue here and the socket is written whole: ServerClient and       *)
(* WriteInterest are about the races of those two.                         *)
(*                                                                         *)
(* A packet is its type, the version it carries, and whether its body was  *)
(* written encrypted.  An empty body is not encrypted whatever the keys.   *)
(* excom_pdecrypt_buffer2 moves pos past the nonce and read_packet past    *)
(* the decoded fields, not past the whole ciphertext, and a body read in   *)
(* the wrong mode moves it by a length that means nothing.  The server is  *)
(* then astray: what follows may be taken for any packet or for none.      *)
(***************************************************************************)
EXTENDS Integers, Sequences

CONSTANTS ServerVersion,   \* the server's <<major, minor, patch>>
          ClientVersions,  \* the versions a client may be built with
          Clients,         \* whether it may be, or not be, the bundled one
          MaxSent          \* bound: the packets another client sends

Version == Nat \X Nat \X Nat

ASSUME VersionAssumption ==
  ServerVersion \in Version /\ ClientVersions \subseteq Version
ASSUME ClientAssumption == Clients \subseteq BOOLEAN /\ MaxSent \in Nat

States == {"PREHANDSHAKE", "PREENCRYPT", "ENCRYPT", "BODY", "INVALID"}

Rank(state) == CASE state = "PREHANDSHAKE" -> 0
                 [] state = "PREENCRYPT"   -> 1
                 [] state = "ENCRYPT"      -> 2
                 [] state = "BODY"         -> 3

Empty == {"ok", "ping", "pong"}       \* packets without a body

Types == Empty \cup {"reject", "error", "protocol_version", "public_key",
                     "command", "command_response"}

Message == [type : Types, cipher : BOOLEAN]

\* A packet as the server has read it: its body came in clear or encrypted, was
\* read in the wrong mode or with the wrong key, or is no packet's body.
Read == [type : Types, body : {"clear", "cipher", "garbled", "stray"}]

VARIABLES version,            \* the version of this client
          bundled,            \* whether it is the bundled client
          cstate, sstate,     \* the protocol state of either end
          cactive, sactive,   \* keys.remote.active of either end
          ckey, skey,         \* whose key keys.remote.pkey holds
          c2s, s2c,           \* the socket, in either direction
          cin,                \* packets in the client's buf.in
          queue,              \* packets the server has read, as it read them
          astray,             \* buf.in.pos is not at the start of a packet
          out,                \* packets in the server's buf.out
          interest,           \* the event thread watches for writing
          spc,                \* what the worker still has to do
          sent,               \* packets another client has sent
          accepted            \* the commands the server has accepted

client == <<version, bundled>>
cvars == <<cstate, cactive, ckey, cin, sent>>
svars == <<sstate, sactive, skey, queue, astray, out, interest, spc, accepted>>
vars  == <<client, cvars, svars, c2s, s2c>>

\* excom_protocol_write_packet: the body is encrypted once the keys are active.
Packet(type, active) == [type |-> type, cipher |-> active /\ type \notin Empty]

\* excom_protocol_read_packet makes sense of a body only in the mode it was
\* written in, and with the key it was written with.
Intelligible(m, active, mine, theirs) ==
  m.type \in Empty \/ (m.cipher = active /\ (m.cipher => mine = theirs))

\* What both ends compute their common key from: with the peer's key it is the
\* same at both ends, and so it is with the zeroed key of excom_encrypt_init.
CommonKey(remote) == IF remote = "zero" THEN "zero" ELSE "common"

Diff(a, b) == IF a > b THEN a - b ELSE b - a

\* The test of the server's protocol_version handler.
Compatible(v) ==
  /\ v[1] = ServerVersion[1]
  /\ Diff(v[2], ServerVersion[2]) <= 3
  /\ Diff(v[3], ServerVersion[3]) <= 10

\* After excom_client_connect, which sends the version, and the server's accept.
Init ==
  /\ version \in ClientVersions /\ bundled \in Clients
  /\ cstate = "PREHANDSHAKE" /\ sstate = "PREHANDSHAKE"
  /\ cactive = FALSE /\ sactive = FALSE
  /\ ckey = "zero" /\ skey = "zero"
  /\ c2s = IF bundled THEN <<Packet("protocol_version", FALSE)>> ELSE <<>>
  /\ s2c = <<>>
  /\ cin = <<>> /\ queue = <<>> /\ out = <<>>
  /\ interest = FALSE
  /\ spc = "idle"
  /\ sent = 0 /\ accepted = <<>> /\ astray = FALSE

-----------------------------------------------------------------------------
(***************************************************************************)
(* The bundled client.                                                     *)
(***************************************************************************)

ClientSends(type, active) == c2s' = Append(c2s, Packet(type, active))

\* Mutant: the client encrypts from its own key on.
MutClientOk ==
  /\ IF cstate = "PREHANDSHAKE"
       THEN /\ cstate' = "PREENCRYPT" /\ cactive' = TRUE
            /\ ClientSends("public_key", TRUE)
       ELSE UNCHANGED <<cstate, cactive, c2s>>
  /\ UNCHANGED ckey

ClientOk ==
  /\ IF cstate = "PREHANDSHAKE"
       THEN cstate' = "PREENCRYPT" /\ ClientSends("public_key", cactive)
       ELSE UNCHANGED <<cstate, c2s>>
  /\ UNCHANGED <<cactive, ckey>>

\* memcpy copies keys.remote.pkey over the packet's key, not the reverse.
ClientPublicKey ==
  /\ IF cstate = "PREENCRYPT"
       THEN /\ cactive' = TRUE /\ cstate' = "ENCRYPT"
            /\ ClientSends("ping", TRUE)
       ELSE ClientSends("error", cactive) /\ UNCHANGED <<cstate, cactive>>
  /\ UNCHANGED ckey

ClientPong ==
  /\ IF cstate = "ENCRYPT"
       THEN cstate' = "BODY" /\ ClientSends("command", cactive)
       ELSE UNCHANGED <<cstate, c2s>>
  /\ UNCHANGED <<cactive, ckey>>

\* The handlers of reject and error do nothing.
ClientNothing == UNCHANGED <<cstate, cactive, ckey, c2s>>

\* clread, check_packet, the handler, and clwrite.
ClientReadEvent ==
  /\ bundled /\ s2c # <<>>
  /\ LET all == cin \o s2c IN
       /\ CASE Head(all).type = "ok"         -> ClientOk
            [] Head(all).type = "public_key" -> ClientPublicKey
            [] Head(all).type = "pong"       -> ClientPong
            [] Head(all).type \in {"reject", "error"} -> ClientNothing
       /\ cin' = Tail(all)
  /\ s2c' = <<>>
  /\ UNCHANGED <<client, sent, svars>>

-----------------------------------------------------------------------------
(***************************************************************************)
(* Another client sends packets in any order, encrypted once it has seen   *)
(* the server's key.                                                       *)
(***************************************************************************)

OtherSends(type) ==
  /\ ~bundled /\ sent < MaxSent
  /\ sent' = sent + 1
  /\ ClientSends(type, cactive)
  /\ UNCHANGED <<client, cstate, cactive, ckey, cin, svars, s2c>>

OtherReads ==
  /\ ~bundled /\ s2c # <<>>
  /\ cactive' = (cactive \/ Head(s2c).type = "public_key")
  /\ s2c' = Tail(s2c)
  /\ UNCHANGED <<client, cstate, ckey, cin, sent, svars, c2s>>

-----------------------------------------------------------------------------
(***************************************************************************)
(* The server's event thread.                                              *)
(***************************************************************************)

\* What bytes that are not a packet may be taken for: bound, at most one packet
\* at a time.
Garbage == {<<>>} \cup {<<g>> : g \in [type : Types, body : {"stray"}]}

Body(m) ==
  IF Intelligible(m, sactive, CommonKey(skey), CommonKey(ckey))
    THEN IF m.cipher THEN "cipher" ELSE "clear"
    ELSE "garbled"

\* A packet is decoded with the keys as they are now.
ServerReads ==
  /\ c2s # <<>> /\ ~astray
  /\ LET m == Head(c2s)
     IN /\ astray' = (Body(m) # "clear")
        /\ \E g \in IF astray' THEN Garbage ELSE {<<>>} :
             queue' = queue \o <<[type |-> m.type, body |-> Body(m)]>> \o g
  /\ c2s' = Tail(c2s)
  /\ UNCHANGED <<client, cvars, s2c, sstate, sactive, skey, out, interest, spc,
                 accepted>>

ServerReadsAstray ==
  /\ c2s # <<>> /\ astray
  /\ \E g \in Garbage : queue' = queue \o g
  /\ c2s' = Tail(c2s)
  /\ UNCHANGED <<client, cvars, s2c, sstate, sactive, skey, astray, out,
                 interest, spc, accepted>>

ServerWrites ==
  /\ interest
  /\ s2c' = s2c \o out
  /\ out' = <<>> /\ interest' = FALSE
  /\ UNCHANGED <<client, cvars, c2s, sstate, sactive, skey, queue, astray, spc,
                 accepted>>

-----------------------------------------------------------------------------
(***************************************************************************)
(* The server's worker.  A handler appends its reply to buf.out first; what *)
(* it does after that is a step of its own, which ends with the worker     *)
(* asking for a WRITE event.                                               *)
(***************************************************************************)

\* Mutant: the reply is sent twice.
MutReply(type) ==
  out' = out \o <<Packet(type, sactive), Packet(type, sactive)>>

Reply(type) == out' = Append(out, Packet(type, sactive))

\* The packet is done with: its handler returned.
Done == queue' = Tail(queue) /\ spc' = "idle" /\ interest' = TRUE

Handling(type) == spc = "idle" /\ queue # <<>> /\ Head(queue).type = type

\* The fields of the packet are those the client wrote.
Meant == Head(queue).body \in {"clear", "cipher"}

\* Mutant: require(PREHANDSHAKE) is missing.
MutHandleAnyVersion ==
  /\ Handling("protocol_version")
  /\ \/ /\ Compatible(version) \/ ~Meant
        /\ sstate' = "PREENCRYPT" /\ Reply("ok")
     \/ /\ ~Compatible(version) \/ ~Meant
        /\ Reply("reject") /\ UNCHANGED sstate
  /\ Done
  /\ UNCHANGED <<client, cvars, c2s, s2c, sactive, skey, astray, accepted>>

HandleProtocolVersion ==
  /\ Handling("protocol_version")
  /\ \/ /\ sstate = "PREHANDSHAKE"
        /\ Compatible(version) \/ ~Meant
        /\ sstate' = "PREENCRYPT" /\ Reply("ok")
     \/ /\ sstate = "PREHANDSHAKE"
        /\ ~Compatible(version) \/ ~Meant
        /\ Reply("reject") /\ UNCHANGED sstate
     \/ /\ sstate # "PREHANDSHAKE"
        /\ Reply("error") /\ UNCHANGED sstate
  /\ Done
  /\ UNCHANGED <<client, cvars, c2s, s2c, sactive, skey, astray, accepted>>

\* Mutant: the keys are made active before the reply.
MutHandlePublicKey ==
  /\ Handling("public_key")
  /\ \/ /\ sstate = "PREENCRYPT"
        /\ out' = Append(out, Packet("public_key", TRUE))
        /\ spc' = "activate" /\ UNCHANGED <<queue, interest>>
     \/ /\ sstate # "PREENCRYPT" \/ ~Meant \/ ~bundled
        /\ Reply("error") /\ Done
  /\ UNCHANGED <<client, cvars, c2s, s2c, sstate, sactive, skey, astray,
                 accepted>>

\* A key that the bundled client meant has the right size.
HandlePublicKey ==
  /\ Handling("public_key")
  /\ \/ /\ sstate = "PREENCRYPT"
        /\ Reply("public_key")
        /\ spc' = "activate" /\ UNCHANGED <<queue, interest>>
     \/ /\ sstate # "PREENCRYPT" \/ ~Meant \/ ~bundled
        /\ Reply("error") /\ Done
  /\ UNCHANGED <<client, cvars, c2s, s2c, sstate, sactive, skey, astray,
                 accepted>>

\* Mutant: the server's own key is stored as the remote key.
MutActivateOwn ==
  /\ spc = "activate"
  /\ sactive' = TRUE /\ sstate' = "ENCRYPT" /\ skey' = "server"
  /\ Done
  /\ UNCHANGED <<client, cvars, c2s, s2c, astray, out, accepted>>

\* Mutant: the state is not advanced.
MutActivate ==
  /\ spc = "activate"
  /\ sactive' = TRUE
  /\ Done
  /\ UNCHANGED <<client, cvars, c2s, s2c, sstate, skey, astray, out, accepted>>

\* keys.remote.active and state, after the reply.  As in the client, memcpy
\* does not store the key.
Activate ==
  /\ spc = "activate"
  /\ sactive' = TRUE /\ sstate' = "ENCRYPT"
  /\ Done
  /\ UNCHANGED <<client, cvars, c2s, s2c, skey, astray, out, accepted>>

HandlePing ==
  /\ Handling("ping")
  /\ Reply("pong") /\ spc' = "advance"
  /\ UNCHANGED <<client, cvars, c2s, s2c, sstate, sactive, skey, queue,
                 astray, interest, accepted>>

\* Mutant: a ping leads to BODY from any state.
MutAdvanceToBody ==
  /\ spc = "advance"
  /\ sstate' = "BODY"
  /\ Done
  /\ UNCHANGED <<client, cvars, c2s, s2c, sactive, skey, astray, out, accepted>>

AdvanceToBody ==
  /\ spc = "advance"
  /\ sstate' = IF sstate = "ENCRYPT" THEN "BODY" ELSE sstate
  /\ Done
  /\ UNCHANGED <<client, cvars, c2s, s2c, sactive, skey, astray, out, accepted>>

HandleCommand(type) ==
  /\ Handling(type)
  /\ \/ /\ sstate = "BODY"
        /\ accepted' = IF type = "command" THEN Append(accepted, Head(queue))
                                            ELSE accepted
        /\ UNCHANGED out
     \/ /\ sstate # "BODY"
        /\ Reply("error") /\ UNCHANGED accepted
  /\ Done
  /\ UNCHANGED <<client, cvars, c2s, s2c, sstate, sactive, skey, astray>>

\* The handlers that do nothing; the worker asks for a WRITE event all the same.
HandleNothing ==
  /\ \E type \in {"ok", "reject", "error", "pong"} : Handling(type)
  /\ Done
  /\ UNCHANGED <<client, cvars, c2s, s2c, sstate, sactive, skey, astray, out,
                 accepted>>

-----------------------------------------------------------------------------
Worker ==
  \/ HandleProtocolVersion \/ HandlePublicKey \/ Activate
  \/ HandlePing \/ AdvanceToBody
  \/ \E type \in {"command", "command_response"} : HandleCommand(type)
  \/ HandleNothing

Next ==
  \/ ClientReadEvent
  \/ \E type \in Types : OtherSends(type)
  \/ OtherReads
  \/ ServerReads \/ ServerReadsAstray \/ ServerWrites
  \/ Worker

Spec == Init /\ [][Next]_vars

\* The client's loop, the server's loop and the worker keep running.
FairSpec ==
  /\ Spec
  /\ WF_vars(ClientReadEvent) /\ WF_vars(Worker)
  /\ WF_vars(ServerReads) /\ WF_vars(ServerWrites)

-----------------------------------------------------------------------------
(***************************************************************************)
(* Properties.                                                             *)
(***************************************************************************)

\* Every field and every packet on its way keeps its type; in particular each
\* state is one of protocol.h and the server's worker is at one of its steps.
TypeOK ==
  /\ version \in Version /\ bundled \in BOOLEAN
  /\ cstate \in States /\ sstate \in States
  /\ cactive \in BOOLEAN /\ sactive \in BOOLEAN
  /\ ckey \in {"zero", "server"} /\ skey \in {"zero", "client"}
  /\ c2s \in Seq(Message) /\ s2c \in Seq(Message)
  /\ cin \in Seq(Message) /\ out \in Seq(Message)
  /\ queue \in Seq(Read) /\ accepted \in Seq(Read) /\ astray \in BOOLEAN
  /\ interest \in BOOLEAN
  /\ spc \in {"idle", "activate", "advance"}
  /\ sent \in Nat

\* The packets on their way to the client.
ToClient == {m \in Message : \E i \in DOMAIN s2c : s2c[i] = m}
              \cup {m \in Message : \E i \in DOMAIN out : out[i] = m}
              \cup {m \in Message : \E i \in DOMAIN cin : cin[i] = m}

\* Whatever a client sends and in whatever order, the server goes through the
\* states of the protocol one after the other and never back.
ServerForwardOnly ==
  [][sstate' # sstate => Rank(sstate') = Rank(sstate) + 1]_vars

\* Whatever a client sends, the server's key goes out in clear, since the keys
\* become active after that reply, and no second key is ever sent.
KeySentInClear ==
  /\ \A m \in ToClient : m.type = "public_key" => ~m.cipher
  /\ sactive => spc # "activate"

\* Whatever a client sends, garbage included, the server accepts no command
\* before it encrypts what it sends itself.
OpenMeansEncrypting == sstate = "BODY" \/ accepted # <<>> => sactive

\* Every packet of the bundled client is read in the mode it was written in,
\* although the server's event thread decodes packets while its worker turns
\* encryption on.
ModeAgreement ==
  bundled => \A i \in DOMAIN queue : queue[i].body # "garbled"

\* The server and the bundled client stay in step: the server is where the
\* client is, or one state ahead.  One packet per READ event is enough for the
\* client: nothing stays behind in its buffer until the handshake is over.  And
\* until the command is accepted, it and a server it is compatible with draw no
\* error or reject from one another.
InStep ==
  bundled =>
    /\ Rank(sstate) - Rank(cstate) \in {0, 1}
    /\ cstate # "BODY" => cin = <<>>
    /\ Compatible(version) /\ accepted = <<>> =>
         /\ \A m \in ToClient : m.type \notin {"error", "reject"}
         /\ \A i \in DOMAIN c2s : c2s[i].type # "error"

\* A bundled client that is compatible and the server reach BODY, and the
\* command arrives.
HandshakeCompletes ==
  bundled /\ Compatible(version) ~>
    cstate = "BODY" /\ sstate = "BODY" /\ accepted # <<>>
=============================================================================
