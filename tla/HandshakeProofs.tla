-------------------------- MODULE HandshakeProofs ---------------------------
(***************************************************************************)
(* Proofs about Handshake, for any versions of the two ends and any number *)
(* of packets: what the server guarantees whatever a client sends, and how *)
(* the bundled client and the server keep in step.                         *)
(***************************************************************************)
EXTENDS Handshake, TLAPS

\* What the server sends: answers only, and its key in clear.
Answer == {m \in Message :
             /\ m.type \in {"ok", "pong", "reject", "error", "public_key"}
             /\ m.type = "public_key" => ~m.cipher}

\* What the server guarantees whatever a client sends.  The keys are active from
\* ENCRYPT on, and the worker activates them in PREENCRYPT only, with the packet
\* it handles still at the head of the list.
ServerInv ==
  /\ sstate # "INVALID" /\ cstate # "INVALID"
  /\ sactive <=> sstate \in {"ENCRYPT", "BODY"}
  /\ spc = "activate" => sstate = "PREENCRYPT"
  /\ spc # "idle" => queue # <<>>
  /\ accepted # <<>> => sstate = "BODY"
  /\ s2c \in Seq(Answer) /\ out \in Seq(Answer) /\ cin \in Seq(Answer)

\* The bundled client and the server take turns: the client asks and both are in
\* the same state ...
Asking(state, type) ==
  /\ cstate = state /\ sstate = state /\ spc = "idle"
  /\ out = <<>> /\ s2c = <<>> /\ ~interest
  /\ \/ c2s = <<[type |-> type, cipher |-> FALSE]>> /\ queue = <<>>
     \/ c2s = <<>> /\ queue = <<[type |-> type, body |-> "clear"]>>

\* ... the worker has replied and has a step left, and no WRITE event is asked for ...
Busy(state, type, place, reply) ==
  /\ cstate = state /\ sstate = state /\ spc = place
  /\ out = <<[type |-> reply, cipher |-> FALSE]>> /\ s2c = <<>> /\ ~interest
  /\ c2s = <<>> /\ queue = <<[type |-> type, body |-> "clear"]>>

\* ... and the reply is on its way to a client that is one state behind.
Answered(cs, ss, reply) ==
  /\ cstate = cs /\ sstate = ss /\ spc = "idle"
  /\ c2s = <<>> /\ queue = <<>>
  /\ \/ out = <<[type |-> reply, cipher |-> FALSE]>> /\ s2c = <<>> /\ interest
     \/ out = <<>> /\ s2c = <<[type |-> reply, cipher |-> FALSE]>> /\ ~interest

\* The handshake is over for the client, and its command is encrypted.
Commanding ==
  /\ cstate = "BODY" /\ sstate = "BODY" /\ spc = "idle"
  /\ out = <<>> /\ s2c = <<>> /\ ~interest
  /\ c2s = <<[type |-> "command", cipher |-> TRUE]>> /\ queue = <<>>

\* A client that is not compatible is told so, and stays where it is.
Refused ==
  /\ ~Compatible(version)
  /\ cstate = "PREHANDSHAKE" /\ sstate = "PREHANDSHAKE" /\ spc = "idle"
  /\ c2s = <<>> /\ queue = <<>>
  /\ \/ out = <<[type |-> "reject", cipher |-> FALSE]>> /\ s2c = <<>> /\ interest
     \/ out = <<>> /\ s2c = <<[type |-> "reject", cipher |-> FALSE]>> /\ ~interest
     \/ out = <<>> /\ s2c = <<>> /\ ~interest

\* Nothing is left over in a buffer, and the client encrypts from ENCRYPT on.
Calm ==
  /\ cin = <<>> /\ accepted = <<>> /\ ~astray
  /\ cactive <=> cstate \in {"ENCRYPT", "BODY"}

\* Until the command is read there is one packet at most on its way.
Early ==
  /\ Calm
  /\ \/ Asking("PREHANDSHAKE", "protocol_version")
     \/ Refused
     \/ Answered("PREHANDSHAKE", "PREENCRYPT", "ok")
     \/ Asking("PREENCRYPT", "public_key")
     \/ Busy("PREENCRYPT", "public_key", "activate", "public_key")
     \/ Answered("PREENCRYPT", "ENCRYPT", "public_key")
     \/ Asking("ENCRYPT", "ping")
     \/ Busy("ENCRYPT", "ping", "advance", "pong")
     \/ Answered("ENCRYPT", "BODY", "pong")
     \/ Commanding

\* What the client does not answer once it is in BODY.
Unanswered == {m \in Message : m.type \in {"ok", "pong", "reject", "error"}}

\* From then on the server is astray and takes what is left of the ciphertext for
\* packets, but the client answers none of its replies.
Late ==
  /\ cstate = "BODY" /\ sstate = "BODY" /\ astray /\ c2s = <<>>
  /\ queue \in Seq({r \in Read : r.body # "garbled"})
  /\ s2c \in Seq(Unanswered) /\ out \in Seq(Unanswered) /\ cin \in Seq(Unanswered)
  /\ accepted = <<>> =>
       /\ spc = "idle" /\ queue # <<>> /\ Head(queue).type = "command"
       /\ out = <<>> /\ s2c = <<>> /\ cin = <<>>

\* The inductive invariant of the bundled client and the server.
TurnsInv == bundled => ckey = "zero" /\ skey = "zero" /\ (Early \/ Late)

-----------------------------------------------------------------------------
(***************************************************************************)
(* Types, and what the server guarantees.                                  *)
(***************************************************************************)

\* What a write puts on the wire is a message.
LEMMA PacketIsMessage ==
  \A type \in Types : \A active \in BOOLEAN :
    /\ Packet(type, active) \in Message
    /\ Packet(type, active).type = type
    /\ ~active => ~Packet(type, active).cipher
<1> SUFFICES ASSUME NEW type \in Types, NEW active \in BOOLEAN
             PROVE  /\ Packet(type, active) \in Message
                    /\ Packet(type, active).type = type
                    /\ ~active => ~Packet(type, active).cipher
  OBVIOUS
<1>1. (active /\ type \notin Empty) \in BOOLEAN
  OBVIOUS
<1>2. QED
  BY <1>1 DEF Packet, Message

\* A reply is an answer: only an ENCRYPT or BODY server encrypts, and by then it has
\* sent its key.
LEMMA ReplyIsAnswer ==
  ASSUME TypeOK, ServerInv,
         NEW type \in {"ok", "pong", "reject", "error", "public_key"}, Reply(type),
         type = "public_key" => sstate = "PREENCRYPT"
  PROVE  out' \in Seq(Answer) /\ out' \in Seq(Message)
<1>1. type \in Types /\ sactive \in BOOLEAN /\ (type = "public_key" => ~sactive)
  BY DEF TypeOK, ServerInv, Types, Empty
<1>2. Packet(type, sactive) \in Message /\ Packet(type, sactive) \in Answer
  BY <1>1, PacketIsMessage DEF Answer
<1>3. QED
  BY <1>2 DEF Reply, TypeOK, ServerInv

\* The steps of the clients keep the types and what the server guarantees.
LEMMA ClientKeeps ==
  ASSUME TypeOK, ServerInv,
         ClientReadEvent \/ OtherReads \/ \E type \in Types : OtherSends(type)
  PROVE  TypeOK' /\ ServerInv'
<1>1. CASE ClientReadEvent
  <2> DEFINE all == cin \o s2c
  <2>1. /\ all \in Seq(Message) /\ all \in Seq(Answer) /\ all # <<>>
    BY <1>1 DEF ClientReadEvent, TypeOK, ServerInv
  <2>2. /\ Tail(all) \in Seq(Message) /\ Tail(all) \in Seq(Answer)
        /\ Head(all) \in Answer
    BY <2>1
  <2>3. Head(all).type \in {"ok", "pong", "reject", "error", "public_key"}
    BY <2>2 DEF Answer
  <2>4. /\ cin' = Tail(all) /\ s2c' = <<>> /\ UNCHANGED <<client, sent, svars>>
        /\ ClientOk \/ ClientPublicKey \/ ClientPong \/ ClientNothing
    BY <1>1, <2>3 DEF ClientReadEvent
  <2>5. /\ cstate' \in States \ {"INVALID"} /\ ckey' = ckey
        /\ c2s' \in Seq(Message) /\ (cactive' = cactive \/ cactive' = TRUE)
    <3>1. \A type \in Types : \A active \in BOOLEAN :
            ClientSends(type, active) => c2s' \in Seq(Message)
      BY PacketIsMessage DEF ClientSends, TypeOK
    <3>2. CASE ClientOk
      BY <3>1, <3>2 DEF ClientOk, TypeOK, ServerInv, States, Types
    <3>3. CASE ClientPublicKey
      BY <3>1, <3>3 DEF ClientPublicKey, TypeOK, ServerInv, States, Types, Empty
    <3>4. CASE ClientPong
      BY <3>1, <3>4 DEF ClientPong, TypeOK, ServerInv, States, Types
    <3>5. CASE ClientNothing
      BY <3>5 DEF ClientNothing, TypeOK, ServerInv
    <3>6. QED
      BY <2>4, <3>2, <3>3, <3>4, <3>5
  <2>6. cactive' \in BOOLEAN
    BY <2>5 DEF TypeOK
  <2> HIDE DEF all
  <2>7. QED
    BY <2>2, <2>4, <2>5, <2>6 DEF TypeOK, ServerInv, client, svars
<1>2. CASE OtherReads
  <2>1. cactive' \in BOOLEAN /\ s2c' \in Seq(Message) /\ s2c' \in Seq(Answer)
    BY <1>2 DEF OtherReads, TypeOK, ServerInv
  <2>2. QED
    BY <1>2, <2>1 DEF OtherReads, TypeOK, ServerInv, client, svars
<1>3. ASSUME NEW type \in Types, OtherSends(type) PROVE TypeOK' /\ ServerInv'
  <2>1. c2s' \in Seq(Message)
    BY <1>3, PacketIsMessage DEF OtherSends, ClientSends, TypeOK
  <2>2. QED
    BY <1>3, <2>1 DEF OtherSends, TypeOK, ServerInv, client, svars
<1>4. QED
  BY <1>1, <1>2, <1>3

\* What the event thread reads, garbage included, is on the list as packets read.
LEMMA BodyIsRead ==
  ASSUME NEW m \in Message
  PROVE  [type |-> m.type, body |-> Body(m)] \in Read
  BY DEF Message, Read, Body

\* The steps of the event thread keep them.
LEMMA EventThreadKeeps ==
  ASSUME TypeOK, ServerInv, ServerReads \/ ServerReadsAstray \/ ServerWrites
  PROVE  TypeOK' /\ ServerInv'
<1>0. \A g \in Garbage \cup {<<>>} : g \in Seq(Read)
  <2>1. \A r \in [type : Types, body : {"stray"}] : r \in Read
    BY DEF Read
  <2>2. \A r \in Read : <<r>> \in Seq(Read)
    OBVIOUS
  <2>3. <<>> \in Seq(Read)
    OBVIOUS
  <2>4. \A g \in Garbage : g = <<>> \/ \E r \in Read : g = <<r>>
    BY <2>1 DEF Garbage
  <2>5. QED
    BY <2>2, <2>3, <2>4
<1>1. CASE ServerReads
  <2>1. Head(c2s) \in Message /\ Tail(c2s) \in Seq(Message)
    BY <1>1 DEF ServerReads, TypeOK
  <2>2. PICK g \in Garbage \cup {<<>>} :
          queue' = queue \o <<[type |-> Head(c2s).type, body |-> Body(Head(c2s))]>> \o g
    BY <1>1 DEF ServerReads
  <2>3. g \in Seq(Read)
    BY <1>0
  <2>4. queue' \in Seq(Read) /\ queue' # <<>>
    BY <2>1, <2>2, <2>3, BodyIsRead DEF TypeOK
  <2>5. astray' \in BOOLEAN
    BY <1>1, Zenon DEF ServerReads
  <2>6. QED
    BY <1>1, <2>1, <2>4, <2>5 DEF ServerReads, TypeOK, ServerInv, client, cvars
<1>2. CASE ServerReadsAstray
  <2>1. PICK g \in Garbage : queue' = queue \o g
    BY <1>2 DEF ServerReadsAstray
  <2>2. queue' \in Seq(Read) /\ (queue # <<>> => queue' # <<>>)
    BY <1>0, <2>1 DEF TypeOK
  <2>3. Tail(c2s) \in Seq(Message)
    BY <1>2 DEF ServerReadsAstray, TypeOK
  <2>4. QED
    BY <1>2, <2>2, <2>3 DEF ServerReadsAstray, TypeOK, ServerInv, client, cvars
<1>3. CASE ServerWrites
  <2>1. /\ s2c \o out \in Seq(Message) /\ s2c \o out \in Seq(Answer)
        /\ <<>> \in Seq(Message) /\ <<>> \in Seq(Answer)
    BY DEF TypeOK, ServerInv
  <2>2. interest' \in BOOLEAN
    BY <1>3, Zenon DEF ServerWrites
  <2>3. QED
    BY <1>3, <2>1, <2>2 DEF ServerWrites, TypeOK, ServerInv, client, cvars
<1>4. QED
  BY <1>1, <1>2, <1>3

\* The steps of the worker keep them: replies are answers, the packet handled is
\* taken off the list, and the state and the keys change together.
LEMMA WorkerKeeps ==
  ASSUME TypeOK, ServerInv, Worker
  PROVE  TypeOK' /\ ServerInv'
<1>0. /\ out \in Seq(Message) /\ out \in Seq(Answer)
      /\ queue # <<>> => Tail(queue) \in Seq(Read) /\ Head(queue) \in Read
  BY DEF TypeOK, ServerInv
<1>i. Done => interest' \in BOOLEAN /\ queue' = Tail(queue) /\ spc' = "idle"
  BY Zenon DEF Done
<1> USE DEF TypeOK, ServerInv, client, cvars, States
<1>1. CASE HandleProtocolVersion
  <2>1. /\ queue # <<>> /\ Done /\ sstate' \in {sstate, "PREENCRYPT"}
        /\ sstate' # sstate => sstate = "PREHANDSHAKE"
        /\ Reply("ok") \/ Reply("reject") \/ Reply("error")
        /\ UNCHANGED <<client, cvars, c2s, s2c, sactive, skey, astray, accepted>>
    BY <1>1 DEF HandleProtocolVersion, Handling
  <2>2. out' \in Seq(Answer) /\ out' \in Seq(Message)
    BY <2>1, ReplyIsAnswer
  <2>3. QED
    BY <1>0, <1>i, <2>1, <2>2
<1>2. CASE HandlePublicKey
  <2>1. /\ queue # <<>>
        /\ \/ sstate = "PREENCRYPT" /\ Reply("public_key") /\ spc' = "activate"
              /\ UNCHANGED <<queue, interest>>
           \/ Reply("error") /\ Done
        /\ UNCHANGED <<client, cvars, c2s, s2c, sstate, sactive, skey, astray, accepted>>
    BY <1>2 DEF HandlePublicKey, Handling
  <2>2. out' \in Seq(Answer) /\ out' \in Seq(Message)
    BY <2>1, ReplyIsAnswer
  <2>3. QED
    BY <1>0, <1>i, <2>1, <2>2
<1>3. CASE Activate
  <2>1. /\ queue # <<>> /\ Done /\ sactive' = TRUE /\ sstate' = "ENCRYPT"
        /\ sstate = "PREENCRYPT"
        /\ UNCHANGED <<client, cvars, c2s, s2c, skey, astray, out, accepted>>
    BY <1>3 DEF Activate
  <2>2. sactive' \in BOOLEAN
    BY <2>1, Zenon
  <2>3. QED
    BY <1>0, <1>i, <2>1, <2>2
<1>4. CASE HandlePing
  <2>1. /\ queue # <<>> /\ Reply("pong") /\ spc' = "advance"
        /\ UNCHANGED <<client, cvars, c2s, s2c, sstate, sactive, skey, queue, astray,
                       interest, accepted>>
    BY <1>4 DEF HandlePing, Handling
  <2>2. out' \in Seq(Answer) /\ out' \in Seq(Message)
    BY <2>1, ReplyIsAnswer
  <2>3. QED
    BY <2>1, <2>2
<1>5. CASE AdvanceToBody
  <2>1. /\ queue # <<>> /\ Done
        /\ sstate' = IF sstate = "ENCRYPT" THEN "BODY" ELSE sstate
        /\ UNCHANGED <<client, cvars, c2s, s2c, sactive, skey, astray, out, accepted>>
    BY <1>5 DEF AdvanceToBody
  <2>2. QED
    BY <1>0, <1>i, <2>1
<1>6. ASSUME NEW type \in {"command", "command_response"}, HandleCommand(type)
      PROVE  TypeOK' /\ ServerInv'
  <2>1. /\ queue # <<>> /\ Done
        /\ \/ /\ sstate = "BODY" /\ UNCHANGED out
              /\ accepted' \in {accepted, Append(accepted, Head(queue))}
           \/ Reply("error") /\ UNCHANGED accepted
        /\ UNCHANGED <<client, cvars, c2s, s2c, sstate, sactive, skey, astray>>
    BY <1>6 DEF HandleCommand, Handling
  <2>2. out' \in Seq(Answer) /\ out' \in Seq(Message)
    BY <1>0, <2>1, ReplyIsAnswer
  <2>3. accepted' \in Seq(Read) /\ (accepted' # <<>> => sstate' = "BODY")
    <3>1. Append(accepted, Head(queue)) \in Seq(Read)
      BY <1>0, <2>1
    <3>2. QED
      BY <2>1, <3>1
  <2>4. QED
    BY <1>0, <1>i, <2>1, <2>2, <2>3
<1>7. CASE HandleNothing
  <2>1. /\ queue # <<>> /\ Done
        /\ UNCHANGED <<client, cvars, c2s, s2c, sstate, sactive, skey, astray, out,
                       accepted>>
    BY <1>7 DEF HandleNothing, Handling
  <2>2. QED
    BY <1>0, <1>i, <2>1
<1>8. QED
  BY <1>1, <1>2, <1>3, <1>4, <1>5, <1>6, <1>7 DEF Worker

\* Every step keeps the types and what the server guarantees.
LEMMA ServerStep == TypeOK /\ ServerInv /\ [Next]_vars => TypeOK' /\ ServerInv'
<1> SUFFICES ASSUME TypeOK, ServerInv, [Next]_vars PROVE TypeOK' /\ ServerInv'
  OBVIOUS
<1>1. CASE UNCHANGED vars
  BY <1>1 DEF vars, client, cvars, svars, TypeOK, ServerInv
<1>2. QED
  BY <1>1, ClientKeeps, EventThreadKeeps, WorkerKeeps DEF Next

\* They hold after the connect and the accept.
LEMMA ServerInit == Init => TypeOK /\ ServerInv
<1> SUFFICES ASSUME Init PROVE TypeOK /\ ServerInv
  OBVIOUS
<1>1. /\ bundled \in BOOLEAN /\ version \in Version
      /\ cactive \in BOOLEAN /\ sactive \in BOOLEAN /\ interest \in BOOLEAN
      /\ astray \in BOOLEAN /\ FALSE \in BOOLEAN
  BY VersionAssumption, ClientAssumption, Zenon DEF Init
<1>2. "protocol_version" \in Types
  BY DEF Types
<1>3. c2s \in Seq(Message)
  <2>1. Packet("protocol_version", FALSE) \in Message
    BY <1>2, PacketIsMessage
  <2>2. c2s = <<Packet("protocol_version", FALSE)>> \/ c2s = <<>>
    BY DEF Init
  <2>3. \A m \in Message : <<m>> \in Seq(Message)
    OBVIOUS
  <2>4. <<>> \in Seq(Message)
    OBVIOUS
  <2>5. QED
    BY <2>1, <2>2, <2>3, <2>4, Zenon
<1>4. TypeOK
  <2>1. /\ s2c \in Seq(Message) /\ cin \in Seq(Message) /\ out \in Seq(Message)
        /\ queue \in Seq(Read) /\ accepted \in Seq(Read) /\ sent \in Nat
        /\ cstate \in States /\ sstate \in States
        /\ ckey = "zero" /\ skey = "zero" /\ spc = "idle"
    BY DEF Init, States
  <2>2. QED
    BY <1>1, <1>3, <2>1 DEF TypeOK
<1>5. ServerInv
  BY DEF Init, ServerInv
<1>6. QED
  BY <1>4, <1>5

\* They hold in every state, whatever a client sends.
LEMMA ServerInvariant == Spec => [](TypeOK /\ ServerInv)
<1>1. TypeOK /\ ServerInv /\ [Next]_vars => (TypeOK /\ ServerInv)'
  BY ServerStep
<1>2. QED
  BY <1>1, ServerInit, PTL DEF Spec

\* Every field and every packet keeps its type, whatever a client sends.
THEOREM TypeCorrect == Spec => []TypeOK
  BY ServerInvariant, PTL

\* The server's key goes out in clear and once the keys are active no other key is
\* sent, whatever a client sends and whenever the event thread reads it.
THEOREM KeyNeverEncrypted == Spec => []KeySentInClear
<1>1. TypeOK /\ ServerInv => KeySentInClear
  <2> SUFFICES ASSUME TypeOK, ServerInv PROVE KeySentInClear
    OBVIOUS
  <2>1. ASSUME NEW m \in ToClient PROVE m.type = "public_key" => ~m.cipher
    <3>1. m \in Answer
      BY DEF ToClient, ServerInv
    <3>2. QED
      BY <3>1 DEF Answer
  <2>2. QED
    BY <2>1 DEF KeySentInClear, ServerInv
<1>2. QED
  BY <1>1, ServerInvariant, PTL

\* The server accepts no command before it encrypts what it sends.
THEOREM CommandsNeedEncryption == Spec => []OpenMeansEncrypting
<1>1. ServerInv => OpenMeansEncrypting
  BY DEF ServerInv, OpenMeansEncrypting
<1>2. QED
  BY <1>1, ServerInvariant, PTL

\* The server goes through the states of the protocol one after the other and never
\* back, whatever a client sends: the worker is about to activate the keys in
\* PREENCRYPT only, and no other handler has changed the state meanwhile.
THEOREM ServerNeverGoesBack == Spec => ServerForwardOnly
<1>1. ASSUME TypeOK, ServerInv, [Next]_vars, sstate' # sstate
      PROVE  Rank(sstate') = Rank(sstate) + 1
  <2>1. CASE Worker
    <3>1. \/ sstate = "PREHANDSHAKE" /\ sstate' = "PREENCRYPT"
          \/ sstate = "PREENCRYPT" /\ sstate' = "ENCRYPT"
          \/ sstate = "ENCRYPT" /\ sstate' = "BODY"
      BY <1>1, <2>1 DEF Worker, HandleProtocolVersion, HandlePublicKey, Activate,
         HandlePing, AdvanceToBody, HandleCommand, HandleNothing, ServerInv
    <3>2. QED
      BY <3>1 DEF Rank
  <2>2. CASE ~Worker
    BY <1>1, <2>2 DEF Next, ClientReadEvent, OtherSends, OtherReads, ServerReads,
       ServerReadsAstray, ServerWrites, svars, vars
  <2>3. QED
    BY <2>1, <2>2
<1>2. TypeOK /\ ServerInv /\ [Next]_vars
        => [sstate' # sstate => Rank(sstate') = Rank(sstate) + 1]_vars
  BY <1>1
<1>3. QED
  BY <1>2, ServerInvariant, PTL DEF Spec, ServerForwardOnly

-----------------------------------------------------------------------------
(***************************************************************************)
(* The bundled client and the server.                                      *)
(***************************************************************************)

\* A socket or buffer that holds one packet.
LEMMA OnePacket ==
  ASSUME NEW m
  PROVE  /\ <<m>> # <<>> /\ Head(<<m>>) = m /\ Tail(<<m>>) = <<>>
         /\ Append(<<>>, m) = <<m>> /\ <<>> \o <<m>> = <<m>>
         /\ <<>> \o <<m>> \o <<>> = <<m>>
<1>1. <<>> \o <<m>> = <<m>> /\ <<m>> \o <<>> = <<m>>
  OBVIOUS
<1>2. QED
  BY <1>1

\* Packets are in clear before the keys are active, and when they have no body.
LEMMA PacketModes ==
  ASSUME NEW type, NEW active \in BOOLEAN
  PROVE  /\ ~active \/ type \in Empty
              => Packet(type, active) = [type |-> type, cipher |-> FALSE]
         /\ active /\ type \notin Empty
              => Packet(type, active) = [type |-> type, cipher |-> TRUE]
<1>1. (active /\ type \notin Empty) = FALSE \/ (active /\ type \notin Empty) = TRUE
  OBVIOUS
<1>2. QED
  BY <1>1 DEF Packet

\* What a READ event of the client does, by the type of the first packet.
LEMMA ClientHandles ==
  ASSUME TypeOK, ServerInv, ClientReadEvent
  PROVE  /\ bundled /\ s2c # <<>> /\ s2c' = <<>> /\ cin' = Tail(cin \o s2c)
         /\ Head(cin \o s2c) \in Answer
         /\ \/ Head(cin \o s2c).type = "ok" /\ ClientOk
            \/ Head(cin \o s2c).type = "public_key" /\ ClientPublicKey
            \/ Head(cin \o s2c).type = "pong" /\ ClientPong
            \/ Head(cin \o s2c).type \in {"reject", "error"} /\ ClientNothing
         /\ UNCHANGED <<client, sent, svars, ckey>>
<1> DEFINE all == cin \o s2c
<1>1. all \in Seq(Answer) /\ all # <<>>
  BY DEF ClientReadEvent, ServerInv
<1>2. Head(all) \in Answer
  BY <1>1
<1>3. Head(all).type \in {"ok", "pong", "reject", "error", "public_key"}
  BY <1>2 DEF Answer
<1>4. \/ Head(all).type = "ok" /\ ClientOk
      \/ Head(all).type = "public_key" /\ ClientPublicKey
      \/ Head(all).type = "pong" /\ ClientPong
      \/ Head(all).type \in {"reject", "error"} /\ ClientNothing
  BY <1>3 DEF ClientReadEvent
<1>5. UNCHANGED ckey
  BY <1>4 DEF ClientOk, ClientPublicKey, ClientPong, ClientNothing
<1>6. QED
  BY <1>2, <1>4, <1>5 DEF ClientReadEvent

\* The client's identity and the two remote keys never change: memcpy is the wrong
\* way round at both ends.
LEMMA KeysStay ==
  ASSUME TypeOK, ServerInv, [Next]_vars
  PROVE  bundled' = bundled /\ version' = version /\ ckey' = ckey /\ skey' = skey
<1>1. CASE ClientReadEvent
  BY <1>1, ClientHandles DEF client, svars
<1>2. CASE ~ClientReadEvent /\ ~Worker
  BY <1>2 DEF Next, vars, client, cvars, svars, OtherSends, OtherReads, ServerReads,
     ServerReadsAstray, ServerWrites
<1>3. CASE Worker
  BY <1>3 DEF Worker, client, cvars, svars, HandleProtocolVersion, HandlePublicKey,
     Activate, HandlePing, AdvanceToBody, HandleCommand, HandleNothing
<1>4. QED
  BY <1>1, <1>2, <1>3

\* A packet without ciphertext that the server reads in order is read as it is.
LEMMA ReadsClear ==
  ASSUME TypeOK, ServerInv, Calm, NEW state, NEW type, Asking(state, type), ServerReads,
         state \in {"PREHANDSHAKE", "PREENCRYPT"} \/ type \in Empty
  PROVE  Calm' /\ Asking(state, type)'
<1>1. /\ c2s = <<[type |-> type, cipher |-> FALSE]>> /\ queue = <<>>
      /\ Head(c2s) = [type |-> type, cipher |-> FALSE] /\ Tail(c2s) = <<>>
  BY OnePacket DEF ServerReads, Asking
<1>2. Body(Head(c2s)) = "clear"
  <2>1. type \in Empty \/ sactive = FALSE
    BY DEF TypeOK, ServerInv, Asking
  <2>2. Head(c2s).type = type /\ Head(c2s).cipher = FALSE
    BY <1>1
  <2>3. QED
    BY <2>1, <2>2 DEF Body, Intelligible
<1>3. astray' = FALSE
  BY <1>2 DEF ServerReads
<1>4. queue' = queue \o <<[type |-> type, body |-> "clear"]>> \o <<>>
  BY <1>1, <1>2, <1>3 DEF ServerReads
<1>5. queue' = <<[type |-> type, body |-> "clear"]>> /\ c2s' = <<>>
  BY <1>1, <1>4, OnePacket DEF ServerReads
<1>6. QED
  BY <1>3, <1>5 DEF ServerReads, Asking, Calm, cvars

\* While the client asks, the server reads the packet or the worker handles it.
LEMMA AskingSteps ==
  ASSUME bundled, Calm, NEW state, NEW type, Asking(state, type), Next
  PROVE  \/ ServerReads
         \/ /\ Worker /\ spc = "idle" /\ c2s = <<>> /\ queue # <<>>
            /\ queue = <<[type |-> type, body |-> "clear"]>>
            /\ Head(queue).type = type /\ Meant /\ Tail(queue) = <<>>
<1>1. CASE Worker
  <2>1. queue # <<>>
    BY <1>1 DEF Asking, Worker, HandleProtocolVersion, HandlePublicKey, Activate,
       HandlePing, AdvanceToBody, HandleCommand, HandleNothing, Handling
  <2>2. queue = <<[type |-> type, body |-> "clear"]>>
    BY <2>1 DEF Asking
  <2>3. Head(queue) = [type |-> type, body |-> "clear"] /\ Tail(queue) = <<>>
    BY <2>2
  <2>4. QED
    BY <1>1, <2>1, <2>2, <2>3 DEF Asking, Meant
<1>2. CASE ~Worker
  BY <1>2 DEF Next, Asking, Calm, ClientReadEvent, OtherSends, OtherReads,
     ServerReadsAstray, ServerWrites
<1>3. QED
  BY <1>1, <1>2

\* While a reply is on its way, the server writes it or the client handles it.
LEMMA AnsweredSteps ==
  ASSUME TypeOK, ServerInv, bundled, Calm, NEW cs, NEW ss, NEW reply,
         Answered(cs, ss, reply), Next
  PROVE  \/ Calm' /\ Answered(cs, ss, reply)'
         \/ /\ ClientReadEvent /\ s2c' = <<>> /\ cin' = <<>> /\ UNCHANGED svars
            /\ c2s = <<>> /\ queue = <<>> /\ out = <<>> /\ ~interest
            /\ Head(cin \o s2c).type = reply
<1>1. CASE Worker
  BY <1>1 DEF Answered, Worker, HandleProtocolVersion, HandlePublicKey, Activate,
     HandlePing, AdvanceToBody, HandleCommand, HandleNothing, Handling
<1>2. CASE ServerWrites
  BY <1>2, OnePacket DEF ServerWrites, Answered, Calm, cvars
<1>3. CASE ClientReadEvent
  <2>1. s2c = <<[type |-> reply, cipher |-> FALSE]>> /\ out = <<>> /\ ~interest
    BY <1>3 DEF ClientReadEvent, Answered
  <2>2. /\ cin \o s2c = <<[type |-> reply, cipher |-> FALSE]>>
        /\ Head(cin \o s2c).type = reply /\ Tail(cin \o s2c) = <<>>
    BY <2>1, OnePacket DEF Calm
  <2>3. QED
    BY <1>3, <2>1, <2>2, ClientHandles DEF Answered
<1>4. CASE ~Worker /\ ~ServerWrites /\ ~ClientReadEvent
  BY <1>4 DEF Next, Answered, Calm, OtherSends, OtherReads, ServerReads,
     ServerReadsAstray
<1>5. QED
  BY <1>1, <1>2, <1>3, <1>4

\* While the worker has a step left it is the only one that takes steps.
LEMMA BusySteps ==
  ASSUME bundled, Calm, NEW state, NEW type, NEW reply, NEW place,
         Busy(state, type, place, reply), Next
  PROVE  Worker /\ queue # <<>> /\ Tail(queue) = <<>>
<1>1. queue # <<>> /\ Tail(queue) = <<>>
  BY OnePacket DEF Busy
<1>2. QED
  BY <1>1 DEF Next, Busy, Calm, ClientReadEvent, OtherSends, OtherReads, ServerReads,
     ServerReadsAstray, ServerWrites

\* A handler that is done leaves the list of one packet empty.
LEMMA HandledOne ==
  ASSUME Done, Tail(queue) = <<>>
  PROVE  queue' = <<>> /\ spc' = "idle" /\ interest'
  BY DEF Done

\* What the worker replies before the keys are active, or without a body, is in
\* clear.
LEMMA RepliesClear ==
  ASSUME TypeOK, NEW type, Reply(type), out = <<>>, ~sactive \/ type \in Empty
  PROVE  out' = <<[type |-> type, cipher |-> FALSE]>>
<1>1. Packet(type, sactive) = [type |-> type, cipher |-> FALSE]
  BY PacketModes DEF TypeOK
<1>2. QED
  BY <1>1, OnePacket DEF Reply

\* The same of what the client sends.
LEMMA SendsClear ==
  ASSUME NEW type, NEW active \in BOOLEAN, ClientSends(type, active), c2s = <<>>,
         ~active \/ type \in Empty
  PROVE  c2s' = <<[type |-> type, cipher |-> FALSE]>>
<1>1. Packet(type, active) = [type |-> type, cipher |-> FALSE]
  BY PacketModes
<1>2. QED
  BY <1>1, OnePacket DEF ClientSends

\* From turn to turn: while the handshake lasts each step is the one step that is
\* due, and leads to the next turn.
LEMMA EarlyStep ==
  ASSUME TypeOK, ServerInv, bundled, Early, ckey = "zero", skey = "zero", Next
  PROVE  Early' \/ Late'
<1>0. Calm /\ cactive \in BOOLEAN
  BY DEF Early, TypeOK
<1>1. CASE Asking("PREHANDSHAKE", "protocol_version")
  <2>1. CASE ServerReads
    BY <1>0, <1>1, <2>1, ReadsClear DEF Early
  <2>2. CASE ~ServerReads
    <3>1. /\ Worker /\ spc = "idle" /\ c2s = <<>> /\ queue # <<>>
          /\ Head(queue).type = "protocol_version" /\ Meant /\ Tail(queue) = <<>>
      BY <1>0, <1>1, <2>2, AskingSteps
    <3>2. HandleProtocolVersion
      BY <3>1 DEF Worker, HandlePublicKey, Activate, HandlePing, AdvanceToBody,
         HandleCommand, HandleNothing, Handling
    <3>3. /\ Done /\ UNCHANGED <<client, cvars, c2s, s2c, sactive, skey, astray, accepted>>
          /\ \/ sstate' = "PREENCRYPT" /\ Reply("ok")
             \/ ~Compatible(version) /\ Reply("reject") /\ UNCHANGED sstate
      BY <1>1, <3>1, <3>2 DEF HandleProtocolVersion, Asking
    <3>4. ~sactive /\ out = <<>> /\ s2c = <<>> /\ cstate = "PREHANDSHAKE"
            /\ sstate = "PREHANDSHAKE"
      BY <1>1 DEF Asking, ServerInv
    <3>5. queue' = <<>> /\ spc' = "idle" /\ interest'
      BY <3>1, <3>3, HandledOne
    <3>6. CASE sstate' = "PREENCRYPT" /\ Reply("ok")
      <4>1. out' = <<[type |-> "ok", cipher |-> FALSE]>>
        BY <3>4, <3>6, RepliesClear
      <4>2. Answered("PREHANDSHAKE", "PREENCRYPT", "ok")'
        BY <3>1, <3>3, <3>4, <3>5, <3>6, <4>1 DEF Answered, cvars
      <4>3. Calm'
        BY <1>0, <3>3 DEF Calm, cvars
      <4>4. QED
        BY <4>2, <4>3 DEF Early
    <3>7. CASE ~Compatible(version) /\ Reply("reject") /\ UNCHANGED sstate
      <4>1. out' = <<[type |-> "reject", cipher |-> FALSE]>>
        BY <3>4, <3>7, RepliesClear
      <4>2. ~Compatible(version)'
        BY <3>3, <3>7 DEF Compatible, client
      <4>3. Refused'
        BY <3>1, <3>3, <3>4, <3>5, <3>7, <4>1, <4>2 DEF Refused, cvars
      <4>4. Calm'
        BY <1>0, <3>3 DEF Calm, cvars
      <4>5. QED
        BY <4>3, <4>4 DEF Early
    <3>8. QED
      BY <3>3, <3>6, <3>7
  <2>3. QED
    BY <2>1, <2>2
<1>2. CASE Refused
  <2>1. CASE ServerWrites
    <3>1. s2c' = <<[type |-> "reject", cipher |-> FALSE]>> /\ out' = <<>> /\ ~interest'
      BY <1>2, <2>1, OnePacket DEF Refused, ServerWrites
    <3>2. Refused' /\ Calm'
      BY <1>0, <1>2, <2>1, <3>1 DEF Refused, ServerWrites, Calm, cvars, client,
         Compatible
    <3>3. QED
      BY <3>2 DEF Early
  <2>2. CASE ClientReadEvent
    <3>1. /\ cin \o s2c = <<[type |-> "reject", cipher |-> FALSE]>>
          /\ out = <<>> /\ ~interest
      BY <1>0, <1>2, <2>2, OnePacket DEF Refused, ClientReadEvent, Calm
    <3>2. Head(cin \o s2c).type = "reject" /\ Tail(cin \o s2c) = <<>>
      BY <3>1, OnePacket
    <3>3. ClientNothing /\ s2c' = <<>> /\ cin' = <<>> /\ UNCHANGED <<client, svars>>
      BY <2>2, <3>2, ClientHandles
    <3>4. Refused' /\ Calm'
      BY <1>0, <1>2, <3>1, <3>3 DEF Refused, ClientNothing, Calm, svars, client,
         Compatible
    <3>5. QED
      BY <3>4 DEF Early
  <2>3. CASE ~ServerWrites /\ ~ClientReadEvent
    BY <1>0, <1>2, <2>3 DEF Next, Refused, Calm, OtherSends, OtherReads, ServerReads,
       ServerReadsAstray, Worker, HandleProtocolVersion, HandlePublicKey, Activate,
       HandlePing, AdvanceToBody, HandleCommand, HandleNothing, Handling
  <2>4. QED
    BY <2>1, <2>2, <2>3
<1>3. CASE Answered("PREHANDSHAKE", "PREENCRYPT", "ok")
  <2>1. CASE Calm' /\ Answered("PREHANDSHAKE", "PREENCRYPT", "ok")'
    BY <2>1 DEF Early
  <2>2. CASE ~(Calm' /\ Answered("PREHANDSHAKE", "PREENCRYPT", "ok")')
    <3>1. /\ ClientReadEvent /\ s2c' = <<>> /\ cin' = <<>> /\ UNCHANGED svars
          /\ c2s = <<>> /\ queue = <<>> /\ out = <<>> /\ ~interest
          /\ Head(cin \o s2c).type = "ok"
      BY <1>0, <1>3, <2>2, AnsweredSteps
    <3>2. ClientOk
      BY <3>1, ClientHandles
    <3>3. /\ cstate' = "PREENCRYPT" /\ ClientSends("public_key", cactive)
          /\ UNCHANGED cactive /\ ~cactive
      BY <1>0, <1>3, <3>2 DEF ClientOk, Answered, Calm
    <3>4. c2s' = <<[type |-> "public_key", cipher |-> FALSE]>>
      BY <1>0, <3>1, <3>3, SendsClear
    <3>5. Asking("PREENCRYPT", "public_key")' /\ Calm'
      BY <1>0, <1>3, <3>1, <3>3, <3>4 DEF Asking, Answered, Calm, svars
    <3>6. QED
      BY <3>5 DEF Early
  <2>3. QED
    BY <2>1, <2>2
<1>4. CASE Asking("PREENCRYPT", "public_key")
  <2>1. CASE ServerReads
    BY <1>0, <1>4, <2>1, ReadsClear DEF Early
  <2>2. CASE ~ServerReads
    <3>1. /\ Worker /\ spc = "idle" /\ c2s = <<>> /\ queue # <<>>
          /\ queue = <<[type |-> "public_key", body |-> "clear"]>>
          /\ Head(queue).type = "public_key" /\ Meant
      BY <1>0, <1>4, <2>2, AskingSteps
    <3>2. HandlePublicKey
      BY <3>1 DEF Worker, HandleProtocolVersion, Activate, HandlePing, AdvanceToBody,
         HandleCommand, HandleNothing, Handling
    <3>3. /\ Reply("public_key") /\ spc' = "activate" /\ UNCHANGED <<queue, interest>>
          /\ UNCHANGED <<client, cvars, c2s, s2c, sstate, sactive, skey, astray, accepted>>
      BY <1>4, <3>1, <3>2 DEF HandlePublicKey, Asking
    <3>4. out' = <<[type |-> "public_key", cipher |-> FALSE]>>
      BY <1>4, <3>3, RepliesClear DEF Asking, ServerInv
    <3>5. Busy("PREENCRYPT", "public_key", "activate", "public_key")'
      BY <1>4, <3>1, <3>3, <3>4 DEF Busy, Asking, cvars
    <3>6. Calm'
      BY <1>0, <3>3 DEF Calm, cvars
    <3>7. QED
      BY <3>5, <3>6 DEF Early
  <2>3. QED
    BY <2>1, <2>2
<1>5. CASE Busy("PREENCRYPT", "public_key", "activate", "public_key")
  <2>1. Worker /\ Tail(queue) = <<>>
    BY <1>0, <1>5, BusySteps
  <2>2. Activate
    BY <1>5, <2>1 DEF Busy, Worker, HandleProtocolVersion, HandlePublicKey, HandlePing,
       AdvanceToBody, HandleCommand, HandleNothing, Handling
  <2>3. queue' = <<>> /\ spc' = "idle" /\ interest'
    BY <2>1, <2>2, HandledOne DEF Activate
  <2>4. Answered("PREENCRYPT", "ENCRYPT", "public_key")'
    BY <1>5, <2>2, <2>3 DEF Answered, Busy, Activate, cvars
  <2>5. Calm'
    BY <1>0, <2>2 DEF Calm, Activate, cvars
  <2>6. QED
    BY <2>4, <2>5 DEF Early
<1>6. CASE Answered("PREENCRYPT", "ENCRYPT", "public_key")
  <2>1. CASE Calm' /\ Answered("PREENCRYPT", "ENCRYPT", "public_key")'
    BY <2>1 DEF Early
  <2>2. CASE ~(Calm' /\ Answered("PREENCRYPT", "ENCRYPT", "public_key")')
    <3>1. /\ ClientReadEvent /\ s2c' = <<>> /\ cin' = <<>> /\ UNCHANGED svars
          /\ c2s = <<>> /\ queue = <<>> /\ out = <<>> /\ ~interest
          /\ Head(cin \o s2c).type = "public_key"
      BY <1>0, <1>6, <2>2, AnsweredSteps
    <3>2. ClientPublicKey
      BY <3>1, ClientHandles
    <3>3. cstate' = "ENCRYPT" /\ ClientSends("ping", TRUE) /\ cactive' = TRUE
      BY <1>6, <3>2 DEF ClientPublicKey, Answered
    <3>4. c2s' = <<[type |-> "ping", cipher |-> FALSE]>>
      BY <3>1, <3>3, SendsClear DEF Empty
    <3>5. Asking("ENCRYPT", "ping")' /\ Calm'
      BY <1>0, <1>6, <3>1, <3>3, <3>4 DEF Asking, Answered, Calm, svars
    <3>6. QED
      BY <3>5 DEF Early
  <2>3. QED
    BY <2>1, <2>2
<1>7. CASE Asking("ENCRYPT", "ping")
  <2>1. CASE ServerReads
    BY <1>0, <1>7, <2>1, ReadsClear DEF Early, Empty
  <2>2. CASE ~ServerReads
    <3>1. /\ Worker /\ spc = "idle" /\ c2s = <<>> /\ queue # <<>>
          /\ queue = <<[type |-> "ping", body |-> "clear"]>>
          /\ Head(queue).type = "ping" /\ Meant
      BY <1>0, <1>7, <2>2, AskingSteps
    <3>2. HandlePing
      BY <3>1 DEF Worker, HandleProtocolVersion, Activate, HandlePublicKey,
         AdvanceToBody, HandleCommand, HandleNothing, Handling
    <3>3. out' = <<[type |-> "pong", cipher |-> FALSE]>>
      BY <1>7, <3>2, RepliesClear DEF Asking, HandlePing, Empty
    <3>4. Busy("ENCRYPT", "ping", "advance", "pong")'
      BY <1>7, <3>1, <3>2, <3>3 DEF Busy, Asking, HandlePing, cvars
    <3>5. Calm'
      BY <1>0, <3>2 DEF Calm, HandlePing, cvars
    <3>6. QED
      BY <3>4, <3>5 DEF Early
  <2>3. QED
    BY <2>1, <2>2
<1>8. CASE Busy("ENCRYPT", "ping", "advance", "pong")
  <2>1. Worker /\ Tail(queue) = <<>>
    BY <1>0, <1>8, BusySteps
  <2>2. AdvanceToBody
    BY <1>8, <2>1 DEF Busy, Worker, HandleProtocolVersion, HandlePublicKey, HandlePing,
       Activate, HandleCommand, HandleNothing, Handling
  <2>3. queue' = <<>> /\ spc' = "idle" /\ interest'
    BY <2>1, <2>2, HandledOne DEF AdvanceToBody
  <2>4. Answered("ENCRYPT", "BODY", "pong")'
    BY <1>8, <2>2, <2>3 DEF Answered, Busy, AdvanceToBody, cvars
  <2>5. Calm'
    BY <1>0, <2>2 DEF Calm, AdvanceToBody, cvars
  <2>6. QED
    BY <2>4, <2>5 DEF Early
<1>9. CASE Answered("ENCRYPT", "BODY", "pong")
  <2>1. CASE Calm' /\ Answered("ENCRYPT", "BODY", "pong")'
    BY <2>1 DEF Early
  <2>2. CASE ~(Calm' /\ Answered("ENCRYPT", "BODY", "pong")')
    <3>1. /\ ClientReadEvent /\ s2c' = <<>> /\ cin' = <<>> /\ UNCHANGED svars
          /\ c2s = <<>> /\ queue = <<>> /\ out = <<>> /\ ~interest
          /\ Head(cin \o s2c).type = "pong"
      BY <1>0, <1>9, <2>2, AnsweredSteps
    <3>2. ClientPong
      BY <3>1, ClientHandles
    <3>3. /\ cstate' = "BODY" /\ ClientSends("command", cactive)
          /\ UNCHANGED cactive /\ cactive
      BY <1>0, <1>9, <3>2 DEF ClientPong, Answered, Calm
    <3>4. c2s' = <<[type |-> "command", cipher |-> TRUE]>>
      <4>1. Packet("command", cactive) = [type |-> "command", cipher |-> TRUE]
        BY <1>0, <3>3, PacketModes DEF Empty
      <4>2. QED
        BY <3>1, <3>3, <4>1, OnePacket DEF ClientSends
    <3>5. Commanding' /\ Calm'
      BY <1>0, <1>9, <3>1, <3>3, <3>4 DEF Commanding, Answered, Calm, svars
    <3>6. QED
      BY <3>5 DEF Early
  <2>3. QED
    BY <2>1, <2>2
<1>10. CASE Commanding
  <2>1. ServerReads
    BY <1>0, <1>10 DEF Next, Commanding, Calm, ClientReadEvent, OtherSends, OtherReads,
       ServerReadsAstray, ServerWrites, Worker, HandleProtocolVersion, HandlePublicKey,
       Activate, HandlePing, AdvanceToBody, HandleCommand, HandleNothing, Handling
  <2>2. /\ Head(c2s) = [type |-> "command", cipher |-> TRUE] /\ Tail(c2s) = <<>>
        /\ sactive = TRUE
    BY <1>10, OnePacket DEF Commanding, TypeOK, ServerInv
  <2>3. Body(Head(c2s)) = "cipher"
    <3>1. Head(c2s).cipher = TRUE
      BY <2>2
    <3>2. Intelligible(Head(c2s), sactive, CommonKey(skey), CommonKey(ckey))
      BY <2>2, <3>1 DEF Intelligible, CommonKey
    <3>3. QED
      BY <3>1, <3>2 DEF Body
  <2>4. astray' = TRUE
    BY <2>1, <2>3 DEF ServerReads
  <2> DEFINE r == [type |-> "command", body |-> "cipher"]
  <2>5. PICK g \in Garbage : queue' = queue \o <<r>> \o g
    <3>1. Head(c2s).type = "command"
      BY <2>2
    <3>2. \E g \in Garbage :
            queue' = queue \o <<[type |-> Head(c2s).type, body |-> Body(Head(c2s))]>> \o g
      BY <2>1, <2>4, Zenon DEF ServerReads
    <3>3. QED
      BY <2>3, <3>1, <3>2
  <2> DEFINE Sound == {q \in Read : q.body # "garbled"}
  <2>6. g \in Seq(Sound) /\ r \in Sound
    <3>1. \A q \in [type : Types, body : {"stray"}] : q \in Sound
      BY DEF Read
    <3>2. g = <<>> \/ \E q \in Sound : g = <<q>>
      BY <3>1 DEF Garbage
    <3>3. r \in Sound
      BY DEF Read, Types
    <3> HIDE DEF Sound
    <3>4. <<>> \in Seq(Sound) /\ \A q \in Sound : <<q>> \in Seq(Sound)
      OBVIOUS
    <3>5. QED
      BY <3>2, <3>3, <3>4
  <2> HIDE DEF r, Sound
  <2>7. queue' = <<r>> \o g
    BY <1>10, <2>5 DEF Commanding
  <2>8. queue' \in Seq(Sound) /\ queue' # <<>> /\ Head(queue') = r
    BY <2>6, <2>7
  <2>9. Head(queue').type = "command"
    BY <2>8 DEF r
  <2>10. /\ c2s' = <<>> /\ out' = <<>> /\ s2c' = <<>> /\ cin' = <<>> /\ spc' = "idle"
         /\ cstate' = "BODY" /\ sstate' = "BODY"
    BY <1>0, <1>10, <2>1, <2>2 DEF ServerReads, Commanding, Calm, cvars
  <2>11. QED
    BY <2>4, <2>8, <2>9, <2>10 DEF Late, Sound
<1>11. QED
  BY <1>1, <1>2, <1>3, <1>4, <1>5, <1>6, <1>7, <1>8, <1>9, <1>10 DEF Early

\* What the worker replies to garbage is no key.
LEMMA RepliesUnanswered ==
  ASSUME TypeOK, NEW type \in {"ok", "pong", "reject", "error"}, Reply(type),
         out \in Seq(Unanswered)
  PROVE  out' \in Seq(Unanswered)
<1>1. Packet(type, sactive) \in Message /\ Packet(type, sactive).type = type
  BY PacketIsMessage DEF TypeOK, Types, Empty
<1>2. Packet(type, sactive) \in Unanswered
  BY <1>1 DEF Unanswered
<1>3. QED
  BY <1>2 DEF Reply

\* Once the command has been read the client sends nothing more, whatever the
\* server takes the rest of the ciphertext for.
LEMMA LateStep ==
  ASSUME TypeOK, ServerInv, bundled, Late, Next
  PROVE  Late'
<1> DEFINE Sound == {q \in Read : q.body # "garbled"}
<1>0. /\ cstate = "BODY" /\ sstate = "BODY" /\ astray /\ c2s = <<>>
      /\ queue \in Seq(Sound)
      /\ s2c \in Seq(Unanswered) /\ out \in Seq(Unanswered) /\ cin \in Seq(Unanswered)
      /\ accepted = <<>> =>
           /\ spc = "idle" /\ queue # <<>> /\ Head(queue).type = "command"
           /\ out = <<>> /\ s2c = <<>> /\ cin = <<>>
  BY DEF Late
<1>1. CASE ClientReadEvent
  <2>1. cin \o s2c \in Seq(Unanswered) /\ cin \o s2c # <<>>
    BY <1>0, <1>1 DEF ClientReadEvent
  <2>2. Head(cin \o s2c) \in Unanswered /\ Tail(cin \o s2c) \in Seq(Unanswered)
    BY <2>1
  <2>3. Head(cin \o s2c).type # "public_key"
    BY <2>2 DEF Unanswered
  <2>4. /\ ClientOk \/ ClientPong \/ ClientNothing
        /\ s2c' = <<>> /\ s2c # <<>> /\ cin' = Tail(cin \o s2c) /\ UNCHANGED svars
    BY <1>1, <2>3, ClientHandles
  <2>5. cstate' = cstate /\ c2s' = c2s
    BY <1>0, <2>4 DEF ClientOk, ClientPong, ClientNothing
  <2>6. QED
    BY <1>0, <2>2, <2>4, <2>5 DEF Late, svars
<1>2. CASE ServerWrites
  <2>1. s2c' \in Seq(Unanswered) /\ out' = <<>> /\ out' \in Seq(Unanswered)
    BY <1>0, <1>2 DEF ServerWrites
  <2>2. accepted = <<>> => s2c' = <<>>
    BY <1>0, <1>2 DEF ServerWrites
  <2>3. QED
    BY <1>0, <1>2, <2>1, <2>2 DEF ServerWrites, Late, cvars
<1>3. CASE Worker
  <2>1. /\ UNCHANGED <<cvars, c2s, s2c, astray>> /\ sstate' = "BODY"
        /\ \/ queue' = Tail(queue) /\ queue # <<>>
           \/ queue' = queue /\ accepted # <<>>
        /\ accepted' # <<>>
        /\ out' = out \/ Reply("ok") \/ Reply("pong") \/ Reply("reject") \/ Reply("error")
    <3>1. accepted = <<>> => Append(accepted, Head(queue)) # <<>>
      OBVIOUS
    <3>2. accepted # <<>> => Append(accepted, Head(queue)) # <<>>
      BY <1>0 DEF TypeOK
    <3>3. CASE HandleProtocolVersion
      BY <1>0, <3>3 DEF HandleProtocolVersion, Handling, Done
    <3>4. CASE HandlePublicKey
      BY <1>0, <3>4 DEF HandlePublicKey, Handling, Done
    <3>5. CASE Activate
      BY <1>0, <3>5 DEF Activate, ServerInv
    <3>6. CASE HandlePing
      BY <1>0, <3>6 DEF HandlePing, Handling
    <3>7. CASE AdvanceToBody
      BY <1>0, <3>7 DEF AdvanceToBody, Done, ServerInv
    <3>8. ASSUME NEW type \in {"command", "command_response"}, HandleCommand(type)
          PROVE  /\ UNCHANGED <<cvars, c2s, s2c, astray>> /\ sstate' = "BODY"
                 /\ queue' = Tail(queue) /\ queue # <<>>
                 /\ accepted' # <<>> /\ out' = out
      BY <1>0, <3>1, <3>2, <3>8 DEF HandleCommand, Handling, Done
    <3>9. CASE HandleNothing
      BY <1>0, <3>9 DEF HandleNothing, Handling, Done
    <3>10. QED
      BY <1>3, <3>3, <3>4, <3>5, <3>6, <3>7, <3>8, <3>9 DEF Worker
  <2>2. queue' \in Seq(Sound)
    <3>1. queue \in Seq(Sound)
      BY <1>0
    <3> HIDE DEF Sound
    <3>2. queue # <<>> => Tail(queue) \in Seq(Sound)
      BY <3>1
    <3>3. QED
      BY <2>1, <3>1, <3>2
  <2>3. out' \in Seq(Unanswered)
    BY <1>0, <2>1, RepliesUnanswered
  <2>4. QED
    BY <1>0, <2>1, <2>2, <2>3 DEF Late, cvars
<1>4. CASE ~ClientReadEvent /\ ~ServerWrites /\ ~Worker
  BY <1>0, <1>4 DEF Next, OtherSends, OtherReads, ServerReads, ServerReadsAstray
<1>5. QED
  BY <1>1, <1>2, <1>3, <1>4

\* The client and the server take turns, from the connection on.
LEMMA TurnsInvariant == Spec => [](TypeOK /\ ServerInv /\ TurnsInv)
<1>1. Init => TurnsInv
  <2> SUFFICES ASSUME Init, bundled PROVE TurnsInv
    BY DEF TurnsInv
  <2>1. c2s = <<[type |-> "protocol_version", cipher |-> FALSE]>>
    <3>1. c2s = <<Packet("protocol_version", FALSE)>>
      BY DEF Init
    <3>2. QED
      BY <3>1, PacketModes
  <2>2. Asking("PREHANDSHAKE", "protocol_version") /\ Calm
    BY <2>1 DEF Init, Asking, Calm
  <2>3. ckey = "zero" /\ skey = "zero"
    BY DEF Init
  <2>4. QED
    BY <2>2, <2>3 DEF TurnsInv, Early
<1>2. ASSUME TypeOK, ServerInv, TurnsInv, [Next]_vars PROVE TurnsInv'
  <2>1. bundled' = bundled /\ ckey' = ckey /\ skey' = skey
    BY <1>2, KeysStay
  <2>2. CASE UNCHANGED vars
    BY <1>2, <2>2 DEF vars, client, cvars, svars, TurnsInv, Early, Late, Calm, Asking,
       Busy, Answered, Refused, Commanding, Compatible
  <2>3. CASE Next
    BY <1>2, <2>1, <2>3, EarlyStep, LateStep DEF TurnsInv
  <2>4. QED
    BY <1>2, <2>2, <2>3
<1>3. TypeOK /\ ServerInv /\ TurnsInv /\ [Next]_vars => (TypeOK /\ ServerInv /\ TurnsInv)'
  BY <1>2, ServerStep
<1>4. QED
  BY <1>1, <1>3, ServerInit, PTL DEF Spec

\* Every packet of the bundled client is read in the mode and with the key it was
\* written with: no packet is on its way while the worker turns encryption on.
THEOREM ModesAgree == Spec => []ModeAgreement
<1>1. TypeOK /\ ServerInv /\ TurnsInv => ModeAgreement
  <2> SUFFICES ASSUME TurnsInv, bundled
               PROVE  \A i \in DOMAIN queue : queue[i].body # "garbled"
    BY DEF ModeAgreement
  <2>1. CASE Early
    <3>1. queue = <<>> \/ \E type \in Types : queue = <<[type |-> type, body |-> "clear"]>>
      BY <2>1 DEF Early, Asking, Busy, Answered, Refused, Commanding, Types, Empty
    <3>2. QED
      BY <3>1
  <2>2. CASE Late
    BY <2>2 DEF Late
  <2>3. QED
    BY <2>1, <2>2 DEF TurnsInv
<1>2. QED
  BY <1>1, TurnsInvariant, PTL

\* The server and the bundled client stay in step: at most one state apart, nothing
\* left over in the client's buffer, and no error or reject before the command is
\* accepted, if their versions are compatible.
THEOREM StayInStep == Spec => []InStep
<1>1. TypeOK /\ ServerInv /\ TurnsInv => InStep
  <2> SUFFICES ASSUME TypeOK, ServerInv, TurnsInv, bundled
               PROVE  /\ Rank(sstate) - Rank(cstate) \in {0, 1}
                      /\ cstate # "BODY" => cin = <<>>
                      /\ Compatible(version) /\ accepted = <<>> =>
                           /\ \A m \in ToClient : m.type \notin {"error", "reject"}
                           /\ \A i \in DOMAIN c2s : c2s[i].type # "error"
    BY DEF InStep
  <2>1. CASE Early
    <3>1. \/ cstate = sstate
          \/ cstate = "PREHANDSHAKE" /\ sstate = "PREENCRYPT"
          \/ cstate = "PREENCRYPT" /\ sstate = "ENCRYPT"
          \/ cstate = "ENCRYPT" /\ sstate = "BODY"
      BY <2>1 DEF Early, Asking, Busy, Answered, Refused, Commanding
    <3>2. Rank(sstate) - Rank(cstate) \in {0, 1}
      BY <3>1 DEF Rank, TypeOK, ServerInv, States
    <3>3. cin = <<>>
      BY <2>1 DEF Early, Calm
    <3>4. \/ c2s = <<>>
          \/ \E type \in Types \ {"error"} : \E cipher \in {TRUE, FALSE} :
               c2s = <<[type |-> type, cipher |-> cipher]>>
      BY <2>1 DEF Early, Asking, Busy, Answered, Refused, Commanding, Types, Empty
    <3>5. \A i \in DOMAIN c2s : c2s[i].type # "error"
      BY <3>4
    <3>6. ASSUME Compatible(version)
          PROVE  \A m \in ToClient : m.type \notin {"error", "reject"}
      <4> DEFINE Good(q) == \/ q = <<>>
                            \/ \E type \in {"ok", "pong", "public_key"} :
                                 q = <<[type |-> type, cipher |-> FALSE]>>
      <4>1. Good(out) /\ Good(s2c)
        BY <2>1, <3>6 DEF Early, Asking, Busy, Answered, Refused, Commanding
      <4>2. /\ \A k \in DOMAIN out : out[k].type \notin {"error", "reject"}
            /\ \A k \in DOMAIN s2c : s2c[k].type \notin {"error", "reject"}
        BY <4>1
      <4>3. QED
        BY <3>3, <4>2 DEF ToClient
    <3>7. QED
      BY <3>2, <3>3, <3>5, <3>6
  <2>2. CASE Late
    <3>1. Rank(sstate) - Rank(cstate) \in {0, 1}
      BY <2>2 DEF Late, Rank
    <3>2. cstate = "BODY" /\ c2s = <<>>
      BY <2>2 DEF Late
    <3>3. accepted = <<>> => \A m \in ToClient : m.type \notin {"error", "reject"}
      BY <2>2 DEF Late, ToClient
    <3>4. QED
      BY <3>1, <3>2, <3>3
  <2>3. QED
    BY <2>1, <2>2 DEF TurnsInv
<1>2. QED
  BY <1>1, TurnsInvariant, PTL
=============================================================================
