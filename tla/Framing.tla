------------------------------ MODULE Framing -------------------------------
(***************************************************************************)
(* Packets as bytes: what excom_protocol_write_packet puts on the wire     *)
(* (src/excom/protocol.c, protocol/pack.c), and how the read events and    *)
(* check_packet of the server and of the client take packets off it again. *)
(*                                                                         *)
(* Offsets are counted from the first byte of the connection: buf.in holds *)
(* the bytes pos .. used - 1 that have arrived and were not taken.  Both   *)
(* ends agree on which packets are encrypted (Handshake, ModeAgreement).   *)
(***************************************************************************)
EXTENDS Naturals, Sequences

CONSTANTS Packets,      \* the packets that may be sent
          Strange,      \* what read_packet may make of bytes that are not, or not
                        \* all, those of a packet
          MaxPackets,   \* bound: packets on one connection
          MaxAstray,    \* bound: packets taken once pos is lost
          NonceBytes,   \* crypto_box_NONCEBYTES
          ZeroBytes     \* crypto_box_ZEROBYTES

Byte == 0 .. 255

\* The packets and the fields of each (packets.def).
Types == {1, 2, 3, 4, 5, 6, 7, 16, 17}
HasString(type) == type \in {4, 7, 16, 17}
Numbers(type) == CASE type = 4 -> 3 [] type \in {2, 3} -> 1 [] OTHER -> 0

\* A packet has a type, the string and the numbers of its body, and is encrypted
\* or not.
ASSUME FramingAssumption ==
  /\ MaxPackets \in Nat /\ MaxAstray \in Nat
  /\ NonceBytes \in Nat \ {0} /\ ZeroBytes \in Nat \ {0}
  /\ \A p \in Packets :
       /\ p \in [type : Types, text : Seq(Byte), numbers : Seq(Byte), enc : BOOLEAN]
       /\ Len(p.numbers) = Numbers(p.type)
       /\ ~HasString(p.type) => p.text = <<>>

\* A number fits a uint32_t: its highest part is a byte.
Fits32(n) == n \div 16777216 \in Byte

\* The length of a packet is a uint32_t.
ASSUME LengthAssumption ==
  \A p \in Packets :
    Fits32(NonceBytes + ZeroBytes + 4 + Len(p.text) + Len(p.numbers))

VARIABLES side,       \* who reads: the "server" or the "client"
          little,     \* the byte order of the sender is little-endian
          sent,       \* the packets sent
          wire,       \* the bytes sent
          ends,       \* history: where each packet ends
          used, pos,  \* of buf.in; pos is followed until it is lost
          taken,      \* the packets read_packet has returned
          sound,      \* history: how many of them before one was taken short or
                      \* pos was lost
          rpc,        \* place of the reader: "idle", "check" or "closed"
          fin,        \* the sender has closed
          split,      \* history: a read event ended within the last four bytes
                      \* of a packet
          lost        \* history: pos is not where a packet begins: a packet was
                      \* taken "short", or from a box ("sealed")

vars == <<side, little, sent, wire, ends, used, pos, taken, sound, rpc, fin,
          split, lost>>

Init ==
  /\ side \in {"server", "client"} /\ little \in BOOLEAN
  /\ sent = <<>> /\ wire = <<>> /\ ends = <<>> /\ taken = <<>>
  /\ used = 0 /\ pos = 0 /\ sound = 0
  /\ rpc = "idle" /\ fin = FALSE /\ split = FALSE /\ lost = "no"

-----------------------------------------------------------------------------
(***************************************************************************)
(* Numbers (protocol/pack.c).                                              *)
(***************************************************************************)

\* Mutant: the parts of the number are written as they are.
MutPack32(n) ==
  <<n % 256, (n \div 256) % 256, (n \div 65536) % 256, n \div 16777216>>

\* excom_protocol_pack_uint32_t: htonl on a little-endian host, and then the
\* lowest part first.  On a big-endian host nothing is swapped.
Pack32(n) ==
  LET bytes == <<n % 256, (n \div 256) % 256, (n \div 65536) % 256, n \div 16777216>>
  IN  IF little THEN <<bytes[4], bytes[3], bytes[2], bytes[1]>> ELSE bytes

\* excom_protocol_pack_uint16_t.
Pack16(n) == IF little THEN <<n \div 256, n % 256>> ELSE <<n % 256, n \div 256>>

\* excom_protocol_unpack_uint32_t and _uint16_t at an offset, on either host: the
\* first byte is the highest.
Unpack32(o) == 16777216 * wire[o + 1] + 65536 * wire[o + 2]
                 + 256 * wire[o + 3] + wire[o + 4]
Unpack16(o) == 256 * wire[o + 1] + wire[o + 2]

-----------------------------------------------------------------------------
(***************************************************************************)
(* The sender.                                                             *)
(***************************************************************************)

\* The fields of a packet.
Body(p) ==
  (IF HasString(p.type) THEN Pack32(Len(p.text)) \o p.text ELSE <<>>) \o p.numbers

\* excom_pencrypt_buffer2: a nonce and the box, whose bytes are of no meaning.
\* An empty body stays empty.
Sealed(body) ==
  IF body = <<>> THEN <<>>
                 ELSE [k \in 1 .. NonceBytes + ZeroBytes + Len(body) |-> 0]

OnWire(p) == IF p.enc THEN Sealed(Body(p)) ELSE Body(p)

\* excom_protocol_write_packet; the id is left out of the packet and is 1.
Send(p) ==
  /\ ~fin /\ Len(sent) < MaxPackets
  /\ sent' = Append(sent, p)
  /\ wire' = wire \o Pack32(Len(OnWire(p))) \o Pack16(1) \o Pack16(p.type)
                  \o OnWire(p)
  /\ ends' = Append(ends, Len(wire'))
  /\ UNCHANGED <<side, little, used, pos, taken, sound, rpc, fin, split, lost>>

Finish ==
  /\ ~fin /\ fin' = TRUE
  /\ UNCHANGED <<side, little, sent, wire, ends, used, pos, taken, sound, rpc,
                 split, lost>>

-----------------------------------------------------------------------------
(***************************************************************************)
(* The reader.                                                             *)
(***************************************************************************)

Within(u) == \E k \in DOMAIN ends : ends[k] - 4 <= u /\ u < ends[k]

\* Mutant: the buffer of the read is appended, not the bytes that were read.
MutReadEvent(u) ==
  /\ rpc = "idle" /\ used < u /\ u <= Len(wire)
  /\ used' = used + 32
  /\ split' = (split \/ Within(u))
  /\ rpc' = "check"
  /\ UNCHANGED <<side, little, sent, wire, ends, pos, taken, sound, fin, lost>>

\* A read event takes over what has arrived, until read(2) would block: then the
\* packets are looked at.
ReadEvent(u) ==
  /\ rpc = "idle" /\ used < u /\ u <= Len(wire)
  /\ used' = u
  /\ split' = (split \/ Within(u))
  /\ rpc' = "check"
  /\ UNCHANGED <<side, little, sent, wire, ends, pos, taken, sound, fin, lost>>

\* A read event finds the end of the stream: the server closes the connection,
\* the client gives up, and neither looks at the packets.
ReadEnd ==
  /\ rpc = "idle" /\ fin
  /\ used' = Len(wire)
  /\ rpc' = "closed"
  /\ UNCHANGED <<side, little, sent, wire, ends, pos, taken, sound, fin, split,
                 lost>>

Remaining == used - pos

\* The test in front of the size, of the server and of the client.
Enough == IF side = "server" THEN Remaining > 4 ELSE Remaining >= 4

\* Mutant: the header is not counted.
MutComplete == Remaining >= Unpack32(pos)

\* The test that decides that the packet is there: it counts four bytes of the
\* header, of eight.
Complete == Remaining >= 4 + Unpack32(pos)

\* check_packet ends: there is no packet, or it is not complete.  Where pos is
\* lost, the bytes there may say so or not.
CheckEnds ==
  /\ rpc = "check"
  /\ lost # "no" \/ ~(Enough /\ Complete)
  /\ rpc' = "idle"
  /\ UNCHANGED <<side, little, sent, wire, ends, used, pos, taken, sound, fin,
                 split, lost>>

\* Mutant: the length of a string is not counted.
MutFields(type, o) ==
  [text |-> IF HasString(type) THEN SubSeq(wire, o + 5, o + 4 + Unpack32(o)) ELSE <<>>,
   length |-> (IF HasString(type) THEN Unpack32(o) ELSE 0) + Numbers(type)]

\* What read_packet finds in a body at an offset, and how far it gets.
Fields(type, o) ==
  [text |-> IF HasString(type) THEN SubSeq(wire, o + 5, o + 4 + Unpack32(o)) ELSE <<>>,
   length |-> (IF HasString(type) THEN 4 + Unpack32(o) ELSE 0) + Numbers(type)]

\* The packet that write_packet has put at pos.
Current == sent[Len(taken) + 1]

\* excom_protocol_read_packet on a packet in clear.  pos moves past the header
\* and the fields.
ReadClear ==
  LET type == Unpack16(pos + 6)
      fields == Fields(type, pos + 8)
      end == pos + 8 + fields.length
  IN  /\ taken' = Append(taken, [type |-> type, text |-> fields.text,
                                 numbers |-> SubSeq(wire, end - Numbers(type) + 1, end),
                                 enc |-> FALSE])
      /\ pos' = end
      /\ UNCHANGED lost

\* ... and on an encrypted one: excom_pdecrypt_buffer2 opens the box, and pos
\* moves past the nonce and the fields, but not past the rest of the box.
ReadSealed ==
  /\ taken' = Append(taken, [Current EXCEPT !.type = Unpack16(pos + 6)])
  /\ pos' = pos + 8 + (IF Unpack32(pos) = 0 THEN 0
                       ELSE Unpack32(pos) - ZeroBytes)
  /\ lost' = IF Unpack32(pos) = 0 THEN lost ELSE "sealed"

\* Behind a packet check_packet looks for the next one on the server only.
Onward == IF side = "server" THEN "check" ELSE "idle"

\* The packet at pos lacks its last bytes, and read_packet reads on behind those
\* that have arrived: the packet it returns need not be what was sent, and how far
\* pos moves is up to those bytes.  Where its type is missing it may be INVALID,
\* which read_packet refuses.
TakeShort ==
  /\ Remaining < 8 + Unpack32(pos)
  /\ lost' = "short"
  /\ \/ /\ \E p \in Strange : taken' = Append(taken, p)
        /\ rpc' = Onward
     \/ Remaining < 8 /\ UNCHANGED taken /\ rpc' = "idle"
  /\ UNCHANGED <<pos, sound>>

\* Mutant: the server takes one packet per read event, as the client does.
MutTakeWhole ==
  /\ Remaining >= 8 + Unpack32(pos)
  /\ IF Current.enc THEN ReadSealed ELSE ReadClear
  /\ sound' = Len(taken')
  /\ rpc' = "idle"

\* The packet at pos has arrived.
TakeWhole ==
  /\ Remaining >= 8 + Unpack32(pos)
  /\ IF Current.enc THEN ReadSealed ELSE ReadClear
  /\ sound' = Len(taken')
  /\ rpc' = Onward

\* check_packet takes the packet at pos.
Take ==
  /\ rpc = "check" /\ lost = "no" /\ Enough /\ Complete
  /\ TakeShort \/ TakeWhole
  /\ UNCHANGED <<side, little, sent, wire, ends, used, fin, split>>

\* Where pos is lost check_packet goes on: the bytes there, of a box or of the
\* middle of a packet, may be taken for any packet.
TakeAstray ==
  /\ rpc = "check" /\ lost # "no" /\ Len(taken) < sound + MaxAstray
  /\ \E p \in Strange : taken' = Append(taken, p)
  /\ rpc' = Onward
  /\ UNCHANGED <<side, little, sent, wire, ends, used, pos, sound, fin, split, lost>>

-----------------------------------------------------------------------------
Reader ==
  ReadEnd \/ CheckEnds \/ Take \/ TakeAstray \/ \E u \in 1 .. Len(wire) : ReadEvent(u)

Next == Finish \/ Reader \/ \E p \in Packets : Send(p)

Spec == Init /\ [][Next]_vars

\* What has been sent arrives, and the event thread runs.
FairSpec == Spec /\ WF_vars(Reader)

-----------------------------------------------------------------------------
(***************************************************************************)
(* Properties.                                                             *)
(***************************************************************************)

\* Every byte on the wire is one, and the counters keep their types.
TypeOK ==
  /\ side \in {"server", "client"} /\ little \in BOOLEAN
  /\ sent \in Seq(Packets) /\ wire \in Seq(Byte) /\ ends \in Seq(Nat)
  /\ Len(ends) = Len(sent)
  /\ used \in 0 .. Len(wire) /\ pos \in Nat /\ sound \in Nat
  /\ rpc \in {"idle", "check", "closed"} /\ fin \in BOOLEAN /\ split \in BOOLEAN
  /\ lost \in {"no", "short", "sealed"}

\* From a little-endian sender, the packets that the reader takes before it loses
\* its place (LostOnlyBy says when it does) are the packets that were sent, in their
\* order, wherever their bytes are cut; and until then pos is where the next packet
\* begins.  What it takes afterwards may be anything.
TakenIsPrefix ==
  little =>
    /\ sound <= Len(sent) /\ sound <= Len(taken)
    /\ \A k \in 1 .. sound : taken[k] = sent[k]
    /\ lost = "no" =>
         sound = Len(taken) /\ pos = IF taken = <<>> THEN 0 ELSE ends[sound]

\* The reader loses its place only by a cut within the last four bytes of a packet,
\* or behind an encrypted packet that is not empty.
LostOnlyBy ==
  /\ lost = "short" => ~little \/ split
  /\ lost = "sealed" => sound > 0 /\ taken[sound].enc /\ Body(taken[sound]) # <<>>

\* The server waits for the next read event, which may be the end of the stream,
\* with no packet left that has arrived: a connection that ends loses only what
\* came with its end.
ServerTakesAll ==
  side = "server" /\ little /\ lost = "no" /\ rpc = "idle" =>
    \A k \in DOMAIN ends : ends[k] <= used => k <= Len(taken)

\* Every packet sent to a server that is not lost is taken, unless the connection
\* ends first.
SentIsTaken ==
  \A k \in 1 .. MaxPackets :
    (side = "server" /\ little /\ Len(sent) >= k)
      ~> (Len(taken) >= k \/ lost # "no" \/ fin)
=============================================================================
