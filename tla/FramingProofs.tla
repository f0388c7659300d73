--------------------------- MODULE FramingProofs ----------------------------
(***************************************************************************)
(* Proofs about Framing, for any packets, any number of them and any way   *)
(* their bytes are cut into read events, between little-endian hosts: what *)
(* the reader takes is what was sent until it loses its place, and it does *)
(* so only after a cut within the last four bytes of a packet or behind an *)
(* encrypted packet.                                                       *)
(***************************************************************************)
EXTENDS Framing, SequenceTheorems, TLAPS

\* The bytes of a body and of what is on the wire for it.
BodyLength(p) == (IF HasString(p.type) THEN 4 + Len(p.text) ELSE 0) + Len(p.numbers)
WireLength(p) ==
  IF p.enc /\ BodyLength(p) # 0 THEN NonceBytes + ZeroBytes + BodyLength(p)
                                ELSE BodyLength(p)

\* The number at an offset of a sequence of bytes, the highest part first.
Number32(s, o) ==
  16777216 * s[o + 1] + 65536 * s[o + 2] + 256 * s[o + 3] + s[o + 4]
Number16(s, o) == 256 * s[o + 1] + s[o + 2]

\* The bytes s hold the packet p from offset o to offset e.
Holds(s, o, e, p) ==
  /\ e = o + 8 + WireLength(p) /\ e <= Len(s)
  /\ Number32(s, o) = WireLength(p) /\ Number16(s, o + 6) = p.type
  /\ ~p.enc =>
       /\ HasString(p.type) =>
            /\ Number32(s, o + 8) = Len(p.text)
            /\ \A j \in 1 .. Len(p.text) : s[o + 12 + j] = p.text[j]
       /\ \A j \in 1 .. Len(p.numbers) :
            s[e - Len(p.numbers) + j] = p.numbers[j]

\* Where packet k begins.
Start(k) == IF k = 1 THEN 0 ELSE ends[k - 1]

\* The wire is the packets sent, one behind the other.
WireInv ==
  /\ \A k \in 1 .. Len(sent) : Holds(wire, Start(k), ends[k], sent[k])
  /\ \A a, b \in 1 .. Len(ends) : a < b => ends[a] < ends[b]
  /\ Len(wire) = Start(Len(sent) + 1)

\* What the reader has taken and where it is, and that a cut within the last four
\* bytes of a packet is on record.
ReaderInv ==
  /\ taken \in Seq(Packets \cup Strange)
  /\ TakenIsPrefix /\ LostOnlyBy /\ ServerTakesAll
  /\ Within(used) => split

\* The inductive invariant, between little-endian hosts.
FramingInv == little => TypeOK /\ WireInv /\ ReaderInv

-----------------------------------------------------------------------------
(***************************************************************************)
(* Sequences and numbers.                                                  *)
(***************************************************************************)

\* A slice that agrees with a sequence is that sequence.
LEMMA SliceIs ==
  ASSUME NEW S, NEW s \in Seq(S), NEW t \in Seq(S), NEW m \in Nat,
         m + Len(t) <= Len(s), \A j \in 1 .. Len(t) : s[m + j] = t[j]
  PROVE  SubSeq(s, m + 1, m + Len(t)) = t
<1> DEFINE part == SubSeq(s, m + 1, m + Len(t))
<1>0. Len(t) \in Nat /\ Len(s) \in Nat
  BY LenProperties
<1>1. \A j \in m + 1 .. m + Len(t) : s[j] \in S
  BY <1>0, ElementOfSeq
<1>2. /\ part \in Seq(S) /\ Len(part) = Len(t)
      /\ \A j \in 1 .. Len(t) : part[j] = s[m + j]
  BY <1>0, <1>1, SubSeqProperties
<1> HIDE DEF part
<1>3. part = t
  BY <1>0, <1>2, SeqEqual
<1>4. QED
  BY <1>3 DEF part

\* r is s, and t behind it.
Behind(S, s, t, r) ==
  /\ r \in Seq(S) /\ Len(r) = Len(s) + Len(t)
  /\ \A j \in 1 .. Len(s) : r[j] = s[j]
  /\ \A j \in 1 .. Len(t) : r[Len(s) + j] = t[j]

\* Where the elements of two sequences are once one is appended to the other.
LEMMA Joined ==
  ASSUME NEW S, NEW s \in Seq(S), NEW t \in Seq(S)
  PROVE  Behind(S, s, t, s \o t)
<1> DEFINE r == s \o t
<1>0. Len(s) \in Nat /\ Len(t) \in Nat
  BY LenProperties
<1>1. r \in Seq(S) /\ Len(r) = Len(s) + Len(t)
  BY ConcatProperties
<1>2. \A i \in 1 .. Len(s) + Len(t) :
        r[i] = IF i <= Len(s) THEN s[i] ELSE t[i - Len(s)]
  BY ConcatProperties
<1>3. ASSUME NEW j \in 1 .. Len(t) PROVE r[Len(s) + j] = t[j]
  <2>1. Len(s) + j \in 1 .. Len(s) + Len(t) /\ ~(Len(s) + j <= Len(s))
        /\ (Len(s) + j) - Len(s) = j
    BY <1>0
  <2>2. QED
    BY <1>2, <2>1
<1>4. \A j \in 1 .. Len(s) : r[j] = s[j]
  BY <1>0, <1>2
<1>5. QED
  BY <1>1, <1>3, <1>4 DEF Behind

\* Behind the bytes w there are a length, an id, a type and a body.
Framed(w, a, c, d, all) ==
  /\ all \in Seq(Byte) /\ Len(all) = Len(w) + 8 + Len(d)
  /\ \A j \in 1 .. Len(w) : all[j] = w[j]
  /\ \A j \in 1 .. 4 : all[Len(w) + j] = a[j]
  /\ \A j \in 1 .. 2 : all[Len(w) + 6 + j] = c[j]
  /\ \A j \in 1 .. Len(d) : all[Len(w) + 8 + j] = d[j]

\* What write_packet appends: the length, the id, the type and the body.
LEMMA FiveParts ==
  ASSUME NEW w \in Seq(Byte), NEW a \in Seq(Byte), NEW b \in Seq(Byte),
         NEW c \in Seq(Byte), NEW d \in Seq(Byte), Len(a) = 4, Len(b) = 2, Len(c) = 2
  PROVE  Framed(w, a, c, d, w \o a \o b \o c \o d)
<1> DEFINE wa == w \o a
           wab == wa \o b
           wabc == wab \o c
           all == wabc \o d
<1>0. Len(w) \in Nat /\ Len(d) \in Nat
  BY LenProperties
<1>1. Behind(Byte, w, a, wa)
  BY Joined
<1> HIDE DEF wa
<1>2. Behind(Byte, wa, b, wab)
  <2>1. wa \in Seq(Byte)
    BY <1>1 DEF Behind
  <2>2. QED
    BY <2>1, Joined
<1> HIDE DEF wab
<1>3. Behind(Byte, wab, c, wabc)
  <2>1. wab \in Seq(Byte)
    BY <1>2 DEF Behind
  <2>2. QED
    BY <2>1, Joined
<1> HIDE DEF wabc
<1>4. Behind(Byte, wabc, d, all)
  <2>1. wabc \in Seq(Byte)
    BY <1>3 DEF Behind
  <2>2. QED
    BY <2>1, Joined
<1> HIDE DEF all
<1>6. Len(wa) = Len(w) + 4 /\ Len(wab) = Len(w) + 6 /\ Len(wabc) = Len(w) + 8
  BY <1>0, <1>1, <1>2, <1>3 DEF Behind
<1>7. ASSUME NEW j \in 1 .. Len(w) PROVE all[j] = w[j]
  <2>1. j \in 1 .. Len(wa) /\ j \in 1 .. Len(wab) /\ j \in 1 .. Len(wabc)
    BY <1>0, <1>6
  <2>2. wab[j] = w[j]
    BY <1>1, <1>2, <2>1 DEF Behind
  <2>3. QED
    BY <1>3, <1>4, <2>1, <2>2 DEF Behind
<1>8. ASSUME NEW j \in 1 .. 4 PROVE all[Len(w) + j] = a[j]
  <2>1. Len(w) + j \in 1 .. Len(wa) /\ Len(w) + j \in 1 .. Len(wab)
        /\ Len(w) + j \in 1 .. Len(wabc)
    BY <1>0, <1>6
  <2>2. wa[Len(w) + j] = a[j]
    BY <1>1 DEF Behind
  <2>3. wabc[Len(w) + j] = wa[Len(w) + j]
    BY <1>2, <1>3, <2>1 DEF Behind
  <2>4. QED
    BY <1>4, <2>1, <2>2, <2>3 DEF Behind
<1>9. ASSUME NEW j \in 1 .. 2 PROVE all[Len(w) + 6 + j] = c[j]
  <2>1. Len(w) + 6 + j \in 1 .. Len(wabc)
    BY <1>0, <1>6
  <2>2. QED
    BY <1>3, <1>4, <1>6, <2>1 DEF Behind
<1>10. Framed(w, a, c, d, all)
  BY <1>0, <1>4, <1>6, <1>7, <1>8, <1>9 DEF Behind, Framed
<1>11. QED
  BY <1>10 DEF all, wabc, wab, wa

\* The parts of a number are bytes, and give the number back.
LEMMA Parts32 ==
  ASSUME NEW n \in Nat
  PROVE  /\ (n \div 65536) % 256 \in Byte /\ (n \div 256) % 256 \in Byte
         /\ n % 256 \in Byte
         /\ 16777216 * (n \div 16777216) + 65536 * ((n \div 65536) % 256)
              + 256 * ((n \div 256) % 256) + (n % 256) = n
<1>1. /\ n \div 65536 \in Nat /\ n \div 256 \in Nat
  BY SMT
<1>2. \A m \in Nat : m % 256 \in Byte
  BY SMT DEF Byte
<1>3. 16777216 * (n \div 16777216) + 65536 * ((n \div 65536) % 256)
        + 256 * ((n \div 256) % 256) + (n % 256) = n
  BY SMTT(60)
<1>4. QED
  BY <1>1, <1>2, <1>3, SMT

\* The same for a number of two bytes, as the type of a packet is.
LEMMA Parts16 ==
  ASSUME NEW n \in Nat, n < 256
  PROVE  n \div 256 \in Byte /\ n % 256 \in Byte /\ 256 * (n \div 256) + (n % 256) = n
  BY SMT DEF Byte

\* Four bytes are a sequence of bytes, and two are.
LEMMA ByteTuples ==
  ASSUME NEW a \in Byte, NEW b \in Byte, NEW c \in Byte, NEW d \in Byte
  PROVE  /\ \A s : s = <<a, b>> =>
              s \in Seq(Byte) /\ Len(s) = 2 /\ s[1] = a /\ s[2] = b
         /\ \A s : s = <<a, b, c, d>> =>
              /\ s \in Seq(Byte) /\ Len(s) = 4
              /\ s[1] = a /\ s[2] = b /\ s[3] = c /\ s[4] = d
<1>1. /\ <<a, b>> \in Seq(Byte) /\ Len(<<a, b>>) = 2
      /\ <<a, b>>[1] = a /\ <<a, b>>[2] = b
  OBVIOUS
<1>2. /\ <<a, b, c, d>> \in Seq(Byte) /\ Len(<<a, b, c, d>>) = 4
      /\ <<a, b, c, d>>[1] = a /\ <<a, b, c, d>>[2] = b
      /\ <<a, b, c, d>>[3] = c /\ <<a, b, c, d>>[4] = d
  OBVIOUS
<1>3. QED
  BY <1>1, <1>2, Zenon

\* pack_uint32_t of a little-endian host writes four bytes.
LEMMA Packed32 ==
  ASSUME little, NEW n \in Nat, Fits32(n)
  PROVE  Pack32(n) \in Seq(Byte) /\ Len(Pack32(n)) = 4
<1> DEFINE b1 == n \div 16777216
           b2 == (n \div 65536) % 256
           b3 == (n \div 256) % 256
           b4 == n % 256
<1>1. Pack32(n) = <<b1, b2, b3, b4>>
  BY SMT DEF Pack32
<1>2. b1 \in Byte /\ b2 \in Byte /\ b3 \in Byte /\ b4 \in Byte
  BY Parts32, SMT DEF Fits32
<1> HIDE DEF b1, b2, b3, b4
<1>3. QED
  BY <1>1, <1>2, ByteTuples, SMT

\* pack_uint16_t of a little-endian host, for the id and the types.
LEMMA Packed16 ==
  ASSUME little, NEW n \in Nat, n < 256
  PROVE  /\ Pack16(n) \in Seq(Byte) /\ Len(Pack16(n)) = 2
         /\ Pack16(n)[1] = n \div 256 /\ Pack16(n)[2] = n % 256
  BY Parts16, SMT DEF Pack16

\* unpack_uint32_t finds the number that pack_uint32_t has written.
LEMMA Unpacked32 ==
  ASSUME little, NEW n \in Nat, NEW s, NEW o \in Nat,
         \A j \in 1 .. 4 : s[o + j] = Pack32(n)[j]
  PROVE  Number32(s, o) = n
<1>1. /\ s[o + 1] = Pack32(n)[1] /\ s[o + 2] = Pack32(n)[2]
      /\ s[o + 3] = Pack32(n)[3] /\ s[o + 4] = Pack32(n)[4]
  BY SMT
<1>2. /\ Pack32(n)[1] = n \div 16777216 /\ Pack32(n)[2] = (n \div 65536) % 256
      /\ Pack32(n)[3] = (n \div 256) % 256 /\ Pack32(n)[4] = n % 256
  BY SMT DEF Pack32
<1>3. QED
  BY <1>1, <1>2, Parts32, SMT DEF Number32

\* unpack_uint16_t finds the number that pack_uint16_t has written.
LEMMA Unpacked16 ==
  ASSUME little, NEW n \in Nat, n < 256, NEW s, NEW o \in Nat,
         \A j \in 1 .. 2 : s[o + j] = Pack16(n)[j]
  PROVE  Number16(s, o) = n
<1>1. s[o + 1] = n \div 256 /\ s[o + 2] = n % 256
  BY Packed16, SMT
<1>2. QED
  BY <1>1, Parts16, SMT DEF Number16

-----------------------------------------------------------------------------
(***************************************************************************)
(* Packets on the wire.                                                    *)
(***************************************************************************)

\* The fields of a packet (packets.def).
LEMMA PacketFields ==
  ASSUME NEW p \in Packets
  PROVE  /\ p = [type |-> p.type, text |-> p.text, numbers |-> p.numbers, enc |-> p.enc]
         /\ p.type \in Types /\ p.type \in Nat /\ p.type < 256
         /\ p.text \in Seq(Byte) /\ Len(p.text) \in Nat
         /\ p.numbers \in Seq(Byte) /\ Len(p.numbers) \in Nat
         /\ Len(p.numbers) = Numbers(p.type) /\ p.enc \in BOOLEAN
         /\ ~HasString(p.type) => Len(p.text) = 0
<1>1. /\ p \in [type : Types, text : Seq(Byte), numbers : Seq(Byte), enc : BOOLEAN]
      /\ Len(p.numbers) = Numbers(p.type) /\ (~HasString(p.type) => p.text = <<>>)
  BY FramingAssumption, Zenon
<1>2. /\ p.type \in Types /\ p.text \in Seq(Byte) /\ p.numbers \in Seq(Byte)
      /\ p.enc \in BOOLEAN
      /\ p = [type |-> p.type, text |-> p.text, numbers |-> p.numbers, enc |-> p.enc]
  BY <1>1
<1>3. Len(p.text) \in Nat /\ Len(p.numbers) \in Nat
  BY <1>2, LenProperties
<1>4. p.type \in Nat /\ p.type < 256
  BY <1>2 DEF Types
<1>5. QED
  BY <1>1, <1>2, <1>3, <1>4

\* The lengths that write_packet packs fit a uint32_t.
LEMMA LengthsFit ==
  ASSUME NEW p \in Packets
  PROVE  /\ BodyLength(p) \in Nat /\ WireLength(p) \in Nat
         /\ Fits32(WireLength(p)) /\ Fits32(Len(p.text))
<1> DEFINE t == Len(p.text)
           n == Len(p.numbers)
           body == BodyLength(p)
           top == NonceBytes + ZeroBytes + 4 + t + n
<1>1. NonceBytes \in Nat /\ ZeroBytes \in Nat
  BY FramingAssumption
<1>2. t \in Nat /\ n \in Nat
  BY PacketFields, Zenon
<1>3. Fits32(top)
  BY LengthAssumption, Zenon
<1>4. body = (IF HasString(p.type) THEN 4 + t ELSE 0) + n
  BY DEF BodyLength
<1>5. WireLength(p) = IF p.enc /\ body # 0 THEN NonceBytes + ZeroBytes + body ELSE body
  BY DEF WireLength
<1> HIDE DEF t, n, body
<1>6. body \in Nat /\ body <= 4 + t + n
  BY <1>2, <1>4
<1>7. /\ WireLength(p) \in Nat /\ WireLength(p) <= top
      /\ top \in Nat /\ t <= top
  BY <1>1, <1>2, <1>5, <1>6
<1> HIDE DEF top
<1>8. \A m \in Nat : m <= top => Fits32(m)
  BY <1>3, <1>7, SMT DEF Byte, Fits32
<1>9. Fits32(WireLength(p)) /\ Fits32(t)
  BY <1>2, <1>7, <1>8, Zenon
<1>10. QED
  BY <1>6, <1>7, <1>9, Zenon DEF t, body

\* The body of a packet in clear: its string, behind the length, and its numbers.
LEMMA BodyIs ==
  ASSUME little, NEW p \in Packets
  PROVE  /\ Body(p) \in Seq(Byte) /\ Len(Body(p)) = BodyLength(p)
         /\ HasString(p.type) =>
              /\ \A j \in 1 .. 4 : Body(p)[j] = Pack32(Len(p.text))[j]
              /\ \A j \in 1 .. Len(p.text) : Body(p)[4 + j] = p.text[j]
         /\ \A j \in 1 .. Len(p.numbers) :
              Body(p)[BodyLength(p) - Len(p.numbers) + j] = p.numbers[j]
<1> DEFINE head == Pack32(Len(p.text))
           string == head \o p.text
           front == IF HasString(p.type) THEN string ELSE <<>>
<1>1. /\ p.text \in Seq(Byte) /\ Len(p.text) \in Nat
      /\ p.numbers \in Seq(Byte) /\ Len(p.numbers) \in Nat
  BY PacketFields, Zenon
<1>2. head \in Seq(Byte) /\ Len(head) = 4
  BY <1>1, LengthsFit, Packed32, Zenon
<1> HIDE DEF head
<1>3. Behind(Byte, head, p.text, string)
  BY <1>1, <1>2, Joined, Zenon
<1> HIDE DEF string
<1>4. front \in Seq(Byte)
  <2>1. <<>> \in Seq(Byte)
    BY EmptySeq
  <2>2. string \in Seq(Byte)
    BY <1>3 DEF Behind
  <2>3. QED
    BY <2>1, <2>2, Zenon
<1>5. Body(p) = front \o p.numbers
  BY DEF Body, front, string, head
<1>6. Len(front) = IF HasString(p.type) THEN 4 + Len(p.text) ELSE 0
  BY <1>1, <1>2, <1>3 DEF Behind
<1>7. HasString(p.type) => front = string
  OBVIOUS
<1> HIDE DEF front
<1>8. Behind(Byte, front, p.numbers, Body(p))
  BY <1>1, <1>4, <1>5, Joined, Zenon
<1>9. Body(p) \in Seq(Byte) /\ Len(Body(p)) = BodyLength(p)
  BY <1>6, <1>8 DEF Behind, BodyLength
<1>10. ASSUME NEW j \in 1 .. Len(p.numbers)
       PROVE  Body(p)[BodyLength(p) - Len(p.numbers) + j] = p.numbers[j]
  <2>1. BodyLength(p) = Len(front) + Len(p.numbers) /\ Len(front) \in Nat
    BY <1>1, <1>6 DEF BodyLength
  <2>2. BodyLength(p) - Len(p.numbers) + j = Len(front) + j
    BY <1>1, <2>1
  <2>3. QED
    BY <1>8, <2>2 DEF Behind
<1>11. ASSUME HasString(p.type), NEW j \in 1 .. 4 PROVE Body(p)[j] = head[j]
  <2>1. j \in 1 .. Len(front) /\ j \in 1 .. Len(head)
    BY <1>1, <1>2, <1>6, <1>11
  <2>2. QED
    BY <1>3, <1>7, <1>8, <1>11, <2>1 DEF Behind
<1>12. ASSUME HasString(p.type), NEW j \in 1 .. Len(p.text)
       PROVE  Body(p)[4 + j] = p.text[j]
  <2>1. 4 + j \in 1 .. Len(front)
    BY <1>1, <1>6, <1>12
  <2>2. string[4 + j] = p.text[j]
    BY <1>2, <1>3 DEF Behind
  <2>3. QED
    BY <1>7, <1>8, <1>12, <2>1, <2>2 DEF Behind
<1>13. QED
  BY <1>9, <1>10, <1>11, <1>12, Zenon DEF head

\* What is written of a packet, in clear or as a box, is WireLength bytes.
LEMMA OnWireIs ==
  ASSUME little, NEW p \in Packets
  PROVE  /\ OnWire(p) \in Seq(Byte) /\ Len(OnWire(p)) = WireLength(p)
         /\ ~p.enc => OnWire(p) = Body(p) /\ WireLength(p) = BodyLength(p)
<1>1. /\ Body(p) \in Seq(Byte) /\ Len(Body(p)) = BodyLength(p)
      /\ BodyLength(p) \in Nat
  BY BodyIs, LengthsFit, Zenon
<1>2. CASE ~p.enc
  BY <1>1, <1>2 DEF OnWire, WireLength
<1>3. CASE p.enc /\ BodyLength(p) = 0
  <2>1. Body(p) = <<>>
    BY <1>1, <1>3, EmptySeq
  <2>2. OnWire(p) = Body(p)
    BY <1>3, <2>1 DEF OnWire, Sealed
  <2>3. QED
    BY <1>1, <1>3, <2>2 DEF WireLength
<1>4. CASE p.enc /\ BodyLength(p) # 0
  <2> DEFINE n == NonceBytes + ZeroBytes + BodyLength(p)
             box == [k \in 1 .. n |-> 0]
  <2>1. n \in Nat
    BY <1>1, FramingAssumption
  <2>2. Body(p) # <<>>
    BY <1>1, <1>4, EmptySeq
  <2>3. OnWire(p) = box
    BY <1>1, <1>4, <2>2 DEF OnWire, Sealed
  <2>4. WireLength(p) = n
    BY <1>4 DEF WireLength
  <2> HIDE DEF n
  <2>5. 0 \in Byte
    BY DEF Byte
  <2>6. box \in Seq(Byte) /\ Len(box) = n
    BY <2>1, <2>5
  <2>7. QED
    BY <1>4, <2>3, <2>4, <2>6
<1>5. QED
  BY <1>2, <1>3, <1>4

\* The lengths of a packet in clear.
LEMMA ClearLengths ==
  ASSUME NEW p \in Packets, ~p.enc
  PROVE  /\ WireLength(p) = BodyLength(p)
         /\ HasString(p.type) => WireLength(p) = 4 + Len(p.text) + Len(p.numbers)
         /\ ~HasString(p.type) => WireLength(p) = Len(p.numbers)
<1> DEFINE t == Len(p.text)
           n == Len(p.numbers)
<1>1. t \in Nat /\ n \in Nat
  BY PacketFields, Zenon
<1>2. WireLength(p) = BodyLength(p)
  BY DEF WireLength
<1>3. BodyLength(p) = (IF HasString(p.type) THEN 4 + t ELSE 0) + n
  BY DEF BodyLength
<1> HIDE DEF t, n
<1>4. /\ HasString(p.type) => BodyLength(p) = 4 + t + n
      /\ ~HasString(p.type) => BodyLength(p) = n
  BY <1>1, <1>3
<1>5. QED
  BY <1>2, <1>4, Zenon DEF t, n

\* What has been written holds more when more is appended.
LEMMA HoldsOn ==
  ASSUME NEW s \in Seq(Byte), NEW r \in Seq(Byte), NEW o \in Nat, NEW e,
         NEW p \in Packets,
         Holds(s, o, e, p), Len(s) <= Len(r),
         \A j \in 1 .. Len(s) : r[j] = s[j]
  PROVE  Holds(r, o, e, p)
<1> DEFINE t == Len(p.text)
           n == Len(p.numbers)
           l == WireLength(p)
           m == Len(s)
           h == HasString(p.type)
<1>0. t \in Nat /\ n \in Nat /\ l \in Nat /\ m \in Nat /\ Len(r) \in Nat
  BY PacketFields, LengthsFit, LenProperties, Zenon
<1>1. ~p.enc => (h => l = 4 + t + n) /\ (~h => l = n)
  BY ClearLengths, Zenon
<1>2. e = o + 8 + l /\ e <= m /\ m <= Len(r)
  BY Zenon DEF Holds
<1>3. \A j \in 1 .. m : r[j] = s[j]
  OBVIOUS
<1> HIDE DEF t, n, l, m, h
<1>4. /\ e \in Nat /\ e <= Len(r)
      /\ o + 1 \in 1 .. m /\ o + 2 \in 1 .. m /\ o + 3 \in 1 .. m /\ o + 4 \in 1 .. m
      /\ o + 6 + 1 \in 1 .. m /\ o + 6 + 2 \in 1 .. m
  BY <1>0, <1>2
<1>5. Number32(r, o) = Number32(s, o) /\ Number16(r, o + 6) = Number16(s, o + 6)
  BY <1>3, <1>4, SMT DEF Number32, Number16
<1>6. ASSUME ~p.enc, h PROVE Number32(r, o + 8) = Number32(s, o + 8)
  <2>1. /\ o + 8 + 1 \in 1 .. m /\ o + 8 + 2 \in 1 .. m
        /\ o + 8 + 3 \in 1 .. m /\ o + 8 + 4 \in 1 .. m
    BY <1>0, <1>1, <1>2, <1>6
  <2>2. QED
    BY <1>3, <2>1, SMT DEF Number32
<1>7. ASSUME ~p.enc, h, NEW j \in 1 .. t PROVE r[o + 12 + j] = p.text[j]
  <2>1. o + 12 + j \in 1 .. m
    BY <1>0, <1>1, <1>2, <1>7
  <2>2. s[o + 12 + j] = p.text[j]
    BY <1>7, Zenon DEF Holds, t, h
  <2>3. QED
    BY <1>3, <2>1, <2>2, Zenon
<1>8. ASSUME ~p.enc, NEW j \in 1 .. n PROVE r[e - n + j] = p.numbers[j]
  <2>1. e - n + j \in 1 .. m
    BY <1>0, <1>1, <1>2, <1>8
  <2>2. s[e - n + j] = p.numbers[j]
    BY <1>8, Zenon DEF Holds, n
  <2>3. QED
    BY <1>3, <2>1, <2>2, Zenon
<1>9. Holds(r, o, e, p) <=>
        /\ e = o + 8 + l /\ e <= Len(r)
        /\ Number32(r, o) = l /\ Number16(r, o + 6) = p.type
        /\ ~p.enc =>
             /\ h => /\ Number32(r, o + 8) = t
                     /\ \A j \in 1 .. t : r[o + 12 + j] = p.text[j]
             /\ \A j \in 1 .. n : r[e - n + j] = p.numbers[j]
  BY Zenon DEF Holds, t, n, l, h
<1>10. /\ Number32(s, o) = l /\ Number16(s, o + 6) = p.type
       /\ ~p.enc /\ h => Number32(s, o + 8) = t
  BY Zenon DEF Holds, t, l, h
<1>11. QED
  BY <1>2, <1>4, <1>5, <1>6, <1>7, <1>8, <1>9, <1>10, Zenon

\* What write_packet appends holds the packet.
LEMMA WrittenHolds ==
  ASSUME little, NEW p \in Packets, NEW w \in Seq(Byte), NEW all,
         all = w \o Pack32(Len(OnWire(p))) \o Pack16(1) \o Pack16(p.type) \o OnWire(p)
  PROVE  /\ all \in Seq(Byte) /\ Len(all) = Len(w) + 8 + WireLength(p)
         /\ \A j \in 1 .. Len(w) : all[j] = w[j]
         /\ Holds(all, Len(w), Len(all), p)
<1> DEFINE a == Pack32(Len(OnWire(p)))
           b == Pack16(1)
           c == Pack16(p.type)
           d == OnWire(p)
           e == Len(all)
           t == Len(p.text)
           n == Len(p.numbers)
           l == WireLength(p)
           o == Len(w)
           h == HasString(p.type)
<1>0. /\ t \in Nat /\ n \in Nat /\ l \in Nat
      /\ o \in Nat /\ o + 6 \in Nat /\ o + 8 \in Nat
      /\ p.type \in Nat /\ p.type < 256 /\ Fits32(l) /\ Fits32(t)
  <2>1. t \in Nat /\ n \in Nat /\ l \in Nat /\ o \in Nat
    BY PacketFields, LengthsFit, LenProperties, Zenon
  <2>2. p.type \in Nat /\ p.type < 256 /\ Fits32(l) /\ Fits32(t)
    BY PacketFields, LengthsFit, Zenon
  <2>3. o + 6 \in Nat /\ o + 8 \in Nat
    BY <2>1
  <2>4. QED
    BY <2>1, <2>2, <2>3, Zenon
<1>1. d \in Seq(Byte) /\ Len(d) = l
  BY OnWireIs, Zenon
<1>2. a = Pack32(l) /\ a \in Seq(Byte) /\ Len(a) = 4
  BY <1>0, <1>1, Packed32, Zenon
<1>3. c \in Seq(Byte) /\ Len(c) = 2
  BY <1>0, Packed16
<1>4. b \in Seq(Byte) /\ Len(b) = 2
  BY Packed16
<1>5. ~p.enc => (h => l = 4 + t + n) /\ (~h => l = n)
  BY ClearLengths, Zenon
<1>6. ~p.enc =>
        /\ h => /\ \A j \in 1 .. 4 : d[j] = Pack32(t)[j]
                /\ \A j \in 1 .. t : d[4 + j] = p.text[j]
        /\ \A j \in 1 .. n : d[l - n + j] = p.numbers[j]
  <2>1. ~p.enc => d = Body(p) /\ l = BodyLength(p)
    BY OnWireIs, Zenon
  <2>2. QED
    BY <2>1, BodyIs, Zenon
<1>7. all = w \o a \o b \o c \o d
  OBVIOUS
<1>8. c = Pack16(p.type)
  OBVIOUS
<1> HIDE DEF a, b, c, d, t, n, l, h
<1>9. /\ all \in Seq(Byte) /\ Len(all) = Len(w) + 8 + Len(d)
      /\ \A j \in 1 .. Len(w) : all[j] = w[j]
      /\ \A j \in 1 .. 4 : all[Len(w) + j] = a[j]
      /\ \A j \in 1 .. 2 : all[Len(w) + 6 + j] = c[j]
      /\ \A j \in 1 .. Len(d) : all[Len(w) + 8 + j] = d[j]
  <2>1. Framed(w, a, c, d, w \o a \o b \o c \o d)
    BY <1>1, <1>2, <1>3, <1>4, FiveParts
  <2>2. Framed(w, a, c, d, all)
    BY <1>7, <2>1
  <2>3. QED
    BY <2>2, Zenon DEF Framed
<1>10. e = o + 8 + l /\ e <= Len(all)
  BY <1>0, <1>1, <1>9
<1> HIDE DEF e, o
<1>11. Number32(all, o) = l
  <2>1. \A j \in 1 .. 4 : all[o + j] = Pack32(l)[j]
    BY <1>2, <1>9, Zenon DEF o
  <2>2. QED
    BY <1>0, <2>1, Unpacked32, Zenon
<1>12. Number16(all, o + 6) = p.type
  <2>1. \A j \in 1 .. 2 : all[o + 6 + j] = Pack16(p.type)[j]
    BY <1>8, <1>9, Zenon DEF o
  <2>2. QED
    BY <1>0, <2>1, Unpacked16, Zenon
<1>13. \A j \in 1 .. l : all[o + 8 + j] = d[j]
  BY <1>1, <1>9, Zenon DEF o
<1>14. ASSUME ~p.enc, h PROVE Number32(all, o + 8) = t
  <2>1. \A j \in 1 .. 4 : j \in 1 .. l
    BY <1>0, <1>5, <1>14
  <2>2. \A j \in 1 .. 4 : all[o + 8 + j] = Pack32(t)[j]
    BY <1>6, <1>13, <1>14, <2>1, Zenon
  <2>3. QED
    BY <1>0, <2>2, Unpacked32, Zenon
<1>15. ASSUME ~p.enc, h, NEW j \in 1 .. t PROVE all[o + 12 + j] = p.text[j]
  <2>1. 4 + j \in 1 .. l /\ o + 8 + (4 + j) = o + 12 + j
    BY <1>0, <1>5, <1>15
  <2>2. all[o + 8 + (4 + j)] = p.text[j]
    BY <1>6, <1>13, <1>15, <2>1, Zenon
  <2>3. QED
    BY <2>1, <2>2, Zenon
<1>16. ASSUME ~p.enc, NEW j \in 1 .. n PROVE all[e - n + j] = p.numbers[j]
  <2>1. l - n + j \in 1 .. l /\ o + 8 + (l - n + j) = e - n + j
    BY <1>0, <1>5, <1>10, <1>16
  <2>2. all[o + 8 + (l - n + j)] = p.numbers[j]
    BY <1>6, <1>13, <1>16, <2>1, Zenon
  <2>3. QED
    BY <2>1, <2>2, Zenon
<1>17. Holds(all, o, e, p)
  BY <1>10, <1>11, <1>12, <1>14, <1>15, <1>16, Zenon DEF Holds, t, n, l, h
<1>18. QED
  BY <1>1, <1>9, <1>17, Zenon DEF e, o, l

\* The numbers that the reader unpacks.
LEMMA UnpackIs ==
  ASSUME NEW o
  PROVE  Unpack32(o) = Number32(wire, o) /\ Unpack16(o) = Number16(wire, o)
BY SMT DEF Unpack32, Unpack16, Number32, Number16

\* read_packet on a packet in clear finds the packet that was written, and gets to
\* its end.
LEMMA ReadsBack ==
  ASSUME wire \in Seq(Byte), pos \in Nat, NEW p \in Packets, ~p.enc,
         NEW e, Holds(wire, pos, e, p), ReadClear
  PROVE  taken' = Append(taken, p) /\ pos' = e /\ lost' = lost
<1> DEFINE t == Len(p.text)
           n == Len(p.numbers)
           l == WireLength(p)
           m == Len(wire)
           h == HasString(p.type)
           type == Unpack16(pos + 6)
           fields == Fields(type, pos + 8)
           end == pos + 8 + fields.length
           numbers == SubSeq(wire, end - Numbers(type) + 1, end)
<1>0. t \in Nat /\ n \in Nat /\ l \in Nat /\ m \in Nat
  BY PacketFields, LengthsFit, LenProperties, Zenon
<1>1. (h => l = 4 + t + n) /\ (~h => l = n)
  BY ClearLengths, Zenon
<1>2. /\ p = [type |-> p.type, text |-> p.text, numbers |-> p.numbers, enc |-> FALSE]
      /\ p.text \in Seq(Byte) /\ p.numbers \in Seq(Byte)
      /\ n = Numbers(p.type) /\ (~h => p.text = <<>>)
  <2>1. p.enc = FALSE
    BY PacketFields, Zenon
  <2>2. ~h => p.text = <<>>
    BY FramingAssumption, Zenon
  <2>3. QED
    BY <2>1, <2>2, PacketFields, Zenon
<1>3. type = p.type
  BY UnpackIs, Zenon DEF Holds
<1>4. e = pos + 8 + l /\ e <= m
  BY Zenon DEF Holds
<1>5. h => Unpack32(pos + 8) = t /\ \A j \in 1 .. t : wire[pos + 12 + j] = p.text[j]
  BY UnpackIs, Zenon DEF Holds
<1>6. \A j \in 1 .. n : wire[e - n + j] = p.numbers[j]
  BY Zenon DEF Holds
<1>7. fields.text = p.text /\ fields.length = l
  <2>1. CASE h
    <3>1. fields.text = SubSeq(wire, pos + 8 + 5, pos + 8 + 4 + t)
      BY <1>3, <1>5, <2>1, Zenon DEF Fields
    <3>2. fields.length = 4 + t + n
      BY <1>2, <1>3, <1>5, <2>1, Zenon DEF Fields
    <3> HIDE DEF fields, h, l
    <3>3. /\ pos + 8 + 5 = (pos + 12) + 1 /\ pos + 8 + 4 + t = (pos + 12) + t
          /\ pos + 12 \in Nat /\ (pos + 12) + t <= m
      <4> HIDE DEF t, n, m
      <4> QED
        BY <1>0, <1>1, <1>4, <2>1
    <3>4. SubSeq(wire, (pos + 12) + 1, (pos + 12) + t) = p.text
      BY <1>2, <1>5, <2>1, <3>3, SliceIs, Zenon
    <3>5. QED
      BY <1>1, <2>1, <3>1, <3>2, <3>3, <3>4, Zenon
  <2>2. CASE ~h
    <3>1. fields.text = <<>> /\ fields.length = 0 + n
      BY <1>2, <1>3, <2>2, Zenon DEF Fields
    <3> HIDE DEF fields, h, l, n
    <3>2. fields.length = l
      BY <1>0, <1>1, <2>2, <3>1
    <3>3. QED
      BY <1>2, <2>2, <3>1, <3>2, Zenon
  <2>3. QED
    BY <2>1, <2>2, Zenon
<1>8. end = e
  BY <1>4, <1>7, Zenon
<1>9. numbers = p.numbers
  <2>1. numbers = SubSeq(wire, e - n + 1, e)
    BY <1>2, <1>3, <1>8, Zenon
  <2>2. /\ e - n \in Nat /\ (e - n) + n = e /\ (e - n) + n <= m
    <3> HIDE DEF t, n, m, l, h
    <3> QED
      BY <1>0, <1>1, <1>4
  <2>3. SubSeq(wire, (e - n) + 1, (e - n) + n) = p.numbers
    BY <1>2, <1>6, <2>2, SliceIs, Zenon
  <2>4. QED
    BY <2>1, <2>2, <2>3, Zenon
<1>10. /\ taken' = Append(taken, [type |-> type, text |-> fields.text,
                                  numbers |-> numbers, enc |-> FALSE])
       /\ pos' = end /\ lost' = lost
  BY Zenon DEF ReadClear
<1>11. QED
  BY <1>2, <1>3, <1>7, <1>8, <1>9, <1>10, Zenon

-----------------------------------------------------------------------------
(***************************************************************************)
(* The steps.                                                              *)
(***************************************************************************)

\* As long as pos is not lost, the next packet is at pos, or there is none.
LEMMA NextPacket ==
  ASSUME little, TypeOK, WireInv, ReaderInv, lost = "no",
         NEW k, k = Len(taken) + 1
  PROVE  /\ Len(taken) \in Nat /\ Len(sent) \in Nat
         /\ k <= Len(sent) => /\ k \in 1 .. Len(sent) /\ sent[k] \in Packets
                              /\ Holds(wire, pos, ends[k], sent[k])
         /\ ~(k <= Len(sent)) => pos = Len(wire)
<1>1. /\ taken \in Seq(Packets \cup Strange) /\ sent \in Seq(Packets)
      /\ Len(taken) <= Len(sent)
      /\ pos = IF taken = <<>> THEN 0 ELSE ends[Len(taken)]
  BY Zenon DEF ReaderInv, TakenIsPrefix, TypeOK
<1>2. Len(taken) \in Nat /\ Len(sent) \in Nat
  BY <1>1, LenProperties
<1>3. k \in Nat /\ k >= 1 /\ (k = 1 <=> Len(taken) = 0) /\ k - 1 = Len(taken)
  BY <1>2
<1>4. taken = <<>> <=> Len(taken) = 0
  BY <1>1, EmptySeq
<1>5. pos = Start(k)
  BY <1>1, <1>3, <1>4, Zenon DEF Start
<1>6. ASSUME k <= Len(sent)
      PROVE  /\ k \in 1 .. Len(sent) /\ sent[k] \in Packets
             /\ Holds(wire, pos, ends[k], sent[k])
  <2>1. k \in 1 .. Len(sent)
    BY <1>2, <1>3, <1>6
  <2>2. sent[k] \in Packets
    BY <1>1, <2>1, ElementOfSeq
  <2>3. QED
    BY <1>5, <2>1, <2>2, Zenon DEF WireInv
<1>7. ASSUME ~(k <= Len(sent)) PROVE pos = Len(wire)
  <2>1. k = Len(sent) + 1
    BY <1>1, <1>2, <1>7
  <2>2. QED
    BY <1>5, <2>1, Zenon DEF WireInv
<1>8. QED
  BY <1>2, <1>6, <1>7, Zenon

\* write_packet: the new packet is behind the others, and past all that the reader
\* has seen.
LEMMA SendKeeps ==
  ASSUME little, TypeOK, WireInv, ReaderInv, NEW p \in Packets, Send(p)
  PROVE  TypeOK' /\ WireInv' /\ ReaderInv'
<1> DEFINE n == Len(sent)
           end == Len(wire')
<1>1. /\ side \in {"server", "client"} /\ little \in BOOLEAN /\ sent \in Seq(Packets)
      /\ wire \in Seq(Byte) /\ ends \in Seq(Nat) /\ Len(ends) = Len(sent)
      /\ used \in 0 .. Len(wire) /\ pos \in Nat /\ sound \in Nat
      /\ rpc \in {"idle", "check", "closed"} /\ fin \in BOOLEAN /\ split \in BOOLEAN
      /\ lost \in {"no", "short", "sealed"}
  BY DEF TypeOK
<1>2. /\ sent' = Append(sent, p) /\ ends' = Append(ends, end)
      /\ wire' = wire \o Pack32(Len(OnWire(p))) \o Pack16(1) \o Pack16(p.type)
                      \o OnWire(p)
      /\ UNCHANGED <<side, little, used, pos, taken, sound, rpc, fin, split,
                   lost>>
  BY DEF Send
<1>3. /\ wire' \in Seq(Byte) /\ end = Len(wire) + 8 + WireLength(p)
      /\ \A j \in 1 .. Len(wire) : wire'[j] = wire[j]
      /\ Holds(wire', Len(wire), end, p)
  BY <1>1, <1>2, WrittenHolds, Zenon
<1>4. /\ WireLength(p) \in Nat /\ Len(wire) \in Nat /\ n \in Nat
  BY <1>1, LengthsFit, LenProperties, Zenon
<1>5. end \in Nat /\ Len(wire) + 8 <= end
  <2> DEFINE l == WireLength(p)
  <2> HIDE DEF l
  <2>1. l \in Nat /\ end = Len(wire) + 8 + l
    BY <1>3, <1>4, Zenon DEF l
  <2> HIDE DEF end
  <2>2. QED
    BY <1>4, <2>1
<1> HIDE DEF end
<1>6. /\ ends' \in Seq(Nat) /\ Len(ends') = n + 1 /\ ends'[n + 1] = end
      /\ \A k \in 1 .. n : ends'[k] = ends[k]
  BY <1>1, <1>2, <1>4, <1>5, AppendProperties
<1>7. /\ sent' \in Seq(Packets) /\ Len(sent') = n + 1 /\ sent'[n + 1] = p
      /\ \A k \in 1 .. n : sent'[k] = sent[k]
  BY <1>1, <1>2, <1>4, AppendProperties
<1>8. end = Len(wire')
  BY DEF end
<1>9. TypeOK'
  <2>1. used' \in 0 .. Len(wire') /\ pos' \in Nat /\ sound' \in Nat
    BY <1>1, <1>2, <1>4, <1>5, <1>8
  <2>2. /\ (little \in BOOLEAN)' /\ (fin \in BOOLEAN)' /\ (split \in BOOLEAN)'
        /\ (side \in {"server", "client"})' /\ (rpc \in {"idle", "check", "closed"})'
        /\ (lost \in {"no", "short", "sealed"})'
    BY <1>1, <1>2, Zenon
  <2>3. Len(ends') = Len(sent')
    BY <1>6, <1>7
  <2>4. QED
    BY <1>3, <1>6, <1>7, <2>1, <2>2, <2>3, Zenon DEF TypeOK
<1>10. \A k \in 1 .. n : k = 1 \/ k - 1 \in 1 .. n
  BY <1>4
<1>11. ASSUME NEW k \in 1 .. n PROVE Start(k)' = Start(k) /\ Start(k) \in Nat
  <2>1. CASE k = 1
    BY <2>1 DEF Start
  <2>2. CASE k # 1
    <3>1. k - 1 \in 1 .. n
      BY <1>10, <2>2
    <3>2. ends'[k - 1] = ends[k - 1] /\ ends[k - 1] \in Nat
      BY <1>1, <1>6, <3>1, ElementOfSeq
    <3>3. QED
      BY <2>2, <3>2, Zenon DEF Start
  <2>3. QED
    BY <2>1, <2>2, Zenon
<1>12. ASSUME NEW k, k = n + 1 PROVE Start(k)' = Len(wire)
  <2>1. Start(n + 1) = Len(wire)
    BY Zenon DEF WireInv
  <2>2. n = 0 \/ n \in 1 .. n
    BY <1>4
  <2>3. n + 1 = 1 <=> n = 0
    BY <1>4
  <2>4. n + 1 - 1 = n
    BY <1>4
  <2>5. n # 0 => ends'[n] = ends[n]
    BY <1>6, <2>2, Zenon
  <2>6. QED
    <3>1. Start(n + 1) = IF n = 0 THEN 0 ELSE ends[n]
      BY <2>3, <2>4 DEF Start
    <3>2. k - 1 = n /\ (k = 1 <=> n = 0)
      BY <1>4, <1>12
    <3>3. Start(k)' = IF n = 0 THEN 0 ELSE ends'[n]
      BY <3>2 DEF Start
    <3>4. QED
      BY <2>1, <2>5, <3>1, <3>3
<1>13. WireInv'
  <2>1. ASSUME NEW k \in 1 .. n + 1
        PROVE  Holds(wire', Start(k)', ends'[k], sent'[k])
    <3>1. CASE k = n + 1
      BY <1>3, <1>6, <1>7, <1>12, <3>1, Zenon
    <3>2. CASE k # n + 1
      <4>1. k \in 1 .. n
        BY <1>4, <3>2
      <4>2. Holds(wire, Start(k), ends[k], sent[k]) /\ sent[k] \in Packets
        <5>1. sent[k] \in Packets
          BY <1>1, <4>1, ElementOfSeq
        <5>2. QED
          BY <4>1, <5>1, Zenon DEF WireInv
      <4>3. Len(wire) <= Len(wire')
        BY <1>4, <1>5, <1>8
      <4>4. Holds(wire', Start(k), ends[k], sent[k])
        BY <1>1, <1>3, <1>11, <4>1, <4>2, <4>3, HoldsOn, Zenon
      <4>5. QED
        BY <1>6, <1>7, <1>11, <4>1, <4>4, Zenon
    <3>3. QED
      BY <3>1, <3>2, Zenon
  <2>2. ASSUME NEW a \in 1 .. n + 1, NEW b \in 1 .. n + 1, a < b
        PROVE  ends'[a] < ends'[b]
    <3>1. a \in 1 .. n
      BY <1>4, <2>2
    <3>2. CASE b \in 1 .. n
      <4>1. ends[a] < ends[b]
        BY <1>1, <2>2, <3>1, <3>2, Zenon DEF WireInv
      <4>2. QED
        BY <1>6, <3>1, <3>2, <4>1
    <3>3. CASE b = n + 1
      <4>1. Holds(wire, Start(a), ends[a], sent[a])
        BY <3>1, Zenon DEF WireInv
      <4>2. ends[a] <= Len(wire)
        BY <4>1, Zenon DEF Holds
      <4>3. ends[a] \in Nat
        BY <1>1, <3>1, ElementOfSeq
      <4>4. QED
        BY <1>4, <1>5, <1>6, <3>1, <3>3, <4>2, <4>3
    <3>4. QED
      BY <1>4, <3>2, <3>3
  <2>3. (Len(wire) = Start(Len(sent) + 1))'
    <3>1. Len(sent') + 1 # 1 /\ Len(sent') + 1 - 1 = n + 1
      BY <1>4, <1>7
    <3>2. Start(Len(sent) + 1)' = ends'[Len(sent') + 1 - 1]
      BY <3>1 DEF Start
    <3>3. QED
      BY <1>6, <1>8, <3>1, <3>2
  <2>4. QED
    BY <1>6, <1>7, <2>1, <2>2, <2>3, Zenon DEF WireInv
<1>14. ASSUME NEW k \in 1 .. Len(ends')
       PROVE  k \in 1 .. n \/ (k = n + 1 /\ ends'[k] = end)
  BY <1>4, <1>6
<1>15. ReaderInv'
  <2>1. taken' = taken /\ taken \in Seq(Packets \cup Strange)
    BY <1>2 DEF ReaderInv
  <2>2. (TakenIsPrefix)'
    <3>1. /\ sound <= n /\ sound <= Len(taken)
          /\ \A k \in 1 .. sound : taken[k] = sent[k]
          /\ lost = "no" => /\ sound = Len(taken)
                            /\ pos = IF taken = <<>> THEN 0 ELSE ends[sound]
      BY Zenon DEF ReaderInv, TakenIsPrefix
    <3>2. sound <= n + 1 /\ (sound = 0 \/ sound \in 1 .. n)
      BY <1>1, <1>4, <3>1
    <3>3. taken = <<>> <=> Len(taken) = 0
      BY <2>1, EmptySeq
    <3>4. \A k \in 1 .. sound : k \in 1 .. n
      BY <1>1, <1>4, <3>1
    <3>5. \A k \in 1 .. sound : taken[k] = sent'[k]
      BY <1>7, <3>1, <3>4, Zenon
    <3>6. lost = "no" => pos = IF taken = <<>> THEN 0 ELSE ends'[sound]
      BY <1>6, <3>1, <3>2, <3>3, Zenon
    <3>7. QED
      BY <1>2, <1>7, <3>1, <3>2, <3>5, <3>6, Zenon DEF TakenIsPrefix
  <2>3. (LostOnlyBy)'
    <3>1. LostOnlyBy
      BY DEF ReaderInv
    <3>2. \A q : Body(q)' = Body(q)
      BY <1>2, SMT DEF Body, Pack32
    <3>3. QED
      BY <1>2, <3>1, <3>2, Zenon DEF LostOnlyBy
  <2>4. (ServerTakesAll)'
    <3>1. ASSUME side = "server" /\ lost = "no" /\ rpc = "idle",
                 NEW k \in 1 .. Len(ends'), ends'[k] <= used
          PROVE  k <= Len(taken)
      <4>1. k \in 1 .. n
        BY <1>1, <1>4, <1>5, <1>14, <3>1
      <4>2. k \in DOMAIN ends /\ ends[k] <= used
        BY <1>1, <1>6, <3>1, <4>1
      <4>3. QED
        BY <3>1, <4>2, Zenon DEF ReaderInv, ServerTakesAll
    <3>2. DOMAIN ends' = 1 .. Len(ends')
      BY <1>6, LenProperties
    <3>3. QED
      BY <1>2, <3>1, <3>2, Zenon DEF ServerTakesAll
  <2>5. (Within(used) => split)'
    <3>1. ASSUME NEW k \in 1 .. Len(ends'), ends'[k] - 4 <= used, used < ends'[k]
          PROVE  split
      <4>1. k \in 1 .. n
        BY <1>1, <1>4, <1>5, <1>14, <3>1
      <4>2. k \in DOMAIN ends /\ ends[k] = ends'[k]
        BY <1>1, <1>6, <4>1
      <4>3. Within(used)
        BY <3>1, <4>2, Zenon DEF Within
      <4>4. QED
        BY <4>3, Zenon DEF ReaderInv
    <3>2. DOMAIN ends' = 1 .. Len(ends')
      BY <1>6, LenProperties
    <3>3. QED
      BY <1>2, <3>1, <3>2, Zenon DEF Within
  <2>6. QED
    BY <2>1, <2>2, <2>3, <2>4, <2>5, Zenon DEF ReaderInv
<1>16. QED
  BY <1>9, <1>13, <1>15, Zenon

\* A step that writes nothing keeps what is on the wire.
LEMMA WireKept ==
  ASSUME WireInv, UNCHANGED <<sent, wire, ends>>
  PROVE  WireInv'
<1>1. \A k : Start(k)' = Start(k)
  BY DEF Start
<1>2. Start(Len(sent) + 1)' = Start(Len(sent) + 1)
  BY DEF Start
<1>3. QED
  BY <1>1, <1>2, Zenon DEF WireInv

\* A packet that the reader finds complete, or that lacks its last bytes, was sent.
LEMMA PacketAtPos ==
  ASSUME little, TypeOK, WireInv, ReaderInv, lost = "no", Enough,
         NEW k, k = Len(taken) + 1
  PROVE  /\ k \in 1 .. Len(sent) /\ sent[k] \in Packets /\ Current = sent[k]
         /\ Holds(wire, pos, ends[k], sent[k]) /\ Unpack32(pos) = WireLength(sent[k])
<1>1. k <= Len(sent)
  <2>1. SUFFICES ASSUME ~(k <= Len(sent)) PROVE FALSE
    OBVIOUS
  <2>2. pos = Len(wire)
    BY <2>1, NextPacket, Zenon
  <2>3. used \in 0 .. Len(wire) /\ pos \in Nat
    BY DEF TypeOK
  <2>4. QED
    BY <2>2, <2>3 DEF Enough, Remaining
<1>2. /\ k \in 1 .. Len(sent) /\ sent[k] \in Packets
      /\ Holds(wire, pos, ends[k], sent[k])
  BY <1>1, NextPacket, Zenon
<1>3. Unpack32(pos) = WireLength(sent[k])
  BY <1>2, UnpackIs, Zenon DEF Holds
<1>4. QED
  BY <1>2, <1>3, Zenon DEF Current

\* The steps of the reader that take no packet leave the packets and pos alone.
LEMMA PrefixKept ==
  ASSUME TakenIsPrefix, LostOnlyBy,
         UNCHANGED <<little, sent, ends, taken, sound, pos, lost>>, split => split'
  PROVE  TakenIsPrefix' /\ LostOnlyBy'
<1>1. \A q : Body(q)' = Body(q)
  BY SMT DEF Body, Pack32
<1>2. TakenIsPrefix'
  BY Zenon DEF TakenIsPrefix
<1>3. LostOnlyBy'
  BY <1>1, Zenon DEF LostOnlyBy
<1>4. QED
  BY <1>2, <1>3

\* The end of the sender.
LEMMA FinishKeeps ==
  ASSUME TypeOK, WireInv, ReaderInv, Finish
  PROVE  TypeOK' /\ WireInv' /\ ReaderInv'
<1>1. /\ fin' = TRUE
      /\ UNCHANGED <<side, little, sent, wire, ends, used, pos, taken, sound, rpc,
                   split, lost>>
  BY Zenon DEF Finish
<1>2. TypeOK'
  BY <1>1, Zenon DEF TypeOK
<1>3. WireInv'
  BY <1>1, WireKept, Zenon
<1>4. TakenIsPrefix' /\ LostOnlyBy'
  BY <1>1, PrefixKept, Zenon DEF ReaderInv
<1>5. ReaderInv'
  BY <1>1, <1>4, Zenon DEF ReaderInv, ServerTakesAll, Within
<1>6. QED
  BY <1>2, <1>3, <1>5, Zenon

\* A read event: where it cuts the stream is on record.
LEMMA ReadEventKeeps ==
  ASSUME TypeOK, WireInv, ReaderInv, NEW u \in 1 .. Len(wire), ReadEvent(u)
  PROVE  TypeOK' /\ WireInv' /\ ReaderInv'
<1>1. /\ used' = u /\ split' = (split \/ Within(u)) /\ rpc' = "check"
      /\ UNCHANGED <<side, little, sent, wire, ends, pos, taken, sound, fin, lost>>
  BY Zenon DEF ReadEvent
<1>2. Len(wire) \in Nat
  BY LenProperties DEF TypeOK
<1>3. TypeOK'
  <2>1. u \in 0 .. Len(wire)
    BY <1>2
  <2>2. used' \in 0 .. Len(wire')
    BY <1>1, <2>1, Zenon
  <2>3. (split \in BOOLEAN)'
    BY <1>1, Zenon
  <2>4. QED
    BY <1>1, <2>2, <2>3, Zenon DEF TypeOK
<1>4. WireInv'
  BY <1>1, WireKept, Zenon
<1>5. TakenIsPrefix' /\ LostOnlyBy'
  BY <1>1, PrefixKept, Zenon DEF ReaderInv
<1>6. ServerTakesAll'
  BY <1>1, Zenon DEF ServerTakesAll
<1>7. (Within(used) => split)'
  BY <1>1, Zenon DEF Within
<1>8. ReaderInv'
  BY <1>1, <1>5, <1>6, <1>7, Zenon DEF ReaderInv
<1>9. QED
  BY <1>3, <1>4, <1>8, Zenon

\* The end of the stream: all bytes have arrived, which is no cut.
LEMMA ReadEndKeeps ==
  ASSUME TypeOK, WireInv, ReaderInv, ReadEnd
  PROVE  TypeOK' /\ WireInv' /\ ReaderInv'
<1>1. /\ used' = Len(wire) /\ rpc' = "closed"
      /\ UNCHANGED <<side, little, sent, wire, ends, pos, taken, sound, fin, split,
                   lost>>
  BY Zenon DEF ReadEnd
<1>2. Len(wire) \in Nat /\ ends \in Seq(Nat) /\ Len(ends) = Len(sent)
  BY LenProperties DEF TypeOK
<1>3. TypeOK'
  <2>1. Len(wire) \in 0 .. Len(wire)
    BY <1>2
  <2>2. used' \in 0 .. Len(wire')
    BY <1>1, <2>1, Zenon
  <2>3. QED
    BY <1>1, <2>2, Zenon DEF TypeOK
<1>4. WireInv'
  BY <1>1, WireKept, Zenon
<1>5. TakenIsPrefix' /\ LostOnlyBy'
  BY <1>1, PrefixKept, Zenon DEF ReaderInv
<1>6. ServerTakesAll'
  BY <1>1, Zenon DEF ServerTakesAll
<1>7. (Within(used) => split)'
  <2>1. ASSUME NEW k \in DOMAIN ends, Len(wire) < ends[k] PROVE FALSE
    <3>1. k \in 1 .. Len(sent) /\ ends[k] \in Nat
      BY <1>2, LenProperties, ElementOfSeq
    <3>2. Holds(wire, Start(k), ends[k], sent[k])
      BY <3>1, Zenon DEF WireInv
    <3>3. ends[k] <= Len(wire)
      BY <3>2, Zenon DEF Holds
    <3>4. QED
      BY <1>2, <2>1, <3>1, <3>3
  <2>2. QED
    BY <1>1, <2>1, Zenon DEF Within
<1>8. ReaderInv'
  BY <1>1, <1>5, <1>6, <1>7, Zenon DEF ReaderInv
<1>9. QED
  BY <1>3, <1>4, <1>8, Zenon

\* check_packet ends: the packet at pos has not arrived, so none behind it has.
LEMMA CheckEndsKeeps ==
  ASSUME little, TypeOK, WireInv, ReaderInv, CheckEnds
  PROVE  TypeOK' /\ WireInv' /\ ReaderInv'
<1>1. /\ lost # "no" \/ ~(Enough /\ Complete)
      /\ rpc' = "idle"
      /\ UNCHANGED <<side, little, sent, wire, ends, used, pos, taken, sound, fin,
                     split, lost>>
  BY Zenon DEF CheckEnds
<1>2. TypeOK'
  BY <1>1, Zenon DEF TypeOK
<1>3. WireInv'
  BY <1>1, WireKept, Zenon
<1>4. TakenIsPrefix' /\ LostOnlyBy'
  BY <1>1, PrefixKept, Zenon DEF ReaderInv
<1>5. ASSUME side = "server", lost = "no", NEW j \in DOMAIN ends, ends[j] <= used
      PROVE  j <= Len(taken)
  <2> DEFINE k == Len(taken) + 1
  <2>1. SUFFICES ASSUME ~(j <= Len(taken)) PROVE FALSE
    OBVIOUS
  <2>2. /\ used \in Nat /\ pos \in Nat /\ ends \in Seq(Nat)
        /\ Len(ends) = Len(sent) /\ Len(sent) \in Nat /\ Len(taken) \in Nat
    BY LenProperties DEF TypeOK, ReaderInv
  <2>3. j \in 1 .. Len(ends)
    BY <2>2, LenProperties
  <2>4. k <= j /\ k \in 1 .. Len(ends) /\ k <= Len(sent)
    BY <2>1, <2>2, <2>3
  <2> HIDE DEF k
  <2>5. ends[k] \in Nat /\ ends[j] \in Nat
    BY <2>2, <2>3, <2>4, ElementOfSeq
  <2>6. k = j \/ k < j
    BY <2>2, <2>3, <2>4
  <2>7. k = j \/ ends[k] < ends[j]
    BY <2>3, <2>4, <2>6, Zenon DEF WireInv
  <2>8. ends[k] <= used
    BY <1>5, <2>2, <2>5, <2>7
  <2>9. sent[k] \in Packets /\ Holds(wire, pos, ends[k], sent[k])
    BY <1>5, <2>4, NextPacket, Zenon DEF k
  <2> DEFINE l == WireLength(sent[k])
  <2>10. l \in Nat /\ ends[k] = pos + 8 + l /\ Unpack32(pos) = l
    BY <2>9, LengthsFit, UnpackIs, Zenon DEF Holds
  <2> HIDE DEF l
  <2>11. Enough
    BY <2>2, <2>5, <2>8, <2>10 DEF Enough, Remaining
  <2>12. Complete
    BY <2>2, <2>5, <2>8, <2>10 DEF Complete, Remaining
  <2>13. QED
    BY <1>1, <1>5, <2>11, <2>12
<1>6. ServerTakesAll'
  BY <1>1, <1>5, Zenon DEF ServerTakesAll
<1>7. (Within(used) => split)'
  BY <1>1, Zenon DEF Within, ReaderInv
<1>8. ReaderInv'
  BY <1>1, <1>4, <1>6, <1>7, Zenon DEF ReaderInv
<1>9. QED
  BY <1>2, <1>3, <1>8, Zenon

\* A packet that has arrived is appended to the packets taken, and pos is at its
\* end or lost in its box.
LEMMA TakenMore ==
  ASSUME little, TypeOK, WireInv, ReaderInv, lost = "no",
         NEW k \in 1 .. Len(sent), k = Len(taken) + 1, sent[k] \in Packets,
         taken' = Append(taken, sent[k]), sound' = Len(taken'),
         \/ lost' = "no" /\ pos' = ends[k]
         \/ lost' = "sealed" /\ sent[k].enc /\ BodyLength(sent[k]) # 0,
         UNCHANGED <<little, sent, wire, ends, split>>
  PROVE  /\ taken' \in Seq(Packets \cup Strange) /\ sound' \in Nat
         /\ TakenIsPrefix' /\ LostOnlyBy'
<1>1. /\ taken \in Seq(Packets \cup Strange)
      /\ Len(taken) \in Nat /\ Len(sent) \in Nat
  BY LenProperties DEF ReaderInv, TypeOK
<1>2. /\ taken' \in Seq(Packets \cup Strange) /\ Len(taken') = k
      /\ taken'[k] = sent[k]
      /\ \A j \in 1 .. Len(taken) : taken'[j] = taken[j]
  BY <1>1, AppendProperties
<1>3. sound' = k /\ k \in Nat /\ k > 0
  BY <1>1, <1>2
<1>4. \A j \in 1 .. k : j = k \/ j \in 1 .. Len(taken)
  BY <1>1
<1>5. \A j \in 1 .. Len(taken) : taken[j] = sent[j]
  BY Zenon DEF ReaderInv, TakenIsPrefix
<1>6. \A j \in 1 .. k : taken'[j] = sent[j]
  BY <1>2, <1>4, <1>5, Zenon
<1>7. taken' # <<>> /\ k <= Len(sent) /\ k <= Len(taken')
  BY <1>1, <1>2, EmptySeq
<1>8. TakenIsPrefix'
  BY <1>2, <1>3, <1>6, <1>7, Zenon DEF TakenIsPrefix
<1>9. LostOnlyBy'
  <2>1. ASSUME lost' = "sealed" PROVE (taken[k].enc /\ Body(taken[k]) # <<>>)'
    <3>1. sent[k].enc /\ BodyLength(sent[k]) # 0
      BY <2>1
    <3>2. Len(Body(sent[k])) # 0
      BY <3>1, BodyIs, Zenon
    <3>3. Body(sent[k]) # <<>>
      BY <3>2, EmptySeq
    <3>4. Body(taken[k])' = Body(sent[k])
      BY <1>2, SMT DEF Body, Pack32
    <3>5. QED
      BY <1>2, <3>1, <3>3, <3>4, Zenon
  <2>2. lost' # "short"
    OBVIOUS
  <2>3. QED
    BY <1>3, <2>1, <2>2, Zenon DEF LostOnlyBy
<1>10. QED
  BY <1>2, <1>3, <1>8, <1>9, Zenon

\* Where the place is lost, before the step or by a cut that is on record, a packet
\* that was not sent may be taken: the packets taken before stay what they are.
LEMMA StrayTaken ==
  ASSUME little, TypeOK, ReaderInv,
         taken' = taken \/ \E p \in Strange : taken' = Append(taken, p),
         \/ lost # "no" /\ lost' = lost
         \/ lost = "no" /\ lost' = "short" /\ split,
         UNCHANGED <<little, sent, wire, ends, sound, split>>
  PROVE  /\ taken' \in Seq(Packets \cup Strange)
         /\ TakenIsPrefix' /\ LostOnlyBy'
<1>1. taken \in Seq(Packets \cup Strange) /\ Len(taken) \in Nat /\ sound \in Nat
  BY LenProperties DEF ReaderInv, TypeOK
<1>2. /\ taken' \in Seq(Packets \cup Strange)
      /\ Len(taken') = Len(taken) \/ Len(taken') = Len(taken) + 1
      /\ \A j \in 1 .. Len(taken) : taken'[j] = taken[j]
  <2>1. CASE taken' = taken
    BY <1>1, <2>1
  <2>2. ASSUME NEW p \in Strange, taken' = Append(taken, p)
        PROVE  /\ taken' \in Seq(Packets \cup Strange)
               /\ Len(taken') = Len(taken) + 1
               /\ \A j \in 1 .. Len(taken) : taken'[j] = taken[j]
    BY <1>1, <2>2, AppendProperties
  <2>3. QED
    BY <2>1, <2>2, Zenon
<1>3. /\ sound <= Len(sent) /\ sound <= Len(taken)
      /\ \A j \in 1 .. sound : taken[j] = sent[j]
  BY Zenon DEF ReaderInv, TakenIsPrefix
<1>4. \A j \in 1 .. sound : j \in 1 .. Len(taken)
  BY <1>1, <1>3
<1>5. sound <= Len(taken') /\ \A j \in 1 .. sound : taken'[j] = taken[j]
  BY <1>1, <1>2, <1>3, <1>4
<1>6. lost' # "no"
  OBVIOUS
<1>7. TakenIsPrefix'
  BY <1>3, <1>5, <1>6, Zenon DEF TakenIsPrefix
<1>8. LostOnlyBy'
  <2>1. \A q : Body(q)' = Body(q)
    BY SMT DEF Body, Pack32
  <2>2. ASSUME lost' = "sealed"
        PROVE  sound > 0 /\ taken'[sound].enc /\ Body(taken'[sound]) # <<>>
    <3>1. lost = "sealed"
      BY <2>2
    <3>2. sound > 0 /\ taken[sound].enc /\ Body(taken[sound]) # <<>>
      BY <3>1, Zenon DEF ReaderInv, LostOnlyBy
    <3>3. sound \in 1 .. sound
      BY <1>1, <3>2
    <3>4. QED
      BY <1>5, <3>2, <3>3, Zenon
  <2>3. lost' = "short" => split'
    BY Zenon DEF ReaderInv, LostOnlyBy
  <2>4. QED
    BY <2>1, <2>2, <2>3, Zenon DEF LostOnlyBy
<1>9. QED
  BY <1>2, <1>7, <1>8, Zenon

\* Where pos is lost, check_packet takes a packet that was not sent.
LEMMA TakeAstrayKeeps ==
  ASSUME little, TypeOK, WireInv, ReaderInv, TakeAstray
  PROVE  TypeOK' /\ WireInv' /\ ReaderInv'
<1>1. /\ lost # "no" /\ \E p \in Strange : taken' = Append(taken, p)
      /\ rpc' = Onward
      /\ UNCHANGED <<side, little, sent, wire, ends, used, pos, sound, fin, split,
                     lost>>
  BY Zenon DEF TakeAstray
<1>2. WireInv'
  BY <1>1, WireKept, Zenon
<1>3. TypeOK'
  <2>1. (rpc \in {"idle", "check", "closed"})'
    BY <1>1, Zenon DEF Onward
  <2>2. QED
    BY <1>1, <2>1, Zenon DEF TypeOK
<1>4. taken' \in Seq(Packets \cup Strange) /\ TakenIsPrefix' /\ LostOnlyBy'
  BY <1>1, StrayTaken, Zenon
<1>5. ServerTakesAll' /\ (Within(used) => split)'
  BY <1>1, Zenon DEF ServerTakesAll, Within, ReaderInv
<1>6. QED
  BY <1>2, <1>3, <1>4, <1>5, Zenon DEF ReaderInv

\* check_packet takes the packet at pos: whole, or without its last bytes when a
\* read event has ended within them.
LEMMA TakeKeeps ==
  ASSUME little, TypeOK, WireInv, ReaderInv, Take
  PROVE  TypeOK' /\ WireInv' /\ ReaderInv'
<1>1. /\ lost = "no" /\ Enough /\ Complete
      /\ UNCHANGED <<side, little, sent, wire, ends, used, fin, split>>
  BY Zenon DEF Take
<1> DEFINE k == Len(taken) + 1
           p == sent[k]
           l == WireLength(p)
           e == ends[k]
<1>2. /\ k \in 1 .. Len(sent) /\ p \in Packets /\ Current = p
      /\ Holds(wire, pos, e, p) /\ Unpack32(pos) = l
  BY <1>1, PacketAtPos, Zenon
<1>3. l \in Nat /\ e = pos + 8 + l
  BY <1>2, LengthsFit, Zenon DEF Holds
<1>4. used \in Nat /\ pos \in Nat /\ wire \in Seq(Byte) /\ DOMAIN ends = 1 .. Len(sent)
  BY LenProperties DEF TypeOK
<1> HIDE DEF k, p, l, e
<1>5. e \in Nat /\ pos <= e
  BY <1>3, <1>4
<1>6. WireInv'
  BY <1>1, WireKept, Zenon
<1>7. CASE TakeShort
  <2>0. /\ Remaining < 8 + Unpack32(pos) /\ lost' = "short"
        /\ taken' = taken \/ \E q \in Strange : taken' = Append(taken, q)
        /\ rpc' = Onward \/ rpc' = "idle"
        /\ UNCHANGED <<pos, sound>>
    BY <1>7, Zenon DEF TakeShort
  <2>1. e - 4 <= used /\ used < e
    BY <1>1, <1>2, <1>3, <1>4, <2>0 DEF Complete, Remaining
  <2>2. Within(used)
    BY <1>2, <1>4, <2>1, Zenon DEF Within, e
  <2>3. split
    BY <2>2, Zenon DEF ReaderInv
  <2>4. TypeOK'
    <3>1. (rpc \in {"idle", "check", "closed"})'
      BY <2>0, Zenon DEF Onward
    <3>2. QED
      BY <1>1, <2>0, <3>1, Zenon DEF TypeOK
  <2>5. taken' \in Seq(Packets \cup Strange) /\ TakenIsPrefix' /\ LostOnlyBy'
    BY <1>1, <2>0, <2>3, StrayTaken, Zenon
  <2>6. ServerTakesAll' /\ (Within(used) => split)'
    BY <1>1, <2>0, <2>3, Zenon DEF ServerTakesAll, Within
  <2>7. QED
    BY <1>6, <2>4, <2>5, <2>6, Zenon DEF ReaderInv
<1>8. CASE TakeWhole
  <2>0. /\ IF Current.enc THEN ReadSealed ELSE ReadClear
        /\ sound' = Len(taken') /\ rpc' = Onward
    BY <1>8, Zenon DEF TakeWhole
  <2>1. /\ taken' = Append(taken, p) /\ pos' \in Nat
        /\ \/ lost' = "no" /\ pos' = e
           \/ lost' = "sealed" /\ p.enc /\ BodyLength(p) # 0
    <3>1. CASE ~p.enc
      <4>1. ReadClear
        BY <1>2, <2>0, <3>1, Zenon
      <4>2. taken' = Append(taken, p) /\ pos' = e /\ lost' = lost
        BY <1>2, <1>4, <3>1, <4>1, ReadsBack, Zenon
      <4>3. QED
        BY <1>1, <1>5, <4>2, Zenon
    <3>2. CASE p.enc
      <4>0. [p EXCEPT !.type = Unpack16(pos + 6)] = p
        <5>1. Unpack16(pos + 6) = p.type
          BY <1>2, UnpackIs, Zenon DEF Holds
        <5>2. p = [type |-> p.type, text |-> p.text, numbers |-> p.numbers,
                   enc |-> p.enc]
          BY <1>2, PacketFields, Zenon
        <5>3. [p EXCEPT !.type = p.type] = p
          BY <5>2
        <5>4. QED
          BY <5>1, <5>3, Zenon
      <4>1. /\ taken' = Append(taken, p)
            /\ pos' = pos + 8 + (IF l = 0 THEN 0 ELSE l - ZeroBytes)
            /\ lost' = IF l = 0 THEN lost ELSE "sealed"
        BY <1>2, <2>0, <3>2, <4>0, Zenon DEF ReadSealed
      <4>2. CASE l = 0
        BY <1>1, <1>3, <1>4, <1>5, <4>1, <4>2
      <4>3. CASE l # 0
        <5>1. BodyLength(p) \in Nat /\ NonceBytes \in Nat /\ ZeroBytes \in Nat
          BY <1>2, LengthsFit, FramingAssumption
        <5>2. BodyLength(p) # 0 /\ l = NonceBytes + ZeroBytes + BodyLength(p)
          BY <3>2, <4>3 DEF WireLength, l
        <5>3. pos' \in Nat
          BY <1>3, <1>4, <4>1, <4>3, <5>1, <5>2
        <5>4. QED
          BY <3>2, <4>1, <4>3, <5>2, <5>3, Zenon
      <4>4. QED
        BY <4>2, <4>3, Zenon
    <3>3. QED
      BY <3>1, <3>2, Zenon
  <2>2. /\ taken' \in Seq(Packets \cup Strange) /\ sound' \in Nat
        /\ TakenIsPrefix' /\ LostOnlyBy'
    BY <1>1, <1>2, <2>0, <2>1, TakenMore, Zenon DEF k, p, e
  <2>3. TypeOK'
    <3>1. (pos \in Nat)' /\ (lost \in {"no", "short", "sealed"})'
          /\ (rpc \in {"idle", "check", "closed"})'
      BY <2>0, <2>1, Zenon DEF Onward
    <3>2. QED
      BY <1>1, <2>2, <3>1, Zenon DEF TypeOK
  <2>4. ServerTakesAll'
    BY <1>1, <2>0, Zenon DEF ServerTakesAll, Onward
  <2>5. (Within(used) => split)'
    BY <1>1, Zenon DEF Within, ReaderInv
  <2>6. QED
    BY <1>6, <2>2, <2>3, <2>4, <2>5, Zenon DEF ReaderInv
<1>9. QED
  BY <1>7, <1>8, Zenon DEF Take

-----------------------------------------------------------------------------
(***************************************************************************)
(* The theorems.                                                           *)
(***************************************************************************)

\* Nothing is sent or taken yet, and every step keeps the invariant.
LEMMA FramingInvariant == Spec => []FramingInv
<1>1. Init => FramingInv
  <2>1. SUFFICES ASSUME Init PROVE TypeOK /\ WireInv /\ ReaderInv
    BY DEF FramingInv
  <2>2. /\ side \in {"server", "client"} /\ little \in BOOLEAN
        /\ sent = <<>> /\ wire = <<>> /\ ends = <<>> /\ taken = <<>>
        /\ used = 0 /\ pos = 0 /\ sound = 0
        /\ rpc = "idle" /\ fin = FALSE /\ split = FALSE /\ lost = "no"
    BY <2>1, Zenon DEF Init
  <2>3. TypeOK
    <3>1. little \in BOOLEAN /\ fin \in BOOLEAN /\ split \in BOOLEAN
      BY <2>2, Zenon
    <3>2. /\ sent \in Seq(Packets) /\ wire \in Seq(Byte) /\ ends \in Seq(Nat)
          /\ Len(ends) = Len(sent) /\ used \in 0 .. Len(wire) /\ pos \in Nat
          /\ sound \in Nat
      BY <2>2
    <3>3. QED
      BY <2>2, <3>1, <3>2, Zenon DEF TypeOK
  <2>4. WireInv
    BY <2>2 DEF WireInv, Start
  <2>5. ReaderInv
    BY <2>2 DEF ReaderInv, TakenIsPrefix, LostOnlyBy, ServerTakesAll, Within
  <2>6. QED
    BY <2>3, <2>4, <2>5
<1>2. FramingInv /\ [Next]_vars => FramingInv'
  <2>1. SUFFICES ASSUME FramingInv, [Next]_vars, little'
        PROVE  (TypeOK /\ WireInv /\ ReaderInv)'
    BY DEF FramingInv
  <2>2. little
    BY <2>1, Zenon
       DEF Next, Reader, vars, Finish, Send, ReadEnd, CheckEnds, Take,
           TakeAstray, ReadEvent
  <2>3. TypeOK /\ WireInv /\ ReaderInv
    BY <2>1, <2>2, Zenon DEF FramingInv
  <2>4. CASE Finish
    BY <2>3, <2>4, FinishKeeps, Zenon
  <2>5. CASE ReadEnd
    BY <2>3, <2>5, ReadEndKeeps, Zenon
  <2>6. CASE CheckEnds
    BY <2>2, <2>3, <2>6, CheckEndsKeeps, Zenon
  <2>7. CASE Take
    BY <2>2, <2>3, <2>7, TakeKeeps, Zenon
  <2>8. CASE TakeAstray
    BY <2>2, <2>3, <2>8, TakeAstrayKeeps, Zenon
  <2>9. ASSUME NEW u \in 1 .. Len(wire), ReadEvent(u)
        PROVE  (TypeOK /\ WireInv /\ ReaderInv)'
    BY <2>3, <2>9, ReadEventKeeps, Zenon
  <2>10. ASSUME NEW p \in Packets, Send(p)
        PROVE  (TypeOK /\ WireInv /\ ReaderInv)'
    BY <2>2, <2>3, <2>10, SendKeeps, Zenon
  <2>11. CASE UNCHANGED vars
    <3>1. UNCHANGED <<side, little, sent, wire, ends, used, pos, taken, sound, rpc,
                      fin, split, lost>>
      BY <2>11 DEF vars
    <3>2. WireInv'
      BY <2>3, <3>1, WireKept, Zenon
    <3>3. TakenIsPrefix' /\ LostOnlyBy'
      BY <2>3, <3>1, PrefixKept, Zenon DEF ReaderInv
    <3>4. TypeOK' /\ ReaderInv'
      BY <2>3, <3>1, <3>3, Zenon DEF TypeOK, ReaderInv, ServerTakesAll, Within
    <3>5. QED
      BY <3>2, <3>4, Zenon
  <2>12. QED
    BY <2>1, <2>4, <2>5, <2>6, <2>7, <2>8, <2>9, <2>10, <2>11, Zenon
       DEF Next, Reader
<1>3. QED
  BY <1>1, <1>2, PTL DEF Spec

\* Between little-endian hosts what is on the wire is bytes, and pos stays a
\* number: reading past a nonce and a body never goes back (excom_protocol_*).
THEOREM TypeCorrect == Spec => [](little => TypeOK)
<1>1. FramingInv => (little => TypeOK)
  BY Zenon DEF FramingInv
<1>2. QED
  BY <1>1, FramingInvariant, PTL

\* However their bytes are cut into read events, the packets that check_packet and
\* read_packet give back before they lose their place are those that write_packet
\* was given, in their order, and until then pos is where the next one begins.
THEOREM TakenArePrefix == Spec => []TakenIsPrefix
<1>1. FramingInv => TakenIsPrefix
  BY Zenon DEF FramingInv, ReaderInv, TakenIsPrefix
<1>2. QED
  BY <1>1, FramingInvariant, PTL

\* Only a read event that ends within the last four bytes of a packet, or an
\* encrypted packet with a body, makes check_packet lose its place.
THEOREM OnlyCutsAndBoxesLose == Spec => [](little => LostOnlyBy)
<1>1. FramingInv => (little => LostOnlyBy)
  BY Zenon DEF FramingInv, ReaderInv
<1>2. QED
  BY <1>1, FramingInvariant, PTL

\* On a connection in clear on which no read event ends within the last four bytes
\* of a packet, every packet that check_packet ever takes is the one that was sent
\* in its place: the reader is never lost.
THEOREM UncutClearIsFaithful ==
  Spec => [](little /\ ~split /\ (\A k \in 1 .. Len(sent) : ~sent[k].enc) =>
               /\ lost = "no" /\ Len(taken) <= Len(sent)
               /\ \A k \in 1 .. Len(taken) : taken[k] = sent[k])
<1>1. FramingInv =>
        (little /\ ~split /\ (\A k \in 1 .. Len(sent) : ~sent[k].enc) =>
           /\ lost = "no" /\ Len(taken) <= Len(sent)
           /\ \A k \in 1 .. Len(taken) : taken[k] = sent[k])
  <2>1. SUFFICES ASSUME FramingInv, little, ~split,
                        \A k \in 1 .. Len(sent) : ~sent[k].enc
                 PROVE  /\ lost = "no" /\ Len(taken) <= Len(sent)
                        /\ \A k \in 1 .. Len(taken) : taken[k] = sent[k]
    OBVIOUS
  <2>2. TypeOK /\ TakenIsPrefix /\ LostOnlyBy
    BY <2>1, Zenon DEF FramingInv, ReaderInv
  <2>3. /\ sound <= Len(sent) /\ \A k \in 1 .. sound : taken[k] = sent[k]
        /\ lost = "no" => sound = Len(taken)
    BY <2>1, <2>2, Zenon DEF TakenIsPrefix
  <2>4. lost # "short"
    BY <2>1, <2>2, Zenon DEF LostOnlyBy
  <2>5. ASSUME lost = "sealed" PROVE FALSE
    <3>1. sound > 0 /\ taken[sound].enc
      BY <2>2, <2>5, Zenon DEF LostOnlyBy
    <3>2. sound \in Nat /\ Len(sent) \in Nat
      BY <2>2, LenProperties DEF TypeOK
    <3>3. sound \in 1 .. sound /\ sound \in 1 .. Len(sent)
      BY <2>3, <3>1, <3>2
    <3>4. QED
      BY <2>1, <2>3, <3>1, <3>3, Zenon
  <2>6. lost = "no"
    BY <2>2, <2>4, <2>5, Zenon DEF TypeOK
  <2>7. QED
    BY <2>3, <2>6, Zenon
<1>2. QED
  BY <1>1, FramingInvariant, PTL

\* When the server waits for the next read event it has taken every packet that
\* has arrived whole: the end of the stream takes none of them away.
THEOREM NoneLeftBehind == Spec => []ServerTakesAll
<1>1. FramingInv => ServerTakesAll
  BY Zenon DEF FramingInv, ReaderInv, ServerTakesAll
<1>2. QED
  BY <1>1, FramingInvariant, PTL
=============================================================================
