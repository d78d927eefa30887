------------------------- MODULE ZSubpacket_proofs -------------------------
(***************************************************************************)
(* The codec of ZSubpacket, for data, CRCs, buffers and flow control of    *)
(* any kind and length.                                                    *)
(***************************************************************************)
EXTENDS ZSubpacket, SequenceTheorems, TLAPS

\* Escaping turns a byte into a byte.
LEMMA XorType ==
  ASSUME NEW c \in Byte
  PROVE  Xor40(c) \in Byte
<1>1. CASE (c \div 64) % 2 = 0
  <2>1. c < 192
    BY <1>1 DEF Byte
  <2> QED BY <1>1, <2>1 DEF Xor40, Byte
<1>2. CASE (c \div 64) % 2 # 0
  <2>1. c >= 64
    BY <1>2 DEF Byte
  <2> QED BY <1>2, <2>1 DEF Xor40, Byte
<1> QED BY <1>1, <1>2

\* What is inserted into a sequence of bytes, and where.
LEMMA InsertAtBytes ==
  ASSUME NEW w \in Seq(Byte), NEW i \in 1 .. Len(w) + 1, NEW c \in Byte
  PROVE  /\ InsertAt(w, i, c) \in Seq(Byte)
         /\ Len(InsertAt(w, i, c)) = Len(w) + 1
         /\ \A j \in 1 .. Len(w) + 1 : InsertAt(w, i, c)[j] =
              IF j < i THEN w[j] ELSE IF j = i THEN c ELSE w[j - 1]
<1> DEFINE a == SubSeq(w, 1, i - 1)
           b == SubSeq(w, i, Len(w))
<1>1. Len(w) \in Nat
  OBVIOUS
<1>2. /\ a \in Seq(Byte) /\ Len(a) = i - 1
      /\ \A j \in 1 .. i - 1 : a[j] = w[j]
  BY <1>1, SubSeqProperties
<1>3. /\ b \in Seq(Byte) /\ Len(b) = Len(w) + 1 - i
      /\ \A j \in 1 .. Len(w) + 1 - i : b[j] = w[i + j - 1]
  BY <1>1, SubSeqProperties
<1>4. <<c>> \in Seq(Byte) /\ Len(<<c>>) = 1 /\ <<c>>[1] = c
  OBVIOUS
<1> HIDE DEF a, b
<1>5. /\ a \o <<c>> \in Seq(Byte) /\ Len(a \o <<c>>) = i
      /\ \A j \in 1 .. i : (a \o <<c>>)[j] = IF j < i THEN w[j] ELSE c
  BY <1>2, <1>4, ConcatProperties
<1> DEFINE ac == a \o <<c>>
<1>6. InsertAt(w, i, c) = ac \o b
  BY DEF InsertAt, a, b
<1> HIDE DEF ac
<1>7. /\ ac \in Seq(Byte) /\ Len(ac) = i
      /\ \A j \in 1 .. i : ac[j] = IF j < i THEN w[j] ELSE c
  BY <1>5 DEF ac
<1>8. /\ ac \o b \in Seq(Byte) /\ Len(ac \o b) = i + (Len(w) + 1 - i)
      /\ \A j \in 1 .. i + (Len(w) + 1 - i) :
           (ac \o b)[j] = IF j <= i THEN ac[j] ELSE b[j - i]
  <2>1. /\ ac \o b \in Seq(Byte) /\ Len(ac \o b) = Len(ac) + Len(b)
        /\ \A j \in 1 .. Len(ac) + Len(b) :
             (ac \o b)[j] = IF j <= Len(ac) THEN ac[j] ELSE b[j - Len(ac)]
    BY <1>7, <1>3, ConcatProperties
  <2> QED BY <1>7, <1>3, <2>1
<1>9. i + (Len(w) + 1 - i) = Len(w) + 1
  BY <1>1
<1>10. ASSUME NEW j \in 1 .. Len(w) + 1
       PROVE  (ac \o b)[j] = IF j < i THEN w[j] ELSE IF j = i THEN c ELSE w[j - 1]
  <2>1. CASE j <= i
    <3>1. (ac \o b)[j] = ac[j]
      BY <2>1, <1>8, <1>9
    <3> QED BY <3>1, <2>1, <1>1, <1>7
  <2>2. CASE j > i
    <3>1. j - i \in 1 .. Len(w) + 1 - i /\ i + (j - i) - 1 = j - 1
      BY <2>2, <1>1
    <3>2. (ac \o b)[j] = b[j - i]
      BY <2>2, <1>8, <1>9, <1>1
    <3> QED BY <3>1, <3>2, <1>3, <2>2
  <2>3. j <= i \/ j > i
    BY <1>1
  <2> QED BY <2>1, <2>2, <2>3
<1> QED BY <1>6, <1>8, <1>9, <1>10

LEMMA TypeInit == Init => TypeOK
<1> SUFFICES ASSUME Init PROVE TypeOK
  OBVIOUS
<1>1. data \in Seq(Byte)
  <2>1. PICK m \in 0 .. MaxLen : data \in [1 .. m -> DataBytes]
    BY DEF Init, BoundedSeq, SeqOf
  <2>2. m \in Nat /\ data \in [1 .. m -> Byte]
    BY <2>1, SubpacketAssumption DEF SubpacketAssumption
  <2> QED BY <2>2, SeqDef
<1>2. crc \in Seq(Byte)
  <2>1. CASE crc \in TupleOf(CrcBytes, 2)
    <3>1. crc \in [1 .. 2 -> Byte]
      BY <2>1, SubpacketAssumption DEF TupleOf, SubpacketAssumption
    <3> QED BY <3>1, SeqDef
  <2>2. CASE crc \in {<<a, a, b, b>> : a, b \in CrcBytes}
    <3>1. PICK a \in CrcBytes, b \in CrcBytes : crc = <<a, a, b, b>>
      BY <2>2
    <3>2. a \in Byte /\ b \in Byte
      BY SubpacketAssumption DEF SubpacketAssumption
    <3> QED BY <3>1, <3>2
  <2> QED BY <2>1, <2>2 DEF Init
<1> QED
  <2>1. 0 \in Byte /\ <<>> \in Seq(Byte) /\ Len(<<>>) = 0
    BY DEF Byte
  <2>2. 0 <= BufLen /\ 0 \in 0 .. MaxFlow
    BY SubpacketAssumption DEF SubpacketAssumption
  <2>3. /\ end \in Ends /\ sent = 0 /\ last = 0 /\ esc = 0 /\ cancelled = FALSE
        /\ wire = <<>> /\ flow = 0 /\ rpc = "byte" /\ cans = 0 /\ out = <<>>
        /\ got = 0 /\ crcin = <<>> /\ res = "none"
    BY DEF Init
  <2>4. /\ sent \in Nat /\ last \in Byte /\ esc \in Nat /\ wire \in Seq(Byte)
        /\ flow \in 0 .. MaxFlow /\ cancelled \in BOOLEAN
    BY <2>1, <2>2, <2>3
  <2>5. rpc \in {"byte", "esc", "can"} /\ cans \in 0 .. 5
    BY <2>3
  <2>6. /\ out \in Seq(Byte) /\ Len(out) <= BufLen
        /\ got \in {0} \cup (GOTOR .. GOTOR + 255) /\ crcin \in Seq(Byte)
        /\ res \in {"none", "ok", "cancelled", "failed"}
    BY <2>1, <2>2, <2>3
  <2> QED BY <1>1, <1>2, <2>3, <2>4, <2>5, <2>6 DEF TypeOK

LEMMA TypeWrite ==
  ASSUME TypeOK, Write
  PROVE  TypeOK'
<1> USE DEF TypeOK
<1>0. end \in Byte /\ ZDLE \in Byte /\ XON \in Byte
  BY SubpacketAssumption DEF SubpacketAssumption, Byte, ZDLE, XON, ZCRCE, ZCRCW
<1>1. ASSUME NEW c \in Byte, WriteByte(c)
      PROVE  wire' \in Seq(Byte) /\ last' \in Byte /\ esc' \in Nat
  <2>1. CASE EscapedAfter(c, last)
    <3>1. <<ZDLE, Xor40(c)>> \in Seq(Byte)
      BY <1>0, XorType
    <3>2. wire \o <<ZDLE, Xor40(c)>> \in Seq(Byte) /\ sent + 1 \in Nat
      BY <3>1, ConcatProperties
    <3> QED BY <1>1, <2>1, <3>2, XorType DEF WriteByte
  <2>2. CASE ~EscapedAfter(c, last)
    <3>1. Append(wire, c) \in Seq(Byte)
      BY AppendProperties
    <3> QED BY <1>1, <2>2, <3>1 DEF WriteByte
  <2> QED BY <2>1, <2>2
<1>2. ASSUME NEW cs \in Seq(Byte), WriteRaw(cs)
      PROVE  wire' \in Seq(Byte) /\ last' \in Byte /\ esc' \in Nat
  BY <1>2 DEF WriteRaw
<1>3. wire' \in Seq(Byte) /\ last' \in Byte /\ esc' \in Nat
  <2>1. CASE WData
    <3>1. data[sent + 1] \in Byte
      BY <2>1 DEF WData
    <3> QED BY <2>1, <3>1, <1>1 DEF WData
  <2>2. CASE WEnd
    <3>1. <<ZDLE, end>> \in Seq(Byte)
      BY <1>0
    <3> QED BY <2>2, <3>1, <1>2 DEF WEnd
  <2>3. CASE WCrc
    <3>1. crc[sent - Len(data)] \in Byte
      BY <2>3 DEF WCrc
    <3>2. <<crc[sent - Len(data)]>> \in Seq(Byte)
      BY <3>1
    <3> QED BY <2>3, <3>1, <3>2, <1>1, <1>2 DEF WCrc
  <2>4. CASE WXon
    <3>1. <<XON>> \in Seq(Byte)
      BY <1>0
    <3> QED BY <2>4, <3>1, <1>2 DEF WXon
  <2> QED BY <2>1, <2>2, <2>3, <2>4 DEF Write
<1> QED BY <1>3 DEF Write, packet, reader

LEMMA TypeRead ==
  ASSUME TypeOK, Read
  PROVE  TypeOK'
<1> USE DEF TypeOK
<1>1. Head(wire) \in Byte /\ Tail(wire) \in Seq(Byte)
  BY DEF Read
<1> DEFINE c == Head(wire)
           Fields == /\ out' \in Seq(Byte) /\ Len(out') <= BufLen
                     /\ got' \in {0} \cup (GOTOR .. GOTOR + 255)
                     /\ crcin' \in Seq(Byte)
                     /\ res' \in {"none", "ok", "cancelled", "failed"}
<1>2. ASSUME NEW v \in Byte \cup (GOTOR .. GOTOR + 255), Take(v)
      PROVE  Fields /\ rpc' = "byte" /\ cans' = 0
  <2>0. v \in Nat /\ v % 256 \in Byte
    BY DEF Byte, GOTOR
  <2>1. CASE got = 0 /\ v >= GOTOR
    BY <1>2, <2>1 DEF Take, TakeData, Byte, GOTOR
  <2>2. CASE got = 0 /\ ~(v >= GOTOR) /\ Len(out) < BufLen
    <3>1. v \in Byte
      BY <2>2, <2>0 DEF GOTOR
    <3>2. Append(out, v) \in Seq(Byte) /\ Len(Append(out, v)) = Len(out) + 1
      BY <3>1, AppendProperties
    <3>3. Len(out) + 1 <= BufLen
      BY <2>2, SubpacketAssumption DEF SubpacketAssumption
    <3>4. /\ out' = Append(out, v) /\ got' = got /\ crcin' = crcin /\ res' = res
          /\ rpc' = "byte" /\ cans' = 0
      BY <1>2, <2>2 DEF Take, TakeData
    <3> QED BY <3>2, <3>3, <3>4
  <2>3. CASE got = 0 /\ ~(v >= GOTOR) /\ ~(Len(out) < BufLen)
    BY <1>2, <2>3 DEF Take, TakeData, Fail
  <2>4. CASE got # 0
    <3>1. Append(crcin, v % 256) \in Seq(Byte)
      BY <2>0, AppendProperties
    <3>2. /\ out' = out /\ got' = got /\ crcin' = Append(crcin, v % 256)
          /\ rpc' = "byte" /\ cans' = 0
          /\ res' \in {"none", "ok", "failed"}
      BY <1>2, <2>4 DEF Take, TakeCrc
    <3> QED BY <3>1, <3>2
  <2> QED BY <2>1, <2>2, <2>3, <2>4
<1>3. ASSUME NEW pc \in {"byte", "esc", "can"}, NEW n \in 0 .. 5, Go(pc, n)
      PROVE  Fields /\ rpc' \in {"byte", "esc", "can"} /\ cans' \in 0 .. 5
  BY <1>3 DEF Go
<1>4. Fields /\ rpc' \in {"byte", "esc", "can"} /\ cans' \in 0 .. 5
  <2>1. CASE RByte(c)
    BY <2>1, <1>1, <1>2, <1>3 DEF RByte
  <2>2. CASE REsc(c)
    <3>1. \A b \in ZCRCE .. ZCRCW : GOTOR + b \in GOTOR .. GOTOR + 255
      BY DEF ZCRCE, ZCRCW, GOTOR
    <3>2. 127 \in Byte /\ 255 \in Byte /\ Xor40(c) \in Byte
      <4>1. 127 \in Byte /\ 255 \in Byte
        BY DEF Byte
      <4> QED BY <1>1, <4>1, XorType
    <3>3. CASE Fail /\ UNCHANGED <<rpc, cans>>
      BY <3>3 DEF Fail
    <3> HIDE DEF c, Fields
    <3> QED BY <2>2, <3>1, <3>2, <3>3, <1>2, <1>3 DEF REsc
  <2>3. CASE RCan(c)
    <3>1. CAN \in Byte /\ GOTOR + CAN \in GOTOR .. GOTOR + 255
      BY DEF CAN, Byte, GOTOR
    <3>2. cans < 4 => cans + 1 \in 0 .. 5
      OBVIOUS
    <3> HIDE DEF c, Fields
    <3> QED BY <2>3, <3>1, <3>2, <1>2, <1>3 DEF RCan
  <2> QED BY <2>1, <2>2, <2>3 DEF Read
<1> QED BY <1>1, <1>4 DEF Read, packet, writer

LEMMA TypeNext ==
  ASSUME TypeOK, [Next]_vars
  PROVE  TypeOK'
<1> USE DEF TypeOK
<1>1. CASE Write
  BY <1>1, TypeWrite
<1>2. CASE Cancel
  <2>1. [i \in 1 .. 8 |-> CAN] \in Seq(Byte)
    BY SeqDef DEF CAN, Byte
  <2> QED BY <1>2, <2>1 DEF Cancel, WriteRaw, packet, reader
<1>3. CASE FlowControl
  <2>1. PICK i \in 1 .. Len(wire) + 1, c \in {XON, XOFF} : wire' = InsertAt(wire, i, c)
    BY <1>3 DEF FlowControl
  <2>2. c \in Byte
    BY DEF XON, XOFF, Byte
  <2>3. wire' \in Seq(Byte)
    BY <2>1, <2>2, InsertAtBytes
  <2>4. flow' \in 0 .. MaxFlow
    BY <1>3, SubpacketAssumption DEF FlowControl, SubpacketAssumption
  <2> QED BY <1>3, <2>3, <2>4 DEF FlowControl, packet, writer, reader
<1>4. CASE Read
  BY <1>4, TypeRead
<1>5. CASE UNCHANGED vars
  BY <1>5 DEF vars, packet, writer, reader
<1> QED BY <1>1, <1>2, <1>3, <1>4, <1>5 DEF Next, Done

\* The codec's variables keep their types: zrdata never stores more than its
\* buffer holds, nor a frame end as a byte (frame.go:548-620).
THEOREM TypeCorrect == Spec => []TypeOK
<1>1. Init => TypeOK
  BY TypeInit
<1>2. TypeOK /\ [Next]_vars => TypeOK'
  BY TypeNext
<1> QED BY <1>1, <1>2, PTL DEF Spec

-----------------------------------------------------------------------------
\* Bare carriage returns: the wire has none before the second byte of a 32-bit
\* CRC, and when it ends in an '@' the writer knows, unless the first byte of
\* such a CRC was written past the escaper.
Bare(w) == \E i \in 1 .. Len(w) - 1 : w[i] % 128 = At /\ w[i + 1] % 128 = CR
AtEnd(w) == w # <<>> /\ w[Len(w)] % 128 = At
crcSent(k) == use32 /\ sent >= Len(data) + 1 + k
BareInv ==
  \/ crcSent(2)
  \/ ~Bare(wire) /\ (AtEnd(wire) => last % 128 = At \/ crcSent(1))

\* What is appended makes a bare carriage return only where the two meet.
LEMMA BareConcat ==
  ASSUME NEW w \in Seq(Byte), NEW cs \in Seq(Byte), cs # <<>>,
         ~Bare(w), ~Bare(cs), ~(AtEnd(w) /\ cs[1] % 128 = CR)
  PROVE  /\ ~Bare(w \o cs)
         /\ AtEnd(w \o cs) <=> AtEnd(cs)
<1> DEFINE m == Len(w)
           n == Len(cs)
           u == w \o cs
<1>1. m \in Nat /\ n \in Nat /\ n > 0
  OBVIOUS
<1>2. /\ u \in Seq(Byte) /\ Len(u) = m + n
      /\ \A i \in 1 .. m + n : u[i] = IF i <= m THEN w[i] ELSE cs[i - m]
  BY ConcatProperties
<1>3. w = <<>> <=> m = 0
  OBVIOUS
<1>4. AtEnd(u) <=> AtEnd(cs)
  <2>1. u[m + n] = cs[n] /\ u # <<>>
    <3>1. ~(m + n <= m) /\ (m + n) - m = n /\ m + n \in 1 .. m + n
      BY <1>1
    <3> QED BY <1>1, <1>2, <3>1
  <2> QED BY <1>2, <2>1 DEF AtEnd
<1>5. ASSUME Bare(u) PROVE FALSE
  <2>1. PICK i \in 1 .. (m + n) - 1 : u[i] % 128 = At /\ u[i + 1] % 128 = CR
    BY <1>2, <1>5 DEF Bare
  <2> HIDE DEF m, n, u
  <2>2. CASE i < m
    <3>1. i \in 1 .. m - 1 /\ u[i] = w[i] /\ u[i + 1] = w[i + 1]
      BY <1>1, <1>2, <2>2
    <3> QED BY <2>1, <3>1 DEF Bare, m
  <2>3. CASE i = m
    <3>1. m > 0 /\ u[i] = w[m] /\ u[i + 1] = cs[1]
      BY <1>1, <1>2, <2>3
    <3> QED BY <1>3, <2>1, <3>1 DEF AtEnd, m
  <2>4. CASE i > m
    <3>1. i - m \in 1 .. n - 1 /\ (i + 1) - m = (i - m) + 1
      BY <1>1, <2>4
    <3>2. u[i] = cs[i - m] /\ u[i + 1] = cs[(i - m) + 1]
      BY <1>1, <1>2, <2>4, <3>1
    <3> QED BY <2>1, <3>1, <3>2 DEF Bare, n
  <2> QED BY <1>1, <2>2, <2>3, <2>4
<1> QED BY <1>4, <1>5

\* A flow control byte parts what it is put between.
LEMMA BareInsert ==
  ASSUME NEW w \in Seq(Byte), NEW i \in 1 .. Len(w) + 1, NEW c \in {XON, XOFF},
         ~Bare(w)
  PROVE  /\ ~Bare(InsertAt(w, i, c))
         /\ AtEnd(InsertAt(w, i, c)) => AtEnd(w)
<1> DEFINE m == Len(w)
           u == InsertAt(w, i, c)
<1>0. c \in Byte /\ c % 128 # At /\ c % 128 # CR
  BY DEF XON, XOFF, Byte, At, CR
<1>1. m \in Nat /\ i \in Nat
  OBVIOUS
<1>2. /\ u \in Seq(Byte) /\ Len(u) = m + 1
      /\ \A j \in 1 .. m + 1 : u[j] =
           IF j < i THEN w[j] ELSE IF j = i THEN c ELSE w[j - 1]
  BY <1>0, InsertAtBytes
<1>3. w = <<>> <=> m = 0
  OBVIOUS
<1>4. AtEnd(u) => AtEnd(w)
  <2>1. CASE i = m + 1
    BY <1>0, <1>1, <1>2, <2>1 DEF AtEnd
  <2>2. CASE i # m + 1
    <3>1. i <= m /\ (m + 1) - 1 = m /\ m > 0 /\ ~(m + 1 < i)
      BY <1>1, <2>2
    <3>2. u[m + 1] = w[m]
      BY <1>1, <1>2, <2>2, <3>1
    <3> QED BY <1>2, <1>3, <3>1, <3>2 DEF AtEnd
  <2> QED BY <2>1, <2>2
<1>5. ASSUME Bare(u) PROVE FALSE
  <2>1. PICK j \in 1 .. (m + 1) - 1 : u[j] % 128 = At /\ u[j + 1] % 128 = CR
    BY <1>2, <1>5 DEF Bare
  <2> HIDE DEF m, u
  <2>2. j # i /\ j + 1 # i
    BY <1>0, <1>1, <1>2, <2>1
  <2>3. CASE j + 1 < i
    <3>1. j \in 1 .. m - 1 /\ u[j] = w[j] /\ u[j + 1] = w[j + 1]
      BY <1>1, <1>2, <2>3, i \in 1 .. m + 1 DEF m
    <3> QED BY <2>1, <3>1 DEF Bare, m
  <2>4. CASE j > i
    <3>1. j - 1 \in 1 .. m - 1 /\ (j + 1) - 1 = (j - 1) + 1
      BY <1>1, <2>4, i \in 1 .. m + 1 DEF m
    <3>2. u[j] = w[j - 1] /\ u[j + 1] = w[(j - 1) + 1]
      BY <1>1, <1>2, <2>4, <3>1
    <3> QED BY <2>1, <3>1, <3>2 DEF Bare, m
  <2> QED BY <1>1, <2>2, <2>3, <2>4
<1> QED BY <1>4, <1>5

\* One byte, or two, of which the second is no carriage return.
LEMMA BareShort ==
  /\ \A c \in Byte : ~Bare(<<c>>) /\ (AtEnd(<<c>>) <=> c % 128 = At)
  /\ \A c \in Byte : ~Bare(<<ZDLE, c>>) /\ (AtEnd(<<ZDLE, c>>) <=> c % 128 = At)
<1>1. ZDLE % 128 # At
  BY DEF ZDLE, At
<1>2. \A c \in Byte : ~Bare(<<c>>) /\ (AtEnd(<<c>>) <=> c % 128 = At)
  BY DEF Bare, AtEnd
<1>3. ASSUME NEW c \in Byte
      PROVE  ~Bare(<<ZDLE, c>>) /\ (AtEnd(<<ZDLE, c>>) <=> c % 128 = At)
  <2>1. /\ Len(<<ZDLE, c>>) = 2 /\ <<ZDLE, c>> # <<>>
        /\ <<ZDLE, c>>[1] = ZDLE /\ <<ZDLE, c>>[2] = c
    OBVIOUS
  <2>2. \A i \in 1 .. 2 - 1 : i = 1
    OBVIOUS
  <2> QED BY <1>1, <2>1, <2>2 DEF Bare, AtEnd
<1> QED BY <1>2, <1>3

\* The bytes the CRC is written with past the escaper are no carriage returns.
LEMMA PrintableIsNoCR ==
  ASSUME NEW c \in Byte, Printable(c)
  PROVE  c % 128 # CR
<1>1. ASSUME c % 128 = 13 PROVE c \in {13, 141}
  BY <1>1 DEF Byte
<1>2. ~Printable(13) /\ ~Printable(141)
  BY DEF Printable
<1> QED BY <1>1, <1>2 DEF CR

LEMMA BareWrite ==
  ASSUME TypeOK, BareInv, Write
  PROVE  BareInv'
<1> USE DEF TypeOK
<1>0. /\ sent' = sent + 1 /\ data' = data /\ crc' = crc
      /\ sent \in Nat /\ Len(data) \in Nat
  BY DEF Write, packet
<1>1. CASE crcSent(1)
  <2>1. crcSent(2)'
    BY <1>0, <1>1 DEF crcSent, use32
  <2> QED BY <2>1 DEF BareInv
<1>2. CASE ~crcSent(1)
  <2>0. ~Bare(wire) /\ (AtEnd(wire) => last % 128 = At)
    <3>1. ~crcSent(2)
      BY <1>0, <1>2 DEF crcSent
    <3> QED BY <1>2, <3>1 DEF BareInv
  <2>1. ZDLE \in Byte /\ ZDLE % 128 # CR
    BY DEF ZDLE, Byte, CR
  <2>2. ASSUME NEW c \in Byte, WriteByte(c)
        PROVE  ~Bare(wire') /\ (AtEnd(wire') => last' % 128 = At)
    <3>1. CASE EscapedAfter(c, last)
      <4>1. Xor40(c) \in Byte
        BY XorType
      <4>2. <<ZDLE, Xor40(c)>> \in Seq(Byte) /\ <<ZDLE, Xor40(c)>>[1] = ZDLE
        BY <2>1, <4>1
      <4>3. wire' = wire \o <<ZDLE, Xor40(c)>> /\ last' = Xor40(c)
        BY <2>2, <3>1 DEF WriteByte
      <4> QED BY <2>0, <2>1, <4>1, <4>2, <4>3, BareConcat, BareShort
    <3>2. CASE ~EscapedAfter(c, last)
      <4>1. <<c>> \in Seq(Byte) /\ <<c>>[1] = c /\ <<c>> # <<>>
        OBVIOUS
      <4>2. wire' = wire \o <<c>> /\ last' = c
        BY <2>2, <3>2, AppendIsConcat DEF WriteByte
      <4>3. ~(AtEnd(wire) /\ c % 128 = CR)
        BY <2>0, <3>2 DEF EscapedAfter
      <4> QED BY <2>0, <4>1, <4>2, <4>3, BareConcat, BareShort
    <3> QED BY <3>1, <3>2
  <2>3. ~Bare(wire') /\ (AtEnd(wire') => last' % 128 = At \/ crcSent(1)')
    <3>1. CASE WData
      <4>1. data[sent + 1] \in Byte
        BY <3>1 DEF WData
      <4> QED BY <2>2, <3>1, <4>1 DEF WData
    <3>2. CASE WEnd
      <4>1. end \in Byte /\ end % 128 # At
        <5>1. end \in 104 .. 107
          BY SubpacketAssumption DEF SubpacketAssumption, ZCRCE, ZCRCW
        <5>2. end \in {104, 105, 106, 107}
          BY <5>1
        <5>3. 104 % 128 # 64 /\ 105 % 128 # 64 /\ 106 % 128 # 64 /\ 107 % 128 # 64
          OBVIOUS
        <5>4. end % 128 # 64
          BY <5>2, <5>3, Zenon
        <5>5. end \in Byte
          BY <5>1 DEF Byte
        <5> QED BY <5>4, <5>5 DEF At
      <4>2. <<ZDLE, end>> \in Seq(Byte) /\ <<ZDLE, end>>[1] = ZDLE
        BY <2>1, <4>1
      <4>3. wire' = wire \o <<ZDLE, end>>
        BY <3>2 DEF WEnd, WriteRaw
      <4> QED BY <2>0, <2>1, <4>1, <4>2, <4>3, BareConcat, BareShort
    <3>3. CASE WCrc
      <4>1. crc[sent - Len(data)] \in Byte
        BY <3>3 DEF WCrc
      <4>2. CASE use32 /\ Printable(crc[sent - Len(data)])
        <5> DEFINE c == crc[sent - Len(data)]
        <5>1. <<c>> \in Seq(Byte) /\ <<c>>[1] = c /\ <<c>> # <<>>
          BY <4>1
        <5>2. wire' = wire \o <<c>>
          BY <3>3, <4>2 DEF WCrc, WriteRaw
        <5>3. c % 128 # CR
          BY <4>1, <4>2, PrintableIsNoCR
        <5>4. crcSent(1)'
          <6>1. use32' /\ sent >= Len(data) + 1
            BY <1>0, <3>3, <4>2 DEF WCrc, use32
          <6> QED BY <1>0, <6>1 DEF crcSent
        <5> QED BY <2>0, <4>1, <5>1, <5>2, <5>3, <5>4, BareConcat, BareShort
      <4>3. CASE ~(use32 /\ Printable(crc[sent - Len(data)]))
        BY <2>2, <3>3, <4>1, <4>3 DEF WCrc
      <4> QED BY <4>2, <4>3
    <3>4. CASE WXon
      <4>1. XON \in Byte /\ XON % 128 # At /\ XON % 128 # CR
        BY DEF XON, Byte, At, CR
      <4>2. <<XON>> \in Seq(Byte) /\ <<XON>>[1] = XON /\ <<XON>> # <<>>
        BY <4>1
      <4>3. wire' = wire \o <<XON>>
        BY <3>4 DEF WXon, WriteRaw
      <4> QED BY <2>0, <4>1, <4>2, <4>3, BareConcat, BareShort
    <3> QED BY <3>1, <3>2, <3>3, <3>4 DEF Write
  <2> QED BY <2>3 DEF BareInv
<1> QED BY <1>1, <1>2

LEMMA BareNext ==
  ASSUME TypeOK, BareInv, [Next]_vars
  PROVE  BareInv'
<1> USE DEF TypeOK
<1>1. CASE Write
  BY <1>1, BareWrite
<1>2. CASE crcSent(2) /\ (Cancel \/ FlowControl \/ Read)
  <2>1. crcSent(2)'
    BY <1>2 DEF Cancel, FlowControl, Read, packet, writer, crcSent, use32
  <2> QED BY <2>1 DEF BareInv
<1>3. CASE ~crcSent(2) /\ Cancel
  <2> DEFINE cs == [i \in 1 .. 8 |-> CAN]
  <2>1. CAN \in Byte /\ CAN % 128 # At /\ CAN % 128 # CR
    BY DEF CAN, Byte, At, CR
  <2>2. cs \in Seq(Byte) /\ Len(cs) = 8 /\ cs # <<>> /\ cs[1] = CAN /\ cs[8] = CAN
    BY <2>1, SeqDef
  <2>3. ~Bare(cs) /\ ~AtEnd(cs)
    BY <2>1, <2>2 DEF Bare, AtEnd
  <2>4. wire' = wire \o cs
    BY <1>3 DEF Cancel, WriteRaw
  <2> HIDE DEF cs
  <2> QED BY <1>3, <2>1, <2>2, <2>3, <2>4, BareConcat DEF BareInv
<1>4. CASE ~crcSent(2) /\ FlowControl
  <2>1. PICK i \in 1 .. Len(wire) + 1, c \in {XON, XOFF} : wire' = InsertAt(wire, i, c)
    BY <1>4 DEF FlowControl
  <2>2. last' = last /\ (crcSent(1) => crcSent(1)')
    BY <1>4 DEF FlowControl, writer, packet, crcSent, use32
  <2> QED BY <1>4, <2>1, <2>2, BareInsert DEF BareInv
<1>5. CASE ~crcSent(2) /\ Read
  <2>1. wire # <<>> /\ wire' = Tail(wire) /\ last' = last
    BY <1>5 DEF Read, writer
  <2>7. crcSent(1) => crcSent(1)'
    BY <1>5 DEF Read, writer, packet, crcSent, use32
  <2>2. ~Bare(wire)
    BY <1>5 DEF BareInv
  <2>3. /\ Tail(wire) \in Seq(Byte) /\ Len(Tail(wire)) = Len(wire) - 1
        /\ \A i \in 1 .. Len(Tail(wire)) : Tail(wire)[i] = wire[i + 1]
    BY <2>1, HeadTailProperties
  <2>4. Len(wire) \in Nat /\ Len(wire) > 0
    BY <2>1
  <2>5. ~Bare(Tail(wire))
    <3>1. \A i \in 1 .. Len(Tail(wire)) - 1 :
            /\ i + 1 \in 1 .. Len(wire) - 1
            /\ Tail(wire)[i] = wire[i + 1] /\ Tail(wire)[i + 1] = wire[(i + 1) + 1]
      BY <2>3, <2>4
    <3> QED BY <2>2, <3>1 DEF Bare
  <2>6. AtEnd(Tail(wire)) => AtEnd(wire)
    <3>1. ASSUME Tail(wire) # <<>> PROVE Tail(wire)[Len(Tail(wire))] = wire[Len(wire)]
      BY <2>3, <2>4, <3>1
    <3> QED BY <2>1, <3>1 DEF AtEnd
  <2> QED BY <1>5, <2>1, <2>5, <2>6, <2>7 DEF BareInv
<1>6. CASE UNCHANGED vars
  BY <1>6 DEF vars, packet, writer, BareInv, crcSent, use32
<1> QED BY <1>1, <1>2, <1>3, <1>4, <1>5, <1>6 DEF Next, Done

\* No '@' is followed by a bare carriage return, whatever the data, the frame
\* end and the flow control, with either CRC, except between two bytes of a
\* 32-bit CRC (escape.go:145-162, frame.go:512).
THEOREM NoBareCRSent == Spec => []NoBareCR
<1>1. Init => BareInv
  BY DEF Init, BareInv, Bare, AtEnd
<1>2. TypeOK /\ BareInv /\ [Next]_vars => BareInv'
  BY BareNext
<1>3. TypeOK /\ BareInv => NoBareCR
  <2>1. TypeOK /\ crcSent(2) => use32 /\ sent >= Len(data) + 3
    BY DEF TypeOK, crcSent
  <2> QED BY <2>1 DEF BareInv, Bare, BareAt, NoBareCR
<1> QED BY <1>1, <1>2, <1>3, TypeCorrect, PTL DEF Spec

-----------------------------------------------------------------------------
\* Transparency.  The reader is behind the writer by what is on the wire; the
\* inductive invariant says at which byte of the subpacket each byte of the
\* wire stands, flow control apart.

\* The subpacket's bytes, as they go out when none is escaped.
Plain(k) ==
  IF k <= Len(data) THEN data[k]
  ELSE IF k = Len(data) + 1 THEN ZDLE
  ELSE IF k = Len(data) + 2 THEN end
  ELSE crc[k - (Len(data) + 2)]

\* How many of them its first n items are: the frame end takes two.
Bytes(n) == IF n <= Len(data) THEN n ELSE n + 1

\* The items written before the first one that was escaped.  The XON after the
\* subpacket is no item of its own.
clear ==
  IF esc # 0 THEN esc - 1
  ELSE IF sent <= Len(data) + 1 + Len(crc) THEN sent ELSE Len(data) + 1 + Len(crc)

\* What Xor40 makes of the bytes that are escaped.
Unescapable == {77, 81, 83, 88, 205, 209, 211}

\* Byte k of the stream may be c.  After an escaped byte anything may follow.
Says(k, c) ==
  /\ k <= Bytes(clear) => c = Plain(k)
  /\ esc # 0 /\ k = Bytes(clear) + 1 => c = ZDLE
  /\ esc # 0 /\ k = Bytes(clear) + 2 => c \in Unescapable
  /\ esc = 0 /\ k > Bytes(clear) => cancelled /\ c = CAN
Script == {s \in Nat \X Byte : Says(s[1], s[2])}

\* at[i] is where wire byte i stands; a flow control byte stands nowhere, and
\* takes the place of the byte before it.
Places(at, w, S) ==
  /\ at \in [0 .. Len(w) -> Nat]
  /\ \A i \in 1 .. Len(w) :
       IF w[i] \in Flow THEN at[i] = at[i - 1]
       ELSE at[i] = at[i - 1] + 1 /\ <<at[i], w[i]>> \in S
  /\ \A i \in 0 .. Len(w) : at[i] <= at[Len(w)]

\* The wire from place r on, up to place m, says what the script says.
Spells(w, r, m, S) == \E at : Places(at, w, S) /\ at[0] = r /\ at[Len(w)] = m

LEMMA SpellsNothing ==
  ASSUME NEW S, NEW r \in Nat
  PROVE  Spells(<<>>, r, r, S)
<1>1. Places([i \in 0 .. 0 |-> r], <<>>, S)
  BY DEF Places
<1> QED BY <1>1 DEF Spells

\* The next byte is read: it was one of flow control, or the next one.
LEMMA SpellsTail ==
  ASSUME NEW w \in Seq(Byte), w # <<>>, NEW r, NEW m, NEW S, Spells(w, r, m, S)
  PROVE  /\ r \in Nat /\ m \in Nat /\ r <= m
         /\ Head(w) \in Flow => Spells(Tail(w), r, m, S)
         /\ Head(w) \notin Flow =>
              <<r + 1, Head(w)>> \in S /\ Spells(Tail(w), r + 1, m, S)
<1> DEFINE n == Len(w)
           t == Tail(w)
<1>1. PICK at : Places(at, w, S) /\ at[0] = r /\ at[n] = m
  BY DEF Spells
<1>2. /\ n \in Nat /\ n > 0 /\ Head(w) = w[1]
      /\ t \in Seq(Byte) /\ Len(t) = n - 1
      /\ \A i \in 1 .. n - 1 : t[i] = w[i + 1]
  BY HeadTailProperties
<1> DEFINE at2 == [i \in 0 .. n - 1 |-> at[i + 1]]
<1>3. /\ at \in [0 .. n -> Nat]
      /\ \A i \in 1 .. n :
           IF w[i] \in Flow THEN at[i] = at[i - 1]
           ELSE at[i] = at[i - 1] + 1 /\ <<at[i], w[i]>> \in S
      /\ \A i \in 0 .. n : at[i] <= at[n]
  BY <1>1 DEF Places
<1> HIDE DEF n, t
<1>4. at2 \in [0 .. n - 1 -> Nat]
  BY <1>2, <1>3
<1>5. ASSUME NEW i \in 1 .. n - 1
      PROVE  IF t[i] \in Flow THEN at2[i] = at2[i - 1]
             ELSE at2[i] = at2[i - 1] + 1 /\ <<at2[i], t[i]>> \in S
  <2>1. /\ i + 1 \in 1 .. n /\ (i + 1) - 1 = i /\ (i - 1) + 1 = i
        /\ i \in 0 .. n - 1 /\ i - 1 \in 0 .. n - 1
    BY <1>2
  <2>2. at2[i] = at[i + 1] /\ at2[i - 1] = at[i] /\ t[i] = w[i + 1]
    BY <1>2, <2>1
  <2> QED BY <1>3, <2>1, <2>2
<1>6. /\ at2[0] = at[1] /\ at2[n - 1] = at[n]
      /\ \A i \in 0 .. n - 1 : at2[i] <= at2[n - 1]
  <2>1. 0 \in 0 .. n - 1 /\ n - 1 \in 0 .. n - 1 /\ (n - 1) + 1 = n
    BY <1>2
  <2>2. at2[0] = at[1] /\ at2[n - 1] = at[n]
    BY <2>1
  <2>3. \A i \in 0 .. n - 1 : i + 1 \in 0 .. n /\ at2[i] = at[i + 1]
    BY <1>2
  <2> QED BY <1>3, <2>2, <2>3
<1>7. Spells(t, at[1], m, S)
  <2>1. Places(at2, t, S)
    BY <1>2, <1>4, <1>5, <1>6 DEF Places
  <2> QED BY <1>1, <1>2, <1>6, <2>1 DEF Spells, n
<1>8. 1 \in 1 .. n /\ 0 \in 0 .. n /\ n \in 0 .. n /\ 1 - 1 = 0
  BY <1>2
<1>9. r \in Nat /\ m \in Nat /\ r <= m
  BY <1>1, <1>3, <1>8 DEF n
<1> QED BY <1>1, <1>2, <1>3, <1>7, <1>8, <1>9 DEF t

\* Bytes are written after the others.
LEMMA SpellsConcat ==
  ASSUME NEW w \in Seq(Byte), NEW cs \in Seq(Byte), NEW r, NEW m, NEW S,
         Spells(w, r, m, S),
         \A i \in 1 .. Len(cs) : cs[i] \notin Flow /\ <<m + i, cs[i]>> \in S
  PROVE  Spells(w \o cs, r, m + Len(cs), S)
<1> DEFINE n == Len(w)
           k == Len(cs)
           u == w \o cs
<1>1. PICK at : Places(at, w, S) /\ at[0] = r /\ at[n] = m
  BY DEF Spells
<1>2. /\ n \in Nat /\ k \in Nat
      /\ u \in Seq(Byte) /\ Len(u) = n + k
      /\ \A i \in 1 .. n + k : u[i] = IF i <= n THEN w[i] ELSE cs[i - n]
  BY ConcatProperties
<1>3. /\ at \in [0 .. n -> Nat]
      /\ \A i \in 1 .. n :
           IF w[i] \in Flow THEN at[i] = at[i - 1]
           ELSE at[i] = at[i - 1] + 1 /\ <<at[i], w[i]>> \in S
      /\ \A i \in 0 .. n : at[i] <= at[n]
  BY <1>1 DEF Places
<1>4. \A i \in 1 .. k : cs[i] \notin Flow /\ <<m + i, cs[i]>> \in S
  OBVIOUS
<1> DEFINE at2 == [i \in 0 .. n + k |-> IF i <= n THEN at[i] ELSE m + (i - n)]
<1> HIDE DEF n, k, u
<1>5. m \in Nat /\ n \in 0 .. n /\ 0 \in 0 .. n
  BY <1>1, <1>2, <1>3 DEF n
<1>6. at2 \in [0 .. n + k -> Nat]
  <2>1. ASSUME NEW i \in 0 .. n + k PROVE (IF i <= n THEN at[i] ELSE m + (i - n)) \in Nat
    BY <1>2, <1>3, <1>5
  <2> QED BY <2>1
<1>7. ASSUME NEW i \in 1 .. n + k
      PROVE  IF u[i] \in Flow THEN at2[i] = at2[i - 1]
             ELSE at2[i] = at2[i - 1] + 1 /\ <<at2[i], u[i]>> \in S
  <2>1. i \in 0 .. n + k /\ i - 1 \in 0 .. n + k
    BY <1>2
  <2>2. CASE i <= n
    <3>1. at2[i] = at[i] /\ at2[i - 1] = at[i - 1] /\ u[i] = w[i] /\ i \in 1 .. n
      BY <1>2, <2>1, <2>2
    <3> QED BY <1>3, <3>1
  <2>3. CASE ~(i <= n)
    <3>1. i - n \in 1 .. k /\ u[i] = cs[i - n] /\ at2[i] = m + (i - n)
      BY <1>2, <2>1, <2>3
    <3>2. at2[i - 1] = m + ((i - n) - 1)
      <4>1. CASE i - 1 <= n
        <5>1. i - 1 = n
          BY <1>2, <2>3, <4>1
        <5> QED BY <1>1, <1>5, <1>2, <2>1, <5>1 DEF n
      <4>2. CASE ~(i - 1 <= n)
        BY <1>2, <2>1, <4>2
      <4> QED BY <4>1, <4>2
    <3>3. u[i] \notin Flow /\ <<at2[i], u[i]>> \in S
      BY <1>4, <3>1
    <3>4. at2[i] = at2[i - 1] + 1
      BY <1>5, <3>1, <3>2
    <3> QED BY <3>3, <3>4
  <2> QED BY <2>2, <2>3
<1>8. at2[0] = r /\ at2[n + k] = m + k
  <2>1. 0 \in 0 .. n + k /\ n + k \in 0 .. n + k /\ 0 <= n /\ (n + k) - n = k
    BY <1>2
  <2>2. n + k <= n => k = 0 /\ n + k = n
    BY <1>2
  <2> QED BY <1>1, <1>5, <2>1, <2>2 DEF n
<1>9. ASSUME NEW i \in 0 .. n + k PROVE at2[i] <= at2[n + k]
  <2>1. CASE i <= n
    <3>1. i \in 0 .. n /\ at2[i] = at[i]
      BY <1>2, <2>1
    <3>2. at[i] \in Nat /\ at[i] <= m
      BY <1>1, <1>3, <3>1 DEF n
    <3> QED BY <1>2, <1>5, <1>8, <3>1, <3>2
  <2>2. CASE ~(i <= n)
    <3>1. at2[i] = m + (i - n)
      BY <2>2
    <3> QED BY <1>2, <1>5, <1>8, <2>2, <3>1
  <2> QED BY <2>1, <2>2
<1>10. Places(at2, u, S)
  BY <1>2, <1>6, <1>7, <1>9 DEF Places
<1> QED BY <1>2, <1>8, <1>10 DEF Spells, u, k

\* The line puts flow control in.
LEMMA SpellsInsert ==
  ASSUME NEW w \in Seq(Byte), NEW j \in 1 .. Len(w) + 1, NEW c \in Byte \cap Flow,
         NEW r, NEW m, NEW S, Spells(w, r, m, S)
  PROVE  Spells(InsertAt(w, j, c), r, m, S)
<1> DEFINE n == Len(w)
           u == InsertAt(w, j, c)
<1>1. PICK at : Places(at, w, S) /\ at[0] = r /\ at[n] = m
  BY DEF Spells
<1>2. /\ n \in Nat /\ u \in Seq(Byte) /\ Len(u) = n + 1
      /\ \A i \in 1 .. n + 1 : u[i] =
           IF i < j THEN w[i] ELSE IF i = j THEN c ELSE w[i - 1]
  BY InsertAtBytes
<1>3. /\ at \in [0 .. n -> Nat]
      /\ \A i \in 1 .. n :
           IF w[i] \in Flow THEN at[i] = at[i - 1]
           ELSE at[i] = at[i - 1] + 1 /\ <<at[i], w[i]>> \in S
      /\ \A i \in 0 .. n : at[i] <= at[n]
  BY <1>1 DEF Places
<1>4. j \in 1 .. n + 1
  OBVIOUS
<1> DEFINE at2 == [i \in 0 .. n + 1 |-> IF i < j THEN at[i] ELSE at[i - 1]]
<1> HIDE DEF n, u
<1>5. \A i \in 0 .. n + 1 :
        /\ i < j => i \in 0 .. n /\ at2[i] = at[i]
        /\ ~(i < j) => i - 1 \in 0 .. n /\ at2[i] = at[i - 1]
  BY <1>2, <1>4
<1>6. at2 \in [0 .. n + 1 -> Nat]
  <2>1. ASSUME NEW i \in 0 .. n + 1 PROVE (IF i < j THEN at[i] ELSE at[i - 1]) \in Nat
    BY <1>3, <1>2, <1>4
  <2> QED BY <2>1
<1>7. ASSUME NEW i \in 1 .. n + 1
      PROVE  IF u[i] \in Flow THEN at2[i] = at2[i - 1]
             ELSE at2[i] = at2[i - 1] + 1 /\ <<at2[i], u[i]>> \in S
  <2>1. i \in 0 .. n + 1 /\ i - 1 \in 0 .. n + 1
    BY <1>2
  <2>2. CASE i < j
    <3>1. i - 1 < j /\ i \in 1 .. n
      BY <1>2, <1>4, <2>2
    <3>2. at2[i] = at[i] /\ at2[i - 1] = at[i - 1] /\ u[i] = w[i]
      BY <1>2, <1>5, <2>1, <2>2, <3>1
    <3> QED BY <1>3, <3>1, <3>2
  <2>3. CASE i = j
    <3>1. ~(i < j) /\ i - 1 < j
      BY <1>2, <1>4, <2>3
    <3>2. at2[i] = at[i - 1] /\ at2[i - 1] = at[i - 1] /\ u[i] = c
      BY <1>2, <1>5, <2>1, <2>3, <3>1
    <3> QED BY <3>2
  <2>4. CASE i > j
    <3>1. ~(i < j) /\ ~(i - 1 < j) /\ i - 1 \in 1 .. n /\ i # j
      BY <1>2, <1>4, <2>4
    <3>2. at2[i] = at[i - 1] /\ at2[i - 1] = at[(i - 1) - 1] /\ u[i] = w[i - 1]
      BY <1>2, <1>5, <2>1, <3>1
    <3> QED BY <1>3, <3>1, <3>2
  <2> QED BY <1>2, <1>4, <2>2, <2>3, <2>4
<1>8. at2[0] = at[0] /\ at2[n + 1] = at[n]
  <2>1. 0 \in 0 .. n + 1 /\ n + 1 \in 0 .. n + 1 /\ 0 < j /\ ~(n + 1 < j) /\ (n + 1) - 1 = n
    BY <1>2, <1>4
  <2> QED BY <1>5, <2>1
<1>9. \A i \in 0 .. n + 1 : at2[i] <= at2[n + 1]
  BY <1>3, <1>5, <1>8
<1>10. Places(at2, u, S)
  BY <1>2, <1>6, <1>7, <1>9 DEF Places
<1> QED BY <1>1, <1>2, <1>8, <1>10 DEF Spells, u, n

\* The script may change where the wire does not reach.
LEMMA SpellsMore ==
  ASSUME NEW w, NEW r, NEW m, NEW S, NEW S2, Spells(w, r, m, S), Len(w) \in Nat,
         \A k \in Nat : \A c : k <= m /\ <<k, c>> \in S => <<k, c>> \in S2
  PROVE  Spells(w, r, m, S2)
<1>1. PICK at : Places(at, w, S) /\ at[0] = r /\ at[Len(w)] = m
  BY DEF Spells
<1>2. Places(at, w, S2)
  <2>1. \A i \in 1 .. Len(w) : i \in 0 .. Len(w) /\ at[i] \in Nat /\ at[i] <= m
    BY <1>1 DEF Places
  <2> QED BY <1>1, <2>1 DEF Places
<1> QED BY <1>1, <1>2 DEF Spells

-----------------------------------------------------------------------------
\* What the writer has done.
WriterInv ==
  /\ Len(crc) \in {2, 4}
  /\ sent <= Len(data) + Len(crc) + 2
  /\ esc <= sent /\ esc <= Len(data) + Len(crc) + 1 /\ esc # Len(data) + 1
  /\ cancelled => sent <= Len(data)
  /\ \A i \in 1 .. clear :
       i # Len(data) + 1 => Plain(Bytes(i)) \notin Flow \cup {ZDLE}

\* The reader stands at place r: in the data or at its end, in the CRC, or
\* among the CANs of a writer that gave up.
InData(r) ==
  /\ got = 0 /\ crcin = <<>> /\ Len(out) <= clear /\ Len(out) <= Len(data)
  /\ \A i \in 1 .. Len(out) : out[i] = data[i]
  /\ \/ rpc = "byte" /\ r = Len(out)
     \/ /\ rpc = "esc" /\ r = Len(out) + 1
        /\ \/ esc = Len(out) + 1
           \/ Len(out) = Len(data) /\ clear > Len(out)
           \/ cancelled /\ esc = 0 /\ clear = Len(out)
InCrc(r) ==
  /\ got = GOTOR + end /\ out = data /\ Len(crcin) < Len(crc)
  /\ \A i \in 1 .. Len(crcin) : crcin[i] = crc[i]
  /\ Len(data) + 1 + Len(crcin) <= clear
  /\ \/ rpc = "byte" /\ r = Len(data) + 2 + Len(crcin)
     \/ /\ rpc = "esc" /\ r = Len(data) + 3 + Len(crcin)
        /\ esc = Len(data) + 2 + Len(crcin)
InCans(r) ==
  /\ cancelled /\ esc = 0 /\ r > clear
  /\ got \in {0, GOTOR + CAN}

\* The wire holds places r to m of the stream.
OnWire(r, m) ==
  /\ Spells(wire, r, m, Script)
  /\ esc = 0 /\ ~cancelled => m = Bytes(clear)
  /\ esc # 0 => m >= Bytes(clear) + 2

ReaderInv ==
  res = "none" => \E r, m \in Nat :
    OnWire(r, m) /\ (InData(r) \/ InCrc(r) \/ InCans(r))

\* What was read is the subpacket's beginning, and zrdata's result is right.
Faithful ==
  ~cancelled =>
    /\ Len(out) <= Len(data) /\ \A i \in 1 .. Len(out) : out[i] = data[i]
    /\ got # 0 => out = data /\ got = GOTOR + end
Result ==
  /\ res = "failed" /\ ~cancelled /\ Len(data) <= BufLen => esc = itemsRead + 1
  /\ res = "ok" => esc = 0 /\ ~cancelled /\ sent > Len(data) + Len(crc)

CodecInv == WriterInv /\ ReaderInv /\ Faithful /\ Result

LEMMA CodecInit == Init => CodecInv
<1> SUFFICES ASSUME Init PROVE CodecInv
  OBVIOUS
<1>1. TypeOK
  BY TypeInit
<1>2. Len(crc) \in {2, 4}
  <2>1. CASE crc \in TupleOf(CrcBytes, 2)
    BY <2>1 DEF TupleOf
  <2>2. CASE crc \in {<<a, a, b, b>> : a, b \in CrcBytes}
    <3>1. PICK a \in CrcBytes, b \in CrcBytes : crc = <<a, a, b, b>>
      BY <2>2
    <3> QED BY <3>1
  <2> QED BY <2>1, <2>2 DEF Init
<1>3. /\ sent = 0 /\ esc = 0 /\ cancelled = FALSE /\ wire = <<>> /\ rpc = "byte"
      /\ out = <<>> /\ got = 0 /\ crcin = <<>> /\ res = "none"
  BY DEF Init
<1>4. Len(data) \in Nat /\ Len(crc) \in Nat /\ Len(out) = 0
  BY <1>1, <1>3 DEF TypeOK
<1>5. clear = 0 /\ Bytes(clear) = 0
  BY <1>3, <1>4 DEF clear, Bytes
<1>6. WriterInv
  BY <1>2, <1>3, <1>4, <1>5 DEF WriterInv
<1>7. OnWire(0, 0) /\ InData(0)
  BY <1>3, <1>4, <1>5, SpellsNothing DEF OnWire, InData
<1> QED
  BY <1>3, <1>4, <1>6, <1>7 DEF CodecInv, ReaderInv, Faithful, Result

\* What Xor40 makes of the escaped bytes, and what the others are.
LEMMA EscapedBytes ==
  ASSUME NEW c \in Byte, NEW before
  PROVE  /\ EscapedAfter(c, before) => Xor40(c) \in Unescapable
         /\ ~EscapedAfter(c, before) => c \notin Flow \cup {ZDLE}
         /\ Printable(c) => c \notin Flow \cup {ZDLE}
<1>1. ~Printable(17) /\ ~Printable(19) /\ ~Printable(145) /\ ~Printable(147) /\ ~Printable(24)
  BY DEF Printable
<1>2. Printable(c) => c \notin Flow \cup {ZDLE}
  BY <1>1 DEF Flow, XON, XOFF, ZDLE
<1>3. ~EscapedAfter(c, before) => c \notin Flow \cup {ZDLE}
  BY <1>2 DEF EscapedAfter, EscapedAlways
<1>4. ASSUME EscapedAfter(c, before) PROVE Xor40(c) \in Unescapable
  <2>1. c \in {24, 17, 19, 145, 147} \/ c % 128 = 13
    BY <1>4 DEF EscapedAfter, EscapedAlways, Flow, ZDLE, XON, XOFF, CR
  <2>2. c % 128 = 13 => c \in {13, 141}
    BY DEF Byte
  <2>3. /\ Xor40(24) = 88 /\ Xor40(17) = 81 /\ Xor40(19) = 83 /\ Xor40(145) = 209
        /\ Xor40(147) = 211 /\ Xor40(13) = 77 /\ Xor40(141) = 205
    BY DEF Xor40
  <2> QED BY <2>1, <2>2, <2>3 DEF Unescapable
<1> QED BY <1>2, <1>3, <1>4

LEMMA SpecialBytes ==
  /\ ZDLE = CAN /\ ZDLE \in Byte /\ ZDLE \notin Flow
  /\ Flow \cap Unescapable = {} /\ Unescapable \subseteq Byte
  /\ \A e \in ZCRCE .. ZCRCW : e \in Byte /\ e \notin Flow /\ e # CAN
  /\ XON \in Byte \cap Flow
BY DEF ZDLE, CAN, Byte, Flow, XON, XOFF, Unescapable, ZCRCE, ZCRCW

\* What the four kinds of write are: an item as it is, an item escaped, or the
\* XON behind the subpacket.
WritesPlain(cs) ==
  /\ sent <= Len(data) + Len(crc) /\ esc' = esc
  /\ wire' = wire \o cs /\ Bytes(sent + 1) = Bytes(sent) + Len(cs)
  /\ \A i \in 1 .. Len(cs) : cs[i] \notin Flow /\ cs[i] = Plain(Bytes(sent) + i)
  /\ sent # Len(data) => Plain(Bytes(sent + 1)) \notin Flow \cup {ZDLE}
WritesEscaped(c) ==
  /\ sent <= Len(data) + Len(crc) /\ sent # Len(data)
  /\ esc' = IF esc = 0 THEN sent + 1 ELSE esc
  /\ wire' = wire \o <<ZDLE, c>>
WritesXon ==
  /\ sent = Len(data) + Len(crc) + 1 /\ esc' = esc
  /\ wire' = InsertAt(wire, Len(wire) + 1, XON)

LEMMA WriteKinds ==
  ASSUME TypeOK, WriterInv, Write
  PROVE  \/ \E cs \in Seq(Byte) : WritesPlain(cs)
         \/ \E c \in Unescapable : WritesEscaped(c)
         \/ WritesXon
<1> DEFINE L == Len(data)
           K == Len(crc)
<1>1. L \in Nat /\ K \in Nat /\ sent \in Nat /\ wire \in Seq(Byte)
  BY DEF TypeOK
<1>2. ASSUME NEW c \in Byte, sent <= L + K, sent # L,
             Bytes(sent + 1) = Bytes(sent) + 1, c = Plain(Bytes(sent) + 1),
             \/ WriteByte(c)
             \/ Printable(c) /\ WriteRaw(<<c>>)
      PROVE  \/ \E cs \in Seq(Byte) : WritesPlain(cs)
             \/ \E d \in Unescapable : WritesEscaped(d)
  <2>1. CASE WriteByte(c) /\ EscapedAfter(c, last)
    <3>1. Xor40(c) \in Unescapable
      BY <2>1, EscapedBytes
    <3>2. WritesEscaped(Xor40(c))
      BY <1>2, <2>1 DEF WritesEscaped, WriteByte
    <3> QED BY <3>1, <3>2
  <2>2. CASE ~(WriteByte(c) /\ EscapedAfter(c, last))
    <3>1. c \notin Flow \cup {ZDLE}
      BY <1>2, <2>2, EscapedBytes
    <3>2. wire' = wire \o <<c>> /\ esc' = esc
      BY <1>1, <1>2, <2>2, AppendIsConcat DEF WriteByte, WriteRaw
    <3>3. /\ <<c>> \in Seq(Byte) /\ Len(<<c>>) = 1 /\ <<c>>[1] = c
          /\ \A i \in 1 .. 1 : i = 1
      OBVIOUS
    <3>4. WritesPlain(<<c>>)
      BY <1>2, <3>1, <3>2, <3>3 DEF WritesPlain
    <3> QED BY <3>3, <3>4
  <2> QED BY <2>1, <2>2
<1>3. CASE WData
  <2>1. sent < L /\ data[sent + 1] \in Byte /\ WriteByte(data[sent + 1])
    BY <1>3 DEF WData, TypeOK
  <2>2. /\ sent <= L + K /\ sent # L
        /\ Bytes(sent) = sent /\ Bytes(sent + 1) = sent + 1
        /\ Plain(sent + 1) = data[sent + 1]
    BY <1>1, <2>1 DEF Bytes, Plain
  <2> QED BY <1>2, <2>1, <2>2
<1>4. CASE WEnd
  <2>1. sent = L /\ wire' = wire \o <<ZDLE, end>> /\ esc' = esc
    BY <1>4 DEF WEnd, WriteRaw
  <2>2. /\ Bytes(sent) = L /\ Bytes(sent + 1) = L + 2 /\ sent <= L + K
        /\ Plain(L + 1) = ZDLE /\ Plain(L + 2) = end
    BY <1>1, <2>1 DEF Bytes, Plain
  <2>3. end \in Byte /\ end \notin Flow /\ ZDLE \in Byte /\ ZDLE \notin Flow
    BY SpecialBytes, SubpacketAssumption DEF SubpacketAssumption, TypeOK
  <2>4. /\ <<ZDLE, end>> \in Seq(Byte) /\ Len(<<ZDLE, end>>) = 2
        /\ <<ZDLE, end>>[1] = ZDLE /\ <<ZDLE, end>>[2] = end
    BY <2>3
  <2>5. \A i \in 1 .. 2 : i = 1 \/ i = 2
    OBVIOUS
  <2>6. WritesPlain(<<ZDLE, end>>)
    BY <2>1, <2>2, <2>3, <2>4, <2>5 DEF WritesPlain
  <2> QED BY <2>4, <2>6
<1>5. CASE WCrc
  <2> DEFINE i == sent - L
  <2>1. /\ i \in 1 .. K /\ crc[i] \in Byte
        /\ \/ WriteByte(crc[i])
           \/ Printable(crc[i]) /\ WriteRaw(<<crc[i]>>)
    BY <1>1, <1>5 DEF WCrc, TypeOK
  <2>2. /\ sent <= L + K /\ sent # L
        /\ Bytes(sent) = sent + 1 /\ Bytes(sent + 1) = (sent + 1) + 1
        /\ Plain((sent + 1) + 1) = crc[i]
    <3>1. /\ ~(sent <= L) /\ ~(sent + 1 <= L) /\ ~((sent + 1) + 1 <= L)
          /\ (sent + 1) + 1 # L + 1 /\ (sent + 1) + 1 # L + 2
          /\ ((sent + 1) + 1) - (L + 2) = i
      BY <1>1, <2>1
    <3> QED BY <1>1, <2>1, <3>1 DEF Bytes, Plain
  <2> QED BY <1>2, <2>1, <2>2
<1>6. CASE WXon
  <2> DEFINE u == InsertAt(wire, Len(wire) + 1, XON)
  <2>1. sent = L + K + 1 /\ wire' = wire \o <<XON>> /\ esc' = esc
    BY <1>1, <1>6 DEF WXon, WriteRaw
  <2>2. <<XON>> \in Seq(Byte) /\ Len(<<XON>>) = 1 /\ <<XON>>[1] = XON
    BY SpecialBytes
  <2>3. /\ wire \o <<XON>> \in Seq(Byte) /\ Len(wire \o <<XON>>) = Len(wire) + 1
        /\ \A i \in 1 .. Len(wire) + 1 : (wire \o <<XON>>)[i] =
             IF i <= Len(wire) THEN wire[i] ELSE <<XON>>[i - Len(wire)]
    BY <1>1, <2>2, ConcatProperties
  <2>4. /\ u \in Seq(Byte) /\ Len(u) = Len(wire) + 1
        /\ \A i \in 1 .. Len(wire) + 1 : u[i] =
             IF i < Len(wire) + 1 THEN wire[i]
             ELSE IF i = Len(wire) + 1 THEN XON ELSE wire[i - 1]
    <3>1. Len(wire) + 1 \in 1 .. Len(wire) + 1 /\ XON \in Byte /\ wire \in Seq(Byte)
      BY <1>1, SpecialBytes
    <3> DEFINE k == Len(wire) + 1
    <3>2. /\ InsertAt(wire, k, XON) \in Seq(Byte)
          /\ Len(InsertAt(wire, k, XON)) = Len(wire) + 1
          /\ \A i \in 1 .. Len(wire) + 1 : InsertAt(wire, k, XON)[i] =
               IF i < k THEN wire[i] ELSE IF i = k THEN XON ELSE wire[i - 1]
      <4> HIDE DEF k
      <4>1. k \in 1 .. Len(wire) + 1
        BY <3>1 DEF k
      <4> QED BY <3>1, <4>1, InsertAtBytes
    <3> QED BY <3>2
  <2>5. Len(wire) \in Nat
    BY <1>1
  <2>6. ASSUME NEW i \in 1 .. Len(wire) + 1 PROVE u[i] = (wire \o <<XON>>)[i]
    <3> HIDE DEF u
    <3>1. CASE i <= Len(wire)
      BY <2>3, <2>4, <2>5, <3>1
    <3>2. CASE i = Len(wire) + 1
      <4>1. ~(i <= Len(wire)) /\ ~(i < Len(wire) + 1) /\ i - Len(wire) = 1
        BY <2>5, <3>2
      <4> QED BY <2>2, <2>3, <2>4, <3>2, <4>1
    <3> QED BY <2>5, <3>1, <3>2
  <2>7. u = wire \o <<XON>>
    <3> HIDE DEF u
    <3> QED BY <2>3, <2>4, <2>6, SeqEqual
  <2> QED BY <2>1, <2>7 DEF WritesXon
<1> QED BY <1>3, <1>4, <1>5, <1>6 DEF Write

\* The numbers of items and bytes written.
LEMMA Counts ==
  ASSUME TypeOK, WriterInv
  PROVE  /\ Len(data) \in Nat /\ Len(crc) \in Nat /\ sent \in Nat /\ esc \in Nat
         /\ clear \in Nat /\ clear <= sent /\ clear <= Len(data) + Len(crc) + 1
         /\ esc # 0 => esc = clear + 1
         /\ \A n \in Nat : Bytes(n) \in Nat
         /\ \A n, k \in Nat : n <= k => Bytes(n) <= Bytes(k)
<1>1. Len(data) \in Nat /\ Len(crc) \in Nat /\ sent \in Nat /\ esc \in Nat
  BY DEF TypeOK
<1>2. \A n \in Nat : Bytes(n) \in Nat
  BY <1>1 DEF Bytes
<1>3. \A n, k \in Nat : n <= k => Bytes(n) <= Bytes(k)
  BY <1>1 DEF Bytes
<1>4. /\ clear \in Nat /\ clear <= sent /\ clear <= Len(data) + Len(crc) + 1
      /\ esc # 0 => esc = clear + 1
  BY <1>1 DEF WriterInv, clear
<1> QED BY <1>1, <1>2, <1>3, <1>4

\* A write keeps the account of the writer, and what it writes is on the wire
\* at its place; what counts as read stays so.
LEMMA WriteKeeps ==
  ASSUME TypeOK, WriterInv, Write
  PROVE  /\ WriterInv'
         /\ clear' >= clear /\ (esc # 0 => esc' = esc)
         /\ \A r, m \in Nat : OnWire(r, m) => \E m2 \in Nat : OnWire(r, m2)'
<1> DEFINE L == Len(data)
           K == Len(crc)
<1>0. /\ ~cancelled /\ cancelled' = cancelled /\ sent' = sent + 1
      /\ data' = data /\ crc' = crc /\ end' = end
  BY DEF Write, packet
<1>1. /\ L \in Nat /\ K \in Nat /\ sent \in Nat /\ esc \in Nat
      /\ clear \in Nat /\ clear <= sent /\ clear <= L + K + 1
      /\ esc # 0 => esc = clear + 1
      /\ \A n \in Nat : Bytes(n) \in Nat
      /\ \A n, k \in Nat : n <= k => Bytes(n) <= Bytes(k)
      /\ wire \in Seq(Byte) /\ Len(wire) \in Nat
  BY Counts DEF TypeOK
<1>2. /\ (Bytes(clear))' = Bytes(clear')
      /\ \A n : (Bytes(n))' = Bytes(n) /\ (Plain(n))' = Plain(n)
      /\ \A n : (Plain(Bytes(n)))' = Plain(Bytes(n))
  BY <1>0 DEF Bytes, Plain
<1>3. WriterInv => /\ K \in {2, 4}
                   /\ \A i \in 1 .. clear :
                        i # L + 1 => Plain(Bytes(i)) \notin Flow \cup {ZDLE}
                   /\ esc <= sent /\ esc <= L + K + 1 /\ esc # L + 1
  BY DEF WriterInv
<1>4. ASSUME sent' <= L + K + 2, esc' <= sent', esc' <= L + K + 1, esc' # L + 1,
             \A i \in 1 .. clear' :
               i # L + 1 => Plain(Bytes(i)) \notin Flow \cup {ZDLE}
      PROVE  WriterInv'
  BY <1>0, <1>2, <1>3, <1>4 DEF WriterInv
<1>5. ASSUME NEW S, NEW r \in Nat, NEW m \in Nat, Spells(wire, r, m, S),
             \A k \in Nat : \A c : k <= m /\ <<k, c>> \in S => <<k, c>> \in Script'
      PROVE  Spells(wire, r, m, Script')
  BY <1>1, <1>5, SpellsMore
<1>n. L \in Nat /\ K \in Nat /\ sent \in Nat
  BY <1>1
<1>m. \A x, y, z \in Nat : z <= x + y =>
        /\ z + 1 <= x + y + 2 /\ z + 1 <= x + y + 1 /\ 0 <= z + 1 /\ 0 <= x + y + 1
        /\ 0 # x + 1 /\ z + 1 <= z + 1 /\ (z # x => z + 1 # x + 1)
  OBVIOUS
<1>s. ASSUME NEW k \in Nat, NEW c \in Byte
      PROVE  <<k, c>> \in Script' <=>
               /\ k <= Bytes(clear') => c = Plain(k)
               /\ esc' # 0 /\ k = Bytes(clear') + 1 => c = ZDLE
               /\ esc' # 0 /\ k = Bytes(clear') + 2 => c \in Unescapable
               /\ esc' = 0 /\ k > Bytes(clear') => cancelled' /\ c = CAN
  BY <1>2 DEF Script, Says
<1>t. \A k, c : <<k, c>> \in Script =>
        /\ k \in Nat /\ c \in Byte
        /\ k <= Bytes(clear) => c = Plain(k)
        /\ esc # 0 /\ k = Bytes(clear) + 1 => c = ZDLE
        /\ esc # 0 /\ k = Bytes(clear) + 2 => c \in Unescapable
        /\ esc = 0 /\ k > Bytes(clear) => cancelled /\ c = CAN
  BY DEF Script, Says
<1>6. ASSUME NEW cs \in Seq(Byte), WritesPlain(cs), esc = 0
      PROVE  /\ WriterInv' /\ clear' = clear + 1 /\ esc' = 0
             /\ \A r, m \in Nat : OnWire(r, m) => \E m2 \in Nat : OnWire(r, m2)'
  <2>1. /\ sent <= L + K /\ esc' = 0 /\ wire' = wire \o cs
        /\ Bytes(sent + 1) = Bytes(sent) + Len(cs) /\ Len(cs) \in Nat
        /\ \A i \in 1 .. Len(cs) : cs[i] \notin Flow /\ cs[i] = Plain(Bytes(sent) + i)
        /\ sent # L => Plain(Bytes(sent + 1)) \notin Flow \cup {ZDLE}
    BY <1>6 DEF WritesPlain
  <2>2. clear = sent /\ clear' = sent + 1
    BY <1>0, <1>1, <1>6, <2>1 DEF clear
  <2>3. WriterInv'
    <3>1. ASSUME NEW i \in 1 .. sent + 1, i # L + 1
          PROVE  Plain(Bytes(i)) \notin Flow \cup {ZDLE}
      <4>1. CASE i <= sent
        BY <1>3, <2>2, <3>1, <4>1
      <4>2. CASE ~(i <= sent)
        <5>1. \A x, y, z \in Nat : z \in 1 .. y + 1 /\ z # x + 1 /\ ~(z <= y) => z = y + 1 /\ y # x
          OBVIOUS
        <5>2. L \in Nat /\ sent \in Nat /\ i \in Nat
          BY <1>1
        <5>3. i = sent + 1 /\ sent # L
          BY <3>1, <4>2, <5>1, <5>2
        <5> QED BY <2>1, <5>3
      <4> QED BY <4>1, <4>2
    <3>2. sent + 1 <= L + K + 2 /\ 0 <= sent + 1 /\ 0 <= L + K + 1 /\ 0 # L + 1
      BY <1>n, <1>m, <2>1
    <3> QED BY <1>0, <1>4, <2>1, <2>2, <3>1, <3>2
  <2>4. ASSUME NEW r \in Nat, NEW m \in Nat, OnWire(r, m)
        PROVE  m + Len(cs) \in Nat /\ OnWire(r, m + Len(cs))'
    <3>1. m = Bytes(clear) /\ Spells(wire, r, m, Script)
      BY <1>0, <1>6, <2>4 DEF OnWire
    <3>2. m <= Bytes(clear') /\ Bytes(clear') = m + Len(cs)
      BY <1>1, <2>1, <2>2, <3>1
    <3>3. ASSUME NEW k \in Nat, NEW c, k <= m, <<k, c>> \in Script
          PROVE  <<k, c>> \in Script'
      <4>1. c \in Byte /\ c = Plain(k)
        BY <1>t, <3>1, <3>3
      <4>2. ~(k > Bytes(clear'))
        BY <3>2, <3>3
      <4> QED BY <1>s, <2>1, <4>1, <4>2
    <3>4. Spells(wire, r, m, Script')
      BY <1>5, <3>1, <3>3
    <3>5. ASSUME NEW i \in 1 .. Len(cs)
          PROVE  cs[i] \notin Flow /\ <<m + i, cs[i]>> \in Script'
      <4>1. cs[i] \in Byte /\ cs[i] \notin Flow /\ cs[i] = Plain(m + i)
        BY <2>1, <2>2, <3>1
      <4>2. m + i \in Nat /\ ~(m + i > Bytes(clear'))
        BY <2>1, <3>2
      <4> QED BY <1>s, <2>1, <4>1, <4>2
    <3>6. Spells(wire', r, m + Len(cs), Script')
      BY <1>1, <2>1, <3>4, <3>5, SpellsConcat
    <3>7. m + Len(cs) \in Nat
      BY <2>1
    <3> QED BY <1>2, <2>1, <3>2, <3>6, <3>7 DEF OnWire
  <2> QED BY <2>1, <2>2, <2>3, <2>4
<1>7. ASSUME NEW c \in Unescapable, WritesEscaped(c), esc = 0
      PROVE  /\ WriterInv' /\ clear' = clear
             /\ \A r, m \in Nat : OnWire(r, m) => \E m2 \in Nat : OnWire(r, m2)'
  <2>1. /\ sent <= L + K /\ sent # L /\ esc' = sent + 1
        /\ wire' = wire \o <<ZDLE, c>>
    BY <1>7 DEF WritesEscaped
  <2>2. clear = sent /\ clear' = sent /\ esc' # 0
    BY <1>0, <1>1, <1>7, <2>1 DEF clear
  <2>3. WriterInv'
    <3>1. sent + 1 <= L + K + 2 /\ sent + 1 <= L + K + 1 /\ sent + 1 # L + 1 /\ sent + 1 <= sent + 1
      BY <1>n, <1>m, <2>1
    <3>2. \A i \in 1 .. clear' : i # L + 1 => Plain(Bytes(i)) \notin Flow \cup {ZDLE}
      BY <1>3, <2>2
    <3> QED BY <1>0, <1>4, <2>1, <3>1, <3>2
  <2>4. ASSUME NEW r \in Nat, NEW m \in Nat, OnWire(r, m)
        PROVE  m + 2 \in Nat /\ OnWire(r, m + 2)'
    <3>1. m = Bytes(clear') /\ Spells(wire, r, m, Script)
      BY <1>0, <1>7, <2>2, <2>4 DEF OnWire
    <3>3. ASSUME NEW k \in Nat, NEW d, k <= m, <<k, d>> \in Script
          PROVE  <<k, d>> \in Script'
      <4>1. d \in Byte /\ d = Plain(k)
        BY <1>t, <2>2, <3>1, <3>3
      <4>2. k # Bytes(clear') + 1 /\ k # Bytes(clear') + 2
        BY <3>1, <3>3
      <4> QED BY <1>s, <2>2, <4>1, <4>2
    <3>4. Spells(wire, r, m, Script')
      BY <1>5, <3>1, <3>3
    <3>5. /\ c \in Byte /\ c \notin Flow /\ ZDLE \in Byte /\ ZDLE \notin Flow
      BY SpecialBytes
    <3>6. <<m + 1, ZDLE>> \in Script' /\ <<m + 2, c>> \in Script'
      <4>1. /\ m + 1 \in Nat /\ ~(m + 1 <= m) /\ m + 1 # m + 2
            /\ m + 2 \in Nat /\ ~(m + 2 <= m)
        OBVIOUS
      <4> QED BY <1>s, <2>2, <3>1, <3>5, <4>1
    <3>7. /\ <<ZDLE, c>> \in Seq(Byte) /\ Len(<<ZDLE, c>>) = 2
          /\ <<ZDLE, c>>[1] = ZDLE /\ <<ZDLE, c>>[2] = c
          /\ \A i \in 1 .. 2 : i = 1 \/ i = 2
      BY <3>5
    <3>8. \A i \in 1 .. Len(<<ZDLE, c>>) :
            /\ <<ZDLE, c>>[i] \notin Flow
            /\ <<m + i, <<ZDLE, c>>[i]>> \in Script'
      BY <3>5, <3>6, <3>7
    <3>9. Spells(wire', r, m + Len(<<ZDLE, c>>), Script')
      BY <1>1, <2>1, <3>4, <3>7, <3>8, SpellsConcat
    <3>10. m + 2 \in Nat /\ m + 2 >= Bytes(clear') + 2
      BY <3>1
    <3> QED BY <1>2, <2>2, <3>7, <3>9, <3>10 DEF OnWire
  <2> QED BY <2>2, <2>3, <2>4
<1>8. ASSUME NEW cs \in Seq(Byte), esc # 0, esc' = esc, wire' = wire \o cs,
             sent <= L + K,
             \A i \in 1 .. Len(cs) : cs[i] \notin Flow
      PROVE  /\ WriterInv' /\ clear' = clear
             /\ \A r, m \in Nat : OnWire(r, m) => \E m2 \in Nat : OnWire(r, m2)'
  <2>1. clear' = clear
    BY <1>8 DEF clear
  <2>2. WriterInv'
    BY <1>0, <1>1, <1>3, <1>4, <1>8, <2>1
  <2>3. Len(cs) \in Nat
    OBVIOUS
  <2>4. ASSUME NEW r \in Nat, NEW m \in Nat, OnWire(r, m)
        PROVE  m + Len(cs) \in Nat /\ OnWire(r, m + Len(cs))'
    <3>1. m >= Bytes(clear') + 2 /\ Spells(wire, r, m, Script) /\ Bytes(clear') \in Nat
      BY <1>1, <1>8, <2>1, <2>4 DEF OnWire
    <3>3. ASSUME NEW k \in Nat, NEW d, k <= m, <<k, d>> \in Script
          PROVE  <<k, d>> \in Script'
      BY <1>s, <1>t, <1>8, <2>1, <3>3
    <3>4. Spells(wire, r, m, Script')
      BY <1>5, <3>1, <3>3
    <3>5. ASSUME NEW i \in 1 .. Len(cs)
          PROVE  cs[i] \notin Flow /\ <<m + i, cs[i]>> \in Script'
      <4>1. cs[i] \in Byte /\ cs[i] \notin Flow
        BY <1>8
      <4>2. /\ m + i \in Nat /\ ~(m + i <= Bytes(clear'))
            /\ m + i # Bytes(clear') + 1 /\ m + i # Bytes(clear') + 2
        BY <2>3, <3>1
      <4> QED BY <1>s, <1>8, <4>1, <4>2
    <3>6. Spells(wire', r, m + Len(cs), Script')
      BY <1>1, <1>8, <3>4, <3>5, SpellsConcat
    <3>7. m + Len(cs) \in Nat /\ m + Len(cs) >= Bytes(clear') + 2
      BY <2>3, <3>1
    <3> QED BY <1>2, <1>8, <3>6, <3>7 DEF OnWire
  <2> QED BY <2>1, <2>2, <2>4
<1>9. ASSUME WritesXon
      PROVE  /\ WriterInv' /\ clear' = clear /\ esc' = esc
             /\ \A r, m \in Nat : OnWire(r, m) => \E m2 \in Nat : OnWire(r, m2)'
  <2>1. /\ sent = L + K + 1 /\ esc' = esc
        /\ wire' = InsertAt(wire, Len(wire) + 1, XON)
    BY <1>9 DEF WritesXon
  <2>2. clear' = clear
    BY <1>0, <1>1, <2>1 DEF clear
  <2>3. WriterInv'
    BY <1>0, <1>1, <1>3, <1>4, <2>1, <2>2
  <2>4. ASSUME NEW r \in Nat, NEW m \in Nat, OnWire(r, m)
        PROVE  OnWire(r, m)'
    <3>1. Spells(wire, r, m, Script)
      BY <2>4 DEF OnWire
    <3>3. ASSUME NEW k \in Nat, NEW d, k <= m, <<k, d>> \in Script
          PROVE  <<k, d>> \in Script'
      BY <1>0, <1>s, <1>t, <2>1, <2>2, <3>3
    <3>4. Spells(wire, r, m, Script')
      BY <1>5, <3>1, <3>3
    <3>5. Len(wire) + 1 \in 1 .. Len(wire) + 1 /\ XON \in Byte \cap Flow
      BY <1>1, SpecialBytes
    <3>6. Spells(wire', r, m, Script')
      BY <1>1, <2>1, <3>4, <3>5, SpellsInsert
    <3> QED BY <1>0, <1>2, <2>1, <2>2, <2>4, <3>6 DEF OnWire
  <2> QED BY <2>1, <2>2, <2>3, <2>4
<1>10. ASSUME NEW cs \in Seq(Byte), WritesPlain(cs), esc # 0
       PROVE  /\ esc' = esc /\ wire' = wire \o cs /\ sent <= L + K
              /\ \A i \in 1 .. Len(cs) : cs[i] \notin Flow
  BY <1>10 DEF WritesPlain
<1>11. ASSUME NEW c \in Unescapable, WritesEscaped(c), esc # 0
       PROVE  /\ esc' = esc /\ wire' = wire \o <<ZDLE, c>> /\ sent <= L + K
              /\ <<ZDLE, c>> \in Seq(Byte)
              /\ \A i \in 1 .. Len(<<ZDLE, c>>) : <<ZDLE, c>>[i] \notin Flow
  <2>1. c \in Byte /\ c \notin Flow /\ ZDLE \in Byte /\ ZDLE \notin Flow
    BY SpecialBytes
  <2>2. /\ <<ZDLE, c>> \in Seq(Byte) /\ Len(<<ZDLE, c>>) = 2
        /\ <<ZDLE, c>>[1] = ZDLE /\ <<ZDLE, c>>[2] = c
        /\ \A i \in 1 .. 2 : i = 1 \/ i = 2
    BY <2>1
  <2> QED BY <1>11, <2>1, <2>2 DEF WritesEscaped
<1>12. clear + 1 >= clear /\ clear >= clear
  BY <1>1
<1> QED
  BY WriteKinds, <1>6, <1>7, <1>8, <1>9, <1>10, <1>11, <1>12

\* zrdata takes the next byte of the data.
LEMMA TakesData ==
  ASSUME TypeOK, NEW v \in Byte, got = 0, Take(v)
  PROVE  /\ rpc' = "byte" /\ got' = 0 /\ crcin' = crcin
         /\ \/ /\ Len(out) < BufLen /\ res' = res
               /\ Len(out') = Len(out) + 1 /\ out'[Len(out) + 1] = v
               /\ \A i \in 1 .. Len(out) : out'[i] = out[i]
            \/ Len(out) >= BufLen /\ res' = "failed" /\ out' = out
<1>1. out \in Seq(Byte) /\ Len(out) \in Nat /\ BufLen \in Nat
  BY SubpacketAssumption DEF TypeOK, SubpacketAssumption
<1>2. ~(v >= GOTOR)
  BY DEF Byte, GOTOR
<1>3. CASE Len(out) < BufLen
  <2>1. out' = Append(out, v)
    BY <1>2, <1>3 DEF Take, TakeData
  <2> QED BY <1>1, <1>2, <1>3, <2>1, AppendProperties DEF Take, TakeData
<1>4. CASE ~(Len(out) < BufLen)
  BY <1>1, <1>2, <1>4 DEF Take, TakeData, Fail
<1> QED BY <1>3, <1>4

\* zrdata takes the frame end.
LEMMA TakesEnd ==
  ASSUME NEW e \in Byte, got = 0, Take(GOTOR + e)
  PROVE  /\ rpc' = "byte" /\ got' = GOTOR + e
         /\ out' = out /\ crcin' = crcin /\ res' = res
<1>1. GOTOR + e >= GOTOR
  BY DEF Byte, GOTOR
<1> QED BY <1>1 DEF Take, TakeData

\* zrdata takes a byte of the CRC.
LEMMA TakesCrc ==
  ASSUME TypeOK, NEW v \in Byte \cup (GOTOR .. GOTOR + 255), got # 0, Take(v)
  PROVE  /\ rpc' = "byte" /\ got' = got /\ out' = out
         /\ Len(crcin') = Len(crcin) + 1
         /\ \A i \in 1 .. Len(crcin) : crcin'[i] = crcin[i]
         /\ v \in Byte => crcin'[Len(crcin) + 1] = v
         /\ crcin' \in Seq(Byte)
         /\ res' = IF Len(crcin') < Len(crc) THEN "none"
                   ELSE IF <<out, got, crcin'>> = <<data, GOTOR + end, crc>> THEN "ok"
                   ELSE "failed"
<1>1. v % 256 \in Byte /\ (v \in Byte => v % 256 = v)
  BY DEF Byte, GOTOR
<1>2. crcin' = Append(crcin, v % 256) /\ crcin \in Seq(Byte)
  BY DEF Take, TakeCrc, TypeOK
<1>3. /\ Append(crcin, v % 256) \in Seq(Byte)
      /\ Len(Append(crcin, v % 256)) = Len(crcin) + 1
      /\ \A i \in 1 .. Len(crcin) : Append(crcin, v % 256)[i] = crcin[i]
      /\ Append(crcin, v % 256)[Len(crcin) + 1] = v % 256
  BY <1>1, <1>2, AppendProperties
<1> QED BY <1>1, <1>2, <1>3 DEF Take, TakeCrc

\* What the writer escaped is not read.
LEMMA UnescapableFails ==
  ASSUME NEW c \in Unescapable, REsc(c)
  PROVE  res' = "failed" /\ out' = out /\ got' = got /\ crcin' = crcin
<1>1. /\ c \in Byte /\ c # CAN /\ c \notin ZCRCE .. ZCRCW /\ c # ZRUB0 /\ c # ZRUB1
      /\ c \notin Flow
  BY SpecialBytes DEF Unescapable, CAN, ZDLE, ZCRCE, ZCRCW, ZRUB0, ZRUB1
<1>2. ~Unescapes(c)
  <2>1. /\ ~Unescapes(77) /\ ~Unescapes(81) /\ ~Unescapes(83) /\ ~Unescapes(88)
        /\ ~Unescapes(205) /\ ~Unescapes(209) /\ ~Unescapes(211)
    BY DEF Unescapes
  <2> QED BY <2>1 DEF Unescapable
<1> QED BY <1>1, <1>2 DEF REsc, Fail

\* The cases of ReadByte and readEscapeSequence.
LEMMA ByteCases ==
  ASSUME NEW c, RByte(c)
  PROVE  /\ c = ZDLE => Go("esc", 0)
         /\ c # ZDLE /\ c \in Flow => Go("byte", 0)
         /\ c # ZDLE /\ c \notin Flow => Take(c)
<1>1. CASE c = ZDLE
  <2>1. c \notin Flow
    BY <1>1 DEF ZDLE, Flow, XON, XOFF
  <2> QED BY <1>1, <2>1 DEF RByte
<1>2. CASE c # ZDLE /\ c \in Flow
  BY <1>2 DEF RByte
<1>3. CASE c # ZDLE /\ c \notin Flow
  BY <1>3 DEF RByte
<1> QED BY <1>1, <1>2, <1>3

LEMMA EscCases ==
  ASSUME NEW c, REsc(c)
  PROVE  /\ c = CAN => Go("can", 1)
         /\ c # CAN /\ c \in ZCRCE .. ZCRCW => Take(GOTOR + c)
         /\ c \in Flow => Go("esc", 0)
<1>1. /\ CAN \notin ZCRCE .. ZCRCW /\ CAN # ZRUB0 /\ CAN # ZRUB1 /\ CAN \notin Flow
      /\ ZRUB0 \notin ZCRCE .. ZCRCW /\ ZRUB1 \notin ZCRCE .. ZCRCW
      /\ \A e \in Flow : e \notin ZCRCE .. ZCRCW /\ e # ZRUB0 /\ e # ZRUB1 /\ e # CAN
  BY DEF Flow, XON, XOFF, CAN, ZCRCE, ZCRCW, ZRUB0, ZRUB1
<1>2. CASE c = CAN
  BY <1>1, <1>2 DEF REsc
<1>3. CASE c \in ZCRCE .. ZCRCW
  <2>1. c # CAN /\ c # ZRUB0 /\ c # ZRUB1 /\ c \notin Flow
    BY <1>1, <1>3
  <2> QED BY <1>3, <2>1 DEF REsc
<1>4. CASE c \in Flow
  <2>1. c \notin ZCRCE .. ZCRCW /\ c # ZRUB0 /\ c # ZRUB1 /\ c # CAN
    BY <1>1, <1>4
  <2> QED BY <1>4, <2>1 DEF REsc
<1> QED BY <1>1, <1>2, <1>3, <1>4

\* The reader keeps its place, whatever comes next: every case of ReadByte and
\* readEscapeSequence against every place it may stand at.
LEMMA ReadKeeps ==
  ASSUME TypeOK, WriterInv, ReaderInv, Faithful, Result, Read
  PROVE  ReaderInv' /\ Faithful' /\ Result'
<1> DEFINE L == Len(data)
           K == Len(crc)
           c == Head(wire)
<1>0. /\ res = "none" /\ wire # <<>> /\ wire \in Seq(Byte) /\ c \in Byte
      /\ wire' = Tail(wire)
      /\ RByte(c) \/ REsc(c) \/ RCan(c)
      /\ data' = data /\ end' = end /\ crc' = crc
      /\ sent' = sent /\ last' = last /\ esc' = esc /\ cancelled' = cancelled
  BY DEF Read, packet, writer, TypeOK
<1>1. PICK r \in Nat, m \in Nat : OnWire(r, m) /\ (InData(r) \/ InCrc(r) \/ InCans(r))
  BY <1>0 DEF ReaderInv
<1>2. /\ Spells(wire, r, m, Script)
      /\ r <= m
      /\ c \in Flow => Spells(wire', r, m, Script)
      /\ c \notin Flow =>
           <<r + 1, c>> \in Script /\ Spells(wire', r + 1, m, Script)
  BY <1>0, <1>1, SpellsTail DEF OnWire
<1>3. clear' = clear /\ Script' = Script /\ (Bytes(clear))' = Bytes(clear)
  BY <1>0 DEF clear, Script, Says, Bytes, Plain
<1>4. ASSUME NEW q \in Nat, Spells(wire', q, m, Script), res' = "none",
             InData(q)' \/ InCrc(q)' \/ InCans(q)'
      PROVE  ReaderInv' /\ Faithful' /\ Result'
  <2>1. OnWire(q, m)'
    BY <1>0, <1>1, <1>3, <1>4 DEF OnWire
  <2>2. ReaderInv'
    BY <1>4, <2>1 DEF ReaderInv
  <2>3. Faithful'
    <3>1. CASE InData(q)'
      BY <3>1 DEF InData, Faithful
    <3>2. CASE InCrc(q)'
      <4>1. Len(data) \in Nat
        BY DEF TypeOK
      <4> QED BY <1>0, <3>2, <4>1 DEF InCrc, Faithful
    <3>3. CASE InCans(q)'
      BY <3>3 DEF InCans, Faithful
    <3> QED BY <1>4, <3>1, <3>2, <3>3
  <2> QED BY <1>4, <2>2, <2>3 DEF Result
<1>5. ASSUME res' = "failed", out' = out, got' = got, crcin' = crcin,
             ~cancelled /\ L <= BufLen => esc = itemsRead + 1
      PROVE  ReaderInv' /\ Faithful' /\ Result'
  BY <1>0, <1>5 DEF ReaderInv, Faithful, Result, itemsRead
<1>6. /\ L \in Nat /\ K \in Nat /\ sent \in Nat /\ esc \in Nat
      /\ clear \in Nat /\ clear <= sent /\ clear <= L + K + 1
      /\ esc # 0 => esc = clear + 1
      /\ cancelled => sent <= L
      /\ esc # L + 1 /\ esc <= L + K + 1 /\ K > 0
      /\ Len(out) \in Nat /\ Len(crcin) \in Nat
      /\ Bytes(clear) = IF clear <= L THEN clear ELSE clear + 1
  <2>1. /\ L \in Nat /\ K \in Nat /\ sent \in Nat /\ esc \in Nat
        /\ clear \in Nat /\ clear <= sent /\ clear <= L + K + 1
        /\ esc # 0 => esc = clear + 1
    BY Counts
  <2>2. /\ cancelled => sent <= L
        /\ esc # L + 1 /\ esc <= L + K + 1 /\ K \in {2, 4}
    BY DEF WriterInv
  <2>3. Len(out) \in Nat /\ Len(crcin) \in Nat
    BY DEF TypeOK
  <2>4. Bytes(clear) = IF clear <= L THEN clear ELSE clear + 1
    BY DEF Bytes
  <2>5. K > 0
    BY <2>2
  <2> QED BY <2>1, <2>2, <2>3, <2>4, <2>5
<1>7. \A k \in Nat : <<k, c>> \in Script =>
        /\ k <= Bytes(clear) => c = Plain(k)
        /\ esc # 0 /\ k = Bytes(clear) + 1 => c = ZDLE
        /\ esc # 0 /\ k = Bytes(clear) + 2 => c \in Unescapable
        /\ esc = 0 /\ k > Bytes(clear) => cancelled /\ c = CAN
  BY DEF Script, Says
<1>8. CASE InCans(r)
  <2>1. cancelled /\ esc = 0 /\ r > clear /\ got \in {0, GOTOR + CAN} /\ cancelled'
    BY <1>0, <1>8 DEF InCans
  <2>2. c \in Flow \/ c = CAN
    <3>1. ~(c \in Flow) => r + 1 \in Nat /\ r + 1 > Bytes(clear)
      BY <1>6, <2>1
    <3> QED BY <1>2, <1>7, <2>1, <3>1
  <2>3. \E q \in Nat : q > clear /\ Spells(wire', q, m, Script)
    <3>1. r + 1 \in Nat /\ r + 1 > clear
      BY <1>6, <2>1
    <3> QED BY <1>2, <2>1, <3>1
  <2>4. ASSUME got' \in {0, GOTOR + CAN}, res' \in {"none", "failed"}
        PROVE  ReaderInv' /\ Faithful' /\ Result'
    <3>1. CASE res' = "none"
      <4>1. PICK q \in Nat : q > clear /\ Spells(wire', q, m, Script)
        BY <2>3
      <4>2. InCans(q)'
        BY <1>0, <1>3, <2>1, <2>4, <4>1 DEF InCans
      <4> QED BY <1>4, <3>1, <4>1, <4>2
    <3>2. CASE res' = "failed"
      BY <2>1, <3>2 DEF ReaderInv, Faithful, Result
    <3> QED BY <2>4, <3>1, <3>2
  <2>5. ASSUME NEW v \in {CAN, GOTOR + CAN}, Take(v)
        PROVE  got' \in {0, GOTOR + CAN} /\ res' \in {"none", "failed"}
    <3>0. CAN \in Byte /\ GOTOR + CAN \in GOTOR .. GOTOR + 255
      BY DEF CAN, Byte, GOTOR
    <3>1. CASE got = 0 /\ v = CAN
      BY <1>0, <2>5, <3>0, <3>1, TakesData
    <3>2. CASE got = 0 /\ v = GOTOR + CAN
      BY <1>0, <2>5, <3>0, <3>2, TakesEnd
    <3>3. CASE got # 0
      <4>1. got' = got /\ got = GOTOR + CAN
        BY <2>1, <2>5, <3>0, <3>3, TakesCrc
      <4>2. GOTOR + CAN # GOTOR + end
        <5>1. end \in 104 .. 107
          BY SubpacketAssumption DEF SubpacketAssumption, TypeOK, ZCRCE, ZCRCW
        <5> QED BY <5>1 DEF GOTOR, CAN
      <4>3. <<out, got, crcin'>> # <<data, GOTOR + end, crc>>
        BY <4>1, <4>2
      <4> QED BY <2>5, <3>0, <3>3, <4>1, <4>3, TakesCrc
    <3> QED BY <2>5, <3>1, <3>2, <3>3
  <2>6. ASSUME NEW pc, NEW n, Go(pc, n)
        PROVE  got' \in {0, GOTOR + CAN} /\ res' \in {"none", "failed"}
    BY <1>0, <2>1, <2>6 DEF Go
  <2>7. got' \in {0, GOTOR + CAN} /\ res' \in {"none", "failed"}
    <3>1. ZDLE = CAN /\ CAN \notin Flow
      BY SpecialBytes
    <3>3. CASE RByte(c)
      BY <2>2, <2>6, <3>1, <3>3, ByteCases
    <3>4. CASE REsc(c)
      BY <2>2, <2>6, <3>4, EscCases
    <3>5. CASE RCan(c)
      BY <2>5, <2>6, <3>5 DEF RCan
    <3> QED BY <1>0, <3>3, <3>4, <3>5
  <2> QED BY <2>4, <2>7
<1>9. CASE c \in Flow /\ ~InCans(r)
  <2>1. /\ rpc' = rpc /\ out' = out /\ got' = got /\ crcin' = crcin /\ res' = "none"
        /\ rpc \in {"byte", "esc"}
    <3>1. rpc \in {"byte", "esc"}
      BY <1>1, <1>9 DEF InData, InCrc
    <3>2. c # ZDLE
      BY <1>9, SpecialBytes
    <3>3. CASE RByte(c)
      BY <1>0, <1>9, <3>2, <3>3, ByteCases DEF Go, RByte
    <3>4. CASE REsc(c)
      BY <1>0, <1>9, <3>4, EscCases DEF Go, REsc
    <3>5. ~RCan(c)
      BY <3>1 DEF RCan
    <3> QED BY <1>0, <3>1, <3>3, <3>4, <3>5
  <2>2. InData(r)' \/ InCrc(r)'
    <3>1. CASE InData(r)
      BY <1>0, <1>3, <2>1, <3>1 DEF InData
    <3>2. CASE InCrc(r)
      BY <1>0, <1>3, <2>1, <3>2 DEF InCrc
    <3> QED BY <1>1, <1>9, <3>1, <3>2
  <2> QED BY <1>2, <1>4, <1>9, <2>1, <2>2
<1>10. CASE c \notin Flow /\ InData(r) /\ rpc = "byte"
  <2>1. /\ got = 0 /\ crcin = <<>> /\ r = Len(out) /\ r <= clear /\ r <= L
        /\ \A i \in 1 .. Len(out) : out[i] = data[i]
        /\ r + 1 \in Nat
    BY <1>10 DEF InData
  <2>2. RByte(c)
    BY <1>0, <1>10 DEF REsc, RCan
  <2>3. /\ r + 1 <= Bytes(clear) => c = Plain(r + 1)
        /\ esc # 0 /\ r + 1 = Bytes(clear) + 1 => c = ZDLE
        /\ esc = 0 /\ r + 1 > Bytes(clear) => cancelled /\ c = CAN
    BY <1>2, <1>7, <1>10, <2>1
  <2>4. ASSUME c = ZDLE,
               \/ esc = r + 1
               \/ r = L /\ clear > r
               \/ cancelled /\ esc = 0 /\ clear = r
        PROVE  InData(r + 1)' /\ res' = "none"
    <3>1. rpc' = "esc" /\ out' = out /\ got' = got /\ crcin' = crcin /\ res' = "none"
      BY <1>0, <2>2, <2>4, ByteCases DEF Go
    <3> QED BY <1>0, <1>3, <2>1, <2>4, <3>1 DEF InData
  <2>5. CASE r + 1 <= Bytes(clear) /\ r + 1 <= L
    <3>1. r + 1 <= clear /\ r + 1 \in 1 .. clear /\ Bytes(r + 1) = r + 1 /\ r + 1 # L + 1
      BY <1>6, <2>1, <2>5 DEF Bytes
    <3>2. c = data[r + 1]
      BY <1>6, <2>3, <2>5 DEF Plain
    <3>3. c # ZDLE
      <4>1. Plain(Bytes(r + 1)) \notin Flow \cup {ZDLE}
        BY <3>1 DEF WriterInv
      <4> QED BY <2>3, <2>5, <3>1, <4>1
    <3>4. Take(c)
      BY <1>10, <2>2, <3>3, ByteCases
    <3>5. CASE Len(out) < BufLen
      <4>1. /\ rpc' = "byte" /\ got' = 0 /\ crcin' = <<>> /\ res' = "none"
            /\ Len(out') = r + 1 /\ out'[r + 1] = c
            /\ \A i \in 1 .. r : out'[i] = out[i]
        BY <1>0, <1>6, <2>1, <3>4, <3>5, TakesData, SubpacketAssumption
           DEF SubpacketAssumption
      <4>2. \A i \in 1 .. Len(out') : out'[i] = data[i]
        BY <1>6, <2>1, <3>2, <4>1
      <4>3. InData(r + 1)'
        BY <1>0, <1>3, <2>5, <3>1, <4>1, <4>2 DEF InData
      <4> QED BY <1>2, <1>4, <1>10, <2>1, <4>1, <4>3
    <3>6. CASE ~(Len(out) < BufLen)
      <4>1. res' = "failed" /\ out' = out /\ got' = got /\ crcin' = crcin
        BY <1>0, <2>1, <3>4, <3>6, TakesData
      <4>2. ~(L <= BufLen)
        BY <1>6, <2>1, <2>5, <3>6, SubpacketAssumption DEF SubpacketAssumption
      <4> QED BY <1>5, <4>1, <4>2
    <3> QED BY <3>5, <3>6
  <2>6. CASE r + 1 <= Bytes(clear) /\ ~(r + 1 <= L)
    <3>1. r = L /\ clear > r
      BY <1>6, <2>1, <2>6
    <3>2. c = ZDLE
      BY <1>6, <2>3, <2>6, <3>1 DEF Plain
    <3> QED BY <1>2, <1>4, <1>10, <2>1, <2>4, <3>1, <3>2
  <2>7. CASE ~(r + 1 <= Bytes(clear))
    <3>1. Bytes(clear) = clear /\ clear = r /\ r + 1 = Bytes(clear) + 1 /\ r + 1 > Bytes(clear)
      BY <1>6, <2>1, <2>7
    <3>2. c = ZDLE /\ (esc = r + 1 \/ (cancelled /\ esc = 0 /\ clear = r))
      <4>1. CASE esc # 0
        BY <1>6, <2>3, <3>1, <4>1
      <4>2. CASE esc = 0
        BY <2>3, <3>1, <4>2, SpecialBytes
      <4> QED BY <4>1, <4>2
    <3> QED BY <1>2, <1>4, <1>10, <2>1, <2>4, <3>2
  <2> QED BY <2>5, <2>6, <2>7
<1>11. CASE c \notin Flow /\ InData(r) /\ rpc = "esc"
  <2>1. /\ got = 0 /\ crcin = <<>> /\ r = Len(out) + 1
        /\ Len(out) <= clear /\ Len(out) <= L
        /\ \A i \in 1 .. Len(out) : out[i] = data[i]
        /\ r + 1 \in Nat
        /\ \/ esc = Len(out) + 1
           \/ Len(out) = L /\ clear > Len(out)
           \/ cancelled /\ esc = 0 /\ clear = Len(out)
    BY <1>11 DEF InData
  <2>2. REsc(c)
    BY <1>0, <1>11 DEF RByte, RCan
  <2>3. /\ r + 1 <= Bytes(clear) => c = Plain(r + 1)
        /\ esc # 0 /\ r + 1 = Bytes(clear) + 2 => c \in Unescapable
        /\ esc = 0 /\ r + 1 > Bytes(clear) => cancelled /\ c = CAN
    BY <1>2, <1>7, <1>11, <2>1
  <2>4. CASE esc = Len(out) + 1
    <3>1. esc # 0 /\ Bytes(clear) = Len(out) /\ r + 1 = Bytes(clear) + 2
      BY <1>6, <2>1, <2>4
    <3>2. res' = "failed" /\ out' = out /\ got' = got /\ crcin' = crcin
      BY <2>2, <2>3, <3>1, UnescapableFails
    <3>3. esc = itemsRead + 1
      BY <1>6, <2>1, <2>4 DEF itemsRead
    <3> QED BY <1>5, <3>2, <3>3
  <2>5. CASE Len(out) = L /\ clear > Len(out)
    <3>1. r + 1 = L + 2 /\ r + 1 <= Bytes(clear)
      BY <1>6, <2>1, <2>5
    <3>2. c = end
      BY <1>6, <2>3, <3>1 DEF Plain
    <3>3. end \in Byte /\ end \in ZCRCE .. ZCRCW /\ end # CAN
      BY SpecialBytes, SubpacketAssumption DEF SubpacketAssumption, TypeOK
    <3>4. Take(GOTOR + end)
      BY <2>2, <3>2, <3>3, EscCases
    <3>5. /\ rpc' = "byte" /\ got' = GOTOR + end
          /\ out' = out /\ crcin' = <<>> /\ res' = "none"
      BY <1>0, <2>1, <3>3, <3>4, TakesEnd
    <3>6. out = data
      BY <2>1, <2>5, SeqEqual DEF TypeOK
    <3>7. InCrc(r + 1)'
      <4>1. Len(crcin') = 0 /\ L + 1 + 0 <= clear /\ r + 1 = L + 2 + 0
        BY <1>6, <2>1, <2>5, <3>1, <3>5
      <4> QED BY <1>0, <1>3, <1>6, <3>5, <3>6, <4>1 DEF InCrc
    <3> QED BY <1>2, <1>4, <1>11, <2>1, <3>5, <3>7
  <2>6. CASE cancelled /\ esc = 0 /\ clear = Len(out)
    <3>1. r + 1 > Bytes(clear) /\ r + 1 > clear
      BY <1>6, <2>1, <2>6
    <3>2. c = CAN
      BY <2>3, <2>6, <3>1
    <3>3. got' = got /\ res' = "none"
      BY <1>0, <2>2, <3>2, EscCases DEF Go
    <3>4. InCans(r + 1)'
      BY <1>0, <1>3, <2>1, <2>6, <3>1, <3>3 DEF InCans
    <3> QED BY <1>2, <1>4, <1>11, <2>1, <3>3, <3>4
  <2> QED BY <2>1, <2>4, <2>5, <2>6
<1>12. CASE c \notin Flow /\ InCrc(r) /\ rpc = "byte"
  <2> DEFINE n == Len(crcin)
  <2>1. /\ got = GOTOR + end /\ out = data /\ n < K /\ L + 1 + n <= clear
        /\ r = L + 2 + n /\ r + 1 \in Nat
        /\ \A i \in 1 .. n : crcin[i] = crc[i]
    BY <1>12 DEF InCrc
  <2>2. RByte(c) /\ got # 0
    <3>1. end \in Nat
      BY SubpacketAssumption DEF SubpacketAssumption, TypeOK, ZCRCE, ZCRCW
    <3> QED BY <1>0, <1>12, <2>1, <3>1 DEF REsc, RCan, GOTOR
  <2>3. /\ r + 1 <= Bytes(clear) => c = Plain(r + 1)
        /\ esc # 0 /\ r + 1 = Bytes(clear) + 1 => c = ZDLE
        /\ esc = 0 /\ r + 1 > Bytes(clear) => cancelled /\ c = CAN
    BY <1>2, <1>7, <1>12, <2>1
  <2>4. ~cancelled /\ Bytes(clear) = clear + 1
    BY <1>6, <2>1
  <2>5. CASE r + 1 <= Bytes(clear)
    <3>1. /\ L + 2 + n <= clear /\ L + 2 + n \in 1 .. clear
          /\ Bytes(L + 2 + n) = r + 1 /\ L + 2 + n # L + 1
      BY <1>6, <2>1, <2>4, <2>5 DEF Bytes
    <3>2. c = crc[n + 1]
      <4>1. ~(r + 1 <= L) /\ r + 1 # L + 1 /\ r + 1 # L + 2 /\ (r + 1) - (L + 2) = n + 1
        BY <1>6, <2>1
      <4> QED BY <2>3, <2>5, <4>1 DEF Plain
    <3>3. c # ZDLE
      <4>1. Plain(Bytes(L + 2 + n)) \notin Flow \cup {ZDLE}
        BY <3>1 DEF WriterInv
      <4> QED BY <2>3, <2>5, <3>1, <4>1
    <3>4. Take(c)
      BY <1>12, <2>2, <3>3, ByteCases
    <3>5. /\ rpc' = "byte" /\ got' = got /\ out' = out
          /\ Len(crcin') = n + 1 /\ crcin'[n + 1] = c /\ crcin' \in Seq(Byte)
          /\ \A i \in 1 .. n : crcin'[i] = crcin[i]
          /\ res' = IF Len(crcin') < Len(crc) THEN "none"
                    ELSE IF <<out, got, crcin'>> = <<data, GOTOR + end, crc>> THEN "ok"
                    ELSE "failed"
      BY <1>0, <2>2, <3>4, TakesCrc
    <3>6. \A i \in 1 .. n + 1 : crcin'[i] = crc[i]
      <4>1. \A i \in 1 .. n + 1 : i \in 1 .. n \/ i = n + 1
        BY <1>6
      <4>2. \A i \in 1 .. n : crcin[i] = crc[i] /\ crcin'[i] = crcin[i]
        BY <2>1, <3>5
      <4> QED BY <3>2, <3>5, <4>1, <4>2
    <3>7. CASE n + 1 < K
      <4>1. L + 1 + (n + 1) <= clear /\ r + 1 = L + 2 + (n + 1)
        BY <1>6, <2>1, <3>1
      <4>2. InCrc(r + 1)'
        BY <1>0, <1>3, <2>1, <3>5, <3>6, <3>7, <4>1 DEF InCrc
      <4> QED BY <1>2, <1>4, <1>12, <2>1, <3>5, <3>7, <4>2
    <3>8. CASE ~(n + 1 < K)
      <4>1. n + 1 = K
        BY <1>6, <2>1, <3>8
      <4>2. crcin' = crc
        <5>1. crc \in Seq(Byte)
          BY DEF TypeOK
        <5> QED BY <3>5, <3>6, <4>1, <5>1, SeqEqual
      <4>3. res' = "ok"
        BY <2>1, <3>5, <3>8, <4>1, <4>2
      <4>4. esc = 0 /\ sent > L + K
        BY <1>6, <2>1, <3>1, <4>1
      <4>5. ReaderInv'
        BY <4>3 DEF ReaderInv
      <4>6. Faithful'
        BY <1>0, <2>1, <3>5 DEF Faithful
      <4>7. Result'
        BY <1>0, <2>4, <4>3, <4>4 DEF Result
      <4> QED BY <4>5, <4>6, <4>7
    <3> QED BY <3>7, <3>8
  <2>6. CASE ~(r + 1 <= Bytes(clear))
    <3>1. r = Bytes(clear) /\ r + 1 = Bytes(clear) + 1 /\ r + 1 > Bytes(clear)
      <4>1. L \in Nat /\ n \in Nat /\ clear \in Nat /\ r = L + 2 + n /\ L + 1 + n <= clear
        BY <1>6, <2>1
      <4> QED BY <2>4, <2>6, <4>1
    <3>2. esc # 0 /\ c = ZDLE /\ esc = L + 2 + n
      <4>1. esc # 0
        BY <2>3, <2>4, <3>1
      <4> QED BY <1>6, <2>1, <2>3, <2>4, <3>1, <4>1
    <3>3. rpc' = "esc" /\ out' = out /\ got' = got /\ crcin' = crcin /\ res' = "none"
      BY <1>0, <2>2, <3>2, ByteCases DEF Go
    <3>4. InCrc(r + 1)'
      <4>1. r + 1 = L + 3 + n
        BY <1>6, <2>1
      <4> QED BY <1>0, <1>3, <2>1, <3>2, <3>3, <4>1 DEF InCrc
    <3> QED BY <1>2, <1>4, <1>12, <2>1, <3>3, <3>4
  <2> QED BY <2>5, <2>6
<1>13. CASE c \notin Flow /\ InCrc(r) /\ rpc = "esc"
  <2> DEFINE n == Len(crcin)
  <2>1. /\ got = GOTOR + end /\ out = data /\ n < K /\ L + 1 + n <= clear
        /\ r = L + 3 + n /\ esc = L + 2 + n /\ r + 1 \in Nat
    BY <1>13 DEF InCrc
  <2>2. REsc(c) /\ got # 0
    <3>1. end \in Nat
      BY SubpacketAssumption DEF SubpacketAssumption, TypeOK, ZCRCE, ZCRCW
    <3> QED BY <1>0, <1>13, <2>1, <3>1 DEF RByte, RCan, GOTOR
  <2>3. esc # 0 /\ r + 1 = Bytes(clear) + 2
    BY <1>6, <2>1
  <2>4. c \in Unescapable
    BY <1>2, <1>7, <1>13, <2>1, <2>3
  <2>5. res' = "failed" /\ out' = out /\ got' = got /\ crcin' = crcin
    BY <2>2, <2>4, UnescapableFails
  <2>6. esc = itemsRead + 1
    BY <1>6, <2>1, <2>2 DEF itemsRead
  <2> QED BY <1>5, <2>5, <2>6
<1> QED
  BY <1>1, <1>8, <1>9, <1>10, <1>11, <1>12, <1>13 DEF InData, InCrc

LEMMA CodecNext ==
  ASSUME TypeOK, CodecInv, [Next]_vars
  PROVE  CodecInv'
<1>0. WriterInv /\ ReaderInv /\ Faithful /\ Result
  BY DEF CodecInv
<1>1. CASE Write
  <2>1. /\ WriterInv' /\ clear' >= clear /\ clear \in Nat /\ clear' \in Int
        /\ esc # 0 => esc' = esc
        /\ \A r, m \in Nat : OnWire(r, m) => \E m2 \in Nat : OnWire(r, m2)'
    <3>1. TypeOK'
      BY <1>1, TypeWrite
    <3>2. clear' \in Int
      BY <3>1 DEF clear, TypeOK
    <3> QED BY <1>0, <1>1, <3>2, WriteKeeps, Counts
  <2>2. /\ data' = data /\ end' = end /\ crc' = crc /\ ~cancelled /\ cancelled' = cancelled
        /\ sent' = sent + 1 /\ sent \in Nat
        /\ rpc' = rpc /\ out' = out /\ got' = got /\ crcin' = crcin /\ res' = res
    BY <1>1 DEF Write, packet, reader, TypeOK
  <2>3. \A r \in Nat : (InData(r) => InData(r)') /\ (InCrc(r) => InCrc(r)') /\ ~InCans(r)
    <3>1. /\ Len(out) \in Nat /\ Len(crcin) \in Nat /\ Len(data) \in Nat
          /\ esc \in Nat
      BY DEF TypeOK
    <3>2. \A x \in Nat : /\ x <= clear => x <= clear'
                         /\ clear > x => clear' > x
      BY <2>1
    <3>3. ASSUME NEW r \in Nat, InData(r) PROVE InData(r)'
      <4>1. /\ got = 0 /\ crcin = <<>> /\ Len(out) <= clear' /\ Len(out) <= Len(data)
            /\ \A i \in 1 .. Len(out) : out[i] = data[i]
        BY <3>1, <3>2, <3>3 DEF InData
      <4>2. \/ rpc = "byte" /\ r = Len(out)
            \/ /\ rpc = "esc" /\ r = Len(out) + 1
               /\ \/ esc' = Len(out) + 1
                  \/ Len(out) = Len(data) /\ clear' > Len(out)
        <5>1. esc = Len(out) + 1 => esc' = Len(out) + 1
          BY <2>1, <3>1
        <5> QED BY <2>2, <3>1, <3>2, <3>3, <5>1 DEF InData
      <4> QED BY <2>2, <4>1, <4>2 DEF InData
    <3>4. ASSUME NEW r \in Nat, InCrc(r) PROVE InCrc(r)'
      <4>1. Len(data) + 1 + Len(crcin) <= clear'
        BY <3>1, <3>2, <3>4 DEF InCrc
      <4>2. esc = Len(data) + 2 + Len(crcin) => esc' = Len(data) + 2 + Len(crcin)
        BY <2>1, <3>1
      <4> QED BY <2>2, <3>4, <4>1, <4>2 DEF InCrc
    <3>5. \A r \in Nat : ~InCans(r)
      BY <2>2 DEF InCans
    <3> QED BY <3>3, <3>4, <3>5
  <2>4. ReaderInv'
    <3>1. ASSUME res = "none"
          PROVE  \E r, m \in Nat : (OnWire(r, m) /\ (InData(r) \/ InCrc(r) \/ InCans(r)))'
      <4>1. PICK r \in Nat, m \in Nat : OnWire(r, m) /\ (InData(r) \/ InCrc(r) \/ InCans(r))
        BY <1>0, <3>1 DEF ReaderInv
      <4>2. PICK m2 \in Nat : OnWire(r, m2)'
        BY <2>1, <4>1
      <4> QED BY <2>3, <4>1, <4>2
    <3> QED BY <2>2, <3>1 DEF ReaderInv
  <2>5. Faithful'
    BY <1>0, <2>2 DEF Faithful
  <2>6. Result'
    <3>1. itemsRead' = itemsRead /\ itemsRead \in Nat
      BY <2>2 DEF itemsRead, TypeOK
    <3>2. res = "failed" /\ ~cancelled /\ Len(data) <= BufLen => esc' = itemsRead + 1
      BY <1>0, <2>1, <3>1 DEF Result
    <3>3. res = "ok" => esc' = 0
      <4>1. ASSUME res = "ok" PROVE esc' = 0
        <5>1. esc = 0 /\ sent > Len(data) + Len(crc)
          BY <1>0, <4>1 DEF Result
        <5>2. Len(data) \in Nat /\ Len(crc) \in Nat
          BY DEF TypeOK
        <5> HIDE DEF TypeOK
        <5>3. ~(sent <= Len(data) + Len(crc))
          BY <2>2, <5>1, <5>2
        <5> QED BY <1>0, <1>1, <5>1, <5>3, WriteKinds DEF WritesPlain, WritesEscaped, WritesXon
      <4> QED BY <4>1
    <3>4. sent > Len(data) + Len(crc) => sent + 1 > Len(data) + Len(crc)
      <4>1. Len(data) \in Nat /\ Len(crc) \in Nat
        BY DEF TypeOK
      <4> QED BY <2>2, <4>1
    <3> QED BY <1>0, <2>2, <3>1, <3>2, <3>3, <3>4 DEF Result
  <2> QED BY <2>1, <2>4, <2>5, <2>6 DEF CodecInv
<1>2. CASE Cancel
  <2>1. /\ ~cancelled /\ cancelled' /\ sent <= Len(data)
        /\ wire' = wire \o [i \in 1 .. 8 |-> CAN]
        /\ data' = data /\ end' = end /\ crc' = crc /\ sent' = sent /\ esc' = esc
        /\ rpc' = rpc /\ out' = out /\ got' = got /\ crcin' = crcin /\ res' = res
    BY <1>2 DEF Cancel, WriteRaw, packet, reader
  <2>2. /\ clear' = clear /\ (Bytes(clear))' = Bytes(clear)
        /\ \A k : (Plain(k))' = Plain(k) /\ (Plain(Bytes(k)))' = Plain(Bytes(k))
    BY <2>1 DEF clear, Plain, Bytes
  <2>3. WriterInv'
    BY <1>0, <2>1, <2>2 DEF WriterInv
  <2>4. ASSUME NEW r \in Nat, NEW m \in Nat, OnWire(r, m)
        PROVE  m + 8 \in Nat /\ OnWire(r, m + 8)'
    <3> DEFINE cs == [i \in 1 .. 8 |-> CAN]
               B == Bytes(clear)
    <3>1. CAN \in Byte /\ CAN \notin Flow
      BY SpecialBytes
    <3>2. cs \in Seq(Byte) /\ Len(cs) = 8 /\ \A i \in 1 .. 8 : cs[i] = CAN
      <4>1. cs \in [1 .. 8 -> Byte]
        BY <3>1
      <4> QED BY <4>1, SeqDef
    <3> HIDE DEF cs
    <3>3. /\ B \in Nat /\ clear \in Nat /\ wire \in Seq(Byte) /\ Len(wire) \in Nat
      <4>1. wire \in Seq(Byte) /\ Len(wire) \in Nat
        BY DEF TypeOK
      <4> QED BY <1>0, <4>1, Counts
    <3>4. /\ Spells(wire, r, m, Script) /\ (esc = 0 => m = B) /\ (esc # 0 => m >= B + 2)
      BY <2>1, <2>4 DEF OnWire
    <3> HIDE DEF B
    <3>5. \A k \in Nat : \A c : k <= m /\ <<k, c>> \in Script => <<k, c>> \in Script'
      BY <2>1, <2>2 DEF Script, Says
    <3>6. Spells(wire, r, m, Script')
      BY <3>3, <3>4, <3>5, SpellsMore
    <3>7. ASSUME NEW i \in 1 .. Len(cs)
          PROVE  cs[i] \notin Flow /\ <<m + i, cs[i]>> \in Script'
      <4>1. cs[i] = CAN /\ m + i \in Nat
        BY <3>2
      <4>2. ~(m + i <= B) /\ (esc # 0 => m + i # B + 1 /\ m + i # B + 2)
        BY <3>2, <3>3, <3>4
      <4> QED BY <2>1, <2>2, <3>1, <4>1, <4>2 DEF Script, Says, B
    <3>8. Spells(wire', r, m + Len(cs), Script')
      BY <2>1, <3>2, <3>3, <3>6, <3>7, SpellsConcat DEF cs
    <3>9. m + 8 \in Nat /\ (esc # 0 => m + 8 >= B + 2)
      BY <3>3, <3>4
    <3> QED BY <2>1, <2>2, <3>2, <3>8, <3>9 DEF OnWire, B
  <2>5. ReaderInv'
    <3>1. ASSUME res = "none"
          PROVE  \E r, m \in Nat : (OnWire(r, m) /\ (InData(r) \/ InCrc(r) \/ InCans(r)))'
      <4>1. PICK r \in Nat, m \in Nat : OnWire(r, m) /\ (InData(r) \/ InCrc(r) \/ InCans(r))
        BY <1>0, <3>1 DEF ReaderInv
      <4>2. InData(r)' \/ InCrc(r)' \/ InCans(r)'
        BY <2>1, <2>2, <4>1 DEF InData, InCrc, InCans
      <4> QED BY <2>4, <4>1, <4>2
    <3> QED BY <2>1, <3>1 DEF ReaderInv
  <2>6. Faithful' /\ Result'
    <3>1. res = "ok" => ~(sent <= Len(data))
      BY <1>0 DEF Result, TypeOK
    <3> QED BY <1>0, <2>1, <3>1 DEF Faithful, Result
  <2> QED BY <2>3, <2>5, <2>6 DEF CodecInv
<1>3. CASE FlowControl
  <2>1. PICK i \in 1 .. Len(wire) + 1, c \in {XON, XOFF} : wire' = InsertAt(wire, i, c)
    BY <1>3 DEF FlowControl
  <2>2. c \in Byte \cap Flow
    BY DEF XON, XOFF, Byte, Flow
  <2>3. /\ data' = data /\ end' = end /\ crc' = crc /\ sent' = sent /\ esc' = esc
        /\ cancelled' = cancelled
        /\ rpc' = rpc /\ out' = out /\ got' = got /\ crcin' = crcin /\ res' = res
    BY <1>3 DEF FlowControl, packet, writer, reader
  <2>4. clear' = clear /\ Script' = Script /\ (Bytes(clear))' = Bytes(clear)
    BY <2>3 DEF clear, Script, Says, Plain, Bytes
  <2>5. ASSUME NEW r \in Nat, NEW m \in Nat, OnWire(r, m) PROVE OnWire(r, m)'
    <3>1. wire \in Seq(Byte)
      BY DEF TypeOK
    <3>2. Spells(wire', r, m, Script)
      BY <2>1, <2>2, <2>5, <3>1, SpellsInsert DEF OnWire
    <3> QED BY <2>3, <2>4, <2>5, <3>2 DEF OnWire
  <2>6. \A r \in Nat : (InData(r)' <=> InData(r)) /\ (InCrc(r)' <=> InCrc(r))
                       /\ (InCans(r)' <=> InCans(r))
    BY <2>3, <2>4 DEF InData, InCrc, InCans
  <2>7. ReaderInv'
    <3>1. ASSUME res = "none"
          PROVE  \E r, m \in Nat : (OnWire(r, m) /\ (InData(r) \/ InCrc(r) \/ InCans(r)))'
      <4>1. PICK r \in Nat, m \in Nat : OnWire(r, m) /\ (InData(r) \/ InCrc(r) \/ InCans(r))
        BY <1>0, <3>1 DEF ReaderInv
      <4> QED BY <2>5, <2>6, <4>1
    <3> QED BY <2>3, <3>1 DEF ReaderInv
  <2>8. WriterInv' /\ Faithful' /\ Result'
    BY <1>0, <2>3 DEF WriterInv, clear, Plain, Bytes, Faithful, Result, itemsRead
  <2> QED BY <2>7, <2>8 DEF CodecInv
<1>4. CASE Read
  <2>1. WriterInv'
    BY <1>0, <1>4 DEF Read, packet, writer, WriterInv, clear, Plain, Bytes
  <2> QED BY <1>0, <1>4, <2>1, ReadKeeps DEF CodecInv
<1>5. CASE UNCHANGED vars
  <2>1. /\ data' = data /\ end' = end /\ crc' = crc /\ sent' = sent /\ esc' = esc
        /\ cancelled' = cancelled /\ wire' = wire
        /\ rpc' = rpc /\ cans' = cans
        /\ out' = out /\ got' = got /\ crcin' = crcin /\ res' = res
    BY <1>5 DEF vars, packet, writer, reader
  <2>2. clear' = clear /\ Script' = Script /\ (Bytes(clear))' = Bytes(clear)
    BY <2>1 DEF clear, Script, Says, Plain, Bytes
  <2>3. \A r \in Nat : (InData(r)' <=> InData(r)) /\ (InCrc(r)' <=> InCrc(r))
                       /\ (InCans(r)' <=> InCans(r))
    BY <2>1, <2>2 DEF InData, InCrc, InCans
  <2>4. \A r, m \in Nat : OnWire(r, m)' <=> OnWire(r, m)
    BY <2>1, <2>2 DEF OnWire
  <2>5. ReaderInv'
    <3>1. ASSUME res = "none"
          PROVE  \E r, m \in Nat : (OnWire(r, m) /\ (InData(r) \/ InCrc(r) \/ InCans(r)))'
      <4>1. PICK r \in Nat, m \in Nat : OnWire(r, m) /\ (InData(r) \/ InCrc(r) \/ InCans(r))
        BY <1>0, <3>1 DEF ReaderInv
      <4> QED BY <2>3, <2>4, <4>1
    <3> QED BY <2>1, <3>1 DEF ReaderInv
  <2>6. WriterInv' /\ Faithful' /\ Result'
    BY <1>0, <2>1 DEF WriterInv, clear, Plain, Bytes, Faithful, Result, itemsRead
  <2> QED BY <2>5, <2>6 DEF CodecInv
<1> QED BY <1>1, <1>2, <1>3, <1>4, <1>5 DEF Next, Done

LEMMA CodecInvariant == Spec => []CodecInv
<1>1. TypeOK /\ CodecInv /\ [Next]_vars => CodecInv'
  BY CodecNext
<1> QED BY <1>1, CodecInit, TypeCorrect, PTL DEF Spec

\* Transparency: however flow control is strewn among the bytes, what zrdata has
\* read is the beginning of the data, and a frame end is read where it was
\* written (escape.go:208-304, frame.go:548-620).
THEOREM PrefixIsRead == Spec => []ReadsPrefix
<1>1. TypeOK /\ CodecInv => ReadsPrefix
  <2> SUFFICES ASSUME TypeOK, CodecInv, ~cancelled
               PROVE  IsPrefix(out, data) /\ (got # 0 => out = data /\ got = GOTOR + end)
    BY DEF ReadsPrefix
  <2>1. /\ out \in Seq(Byte) /\ data \in Seq(Byte)
        /\ Len(out) \in Nat /\ Len(data) \in Nat /\ Len(out) <= Len(data)
        /\ \A i \in 1 .. Len(out) : out[i] = data[i]
        /\ got # 0 => out = data /\ got = GOTOR + end
    BY DEF TypeOK, CodecInv, Faithful
  <2> DEFINE s == SubSeq(out, 1, Len(out))
             t == SubSeq(data, 1, Len(out))
  <2>2. /\ s \in Seq(Byte) /\ Len(s) = Len(out)
        /\ \A i \in 1 .. Len(out) : s[i] = out[i]
    <3>1. \A i \in 1 .. Len(out) : out[i] \in Byte
      BY <2>1
    <3> QED BY <2>1, <3>1, SubSeqProperties
  <2>3. /\ t \in Seq(Byte) /\ Len(t) = Len(out)
        /\ \A i \in 1 .. Len(out) : t[i] = data[i]
    <3>1. \A i \in 1 .. Len(out) : data[i] \in Byte
      BY <2>1
    <3> QED BY <2>1, <3>1, SubSeqProperties
  <2>4. s = t
    <3> HIDE DEF s, t
    <3> QED BY <2>1, <2>2, <2>3, SeqEqual
  <2> QED BY <2>1, <2>4 DEF IsPrefix
<1> QED BY <1>1, CodecInvariant, TypeCorrect, PTL

\* A read that fails has stopped at the first item that was written escaped,
\* with everything before it read, and one that succeeds was of a subpacket
\* without an escape: what ZLine takes zrdata for (escape.go:280-304,
\* frame.go:548-620).
THEOREM EscapeStopsRead == Spec => []StopsAtEscape
<1>1. CodecInv => StopsAtEscape
  BY DEF CodecInv, Result, StopsAtEscape
<1> QED BY <1>1, CodecInvariant, PTL
=============================================================================
