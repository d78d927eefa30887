----------------------------- MODULE ZSubpacket -----------------------------
(***************************************************************************)
(* One data subpacket byte by byte: zsdata (zmodem/frame.go) writes it     *)
(* through zsendlineEscaper, zrdata reads it through zdlreadUnescaper      *)
(* (zmodem/escape.go), and the line may put XON and XOFF anywhere between. *)
(* ZLine takes a subpacket as a whole; this module is what says which      *)
(* subpackets are read back and where the reading of the others stops.     *)
(***************************************************************************)
EXTENDS Integers, Sequences, SequencesExt

CONSTANTS
  DataBytes, CrcBytes,  \* the bytes that data and CRC are made of
  Ends,                 \* the frame ends used
  MaxLen,               \* longest data
  BufLen,               \* len(buf) of zrdata
  MaxFlow,              \* flow control bytes the line puts in
  MayCancel             \* the writer may give up and send eight CANs

Byte == 0 .. 255
ZDLE == 24
CAN == 24
XON == 17
XOFF == 19
At == 64
CR == 13
ZCRCE == 104
ZCRCW == 107
ZRUB0 == 108
ZRUB1 == 109
GOTOR == 1024
Flow == {XON, XOFF, XON + 128, XOFF + 128}

ASSUME SubpacketAssumption ==
  /\ DataBytes \subseteq Byte /\ CrcBytes \subseteq Byte
  /\ Ends \subseteq ZCRCE .. ZCRCW
  /\ {MaxLen, BufLen, MaxFlow} \subseteq Nat /\ MayCancel \in BOOLEAN

VARIABLES
  data, end, crc,  \* the subpacket; the CRC has two bytes or four
  sent,            \* bytes of it that were written
  last,            \* lastSent
  esc,             \* history: the first item of it written escaped, or 0
  wire,            \* bytes on their way
  flow,            \* flow control bytes put in so far
  cancelled,       \* the writer gave up
  rpc,             \* where the unescaper is
  cans,            \* CANs seen in a row
  out, got, crcin, \* what zrdata read: data, frame end or 0, CRC
  res              \* what zrdata returned

packet == <<data, end, crc>>
writer == <<sent, last, esc, cancelled>>
reader == <<rpc, cans, out, got, crcin, res>>
vars == <<packet, writer, wire, flow, reader>>

use32 == Len(crc) = 4

\* Among the types: zrdata never stores more than its buffer holds, and a frame
\* end is never stored as a byte (frame.go:548-620).
TypeOK ==
  /\ data \in Seq(Byte) /\ end \in Ends /\ crc \in Seq(Byte)
  /\ sent \in Nat /\ last \in Byte /\ esc \in Nat /\ wire \in Seq(Byte)
  /\ flow \in 0 .. MaxFlow /\ cancelled \in BOOLEAN
  /\ rpc \in {"byte", "esc", "can"} /\ cans \in 0 .. 5
  /\ out \in Seq(Byte) /\ Len(out) <= BufLen
  /\ got \in {0} \cup (GOTOR .. GOTOR + 255) /\ crcin \in Seq(Byte)
  /\ res \in {"none", "ok", "cancelled", "failed"}

Init ==
  /\ data \in BoundedSeq(DataBytes, MaxLen) /\ end \in Ends
  /\ crc \in TupleOf(CrcBytes, 2) \cup {<<a, a, b, b>> : a, b \in CrcBytes}
  /\ sent = 0 /\ last = 0 /\ esc = 0 /\ cancelled = FALSE /\ wire = <<>> /\ flow = 0
  /\ rpc = "byte" /\ cans = 0 /\ out = <<>> /\ got = 0 /\ crcin = <<>>
  /\ res = "none"

-----------------------------------------------------------------------------
\* newZsendlineEscaper(w, false, false): a byte with bit 5 or 6 is plain.
Printable(c) == (c \div 32) % 4 # 0
Xor40(c) == IF (c \div 64) % 2 = 0 THEN c + 64 ELSE c - 64
\* Fault: ZDLE itself goes out as it is.
EscapedAlwaysButZDLE(c) == ~Printable(c) /\ c \in Flow
EscapedAlways(c) == ~Printable(c) /\ c \in {ZDLE} \cup Flow
\* Fault: a carriage return is never escaped.
EscapedAfterNothing(c, before) == EscapedAlways(c)
\* escapeConditional: a carriage return after an '@'.
EscapedAfter(c, before) == EscapedAlways(c) \/ (c % 128 = CR /\ before % 128 = At)

WriteByte(c) ==
  IF EscapedAfter(c, last)
  THEN /\ wire' = wire \o <<ZDLE, Xor40(c)>> /\ last' = Xor40(c)
       /\ esc' = IF esc = 0 THEN sent + 1 ELSE esc
  ELSE wire' = Append(wire, c) /\ last' = c /\ UNCHANGED esc
WriteRaw(cs) == wire' = wire \o cs /\ UNCHANGED <<last, esc>>

WData ==
  /\ sent < Len(data)
  /\ WriteByte(data[sent + 1])
\* The frame end is raw and does not count as the last byte sent.
WEnd ==
  /\ sent = Len(data)
  /\ WriteRaw(<<ZDLE, end>>)
\* zsda32 writes a printable byte of the CRC past the escaper.
WCrc ==
  LET i == sent - Len(data) IN
  /\ i \in 1 .. Len(crc)
  /\ IF use32 /\ Printable(crc[i]) THEN WriteRaw(<<crc[i]>>) ELSE WriteByte(crc[i])
WXon ==
  /\ sent = Len(data) + Len(crc) + 1 /\ end = ZCRCW
  /\ WriteRaw(<<XON>>)

Write ==
  /\ ~cancelled
  /\ WData \/ WEnd \/ WCrc \/ WXon
  /\ sent' = sent + 1
  /\ UNCHANGED <<packet, cancelled, flow, reader>>

Cancel ==
  /\ MayCancel /\ ~cancelled /\ sent <= Len(data)
  /\ cancelled' = TRUE
  /\ WriteRaw([i \in 1 .. 8 |-> CAN])
  /\ UNCHANGED <<packet, sent, flow, reader>>

FlowControl ==
  /\ flow < MaxFlow /\ flow' = flow + 1
  /\ \E i \in 1 .. Len(wire) + 1, c \in {XON, XOFF} : wire' = InsertAt(wire, i, c)
  /\ UNCHANGED <<packet, writer, reader>>

-----------------------------------------------------------------------------
\* zrdata takes the value v from the unescaper.  The CRC is right when all
\* that was read is what was sent.
Fail == res' = "failed" /\ UNCHANGED <<out, got, crcin>>
\* Fault: frame ends are not told from data.
TakeDataUntested(v) ==
  IF Len(out) < BufLen
  THEN out' = Append(out, v) /\ UNCHANGED <<got, crcin, res>> ELSE Fail
TakeData(v) ==
  IF v >= GOTOR
  THEN got' = v /\ UNCHANGED <<out, crcin, res>>
  ELSE IF Len(out) < BufLen
  THEN out' = Append(out, v) /\ UNCHANGED <<got, crcin, res>>
  ELSE Fail
TakeCrc(v) ==
  /\ crcin' = Append(crcin, v % 256)
  /\ res' = IF Len(crcin') < Len(crc) THEN "none"
            ELSE IF <<out, got, crcin'>> = <<data, GOTOR + end, crc>> THEN "ok"
            ELSE "failed"
  /\ UNCHANGED <<out, got>>
Take(v) == rpc' = "byte" /\ cans' = 0 /\ IF got = 0 THEN TakeData(v) ELSE TakeCrc(v)
Go(pc, n) == rpc' = pc /\ cans' = n /\ UNCHANGED <<out, got, crcin, res>>

\* Fault: flow control bytes are taken for data.
RByteKeepsFlow(c) ==
  rpc = "byte" /\ IF c = ZDLE THEN Go("esc", 0) ELSE Take(c)
\* ReadByte and readByte2.
RByte(c) ==
  /\ rpc = "byte"
  /\ CASE c = ZDLE    -> Go("esc", 0)
       [] c \in Flow  -> Go("byte", 0)
       [] OTHER       -> Take(c)

\* (c & 0x80) == 0x40
Unescapes(c) == (c \div 128) * 128 = 64

\* readEscapeSequence.
REsc(c) ==
  /\ rpc = "esc"
  /\ CASE c = CAN             -> Go("can", 1)
       [] c \in ZCRCE .. ZCRCW -> Take(GOTOR + c)
       [] c = ZRUB0           -> Take(127)
       [] c = ZRUB1           -> Take(255)
       [] c \in Flow          -> Go("esc", 0)
       [] OTHER -> IF Unescapes(c) THEN Take(Xor40(c))
                   ELSE Fail /\ UNCHANGED <<rpc, cans>>

\* Four more CANs make a GOTCAN; anything else makes one CAN, and is lost.
RCan(c) ==
  /\ rpc = "can"
  /\ IF c # CAN THEN Take(CAN)
     ELSE IF cans < 4 THEN Go("can", cans + 1)
     ELSE Take(GOTOR + CAN)

Read ==
  /\ res = "none" /\ wire # <<>>
  /\ RByte(Head(wire)) \/ REsc(Head(wire)) \/ RCan(Head(wire))
  /\ wire' = Tail(wire)
  /\ UNCHANGED <<packet, writer, flow>>

Finished == res # "none" \/ (cancelled /\ wire = <<>>)
Done == Finished /\ UNCHANGED vars

Next == Write \/ Cancel \/ FlowControl \/ Read \/ Done

\* The writer and the reader are two processes that keep running.
Spec == Init /\ [][Next]_vars /\ WF_vars(Write) /\ WF_vars(Read)

-----------------------------------------------------------------------------
\* Transparency: flow control bytes never reach the data, no byte of the
\* data passes for the end of the frame, and the end is never missed
\* (escape.go:208-304, frame.go:548-620).
ReadsPrefix ==
  ~cancelled => /\ IsPrefix(out, data)
                /\ got # 0 => out = data /\ got = GOTOR + end

\* What ZLine says of zrdata: a read that fails has stopped at the first
\* item the writer escaped, with everything before it read, and one that
\* succeeds was of a subpacket without escapes.
itemsRead == Len(out) + Len(crcin) + (IF got = 0 THEN 0 ELSE 1)
StopsAtEscape ==
  /\ res = "failed" /\ ~cancelled /\ Len(data) <= BufLen => esc = itemsRead + 1
  /\ res = "ok" => esc = 0 /\ ~cancelled

\* No '@' is followed by a bare carriage return, which a packet network takes
\* for a command (escape.go:145-162), whatever the data, the frame end and the
\* CRC, and across the parts of the subpacket: the one exception is between two
\* bytes of a 32-bit CRC, which zsda32 writes past the escaper (frame.go:512).
BareAt(i) == wire[i] % 128 = At /\ wire[i + 1] % 128 = CR
NoBareCR ==
  \A i \in 1 .. Len(wire) - 1 : BareAt(i) => use32 /\ sent >= Len(data) + 3

\* A subpacket in which nothing had to be escaped is read back, whatever flow
\* control the line adds (escape.go:232-246); the read of any other one comes
\* to an end.
PlainIsRead ==
  /\ <>(res = "ok" \/ cancelled \/ Len(data) > BufLen \/ esc # 0)
  /\ <>(res # "none" \/ cancelled)
=============================================================================
