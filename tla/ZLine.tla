------------------------------- MODULE ZLine -------------------------------
(***************************************************************************)
(* The byte stream between two ZModem endpoints, seen as the sequence of   *)
(* frames written to it, and what the two readers of package zmodem make   *)
(* of it: getHeader, which hunts for a header, and zrdata, which reads one *)
(* data subpacket.  A stream never reorders, duplicates or loses a frame   *)
(* whole; it may damage one (Garble), and it ends when its writer closes   *)
(* it.  A CRC is taken to catch every damaged frame.                       *)
(***************************************************************************)
EXTENDS Integers, Sequences

CONSTANTS
  File,        \* the file sent: a sequence of byte classes, see ByteClass
  EscHeaders,  \* <<type, position>> of the binary headers with a byte to escape
  EscBlocks,   \* <<offset, length, end>> of the blocks whose CRC has one
  PosMod,      \* number of file positions a header can carry (2^32)
  Capacity,    \* frames the transport buffers before a writer blocks
  MaxZeros,    \* zero bytes in a header that is not read as one (9)
  MaxGarbage,  \* garbage getHeader tolerates before it gives up (3800)
  Deadlines,   \* does the reader honour SetReadDeadline
  MaxFaults    \* bound on the number of damaged frames

\* "esc": a byte the writer must ZDLE-escape; "nul": a zero byte.
ByteClass == {"plain", "esc", "nul"}

ASSUME LineAssumption ==
  /\ File \in Seq(ByteClass)
  /\ EscHeaders \subseteq {"ZSINIT", "ZFILE", "ZDATA", "ZEOF", "ZCRC"} \X Nat
  /\ EscBlocks \subseteq Nat \X Nat \X {"ZCRCE", "ZCRCG", "ZCRCQ", "ZCRCW"}
  /\ PosMod \in Nat \ {0}
  /\ Capacity \in Nat \ {0}
  /\ MaxZeros \in Nat
  /\ MaxGarbage \in Nat \ {0}
  /\ Deadlines \in BOOLEAN
  /\ MaxFaults \in Nat

VARIABLES
  toR,     \* frames on their way from the sender to the receiver
  toS,     \* frames on their way from the receiver to the sender
  faults   \* frames damaged so far

line == <<toR, toS, faults>>

FrameTypes ==
  {"ZRQINIT", "ZRINIT", "ZSINIT", "ZACK", "ZFILE", "ZSKIP", "ZNAK", "ZABORT",
   "ZFIN", "ZRPOS", "ZDATA", "ZEOF", "ZFERR", "ZCRC", "ZCHALLENGE", "ZCOMPL",
   "ZCAN", "ZFREECNT", "ZCOMMAND", "ZSTDERR"}
FrameEnds == {"ZCRCE", "ZCRCG", "ZCRCQ", "ZCRCW"}

\* A header carries its type and a 32-bit position (stohdr).  In a ZRINIT
\* the position is the receiver's buffer length.
Hdr(t, p) == [k |-> "hdr", t |-> t, p |-> p % PosMod]
\* A subpacket with the n bytes of the file from offset lo on.
Data(lo, n, end) == [k |-> "data", lo |-> lo, n |-> n, end |-> end]
\* What is left of such a subpacket once its beginning was read or damaged.
Part(lo, n) == [k |-> "part", lo |-> lo, n |-> n]
\* A subpacket with a file header, an attention string or a command.
Info == [k |-> "info"]
\* Raw bytes that end in a zero byte: the default attention string.
Nul == [k |-> "nul"]
\* What is left of a frame, with n zero bytes among it.
Zeros(n) == [k |-> "zeros", n |-> n]
\* A header recognised by its first bytes whose CRC is wrong.
BadHdr == [k |-> "badhdr"]
\* The writer closed the stream.
Eof == [k |-> "eof"]

Frame ==
  [k : {"hdr"}, t : FrameTypes, p : Nat]
    \cup [k : {"data"}, lo : Nat, n : Nat, end : FrameEnds]
    \cup [k : {"part"}, lo : Nat, n : Nat]
    \cup [k : {"zeros"}, n : Nat]
    \cup {Info, Nul, BadHdr, Eof}

-----------------------------------------------------------------------------
\* Offsets of the bytes of class c among the n bytes from lo on.
Offsets(c, lo, n) == {i \in lo .. (lo + n - 1) : File[i + 1] = c}

IsBlock(e) == e.k \in {"data", "part"}
\* The block at the head of ch was read up to its first byte of class c.
StopsAt(c, ch, rest) ==
  \E i \in Offsets(c, Head(ch).lo, Head(ch).n) :
    /\ \A j \in Offsets(c, Head(ch).lo, Head(ch).n) : i <= j
    /\ rest = [ch EXCEPT ![1] =
                 Part(i + 1, Head(ch).lo + Head(ch).n - (i + 1))]

\* A binary header whose position or CRC has an escaped byte (escape.go:298).
Unreadable(e) == e.k = "hdr" /\ <<e.t, e.p>> \in EscHeaders

\* Every operator below takes the stream ch of one reader and says what its
\* next read finds and what is left in the stream, rest, afterwards.
Arrives(ch, types, rest) ==
  /\ ch # <<>> /\ Head(ch).k = "hdr" /\ Head(ch).t \in types
  /\ ~Unreadable(Head(ch))
  /\ rest = Tail(ch)

\* getHeader passes a block of file bytes over as garbage; the few bytes of
\* its frame end and its CRC are not counted.
Skips(ch, g, rest, g2) ==
  /\ ch # <<>> /\ IsBlock(Head(ch))
  /\ Offsets("nul", Head(ch).lo, Head(ch).n) = {}
  /\ g + Head(ch).n < MaxGarbage
  /\ g2 = g + Head(ch).n /\ rest = Tail(ch)

\* A frame given up in the middle: what is left of it is nothing that counts,
\* or has zero bytes among it.
GivesUp(ch, rest) ==
  rest = Tail(ch) \/ \E n \in 1 .. MaxZeros : rest = [ch EXCEPT ![1] = Zeros(n)]

\* The garbage runs out in the block e, before any zero byte of it.
Overflows(e, g) ==
  /\ MaxGarbage - g \in 1 .. e.n
  /\ Offsets("nul", e.lo, MaxGarbage - g) = {}

\* getHeader returns a timeout: the stream ended, or a zero byte was read.  Of
\* several zero bytes each is a timeout.
TimesOut(ch, g, rest) ==
  /\ ch # <<>>
  /\ \/ Head(ch).k = "eof" /\ rest = ch
     \/ Head(ch).k = "nul" /\ rest = Tail(ch)
     \/ Head(ch).k = "info" /\ GivesUp(ch, rest)
     \/ /\ Head(ch).k = "zeros"
        /\ rest = IF Head(ch).n > 1
                  THEN [ch EXCEPT ![1] = Zeros(Head(ch).n - 1)] ELSE Tail(ch)
     \/ /\ IsBlock(Head(ch)) /\ ~Overflows(Head(ch), g)
        /\ StopsAt("nul", ch, rest)

\* getHeader returns another error: a header that cannot be read, too much
\* garbage, or the deadline error of the underlying reader.
Fails(ch, g, rest) ==
  \/ /\ ch # <<>>
     /\ Head(ch).k = "badhdr" \/ Unreadable(Head(ch))
     /\ GivesUp(ch, rest)
  \/ /\ ch # <<>> /\ IsBlock(Head(ch)) /\ Overflows(Head(ch), g)
     /\ rest = [ch EXCEPT ![1] = Part(Head(ch).lo + (MaxGarbage - g),
                                     Head(ch).n - (MaxGarbage - g))]
  \/ /\ ch = <<>> /\ Deadlines /\ rest = ch

\* A block whose CRC has an escaped byte.
CrcEscaped(e) == <<e.lo, e.n, e.end>> \in EscBlocks

\* zrdata returns the subpacket e.
Reads(ch, kind, e, rest) ==
  /\ ch # <<>> /\ e = Head(ch) /\ e.k = kind
  /\ kind = "data" => Offsets("esc", e.lo, e.n) = {} /\ ~CrcEscaped(e)
  /\ rest = Tail(ch)

\* zrdata returns an error: end of stream, the deadline error, a frame that
\* is no intact subpacket of that kind, or an escaped byte (escape.go:298).
ReadFails(ch, kind, rest) ==
  \/ /\ ch = <<>> /\ Deadlines /\ rest = ch
  \/ /\ ch # <<>>
     /\ \/ Head(ch).k = "eof" /\ rest = ch
        \/ Head(ch).k \notin {kind, "eof"} /\ GivesUp(ch, rest)
        \/ /\ Head(ch).k = "data" /\ kind = "data"
           /\ \/ StopsAt("esc", ch, rest)
              \/ /\ Offsets("esc", Head(ch).lo, Head(ch).n) = {}
                 /\ CrcEscaped(Head(ch)) /\ GivesUp(ch, rest)

\* The writer of the stream ch closed it, and reads from no other any more.
Closed(ch) == ch # <<>> /\ ch[Len(ch)].k = "eof"
\* The frames es are written to the stream ch once it has room for them; what
\* is written to an endpoint that closed its own stream, back, is lost.
Written(ch, back, es, ch2) ==
  \/ ~Closed(back) /\ Len(ch) + Len(es) <= Capacity /\ ch2 = ch \o es
  \/ Closed(back) /\ ch2 = ch

-----------------------------------------------------------------------------
LineTypeOK ==
  toR \in Seq(Frame) /\ toS \in Seq(Frame) /\ faults \in 0 .. MaxFaults

LineInit == toR = <<>> /\ toS = <<>> /\ faults = 0

\* What damage makes of a frame.
Damaged(e) ==
  CASE e.k = "hdr"  -> {BadHdr, Part(0, 0)} \cup {Zeros(n) : n \in 1 .. MaxZeros}
    [] e.k = "data" -> {Part(e.lo, e.n)}
    [] e.k = "info" -> {Part(0, 0)} \cup {Zeros(n) : n \in 1 .. MaxZeros}
    [] OTHER        -> {}

Garble ==
  /\ faults < MaxFaults
  /\ faults' = faults + 1
  /\ \/ /\ \E i \in 1 .. Len(toR) : \E d \in Damaged(toR[i]) :
              toR' = [toR EXCEPT ![i] = d]
        /\ UNCHANGED toS
     \/ /\ \E i \in 1 .. Len(toS) : \E d \in Damaged(toS[i]) :
              toS' = [toS EXCEPT ![i] = d]
        /\ UNCHANGED toR
=============================================================================
