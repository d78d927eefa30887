------------------------------ MODULE ZTerminal ------------------------------
(***************************************************************************)
(* TerminalIO (zmodem/terminal.go): the output of a remote shell is handed *)
(* through to the goroutines that call Read, and scanned on the way for    *)
(* the ZRINIT header of an rz started there; the Read that finds one runs  *)
(* the whole transfer.  A byte is named by its place in the output, so     *)
(* what a buffer holds is a sequence of places.  What the transfer says is *)
(* in ZSession; here it takes bytes, and ends.                             *)
(***************************************************************************)
EXTENDS Integers, Sequences, FiniteSets

CONSTANTS
  Readers,   \* goroutines that may call Read
  Streams,   \* outputs of the remote shell
  MaxScan,   \* maxScanBuffer (16)
  MaxRead,   \* length of the slice Read is given
  Sizes,     \* how many bytes the underlying reader may return
  SessBuf    \* length of the slice the session reads into (256)

\* "x" stands for every byte the scan does not look for.
Byte == {"ZPAD", "ZDLE", "ZHEX", "0", "1", "x"}

ASSUME TerminalAssumption ==
  /\ Streams \subseteq Seq(Byte) /\ Streams # {}
  /\ {MaxScan, MaxRead, SessBuf} \cup Sizes \subseteq Nat \ {0}

VARIABLES
  stream,      \* the output, all of it
  pos,         \* how much of it was read
  pc,          \* where each reader is in its call
  chunk,       \* what its last read of the stream returned: places lo to hi
  inZModem, scanBuffer,
  offset,      \* how much of scanBuffer the session was given
  transfers,   \* for each transfer, its role and the places it was given
  forgotten,   \* places up to here are out of the scan for good
  overlapped   \* two goroutines were in the reader at once

vars == <<stream, pos, pc, chunk, inZModem, scanBuffer, offset, transfers,
          forgotten, overlapped>>

Places == 1 .. Len(stream)
Chunks == [lo : Nat, hi : Nat]
NoBytes == [lo |-> 1, hi |-> 0]
PCs == {"idle", "wait", "read", "scan", "start", "session", "after", "gone"}

\* Outside a transfer the scan keeps no more than its limit.
TypeOK ==
  /\ stream \in Streams /\ pos \in 0 .. Len(stream)
  /\ pc \in [Readers -> PCs] /\ chunk \in [Readers -> Chunks]
  /\ inZModem \in BOOLEAN /\ overlapped \in BOOLEAN
  /\ scanBuffer \in Seq(Places) /\ offset \in 0 .. Len(scanBuffer)
  /\ inZModem \/ Len(scanBuffer) <= MaxScan
  /\ transfers \in Seq([role : {"none", "sender", "receiver"}, feed : Seq(Places)])
  /\ forgotten \in 0 .. pos

Init ==
  /\ stream \in Streams /\ pos = 0
  /\ pc = [r \in Readers |-> "idle"]
  /\ chunk = [r \in Readers |-> NoBytes]
  /\ inZModem = FALSE /\ scanBuffer = <<>> /\ offset = 0
  /\ transfers = <<>> /\ forgotten = 0
  /\ overlapped = FALSE

-----------------------------------------------------------------------------
\* The two scanners.
HexZRINIT == <<"ZPAD", "ZPAD", "ZDLE", "ZHEX", "0", "1">>
BareZRINIT == <<"ZPAD", "ZPAD", "ZHEX", "0", "1">>

HoldsAt(pattern, buf, i) ==
  /\ i + Len(pattern) - 1 <= Len(buf)
  /\ \A k \in 1 .. Len(pattern) : stream[buf[i + k - 1]] = pattern[k]

Starts(buf) ==
  {i \in 1 .. Len(buf) : HoldsAt(HexZRINIT, buf, i) \/ HoldsAt(BareZRINIT, buf, i)}

\* Fault: a header at the very end of the buffer is not seen.
DetectShort(buf) == \E i \in 1 .. Len(buf) - 6 : HoldsAt(HexZRINIT, buf, i)
detectZRINIT(buf) == \E i \in 1 .. Len(buf) : HoldsAt(HexZRINIT, buf, i)

\* The end of the output the scan remembers.
\* Faults: one byte too many, or nothing of the reads before.
KeptLong(buf) ==
  IF Len(buf) > MaxScan + 1 THEN SubSeq(buf, Len(buf) - MaxScan, Len(buf)) ELSE buf
KeptHalf(buf) ==
  IF Len(buf) > MaxScan \div 2
  THEN SubSeq(buf, Len(buf) - MaxScan \div 2 + 1, Len(buf)) ELSE buf
Kept(buf) ==
  IF Len(buf) > MaxScan THEN SubSeq(buf, Len(buf) - MaxScan + 1, Len(buf)) ELSE buf

PlacesOf(c) == [i \in 1 .. c.hi - c.lo + 1 |-> c.lo + i - 1]

-----------------------------------------------------------------------------
\* A call of Read by goroutine r.
Goes(r, to) == pc' = [pc EXCEPT ![r] = to]
Unread == UNCHANGED <<stream, pos, chunk>>
NoScan == UNCHANGED <<inZModem, scanBuffer, offset, transfers>>

\* inZModem is looked at under the lock, which is then given up.
Call(r) ==
  /\ pc[r] = "idle"
  /\ Goes(r, IF inZModem THEN "wait" ELSE "read")
  /\ chunk' = [chunk EXCEPT ![r] = NoBytes]
  /\ UNCHANGED <<stream, pos>> /\ NoScan /\ UNCHANGED forgotten

\* The loop that waits for the end of a transfer, or of the context.
Wait(r) ==
  /\ pc[r] = "wait" /\ ~inZModem
  /\ Goes(r, "read")
  /\ Unread /\ NoScan /\ UNCHANGED forgotten
Cancelled(r) ==
  /\ pc[r] = "wait"
  /\ Goes(r, "gone")
  /\ Unread /\ NoScan /\ UNCHANGED forgotten

\* The underlying reader returns what there is, at most max bytes.
Takes(max, n) == pos + n <= Len(stream) /\ n <= max /\ pos' = pos + n

ReadSome(r) ==
  /\ pc[r] = "read"
  /\ \E n \in Sizes :
       /\ Takes(MaxRead, n)
       /\ chunk' = [chunk EXCEPT ![r] = [lo |-> pos + 1, hi |-> pos + n]]
  /\ Goes(r, "scan") /\ NoScan /\ UNCHANGED <<stream, forgotten>>

\* The remote shell closed the stream.
ReadEOF(r) ==
  /\ pc[r] \in {"read", "after"} /\ pos = Len(stream)
  /\ Goes(r, "gone")
  /\ Unread /\ NoScan /\ UNCHANGED forgotten

\* A header was found: the session is to start with buf from the first on.
Begins(r, buf) ==
  /\ \E i \in Starts(buf) :
       /\ \A j \in Starts(buf) : i <= j
       /\ scanBuffer' = SubSeq(buf, i, Len(buf))
  /\ inZModem' = TRUE /\ Goes(r, "start")

\* What was read is scanned by itself, then with the end of what came before.
\* Once a header is found the rest of the slice is not returned any more.
\* Fault: the mode is not looked at again.
ScanUnasked(r) ==
  /\ pc[r] = "scan"
  /\ LET new == PlacesOf(chunk[r])  both == Kept(scanBuffer \o new) IN
       \/ Begins(r, new)
       \/ Starts(new) = {} /\ Begins(r, both)
       \/ /\ Starts(new) \cup Starts(both) = {}
          /\ scanBuffer' = both /\ UNCHANGED inZModem /\ Goes(r, "idle")
  /\ Unread /\ UNCHANGED <<offset, transfers, forgotten>>
Scan(r) ==
  /\ pc[r] = "scan"
  /\ LET new == PlacesOf(chunk[r])  both == Kept(scanBuffer \o new) IN
       \/ inZModem /\ Goes(r, "idle") /\ UNCHANGED <<inZModem, scanBuffer>>
       \/ ~inZModem /\ Begins(r, new)
       \/ ~inZModem /\ Starts(new) = {} /\ Begins(r, both)
       \/ /\ ~inZModem /\ Starts(new) \cup Starts(both) = {}
          /\ scanBuffer' = both /\ UNCHANGED inZModem /\ Goes(r, "idle")
  /\ Unread /\ UNCHANGED <<offset, transfers, forgotten>>

-----------------------------------------------------------------------------
\* handleZModemTransfer.
Start(r) ==
  /\ pc[r] = "start"
  /\ transfers' = IF overlapped THEN <<>> ELSE
       Append(transfers,
              [role |-> IF detectZRINIT(scanBuffer) THEN "sender" ELSE "receiver",
               feed |-> <<>>])
  /\ offset' = 0 /\ Goes(r, "session")
  /\ Unread /\ UNCHANGED <<inZModem, scanBuffer, forgotten>>

Feeds(places) ==
  transfers' = IF overlapped THEN <<>>
               ELSE [transfers EXCEPT ![Len(transfers)].feed = @ \o places]

\* The session reads: what the scan had first, then from the stream itself.
\* Fault: the session reads from the stream at once.
SessionReadDirect(r) ==
  /\ pc[r] = "session"
  /\ \E n \in Sizes :
       /\ Takes(SessBuf, n)
       /\ Feeds([i \in 1 .. n |-> pos + i])
  /\ UNCHANGED <<stream, chunk, inZModem, scanBuffer, offset, pc, forgotten>>
SessionRead(r) ==
  /\ pc[r] = "session"
  /\ \/ \E n \in 1 .. SessBuf :
          /\ offset + n <= Len(scanBuffer)
          /\ n = SessBuf \/ offset + n = Len(scanBuffer)
          /\ Feeds(SubSeq(scanBuffer, offset + 1, offset + n))
          /\ offset' = offset + n /\ UNCHANGED pos
     \/ /\ offset = Len(scanBuffer)
        /\ \E n \in Sizes :
             /\ Takes(SessBuf, n)
             /\ Feeds([i \in 1 .. n |-> pos + i])
        /\ UNCHANGED offset
  /\ UNCHANGED <<stream, chunk, inZModem, scanBuffer, pc, forgotten>>

\* The transfer is over, whether it went well or not; what the session has
\* read ahead is lost with it.
\* Fault: an early return leaves the mode, and the scanned bytes, as they are.
SessionEndEarly(r) ==
  /\ pc[r] = "session" /\ Goes(r, "after")
  /\ Unread /\ UNCHANGED <<inZModem, scanBuffer, offset, transfers, forgotten>>
SessionEnd(r) ==
  /\ pc[r] = "session"
  /\ inZModem' = FALSE /\ scanBuffer' = <<>> /\ offset' = 0
  /\ Goes(r, "after")
  /\ forgotten' = (IF overlapped THEN 0 ELSE pos)
  /\ Unread /\ UNCHANGED <<transfers>>

\* The Read that ran the transfer returns the next bytes as they come.
ReadAfter(r) ==
  /\ pc[r] = "after"
  /\ \E n \in Sizes :
       /\ Takes(MaxRead, n)
       /\ forgotten' = (IF overlapped THEN 0 ELSE pos + n)
       /\ chunk' = [chunk EXCEPT ![r] = [lo |-> pos + 1, hi |-> pos + n]]
  /\ Goes(r, "idle") /\ NoScan /\ UNCHANGED <<stream>>

-----------------------------------------------------------------------------
\* In, or about to enter, the underlying reader, or not done with its bytes.
Reading == {"read", "scan", "start", "session", "after"}
Watched ==
  overlapped' = (overlapped \/ \E r, q \in Readers :
                   r # q /\ pc'[r] \in Reading /\ pc'[q] \in Reading)

Reader(r) ==
  /\ \/ Call(r) \/ Wait(r) \/ ReadSome(r) \/ ReadEOF(r) \/ Scan(r)
     \/ Start(r) \/ SessionRead(r) \/ SessionEnd(r) \/ ReadAfter(r)
  /\ Watched

Done == (\A r \in Readers : pc[r] = "gone") /\ UNCHANGED vars

Next == (\E r \in Readers : Reader(r)) \/ (\E r \in Readers : Cancelled(r) /\ Watched) \/ Done

\* The application reads again and again; a session that has no more to read
\* ends (ZSession).  Nothing forces the context to be cancelled.
Spec == Init /\ [][Next]_vars
FairSpec == Spec /\ \A r \in Readers : WF_vars(Reader(r))

-----------------------------------------------------------------------------
\* However many goroutines call Read, one of them at most runs a transfer:
\* the mode that was looked at before the read is looked at again before it
\* is set (terminal.go:106-154).
OneTransfer ==
  \A r, q \in Readers :
    pc[r] \in {"start", "session"} /\ pc[q] \in {"start", "session"} => r = q

Whole == [i \in Places |-> i]
ZRINITs == {i \in Places : HoldsAt(HexZRINIT, Whole, i)}

\* Unless two goroutines read at once, every transfer is given the output
\* from a header on, each byte once and in order, through the change from the
\* scanned bytes to the stream, and nothing that an earlier one was given
\* (terminal.go:135-183, 231-263).
TransfersFollowStream ==
  ~overlapped =>
    \A k \in DOMAIN transfers :
      LET f == transfers[k].feed IN
        \A i \in DOMAIN f :
          /\ i = 1 => f[i] \in Starts(Whole)
          /\ i > 1 => f[i] = f[i - 1] + 1
          /\ \A m \in 1 .. k - 1 : \A j \in DOMAIN transfers[m].feed :
               transfers[m].feed[j] < f[i]

\* A header whose last byte the user gets to see was out of reach of the scan:
\* it began before the scan did, or it was split and ended in a read so long
\* that its beginning was forgotten (terminal.go:158, 165-172).
Recognised ==
  ~overlapped =>
    \A r \in Readers, h \in ZRINITs :
      pc[r] = "idle" /\ h + 5 \in chunk[r].lo .. chunk[r].hi =>
        \/ h <= forgotten
        \/ h < chunk[r].lo /\ h + MaxScan <= chunk[r].hi

\* The two scanners agree: where a proper ZRINIT starts a transfer, we send
\* (terminal.go:201-229 and 463-485).
SenderOnZRINIT ==
  ~overlapped =>
    \A k \in DOMAIN transfers :
      transfers[k].feed # <<>> /\ transfers[k].feed[1] \in ZRINITs
        => transfers[k].role = "sender"

\* Every goroutine reads on after a transfer, to the end of the output or
\* until the context is done: none waits for ever (terminal.go:112-127,
\* 253-259).
Resumes == <>(\A r \in Readers : pc[r] = "gone")
=============================================================================
