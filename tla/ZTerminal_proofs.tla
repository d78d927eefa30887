-------------------------- MODULE ZTerminal_proofs --------------------------
(***************************************************************************)
(* TerminalIO, for any output of the remote shell, any number of readers   *)
(* and any sizes of reads and buffers: one transfer at a time, and, unless *)
(* two goroutines read at once, the right bytes for each transfer, in the  *)
(* right role, and no header overlooked.                                   *)
(***************************************************************************)
EXTENDS ZTerminal, SequenceTheorems, TLAPS

-----------------------------------------------------------------------------
\* Runs of places.

\* s holds the places up to e, without a gap.
EndsAt(s, e) == \A i \in 1 .. Len(s) : s[i] = e - Len(s) + i

LEMMA PlacesAreNumbers ==
  ASSUME stream \in Streams
  PROVE  Places \subseteq Nat /\ Len(stream) \in Nat
BY TerminalAssumption, LenProperties DEF TerminalAssumption, Places

\* What the underlying reader returned.
LEMMA ReadRun ==
  ASSUME NEW c \in Chunks, 1 <= c.lo, c.lo <= c.hi + 1, c.hi <= Len(stream),
         stream \in Streams
  PROVE  /\ PlacesOf(c) \in Seq(Places)
         /\ Len(PlacesOf(c)) = c.hi - c.lo + 1
         /\ EndsAt(PlacesOf(c), c.hi)
<1> DEFINE n == c.hi - c.lo + 1
<1>1. c.lo \in Nat /\ c.hi \in Nat /\ n \in Nat /\ Len(stream) \in Nat
  BY PlacesAreNumbers DEF Chunks
<1>2. \A i \in 1 .. n : c.lo + i - 1 \in Places
  BY <1>1 DEF Places
<1>3. PlacesOf(c) \in [1 .. n -> Places]
  BY <1>2 DEF PlacesOf
<1>4. PlacesOf(c) \in Seq(Places) /\ Len(PlacesOf(c)) = n
  BY <1>1, <1>3
<1>5. \A i \in 1 .. n : PlacesOf(c)[i] = c.lo + i - 1
  BY DEF PlacesOf
<1> QED BY <1>1, <1>4, <1>5 DEF EndsAt

LEMMA RunConcat ==
  ASSUME stream \in Streams, NEW s \in Seq(Places), NEW t \in Seq(Places),
         NEW e \in Int, EndsAt(s, e), EndsAt(t, e + Len(t))
  PROVE  /\ s \o t \in Seq(Places) /\ Len(s \o t) = Len(s) + Len(t)
         /\ EndsAt(s \o t, e + Len(t))
<1>1. /\ s \o t \in Seq(Places) /\ Len(s \o t) = Len(s) + Len(t)
      /\ \A i \in 1 .. Len(s) + Len(t) :
           (s \o t)[i] = IF i <= Len(s) THEN s[i] ELSE t[i - Len(s)]
  BY ConcatProperties
<1>2. Len(s) \in Nat /\ Len(t) \in Nat
  BY LenProperties
<1>3. ASSUME NEW i \in 1 .. Len(s) + Len(t)
      PROVE  (s \o t)[i] = e + Len(t) - (Len(s) + Len(t)) + i
  <2>1. CASE i <= Len(s)
    <3>1. s[i] = e - Len(s) + i
      BY <1>2, <2>1 DEF EndsAt
    <3> QED BY <1>1, <1>2, <2>1, <3>1
  <2>2. CASE ~(i <= Len(s))
    <3>1. i - Len(s) \in 1 .. Len(t)
      BY <1>2, <2>2
    <3>2. t[i - Len(s)] = e + Len(t) - Len(t) + (i - Len(s))
      BY <3>1 DEF EndsAt
    <3> QED BY <1>1, <1>2, <2>2, <3>2
  <2> QED BY <2>1, <2>2
<1> QED BY <1>1, <1>3 DEF EndsAt

LEMMA Part ==
  ASSUME NEW s \in Seq(Places), NEW i \in Nat, NEW j \in Nat,
         1 <= i, i <= j + 1, j <= Len(s)
  PROVE  /\ SubSeq(s, i, j) \in Seq(Places) /\ Len(SubSeq(s, i, j)) = j - i + 1
         /\ \A k \in 1 .. j - i + 1 : SubSeq(s, i, j)[k] = s[i + k - 1]
<1>1. Len(s) \in Nat
  BY LenProperties
<1>2. \A k \in i .. j : s[k] \in Places
  BY <1>1, ElementOfSeq
<1> QED BY <1>2, SubSeqProperties, Z3

LEMMA RunPart ==
  ASSUME NEW s \in Seq(Places), NEW e \in Int, EndsAt(s, e),
         NEW i \in Nat, NEW j \in Nat, 1 <= i, i <= j + 1, j <= Len(s)
  PROVE  EndsAt(SubSeq(s, i, j), e - Len(s) + j)
<1>1. Len(s) \in Nat
  BY LenProperties
<1>3. /\ Len(SubSeq(s, i, j)) = j - i + 1
      /\ \A k \in 1 .. j - i + 1 : SubSeq(s, i, j)[k] = s[i + k - 1]
  BY Part
<1>4. \A k \in 1 .. j - i + 1 : s[i + k - 1] = e - Len(s) + (i + k - 1)
  BY <1>1 DEF EndsAt
<1> QED BY <1>1, <1>3, <1>4 DEF EndsAt

\* The end of a buffer that the scan keeps.
LEMMA RunKept ==
  ASSUME NEW s \in Seq(Places)
  PROVE  /\ Kept(s) \in Seq(Places)
         /\ Len(Kept(s)) = IF Len(s) > MaxScan THEN MaxScan ELSE Len(s)
         /\ \A e \in Int : EndsAt(s, e) => EndsAt(Kept(s), e)
<1>1. Len(s) \in Nat /\ MaxScan \in Nat \ {0}
  BY LenProperties, TerminalAssumption DEF TerminalAssumption
<1>2. CASE Len(s) > MaxScan
  <2>1. /\ Len(s) - MaxScan + 1 \in Nat /\ 1 <= Len(s) - MaxScan + 1
        /\ Len(s) - MaxScan + 1 <= Len(s) + 1
    BY <1>1, <1>2
  <2>2. Kept(s) \in Seq(Places) /\ Len(Kept(s)) = MaxScan
    BY <1>1, <1>2, <2>1, Part DEF Kept
  <2>3. ASSUME NEW e \in Int, EndsAt(s, e) PROVE EndsAt(Kept(s), e)
    <3>1. EndsAt(Kept(s), e - Len(s) + Len(s))
      BY <1>1, <1>2, <2>1, <2>3, RunPart DEF Kept
    <3> QED BY <1>1, <3>1
  <2> QED BY <1>2, <2>2, <2>3
<1> QED BY <1>1, <1>2 DEF Kept

\* A header in a buffer is a header in the stream, and the other way round
\* when the buffer reaches that far.
LEMMA HeaderInStream ==
  ASSUME stream \in Streams, NEW s \in Seq(Places), NEW e \in Int, EndsAt(s, e),
         NEW pattern \in {HexZRINIT, BareZRINIT}, NEW i \in 1 .. Len(s)
  PROVE  HoldsAt(pattern, s, i) =>
           e - Len(s) + i \in Places /\ HoldsAt(pattern, Whole, e - Len(s) + i)
<1> SUFFICES ASSUME HoldsAt(pattern, s, i)
             PROVE  /\ e - Len(s) + i \in Places
                    /\ HoldsAt(pattern, Whole, e - Len(s) + i)
  OBVIOUS
<1> DEFINE d == e - Len(s)
<1>1. Len(s) \in Nat /\ Len(stream) \in Nat /\ Places \subseteq Nat
  BY LenProperties, PlacesAreNumbers
<1>2. Len(pattern) \in 5 .. 6
  BY DEF HexZRINIT, BareZRINIT
<1>3. \A k \in 1 .. Len(s) : s[k] = d + k /\ s[k] \in Places
  BY ElementOfSeq DEF EndsAt
<1>4. \A k \in 1 .. Len(pattern) : i + k - 1 \in 1 .. Len(s)
  BY <1>1, <1>2 DEF HoldsAt
<1>5. ASSUME NEW k \in 1 .. Len(pattern)
      PROVE  /\ (d + i) + k - 1 \in Places
             /\ stream[(d + i) + k - 1] = pattern[k]
  <2>1. s[i + k - 1] = d + (i + k - 1) /\ s[i + k - 1] \in Places
    BY <1>3, <1>4
  <2>2. d + (i + k - 1) = (d + i) + k - 1
    BY <1>1, <1>2
  <2>3. stream[s[i + k - 1]] = pattern[k]
    BY DEF HoldsAt
  <2> QED BY <2>1, <2>2, <2>3
<1>6. d + i \in Places /\ d + i + Len(pattern) - 1 \in Places
  <2>1. 1 \in 1 .. Len(pattern) /\ Len(pattern) \in 1 .. Len(pattern)
    <3>1. \A n \in 5 .. 6 : 1 \in 1 .. n /\ n \in 1 .. n
      OBVIOUS
    <3> QED BY <1>2, <3>1, Zenon
  <2>2. (d + i) + 1 - 1 \in Places /\ (d + i) + Len(pattern) - 1 \in Places
    BY <1>5, <2>1
  <2>3. (d + i) + 1 - 1 = d + i
    BY <1>1
  <2> QED BY <2>2, <2>3
<1>7. Len(Whole) = Len(stream) /\ \A k \in Places : Whole[k] = k
  BY <1>1 DEF Whole, Places
<1>8. \A k \in 1 .. Len(pattern) : stream[Whole[d + i + k - 1]] = pattern[k]
  BY <1>5, <1>7
<1>9. d + i + Len(pattern) - 1 <= Len(stream)
  BY <1>6 DEF Places
<1> QED BY <1>6, <1>7, <1>8, <1>9 DEF HoldsAt

LEMMA HeaderInBuffer ==
  ASSUME stream \in Streams, NEW s \in Seq(Places), NEW e \in Int, EndsAt(s, e),
         NEW pattern \in {HexZRINIT, BareZRINIT}, NEW p \in Places,
         HoldsAt(pattern, Whole, p), e - Len(s) < p, p + Len(pattern) - 1 <= e
  PROVE  /\ p - e + Len(s) \in 1 .. Len(s)
         /\ HoldsAt(pattern, s, p - e + Len(s))
<1> DEFINE i == p - e + Len(s)
<1>1. Len(s) \in Nat /\ Len(stream) \in Nat /\ Places \subseteq Nat
  BY LenProperties, PlacesAreNumbers
<1>2. Len(pattern) \in 5 .. 6
  BY DEF HexZRINIT, BareZRINIT
<1>3. i \in 1 .. Len(s) /\ i + Len(pattern) - 1 <= Len(s)
  BY <1>1, <1>2
<1>4. Len(Whole) = Len(stream) /\ \A k \in Places : Whole[k] = k
  BY <1>1 DEF Whole, Places
<1>5. ASSUME NEW k \in 1 .. Len(pattern) PROVE stream[s[i + k - 1]] = pattern[k]
  <2>1. p + k - 1 \in Places /\ stream[p + k - 1] = pattern[k]
    <3>1. p + k - 1 \in Places
      BY <1>1, <1>2, <1>4 DEF HoldsAt, Places
    <3>2. stream[Whole[p + k - 1]] = pattern[k]
      BY DEF HoldsAt
    <3> QED BY <1>4, <3>1, <3>2
  <2>2. i + k - 1 \in 1 .. Len(s)
    BY <1>1, <1>2, <1>3
  <2>3. s[i + k - 1] = p + k - 1
    BY <1>1, <1>2, <2>2 DEF EndsAt
  <2> QED BY <2>1, <2>3
<1> QED BY <1>3, <1>5 DEF HoldsAt

-----------------------------------------------------------------------------
\* The invariant.

\* What the reads returned was read.
Chunked ==
  \A r \in Readers :
    1 <= chunk[r].lo /\ chunk[r].lo <= chunk[r].hi + 1 /\ chunk[r].hi <= pos

\* The mode is that of the one reader that runs a transfer.
Mode ==
  /\ OneTransfer
  /\ (\A r \in Readers : pc[r] # "session") => offset = 0
  /\ inZModem <=> \E r \in Readers : pc[r] \in {"start", "session"}

Alone == \A r, q \in Readers : pc[r] \in Reading /\ pc[q] \in Reading => r = q

\* The scan remembers the last places up to e, as many as it may.
Window(e) ==
  /\ EndsAt(scanBuffer, e)
  /\ Len(scanBuffer) = IF e - forgotten > MaxScan THEN MaxScan ELSE e - forgotten

\* Before the scan the buffer goes up to what was just read; outside of scan
\* and transfer up to all that was read.
Scanning ==
  \A r \in Readers : pc[r] = "scan" =>
    /\ forgotten < chunk[r].lo /\ chunk[r].lo <= chunk[r].hi /\ chunk[r].hi = pos
    /\ Window(chunk[r].lo - 1)
Resting == (\A r \in Readers : pc[r] \notin {"scan", "start", "session"}) => Window(pos)
Emptied == \A r \in Readers : pc[r] = "after" => forgotten = pos

\* A session is to start with a header.
Starting ==
  \A r \in Readers : pc[r] = "start" =>
    /\ EndsAt(scanBuffer, pos) /\ 1 <= Len(scanBuffer) /\ Len(scanBuffer) <= pos - forgotten
    /\ HoldsAt(HexZRINIT, scanBuffer, 1) \/ HoldsAt(BareZRINIT, scanBuffer, 1)

\* The transfer t was given the places after o so far, and no other.
Given(t, o) ==
  /\ forgotten <= o
  /\ EndsAt(t.feed, o + Len(t.feed))
  /\ o + 1 \in Starts(Whole)
  /\ o + 1 \in ZRINITs => t.role = "sender"

Current == transfers[Len(transfers)]
Origin == pos - Len(scanBuffer) + offset - Len(Current.feed)

Transferring ==
  \A r \in Readers : pc[r] = "session" =>
    /\ transfers # <<>> /\ Given(Current, Origin)
    /\ offset < Len(scanBuffer) => EndsAt(scanBuffer, pos)

\* What earlier transfers were given is behind.
Past ==
  \A k \in 1 .. Len(transfers) :
    k < Len(transfers) \/ (\A r \in Readers : pc[r] # "session") =>
      \A j \in DOMAIN transfers[k].feed : transfers[k].feed[j] <= forgotten

Solo ==
  /\ Alone /\ Scanning /\ Resting /\ Emptied /\ Starting /\ Transferring /\ Past
  /\ TransfersFollowStream /\ SenderOnZRINIT /\ Recognised

IInv == TypeOK /\ Chunked /\ Mode /\ (~overlapped => Solo)

-----------------------------------------------------------------------------
\* What every step has in common.

\* A step of r moves nobody else, and is noticed when r joins another reader.
LEMMA Steps ==
  ASSUME IInv, NEW r \in Readers, NEW to \in PCs, Goes(r, to), Watched
  PROVE  /\ pc' \in [Readers -> PCs] /\ pc'[r] = to
         /\ \A q \in Readers : q # r => pc'[q] = pc[q]
         /\ overlapped' \in BOOLEAN
         /\ ~overlapped' => ~overlapped /\ Solo /\ Alone'
<1>1. pc \in [Readers -> PCs] /\ overlapped \in BOOLEAN
  BY DEF IInv, TypeOK
<1>2. /\ pc' \in [Readers -> PCs] /\ pc'[r] = to
      /\ \A q \in Readers : q # r => pc'[q] = pc[q]
  BY <1>1 DEF Goes
<1>3. overlapped' \in BOOLEAN
  BY <1>1 DEF Watched
<1>4. ASSUME ~overlapped' PROVE ~overlapped /\ Solo /\ Alone'
  <2>1. ~overlapped /\ ~\E p, q \in Readers : p # q /\ pc'[p] \in Reading /\ pc'[q] \in Reading
    BY <1>4 DEF Watched
  <2>2. Alone'
    BY <2>1 DEF Alone
  <2> QED BY <2>1, <2>2 DEF IInv
<1> QED BY <1>2, <1>3, <1>4

\* Where headers are does not change.
LEMMA SameStream ==
  ASSUME stream' = stream
  PROVE  Places' = Places /\ Starts(Whole)' = Starts(Whole) /\ ZRINITs' = ZRINITs
BY DEF Places, Starts, Whole, ZRINITs, HoldsAt

\* The transfers so far stay in order as long as they are left alone.
LEMMA SameTransfers ==
  ASSUME UNCHANGED <<stream, transfers>>, ~overlapped,
         TransfersFollowStream, SenderOnZRINIT
  PROVE  TransfersFollowStream' /\ SenderOnZRINIT'
<1>1. Starts(Whole)' = Starts(Whole) /\ ZRINITs' = ZRINITs
  BY SameStream
<1> QED BY <1>1 DEF TransfersFollowStream, SenderOnZRINIT

\* Only the reader that takes the step may have let a header pass.
Seen(r) ==
  \A h \in ZRINITs :
    h + 5 \in chunk[r].lo .. chunk[r].hi =>
      h <= forgotten \/ (h < chunk[r].lo /\ h + MaxScan <= chunk[r].hi)

LEMMA StillRecognised ==
  ASSUME TypeOK, ~overlapped, Recognised, stream' = stream,
         forgotten' \in Nat, forgotten <= forgotten', NEW r \in Readers,
         \A q \in Readers : q # r => pc'[q] = pc[q] /\ chunk'[q] = chunk[q],
         pc'[r] = "idle" => Seen(r)'
  PROVE  Recognised'
<1>1. ZRINITs' = ZRINITs /\ Places' = Places
  BY SameStream
<1>2. \A h \in ZRINITs : h \in Nat
  BY PlacesAreNumbers DEF TypeOK, ZRINITs
<1>3. forgotten \in Nat
  BY DEF TypeOK
<1>4. ASSUME NEW q \in Readers, NEW h \in ZRINITs, pc'[q] = "idle",
             (h + 5 \in chunk[q].lo .. chunk[q].hi)'
      PROVE  (h <= forgotten \/ (h < chunk[q].lo /\ h + MaxScan <= chunk[q].hi))'
  <2>1. CASE q = r
    BY <1>1, <1>4, <2>1 DEF Seen
  <2>2. CASE q # r
    <3>1. pc[q] = "idle" /\ h + 5 \in chunk[q].lo .. chunk[q].hi
      BY <1>4, <2>2
    <3>2. h <= forgotten \/ (h < chunk[q].lo /\ h + MaxScan <= chunk[q].hi)
      BY <3>1 DEF Recognised
    <3> QED BY <1>2, <1>3, <2>2, <3>2
  <2> QED BY <2>1, <2>2
<1> QED BY <1>1, <1>4 DEF Recognised

-----------------------------------------------------------------------------
\* Call, Wait, Cancelled and ReadEOF: r moves on, and no bytes move.
LEMMA MovesOn ==
  ASSUME IInv, NEW r \in Readers, NEW to \in {"wait", "read", "gone"},
         pc[r] \in {"idle", "wait", "read", "after"}, Goes(r, to), Watched,
         UNCHANGED <<stream, pos, inZModem, scanBuffer, offset, transfers, forgotten>>,
         chunk' = chunk \/ chunk' = [chunk EXCEPT ![r] = NoBytes]
  PROVE  IInv'
<1>1. /\ pc' \in [Readers -> PCs] /\ pc'[r] = to
      /\ \A q \in Readers : q # r => pc'[q] = pc[q]
      /\ overlapped' \in BOOLEAN
      /\ ~overlapped' => ~overlapped /\ Solo /\ Alone'
  BY Steps DEF PCs
<1>2. chunk' \in [Readers -> Chunks] /\ \A q \in Readers : q # r => chunk'[q] = chunk[q]
  <2>1. chunk \in [Readers -> Chunks] /\ NoBytes \in Chunks
    BY DEF IInv, TypeOK, NoBytes, Chunks
  <2> QED BY <2>1
<1>3. TypeOK'
  BY <1>1, <1>2 DEF IInv, TypeOK, Places
<1>4. Chunked'
  BY DEF IInv, TypeOK, Chunked, NoBytes
<1>5. Mode'
  BY <1>1 DEF IInv, Mode, OneTransfer
<1>6. ASSUME ~overlapped' PROVE Solo'
  <2>1. ~overlapped /\ Solo /\ Alone'
    BY <1>1, <1>6
  <2>2. /\ \A e : Window(e)' <=> Window(e)
        /\ \A q \in Readers : pc'[q] = "scan" => pc[q] = "scan" /\ chunk'[q] = chunk[q]
        /\ \A q \in Readers : \A w \in {"start", "session", "after"} : pc'[q] = w => pc[q] = w
        /\ \A q \in Readers : \A w \in {"scan", "start", "session"} : pc[q] = w => pc'[q] = w
    BY <1>1, <1>2 DEF Window, EndsAt
  <2>3. Scanning'
    BY <2>1, <2>2 DEF Solo, Scanning
  <2>4. Resting'
    BY <2>1, <2>2 DEF Solo, Resting
  <2>5. Emptied'
    BY <2>1, <2>2 DEF Solo, Emptied
  <2>6. Starting'
    BY <2>1, <2>2 DEF Solo, Starting, EndsAt, HoldsAt
  <2>7. Transferring'
    <3>1. Starts(Whole)' = Starts(Whole) /\ ZRINITs' = ZRINITs
      BY SameStream
    <3>2. Given(Current, Origin)' <=> Given(Current, Origin)
      BY <3>1 DEF Given, Current, Origin, EndsAt
    <3> QED BY <2>1, <2>2, <3>2 DEF Solo, Transferring, EndsAt
  <2>8. Past'
    BY <2>1, <2>2 DEF Solo, Past
  <2>9. TransfersFollowStream' /\ SenderOnZRINIT'
    BY <2>1, SameTransfers DEF Solo
  <2>10. Recognised'
    BY <1>1, <1>2, <2>1, StillRecognised DEF Solo, IInv, TypeOK
  <2> QED BY <2>1, <2>3, <2>4, <2>5, <2>6, <2>7, <2>8, <2>9, <2>10 DEF Solo
<1> QED BY <1>3, <1>4, <1>5, <1>6 DEF IInv

LEMMA QuietSteps ==
  ASSUME IInv, NEW r \in Readers, Call(r) \/ Wait(r) \/ Cancelled(r) \/ ReadEOF(r), Watched
  PROVE  IInv'
<1> USE DEF NoScan, Unread
<1>1. CASE Call(r)
  <2>1. CASE inZModem
    BY <1>1, <2>1, MovesOn DEF Call
  <2>2. CASE ~inZModem
    BY <1>1, <2>2, MovesOn DEF Call
  <2> QED BY <2>1, <2>2
<1>2. CASE Wait(r)
  BY <1>2, MovesOn DEF Wait
<1>3. CASE Cancelled(r)
  BY <1>3, MovesOn DEF Cancelled
<1>4. CASE ReadEOF(r)
  BY <1>4, MovesOn DEF ReadEOF
<1> QED BY <1>1, <1>2, <1>3, <1>4

-----------------------------------------------------------------------------
\* ReadSome and ReadAfter: r reads from the stream.
LEMMA TakesSome ==
  ASSUME IInv, NEW n \in Sizes, NEW max, Takes(max, n), UNCHANGED stream
  PROVE  /\ n \in Nat /\ 1 <= n /\ pos \in Nat /\ pos' \in Nat /\ pos' = pos + n
         /\ pos' <= Len(stream) /\ Len(stream) \in Nat
         /\ [lo |-> pos + 1, hi |-> pos + n] \in Chunks
<1>1. n \in Nat /\ n # 0
  BY TerminalAssumption DEF TerminalAssumption
<1>2. stream \in Streams /\ pos \in 0 .. Len(stream)
  BY DEF IInv, TypeOK
<1>3. Len(stream) \in Nat
  BY <1>2, PlacesAreNumbers
<1> QED BY <1>1, <1>2, <1>3 DEF Takes, Chunks

LEMMA ReadStep ==
  ASSUME IInv, NEW r \in Readers, ReadSome(r), Watched
  PROVE  IInv'
<1> USE DEF NoScan
<1>0. PICK n \in Sizes :
        /\ Takes(MaxRead, n)
        /\ chunk' = [chunk EXCEPT ![r] = [lo |-> pos + 1, hi |-> pos + n]]
  BY DEF ReadSome
<1> DEFINE c == [lo |-> pos + 1, hi |-> pos + n]
<1>1. /\ pc' \in [Readers -> PCs] /\ pc'[r] = "scan"
      /\ \A q \in Readers : q # r => pc'[q] = pc[q]
      /\ overlapped' \in BOOLEAN
      /\ ~overlapped' => ~overlapped /\ Solo /\ Alone'
  BY Steps DEF PCs, ReadSome
<1>2. /\ n \in Nat /\ 1 <= n /\ pos \in Nat /\ pos' \in Nat /\ pos' = pos + n
      /\ pos' <= Len(stream) /\ Len(stream) \in Nat /\ c \in Chunks
  BY <1>0, TakesSome DEF ReadSome
<1>3. /\ chunk' \in [Readers -> Chunks] /\ chunk'[r] = c
      /\ \A q \in Readers : q # r => chunk'[q] = chunk[q]
  BY <1>0, <1>2 DEF IInv, TypeOK
<1>4. UNCHANGED <<stream, inZModem, scanBuffer, offset, transfers, forgotten>> /\ pc[r] = "read"
  BY DEF ReadSome
<1>5. TypeOK'
  BY <1>1, <1>2, <1>3, <1>4 DEF IInv, TypeOK, Places
<1>6. Chunked'
  <2> SUFFICES ASSUME NEW q \in Readers
               PROVE  (1 <= chunk[q].lo /\ chunk[q].lo <= chunk[q].hi + 1 /\ chunk[q].hi <= pos)'
    BY DEF Chunked
  <2>1. CASE q = r
    BY <1>2, <1>3, <2>1
  <2>2. CASE q # r
    <3>1. /\ chunk[q] \in Chunks /\ 1 <= chunk[q].lo
          /\ chunk[q].lo <= chunk[q].hi + 1 /\ chunk[q].hi <= pos
      BY DEF IInv, TypeOK, Chunked
    <3> QED BY <1>2, <1>3, <2>2, <3>1 DEF Chunks
  <2> QED BY <2>1, <2>2
<1>7. Mode'
  BY <1>1, <1>4 DEF IInv, Mode, OneTransfer
<1>8. ASSUME ~overlapped' PROVE Solo'
  <2>1. ~overlapped /\ Solo /\ Alone'
    BY <1>1, <1>8
  <2>2. \A q \in Readers : q # r => pc[q] \notin Reading /\ pc'[q] \notin Reading
    BY <1>1, <1>4, <2>1 DEF Solo, Alone, Reading
  <2>3. Window(pos) /\ forgotten \in 0 .. pos
    BY <1>4, <2>1, <2>2 DEF Solo, Resting, Reading, IInv, TypeOK
  <2>5. Scanning'
    <3>1. /\ chunk'[r].lo = pos + 1 /\ chunk'[r].hi = pos'
          /\ forgotten' < chunk'[r].lo /\ chunk'[r].lo <= chunk'[r].hi
      BY <1>2, <1>3, <1>4, <2>3
    <3>2. chunk'[r].lo - 1 = pos
      BY <1>2, <3>1
    <3>3. /\ EndsAt(scanBuffer', pos)
          /\ Len(scanBuffer') = IF pos - forgotten' > MaxScan THEN MaxScan ELSE pos - forgotten'
      BY <1>4, <2>3 DEF Window
    <3>4. Window(chunk[r].lo - 1)'
      BY <3>2, <3>3 DEF Window, EndsAt
    <3> QED BY <2>2, <3>1, <3>4 DEF Scanning, Reading
  <2>6. Resting' /\ Emptied' /\ Starting' /\ Transferring'
    BY <1>1, <2>2 DEF Resting, Emptied, Starting, Transferring, Reading
  <2>7. Past'
    BY <1>1, <1>4, <2>1, <2>2 DEF Solo, Past, Reading
  <2>8. TransfersFollowStream' /\ SenderOnZRINIT'
    BY <1>4, <2>1, SameTransfers DEF Solo
  <2>9. Recognised'
    BY <1>1, <1>2, <1>3, <1>4, <2>1, <2>3, StillRecognised DEF Solo, IInv
  <2> QED BY <2>1, <2>5, <2>6, <2>7, <2>8, <2>9 DEF Solo
<1> QED BY <1>5, <1>6, <1>7, <1>8 DEF IInv

-----------------------------------------------------------------------------
\* Scan.

\* What is scanned.
LEMMA Scanned ==
  ASSUME IInv, NEW r \in Readers, NEW new, NEW both, pc[r] = "scan",
         new = PlacesOf(chunk[r]), both = Kept(scanBuffer \o new)
  PROVE  /\ new \in Seq(Places) /\ both \in Seq(Places) /\ Len(both) <= MaxScan
         /\ MaxScan \in Nat
         /\ chunk[r].lo \in Nat /\ chunk[r].hi \in Nat /\ forgotten \in Nat
         /\ ~overlapped =>
              /\ pos = chunk[r].hi /\ EndsAt(new, pos) /\ EndsAt(both, pos)
              /\ Len(new) = pos - chunk[r].lo + 1 /\ forgotten < chunk[r].lo
              /\ Len(both) = IF pos - forgotten > MaxScan THEN MaxScan ELSE pos - forgotten
<1>1. /\ chunk[r] \in Chunks /\ 1 <= chunk[r].lo /\ chunk[r].lo <= chunk[r].hi + 1
      /\ chunk[r].hi <= pos /\ pos \in 0 .. Len(stream) /\ stream \in Streams
      /\ scanBuffer \in Seq(Places) /\ forgotten \in 0 .. pos
  BY DEF IInv, TypeOK, Chunked
<1>2. /\ Len(stream) \in Nat /\ pos \in Nat /\ forgotten \in Nat
      /\ chunk[r].lo \in Nat /\ chunk[r].hi \in Nat /\ MaxScan \in Nat \ {0}
      /\ Len(scanBuffer) \in Nat
  BY <1>1, PlacesAreNumbers, TerminalAssumption, LenProperties DEF Chunks, TerminalAssumption
<1>3. /\ new \in Seq(Places) /\ Len(new) = chunk[r].hi - chunk[r].lo + 1
      /\ EndsAt(new, chunk[r].hi)
  <2> DEFINE c == chunk[r]
  <2>1. /\ c \in Chunks /\ 1 <= c.lo /\ c.lo <= c.hi + 1
        /\ c.hi <= Len(stream) /\ stream \in Streams
    BY <1>1, <1>2
  <2> HIDE DEF c
  <2>2. /\ PlacesOf(c) \in Seq(Places) /\ Len(PlacesOf(c)) = c.hi - c.lo + 1
        /\ EndsAt(PlacesOf(c), c.hi)
    BY <2>1, ReadRun
  <2> QED BY <2>2 DEF c
<1>4. scanBuffer \o new \in Seq(Places) /\ Len(scanBuffer \o new) = Len(scanBuffer) + Len(new)
  BY <1>1, <1>3, ConcatProperties
<1>5. /\ both \in Seq(Places)
      /\ Len(both) = IF Len(scanBuffer \o new) > MaxScan THEN MaxScan
                     ELSE Len(scanBuffer \o new)
      /\ \A e \in Int : EndsAt(scanBuffer \o new, e) => EndsAt(both, e)
  BY <1>4, RunKept
<1>6. Len(both) <= MaxScan
  BY <1>2, <1>3, <1>4, <1>5
<1>7. ASSUME ~overlapped
      PROVE  /\ pos = chunk[r].hi /\ EndsAt(new, pos) /\ EndsAt(both, pos)
             /\ Len(new) = pos - chunk[r].lo + 1 /\ forgotten < chunk[r].lo
             /\ Len(both) = IF pos - forgotten > MaxScan THEN MaxScan ELSE pos - forgotten
  <2>1. /\ forgotten < chunk[r].lo /\ chunk[r].lo <= chunk[r].hi /\ chunk[r].hi = pos
        /\ Window(chunk[r].lo - 1)
    BY <1>7 DEF IInv, Solo, Scanning
  <2> DEFINE e == chunk[r].lo - 1
  <2>2. /\ EndsAt(scanBuffer, e)
        /\ Len(scanBuffer) = IF e - forgotten > MaxScan THEN MaxScan ELSE e - forgotten
    BY <2>1 DEF Window
  <2>3. e \in Int /\ forgotten <= e /\ e + Len(new) = chunk[r].hi
    <3>1. \A a, b, c \in Nat :
            /\ a - 1 \in Int /\ (c < a => c <= a - 1)
            /\ (a - 1) + (b - a + 1) = b
      OBVIOUS
    <3>2. /\ e \in Int /\ forgotten <= e
          /\ e + (chunk[r].hi - chunk[r].lo + 1) = chunk[r].hi
      BY <1>2, <2>1, <3>1, Zenon
    <3> QED BY <1>3, <3>2
  <2> HIDE DEF e
  <2>4. EndsAt(scanBuffer \o new, e + Len(new))
    BY <1>1, <1>3, <2>2, <2>3, RunConcat
  <2>5. EndsAt(both, pos)
    <3>1. EndsAt(scanBuffer \o new, pos)
      BY <2>1, <2>3, <2>4, Zenon
    <3>2. pos \in Int
      BY <1>2
    <3> QED BY <1>5, <3>1, <3>2, Zenon
  <2>6. Len(both) = IF pos - forgotten > MaxScan THEN MaxScan ELSE pos - forgotten
    <3>1. e - forgotten + Len(new) = pos - forgotten /\ e - forgotten \in Nat
      <4>1. Len(new) \in Nat /\ pos = e + Len(new) /\ forgotten \in Nat
        BY <1>2, <1>3, <2>1, <2>3, LenProperties
      <4> QED BY <2>3, <4>1
    <3>2. Len(scanBuffer \o new) = Len(scanBuffer) + Len(new) /\ Len(new) \in Nat
      BY <1>3, <1>4, LenProperties
    <3>3. CASE e - forgotten > MaxScan
      BY <1>2, <1>5, <2>2, <3>1, <3>2, <3>3
    <3>4. CASE ~(e - forgotten > MaxScan)
      BY <1>2, <1>5, <2>2, <3>1, <3>2, <3>4
    <3> QED BY <3>3, <3>4
  <2> QED BY <1>3, <2>1, <2>5, <2>6
<1> QED BY <1>2, <1>3, <1>5, <1>6, <1>7

\* A header was found.
LEMMA BeginsStep ==
  ASSUME IInv, NEW r \in Readers, NEW buf \in Seq(Places), pc[r] = "scan", ~inZModem,
         Begins(r, buf), Watched,
         UNCHANGED <<stream, pos, chunk, offset, transfers, forgotten>>,
         ~overlapped => EndsAt(buf, pos) /\ Len(buf) <= pos - forgotten
  PROVE  IInv'
<1>1. /\ pc' \in [Readers -> PCs] /\ pc'[r] = "start"
      /\ \A q \in Readers : q # r => pc'[q] = pc[q]
      /\ overlapped' \in BOOLEAN
      /\ ~overlapped' => ~overlapped /\ Solo /\ Alone'
  BY Steps DEF PCs, Begins
<1>2. PICK i \in Starts(buf) : scanBuffer' = SubSeq(buf, i, Len(buf))
  BY DEF Begins
<1>3. i \in 1 .. Len(buf) /\ Len(buf) \in Nat
  BY LenProperties DEF Starts
<1>4. /\ scanBuffer' \in Seq(Places) /\ Len(scanBuffer') = Len(buf) - i + 1
      /\ \A k \in 1 .. Len(buf) - i + 1 : scanBuffer'[k] = buf[i + k - 1]
  BY <1>2, <1>3, Part
<1>5. ~(\E q \in Readers : pc[q] \in {"start", "session"}) /\ offset = 0
  BY DEF IInv, Mode
<1>6. TypeOK'
  <2>1. Places' = Places /\ inZModem' = TRUE /\ offset' \in 0 .. Len(scanBuffer')
    BY <1>3, <1>4, <1>5 DEF Places, Begins
  <2> QED BY <1>1, <1>4, <2>1 DEF IInv, TypeOK
<1>7. Chunked'
  BY DEF IInv, Chunked
<1>8. Mode'
  BY <1>1, <1>5 DEF IInv, Mode, OneTransfer, Begins
<1>9. ASSUME ~overlapped' PROVE Solo'
  <2>1. ~overlapped /\ Solo /\ Alone'
    BY <1>1, <1>9
  <2>2. \A q \in Readers : q # r => pc'[q] \notin Reading
    BY <1>1, <2>1 DEF Alone, Reading
  <2>3. Scanning' /\ Resting' /\ Emptied' /\ Transferring'
    BY <1>1, <2>2 DEF Scanning, Resting, Emptied, Transferring, Reading
  <2>4. Starting'
    <3>1. pos \in Nat /\ forgotten \in Nat
      BY PlacesAreNumbers DEF IInv, TypeOK
    <3>2. EndsAt(scanBuffer', pos - Len(buf) + Len(buf))
      BY <1>2, <1>3, <2>1, <3>1, RunPart
    <3>3. EndsAt(scanBuffer', pos) /\ 1 <= Len(scanBuffer') /\ Len(scanBuffer') <= pos - forgotten
      BY <1>3, <1>4, <2>1, <3>1, <3>2
    <3>4. ASSUME NEW pattern \in {HexZRINIT, BareZRINIT}, HoldsAt(pattern, buf, i)
          PROVE  HoldsAt(pattern, scanBuffer, 1)'
      <4>1. Len(pattern) \in 5 .. 6
        BY DEF HexZRINIT, BareZRINIT
      <4>2. i + Len(pattern) - 1 <= Len(buf)
        BY <3>4 DEF HoldsAt
      <4>3. 1 + Len(pattern) - 1 <= Len(scanBuffer')
        BY <1>3, <1>4, <4>1, <4>2
      <4>4. ASSUME NEW k \in 1 .. Len(pattern)
            PROVE  stream[scanBuffer'[1 + k - 1]] = pattern[k]
        <5>1. 1 + k - 1 = k /\ k \in 1 .. Len(buf) - i + 1
          BY <1>3, <4>1, <4>2
        <5> QED BY <1>4, <3>4, <5>1 DEF HoldsAt
      <4> QED BY <4>3, <4>4 DEF HoldsAt, HexZRINIT, BareZRINIT
    <3>5. HoldsAt(HexZRINIT, buf, i) \/ HoldsAt(BareZRINIT, buf, i)
      BY <1>2 DEF Starts
    <3>6. (HoldsAt(HexZRINIT, scanBuffer, 1) \/ HoldsAt(BareZRINIT, scanBuffer, 1))'
      BY <3>4, <3>5
    <3> QED BY <2>2, <3>3, <3>6 DEF Starting, EndsAt, Reading
  <2>5. Past'
    BY <1>1, <1>5, <2>1 DEF Solo, Past
  <2>6. TransfersFollowStream' /\ SenderOnZRINIT'
    BY <2>1, SameTransfers DEF Solo
  <2>7. Recognised'
    BY <1>1, <2>1, PlacesAreNumbers, StillRecognised DEF Solo, IInv, TypeOK
  <2> QED BY <2>1, <2>3, <2>4, <2>5, <2>6, <2>7 DEF Solo
<1> QED BY <1>6, <1>7, <1>8, <1>9 DEF IInv

\* A header that ends in what was just read, and that the scan could reach,
\* would have been found.
LEMMA NothingOverlooked ==
  ASSUME IInv, ~overlapped, NEW r \in Readers, NEW new, NEW both, pc[r] = "scan",
         new = PlacesOf(chunk[r]), both = Kept(scanBuffer \o new),
         Starts(new) \cup Starts(both) = {}
  PROVE  Seen(r)
<1>1. /\ new \in Seq(Places) /\ both \in Seq(Places) /\ MaxScan \in Nat
      /\ chunk[r].lo \in Nat /\ chunk[r].hi \in Nat /\ forgotten \in Nat
      /\ pos = chunk[r].hi /\ EndsAt(new, pos) /\ EndsAt(both, pos)
      /\ Len(new) = pos - chunk[r].lo + 1 /\ forgotten < chunk[r].lo
      /\ Len(both) = IF pos - forgotten > MaxScan THEN MaxScan ELSE pos - forgotten
  BY Scanned
<1>2. stream \in Streams /\ Places \subseteq Nat
  BY PlacesAreNumbers DEF IInv, TypeOK
<1> SUFFICES ASSUME NEW h \in ZRINITs, h + 5 \in chunk[r].lo .. chunk[r].hi,
                    forgotten < h, ~(h < chunk[r].lo /\ h + MaxScan <= chunk[r].hi)
             PROVE  FALSE
  <2>1. \A h \in ZRINITs : h \in Nat
    BY <1>2 DEF ZRINITs
  <2> QED BY <1>1, <2>1, SMTT(20) DEF Seen
<1>3. h \in Places /\ h \in Nat /\ HoldsAt(HexZRINIT, Whole, h) /\ Len(HexZRINIT) = 6
  BY <1>2 DEF ZRINITs, HexZRINIT
<1>4. h + Len(HexZRINIT) - 1 <= pos /\ pos \in Int /\ HexZRINIT \in {HexZRINIT, BareZRINIT}
  BY <1>1, <1>3
<1>5. CASE chunk[r].lo <= h
  <2>1. pos - Len(new) < h
    <3>1. Len(new) = pos - chunk[r].lo + 1 /\ pos \in Nat
      BY <1>1
    <3> QED BY <1>1, <1>3, <1>5, <3>1
  <2>2. h - pos + Len(new) \in 1 .. Len(new) /\ HoldsAt(HexZRINIT, new, h - pos + Len(new))
    BY <1>1, <1>2, <1>3, <1>4, <2>1, HeaderInBuffer, Zenon
  <2> QED BY <2>2 DEF Starts
<1>6. CASE ~(chunk[r].lo <= h)
  <2>1. pos < h + MaxScan
    BY <1>1, <1>3, <1>6
  <2>2. pos - Len(both) < h
    <3>1. CASE pos - forgotten > MaxScan
      BY <1>1, <1>3, <2>1, <3>1
    <3>2. CASE ~(pos - forgotten > MaxScan)
      BY <1>1, <1>3, <3>2
    <3> QED BY <3>1, <3>2
  <2>3. h - pos + Len(both) \in 1 .. Len(both) /\ HoldsAt(HexZRINIT, both, h - pos + Len(both))
    BY <1>1, <1>2, <1>3, <1>4, <2>2, HeaderInBuffer, Zenon
  <2> QED BY <2>3 DEF Starts
<1> QED BY <1>5, <1>6

\* No header was found.
LEMMA RemembersStep ==
  ASSUME IInv, NEW r \in Readers, NEW new, NEW both, pc[r] = "scan", ~inZModem,
         new = PlacesOf(chunk[r]), both = Kept(scanBuffer \o new),
         Starts(new) \cup Starts(both) = {},
         scanBuffer' = both, UNCHANGED inZModem, Goes(r, "idle"), Watched,
         UNCHANGED <<stream, pos, chunk, offset, transfers, forgotten>>
  PROVE  IInv'
<1>1. /\ pc' \in [Readers -> PCs] /\ pc'[r] = "idle"
      /\ \A q \in Readers : q # r => pc'[q] = pc[q]
      /\ overlapped' \in BOOLEAN
      /\ ~overlapped' => ~overlapped /\ Solo /\ Alone'
  BY Steps DEF PCs
<1>2. /\ both \in Seq(Places) /\ Len(both) <= MaxScan
      /\ ~overlapped =>
           /\ EndsAt(both, pos)
           /\ Len(both) = IF pos - forgotten > MaxScan THEN MaxScan ELSE pos - forgotten
  BY Scanned
<1>3. ~(\E q \in Readers : pc[q] \in {"start", "session"}) /\ offset = 0
  BY DEF IInv, Mode
<1>4. TypeOK'
  BY <1>1, <1>2, <1>3, LenProperties DEF IInv, TypeOK, Places
<1>5. Chunked'
  BY DEF IInv, Chunked
<1>6. Mode'
  BY <1>1, <1>3 DEF IInv, Mode, OneTransfer
<1>7. ASSUME ~overlapped' PROVE Solo'
  <2>1. ~overlapped /\ Solo /\ Alone'
    BY <1>1, <1>7
  <2>2. \A q \in Readers : pc'[q] \notin Reading
    BY <1>1, <2>1 DEF Solo, Alone, Reading
  <2>3. Scanning' /\ Emptied' /\ Starting' /\ Transferring'
    BY <2>2 DEF Scanning, Emptied, Starting, Transferring, Reading
  <2>4. Resting'
    BY <1>2, <2>1 DEF Resting, Window, EndsAt
  <2>5. Past'
    BY <1>3, <2>1 DEF Solo, Past
  <2>6. TransfersFollowStream' /\ SenderOnZRINIT'
    BY <2>1, SameTransfers DEF Solo
  <2>7. Recognised'
    <3>1. Seen(r)
      BY <2>1, NothingOverlooked
    <3>2. ZRINITs' = ZRINITs
      BY SameStream
    <3>3. Seen(r)'
      BY <3>1, <3>2 DEF Seen
    <3> QED BY <1>1, <2>1, <3>3, PlacesAreNumbers, StillRecognised DEF Solo, IInv, TypeOK
  <2> QED BY <2>1, <2>3, <2>4, <2>5, <2>6, <2>7 DEF Solo
<1> QED BY <1>4, <1>5, <1>6, <1>7 DEF IInv

\* Another reader runs a transfer already: what was read is its own loss.
LEMMA SkipStep ==
  ASSUME IInv, NEW r \in Readers, pc[r] = "scan", inZModem, Goes(r, "idle"), Watched,
         UNCHANGED <<stream, pos, chunk, inZModem, scanBuffer, offset, transfers, forgotten>>
  PROVE  IInv'
<1>1. /\ pc' \in [Readers -> PCs] /\ pc'[r] = "idle"
      /\ \A q \in Readers : q # r => pc'[q] = pc[q]
      /\ overlapped' \in BOOLEAN
      /\ ~overlapped' => ~overlapped /\ Solo /\ Alone'
  BY Steps DEF PCs
<1>2. TypeOK' /\ Chunked'
  BY <1>1 DEF IInv, TypeOK, Chunked, Places
<1>3. Mode'
  BY <1>1 DEF IInv, Mode, OneTransfer
<1>4. PICK q \in Readers : pc[q] \in {"start", "session"}
  BY DEF IInv, Mode
<1>5. overlapped'
  <2>1. q # r
    BY <1>4
  <2>2. ~Alone
    BY <1>4, <2>1 DEF Alone, Reading
  <2> QED BY <1>1, <2>2 DEF Solo
<1> QED BY <1>2, <1>3, <1>5 DEF IInv

LEMMA ScanStep ==
  ASSUME IInv, NEW r \in Readers, Scan(r), Watched
  PROVE  IInv'
<1> DEFINE new == PlacesOf(chunk[r])
           both == Kept(scanBuffer \o new)
<1>1. /\ pc[r] = "scan"
      /\ UNCHANGED <<stream, pos, chunk, offset, transfers, forgotten>>
  BY DEF Scan, Unread
<1>2. \/ inZModem /\ Goes(r, "idle") /\ UNCHANGED <<inZModem, scanBuffer>>
      \/ ~inZModem /\ (Begins(r, new) \/ Begins(r, both))
      \/ /\ ~inZModem /\ Starts(new) \cup Starts(both) = {}
         /\ scanBuffer' = both /\ UNCHANGED inZModem /\ Goes(r, "idle")
  BY DEF Scan
<1>3. /\ new \in Seq(Places) /\ both \in Seq(Places)
      /\ ~overlapped => /\ EndsAt(new, pos) /\ Len(new) <= pos - forgotten
                        /\ EndsAt(both, pos) /\ Len(both) <= pos - forgotten
  <2>1. /\ new \in Seq(Places) /\ both \in Seq(Places) /\ MaxScan \in Nat
        /\ chunk[r].lo \in Nat /\ chunk[r].hi \in Nat /\ forgotten \in Nat
        /\ ~overlapped =>
             /\ pos = chunk[r].hi /\ EndsAt(new, pos) /\ EndsAt(both, pos)
             /\ Len(new) = pos - chunk[r].lo + 1 /\ forgotten < chunk[r].lo
             /\ Len(both) = IF pos - forgotten > MaxScan THEN MaxScan ELSE pos - forgotten
    BY <1>1, Scanned
  <2> HIDE DEF new, both
  <2> QED BY <2>1, SMTT(20)
<1>4. CASE inZModem
  BY <1>1, <1>2, <1>4, SkipStep
<1>5. CASE ~inZModem /\ Begins(r, new)
  BY <1>1, <1>3, <1>5, BeginsStep
<1>6. CASE ~inZModem /\ Begins(r, both)
  BY <1>1, <1>3, <1>6, BeginsStep
<1>7. CASE /\ ~inZModem /\ Starts(new) \cup Starts(both) = {}
           /\ scanBuffer' = both /\ UNCHANGED inZModem /\ Goes(r, "idle")
  BY <1>1, <1>7, RemembersStep
<1> QED BY <1>2, <1>4, <1>5, <1>6, <1>7

-----------------------------------------------------------------------------
\* The transfer.
Transfer == [role : {"none", "sender", "receiver"}, feed : Seq(Places)]

\* Types that the steps of a transfer rest on.
LEMMA Typed ==
  ASSUME IInv
  PROVE  /\ stream \in Streams /\ Len(stream) \in Nat /\ Places \subseteq Nat
         /\ pos \in Nat /\ pos <= Len(stream) /\ forgotten \in Nat /\ forgotten <= pos
         /\ scanBuffer \in Seq(Places) /\ Len(scanBuffer) \in Nat
         /\ offset \in Nat /\ offset <= Len(scanBuffer)
         /\ transfers \in Seq(Transfer) /\ Len(transfers) \in Nat
         /\ \A k \in 1 .. Len(transfers) :
              /\ transfers[k] \in Transfer /\ transfers[k].feed \in Seq(Places)
              /\ Len(transfers[k].feed) \in Nat
              /\ DOMAIN transfers[k].feed = 1 .. Len(transfers[k].feed)
              /\ \A j \in DOMAIN transfers[k].feed : transfers[k].feed[j] \in Nat
<1>1. /\ stream \in Streams /\ pos \in 0 .. Len(stream) /\ forgotten \in 0 .. pos
      /\ scanBuffer \in Seq(Places) /\ offset \in 0 .. Len(scanBuffer)
      /\ transfers \in Seq(Transfer)
  BY DEF IInv, TypeOK, Transfer
<1>2. Len(stream) \in Nat /\ Places \subseteq Nat /\ Len(scanBuffer) \in Nat /\ Len(transfers) \in Nat
  BY <1>1, PlacesAreNumbers, LenProperties
<1>3. ASSUME NEW k \in 1 .. Len(transfers)
      PROVE  /\ transfers[k] \in Transfer /\ transfers[k].feed \in Seq(Places)
             /\ Len(transfers[k].feed) \in Nat
             /\ DOMAIN transfers[k].feed = 1 .. Len(transfers[k].feed)
             /\ \A j \in DOMAIN transfers[k].feed : transfers[k].feed[j] \in Nat
  <2>1. transfers[k] \in Transfer
    BY <1>1, ElementOfSeq
  <2>2. transfers[k].feed \in Seq(Places)
    BY <2>1 DEF Transfer
  <2> QED BY <1>2, <2>1, <2>2, LenProperties, ElementOfSeq
<1> QED BY <1>1, <1>2, <1>3

\* While r runs a transfer nobody else moves bytes, and the mode is set.
LEMMA Running ==
  ASSUME IInv, NEW r \in Readers, pc[r] \in {"start", "session"}
  PROVE  /\ inZModem
         /\ \A q \in Readers : q # r => pc[q] \notin {"start", "session"}
         /\ ~overlapped => \A q \in Readers : q # r => pc[q] \notin Reading
BY DEF IInv, Mode, OneTransfer, Solo, Alone, Reading

\* A transfer that is to start with a header in the stream, and its role.
LEMMA StartsRight ==
  ASSUME IInv, ~overlapped, NEW r \in Readers, pc[r] = "start"
  PROVE  /\ pos - Len(scanBuffer) + 1 \in Starts(Whole)
         /\ pos - Len(scanBuffer) + 1 \in ZRINITs => detectZRINIT(scanBuffer)
<1> DEFINE p == pos - Len(scanBuffer) + 1
<1>1. /\ stream \in Streams /\ scanBuffer \in Seq(Places) /\ pos \in Int
      /\ Len(stream) \in Nat /\ Len(scanBuffer) \in Nat
  BY Typed
<1>2. /\ EndsAt(scanBuffer, pos) /\ 1 \in 1 .. Len(scanBuffer)
      /\ HoldsAt(HexZRINIT, scanBuffer, 1) \/ HoldsAt(BareZRINIT, scanBuffer, 1)
  BY <1>1 DEF IInv, Solo, Starting
<1>3. \A pattern \in {HexZRINIT, BareZRINIT} :
        HoldsAt(pattern, scanBuffer, 1) => p \in Places /\ HoldsAt(pattern, Whole, p)
  BY <1>1, <1>2, HeaderInStream
<1>4. Len(Whole) = Len(stream)
  BY <1>1 DEF Whole, Places
<1>5. p \in Starts(Whole)
  BY <1>2, <1>3, <1>4 DEF Starts, Places
<1>6. ASSUME p \in ZRINITs PROVE detectZRINIT(scanBuffer)
  <2>1. CASE HoldsAt(HexZRINIT, scanBuffer, 1)
    BY <1>2, <2>1 DEF detectZRINIT
  <2>2. CASE HoldsAt(BareZRINIT, scanBuffer, 1)
    <3>1. HoldsAt(BareZRINIT, Whole, p) /\ HoldsAt(HexZRINIT, Whole, p)
      BY <1>3, <1>6, <2>2 DEF ZRINITs
    <3>2. /\ Len(BareZRINIT) = 5 /\ Len(HexZRINIT) = 6
          /\ BareZRINIT[3] = "ZHEX" /\ HexZRINIT[3] = "ZDLE"
      BY DEF BareZRINIT, HexZRINIT
    <3>3. 3 \in 1 .. Len(BareZRINIT) /\ 3 \in 1 .. Len(HexZRINIT)
      BY <3>2
    <3>4. stream[Whole[p + 3 - 1]] = "ZHEX" /\ stream[Whole[p + 3 - 1]] = "ZDLE"
      BY <3>1, <3>2, <3>3 DEF HoldsAt
    <3> QED BY <3>4
  <2> QED BY <1>2, <2>1, <2>2
<1> QED BY <1>5, <1>6

\* What t was given begins with a header, is without gaps, and lies behind
\* what the first n transfers were given; and its role is right.
InOrder(t, n) ==
  /\ \A i \in DOMAIN t.feed :
       /\ i = 1 => t.feed[i] \in Starts(Whole)
       /\ i > 1 => t.feed[i] = t.feed[i - 1] + 1
       /\ \A m \in 1 .. n : \A j \in DOMAIN transfers[m].feed :
            transfers[m].feed[j] < t.feed[i]
  /\ t.feed # <<>> /\ t.feed[1] \in ZRINITs => t.role = "sender"

\* The transfers stay in order when the first n of them are left alone and the
\* next is in order.
LEMMA LastInOrder ==
  ASSUME ~overlapped, TransfersFollowStream, SenderOnZRINIT, UNCHANGED stream,
         NEW n \in Nat, 1 .. n \subseteq DOMAIN transfers, DOMAIN transfers' = 1 .. n + 1,
         \A k \in 1 .. n : transfers'[k] = transfers[k],
         NEW t, transfers'[n + 1] = t, InOrder(t, n)
  PROVE  TransfersFollowStream' /\ SenderOnZRINIT'
<1>0. /\ \A i \in DOMAIN t.feed :
           /\ i = 1 => t.feed[i] \in Starts(Whole)
           /\ i > 1 => t.feed[i] = t.feed[i - 1] + 1
           /\ \A m \in 1 .. n : \A j \in DOMAIN transfers[m].feed :
                transfers[m].feed[j] < t.feed[i]
      /\ t.feed # <<>> /\ t.feed[1] \in ZRINITs => t.role = "sender"
  BY DEF InOrder
<1>1. Starts(Whole)' = Starts(Whole) /\ ZRINITs' = ZRINITs
  BY SameStream
<1>2. \A k \in 1 .. n + 1 : k \in 1 .. n \/ k = n + 1
  OBVIOUS
<1>3. ASSUME NEW k \in 1 .. n + 1, NEW i \in DOMAIN transfers'[k].feed
      PROVE  /\ i = 1 => transfers'[k].feed[i] \in Starts(Whole)
             /\ i > 1 => transfers'[k].feed[i] = transfers'[k].feed[i - 1] + 1
             /\ \A m \in 1 .. k - 1 : \A j \in DOMAIN transfers'[m].feed :
                  transfers'[m].feed[j] < transfers'[k].feed[i]
  <2>1. CASE k \in 1 .. n
    <3>1. transfers'[k] = transfers[k] /\ k \in DOMAIN transfers
      BY <2>1
    <3>2. \A m \in 1 .. k - 1 : transfers'[m] = transfers[m]
      BY <2>1
    <3> QED BY <1>3, <3>1, <3>2 DEF TransfersFollowStream
  <2>2. CASE k = n + 1
    <3>1. \A m \in 1 .. k - 1 : m \in 1 .. n /\ transfers'[m] = transfers[m]
      BY <2>2
    <3> QED BY <1>0, <1>3, <2>2, <3>1
  <2> QED BY <1>2, <2>1, <2>2
<1>4. TransfersFollowStream'
  BY <1>1, <1>3 DEF TransfersFollowStream
<1>5. ASSUME NEW k \in 1 .. n + 1, transfers'[k].feed # <<>>,
             transfers'[k].feed[1] \in ZRINITs
      PROVE  transfers'[k].role = "sender"
  <2>1. CASE k \in 1 .. n
    BY <1>5, <2>1 DEF SenderOnZRINIT
  <2>2. CASE k = n + 1
    BY <1>0, <1>5, <2>2
  <2> QED BY <1>2, <2>1, <2>2
<1>6. SenderOnZRINIT'
  BY <1>1, <1>5 DEF SenderOnZRINIT
<1> QED BY <1>4, <1>6

LEMMA StartStep ==
  ASSUME IInv, NEW r \in Readers, Start(r), Watched
  PROVE  IInv'
<1> DEFINE t == [role |-> IF detectZRINIT(scanBuffer) THEN "sender" ELSE "receiver",
                 feed |-> <<>>]
<1>1. /\ pc' \in [Readers -> PCs] /\ pc'[r] = "session"
      /\ \A q \in Readers : q # r => pc'[q] = pc[q]
      /\ overlapped' \in BOOLEAN
      /\ ~overlapped' => ~overlapped /\ Solo /\ Alone'
  BY Steps DEF PCs, Start
<1>2. /\ pc[r] = "start" /\ offset' = 0
      /\ UNCHANGED <<stream, pos, chunk, inZModem, scanBuffer, forgotten>>
      /\ transfers' = IF overlapped THEN <<>> ELSE Append(transfers, t)
  BY DEF Start, Unread
<1>3. t \in Transfer /\ t.feed = <<>> /\ DOMAIN t.feed = {}
  BY DEF Transfer
<1>4. /\ Append(transfers, t) \in Seq(Transfer)
      /\ Len(Append(transfers, t)) = Len(transfers) + 1
      /\ \A k \in 1 .. Len(transfers) : Append(transfers, t)[k] = transfers[k]
      /\ Append(transfers, t)[Len(transfers) + 1] = t
  BY <1>3, Typed, AppendProperties
<1> HIDE DEF t
<1>5. TypeOK'
  <2>1. transfers' \in Seq(Transfer)
    BY <1>2, <1>4
  <2>2. Places' = Places /\ offset' \in 0 .. Len(scanBuffer)
    BY <1>2, Typed DEF Places
  <2> QED BY <1>1, <1>2, <2>1, <2>2 DEF IInv, TypeOK, Transfer
<1>6. Chunked'
  BY <1>2 DEF IInv, Chunked
<1>7. Mode'
  BY <1>1, <1>2, Running DEF IInv, Mode, OneTransfer
<1>8. ASSUME ~overlapped' PROVE Solo'
  <2>1. ~overlapped /\ Solo /\ Alone'
    BY <1>1, <1>8
  <2>2. \A q \in Readers : q # r => pc'[q] \notin Reading
    BY <1>1, <2>1 DEF Alone, Reading
  <2>3. Scanning' /\ Resting' /\ Emptied' /\ Starting'
    BY <1>1, <2>2 DEF Scanning, Resting, Emptied, Starting, Reading
  <2>4. /\ Len(transfers) \in Nat /\ Len(transfers') = Len(transfers) + 1
        /\ transfers'[Len(transfers')] = t
        /\ \A k \in 1 .. Len(transfers') :
             \/ k \in 1 .. Len(transfers) /\ transfers'[k] = transfers[k]
             \/ k = Len(transfers') /\ transfers'[k] = t
    BY <1>2, <1>4, <2>1, Typed
  <2>5. Starts(Whole)' = Starts(Whole) /\ ZRINITs' = ZRINITs
    BY <1>2, SameStream
  <2>6. Transferring'
    <3> DEFINE o == pos - Len(scanBuffer)
    <3>1. /\ forgotten <= o /\ o + 1 \in Starts(Whole)
          /\ o + 1 \in ZRINITs => t.role = "sender"
      <4>1. Len(scanBuffer) <= pos - forgotten
        BY <1>2, <2>1 DEF Solo, Starting
      <4> QED BY <1>2, <2>1, <4>1, StartsRight, Typed DEF t
    <3>2. Current' = t /\ Origin' = o /\ Len(t.feed) = 0
      BY <1>2, <1>3, <2>4, Typed DEF Current, Origin
    <3>3. Given(Current, Origin)'
      BY <1>2, <1>3, <2>5, <3>1, <3>2 DEF Given, EndsAt
    <3>4. transfers' # <<>>
      BY <2>4
    <3>5. EndsAt(scanBuffer', pos')
      BY <1>2, <2>1 DEF Solo, Starting
    <3> QED BY <3>3, <3>4, <3>5 DEF Transferring, EndsAt
  <2>7. Past'
    BY <1>1, <1>2, <2>1, <2>2, <2>4 DEF Solo, Past, Alone, Reading
  <2>8. TransfersFollowStream' /\ SenderOnZRINIT'
    <3>1. DOMAIN transfers = 1 .. Len(transfers) /\ DOMAIN transfers' = 1 .. Len(transfers) + 1
      BY <1>2, <1>4, <2>1, Typed, LenProperties
    <3>2. /\ \A k \in 1 .. Len(transfers) : transfers'[k] = transfers[k]
          /\ transfers'[Len(transfers) + 1] = t
      BY <1>2, <1>4, <2>1
    <3>3. UNCHANGED stream /\ TransfersFollowStream /\ SenderOnZRINIT /\ Len(transfers) \in Nat
      BY <1>2, <2>1, <2>4 DEF Solo
    <3>4. 1 .. Len(transfers) \subseteq DOMAIN transfers
      BY <3>1
    <3>5. InOrder(t, Len(transfers))
      BY <1>3 DEF InOrder
    <3> DEFINE n == Len(transfers)
    <3> HIDE DEF n
    <3> QED BY <2>1, <3>1, <3>2, <3>3, <3>4, <3>5, LastInOrder DEF n
  <2>10. Recognised'
    <3>1. forgotten' \in Nat /\ forgotten <= forgotten'
      BY <1>2, Typed
    <3> QED BY <1>1, <1>2, <2>1, <3>1, StillRecognised DEF Solo, IInv
  <2> QED BY <2>1, <2>3, <2>6, <2>7, <2>8, <2>10 DEF Solo
<1> QED BY <1>5, <1>6, <1>7, <1>8 DEF IInv

LEMMA FeedStep ==
  ASSUME IInv, NEW r \in Readers, pc[r] = "session", pc' = pc, Watched,
         UNCHANGED <<stream, chunk, inZModem, scanBuffer, forgotten>>,
         NEW places \in Seq(Places), Feeds(places),
         pos' \in Nat, pos <= pos', pos' <= Len(stream),
         offset' \in Nat, offset' <= Len(scanBuffer),
         pos' + offset' = pos + offset + Len(places),
         ~overlapped => EndsAt(places, pos - Len(scanBuffer) + offset + Len(places)),
         offset' < Len(scanBuffer) => offset < Len(scanBuffer) /\ pos' = pos
  PROVE  IInv'
<1>1. Goes(r, "session")
  BY DEF Goes, IInv, TypeOK
<1>2. /\ pc' \in [Readers -> PCs]
      /\ overlapped' \in BOOLEAN
      /\ ~overlapped' => ~overlapped /\ Solo /\ Alone'
  BY <1>1, Steps DEF PCs
<1>3. /\ Len(stream) \in Nat /\ pos \in Nat /\ forgotten \in Nat /\ forgotten <= pos
      /\ Len(scanBuffer) \in Nat /\ offset \in Nat /\ Len(places) \in Nat
      /\ transfers \in Seq(Transfer) /\ Len(transfers) \in Nat /\ stream \in Streams
  BY Typed, LenProperties
<1> DEFINE n == Len(transfers)
           f == transfers[n].feed
           t == [transfers[n] EXCEPT !.feed = f \o places]
<1>4. ASSUME ~overlapped
      PROVE  /\ n \in 1 .. n /\ f \in Seq(Places) /\ Len(f) \in Nat
             /\ t \in Transfer /\ t.feed = f \o places /\ t.role = transfers[n].role
             /\ transfers' \in Seq(Transfer) /\ Len(transfers') = n
             /\ \A k \in 1 .. n : transfers'[k] = IF k = n THEN t ELSE transfers[k]
  <2>1. transfers # <<>>
    BY <1>4 DEF IInv, Solo, Transferring
  <2>2. n \in 1 .. n
    BY <1>3, <2>1
  <2>3. transfers[n] \in Transfer /\ f \in Seq(Places) /\ Len(f) \in Nat
    BY <2>2, Typed
  <2>4. f \o places \in Seq(Places)
    BY <2>3, ConcatProperties
  <2>5. t \in Transfer /\ t.feed = f \o places /\ t.role = transfers[n].role
    BY <2>3, <2>4 DEF Transfer
  <2>6. transfers' = [transfers EXCEPT ![n] = t]
    BY <1>4 DEF Feeds
  <2> HIDE DEF t, f
  <2> QED BY <1>3, <2>2, <2>3, <2>5, <2>6, ExceptSeq
<1> HIDE DEF t, f
<1>5. TypeOK'
  <2>1. transfers' \in Seq(Transfer)
    <3>1. CASE overlapped
      BY <3>1 DEF Feeds
    <3> QED BY <1>4, <3>1
  <2>2. Places' = Places /\ offset' \in 0 .. Len(scanBuffer)
    BY <1>3 DEF Places
  <2>3. forgotten' \in 0 .. pos' /\ pos' \in 0 .. Len(stream)
    BY <1>3
  <2>4. inZModem
    BY Running
  <2> QED BY <1>2, <2>1, <2>2, <2>3, <2>4 DEF IInv, TypeOK, Transfer
<1>6. Chunked'
  BY <1>3 DEF IInv, Chunked, TypeOK, Chunks
<1>7. Mode'
  BY DEF IInv, Mode, OneTransfer
<1>8. ASSUME ~overlapped' PROVE Solo'
  <2>1. ~overlapped /\ Solo /\ Alone'
    BY <1>2, <1>8
  <2>2. \A q \in Readers : q # r => pc'[q] \notin Reading
    BY <2>1, Running
  <2>3. Scanning' /\ Resting' /\ Emptied' /\ Starting'
    BY <2>2 DEF Scanning, Resting, Emptied, Starting, Reading
  <2> DEFINE o == pos - Len(scanBuffer) + offset - Len(f)
  <2>4. /\ o = Origin /\ forgotten <= o /\ EndsAt(f, o + Len(f))
        /\ o + 1 \in Starts(Whole) /\ (o + 1 \in ZRINITs => transfers[n].role = "sender")
        /\ offset < Len(scanBuffer) => EndsAt(scanBuffer, pos)
    BY <2>1 DEF Solo, Transferring, Given, Current, Origin, f
  <2>4a. /\ f \in Seq(Places) /\ Len(f) \in Nat /\ n \in 1 .. n
        /\ t \in Transfer /\ t.feed = f \o places /\ t.role = transfers[n].role
        /\ transfers' \in Seq(Transfer) /\ Len(transfers') = n
        /\ \A k \in 1 .. n : transfers'[k] = IF k = n THEN t ELSE transfers[k]
    BY <1>4, <2>1
  <2>5. o \in Nat /\ o + Len(f) = pos - Len(scanBuffer) + offset
    BY <1>3, <2>4, <2>4a
  <2>5a. Origin' = pos' - Len(scanBuffer) + offset' - Len(Current'.feed)
    BY DEF Origin
  <2> HIDE DEF o
  <2>6. /\ t.feed \in Seq(Places) /\ Len(t.feed) = Len(f) + Len(places)
        /\ EndsAt(t.feed, o + Len(f) + Len(places))
    <3> DEFINE e == o + Len(f)
    <3>1. e \in Int /\ EndsAt(f, e)
      BY <2>4, <2>4a, <2>5
    <3>2. EndsAt(places, e + Len(places))
      BY <2>1, <2>5
    <3> HIDE DEF e
    <3>3. /\ f \o places \in Seq(Places) /\ Len(f \o places) = Len(f) + Len(places)
          /\ EndsAt(f \o places, e + Len(places))
      BY <1>3, <2>4a, <3>1, <3>2, RunConcat
    <3> QED BY <2>4a, <3>3 DEF e
  <2>7. Len(t.feed) \in Nat /\ o + Len(f) + Len(places) = o + Len(t.feed)
    <3>1. \A a, b, c \in Nat : b + c \in Nat /\ a + b + c = a + (b + c)
      OBVIOUS
    <3>2. /\ Len(f) + Len(places) \in Nat
          /\ o + Len(f) + Len(places) = o + (Len(f) + Len(places))
      BY <1>3, <2>4a, <2>5, <3>1, ZenonT(30)
    <3> QED BY <2>6, <3>2, Zenon
  <2>8. \A i \in 1 .. Len(t.feed) : t.feed[i] = o + i
    <3>1. EndsAt(t.feed, o + Len(t.feed))
      BY <2>6, <2>7
    <3>2. \A i \in 1 .. Len(t.feed) : (o + Len(t.feed)) - Len(t.feed) + i = o + i
      BY <2>5, <2>7
    <3> QED BY <3>1, <3>2, Zenon DEF EndsAt
  <2>9. Starts(Whole)' = Starts(Whole) /\ ZRINITs' = ZRINITs
    BY SameStream
  <2>10. Transferring'
    <3>1. Current' = t /\ transfers' # <<>>
      BY <2>4a DEF Current
    <3>2. Origin' = o
      <4>1. Origin' = pos' - Len(scanBuffer) + offset' - (Len(f) + Len(places))
        BY <2>5a, <2>6, <3>1
      <4> DEFINE u == pos - Len(scanBuffer) + offset
                 v == pos' - Len(scanBuffer) + offset'
      <4>2. u \in Int /\ v \in Int /\ v = u + Len(places)
        <5>1. /\ pos' + offset' = pos + offset + Len(places)
              /\ pos' \in Nat /\ offset' \in Nat /\ pos \in Nat /\ offset \in Nat
              /\ Len(scanBuffer) \in Nat /\ Len(places) \in Nat
          BY <1>3
        <5> QED BY <5>1, SMTT(20)
      <4>3. o + Len(f) = u
        BY <2>5
      <4> HIDE DEF u, v
      <4>4. v - (Len(f) + Len(places)) = o
        <5>1. \A a, l, k \in Nat : ((a + l) + k) - (l + k) = a
          OBVIOUS
        <5>2. o \in Nat /\ Len(f) \in Nat /\ Len(places) \in Nat
          BY <1>3, <2>4a, <2>5
        <5>3. ((o + Len(f)) + Len(places)) - (Len(f) + Len(places)) = o
          BY <5>1, <5>2, Zenon
        <5>4. v = (o + Len(f)) + Len(places)
          BY <4>2, <4>3
        <5> QED BY <5>3, <5>4
      <4> QED BY <4>1, <4>4 DEF v
    <3>3. EndsAt(t.feed, o + Len(t.feed))
      BY <2>6, <2>7
    <3>4. Given(Current, Origin)'
      BY <2>4, <2>4a, <2>9, <3>1, <3>2, <3>3 DEF Given, EndsAt
    <3>5. offset' < Len(scanBuffer') => EndsAt(scanBuffer', pos')
      BY <2>4
    <3> QED BY <3>1, <3>4, <3>5 DEF Transferring, EndsAt
  <2>11. Past'
    <3>1. ASSUME NEW k \in 1 .. n, k < n
          PROVE  \A j \in DOMAIN transfers[k].feed : transfers[k].feed[j] <= forgotten
      BY <2>1, <3>1 DEF Solo, Past
    <3>2. \A k \in 1 .. n : k < n => transfers'[k] = transfers[k]
      BY <1>3, <2>4a
    <3> QED BY <1>3, <2>4a, <3>1, <3>2 DEF Past
  <2>12. TransfersFollowStream' /\ SenderOnZRINIT'
    <3> DEFINE b == n - 1
    <3>1. b \in Nat /\ b + 1 = n
      BY <1>3, <2>4a
    <3> HIDE DEF b
    <3>2. DOMAIN transfers = 1 .. n /\ DOMAIN transfers' = 1 .. n
      BY <2>4a, Typed, LenProperties
    <3>3. 1 .. b \subseteq DOMAIN transfers /\ DOMAIN transfers' = 1 .. b + 1
      BY <3>1, <3>2
    <3>4. \A k \in 1 .. b : transfers'[k] = transfers[k]
      BY <2>4a, <3>1
    <3>5. transfers'[b + 1] = t
      BY <2>4a, <3>1
    <3>6. DOMAIN t.feed = 1 .. Len(t.feed)
      BY <2>7, LenProperties
    <3>7. ASSUME NEW i \in DOMAIN t.feed
          PROVE  /\ i = 1 => t.feed[i] \in Starts(Whole)
                 /\ i > 1 => t.feed[i] = t.feed[i - 1] + 1
                 /\ \A m \in 1 .. b : \A j \in DOMAIN transfers[m].feed :
                      transfers[m].feed[j] < t.feed[i]
      <4>1. i \in 1 .. Len(t.feed) /\ t.feed[i] = o + i
        BY <2>8, <3>6, Zenon
      <4>2. i \in Nat /\ i # 0 /\ o \in Nat /\ (i > 1 => i - 1 \in 1 .. Len(t.feed))
        <5>1. \A l \in Nat : \A k \in 1 .. l :
                k \in Nat /\ k # 0 /\ (k > 1 => k - 1 \in 1 .. l)
          OBVIOUS
        <5> QED BY <2>5, <2>7, <4>1, <5>1, Zenon
      <4>2a. \A a, k \in Nat :
               a + k \in Nat /\ a + k = (a + (k - 1)) + 1 /\ (k # 0 => a + k > a)
        OBVIOUS
      <4>3. i > 1 => t.feed[i] = t.feed[i - 1] + 1
        <5>1. i > 1 => t.feed[i - 1] = o + (i - 1)
          BY <2>8, <4>2
        <5>2. o + i = (o + (i - 1)) + 1
          BY <4>2, <4>2a, Zenon
        <5> QED BY <4>1, <5>1, <5>2
      <4>4. ASSUME NEW m \in 1 .. b, NEW j \in DOMAIN transfers[m].feed
            PROVE  transfers[m].feed[j] < t.feed[i]
        <5>1. m \in 1 .. n /\ m < n
          BY <3>1
        <5>2. transfers[m].feed[j] <= forgotten /\ transfers[m].feed[j] \in Nat
          BY <2>1, <5>1, Typed DEF Solo, Past
        <5>3. t.feed[i] \in Nat /\ t.feed[i] > o
          <6>1. o + i \in Nat /\ o + i > o
            BY <4>2, <4>2a, Zenon
          <6> QED BY <4>1, <6>1, Zenon
        <5>4. \A x, y, z, w \in Nat : x <= y /\ y <= z /\ w > z => x < w
          OBVIOUS
        <5> QED BY <1>3, <2>4, <2>5, <5>2, <5>3, <5>4, Zenon
      <4> QED BY <2>4, <4>1, <4>3, <4>4
    <3>8. t.feed # <<>> /\ t.feed[1] \in ZRINITs => t.role = "sender"
      <4>1. t.feed # <<>> => t.feed[1] = o + 1
        BY <2>7, <2>8
      <4> QED BY <2>4, <2>4a, <4>1
    <3>9. UNCHANGED stream /\ TransfersFollowStream /\ SenderOnZRINIT
      BY <2>1 DEF Solo
    <3>10. InOrder(t, b)
      BY <3>7, <3>8 DEF InOrder
    <3> QED BY <2>1, <3>1, <3>3, <3>4, <3>5, <3>9, <3>10, LastInOrder
  <2>13. Recognised'
    <3>1. \A q \in Readers : pc'[q] = pc[q] /\ chunk'[q] = chunk[q]
      OBVIOUS
    <3> QED BY <1>3, <2>1, <3>1, StillRecognised DEF Solo, IInv
  <2> QED BY <2>1, <2>3, <2>10, <2>11, <2>12, <2>13 DEF Solo
<1> QED BY <1>5, <1>6, <1>7, <1>8 DEF IInv

LEMMA SessionReadStep ==
  ASSUME IInv, NEW r \in Readers, SessionRead(r), Watched
  PROVE  IInv'
<1>1. /\ pc[r] = "session" /\ pc' = pc
      /\ UNCHANGED <<stream, chunk, inZModem, scanBuffer, forgotten>>
  BY DEF SessionRead
<1>2. /\ Len(stream) \in Nat /\ pos \in Nat /\ pos <= Len(stream) /\ stream \in Streams
      /\ scanBuffer \in Seq(Places) /\ Len(scanBuffer) \in Nat
      /\ offset \in Nat /\ offset <= Len(scanBuffer)
  BY Typed, LenProperties
<1>3. CASE \E n \in 1 .. SessBuf :
             /\ offset + n <= Len(scanBuffer)
             /\ Feeds(SubSeq(scanBuffer, offset + 1, offset + n))
             /\ offset' = offset + n /\ UNCHANGED pos
  <2>1. PICK n \in 1 .. SessBuf :
             /\ offset + n <= Len(scanBuffer)
             /\ Feeds(SubSeq(scanBuffer, offset + 1, offset + n))
             /\ offset' = offset + n /\ UNCHANGED pos
    BY <1>3
  <2> DEFINE i == offset + 1
             j == offset + n
  <2>2. PICK places : places = SubSeq(scanBuffer, i, j)
    OBVIOUS
  <2>3. n \in Nat /\ 1 <= n
    BY TerminalAssumption DEF TerminalAssumption
  <2>4. /\ i \in Nat /\ j \in Nat /\ 1 <= i /\ i <= j + 1 /\ j <= Len(scanBuffer)
        /\ (j - i) + 1 = n /\ offset < Len(scanBuffer)
    BY <1>2, <2>1, <2>3
  <2>5. Feeds(places)
    BY <2>1, <2>2
  <2> HIDE DEF i, j
  <2>6. places \in Seq(Places) /\ Len(places) = n
    BY <1>2, <2>2, <2>4, Part
  <2>7. ASSUME ~overlapped
        PROVE  EndsAt(places, pos - Len(scanBuffer) + offset + Len(places))
    <3>1. EndsAt(scanBuffer, pos) /\ pos \in Int
      BY <1>1, <1>2, <2>4, <2>7 DEF IInv, Solo, Transferring
    <3>2. EndsAt(places, pos - Len(scanBuffer) + j)
      BY <1>2, <2>2, <2>4, <3>1, RunPart
    <3>3. pos - Len(scanBuffer) + j = pos - Len(scanBuffer) + offset + n
      BY <1>2, <2>3 DEF j
    <3> QED BY <2>6, <3>2, <3>3
  <2>8. /\ pos' \in Nat /\ pos <= pos' /\ pos' <= Len(stream)
        /\ offset' \in Nat /\ offset' <= Len(scanBuffer)
        /\ offset' < Len(scanBuffer) => offset < Len(scanBuffer) /\ pos' = pos
    BY <1>2, <2>1, <2>3, <2>4
  <2>9. pos' + offset' = pos + offset + Len(places)
    BY <1>2, <2>1, <2>3, <2>6
  <2> QED BY <1>1, <2>5, <2>6, <2>7, <2>8, <2>9, FeedStep
<1>4. CASE /\ offset = Len(scanBuffer)
           /\ \E n \in Sizes :
                /\ Takes(SessBuf, n)
                /\ Feeds([i \in 1 .. n |-> pos + i])
           /\ UNCHANGED offset
  <2>1. PICK n \in Sizes : Takes(SessBuf, n) /\ Feeds([i \in 1 .. n |-> pos + i])
    BY <1>4
  <2>2. PICK places : places = [i \in 1 .. n |-> pos + i]
    OBVIOUS
  <2>3. n \in Nat /\ 1 <= n /\ pos' = pos + n /\ pos + n <= Len(stream)
    BY <2>1, TerminalAssumption DEF TerminalAssumption, Takes
  <2>4. \A i \in 1 .. n : pos + i \in Places /\ places[i] = pos + i
    BY <1>2, <2>2, <2>3 DEF Places
  <2>5. places \in [1 .. n -> Places]
    BY <2>2, <2>4
  <2>6. places \in Seq(Places) /\ Len(places) = n
    BY <2>3, <2>5
  <2>7. EndsAt(places, pos - Len(scanBuffer) + offset + Len(places))
    <3>1. pos - Len(scanBuffer) + offset + Len(places) = pos + n
      BY <1>2, <1>4, <2>3, <2>6
    <3>2. \A i \in 1 .. n : pos + i = ((pos + n) - n) + i
      BY <1>2, <2>3
    <3>3. EndsAt(places, pos + n)
      BY <2>4, <2>6, <3>2, Zenon DEF EndsAt
    <3> QED BY <3>1, <3>3
  <2>8. /\ pos' \in Nat /\ pos <= pos' /\ pos' <= Len(stream)
        /\ offset' \in Nat /\ offset' <= Len(scanBuffer)
        /\ ~(offset' < Len(scanBuffer))
    BY <1>2, <1>4, <2>3
  <2>9. pos' + offset' = pos + offset + Len(places)
    BY <1>2, <1>4, <2>3, <2>6
  <2> QED BY <1>1, <2>1, <2>2, <2>6, <2>7, <2>8, <2>9, FeedStep
<1> QED BY <1>3, <1>4 DEF SessionRead

LEMMA SessionEndStep ==
  ASSUME IInv, NEW r \in Readers, SessionEnd(r), Watched
  PROVE  IInv'
<1>1. /\ pc' \in [Readers -> PCs] /\ pc'[r] = "after"
      /\ \A q \in Readers : q # r => pc'[q] = pc[q]
      /\ overlapped' \in BOOLEAN
      /\ ~overlapped' => ~overlapped /\ Solo /\ Alone'
  BY Steps DEF PCs, SessionEnd
<1>2. /\ pc[r] = "session" /\ inZModem' = FALSE /\ scanBuffer' = <<>> /\ offset' = 0
      /\ UNCHANGED <<stream, pos, chunk, transfers>>
      /\ forgotten' = IF overlapped THEN 0 ELSE pos
  BY DEF SessionEnd, Unread
<1>3. /\ pos \in Nat /\ forgotten \in Nat /\ forgotten <= pos /\ forgotten' \in 0 .. pos
      /\ MaxScan \in Nat
  BY <1>2, Typed, TerminalAssumption DEF TerminalAssumption
<1>4. scanBuffer' \in Seq(Places) /\ Len(scanBuffer') = 0 /\ \A e : EndsAt(scanBuffer', e)
  BY <1>2 DEF EndsAt
<1>5. TypeOK'
  <2>1. Places' = Places /\ offset' \in 0 .. Len(scanBuffer') /\ Len(scanBuffer') <= MaxScan
    BY <1>2, <1>3, <1>4 DEF Places
  <2> QED BY <1>1, <1>2, <1>3, <1>4, <2>1 DEF IInv, TypeOK
<1>6. Chunked'
  BY <1>2 DEF IInv, Chunked
<1>7. Mode'
  <2>1. \A q \in Readers : pc'[q] \notin {"start", "session"}
    BY <1>1, <1>2, Running
  <2> QED BY <1>2, <2>1 DEF Mode, OneTransfer
<1>8. ASSUME ~overlapped' PROVE Solo'
  <2>1. ~overlapped /\ Solo /\ Alone'
    BY <1>1, <1>8
  <2>2. \A q \in Readers : q # r => pc[q] \notin Reading /\ pc'[q] \notin Reading
    BY <1>1, <1>2, <2>1, Running
  <2>3. forgotten' = pos
    BY <1>2, <2>1
  <2>4. Scanning' /\ Emptied' /\ Starting' /\ Transferring'
    BY <1>1, <1>2, <2>2, <2>3 DEF Scanning, Emptied, Starting, Transferring, Reading
  <2>5. Resting'
    <3>1. Len(scanBuffer') = IF pos - forgotten' > MaxScan THEN MaxScan ELSE pos - forgotten'
      BY <1>3, <1>4, <2>3
    <3>2. EndsAt(scanBuffer, pos)'
      BY <1>2, <1>4 DEF EndsAt
    <3> QED BY <1>2, <3>1, <3>2 DEF Resting, Window
  <2>6. Past'
    <3>1. ASSUME NEW k \in 1 .. Len(transfers), NEW j \in DOMAIN transfers[k].feed
          PROVE  transfers[k].feed[j] <= pos
      <4>1. /\ k \in Nat /\ Len(transfers) \in Nat /\ k <= Len(transfers)
            /\ transfers[k].feed[j] \in Nat /\ Len(transfers[k].feed) \in Nat
            /\ j \in 1 .. Len(transfers[k].feed)
        BY Typed
      <4>2. CASE k < Len(transfers)
        <5>1. transfers[k].feed[j] <= forgotten
          BY <2>1, <4>2 DEF Solo, Past
        <5> QED BY <1>3, <4>1, <5>1
      <4>3. CASE k = Len(transfers)
        <5> DEFINE f == Current.feed
        <5>1. Current = transfers[k]
          BY <4>3 DEF Current
        <5>2. EndsAt(f, Origin + Len(f))
          BY <1>2, <2>1 DEF Solo, Transferring, Given
        <5>3. /\ Len(f) \in Nat /\ j \in 1 .. Len(f) /\ Len(scanBuffer) \in Nat
              /\ offset \in Nat /\ offset <= Len(scanBuffer)
          BY <4>1, <5>1, Typed
        <5>4. f[j] = (Origin + Len(f)) - Len(f) + j
          BY <5>2, <5>3 DEF EndsAt
        <5>5. Origin = pos - Len(scanBuffer) + offset - Len(f)
          BY DEF Origin
        <5> HIDE DEF f
        <5>6. Origin \in Int /\ Origin <= pos - Len(f)
          BY <1>3, <5>3, <5>5
        <5>7. f[j] <= pos
          BY <1>3, <5>3, <5>4, <5>6
        <5> QED BY <5>1, <5>7 DEF f
      <4> QED BY <4>1, <4>2, <4>3
    <3> QED BY <1>2, <2>3, <3>1 DEF Past
  <2>7. TransfersFollowStream' /\ SenderOnZRINIT'
    BY <1>2, <2>1, SameTransfers DEF Solo
  <2>8. Recognised'
    BY <1>1, <1>2, <1>3, <2>1, <2>3, StillRecognised DEF Solo, IInv
  <2> QED BY <2>1, <2>4, <2>5, <2>6, <2>7, <2>8 DEF Solo
<1> QED BY <1>5, <1>6, <1>7, <1>8 DEF IInv

LEMMA ReadAfterStep ==
  ASSUME IInv, NEW r \in Readers, ReadAfter(r), Watched
  PROVE  IInv'
<1> USE DEF NoScan
<1>0. PICK n \in Sizes :
        /\ Takes(MaxRead, n)
        /\ forgotten' = (IF overlapped THEN 0 ELSE pos + n)
        /\ chunk' = [chunk EXCEPT ![r] = [lo |-> pos + 1, hi |-> pos + n]]
  BY DEF ReadAfter
<1> DEFINE c == [lo |-> pos + 1, hi |-> pos + n]
<1>1. /\ pc' \in [Readers -> PCs] /\ pc'[r] = "idle"
      /\ \A q \in Readers : q # r => pc'[q] = pc[q]
      /\ overlapped' \in BOOLEAN
      /\ ~overlapped' => ~overlapped /\ Solo /\ Alone'
  BY Steps DEF PCs, ReadAfter
<1>2. /\ n \in Nat /\ 1 <= n /\ pos \in Nat /\ pos' \in Nat /\ pos' = pos + n
      /\ pos' <= Len(stream) /\ Len(stream) \in Nat /\ c \in Chunks
  BY <1>0, TakesSome DEF ReadAfter
<1>3. /\ chunk' \in [Readers -> Chunks] /\ chunk'[r] = c
      /\ \A q \in Readers : q # r => chunk'[q] = chunk[q]
  BY <1>0, <1>2 DEF IInv, TypeOK
<1>4. UNCHANGED <<stream, inZModem, scanBuffer, offset, transfers>> /\ pc[r] = "after"
  BY DEF ReadAfter
<1>5. /\ forgotten \in Nat /\ forgotten <= pos /\ forgotten' \in 0 .. pos'
      /\ MaxScan \in Nat /\ Len(scanBuffer) \in Nat
  BY <1>0, <1>2, Typed, TerminalAssumption DEF TerminalAssumption
<1>6. TypeOK'
  BY <1>1, <1>2, <1>3, <1>4, <1>5 DEF IInv, TypeOK, Places
<1>7. Chunked'
  <2> SUFFICES ASSUME NEW q \in Readers
               PROVE  (1 <= chunk[q].lo /\ chunk[q].lo <= chunk[q].hi + 1 /\ chunk[q].hi <= pos)'
    BY DEF Chunked
  <2>1. CASE q = r
    BY <1>2, <1>3, <2>1
  <2>2. CASE q # r
    <3>1. /\ chunk[q] \in Chunks /\ 1 <= chunk[q].lo
          /\ chunk[q].lo <= chunk[q].hi + 1 /\ chunk[q].hi <= pos
      BY DEF IInv, TypeOK, Chunked
    <3> QED BY <1>2, <1>3, <2>2, <3>1 DEF Chunks
  <2> QED BY <2>1, <2>2
<1>8. Mode'
  BY <1>1, <1>4 DEF IInv, Mode, OneTransfer
<1>9. ASSUME ~overlapped' PROVE Solo'
  <2>1. ~overlapped /\ Solo /\ Alone'
    BY <1>1, <1>9
  <2>2. \A q \in Readers : q # r => pc[q] \notin Reading /\ pc'[q] \notin Reading
    BY <1>1, <1>4, <2>1 DEF Solo, Alone, Reading
  <2>3. forgotten' = pos' /\ forgotten = pos
    BY <1>0, <1>2, <1>4, <2>1 DEF Solo, Emptied
  <2>4. Scanning' /\ Emptied' /\ Starting' /\ Transferring'
    BY <1>1, <2>2 DEF Scanning, Emptied, Starting, Transferring, Reading
  <2>5. Resting'
    <3>1. Window(pos)
      BY <1>4, <2>1, <2>2 DEF Solo, Resting, Reading
    <3>2. Len(scanBuffer) = 0
      BY <1>2, <1>5, <2>3, <3>1 DEF Window
    <3>3. Len(scanBuffer') = IF pos' - forgotten' > MaxScan THEN MaxScan ELSE pos' - forgotten'
      BY <1>2, <1>4, <1>5, <2>3, <3>2
    <3>4. EndsAt(scanBuffer, pos)'
      BY <1>4, <3>2 DEF EndsAt
    <3> QED BY <3>3, <3>4 DEF Resting, Window
  <2>6. Past'
    <3>1. ASSUME NEW k \in 1 .. Len(transfers), NEW j \in DOMAIN transfers[k].feed
          PROVE  transfers[k].feed[j] <= forgotten'
      <4>1. transfers[k].feed[j] <= forgotten
        BY <1>4, <2>1, <2>2 DEF Solo, Past, Reading
      <4>2. transfers[k].feed[j] \in Nat
        BY Typed
      <4> QED BY <1>2, <2>3, <4>1, <4>2
    <3> QED BY <1>4, <3>1 DEF Past
  <2>7. TransfersFollowStream' /\ SenderOnZRINIT'
    BY <1>4, <2>1, SameTransfers DEF Solo
  <2>8. Recognised'
    <3>1. ZRINITs' = ZRINITs /\ \A h \in ZRINITs : h \in Nat
      BY <1>4, SameStream, Typed DEF ZRINITs
    <3>2. Seen(r)'
      BY <1>2, <1>3, <2>3, <3>1 DEF Seen
    <3>3. forgotten' \in Nat /\ forgotten <= forgotten'
      BY <1>2, <2>3
    <3> QED BY <1>1, <1>3, <1>4, <2>1, <3>2, <3>3, StillRecognised DEF Solo, IInv
  <2> QED BY <2>1, <2>4, <2>5, <2>6, <2>7, <2>8 DEF Solo
<1> QED BY <1>6, <1>7, <1>8, <1>9 DEF IInv

-----------------------------------------------------------------------------
\* The invariant holds, and what it says.

LEMMA InitiallyTrue == Init => IInv
<1> SUFFICES ASSUME Init PROVE IInv
  OBVIOUS
<1>1. /\ stream \in Streams /\ Len(stream) \in Nat /\ MaxScan \in Nat
      /\ Places \subseteq Nat
  BY PlacesAreNumbers, TerminalAssumption DEF Init, TerminalAssumption
<1>2. /\ scanBuffer = <<>> /\ Len(scanBuffer) = 0 /\ \A e : EndsAt(scanBuffer, e)
      /\ transfers = <<>> /\ Len(transfers) = 0 /\ DOMAIN transfers = {}
  BY DEF Init, EndsAt
<1>3. \A r \in Readers : pc[r] = "idle" /\ chunk[r] = NoBytes
  BY DEF Init
<1>4. TypeOK
  <2>1. /\ pos \in 0 .. Len(stream) /\ forgotten \in 0 .. pos
        /\ offset \in 0 .. Len(scanBuffer) /\ Len(scanBuffer) <= MaxScan
    BY <1>1, <1>2 DEF Init
  <2>2. pc \in [Readers -> PCs] /\ chunk \in [Readers -> Chunks]
    BY DEF Init, PCs, Chunks, NoBytes
  <2>3. scanBuffer \in Seq(Places)
    BY <1>2
  <2>4. transfers \in Seq([role : {"none", "sender", "receiver"}, feed : Seq(Places)])
    BY <1>2
  <2> QED BY <1>1, <2>1, <2>2, <2>3, <2>4 DEF Init, TypeOK
<1>5. Chunked /\ Mode
  BY <1>3 DEF Init, Chunked, NoBytes, Mode, OneTransfer
<1>6. Alone /\ Scanning /\ Emptied /\ Starting /\ Transferring
  BY <1>3 DEF Alone, Reading, Scanning, Emptied, Starting, Transferring
<1>7. Resting
  BY <1>1, <1>2 DEF Init, Resting, Window
<1>8. Past /\ TransfersFollowStream /\ SenderOnZRINIT
  BY <1>2 DEF Past, TransfersFollowStream, SenderOnZRINIT
<1>9. Recognised
  <2>1. \A h \in ZRINITs : h \in Nat /\ ~(h + 5 \in 1 .. 0)
    BY <1>1 DEF ZRINITs
  <2> QED BY <1>3, <2>1 DEF Recognised, NoBytes
<1> QED BY <1>4, <1>5, <1>6, <1>7, <1>8, <1>9 DEF IInv, Solo

LEMMA Unmoved == ASSUME IInv, UNCHANGED vars PROVE IInv'
<1> USE DEF vars
<1>1. Starts(Whole)' = Starts(Whole) /\ ZRINITs' = ZRINITs /\ Places' = Places
  BY SameStream
<1>2. TypeOK' /\ Chunked' /\ Mode'
  BY <1>1 DEF IInv, TypeOK, Chunked, Mode, OneTransfer
<1>3. ASSUME ~overlapped PROVE Solo'
  <2>1. Solo
    BY <1>3 DEF IInv
  <2>2. Alone' /\ Scanning' /\ Resting' /\ Emptied' /\ Past'
    BY <2>1 DEF Solo, Alone, Scanning, Resting, Emptied, Past, Window, EndsAt
  <2>3. Starting'
    BY <2>1 DEF Solo, Starting, EndsAt, HoldsAt
  <2>4. Transferring'
    BY <1>1, <2>1 DEF Solo, Transferring, Given, Current, Origin, EndsAt
  <2>5. TransfersFollowStream' /\ SenderOnZRINIT'
    BY <1>3, <2>1, SameTransfers DEF Solo
  <2>6. Recognised'
    BY <1>1, <2>1 DEF Solo, Recognised
  <2> QED BY <2>1, <2>2, <2>3, <2>4, <2>5, <2>6 DEF Solo
<1> QED BY <1>2, <1>3 DEF IInv

LEMMA Preserved == IInv /\ [Next]_vars => IInv'
<1> SUFFICES ASSUME IInv, [Next]_vars PROVE IInv'
  OBVIOUS
<1>1. ASSUME NEW r \in Readers, Reader(r) PROVE IInv'
  <2>1. Watched
    BY <1>1 DEF Reader
  <2>2. CASE Call(r) \/ Wait(r) \/ ReadEOF(r)
    BY <2>1, <2>2, QuietSteps
  <2>3. CASE ReadSome(r)
    BY <2>1, <2>3, ReadStep
  <2>4. CASE Scan(r)
    BY <2>1, <2>4, ScanStep
  <2>5. CASE Start(r)
    BY <2>1, <2>5, StartStep
  <2>6. CASE SessionRead(r)
    BY <2>1, <2>6, SessionReadStep
  <2>7. CASE SessionEnd(r)
    BY <2>1, <2>7, SessionEndStep
  <2>8. CASE ReadAfter(r)
    BY <2>1, <2>8, ReadAfterStep
  <2> QED BY <1>1, <2>2, <2>3, <2>4, <2>5, <2>6, <2>7, <2>8 DEF Reader
<1>2. ASSUME NEW r \in Readers, Cancelled(r), Watched PROVE IInv'
  BY <1>2, QuietSteps
<1>3. CASE UNCHANGED vars
  BY <1>3, Unmoved
<1> QED BY <1>1, <1>2, <1>3 DEF Next, Done

LEMMA Holds == Spec => []IInv
BY InitiallyTrue, Preserved, PTL DEF Spec

\* Whatever the remote shell writes and however the reads fall, the reader's
\* state has its type and outside a transfer the scan keeps no more than
\* maxScanBuffer bytes (terminal.go:163-172).
THEOREM TypeCorrect == Spec => []TypeOK
<1>1. IInv => TypeOK
  BY DEF IInv
<1> QED BY <1>1, Holds, PTL

\* However many goroutines call Read, at most one of them runs a transfer
\* (terminal.go:106-154).
THEOREM OneAtATime == Spec => []OneTransfer
<1>1. IInv => OneTransfer
  BY DEF IInv, Mode
<1> QED BY <1>1, Holds, PTL

\* As long as no two goroutines read at once, each transfer is given the
\* output from a header on, each byte once and in order, and none of what an
\* earlier transfer was given (terminal.go:135-183, 231-263).
THEOREM FollowsStream == Spec => []TransfersFollowStream
<1>1. IInv => TransfersFollowStream
  BY DEF IInv, Solo, TransfersFollowStream
<1> QED BY <1>1, Holds, PTL

\* As long as no two goroutines read at once, a ZRINIT header of which the
\* user sees the last byte was out of reach of the scan, for any length of
\* the scan's memory and of the reads (terminal.go:158-172).
THEOREM HeadersRecognised == Spec => []Recognised
<1>1. IInv => Recognised
  BY DEF IInv, Solo, Recognised
<1> QED BY <1>1, Holds, PTL

\* As long as no two goroutines read at once, a transfer that a ZRINIT header
\* starts is run as the sender (terminal.go:201-229, 463-485).
THEOREM RightRole == Spec => []SenderOnZRINIT
<1>1. IInv => SenderOnZRINIT
  BY DEF IInv, Solo, SenderOnZRINIT
<1> QED BY <1>1, Holds, PTL
=============================================================================
