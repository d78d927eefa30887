-------------------------- MODULE ZSendToRz_proofs --------------------------
(***************************************************************************)
(* What the sender promises a peer it does not know: the blocks rz cannot  *)
(* place itself are the ones their headers announce, and a sender that     *)
(* streams succeeds only when rz has the whole file.                       *)
(***************************************************************************)
EXTENDS ZSendToRz, ZEnds_proofs

-----------------------------------------------------------------------------
\* Types.

\* The constants of the peer are numbers and sets.
LEMMA RzConstants ==
  /\ RzTimeouts \in Nat /\ MaxStrays \in Nat /\ StrayTypes \subseteq FrameTypes
  /\ Len(File) \in Nat /\ PosMod \in Nat \ {0}
BY RzAssumption, LineAssumption

\* ch2 is ch without its first d frames, where some others may have become
\* frames that are neither a header nor a subpacket nor the end.
Shorter(ch, ch2, d) ==
  /\ d \in 0 .. Len(ch) /\ Len(ch2) = Len(ch) - d
  /\ \A i \in 1 .. Len(ch2) :
       ch2[i] = ch[i + d] \/ ch2[i].k \notin {"hdr", "data", "eof"}

\* What rz reads is gone.
LEMMA RzReading ==
  ASSUME LineTypeOK, NEW n \in {1, 2}, Len(toR) >= n, RzReads(n)
  PROVE  toR' \in Seq(Frame) /\ Shorter(toR, toR', n)
         /\ \A i \in 1 .. Len(toR') : toR'[i] = toR[i + n]
<1>1. toR \in Seq(Frame) /\ Len(toR) \in Nat
  BY DEF LineTypeOK
<1>2. n + 1 \in 1 .. Len(toR) + 1 /\ Len(toR) \in n .. Len(toR)
  BY <1>1
<1>3. /\ toR' \in Seq(Frame) /\ Len(toR') = Len(toR) - n
      /\ \A i \in 1 .. Len(toR) - n : toR'[i] = toR[n + i]
  BY <1>1, <1>2, SubSeqProperties DEF RzReads
<1>4. \A i \in 1 .. Len(toR') : toR'[i] = toR[i + n]
  BY <1>1, <1>3
<1> QED BY <1>1, <1>2, <1>3, <1>4 DEF Shorter

\* rz reads up to two frames.
LEMMA RzConsumes ==
  ASSUME LineTypeOK, Rz
  PROVE  toR' \in Seq(Frame) /\ \E d \in {0, 1, 2} : Shorter(toR, toR', d)
<1>1. toR \in Seq(Frame) /\ Len(toR) \in Nat /\ (toR # <<>> => Len(toR) >= 1)
  BY DEF LineTypeOK
<1>2. toR' = toR => Shorter(toR, toR', 0)
  BY <1>1 DEF Shorter
<1>3. ASSUME NEW n \in {1, 2}, Len(toR) >= n, RzReads(n)
      PROVE  toR' \in Seq(Frame) /\ \E d \in {0, 1, 2} : Shorter(toR, toR', d)
  BY <1>3, RzReading
<1>4. \A t : Heard(t) => Len(toR) >= 1
  BY <1>1 DEF Heard
<1>5. \A t : HeardInfo(t) => Len(toR) >= 2
  BY <1>1 DEF HeardInfo
<1>6. CASE RzGreets
  BY <1>3, <1>4, <1>5, <1>6 DEF RzGreets
<1>7. CASE RzFrame
  BY <1>3, <1>4, <1>5, <1>7 DEF RzFrame
<1>8. CASE RzBlock
  BY <1>1, <1>3, <1>8 DEF RzBlock
<1>9. CASE RzSkips
  BY <1>1, <1>3, <1>9 DEF RzSkips
<1>10. CASE RzTimeout \/ RzCloses
  BY <1>1, <1>2, <1>10 DEF RzTimeout, RzCloses
<1> QED BY <1>6, <1>7, <1>8, <1>9, <1>10 DEF Rz

\* What rz says: nothing, one header, or that it is gone.  It acknowledges a
\* file only when it is done, or a block that asks for it.
Says(e) ==
  /\ e \in Frame /\ e.k = "hdr" /\ e.p < PosMod
  /\ e.t \in {"ZRINIT", "ZACK", "ZRPOS", "ZCRC"}
  /\ e.t = "ZCRC" => MayAskCRC
  /\ Asks(e) => e.p = Len(zcopy) % PosMod /\ zpc' = "file"
  /\ Answers(e) =>
       \/ zpc \in NoFile /\ zpc' \in NoFile
       \/ zpc' = "done"
       \/ zpc = "data" /\ toR # <<>> /\ Head(toR).k = "data"
            /\ Head(toR).end \in {"ZCRCQ", "ZCRCW"}

LEMMA RzTells ==
  ASSUME LineTypeOK, RzTypeOK, Rz
  PROVE  /\ zpc # "end"
         /\ \/ toS' = toS /\ zpc' # "end"
            \/ zpc' # "end" /\ \E e : Says(e) /\ toS' = toS \o <<e>>
            \/ zpc' = "end" /\ toS' = toS \o <<Eof>>
<1> DEFINE Tells == toS' = toS \/ \E e : Says(e) /\ toS' = toS \o <<e>>
<1>1. \A t \in FrameTypes, p \in Nat :
        /\ Hdr(t, p) \in Frame /\ Hdr(t, p).k = "hdr" /\ Hdr(t, p).t = t
        /\ Hdr(t, p).p = p % PosMod /\ Hdr(t, p).p < PosMod
  <2> TAKE t \in FrameTypes, p \in Nat
  <2>1. p % PosMod < PosMod
    BY LineAssumption
  <2> QED BY <2>1, FramesAreTyped DEF Hdr
<1>2. ASSUME NEW e, Says(e), RzWrites(<<e>>) PROVE Tells
  BY <1>2 DEF RzWrites, Written
<1>3. toS' = toS => Tells
  OBVIOUS
<1>4. 0 \in Nat /\ Len(zcopy) \in Nat /\ zcopy \in Seq(Nat)
  BY DEF RzTypeOK
<1>5. zpc' = "file" => Says(AsksFor)
  BY <1>1, <1>4 DEF Says, AsksFor, FrameTypes, Asks, Answers
<1>6. (zpc \in NoFile /\ zpc' \in NoFile) \/ zpc' = "done"
        => Says(Hdr("ZRINIT", 0)) /\ Says(Hdr("ZACK", 0))
  BY <1>1, <1>4 DEF Says, FrameTypes, Asks, Answers
<1>7. MayAskCRC => Says(Hdr("ZCRC", 0))
  BY <1>1, <1>4 DEF Says, FrameTypes, Asks, Answers
<1> HIDE DEF Tells
<1>8. CASE RzGreets
  <2>1. zpc \in NoFile /\ zpc' # "end" /\ zpc # "end"
    BY <1>8 DEF RzGreets, NoFile
  <2>2. Tells
    BY <1>2, <1>5, <1>6, <1>7, <1>8 DEF RzGreets
  <2> QED BY <2>1, <2>2 DEF Tells
<1>9. CASE RzFrame
  <2>1. zpc # "end" /\ zpc' # "end"
    BY <1>9 DEF RzFrame
  <2>2. Tells
    BY <1>2, <1>3, <1>5, <1>6, <1>9 DEF RzFrame
  <2> QED BY <2>1, <2>2 DEF Tells
<1>10. CASE RzBlock
  <2>1. zpc = "data" /\ zpc' # "end" /\ toR # <<>>
    BY <1>10 DEF RzBlock
  <2>2. CASE Head(toR).k = "data" /\ Head(toR).end \in {"ZCRCQ", "ZCRCW"}
             /\ RzWrites(<<Hdr("ZACK", Len(zcopy) + Head(toR).n)>>)
    <3>1. Head(toR) \in Frame /\ IsBlock(Head(toR))
      BY <2>1, <2>2 DEF LineTypeOK, IsBlock
    <3>2. Len(zcopy) + Head(toR).n \in Nat
      BY <1>4, <3>1, BlockRange
    <3> DEFINE e == Hdr("ZACK", Len(zcopy) + Head(toR).n)
    <3>3. e \in Frame /\ e.k = "hdr" /\ e.t = "ZACK" /\ e.p < PosMod
      BY <1>1, <3>2 DEF FrameTypes
    <3> HIDE DEF e
    <3>4. Says(e)
      BY <2>1, <2>2, <3>3 DEF Says, Asks
    <3> QED BY <1>2, <2>1, <2>2, <3>4 DEF Tells, e
  <2>3. CASE toS' = toS \/ (RzWrites(<<AsksFor>>) /\ zpc' = "file")
    BY <1>2, <1>3, <1>5, <2>1, <2>3 DEF Tells
  <2> QED BY <1>10, <2>2, <2>3 DEF RzBlock
<1>11. CASE RzSkips
  BY <1>11 DEF RzSkips, zvars
<1>12. CASE RzTimeout
  <2>1. toS \o <<Eof>> = Append(toS, Eof)
    BY DEF LineTypeOK
  <2>2. CASE zpc' = "end" /\ toS' = Append(toS, Eof)
    BY <1>12, <2>1, <2>2 DEF RzTimeout
  <2>3. CASE zpc \in NoFile \cup {"done"} /\ zpc' = zpc /\ RzWrites(<<Hdr("ZRINIT", 0)>>)
    BY <1>2, <1>6, <2>3 DEF NoFile, Tells
  <2>4. CASE /\ zpc \notin NoFile \cup {"done"} /\ RzWrites(<<AsksFor>>)
             /\ zpc' = IF zpc = "data" THEN "file" ELSE zpc
    <3>1. zpc # "end" /\ zpc' = "file"
      BY <1>12, <2>4 DEF RzTimeout, RzTypeOK
    <3> QED BY <1>2, <1>5, <2>4, <3>1 DEF Tells
  <2>5. zpc \in NoFile \cup {"done"} => zpc # "data"
    BY DEF NoFile
  <2> QED BY <1>12, <2>2, <2>3, <2>4, <2>5 DEF RzTimeout
<1>13. CASE RzCloses
  <2>1. toS \o <<Eof>> = Append(toS, Eof)
    BY DEF LineTypeOK
  <2> QED BY <1>13, <2>1 DEF RzCloses
<1> QED BY <1>8, <1>9, <1>10, <1>11, <1>12, <1>13 DEF Rz

\* A stray is a header with a position that fits.
LEMMA StraysTell ==
  ASSUME LineTypeOK, Stray
  PROVE  /\ zpc # "end"
         /\ \/ toS' = toS
            \/ \E e \in Frame : /\ e.k = "hdr" /\ e.p < PosMod /\ e.t \in StrayTypes
                                /\ toS' = toS \o <<e>>
<1>1. PICK t \in StrayTypes, p \in 0 .. Len(File) : RzWrites(<<Hdr(t, p)>>)
  BY DEF Stray
<1>2. t \in FrameTypes /\ p \in Nat
  BY <1>1, RzConstants
<1>3. p % PosMod < PosMod
  BY <1>2, LineAssumption
<1>4. /\ Hdr(t, p) \in Frame /\ Hdr(t, p).k = "hdr" /\ Hdr(t, p).p < PosMod
      /\ Hdr(t, p).t \in StrayTypes
  BY <1>2, <1>3, FramesAreTyped DEF Hdr
<1> QED BY <1>1, <1>4 DEF Stray, RzWrites, Written

\* The variables of rz keep their types.
LEMMA RzVarsType ==
  ASSUME LineTypeOK, RzTypeOK, Rz
  PROVE  RzTypeOK'
<1> USE DEF RzTypeOK, NoFile
<1>1. CASE RzGreets
  BY <1>1 DEF RzGreets
<1>2. CASE RzFrame
  BY <1>2 DEF RzFrame
<1>3. CASE RzBlock
  <2>1. CASE Head(toR).k = "data"
    <3> DEFINE e == Head(toR)
    <3>1. e \in Frame /\ IsBlock(e)
      BY <1>3, <2>1 DEF RzBlock, LineTypeOK, IsBlock
    <3>2. e.lo \in Nat /\ e.n \in Nat
      BY <3>1, BlockRange
    <3>3. zcopy' = zcopy \o [i \in 1 .. e.n |-> e.lo + i - 1]
      BY <1>3, <2>1 DEF RzBlock
    <3>4. zcopy' \in Seq(Nat)
      <4>1. [i \in 1 .. e.n |-> e.lo + i - 1] \in Seq(Nat)
        BY <3>2, WrittenBytes
      <4> QED BY <3>3, <4>1, ConcatProperties
    <3>5. zpc' \in {"data", "file"} /\ UNCHANGED <<ztimes, strays>>
      BY <1>3, <2>1 DEF RzBlock
    <3> QED BY <3>4, <3>5
  <2>2. CASE Head(toR).k # "data"
    BY <1>3, <2>2 DEF RzBlock
  <2> QED BY <2>1, <2>2
<1>4. CASE RzSkips
  BY <1>4 DEF RzSkips, zvars
<1>5. CASE RzTimeout
  <2>1. ztimes' \in 0 .. RzTimeouts
    BY <1>5, RzConstants DEF RzTimeout
  <2> QED BY <1>5, <2>1 DEF RzTimeout
<1>6. CASE RzCloses
  BY <1>6 DEF RzCloses
<1> QED BY <1>1, <1>2, <1>3, <1>4, <1>5, <1>6 DEF Rz

\* The variables keep their types, however rz behaves and whatever strays.
THEOREM TypeCorrect == FairSpec => []TypeOK
<1>1. Init => TypeOK
  <2> SUFFICES ASSUME Init PROVE TypeOK
    OBVIOUS
  <2>1. LineTypeOK
    <3>1. <<Hdr("ZRINIT", 0)>> \in Seq(Frame)
      BY FramesAreTyped, ShortSeqs DEF FrameTypes
    <3> QED BY <3>1, LineAssumption DEF Init, LineTypeOK
  <2>2. SenderTypeOK
    BY SenderConstants, LineAssumption
    DEF Init, SenderInit, SenderTypeOK, SPcs, Results
  <2>3. RzTypeOK /\ returned \in BOOLEAN
    <3>1. /\ zpc = "idle" /\ zcopy = <<>> /\ ztimes = 0 /\ strays = 0
          /\ returned = FALSE
      BY DEF Init
    <3>2. 0 \in 0 .. RzTimeouts /\ 0 \in 0 .. MaxStrays
      BY RzConstants
    <3>3. <<>> \in Seq(Nat)
      OBVIOUS
    <3> QED BY <3>1, <3>2, <3>3 DEF RzTypeOK, NoFile
  <2> QED BY <2>1, <2>2, <2>3 DEF TypeOK
<1>2. TypeOK /\ [Next]_vars => TypeOK'
  <2> SUFFICES ASSUME TypeOK, [Next]_vars PROVE TypeOK'
    OBVIOUS
  <2>0. LineTypeOK /\ SenderTypeOK /\ RzTypeOK /\ returned \in BOOLEAN
    BY DEF TypeOK
  <2>1. CASE Sender
    <3>1. LineTypeOK'
      BY <2>0, <2>1, SenderLineType DEF Sender, LineTypeOK
    <3>2. SenderTypeOK'
      BY <2>0, <2>1, SenderVarsType DEF Sender
    <3>3. RzTypeOK' /\ returned' \in BOOLEAN
      BY <2>0, <2>1 DEF Sender, RzTypeOK, zvars
    <3> QED BY <3>1, <3>2, <3>3 DEF TypeOK
  <2>2. CASE Peer
    <3>1. LineTypeOK'
      <4>1. toR' \in Seq(Frame)
        BY <2>0, <2>2, RzConsumes DEF Peer
      <4>2. toS \in Seq(Frame) /\ Eof \in Frame
        BY <2>0, FramesAreTyped DEF LineTypeOK
      <4>3. \A e \in Frame : toS \o <<e>> \in Seq(Frame)
        BY <4>2
      <4>4. toS' \in Seq(Frame)
        BY <2>0, <2>2, <4>2, <4>3, RzTells DEF Peer, Says
      <4> QED BY <2>0, <2>2, <4>1, <4>4 DEF Peer, LineTypeOK
    <3>2. RzTypeOK'
      BY <2>0, <2>2, RzVarsType DEF Peer
    <3>3. SenderTypeOK' /\ returned' \in BOOLEAN
      BY <2>0, <2>2 DEF Peer, SenderTypeOK, svars, negotiated, progress
    <3> QED BY <3>1, <3>2, <3>3 DEF TypeOK
  <2>3. CASE Garble /\ UNCHANGED <<svars, zvars, returned>>
    <3>1. LineTypeOK'
      BY <2>0, <2>3, SpoiltType, GarbleSpoils DEF LineTypeOK
    <3>2. SenderTypeOK' /\ RzTypeOK' /\ returned' \in BOOLEAN
      BY <2>0, <2>3 DEF SenderTypeOK, svars, negotiated, progress, RzTypeOK, zvars
    <3> QED BY <3>1, <3>2 DEF TypeOK
  <2>4. CASE Stray /\ UNCHANGED <<faults, svars, returned>>
    <3>1. LineTypeOK'
      <4>1. toS \in Seq(Frame) /\ toR' = toR /\ faults' = faults
        BY <2>0, <2>4 DEF LineTypeOK, Stray
      <4>2. \A e \in Frame : toS \o <<e>> \in Seq(Frame)
        BY <4>1
      <4>3. toS' \in Seq(Frame)
        BY <2>0, <2>4, <4>1, <4>2, StraysTell
      <4> QED BY <2>0, <4>1, <4>3 DEF LineTypeOK
    <3>2. RzTypeOK'
      <4>1. strays' = strays + 1 /\ strays < MaxStrays /\ UNCHANGED <<zpc, zcopy, ztimes>>
        BY <2>4 DEF Stray
      <4>2. strays' \in 0 .. MaxStrays
        BY <2>0, <4>1, RzConstants DEF RzTypeOK
      <4> QED BY <2>0, <4>1, <4>2 DEF RzTypeOK
    <3>3. SenderTypeOK' /\ returned' \in BOOLEAN
      BY <2>0, <2>4 DEF SenderTypeOK, svars, negotiated, progress
    <3> QED BY <3>1, <3>2, <3>3 DEF TypeOK
  <2>5. CASE SshReturn \/ SshCancelled \/ UNCHANGED vars
    BY <2>0, <2>5 DEF SshReturn, SshCancelled, vars, line, svars, negotiated,
       progress, zvars, LineTypeOK, SenderTypeOK, RzTypeOK, TypeOK
  <2> QED BY <2>1, <2>2, <2>3, <2>4, <2>5 DEF Next, Line, Done
<1> QED BY <1>1, <1>2, PTL DEF FairSpec

-----------------------------------------------------------------------------
\* The labels of the stream, for a file that can be sought (sender.go:714).

\* The file is still at its start, or at its end after its CRC was computed.
AtAnEnd == spc \in BeforeData => fpos = 0 \/ fpos >= Len(File)

\* The sender sends no more blocks, or the next one starts at p or is empty.
NextBlock(p) ==
  \/ zpc = "end"
  \/ spc \in {"data", "ackW", "ackQ", "win"} => fpos = p \/ fpos >= Len(File)

\* Nothing but a block that starts at p, or an empty one, can be read as one.
StartsAt(e, p) == e.k = "data" => e.lo = p \/ e.n = 0

\* What follows the first i frames of toR is the block at p, or no block.
Follows(i, p) == IF i = Len(toR) THEN NextBlock(p) ELSE StartsAt(toR[i + 1], p)

IsZDATA(e) == e.k = "hdr" /\ e.t = "ZDATA"
\* A block in whose frame another follows.
GoesOn(e) == e.k = "data" /\ e.end \in {"ZCRCG", "ZCRCQ"}

\* An empty block ends its frame, and the others lie in the file.
InFileBlock(e) ==
  e.k = "data" => IF e.n = 0 THEN e.end = "ZCRCE" ELSE e.lo + e.n <= Len(File)

Labels ==
  \A i \in 1 .. Len(toR) :
    /\ InFileBlock(toR[i])
    /\ IsZDATA(toR[i]) => Follows(i, toR[i].p)
    /\ GoesOn(toR[i]) => Follows(i, toR[i].lo + toR[i].n)

\* The positions rz and its strays send fit a header, and only a peer that is
\* gone has closed its stream.
FromRz ==
  /\ zpc = "end" => Closed(toS)
  /\ \A i \in 1 .. Len(toS) :
       /\ toS[i].k = "hdr" => toS[i].p < PosMod
       /\ toS[i].k = "eof" => zpc = "end"

\* rz has a prefix of the file, and inside a ZDATA frame gets what follows it.
AtRz ==
  /\ zcopy = [i \in 1 .. Len(zcopy) |-> i - 1]
  /\ Len(zcopy) <= Len(File)
  /\ zpc = "data" => Follows(0, Len(zcopy))

Labelled == AtAnEnd /\ Labels /\ FromRz /\ AtRz

Known == TypeOK /\ Labelled

\* What a step of the sender may append to the stream: frames none of which
\* is mislabelled, and that may follow whatever was promised.
Fitting(es) ==
  /\ es \in Seq(Frame) /\ es # <<>>
  /\ \A p \in Nat : NextBlock(p) => StartsAt(es[1], p)
  /\ \A i \in 1 .. Len(es) :
       /\ InFileBlock(es[i])
       /\ IsZDATA(es[i]) => i = Len(es) /\ NextBlock(es[i].p)'
       /\ GoesOn(es[i]) => i = Len(es) /\ NextBlock(es[i].lo + es[i].n)'

\* A step of the sender writes nothing and keeps its promises, or appends
\* fitting frames to a stream whose reader is there.
SenderSends ==
  \/ toR' = toR /\ \A p \in Nat : NextBlock(p) => NextBlock(p)'
  \/ \E es : Fitting(es) /\ toR' = toR \o es

\* Frames that are neither subpackets nor ZDATA always fit.
PlainFrame(e) == e \in Frame /\ e.k # "data" /\ ~IsZDATA(e)

LEMMA PlainFramesFit ==
  ASSUME NEW e, PlainFrame(e)
  PROVE  Fitting(<<e>>) /\ \A f : PlainFrame(f) => Fitting(<<e, f>>)
<1>1. <<e>> \in Seq(Frame) /\ \A f \in Frame : <<e, f>> \in Seq(Frame)
  BY DEF PlainFrame
<1>2. Fitting(<<e>>)
  BY <1>1 DEF PlainFrame, Fitting, StartsAt, GoesOn, InFileBlock
<1>3. ASSUME NEW f, PlainFrame(f) PROVE Fitting(<<e, f>>)
  <2>1. /\ <<e, f>> \in Seq(Frame) /\ <<e, f>> # <<>> /\ Len(<<e, f>>) = 2
        /\ <<e, f>>[1] = e /\ <<e, f>>[2] = f
    BY <1>1, <1>3 DEF PlainFrame
  <2>2. \A i \in 1 .. 2 : i = 1 \/ i = 2
    OBVIOUS
  <2> QED BY <1>3, <2>1, <2>2 DEF PlainFrame, Fitting, StartsAt, GoesOn, InFileBlock
<1> QED BY <1>2, <1>3

\* What is written to a peer that is gone is lost, and promised to nobody.
LEMMA LostKeeps ==
  ASSUME Known, Closed(toS), UNCHANGED <<toR, zpc>>
  PROVE  SenderSends
<1>1. Len(toS) \in 1 .. Len(toS)
  BY DEF Closed, Known, TypeOK, LineTypeOK
<1>2. zpc = "end"
  BY <1>1 DEF Closed, Known, Labelled, FromRz
<1> QED BY <1>2 DEF SenderSends, NextBlock

\* Writing frames that fit, or losing them.
LEMMA WritingFits ==
  ASSUME Known, NEW es, Fitting(es), SWrites(es), UNCHANGED zpc
  PROVE  SenderSends
<1>1. CASE ~Closed(toS) /\ toR' = toR \o es
  BY <1>1 DEF SenderSends
<1>2. CASE Closed(toS) /\ toR' = toR
  BY <1>2, LostKeeps
<1> QED BY <1>1, <1>2 DEF SWrites, Written

\* A step that writes nothing, and goes on with a block only if one was next.
LEMMA QuietKeeps ==
  ASSUME SQuiet, UNCHANGED <<zpc, fpos>>,
         spc' \in {"data", "ackW", "ackQ", "win"}
           => spc \in {"data", "ackW", "ackQ", "win"}
  PROVE  SenderSends
BY DEF SQuiet, SenderSends, NextBlock

\* What the sender can receive.
LEMMA SenderHears ==
  ASSUME Known, NEW types, SReceives(types)
  PROVE  rxpos \in Nat /\ rxpos % PosMod = rxpos
<1>1. toS \in Seq(Frame) /\ toS # <<>> /\ Head(toS) = toS[1] /\ 1 \in 1 .. Len(toS)
  BY DEF Known, TypeOK, LineTypeOK, SReceives, Arrives
<1>2. rxpos \in Nat
  BY <1>1, ReceivedPosition DEF SReceives, rxpos
<1>3. rxpos < PosMod
  BY <1>1 DEF Known, Labelled, FromRz, SReceives, Arrives, rxpos
<1> QED BY <1>2, <1>3, LineAssumption

\* A ZDATA header announces the block that is read next: the file is sought
\* to its position, or is still there.
LEMMA RestartFits ==
  ASSUME Known, NEW p \in Nat, p % PosMod = p, UNCHANGED zpc,
         SWrites(<<Hdr("ZDATA", p)>>), spc' = "data",
         fpos' = p \/ fpos' >= Len(File)
  PROVE  SenderSends
<1>1. NextBlock(p)'
  BY DEF NextBlock
<1>2. <<Hdr("ZDATA", p)>> \in Seq(Frame) /\ Hdr("ZDATA", p).p = p
  BY FramesAreTyped, ShortSeqs DEF FrameTypes, Hdr
<1>3. Fitting(<<Hdr("ZDATA", p)>>)
  BY <1>1, <1>2 DEF Fitting, StartsAt, GoesOn, InFileBlock, Hdr, NextBlock
<1> QED BY <1>3, WritingFits

\* Every step of the sender sends fitting frames or none.
LEMMA SenderFits ==
  ASSUME Known, Seekable = TRUE, SNext, UNCHANGED zpc
  PROVE  SenderSends
<1> USE DEF SGo, SReturn
<1>1. \A t \in FrameTypes \ {"ZDATA"}, p \in Nat : Fitting(<<Hdr(t, p)>>)
  <2> TAKE t \in FrameTypes \ {"ZDATA"}, p \in Nat
  <2>1. PlainFrame(Hdr(t, p))
    BY FramesAreTyped DEF PlainFrame, Hdr, IsZDATA
  <2> QED BY <2>1, PlainFramesFit
<1>2. CASE SSkipGarbage
  BY <1>2, QuietKeeps DEF SSkipGarbage, progress
<1>3. CASE SInitTop
  <2>1. CASE SQuiet
    BY <1>3, <2>1, QuietKeeps DEF SInitTop, progress
  <2>2. CASE SWrites(<<Hdr("ZRQINIT", 0)>>)
    BY <2>2, <1>1, WritingFits DEF FrameTypes
  <2> QED BY <1>3, <2>1, <2>2 DEF SInitTop
<1>4. CASE SInitZRINIT \/ SInitNoHeader
  BY <1>4, QuietKeeps DEF SInitZRINIT, SInitNoHeader, SInitAgain, progress
<1>5. CASE SInitOther
  <2>1. CASE SQuiet
    BY <1>5, <2>1, QuietKeeps DEF SInitOther, SInitAgain, progress
  <2>2. CASE SWrites(<<Hdr("ZNAK", 0)>>)
    BY <2>2, <1>1, WritingFits DEF FrameTypes
  <2>3. CASE SReceives({"ZCHALLENGE"}) /\ SWrites(<<Hdr("ZACK", rxpos)>>)
    <3>1. Fitting(<<Hdr("ZACK", rxpos)>>)
      BY <2>3, <1>1, SenderHears DEF FrameTypes
    <3> QED BY <2>3, <3>1, WritingFits
  <2> QED BY <1>5, <2>1, <2>2, <2>3 DEF SInitOther
<1>6. CASE SZsinitTop
  <2> DEFINE es == <<Hdr("ZSINIT", 0), IF EscapesCtrl THEN Part(0, 0) ELSE Info>>
  <2>1. PlainFrame(Hdr("ZSINIT", 0)) /\ PlainFrame(Info) /\ PlainFrame(Part(0, 0))
    BY FramesAreTyped DEF PlainFrame, Hdr, Part, Info, FrameTypes, IsZDATA
  <2>2. Fitting(es)
    BY <2>1, PlainFramesFit
  <2> QED BY <1>6, <2>2, WritingFits DEF SZsinitTop
<1>7. CASE SZsinitReply
  BY <1>7, QuietKeeps DEF SZsinitReply, SRetry, progress
<1>8. CASE SFileTop
  <2>1. PlainFrame(Hdr("ZFILE", 0)) /\ PlainFrame(Info)
    BY FramesAreTyped DEF PlainFrame, Hdr, Info, FrameTypes, IsZDATA
  <2>2. Fitting(<<Hdr("ZFILE", 0), Info>>)
    BY <2>1, PlainFramesFit
  <2> QED BY <1>8, <2>2, WritingFits DEF SFileTop
<1>9. CASE SFileReply
  BY <1>9, QuietKeeps DEF SFileReply, SRetry, progress
<1>10. CASE SDiscard
  BY <1>10, QuietKeeps DEF SDiscard, progress
<1>11. CASE SFileCRC
  BY <1>11, <1>1, WritingFits DEF SFileCRC, FrameTypes
<1>12. CASE SFileZRPOS
  <2>1. rxpos \in Nat /\ rxpos % PosMod = rxpos
    BY <1>12, SenderHears DEF SFileZRPOS
  <2>2. /\ SWrites(<<Hdr("ZDATA", rxpos)>>) /\ spc' = "data"
        /\ fpos' = IF rxpos > 0 THEN rxpos ELSE fpos
    BY <1>12 DEF SFileZRPOS, StartData
  <2>3. fpos = 0 \/ fpos >= Len(File)
    BY <1>12 DEF SFileZRPOS, Known, Labelled, AtAnEnd, BeforeData
  <2>4. fpos' = rxpos \/ fpos' >= Len(File)
    BY <2>1, <2>2, <2>3
  <2> QED BY <2>1, <2>2, <2>4, RestartFits
<1>13. CASE SEofZRPOS \/ SAckWSeek
  <2>1. rxpos \in Nat /\ rxpos % PosMod = rxpos
    <3>1. SReceives({"ZRPOS"})
      BY <1>13 DEF SEofZRPOS, SAckWSeek
    <3> QED BY <3>1, SenderHears
  <2>2. SWrites(<<Hdr("ZDATA", rxpos)>>) /\ spc' = "data" /\ fpos' = rxpos
    BY <1>13 DEF SEofZRPOS, SAckWSeek, StartData
  <2> QED BY <2>1, <2>2, RestartFits
<1>14. CASE SBlock
  <2> DEFINE n == ReadLen
             e == Data(fpos, ReadLen, FrameEnd(ReadLen))
  <2>1. SenderTypeOK /\ spc = "data" /\ fpos \in Nat /\ Len(File) \in Nat
    BY <1>14, RzConstants DEF SBlock, Known, TypeOK, SenderTypeOK
  <2>2. /\ n \in Nat /\ (fpos < Len(File) => n > 0 /\ fpos + n <= Len(File))
        /\ (fpos >= Len(File) => n = 0)
    BY <2>1 DEF ReadLen, SenderTypeOK
  <2>3. FrameEnd(n) \in FrameEnds /\ (n = 0 => FrameEnd(n) = "ZCRCE")
    BY DEF FrameEnd, FrameEnds
  <2>4. e.k = "data" /\ e.lo = fpos /\ e.n = n /\ e.end = FrameEnd(n) /\ e \in Frame
    BY <2>1, <2>2, <2>3, FramesAreTyped DEF Data
  <2>5. SWrites(<<e>>) /\ fpos' = fpos + n
    BY <1>14 DEF SBlock
  <2> HIDE DEF e, n
  <2>6. CASE Closed(toS) /\ toR' = toR
    BY <2>6, LostKeeps
  <2>7. CASE ~Closed(toS) /\ toR' = toR \o <<e>>
    <3>1. zpc # "end"
      BY <2>7 DEF Known, Labelled, FromRz
    <3>2. InFileBlock(e)
      BY <2>1, <2>2, <2>3, <2>4 DEF InFileBlock
    <3>3. \A p \in Nat : NextBlock(p) => StartsAt(e, p)
      BY <2>1, <2>2, <2>4, <3>1 DEF NextBlock, StartsAt
    <3>4. ASSUME NEW p \in Nat, p = fpos + n PROVE NextBlock(p)'
      BY <2>5, <3>4 DEF NextBlock
    <3>5. <<e>> \in Seq(Frame) /\ Len(<<e>>) = 1 /\ <<e>>[1] = e /\ <<e>> # <<>>
      BY <2>4
    <3>6. ~IsZDATA(e)
      BY <2>4 DEF IsZDATA
    <3>7. \A f : f = e => NextBlock(f.lo + f.n)'
      BY <2>1, <2>2, <2>4, <3>4
    <3>8. \A es : es = <<e>> => Fitting(es)
      BY <3>2, <3>3, <3>5, <3>6, <3>7 DEF Fitting
    <3> QED BY <2>7, <3>8 DEF SenderSends
  <2> QED BY <2>5, <2>6, <2>7 DEF SWrites, Written
<1>15. CASE SCancelled \/ SWriteFails
  BY <1>15, QuietKeeps DEF SCancelled, SWriteFails, progress
<1>16. CASE SAckW
  <2>1. spc = "ackW" /\ SQuiet /\ UNCHANGED fpos
    BY <1>16 DEF SAckW
  <2> QED BY <2>1, QuietKeeps
<1>17. CASE SAckQ
  <2>1. spc = "ackQ" /\ SQuiet /\ UNCHANGED fpos
    BY <1>17 DEF SAckQ
  <2> QED BY <2>1, QuietKeeps
<1>18. CASE SWinWait
  <2>1. SQuiet /\ UNCHANGED fpos
    BY <1>18 DEF SWinWait
  <2>2. spc = "win" \/ spc' \in {"ret", "eof", "winEnd"}
    BY <1>18 DEF SWinWait, SRetry
  <2> QED BY <2>1, <2>2, QuietKeeps
<1>19. CASE SEofTop
  <2>1. Fitting(<<Hdr("ZEOF", spos)>>)
    BY <1>1 DEF Known, TypeOK, SenderTypeOK, FrameTypes
  <2> QED BY <1>19, <2>1, WritingFits DEF SEofTop
<1>20. CASE SEofReply
  BY <1>20, QuietKeeps DEF SEofReply, progress
<1>21. CASE SClose
  <2>1. toR' = toR \o <<Eof>>
    BY <1>21 DEF SClose, Known, TypeOK, LineTypeOK
  <2>2. PlainFrame(Eof)
    BY FramesAreTyped DEF PlainFrame, Eof, IsZDATA
  <2>3. Fitting(<<Eof>>)
    BY <2>2, PlainFramesFit
  <2> QED BY <2>1, <2>3 DEF SenderSends
<1> QED
  BY <1>2, <1>3, <1>4, <1>5, <1>6, <1>7, <1>8, <1>9, <1>10, <1>11, <1>12, <1>13,
     <1>14, <1>15, <1>16, <1>17, <1>18, <1>19, <1>20, <1>21
  DEF SNext, SCall

\* The positions frames carry are numbers.
LEMMA FramePositions ==
  ASSUME NEW e \in Frame
  PROVE  /\ IsZDATA(e) => e.p \in Nat
         /\ GoesOn(e) => e.lo \in Nat /\ e.n \in Nat /\ e.lo + e.n \in Nat
<1>1. IsZDATA(e) => e.p \in Nat
  BY DEF IsZDATA, Frame, Info, Nul, BadHdr, Eof
<1>2. GoesOn(e) => e.lo \in Nat /\ e.n \in Nat
  BY BlockRange DEF GoesOn, IsBlock
<1> QED BY <1>1, <1>2

\* What is right about one frame of the stream.
LabelledFrame(i, e) ==
  /\ InFileBlock(e)
  /\ IsZDATA(e) => Follows(i, e.p)
  /\ GoesOn(e) => Follows(i, e.lo + e.n)

LEMMA LabelsPrimed ==
  ASSUME \A i \in 1 .. Len(toR') : \A e : e = toR'[i] => LabelledFrame(i, e)'
  PROVE  Labels'
BY DEF Labels, LabelledFrame, InFileBlock, IsZDATA, GoesOn, Follows, StartsAt, NextBlock

\* Appending fitting frames keeps the labels of the stream right.
LEMMA SenderKeepsLabels ==
  ASSUME toR \in Seq(Frame), Labels, SenderSends
  PROVE  Labels' /\ \A p \in Nat : Follows(0, p) => Follows(0, p)'
<1>1. /\ Len(toR) \in Nat
      /\ \A i \in 1 .. Len(toR) : toR[i] \in Frame /\ LabelledFrame(i, toR[i])
  BY DEF Labels, LabelledFrame
<1>2. CASE toR' = toR /\ \A p \in Nat : NextBlock(p) => NextBlock(p)'
  <2>1. ASSUME NEW i \in 0 .. Len(toR), NEW p \in Nat, Follows(i, p)
        PROVE  Follows(i, p)'
    BY <1>2, <2>1 DEF Follows, StartsAt
  <2>2. ASSUME NEW i \in 1 .. Len(toR'), NEW e, e = toR'[i]
        PROVE  LabelledFrame(i, e)'
    <3>1. e \in Frame /\ LabelledFrame(i, e) /\ i \in 0 .. Len(toR)
      BY <1>1, <1>2, <2>2
    <3> QED BY <2>1, <3>1, FramePositions DEF LabelledFrame
  <2> QED BY <1>1, <1>2, <2>1, <2>2, LabelsPrimed
<1>3. ASSUME NEW es, Fitting(es), toR' = toR \o es
      PROVE  Labels' /\ \A p \in Nat : Follows(0, p) => Follows(0, p)'
  <2>1. es \in Seq(Frame) /\ Len(es) \in Nat /\ Len(es) > 0
    BY <1>3 DEF Fitting
  <2>2. /\ Len(toR') = Len(toR) + Len(es)
        /\ \A i \in 1 .. Len(toR) + Len(es) :
              toR'[i] = IF i <= Len(toR) THEN toR[i] ELSE es[i - Len(toR)]
    BY <1>1, <1>3, <2>1, ConcatProperties
  <2>3. ASSUME NEW i \in 0 .. Len(toR), NEW p \in Nat, Follows(i, p)
        PROVE  Follows(i, p)'
    <3>1. CASE i = Len(toR)
      <4>1. toR'[i + 1] = es[1] /\ i # Len(toR')
        BY <1>1, <2>1, <2>2, <3>1
      <4>2. StartsAt(es[1], p)
        BY <1>3, <2>3, <3>1 DEF Fitting, Follows
      <4> QED BY <4>1, <4>2 DEF Follows, StartsAt
    <3>2. CASE i < Len(toR)
      <4>1. toR'[i + 1] = toR[i + 1] /\ i # Len(toR')
        BY <1>1, <2>1, <2>2, <3>2
      <4> QED BY <2>3, <3>2, <4>1 DEF Follows, StartsAt
    <3> QED BY <1>1, <3>1, <3>2
  <2>4. ASSUME NEW i \in 1 .. Len(toR'), NEW e, e = toR'[i]
        PROVE  LabelledFrame(i, e)'
    <3>1. CASE i <= Len(toR)
      <4>1. i \in 1 .. Len(toR) /\ e = toR[i] /\ i \in 0 .. Len(toR)
        BY <1>1, <2>1, <2>2, <2>4, <3>1
      <4>2. e \in Frame /\ LabelledFrame(i, e)
        BY <1>1, <4>1
      <4> QED BY <2>3, <4>1, <4>2, FramePositions DEF LabelledFrame
    <3>2. CASE i > Len(toR)
      <4>1. e = es[i - Len(toR)] /\ i - Len(toR) \in 1 .. Len(es)
        BY <1>1, <2>1, <2>2, <2>4, <3>2
      <4>2. i - Len(toR) = Len(es) => i = Len(toR')
        BY <1>1, <2>1, <2>2
      <4>3. /\ InFileBlock(e)
            /\ IsZDATA(e) => i = Len(toR') /\ NextBlock(e.p)'
            /\ GoesOn(e) => i = Len(toR') /\ NextBlock(e.lo + e.n)'
        BY <1>3, <4>1, <4>2 DEF Fitting
      <4> QED BY <4>3 DEF LabelledFrame, Follows
    <3> QED BY <1>1, <2>1, <2>2, <3>1, <3>2
  <2>5. Labels'
    BY <2>4, LabelsPrimed
  <2> QED BY <1>1, <2>3, <2>5
<1> QED BY <1>2, <1>3 DEF SenderSends

-----------------------------------------------------------------------------
\* Reading and damage.

\* What was promised about the frame after the first i + d frames of the
\* stream still holds of the frame after the first i of what is left.
LEMMA ShorterFollows ==
  ASSUME toR \in Seq(Frame), toR' \in Seq(Frame),
         NEW d \in {0, 1, 2}, Shorter(toR, toR', d),
         \A p \in Nat : NextBlock(p) => NextBlock(p)',
         NEW i \in 0 .. Len(toR'), NEW p \in Nat, Follows(i + d, p)
  PROVE  Follows(i, p)'
<1>1. Len(toR) \in Nat /\ Len(toR') \in Nat /\ Len(toR') = Len(toR) - d
  BY DEF Shorter
<1>2. CASE i = Len(toR')
  BY <1>1, <1>2 DEF Follows
<1>3. CASE i < Len(toR')
  <2>1. i + 1 \in 1 .. Len(toR') /\ i + d # Len(toR) /\ i # Len(toR')
    BY <1>1, <1>3
  <2>2. StartsAt(toR[i + d + 1], p)
    BY <2>1 DEF Follows
  <2>3. \/ toR'[i + 1] = toR[i + 1 + d]
        \/ toR'[i + 1].k # "data"
    BY <2>1 DEF Shorter
  <2>4. i + d + 1 = i + 1 + d
    OBVIOUS
  <2>5. StartsAt(toR'[i + 1], p)
    BY <2>2, <2>3, <2>4 DEF StartsAt
  <2> QED BY <2>1, <2>5 DEF Follows, StartsAt
<1> QED BY <1>1, <1>2, <1>3

\* Shortening the stream to rz keeps its labels right.
LEMMA ShorterKeepsLabels ==
  ASSUME toR \in Seq(Frame), toR' \in Seq(Frame),
         NEW d \in {0, 1, 2}, Shorter(toR, toR', d),
         \A p \in Nat : NextBlock(p) => NextBlock(p)',
         Labels
  PROVE  Labels'
<1>1. Len(toR) \in Nat /\ Len(toR') \in Nat /\ Len(toR') = Len(toR) - d
  BY DEF Shorter
<1>2. ASSUME NEW i \in 1 .. Len(toR'), NEW e, e = toR'[i]
      PROVE  LabelledFrame(i, e)'
  <2>1. CASE e.k \notin {"data", "hdr"}
    BY <2>1 DEF IsZDATA, GoesOn, InFileBlock, LabelledFrame
  <2>2. CASE e = toR[i + d]
    <3>1. i + d \in 1 .. Len(toR) /\ i \in 0 .. Len(toR')
      BY <1>1
    <3>2. /\ e \in Frame /\ InFileBlock(e)
          /\ IsZDATA(e) => Follows(i + d, e.p)
          /\ GoesOn(e) => Follows(i + d, e.lo + e.n)
      BY <2>2, <3>1 DEF Labels
    <3> QED BY <3>1, <3>2, FramePositions, ShorterFollows DEF LabelledFrame
  <2> QED BY <1>2, <2>1, <2>2 DEF Shorter
<1> QED BY <1>2, LabelsPrimed

\* A stream read by the sender or damaged is one that rz may have shortened.
LEMMA ThinnedIsShorter ==
  ASSUME NEW ch \in Seq(Frame), NEW ch2 \in Seq(Frame), NEW d \in {0, 1},
         Thinned(ch, ch2, d)
  PROVE  Shorter(ch, ch2, d)
BY DEF Thinned, Shorter

\* So is what rz said.
LEMMA ThinnedFromRz ==
  ASSUME toS \in Seq(Frame), toS' \in Seq(Frame),
         NEW d \in {0, 1}, Thinned(toS, toS', d), UNCHANGED zpc, FromRz
  PROVE  FromRz'
<1>1. Len(toS) \in Nat /\ Len(toS') \in Nat /\ Len(toS') = Len(toS) - d
  BY DEF Thinned
<1>2. zpc' = "end" => Closed(toS')
  BY ThinnedStaysClosed DEF FromRz
<1>3. ASSUME NEW i \in 1 .. Len(toS'), NEW e, e = toS'[i]
      PROVE  (e.k = "hdr" => e.p < PosMod) /\ (e.k = "eof" => zpc' = "end")
  <2>1. i + d \in 1 .. Len(toS)
    BY <1>1
  <2>2. e = toS[i + d] \/ e.k \notin {"hdr", "eof"}
    BY <1>3 DEF Thinned
  <2> QED BY <2>1, <2>2 DEF FromRz
<1> QED BY <1>2, <1>3 DEF FromRz, Closed

\* One more frame at the end of a stream.
LEMMA OneMore ==
  ASSUME NEW ch \in Seq(Frame), NEW e \in Frame
  PROVE  /\ ch \o <<e>> \in Seq(Frame)
         /\ Len(ch \o <<e>>) = Len(ch) + 1
         /\ \A i \in 1 .. Len(ch) + 1 :
              (ch \o <<e>>)[i] = IF i <= Len(ch) THEN ch[i] ELSE e
<1>1. <<e>> \in Seq(Frame) /\ Len(<<e>>) = 1 /\ <<e>>[1] = e
  OBVIOUS
<1>2. /\ ch \o <<e>> \in Seq(Frame) /\ Len(ch \o <<e>>) = Len(ch) + 1
      /\ \A i \in 1 .. Len(ch) + 1 :
           (ch \o <<e>>)[i] = IF i <= Len(ch) THEN ch[i] ELSE <<e>>[i - Len(ch)]
  BY <1>1, ConcatProperties
<1>3. \A i \in 1 .. Len(ch) + 1 : i > Len(ch) => i - Len(ch) = 1
  OBVIOUS
<1> QED BY <1>1, <1>2, <1>3

\* Headers that fit, and the end once it has come, are what rz may say.
LEMMA SayingKeeps ==
  ASSUME toS \in Seq(Frame), FromRz, zpc # "end",
         \/ toS' = toS /\ zpc' # "end"
         \/ zpc' # "end" /\ \E e \in Frame : /\ e.k = "hdr" /\ e.p < PosMod
                                             /\ toS' = toS \o <<e>>
         \/ zpc' = "end" /\ toS' = toS \o <<Eof>>
  PROVE  FromRz'
<1>1. Len(toS) \in Nat
  OBVIOUS
<1>2. \A i \in 1 .. Len(toS) : toS[i].k = "hdr" => toS[i].p < PosMod
  BY DEF FromRz
<1>3. \A i \in 1 .. Len(toS) : toS[i].k # "eof"
  BY DEF FromRz
<1>4. CASE toS' = toS /\ zpc' # "end"
  BY <1>2, <1>3, <1>4 DEF FromRz
<1>5. ASSUME zpc' # "end",
             NEW e \in Frame, e.k = "hdr", e.p < PosMod, toS' = toS \o <<e>>
      PROVE  FromRz'
  <2>1. ASSUME NEW i \in 1 .. Len(toS'), NEW f, f = toS'[i]
        PROVE  (f.k = "hdr" => f.p < PosMod) /\ f.k # "eof"
    <3>1. i \in 1 .. Len(toS) + 1 /\ f = IF i <= Len(toS) THEN toS[i] ELSE e
      BY <1>5, <2>1, OneMore
    <3> QED BY <1>1, <1>2, <1>3, <1>5, <3>1
  <2> QED BY <1>5, <2>1 DEF FromRz
<1>6. CASE zpc' = "end" /\ toS' = toS \o <<Eof>>
  <2>1. Eof \in Frame /\ Eof.k = "eof"
    BY FramesAreTyped DEF Eof
  <2>2. /\ Len(toS') = Len(toS) + 1 /\ toS'[Len(toS) + 1].k = "eof"
        /\ toS' \in Seq(Frame)
    BY <1>1, <1>6, <2>1, OneMore
  <2>3. Closed(toS')
    BY <1>1, <2>2 DEF Closed
  <2>4. ASSUME NEW i \in 1 .. Len(toS'), NEW f, f = toS'[i]
        PROVE  f.k = "hdr" => f.p < PosMod
    <3>1. i \in 1 .. Len(toS) + 1 /\ f = IF i <= Len(toS) THEN toS[i] ELSE Eof
      BY <1>6, <2>1, <2>4, OneMore
    <3> QED BY <1>1, <1>2, <2>1, <3>1
  <2> QED BY <1>6, <2>3, <2>4 DEF FromRz, Closed
<1> QED BY <1>4, <1>5, <1>6

\* What rz reads as the next block is the one it expects.
LEMMA RzCopies ==
  ASSUME Known, Rz, toR' \in Seq(Frame),
         \A p \in Nat : NextBlock(p) => NextBlock(p)'
  PROVE  AtRz'
<1> DEFINE m == Len(zcopy)
<1>1. /\ toR \in Seq(Frame) /\ Len(toR) \in Nat /\ LineTypeOK
      /\ zcopy \in Seq(Nat) /\ Len(zcopy) \in Nat
      /\ zcopy = [i \in 1 .. Len(zcopy) |-> i - 1] /\ Len(zcopy) <= Len(File)
      /\ zpc = "data" => Follows(0, Len(zcopy))
      /\ RzTypeOK /\ Len(File) \in Nat
  BY RzConstants DEF Known, TypeOK, LineTypeOK, RzTypeOK, Labelled, AtRz
<1>2. ASSUME zcopy' = zcopy, zpc' # "data" PROVE AtRz'
  BY <1>1, <1>2 DEF AtRz
<1>3. CASE RzGreets
  BY <1>2, <1>3 DEF RzGreets, NoFile
<1>4. CASE RzFrame
  <2>1. CASE zpc' # "data"
    BY <1>2, <1>4, <2>1 DEF RzFrame
  <2>2. CASE zpc' = "data"
    <3>1. /\ Heard("ZDATA") /\ RzReads(1) /\ Head(toR).p = Len(zcopy)
          /\ zcopy' = zcopy
      BY <1>4, <2>2 DEF RzFrame
    <3>2. Len(toR) >= 1 /\ Head(toR) = toR[1] /\ IsZDATA(toR[1]) /\ 1 \in 1 .. Len(toR)
      BY <1>1, <3>1 DEF Heard, IsZDATA
    <3>3. Shorter(toR, toR', 1)
      BY <1>1, <3>1, <3>2, RzReading
    <3>4. Follows(0 + 1, Len(zcopy))
      BY <3>1, <3>2 DEF Known, Labelled, Labels
    <3>5. 0 \in 0 .. Len(toR')
      OBVIOUS
    <3>6. ASSUME NEW p \in Nat, p = Len(zcopy) PROVE Follows(0, p)'
      BY <1>1, <3>3, <3>4, <3>5, <3>6, ShorterFollows
    <3>7. Follows(0, Len(zcopy))'
      <4>1. PICK p \in Nat : p = Len(zcopy)
        BY <1>1
      <4>2. Follows(0, p)' /\ p = Len(zcopy')
        BY <3>1, <3>6, <4>1
      <4> QED BY <4>2 DEF Follows, NextBlock, StartsAt
    <3> QED BY <1>1, <3>1, <3>7 DEF AtRz
  <2> QED BY <2>1, <2>2
<1>5. CASE RzBlock
  <2> DEFINE e == Head(toR)
  <2>1. zpc = "data" /\ toR # <<>> /\ RzReads(1) /\ Len(toR) >= 1 /\ 1 \in 1 .. Len(toR)
        /\ e = toR[1] /\ e \in Frame
    BY <1>1, <1>5 DEF RzBlock
  <2>2. CASE e.k # "data"
    BY <1>2, <1>5, <2>1, <2>2 DEF RzBlock
  <2>3. CASE e.k = "data"
    <3>1. e.lo \in Nat /\ e.n \in Nat
      BY <2>1, <2>3, BlockRange DEF IsBlock
    <3>2. e.lo = Len(zcopy) \/ e.n = 0
      BY <1>1, <2>1, <2>3 DEF Follows, StartsAt
    <3>3. (e.n = 0 /\ e.end = "ZCRCE") \/ (e.n > 0 /\ e.lo + e.n <= Len(File))
      <4>1. InFileBlock(e)
        BY <2>1 DEF Known, Labelled, Labels
      <4> HIDE DEF e
      <4> QED BY <2>3, <3>1, <4>1 DEF InFileBlock
    <3>4. zcopy' = zcopy \o [i \in 1 .. e.n |-> e.lo + i - 1]
          /\ zpc' = IF e.end \in {"ZCRCG", "ZCRCQ"} THEN "data" ELSE "file"
      BY <1>5, <2>3 DEF RzBlock
    <3> HIDE DEF e
    <3>5. [i \in 1 .. e.n |-> e.lo + i - 1] = [i \in 1 .. e.n |-> Len(zcopy) + i - 1]
      <4>1. CASE e.n = 0
        <5>1. 1 .. e.n = {}
          BY <4>1
        <5> QED BY <5>1
      <4>2. CASE e.lo = Len(zcopy)
        BY <4>2
      <4> QED BY <3>2, <4>1, <4>2
    <3>6. zcopy' = [i \in 1 .. Len(zcopy) + e.n |-> i - 1]
      BY <1>1, <3>1, <3>4, <3>5, PrefixExtended
    <3>7. Len(zcopy) + e.n \in Nat /\ Len(zcopy) + e.n <= Len(File)
      BY <1>1, <3>1, <3>2, <3>3
    <3>8. Len(zcopy') = Len(zcopy) + e.n
      BY <3>6, <3>7
    <3>9. ASSUME zpc' = "data" PROVE Follows(0, Len(zcopy))'
      <4>1. GoesOn(e) /\ e.n > 0 /\ e.lo = Len(zcopy)
        BY <2>3, <3>1, <3>2, <3>3, <3>4, <3>9 DEF GoesOn
      <4>2. Follows(0 + 1, Len(zcopy) + e.n)
        BY <2>1, <4>1 DEF Known, Labelled, Labels
      <4>3. Shorter(toR, toR', 1)
        BY <1>1, <2>1, RzReading
      <4>4. 0 \in 0 .. Len(toR')
        OBVIOUS
      <4>5. PICK p \in Nat : p = Len(zcopy) + e.n
        BY <3>7
      <4>6. Follows(0, p)' /\ p = Len(zcopy')
        BY <1>1, <3>8, <4>2, <4>3, <4>4, <4>5, ShorterFollows
      <4> QED BY <4>6 DEF Follows, NextBlock, StartsAt
    <3>10. zcopy' = [i \in 1 .. Len(zcopy') |-> i - 1] /\ Len(zcopy') <= Len(File)
      BY <3>6, <3>7, <3>8
    <3> QED BY <3>9, <3>10 DEF AtRz
  <2> QED BY <2>2, <2>3
<1>6. CASE RzSkips
  BY <1>2, <1>6 DEF RzSkips, zvars
<1>7. CASE RzTimeout
  BY <1>2, <1>7 DEF RzTimeout
<1>8. CASE RzCloses
  BY <1>2, <1>8 DEF RzCloses
<1> QED BY <1>3, <1>4, <1>5, <1>6, <1>7, <1>8 DEF Rz

\* Before the data only the CRC of the file moves the read position.
LEMMA SenderBefore ==
  ASSUME SNext, AtAnEnd
  PROVE  AtAnEnd'
<1> USE DEF SGo, SReturn, AtAnEnd, BeforeData
<1>1. CASE SFileCRC
  BY <1>1, RzConstants DEF SFileCRC
<1>2. CASE \/ SSkipGarbage \/ SCancelled \/ SWriteFails \/ SClose
           \/ SZsinitTop \/ SFileTop \/ SEofTop \/ SDiscard
  BY <1>2 DEF SSkipGarbage, SCancelled, SWriteFails, SClose, SZsinitTop,
              SFileTop, SEofTop, SDiscard, progress
<1>3. CASE SInitTop \/ SInitZRINIT \/ SInitOther \/ SInitNoHeader
  BY <1>3 DEF SInitTop, SInitZRINIT, SInitOther, SInitNoHeader, SInitAgain, progress
<1>4. CASE SZsinitReply \/ SFileReply \/ SEofReply
  BY <1>4 DEF SZsinitReply, SFileReply, SEofReply, SRetry, progress
<1>5. CASE SFileZRPOS \/ SEofZRPOS \/ SAckWSeek
  BY <1>5 DEF SFileZRPOS, SEofZRPOS, SAckWSeek, StartData
<1>6. CASE SBlock
  BY <1>6 DEF SBlock, SWindow
<1>7. CASE SAckW \/ SAckQ
  BY <1>7 DEF SAckW, SAckQ, Junk, SWindow
<1>8. CASE SWinWait
  BY <1>8 DEF SWinWait, SRetry
<1> QED BY <1>1, <1>2, <1>3, <1>4, <1>5, <1>6, <1>7, <1>8 DEF SNext, SCall

\* rz is handed the next block of its file while the promise about it stands.
LEMMA StillAtRz ==
  ASSUME AtRz, UNCHANGED <<zpc, zcopy>>, Len(zcopy) \in Nat,
         \A p \in Nat : Follows(0, p) => Follows(0, p)'
  PROVE  AtRz'
<1>1. zpc = "data" => Follows(0, Len(zcopy))'
  <2>1. PICK p \in Nat : p = Len(zcopy)
    OBVIOUS
  <2>2. p = Len(zcopy')
    BY <2>1
  <2> QED BY <2>1, <2>2 DEF AtRz, Follows, NextBlock, StartsAt
<1>2. zcopy' = [i \in 1 .. Len(zcopy') |-> i - 1] /\ Len(zcopy') <= Len(File)
  BY DEF AtRz
<1> QED BY <1>1, <1>2 DEF AtRz

\* Every step keeps the labels: whatever rz asks for, and whatever is damaged
\* or strays, a block in the stream is the one announced.
LEMMA LabelsKept ==
  ASSUME TypeOK, TypeOK', Labelled, Seekable = TRUE, [Next]_vars
  PROVE  Labelled'
<1>0. /\ Known /\ LineTypeOK /\ SenderTypeOK /\ RzTypeOK /\ Len(zcopy) \in Nat
      /\ toR \in Seq(Frame) /\ toS \in Seq(Frame)
      /\ toR' \in Seq(Frame) /\ toS' \in Seq(Frame)
      /\ AtAnEnd /\ Labels /\ FromRz /\ AtRz
  BY DEF Known, TypeOK, LineTypeOK, RzTypeOK, Labelled
<1>1. CASE Sender
  <2>1. SNext /\ UNCHANGED <<zpc, zcopy>>
    BY <1>1 DEF Sender, zvars
  <2>2. SenderSends
    BY <1>0, <2>1, SenderFits
  <2>3. Labels' /\ \A p \in Nat : Follows(0, p) => Follows(0, p)'
    BY <1>0, <2>2, SenderKeepsLabels
  <2>4. FromRz'
    <3>1. PICK d \in {0, 1} : Thinned(toS, toS', d)
      BY <1>0, <2>1, SenderConsumes, ReadingThins
    <3> QED BY <1>0, <2>1, <3>1, ThinnedFromRz
  <2>5. AtRz'
    BY <1>0, <2>1, <2>3, StillAtRz
  <2>6. AtAnEnd'
    BY <1>0, <2>1, SenderBefore
  <2> QED BY <2>3, <2>4, <2>5, <2>6 DEF Labelled
<1>2. CASE Peer
  <2>1. Rz /\ UNCHANGED <<spc, fpos>>
    BY <1>2 DEF Peer, svars, progress
  <2>2. /\ zpc # "end"
        /\ \/ toS' = toS /\ zpc' # "end"
           \/ zpc' # "end" /\ \E e \in Frame : /\ e.k = "hdr" /\ e.p < PosMod
                                               /\ toS' = toS \o <<e>>
           \/ zpc' = "end" /\ toS' = toS \o <<Eof>>
    BY <1>0, <2>1, RzTells DEF Says
  <2>3. \A p \in Nat : NextBlock(p) => NextBlock(p)'
    BY <2>1, <2>2 DEF NextBlock
  <2>4. PICK d \in {0, 1, 2} : Shorter(toR, toR', d)
    BY <1>0, <2>1, RzConsumes
  <2>5. Labels'
    BY <1>0, <2>3, <2>4, ShorterKeepsLabels
  <2>6. FromRz'
    BY <1>0, <2>2, SayingKeeps
  <2>7. AtRz'
    BY <1>0, <2>1, <2>3, RzCopies
  <2>8. AtAnEnd'
    BY <1>0, <2>1 DEF AtAnEnd
  <2> QED BY <2>5, <2>6, <2>7, <2>8 DEF Labelled
<1>3. CASE Garble /\ UNCHANGED <<svars, zvars, returned>>
  <2>1. UNCHANGED <<spc, fpos, zpc, zcopy>>
    BY <1>3 DEF svars, progress, zvars
  <2>2. \A p \in Nat : NextBlock(p) => NextBlock(p)'
    BY <2>1 DEF NextBlock
  <2>3. Thinned(toR, toR', 0) /\ Thinned(toS, toS', 0)
    BY <1>0, <1>3, GarbleSpoils, DamageThins
  <2>4. Shorter(toR, toR', 0)
    BY <1>0, <2>3, ThinnedIsShorter
  <2>5. Labels'
    BY <1>0, <2>2, <2>4, ShorterKeepsLabels
  <2>6. FromRz'
    BY <1>0, <2>1, <2>3, ThinnedFromRz
  <2>7. \A p \in Nat : Follows(0, p) => Follows(0, p)'
    <3>1. 0 \in 0 .. Len(toR') /\ 0 + 0 = 0
      BY <1>0
    <3> QED BY <1>0, <2>2, <2>4, <3>1, ShorterFollows
  <2>8. AtRz'
    BY <1>0, <2>1, <2>7, StillAtRz
  <2>9. AtAnEnd'
    BY <1>0, <2>1 DEF AtAnEnd
  <2> QED BY <2>5, <2>6, <2>8, <2>9 DEF Labelled
<1>4. CASE Stray /\ UNCHANGED <<faults, svars, returned>>
  <2>1. UNCHANGED <<spc, fpos, toR, zpc, zcopy>>
    BY <1>4 DEF Stray, svars, progress
  <2>2. FromRz'
    BY <1>0, <1>4, <2>1, StraysTell, SayingKeeps
  <2>3. AtAnEnd' /\ Labels' /\ AtRz'
    BY <1>0, <2>1 DEF AtAnEnd, Labels, AtRz, InFileBlock, IsZDATA, GoesOn,
       Follows, NextBlock, StartsAt
  <2> QED BY <2>2, <2>3 DEF Labelled
<1>5. CASE SshReturn \/ SshCancelled \/ UNCHANGED vars
  <2>1. UNCHANGED <<spc, fpos, toR, toS, zpc, zcopy>>
    BY <1>5 DEF SshReturn, SshCancelled, vars, line, svars, progress, zvars
  <2>2. AtAnEnd' /\ Labels' /\ AtRz' /\ FromRz'
    BY <1>0, <2>1 DEF AtAnEnd, Labels, AtRz, FromRz, Closed, InFileBlock,
       IsZDATA, GoesOn, Follows, NextBlock, StartsAt
  <2> QED BY <2>2 DEF Labelled
<1> QED BY <1>1, <1>2, <1>3, <1>4, <1>5 DEF Next, Line, Done

\* Labelled holds in every state, for every file that can be sought.
LEMMA AlwaysLabelled ==
  ASSUME Seekable = TRUE
  PROVE  FairSpec => []Labelled
<1>1. Init => Labelled
  <2> SUFFICES ASSUME Init PROVE Labelled
    OBVIOUS
  <2>1. /\ toR = <<>> /\ toS = <<Hdr("ZRINIT", 0)>> /\ spc = "init" /\ fpos = 0
        /\ zpc = "idle" /\ zcopy = <<>>
    BY DEF Init, SenderInit
  <2>2. AtAnEnd /\ Labels
    BY <2>1 DEF AtAnEnd, Labels
  <2>3. AtRz
    <3>1. zcopy = [i \in 1 .. Len(zcopy) |-> i - 1] /\ Len(zcopy) = 0
      BY <2>1
    <3> QED BY <2>1, <3>1, RzConstants DEF AtRz
  <2>4. FromRz
    <3>1. /\ Len(toS) = 1 /\ \A i \in 1 .. Len(toS) : toS[i] = Hdr("ZRINIT", 0)
      BY <2>1
    <3>2. Hdr("ZRINIT", 0).k = "hdr" /\ Hdr("ZRINIT", 0).p < PosMod
      BY LineAssumption DEF Hdr
    <3> QED BY <2>1, <3>1, <3>2 DEF FromRz
  <2> QED BY <2>2, <2>3, <2>4 DEF Labelled
<1>2. TypeOK /\ TypeOK' /\ Labelled /\ [Next]_vars => Labelled'
  BY LabelsKept
<1> QED BY <1>1, <1>2, TypeCorrect, PTL DEF FairSpec

\* A ZDATA header never labels the wrong bytes, whatever positions the peer
\* asks for, with a window or without, and though the CRC of the file was
\* asked for first (sender.go:707-720, 812-829, 913-923).
THEOREM LabelsMatch == ASSUME Seekable = TRUE PROVE FairSpec => []FramesLabelled
<1>1. TypeOK /\ Labelled => FramesLabelled
  <2> SUFFICES ASSUME TypeOK, Labelled, NEW i \in 1 .. Len(toR) - 1,
                      IsZDATA(toR[i]), toR[i + 1].k = "data", toR[i + 1].n > 0
               PROVE  toR[i].p = toR[i + 1].lo
    BY DEF FramesLabelled, IsZDATA
  <2>1. i \in 1 .. Len(toR) /\ i # Len(toR)
    BY DEF TypeOK, LineTypeOK
  <2> QED BY <2>1 DEF Labelled, Labels, Follows, StartsAt
<1> QED BY <1>1, TypeCorrect, AlwaysLabelled, PTL

\* rz writes a prefix of the file although it cannot see which bytes a
\* subpacket holds (sender.go:713-720, 806-823, 912-921).
THEOREM PrefixAtRz == ASSUME Seekable = TRUE PROVE FairSpec => []RzWritesPrefix
<1>1. Labelled => RzWritesPrefix
  BY DEF Labelled, AtRz, RzWritesPrefix
<1> QED BY <1>1, AlwaysLabelled, PTL

-----------------------------------------------------------------------------
\* The answers.  A sender that streams a file that can be sought and fits a
\* header, and a peer that does not ask for CRCs and sends no frames of this
\* file's transfer out of place.
Plain ==
  /\ Seekable = TRUE /\ Len(File) < PosMod
  /\ WindowSize = 0 \/ CanFDX = FALSE
  /\ MayAskCRC = FALSE
  /\ StrayTypes \cap {"ZACK", "ZRINIT", "ZRPOS", "ZCRC"} = {}

\* Requests lie in the file, and nobody asks for a CRC.
Requests ==
  \A i \in 1 .. Len(toS) : toS[i].k = "hdr" =>
    toS[i].t # "ZCRC" /\ (toS[i].t = "ZRPOS" => toS[i].p <= Len(File))

\* The first request for a position starts the data.
NoDataYet ==
  /\ zpc # "asked"
  /\ zpc = "idle" =>
       spc \notin InData /\ \A i \in 1 .. Len(toS) : ~Asks(toS[i])

\* rz is done only after the end of the file.
HasAll == zpc \in {"done", "end"} /\ Len(zcopy) = Len(File)
IsZEOF(e) == e.k = "hdr" /\ e.t = "ZEOF"
ZEOFAtEnd ==
  /\ \A i \in 1 .. Len(toR) : IsZEOF(toR[i]) => toR[i].p = Len(File)
  /\ zpc = "done" => HasAll

\* An answer that the sender reads with data under way is the answer of an rz
\* that has the whole file.
Answered ==
  /\ \A i \in 1 .. Len(toS) : Answers(toS[i]) /\ InFile(i) => HasAll
  /\ sres = "ok" => HasAll

Delivering ==
  /\ ReaderInStep /\ Requests /\ NoDataYet /\ ZEOFAtEnd
  /\ swin = 0 /\ Streaming /\ AsksNothing(toR) /\ Answered

\* The sender sends a ZEOF with the position it reached.
LEMMA SenderSendsZEOF ==
  ASSUME LineTypeOK, SenderTypeOK, SNext
  PROVE  \/ toR' = toR
         \/ \E es \in Seq(Frame) :
              /\ toR' = toR \o es
              /\ \A i \in 1 .. Len(es) : IsZEOF(es[i]) =>
                   spc = "eof" /\ es[i].p = spos % PosMod
<1> DEFINE Fine(es) ==
             \A i \in 1 .. Len(es) : IsZEOF(es[i]) =>
               spc = "eof" /\ es[i].p = spos % PosMod
           Sends == toR' = toR \/ \E es \in Seq(Frame) : toR' = toR \o es /\ Fine(es)
<1> SUFFICES Sends
  OBVIOUS
<1>1. ASSUME NEW es \in Seq(Frame), Fine(es), SWrites(es) PROVE Sends
  BY <1>1 DEF SWrites, Written
<1>2. \A t \in FrameTypes \ {"ZEOF"}, p \in Nat :
        <<Hdr(t, p)>> \in Seq(Frame) /\ Fine(<<Hdr(t, p)>>)
  BY FramesAreTyped, ShortSeqs DEF Hdr, IsZEOF
<1> HIDE DEF Fine
<1>3. ASSUME NEW t \in FrameTypes \ {"ZEOF"}, NEW p \in Nat, SWrites(<<Hdr(t, p)>>)
      PROVE  Sends
  BY <1>1, <1>2, <1>3
<1>4. ASSUME NEW types, SReceives(types) PROVE rxpos \in Nat
  BY <1>4, ReceivedPosition DEF SReceives, rxpos, LineTypeOK
<1>5. CASE toR' = toR
  BY <1>5
<1> HIDE DEF Sends
<1>6. CASE \/ SSkipGarbage \/ SDiscard \/ SCancelled \/ SWriteFails
           \/ SInitZRINIT \/ SInitNoHeader \/ SZsinitReply \/ SFileReply
           \/ SAckW \/ SAckQ \/ SWinWait \/ SEofReply
  BY <1>5, <1>6 DEF SSkipGarbage, SDiscard, SCancelled, SWriteFails, SInitZRINIT,
     SInitNoHeader, SZsinitReply, SFileReply, SAckW, SAckQ, SWinWait, SEofReply, SQuiet
<1>7. CASE SInitTop
  BY <1>3, <1>5, <1>7 DEF SInitTop, SQuiet, FrameTypes
<1>8. CASE SInitOther
  BY <1>3, <1>4, <1>5, <1>8 DEF SInitOther, SQuiet, FrameTypes
<1>9. CASE SFileCRC
  BY <1>3, <1>9 DEF SFileCRC, FrameTypes
<1>10. CASE SFileZRPOS \/ SEofZRPOS \/ SAckWSeek
  BY <1>3, <1>4, <1>10 DEF SFileZRPOS, SEofZRPOS, SAckWSeek, StartData, FrameTypes
<1>11. CASE SZsinitTop
  <2> DEFINE es == <<Hdr("ZSINIT", 0), IF EscapesCtrl THEN Part(0, 0) ELSE Info>>
  <2>1. es \in Seq(Frame)
    BY FramesAreTyped, ShortSeqs DEF FrameTypes
  <2>2. Fine(es)
    BY DEF Fine, Hdr, Part, Info, IsZEOF
  <2> QED BY <1>1, <1>11, <2>1, <2>2 DEF SZsinitTop
<1>12. CASE SFileTop
  <2> DEFINE es == <<Hdr("ZFILE", 0), Info>>
  <2>1. es \in Seq(Frame)
    BY FramesAreTyped, ShortSeqs DEF FrameTypes
  <2>2. Fine(es)
    BY DEF Fine, Hdr, Info, IsZEOF
  <2> QED BY <1>1, <1>12, <2>1, <2>2 DEF SFileTop
<1>13. CASE SBlock
  <2> DEFINE es == <<Data(fpos, ReadLen, FrameEnd(ReadLen))>>
  <2>1. FrameEnd(ReadLen) \in FrameEnds /\ ReadLen \in Nat /\ fpos \in Nat
    BY ReadLenType DEF FrameEnd, FrameEnds, SenderTypeOK
  <2>2. es \in Seq(Frame)
    BY <2>1, FramesAreTyped, ShortSeqs
  <2>3. Fine(es)
    BY DEF Fine, Data, IsZEOF
  <2> QED BY <1>1, <1>13, <2>2, <2>3 DEF SBlock
<1>14. CASE SEofTop
  <2>1. <<Hdr("ZEOF", spos)>> \in Seq(Frame)
    BY FramesAreTyped, ShortSeqs DEF FrameTypes, SenderTypeOK
  <2>2. Fine(<<Hdr("ZEOF", spos)>>)
    BY <1>14 DEF Fine, Hdr, SEofTop
  <2> QED BY <1>1, <1>14, <2>1, <2>2 DEF SEofTop
<1>15. CASE SClose
  <2>1. <<Eof>> \in Seq(Frame) /\ Fine(<<Eof>>)
    BY FramesAreTyped, ShortSeqs DEF Eof, Fine, IsZEOF
  <2>2. toR' = toR \o <<Eof>>
    BY <1>15 DEF SClose, LineTypeOK
  <2> QED BY <2>1, <2>2 DEF Sends
<1> QED
  BY <1>6, <1>7, <1>8, <1>9, <1>10, <1>11, <1>12, <1>13, <1>14, <1>15
  DEF SNext, SCall

\* Thinning the stream to the sender keeps what is known of the answers.
LEMMA ThinnedAnswers ==
  ASSUME toS \in Seq(Frame), toS' \in Seq(Frame), NEW d \in {0, 1},
         Thinned(toS, toS', d), UNCHANGED <<zpc, zcopy>>,
         spc' \in InData => spc \in InData \/ (d = 1 /\ Asks(toS[1])),
         Requests, NoDataYet, Answered, sres' = "ok" => HasAll
  PROVE  Requests' /\ NoDataYet' /\ Answered'
<1>1. Len(toS) \in Nat /\ Len(toS') \in Nat /\ Len(toS') = Len(toS) - d
  BY DEF Thinned
<1>2. ASSUME NEW i \in 1 .. Len(toS'), toS'[i].k = "hdr"
      PROVE  i + d \in 1 .. Len(toS) /\ toS'[i] = toS[i + d]
  BY <1>2, ThinnedHeaders
<1>3. Requests'
  <2>1. ASSUME NEW i \in 1 .. Len(toS'), NEW e, e = toS'[i], e.k = "hdr"
        PROVE  e.t # "ZCRC" /\ (e.t = "ZRPOS" => e.p <= Len(File))
    BY <1>2, <2>1 DEF Requests
  <2> QED BY <2>1 DEF Requests
<1>4. NoDataYet'
  <2>1. ASSUME zpc = "idle"
        PROVE  spc' \notin InData /\ \A i \in 1 .. Len(toS') : ~Asks(toS'[i])
    <3>1. spc \notin InData /\ \A i \in 1 .. Len(toS) : ~Asks(toS[i])
      BY <2>1 DEF NoDataYet
    <3>2. ~(d = 1 /\ Asks(toS[1]))
      <4>1. ASSUME d = 1 PROVE 1 \in 1 .. Len(toS)
        BY <1>1, <4>1
      <4> QED BY <3>1, <4>1
    <3> QED BY <1>2, <3>1, <3>2 DEF Asks
  <2> QED BY <2>1 DEF NoDataYet, Asks
<1>5. ASSUME NEW i \in 1 .. Len(toS'), Answers(toS'[i]), InFile(i)'
      PROVE  HasAll
  <2>1. i + d \in 1 .. Len(toS) /\ toS'[i] = toS[i + d]
    BY <1>2, <1>5 DEF Answers
  <2>2. InFile(i + d)
    BY <1>5, ThinnedInFile
  <2> QED BY <1>5, <2>1, <2>2 DEF Answered
<1>6. HasAll' <=> HasAll
  BY DEF HasAll
<1>7. Answered'
  BY <1>5, <1>6 DEF Answered, Answers, InFile, HasAll
<1> QED BY <1>3, <1>4, <1>7

\* Every step of the sender keeps the delivery in order.
LEMMA SenderDelivers ==
  ASSUME TypeOK, TypeOK', Delivering, Plain, Sender
  PROVE  Delivering'
<1>1. SNext /\ UNCHANGED <<zpc, zcopy>>
  BY DEF Sender, zvars
<1>2. /\ LineTypeOK /\ SenderTypeOK /\ Seekable = TRUE /\ Len(File) < PosMod
      /\ toS \in Seq(Frame) /\ toS' \in Seq(Frame)
      /\ toR \in Seq(Frame) /\ toR' \in Seq(Frame)
      /\ ReaderInStep /\ Requests /\ NoDataYet /\ ZEOFAtEnd
      /\ swin = 0 /\ Streaming /\ AsksNothing(toR) /\ Answered
  BY DEF TypeOK, LineTypeOK, Plain, Delivering
<1>3. toS # <<>> => Head(toS) = toS[1] /\ 1 \in 1 .. Len(toS)
  BY <1>2
<1>4. ReaderInStep'
  <2>1. (SReceives({"ZRPOS"}) => rxpos <= Len(File)) /\ ~SReceives({"ZCRC"})
    BY <1>2, <1>3 DEF SReceives, Arrives, rxpos, Requests
  <2> QED BY <1>1, <1>2, <2>1, SenderInStep
<1>5. PICK d \in {0, 1} :
        /\ Thinned(toS, toS', d)
        /\ spc' \in InData => spc \in InData \/ (d = 1 /\ Asks(toS[1]))
  <2>1. PICK d \in {0, 1} : Thinned(toS, toS', d)
    BY <1>1, <1>2, SenderConsumes, ReadingThins
  <2>2. CASE spc' \in InData /\ spc \notin InData
    <3>1. toS # <<>> /\ Asks(Head(toS)) /\ toS' = Tail(toS)
      BY <1>1, <2>2, SenderEnters
    <3>2. Len(toS') = Len(toS) - 1 /\ Len(toS) \in Nat
      BY <1>2, <3>1
    <3>3. d = 1
      BY <2>1, <3>2 DEF Thinned
    <3> QED BY <1>3, <2>1, <3>1, <3>3
  <2> QED BY <2>1, <2>2
<1>6. sres' = "ok" => HasAll
  <2>1. CASE sres = "ok"
    BY <1>2, <2>1 DEF Answered
  <2>2. CASE spc = "eofWait" /\ toS # <<>> /\ Answers(Head(toS))
    <3>1. InFile(1)
      BY <2>2 DEF InFile, InData
    <3> QED BY <1>2, <1>3, <2>2, <3>1 DEF Answered
  <2> QED BY <1>1, <2>1, <2>2, SenderSucceeds
<1>7. Requests' /\ NoDataYet' /\ Answered'
  BY <1>1, <1>2, <1>5, <1>6, ThinnedAnswers
<1>8. ZEOFAtEnd'
  <2>1. CASE toR' = toR
    BY <1>1, <1>2, <2>1 DEF ZEOFAtEnd, HasAll, IsZEOF
  <2>2. ASSUME NEW es \in Seq(Frame), toR' = toR \o es,
               \A i \in 1 .. Len(es) : IsZEOF(es[i]) =>
                 spc = "eof" /\ es[i].p = spos % PosMod
        PROVE  ZEOFAtEnd'
    <3>1. /\ Len(toR) \in Nat /\ Len(es) \in Nat
          /\ Len(toR') = Len(toR) + Len(es)
          /\ \A i \in 1 .. Len(toR) + Len(es) :
                toR'[i] = IF i <= Len(toR) THEN toR[i] ELSE es[i - Len(toR)]
      BY <1>2, <2>2, ConcatProperties
    <3>2. spc = "eof" => spos % PosMod = Len(File)
      <4>1. spc = "eof" => spos = Len(File)
        BY <1>2 DEF ReaderInStep
      <4>2. \A n \in Nat : n < PosMod => n % PosMod = n
        BY RzConstants
      <4>3. Len(File) % PosMod = Len(File)
        BY <1>2, <4>2, RzConstants
      <4> QED BY <4>1, <4>3
    <3>3. ASSUME NEW i \in 1 .. Len(toR'), NEW e, e = toR'[i], IsZEOF(e)
          PROVE  e.p = Len(File)
      <4>1. CASE i <= Len(toR)
        <5>1. i \in 1 .. Len(toR) /\ e = toR[i]
          BY <3>1, <3>3, <4>1
        <5> QED BY <1>2, <3>3, <5>1 DEF ZEOFAtEnd
      <4>2. CASE i > Len(toR)
        <5>1. i - Len(toR) \in 1 .. Len(es) /\ e = es[i - Len(toR)]
          BY <3>1, <3>3, <4>2
        <5> QED BY <2>2, <3>2, <3>3, <5>1
      <4> QED BY <3>1, <4>1, <4>2
    <3>4. zpc' = "done" => HasAll'
      BY <1>1, <1>2 DEF ZEOFAtEnd, HasAll
    <3> QED BY <3>3, <3>4 DEF ZEOFAtEnd, IsZEOF
  <2> QED BY <1>1, <1>2, <2>1, <2>2, SenderSendsZEOF
<1>9. swin' = 0
  BY <1>1, <1>2, NoWindow DEF Plain
<1>10. Streaming' /\ AsksNothing(toR')
  <2>1. spc = "data" => spos <= fpos
    BY <1>2 DEF ReaderInStep, InData, SenderTypeOK
  <2> QED BY <1>1, <1>2, <2>1, StaysStreaming
<1>11. (AsksNothing(toR))' <=> AsksNothing(toR')
  BY DEF AsksNothing
<1> QED BY <1>4, <1>7, <1>8, <1>9, <1>10, <1>11 DEF Delivering

\* What is left of the stream to rz: no block asks for an answer, and every
\* ZEOF stands at the end of the file.
LEMMA ShorterToRz ==
  ASSUME toR \in Seq(Frame), toR' \in Seq(Frame),
         NEW d \in {0, 1, 2}, Shorter(toR, toR', d)
  PROVE  /\ AsksNothing(toR) => AsksNothing(toR')
         /\ \A i \in 1 .. Len(toR') : IsZEOF(toR'[i]) =>
              i + d \in 1 .. Len(toR) /\ toR'[i] = toR[i + d]
<1>1. Len(toR) \in Nat /\ Len(toR') \in Nat /\ Len(toR') = Len(toR) - d
  BY DEF Shorter
<1>2. ASSUME NEW i \in 1 .. Len(toR'), toR'[i].k \in {"data", "hdr"}
      PROVE  i + d \in 1 .. Len(toR) /\ toR'[i] = toR[i + d]
  BY <1>1, <1>2 DEF Shorter
<1> QED BY <1>2 DEF AsksNothing, IsZEOF

\* rz never goes back to where it has no file, and is done only when it heard
\* the ZEOF of the position it reached.
LEMMA RzGoesOn ==
  ASSUME RzTypeOK, Rz, MayAskCRC = FALSE
  PROVE  /\ zpc' = "asked" => zpc = "asked"
         /\ zpc' = "idle" => zpc = "idle"
         /\ zpc = "done" => zpc' \in {"done", "end"} /\ zcopy' = zcopy
         /\ zpc' = "done" /\ zpc # "done" =>
              zcopy' = zcopy /\ Heard("ZEOF") /\ Head(toR).p = Len(zcopy)
<1>1. CASE RzGreets
  BY <1>1 DEF RzGreets, NoFile
<1>2. CASE RzFrame
  BY <1>2 DEF RzFrame
<1>3. CASE RzBlock
  BY <1>3 DEF RzBlock
<1>4. CASE RzSkips
  BY <1>4 DEF RzSkips, zvars
<1>5. CASE RzTimeout
  BY <1>5 DEF RzTimeout
<1>6. CASE RzCloses
  BY <1>6 DEF RzCloses
<1> QED BY <1>1, <1>2, <1>3, <1>4, <1>5, <1>6 DEF Rz

\* One more frame that asks for a position in the file or answers an rz that
\* has it all keeps what is known of the answers.
LEMMA SayingAnswers ==
  ASSUME toS \in Seq(Frame), Requests, Answered, NoDataYet,
         UNCHANGED <<spc, sres>>,
         HasAll => HasAll', zpc' # "asked", zpc' = "idle" => zpc = "idle",
         NEW e \in Frame, toS' = toS \o <<e>>,
         e.k = "hdr" => e.t # "ZCRC",
         Asks(e) => e.p <= Len(File) /\ zpc' # "idle",
         Answers(e) => zpc' = "idle" \/ HasAll'
  PROVE  Requests' /\ NoDataYet' /\ Answered'
<1>1. /\ Len(toS) \in Nat /\ Len(toS') = Len(toS) + 1 /\ toS'[Len(toS) + 1] = e
      /\ \A i \in 1 .. Len(toS) : toS'[i] = toS[i]
  BY OneMore
<1>2. \A i \in 1 .. Len(toS') : i = Len(toS) + 1 \/ i \in 1 .. Len(toS)
  BY <1>1
<1>3. Requests'
  <2>1. ASSUME NEW i \in 1 .. Len(toS'), NEW f, f = toS'[i], f.k = "hdr"
        PROVE  f.t # "ZCRC" /\ (f.t = "ZRPOS" => f.p <= Len(File))
    <3>1. CASE i \in 1 .. Len(toS)
      BY <1>1, <2>1, <3>1 DEF Requests
    <3>2. CASE i = Len(toS) + 1
      BY <1>1, <2>1, <3>2 DEF Asks
    <3> QED BY <1>2, <3>1, <3>2
  <2> QED BY <2>1 DEF Requests
<1>4. ASSUME zpc' = "idle"
      PROVE  spc' \notin InData /\ \A i \in 1 .. Len(toS') : ~Asks(toS'[i])
  <2>1. spc \notin InData /\ \A i \in 1 .. Len(toS) : ~Asks(toS[i])
    BY <1>4 DEF NoDataYet
  <2>2. ~Asks(e)
    BY <1>4
  <2> QED BY <1>1, <1>2, <2>1, <2>2
<1>5. NoDataYet'
  BY <1>4 DEF NoDataYet, Asks
<1>6. ASSUME NEW i \in 1 .. Len(toS'), Answers(toS'[i]), InFile(i)'
      PROVE  HasAll'
  <2>1. CASE i \in 1 .. Len(toS)
    <3>1. InFile(i)
      <4>1. CASE spc' \in InData
        BY <4>1 DEF InFile
      <4>2. CASE spc' \notin InData
        <5>1. PICK j \in 1 .. i : Asks(toS'[j])
          BY <1>6, <4>2 DEF InFile
        <5>2. j \in 1 .. Len(toS)
          BY <1>1, <2>1
        <5> QED BY <1>1, <5>1, <5>2 DEF InFile
      <4> QED BY <4>1, <4>2
    <3> QED BY <1>1, <1>6, <2>1, <3>1 DEF Answered
  <2>2. CASE i = Len(toS) + 1
    <3>1. Answers(e)
      BY <1>1, <1>6, <2>2
    <3>2. CASE zpc' = "idle"
      <4>1. spc' \notin InData /\ \A j \in 1 .. Len(toS') : ~Asks(toS'[j])
        BY <1>4, <3>2
      <4>2. PICK j \in 1 .. i : Asks(toS'[j])
        BY <1>6, <4>1 DEF InFile
      <4>3. j \in 1 .. Len(toS')
        BY <1>1, <2>2
      <4> QED BY <4>1, <4>2, <4>3
    <3> QED BY <3>1, <3>2
  <2> QED BY <1>2, <2>1, <2>2
<1>7. Answered'
  BY <1>6 DEF Answered, Answers, InFile, HasAll
<1> QED BY <1>3, <1>5, <1>7

\* Every step of rz keeps the delivery in order.
LEMMA RzDelivers ==
  ASSUME TypeOK, TypeOK', Labelled, Delivering, Plain, Peer
  PROVE  Delivering'
<1>1. Rz /\ UNCHANGED <<spc, sres, swin, fpos, spos, slast, sjunk, slen>>
  BY DEF Peer, svars, negotiated, progress
<1>2. /\ LineTypeOK /\ RzTypeOK /\ MayAskCRC = FALSE
      /\ toS \in Seq(Frame) /\ toS' \in Seq(Frame)
      /\ toR \in Seq(Frame) /\ toR' \in Seq(Frame)
      /\ ReaderInStep /\ Requests /\ NoDataYet /\ ZEOFAtEnd
      /\ swin = 0 /\ Streaming /\ AsksNothing(toR) /\ Answered
      /\ Len(zcopy) \in Nat /\ Len(zcopy) <= Len(File) /\ Len(File) < PosMod
  BY DEF TypeOK, LineTypeOK, RzTypeOK, Plain, Delivering, Labelled, AtRz
<1>3. PICK d \in {0, 1, 2} : Shorter(toR, toR', d)
  BY <1>1, <1>2, RzConsumes
<1>4. /\ zpc' # "asked" /\ (zpc' = "idle" => zpc = "idle")
      /\ zpc = "done" => zpc' \in {"done", "end"} /\ zcopy' = zcopy
      /\ zpc' = "done" /\ zpc # "done" =>
           zcopy' = zcopy /\ Heard("ZEOF") /\ Head(toR).p = Len(zcopy)
      /\ zpc # "end"
  BY <1>1, <1>2, RzGoesOn, RzTells DEF NoDataYet
<1>5. HasAll => HasAll'
  BY <1>4 DEF HasAll
<1>6. zpc' = "done" => HasAll'
  <2>1. ASSUME zpc' = "done", zpc # "done" PROVE Len(zcopy') = Len(File)
    <3>1. toR # <<>> /\ Head(toR) = toR[1] /\ 1 \in 1 .. Len(toR) /\ IsZEOF(toR[1])
          /\ toR[1].p = Len(zcopy) /\ zcopy' = zcopy
      BY <1>2, <1>4, <2>1 DEF Heard, IsZEOF
    <3> QED BY <1>2, <3>1 DEF ZEOFAtEnd
  <2>2. zpc = "done" => HasAll
    BY <1>2 DEF ZEOFAtEnd
  <2> QED BY <1>5, <2>1, <2>2 DEF HasAll
<1>7. ZEOFAtEnd'
  <2>1. ASSUME NEW i \in 1 .. Len(toR'), NEW e, e = toR'[i], IsZEOF(e)
        PROVE  e.p = Len(File)
    <3>1. i + d \in 1 .. Len(toR) /\ e = toR[i + d]
      BY <1>2, <1>3, <2>1, ShorterToRz
    <3> QED BY <1>2, <2>1, <3>1 DEF ZEOFAtEnd
  <2> QED BY <1>6, <2>1 DEF ZEOFAtEnd, IsZEOF
<1>8. AsksNothing(toR')
  BY <1>2, <1>3, ShorterToRz
<1>9. Requests' /\ NoDataYet' /\ Answered'
  <2>1. CASE toS' = toS
    BY <1>1, <1>2, <1>4, <1>5, <2>1
    DEF Requests, NoDataYet, Answered, InFile, Answers, Asks
  <2>2. ASSUME NEW e, Says(e), toS' = toS \o <<e>>
        PROVE  Requests' /\ NoDataYet' /\ Answered'
    <3>1. e \in Frame /\ e.k = "hdr" /\ e.t # "ZCRC"
      BY <1>2, <2>2 DEF Says
    <3>2. Asks(e) => e.p <= Len(File) /\ zpc' # "idle"
      <4>1. \A n \in Nat : n < PosMod => n % PosMod = n
        BY RzConstants
      <4>2. Len(zcopy) < PosMod
        BY <1>2, RzConstants
      <4>3. Len(zcopy) % PosMod = Len(zcopy)
        BY <1>2, <4>1, <4>2
      <4>4. Asks(e) => e.p = Len(zcopy) % PosMod /\ zpc' = "file"
        BY <2>2 DEF Says
      <4> QED BY <1>2, <4>3, <4>4
    <3>3. Answers(e) => zpc' = "idle" \/ HasAll'
      <4>1. CASE zpc \in NoFile /\ zpc' \in NoFile
        BY <1>4, <4>1 DEF NoFile
      <4>2. CASE zpc' = "done"
        BY <1>6, <4>2
      <4>3. CASE /\ toR # <<>> /\ Head(toR).k = "data"
                 /\ Head(toR).end \in {"ZCRCQ", "ZCRCW"}
        <5>1. Head(toR) = toR[1] /\ 1 \in 1 .. Len(toR)
          BY <1>2, <4>3
        <5> QED BY <1>2, <4>3, <5>1 DEF AsksNothing
      <4> QED BY <2>2, <4>1, <4>2, <4>3 DEF Says
    <3> QED BY <1>1, <1>2, <1>4, <1>5, <2>2, <3>1, <3>2, <3>3, SayingAnswers
  <2>3. CASE toS' = toS \o <<Eof>>
    <3>1. Eof \in Frame /\ Eof.k # "hdr" /\ ~Asks(Eof) /\ ~Answers(Eof)
      BY FramesAreTyped DEF Eof, Asks, Answers
    <3> QED BY <1>1, <1>2, <1>4, <1>5, <2>3, <3>1, SayingAnswers
  <2> QED BY <1>1, <1>2, <2>1, <2>2, <2>3, RzTells
<1>10. ReaderInStep' /\ swin' = 0 /\ Streaming'
  BY <1>1, <1>2 DEF ReaderInStep, Streaming
<1>11. (AsksNothing(toR))' <=> AsksNothing(toR')
  BY DEF AsksNothing
<1> QED BY <1>7, <1>8, <1>9, <1>10, <1>11 DEF Delivering

\* Damage and frames out of place keep the delivery in order.
LEMMA LineDelivers ==
  ASSUME TypeOK, TypeOK', Delivering, Plain, Line
  PROVE  Delivering'
<1>1. UNCHANGED <<spc, sres, swin, fpos, spos, slast, sjunk, slen, zpc, zcopy>>
  BY DEF Line, Stray, svars, negotiated, progress, zvars
<1>2. /\ LineTypeOK
      /\ toS \in Seq(Frame) /\ toS' \in Seq(Frame)
      /\ toR \in Seq(Frame) /\ toR' \in Seq(Frame)
      /\ ReaderInStep /\ Requests /\ NoDataYet /\ ZEOFAtEnd
      /\ swin = 0 /\ Streaming /\ AsksNothing(toR) /\ Answered
  BY DEF TypeOK, LineTypeOK, Delivering
<1>3. ReaderInStep' /\ swin' = 0 /\ Streaming'
  BY <1>1, <1>2 DEF ReaderInStep, Streaming
<1>4. (AsksNothing(toR))' <=> AsksNothing(toR')
  BY DEF AsksNothing
<1>5. (HasAll <=> HasAll') /\ (zpc' = "done" => HasAll')
  BY <1>1, <1>2 DEF HasAll, ZEOFAtEnd
<1>6. CASE Garble
  <2>1. Thinned(toR, toR', 0) /\ Thinned(toS, toS', 0)
    BY <1>2, <1>6, GarbleSpoils, DamageThins
  <2>2. Shorter(toR, toR', 0)
    BY <1>2, <2>1, ThinnedIsShorter
  <2>3. AsksNothing(toR')
    BY <1>2, <2>2, ShorterToRz
  <2>4. ZEOFAtEnd'
    <3>1. ASSUME NEW i \in 1 .. Len(toR'), NEW e, e = toR'[i], IsZEOF(e)
          PROVE  e.p = Len(File)
      <4>1. i + 0 \in 1 .. Len(toR) /\ e = toR[i + 0]
        BY <1>2, <2>2, <3>1, ShorterToRz
      <4> QED BY <1>2, <3>1, <4>1 DEF ZEOFAtEnd
    <3> QED BY <1>5, <3>1 DEF ZEOFAtEnd, IsZEOF
  <2>5. Requests' /\ NoDataYet' /\ Answered'
    <3>1. sres' = "ok" => HasAll
      BY <1>1, <1>2 DEF Answered
    <3>2. spc' \in InData => spc \in InData \/ (0 = 1 /\ Asks(toS[1]))
      BY <1>1
    <3> QED BY <1>1, <1>2, <2>1, <3>1, <3>2, ThinnedAnswers
  <2> QED BY <1>3, <1>4, <2>3, <2>4, <2>5 DEF Delivering
<1>7. CASE Stray
  <2>1. toR' = toR
    BY <1>7 DEF Stray
  <2>2. AsksNothing(toR') /\ ZEOFAtEnd'
    BY <1>2, <1>5, <2>1 DEF ZEOFAtEnd, IsZEOF
  <2>3. Requests' /\ NoDataYet' /\ Answered'
    <3>1. CASE toS' = toS
      BY <1>1, <1>2, <1>5, <3>1
      DEF Requests, NoDataYet, Answered, InFile, Answers, Asks
    <3>2. ASSUME NEW e \in Frame, e.k = "hdr", e.t \in StrayTypes, toS' = toS \o <<e>>
          PROVE  Requests' /\ NoDataYet' /\ Answered'
      <4>1. e.t \notin {"ZACK", "ZRINIT", "ZRPOS", "ZCRC"}
        BY <3>2 DEF Plain
      <4>2. e.t # "ZCRC" /\ ~Asks(e) /\ ~Answers(e)
        BY <4>1 DEF Asks, Answers
      <4>3. zpc' # "asked" /\ (zpc' = "idle" => zpc = "idle")
        BY <1>1, <1>2 DEF NoDataYet
      <4> QED BY <1>1, <1>2, <1>5, <3>2, <4>2, <4>3, SayingAnswers
    <3> QED BY <1>2, <1>7, <3>1, <3>2, StraysTell
  <2> QED BY <1>3, <1>4, <2>2, <2>3 DEF Delivering
<1> QED BY <1>6, <1>7 DEF Line

\* Delivering holds in every state.
LEMMA AlwaysDelivering ==
  ASSUME Plain
  PROVE  FairSpec => []Delivering
<1>0. Seekable = TRUE
  BY DEF Plain
<1>1. Init => Delivering
  <2> SUFFICES ASSUME Init PROVE Delivering
    OBVIOUS
  <2>1. /\ toR = <<>> /\ toS = <<Hdr("ZRINIT", 0)>> /\ spc = "init" /\ fpos = 0
        /\ sres = "none" /\ swin = 0 /\ zpc = "idle"
    BY DEF Init, SenderInit
  <2>2. \A i \in 1 .. Len(toS) : toS[i].k = "hdr" /\ toS[i].t = "ZRINIT"
    BY <2>1 DEF Hdr
  <2>3. Requests /\ NoDataYet
    BY <2>1, <2>2 DEF Requests, NoDataYet, Asks, InData
  <2>4. ZEOFAtEnd /\ AsksNothing(toR) /\ ReaderInStep /\ Streaming
    BY <2>1 DEF ZEOFAtEnd, AsksNothing, ReaderInStep, BeforeData, InData, Streaming
  <2>5. Answered
    <3>1. ASSUME NEW i \in 1 .. Len(toS) PROVE ~InFile(i)
      <4>1. \A j \in 1 .. i : j \in 1 .. Len(toS)
        BY <2>1
      <4> QED BY <2>1, <2>2, <4>1 DEF InFile, InData, Asks
    <3> QED BY <2>1, <3>1 DEF Answered
  <2> QED BY <2>1, <2>3, <2>4, <2>5 DEF Delivering
<1>2. TypeOK /\ TypeOK' /\ Labelled /\ Delivering /\ [Next]_vars => Delivering'
  <2> SUFFICES ASSUME TypeOK, TypeOK', Labelled, Delivering, [Next]_vars
               PROVE  Delivering'
    OBVIOUS
  <2>1. CASE Sender
    BY <2>1, SenderDelivers
  <2>2. CASE Peer
    BY <2>2, RzDelivers
  <2>3. CASE Line
    BY <2>3, LineDelivers
  <2>4. CASE SshReturn \/ SshCancelled \/ UNCHANGED vars
    <3>1. UNCHANGED <<toR, toS, spc, sres, swin, fpos, spos, slast, sjunk, slen,
                      zpc, zcopy>>
      BY <2>4 DEF SshReturn, SshCancelled, vars, line, svars, negotiated,
         progress, zvars
    <3>2. ReaderInStep' /\ swin' = 0 /\ Streaming' /\ (AsksNothing(toR))'
      BY <3>1 DEF Delivering, ReaderInStep, Streaming, AsksNothing
    <3>3. Requests' /\ NoDataYet' /\ ZEOFAtEnd'
      BY <3>1 DEF Delivering, Requests, NoDataYet, ZEOFAtEnd, HasAll, Asks, IsZEOF
    <3>4. Answered'
      BY <3>1 DEF Delivering, Answered, Answers, InFile, Asks, HasAll
    <3> QED BY <3>2, <3>3, <3>4 DEF Delivering
  <2> QED BY <2>1, <2>2, <2>3, <2>4 DEF Next, Done
<1> QED BY <1>0, <1>1, <1>2, TypeCorrect, AlwaysLabelled, PTL DEF FairSpec

\* A sender that streams to an rz and reports success was answered for the end
\* of the file: no repeated ZRINIT of a hasty rz passes for the answer to ZEOF
\* (sender.go:898-924).
THEOREM SuccessAtRz == ASSUME Plain PROVE FairSpec => []SuccessIsDelivery
<1>1. Delivering => SuccessIsDelivery
  BY DEF Delivering, Answered, HasAll, SuccessIsDelivery
<1> QED BY <1>1, AlwaysDelivering, PTL
=============================================================================
