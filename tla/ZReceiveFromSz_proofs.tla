------------------------ MODULE ZReceiveFromSz_proofs ------------------------
(***************************************************************************)
(* What the receiver keeps of the file whatever sz sends: sz streams from  *)
(* the position it was last asked for, so that requests, old blocks and    *)
(* new ones cross on the line, and frames of other parts of the protocol   *)
(* may come between.                                                       *)
(***************************************************************************)
EXTENDS ZReceiveFromSz, ZEnds_proofs

\* The constants of the peer are numbers and sets.
LEMMA SzConstants ==
  /\ MaxBlock \in Nat \ {0} /\ SzTries \in Nat /\ MaxStrays \in Nat
  /\ SzEnds \subseteq FrameEnds
  /\ StrayTypes \subseteq FrameTypes \ {"ZDATA", "ZEOF"}
  /\ Len(File) \in Nat /\ PosMod \in Nat \ {0}
BY SzAssumption, LineAssumption DEF SzAssumption, FrameEnds

-----------------------------------------------------------------------------
\* The inductive invariant.

\* sz sends no block before it was asked again, or the next one starts at p;
\* what it writes once the receiver closed its stream is lost.
NextBlock(p) == rpc = "end" \/ (ypc = "data" => ypos = p)

\* Nothing but a block that starts at p can be read as one after ZDATA(p).
StartsAt(e, p) == e.k = "data" => e.lo = p
IsZDATA(e) == e.k = "hdr" /\ e.t = "ZDATA"

\* What follows the first i frames of toR is the block at p, or no block.
Follows(i, p) == IF i = Len(toR) THEN NextBlock(p) ELSE StartsAt(toR[i + 1], p)

InPlaceInFile(e) ==
  /\ e.k = "data" => e.lo + e.n <= Len(File)
  /\ e.k = "hdr" /\ e.t = "ZEOF" => e.p = Len(File)

FramesToR ==
  \A i \in 1 .. Len(toR) :
    InPlaceInFile(toR[i]) /\ (IsZDATA(toR[i]) => Follows(i, toR[i].p))

\* A receiver that waits for a subpacket is about to read the next block, or
\* no block.
ReaderOfBlock == rpc = "block" => Follows(0, rpos)

Integrity == FramesToR /\ FramesToS /\ ReaderOfBlock /\ Copied

IInv == TypeOK /\ Integrity

-----------------------------------------------------------------------------
\* sz.

\* Frames that may be written in any state: none is mislabelled.
Fitting(es) ==
  /\ es \in Seq(Frame) /\ es # <<>>
  /\ \A p \in Nat : NextBlock(p) => StartsAt(es[1], p)
  /\ \A i \in 1 .. Len(es) :
       InPlaceInFile(es[i]) /\ (IsZDATA(es[i]) => i = Len(es) /\ NextBlock(es[i].p)')

\* A step of sz writes nothing and keeps its promises, or appends fitting
\* frames to the stream.
SzSends ==
  \/ toR' = toR /\ \A p \in Nat : NextBlock(p) => NextBlock(p)'
  \/ \E es : Fitting(es) /\ toR' = toR \o es

\* Frames that are neither subpackets nor ZDATA nor ZEOF always fit.
PlainFrame(e) ==
  e \in Frame /\ e.k # "data" /\ (e.k = "hdr" => e.t \notin {"ZDATA", "ZEOF"})

LEMMA PlainFramesFit ==
  ASSUME NEW e, PlainFrame(e)
  PROVE  Fitting(<<e>>) /\ \A f : PlainFrame(f) => Fitting(<<e, f>>)
<1>1. <<e>> \in Seq(Frame) /\ \A f \in Frame : <<e, f>> \in Seq(Frame)
  BY DEF PlainFrame
<1>2. Fitting(<<e>>)
  BY <1>1 DEF PlainFrame, Fitting, StartsAt, IsZDATA, InPlaceInFile
<1>3. ASSUME NEW f, PlainFrame(f) PROVE Fitting(<<e, f>>)
  <2>1. /\ <<e, f>> \in Seq(Frame) /\ <<e, f>> # <<>> /\ Len(<<e, f>>) = 2
        /\ <<e, f>>[1] = e /\ <<e, f>>[2] = f
    BY <1>1, <1>3 DEF PlainFrame
  <2>2. \A i \in 1 .. 2 : i = 1 \/ i = 2
    OBVIOUS
  <2> QED BY <1>3, <2>1, <2>2
          DEF PlainFrame, Fitting, StartsAt, IsZDATA, InPlaceInFile
<1> QED BY <1>2, <1>3

\* The frames sz writes beside the file are plain.
LEMMA AsidesFit ==
  /\ \A t \in FrameTypes \ {"ZDATA", "ZEOF"} :
        Fitting(<<Hdr(t, 0)>>) /\ Fitting(<<Hdr(t, 0), Info>>)
  /\ Fitting(<<Eof>>)
<1>1. \A t \in FrameTypes \ {"ZDATA", "ZEOF"} : PlainFrame(Hdr(t, 0))
  BY FramesAreTyped DEF PlainFrame, Hdr
<1>2. PlainFrame(Info) /\ PlainFrame(Eof)
  BY FramesAreTyped DEF PlainFrame, Info, Eof
<1> QED BY <1>1, <1>2, PlainFramesFit

\* A stream to sz that is closed has no receiver any more.
LEMMA ClosedIsEnd ==
  ASSUME LineTypeOK, FramesToS, Closed(toS)
  PROVE  rpc = "end"
<1>1. Len(toS) \in 1 .. Len(toS)
  BY DEF Closed, LineTypeOK
<1> QED BY <1>1 DEF Closed, FramesToS

\* Writing frames that fit, or losing them because the receiver is gone.
LEMMA WritingFits ==
  ASSUME IInv, NEW es, Fitting(es), SzWrites(es), UNCHANGED rpc
  PROVE  SzSends
<1>1. CASE ~Closed(toS) /\ toR' = toR \o es
  BY <1>1 DEF SzSends
<1>2. CASE Closed(toS) /\ toR' = toR
  <2>1. rpc = "end"
    BY <1>2, ClosedIsEnd DEF IInv, TypeOK, Integrity
  <2> QED BY <1>2, <2>1 DEF SzSends, NextBlock
<1> QED BY <1>1, <1>2 DEF SzWrites, Written

\* A step that writes nothing and sends no block from now on.
LEMMA QuietKeeps ==
  ASSUME UNCHANGED <<toR, rpc>>, ypc' # "data" \/ UNCHANGED <<ypc, ypos>>
  PROVE  SzSends
BY DEF SzSends, NextBlock

\* A ZDATA header announces the block that is sent next.
LEMMA StartFits ==
  ASSUME IInv, Fits, NEW p \in Nat, p <= Len(File), UNCHANGED rpc,
         SzWrites(<<Hdr("ZDATA", p)>>), ypos' = p
  PROVE  SzSends
<1>1. <<Hdr("ZDATA", p)>> \in Seq(Frame)
  BY FramesAreTyped, ShortSeqs DEF FrameTypes
<1>2. Hdr("ZDATA", p).p = p
  BY PositionFits DEF Hdr
<1>3. Fitting(<<Hdr("ZDATA", p)>>)
  BY <1>1, <1>2 DEF Fitting, StartsAt, IsZDATA, InPlaceInFile, NextBlock, Hdr
<1> QED BY <1>3, WritingFits

\* A ZEOF header carries the length of the file.
LEMMA EndFits ==
  ASSUME Fits
  PROVE  /\ Hdr("ZEOF", Len(File)) \in Frame
         /\ Hdr("ZEOF", Len(File)).p = Len(File)
         /\ Fitting(<<Hdr("ZEOF", Len(File))>>)
<1>1. Hdr("ZEOF", Len(File)) \in Frame
  BY SzConstants, FramesAreTyped DEF FrameTypes
<1>2. Hdr("ZEOF", Len(File)).p = Len(File)
  BY SzConstants, PositionFits DEF Hdr
<1>3. <<Hdr("ZEOF", Len(File))>> \in Seq(Frame)
  BY <1>1, ShortSeqs
<1> QED BY <1>1, <1>2, <1>3 DEF Fitting, StartsAt, IsZDATA, InPlaceInFile, Hdr

\* A request that sz reads is for a position of the file.
LEMMA AskedInFile ==
  ASSUME LineTypeOK, FramesToS, Heard("ZRPOS")
  PROVE  Head(toS).p \in Nat /\ Head(toS).p <= Len(File)
<1>1. toS \in Seq(Frame) /\ toS # <<>> /\ Head(toS) = toS[1] /\ 1 \in 1 .. Len(toS)
  BY DEF LineTypeOK, Heard
<1>2. toS[1] \in Frame /\ toS[1].k = "hdr" /\ toS[1].t = "ZRPOS"
  BY <1>1 DEF Heard
<1>3. toS[1].p \in Nat
  BY <1>2 DEF Frame, Info, Nul, BadHdr, Eof
<1> QED BY <1>1, <1>2, <1>3 DEF FramesToS

\* The block sz sends starts where it is, and stays in the file.
LEMMA BlockFits ==
  ASSUME IInv, Fits, SzBlock, UNCHANGED rpc
  PROVE  SzSends
<1>1. /\ ypc = "data" /\ ypos \in Nat /\ ypos <= Len(File) /\ Len(File) \in Nat
      /\ \A n \in 1 .. MaxBlock : n \in Nat
      /\ \A n \in 0 .. MaxBlock : n \in Nat
  BY SzConstants DEF SzBlock, IInv, TypeOK, SzTypeOK
<1>2. ASSUME NEW n \in Nat, NEW end \in FrameEnds, NEW e, e = Data(ypos, n, end),
             ypos + n <= Len(File)
      PROVE  /\ e \in Frame /\ e.k = "data" /\ e.lo = ypos /\ e.n = n
             /\ InPlaceInFile(e) /\ ~IsZDATA(e)
  BY <1>1, <1>2, FramesAreTyped DEF Data, InPlaceInFile, IsZDATA
<1>3. ASSUME NEW es, es \in Seq(Frame), es # <<>>, SzWrites(es),
             es[1].k = "data", es[1].lo = ypos,
             \A i \in 1 .. Len(es) : InPlaceInFile(es[i]) /\ ~IsZDATA(es[i])
      PROVE  SzSends
  <2>1. CASE Closed(toS) /\ toR' = toR
    <3>1. rpc = "end"
      BY <2>1, ClosedIsEnd DEF IInv, TypeOK, Integrity
    <3> QED BY <2>1, <3>1 DEF SzSends, NextBlock
  <2>2. CASE ~Closed(toS) /\ toR' = toR \o es
    <3>1. rpc # "end"
      BY <2>2 DEF IInv, Integrity, FramesToS
    <3>2. \A p \in Nat : NextBlock(p) => StartsAt(es[1], p)
      BY <1>1, <1>3, <3>1 DEF NextBlock, StartsAt
    <3>3. Fitting(es)
      BY <1>3, <3>2 DEF Fitting
    <3> QED BY <2>2, <3>3 DEF SzSends
  <2> QED BY <1>3, <2>1, <2>2 DEF SzWrites, Written
<1>4. ASSUME NEW n \in 1 .. MaxBlock, NEW end \in SzEnds, ypos + n <= Len(File),
             SzWrites(<<Data(ypos, n, end)>>)
      PROVE  SzSends
  <2> DEFINE e == Data(ypos, n, end)
  <2>1. n \in Nat /\ end \in FrameEnds
    BY <1>1, SzConstants
  <2>2. e \in Frame /\ e.k = "data" /\ e.lo = ypos /\ InPlaceInFile(e) /\ ~IsZDATA(e)
    BY <1>2, <1>4, <2>1
  <2>3. <<e>> \in Seq(Frame)
    BY <2>2, ShortSeqs
  <2> HIDE DEF e
  <2>4. Len(<<e>>) = 1 /\ <<e>>[1] = e /\ <<e>> # <<>>
    OBVIOUS
  <2>5. SzWrites(<<e>>)
    BY <1>4 DEF e
  <2>6. \A i \in 1 .. Len(<<e>>) : InPlaceInFile(<<e>>[i]) /\ ~IsZDATA(<<e>>[i])
    BY <2>2, <2>4
  <2> QED BY <1>3, <2>2, <2>3, <2>4, <2>5, <2>6
<1>5. ASSUME NEW n \in 0 .. MaxBlock, ypos + n = Len(File),
             SzWrites(<<Data(ypos, n, "ZCRCE"), Hdr("ZEOF", Len(File))>>)
      PROVE  SzSends
  <2> DEFINE e == Data(ypos, n, "ZCRCE")  f == Hdr("ZEOF", Len(File))
  <2>1. n \in Nat /\ "ZCRCE" \in FrameEnds /\ ypos + n <= Len(File)
    BY <1>1, <1>5 DEF FrameEnds
  <2>2. e \in Frame /\ e.k = "data" /\ e.lo = ypos /\ InPlaceInFile(e) /\ ~IsZDATA(e)
    BY <1>2, <2>1
  <2>3. f \in Frame /\ InPlaceInFile(f) /\ ~IsZDATA(f)
    BY EndFits DEF InPlaceInFile, IsZDATA, Hdr
  <2>4. <<e, f>> \in Seq(Frame)
    BY <2>2, <2>3, ShortSeqs
  <2> HIDE DEF e, f
  <2>5. /\ Len(<<e, f>>) = 2 /\ <<e, f>>[1] = e /\ <<e, f>>[2] = f /\ <<e, f>> # <<>>
    OBVIOUS
  <2>6. \A i \in 1 .. 2 : i = 1 \/ i = 2
    OBVIOUS
  <2>7. SzWrites(<<e, f>>)
    BY <1>5 DEF e, f
  <2>8. \A i \in 1 .. Len(<<e, f>>) :
           InPlaceInFile(<<e, f>>[i]) /\ ~IsZDATA(<<e, f>>[i])
    BY <2>2, <2>3, <2>5, <2>6
  <2> QED BY <1>3, <2>2, <2>4, <2>5, <2>7, <2>8
<1> QED BY <1>4, <1>5 DEF SzBlock

\* Every step of sz, and every stray frame, sends fitting frames or none.
LEMMA SzFits ==
  ASSUME IInv, Fits, Sz \/ Stray, UNCHANGED rpc
  PROVE  SzSends
<1>1. \A t \in FrameTypes \ {"ZDATA", "ZEOF"} :
         SzWrites(<<Hdr(t, 0)>>) \/ SzWrites(<<Hdr(t, 0), Info>>) => SzSends
  BY AsidesFit, WritingFits
<1>2. LineTypeOK /\ FramesToS /\ ypos \in Nat /\ ypos <= Len(File)
  BY SzConstants DEF IInv, TypeOK, SzTypeOK, Integrity
<1>3. SzGivesUp => SzSends
  <2>1. ASSUME SzGivesUp PROVE toR' = toR \o <<Eof>>
    BY <1>2, <2>1 DEF SzGivesUp, LineTypeOK
  <2> QED BY <2>1, AsidesFit DEF SzSends
<1>4. CASE SzHello
  BY <1>1, <1>4 DEF SzHello, FrameTypes
<1>5. CASE SzRewinds
  <2>1. Head(toS).p \in Nat /\ Head(toS).p <= Len(File)
    BY <1>2, <1>5, AskedInFile DEF SzRewinds
  <2>2. CASE SzGivesUp
    BY <1>3, <2>2
  <2>3. CASE SzWrites(<<Hdr("ZDATA", Head(toS).p)>>) /\ ypos' = Head(toS).p
    BY <2>1, <2>3, StartFits
  <2> QED BY <1>5, <2>2, <2>3 DEF SzRewinds
<1>6. CASE SzBlock
  BY <1>6, BlockFits
<1>7. CASE SzReply
  <2>1. CASE SzWrites(<<Hdr("ZDATA", ypos)>>) /\ ypos' = ypos
    BY <1>2, <2>1, StartFits
  <2>2. CASE UNCHANGED toR /\ ypc' = "done"
    BY <2>2, QuietKeeps
  <2> QED BY <1>7, <2>1, <2>2 DEF SzReply
<1>8. CASE SzSkips
  BY <1>8, QuietKeeps DEF SzSkips, yvars
<1>9. CASE SzTimeout
  <2>1. CASE SzGivesUp
    BY <1>3, <2>1
  <2>2. CASE ytimes < SzTries
    <3>1. CASE ypc \in {"hello", "sinit", "file", "done"}
      BY <1>1, <1>9, <2>2, <3>1 DEF SzTimeout, FrameTypes
    <3>2. CASE ypc = "ack"
      BY <1>2, <1>9, <2>2, <3>2, StartFits DEF SzTimeout
    <3>3. CASE ypc = "eof"
      BY <1>9, <2>2, <3>3, EndFits, WritingFits DEF SzTimeout
    <3> QED BY <1>9, <3>1, <3>2, <3>3 DEF SzTimeout, SzWaits
  <2> QED BY <1>9, <2>1, <2>2 DEF SzTimeout
<1>10. CASE SzCloses
  BY <1>3, <1>10 DEF SzCloses
<1>11. CASE Stray
  BY <1>1, <1>11, SzConstants DEF Stray
<1> QED
  BY <1>4, <1>5, <1>6, <1>7, <1>8, <1>9, <1>10, <1>11 DEF Sz

\* What a step of sz does to the stream it reads.
LEMMA SzConsumes ==
  ASSUME LineTypeOK, Sz \/ Stray
  PROVE  Consumed(toS, toS')
BY DEF Sz, SzHello, SzRewinds, SzBlock, SzReply, SzSkips, SzTimeout, SzCloses,
       Stray, SzReads, Heard, HeardOneOf, Consumed

-----------------------------------------------------------------------------
\* What is promised about the stream to the receiver.

\* Appending fitting frames keeps the labels of the stream right.
LEMMA SzKeepsLabels ==
  ASSUME LineTypeOK, ReceiverTypeOK, FramesToR, ReaderOfBlock,
         SzSends, UNCHANGED <<rpc, rpos>>
  PROVE  FramesToR' /\ ReaderOfBlock'
<1>1. toR \in Seq(Frame) /\ Len(toR) \in Nat /\ rpos \in Nat
  BY DEF LineTypeOK, ReceiverTypeOK
<1>2. \A i \in 1 .. Len(toR) : IsZDATA(toR[i]) => toR[i].p \in Nat
  BY <1>1 DEF IsZDATA, Frame, Info, Nul, BadHdr, Eof
<1>3. CASE toR' = toR /\ \A p \in Nat : NextBlock(p) => NextBlock(p)'
  <2>1. ASSUME NEW i \in 0 .. Len(toR), NEW p \in Nat, Follows(i, p)
        PROVE  Follows(i, p)'
    BY <1>3, <2>1 DEF Follows, StartsAt
  <2> QED BY <1>1, <1>2, <1>3, <2>1
          DEF FramesToR, ReaderOfBlock, IsZDATA, InPlaceInFile
<1>4. ASSUME NEW es, Fitting(es), toR' = toR \o es
      PROVE  FramesToR' /\ ReaderOfBlock'
  <2>1. es \in Seq(Frame) /\ Len(es) \in Nat /\ Len(es) > 0
    BY <1>4 DEF Fitting
  <2>2. /\ Len(toR') = Len(toR) + Len(es)
        /\ \A i \in 1 .. Len(toR) + Len(es) :
              toR'[i] = IF i <= Len(toR) THEN toR[i] ELSE es[i - Len(toR)]
    BY <1>1, <1>4, <2>1, ConcatProperties
  <2>3. ASSUME NEW i \in 0 .. Len(toR), NEW p \in Nat, Follows(i, p)
        PROVE  Follows(i, p)'
    <3>1. CASE i = Len(toR)
      <4>1. toR'[i + 1] = es[1] /\ i # Len(toR')
        BY <1>1, <2>1, <2>2, <3>1
      <4>2. StartsAt(es[1], p)
        BY <1>4, <2>3, <3>1 DEF Fitting, Follows
      <4> QED BY <4>1, <4>2 DEF Follows, StartsAt
    <3>2. CASE i < Len(toR)
      <4>1. toR'[i + 1] = toR[i + 1] /\ i # Len(toR')
        BY <1>1, <2>1, <2>2, <3>2
      <4> QED BY <2>3, <3>2, <4>1 DEF Follows, StartsAt
    <3> QED BY <1>1, <3>1, <3>2
  <2>4. ReaderOfBlock'
    BY <1>1, <2>3 DEF ReaderOfBlock
  <2>5. ASSUME NEW i \in 1 .. Len(toR'), NEW e, e = toR'[i]
        PROVE  InPlaceInFile(e) /\ (IsZDATA(e) => Follows(i, e.p)')
    <3>1. CASE i <= Len(toR)
      <4>1. toR[i] = e /\ i \in 1 .. Len(toR)
        BY <1>1, <2>1, <2>2, <2>5, <3>1
      <4>2. IsZDATA(e) => Follows(i, e.p)'
        BY <1>2, <2>3, <4>1 DEF FramesToR
      <4> QED BY <4>1, <4>2 DEF FramesToR
    <3>2. CASE i > Len(toR)
      <4>1. e = es[i - Len(toR)] /\ i - Len(toR) \in 1 .. Len(es)
        BY <1>1, <2>1, <2>2, <2>5, <3>2
      <4>2. InPlaceInFile(e) /\ (IsZDATA(e) => i - Len(toR) = Len(es) /\ NextBlock(e.p)')
        BY <1>4, <4>1 DEF Fitting
      <4>3. i - Len(toR) = Len(es) => i = Len(toR')
        BY <1>1, <2>1, <2>2, <2>5
      <4>4. IsZDATA(e) => Follows(i, e.p)'
        BY <4>2, <4>3 DEF Follows, NextBlock
      <4> QED BY <4>2, <4>4
    <3> QED BY <1>1, <2>1, <2>2, <3>1, <3>2
  <2>6. FramesToR'
    BY <2>5 DEF FramesToR, InPlaceInFile, IsZDATA, Follows, NextBlock, StartsAt
  <2> QED BY <2>4, <2>6
<1> QED BY <1>3, <1>4 DEF SzSends

\* What was promised about the frame after the first i + d frames of a stream
\* still holds of the frame after the first i of the thinned one.
LEMMA ThinnedFollows ==
  ASSUME toR \in Seq(Frame), toR' \in Seq(Frame),
         NEW d \in {0, 1}, Thinned(toR, toR', d),
         \A p \in Nat : NextBlock(p) => NextBlock(p)',
         NEW i \in 0 .. Len(toR'), NEW p \in Nat, Follows(i + d, p)
  PROVE  Follows(i, p)'
<1>1. Len(toR) \in Nat /\ Len(toR') \in Nat /\ Len(toR') = Len(toR) - d
  BY DEF Thinned
<1>2. CASE i = Len(toR')
  BY <1>1, <1>2 DEF Follows
<1>3. CASE i < Len(toR')
  <2>1. i + 1 \in 1 .. Len(toR') /\ i + d # Len(toR) /\ i # Len(toR')
    BY <1>1, <1>3
  <2>2. StartsAt(toR[i + d + 1], p)
    BY <2>1 DEF Follows
  <2>3. toR'[i + 1] = toR[i + 1 + d] \/ toR'[i + 1].k # "data"
    BY <2>1 DEF Thinned
  <2>4. i + d + 1 = i + 1 + d
    OBVIOUS
  <2>5. StartsAt(toR'[i + 1], p)
    BY <2>2, <2>3, <2>4 DEF StartsAt
  <2> QED BY <2>1, <2>5 DEF Follows, StartsAt
<1> QED BY <1>1, <1>2, <1>3

\* Thinning the stream to the receiver keeps its labels right.
LEMMA ThinnedToR ==
  ASSUME toR \in Seq(Frame), toR' \in Seq(Frame),
         NEW d \in {0, 1}, Thinned(toR, toR', d),
         \A p \in Nat : NextBlock(p) => NextBlock(p)',
         FramesToR
  PROVE  FramesToR'
<1>1. Len(toR) \in Nat /\ Len(toR') \in Nat /\ Len(toR') = Len(toR) - d
  BY DEF Thinned
<1>2. ASSUME NEW i \in 1 .. Len(toR'), NEW e, e = toR'[i]
      PROVE  InPlaceInFile(e) /\ (IsZDATA(e) => Follows(i, e.p)')
  <2>1. CASE e.k \notin {"data", "hdr"}
    BY <2>1 DEF IsZDATA, InPlaceInFile
  <2>2. CASE e = toR[i + d]
    <3>1. i + d \in 1 .. Len(toR) /\ i \in 0 .. Len(toR')
      BY <1>1
    <3>2. IsZDATA(e) => e.p \in Nat
      BY <2>2, <3>1 DEF IsZDATA, Frame, Info, Nul, BadHdr, Eof
    <3>3. InPlaceInFile(e) /\ (IsZDATA(e) => Follows(i + d, e.p))
      BY <2>2, <3>1 DEF FramesToR
    <3>4. IsZDATA(e) => Follows(i, e.p)'
      BY <3>1, <3>2, <3>3, ThinnedFollows
    <3> QED BY <3>3, <3>4
  <2> QED BY <1>2, <2>1, <2>2 DEF Thinned
<1> QED BY <1>2 DEF FramesToR, InPlaceInFile, IsZDATA, Follows, NextBlock, StartsAt

-----------------------------------------------------------------------------
\* Every step preserves the invariant.

\* sz, and the frames that stray, preserve it.
LEMMA SzPreserves ==
  ASSUME IInv, Fits, Sz \/ Stray, UNCHANGED rvars
  PROVE  Integrity' /\ toR' \in Seq(Frame) /\ toS' \in Seq(Frame)
<1>1. UNCHANGED <<rpc, rres, rpos, disk>>
  BY DEF rvars
<1>2. LineTypeOK /\ ReceiverTypeOK /\ FramesToR /\ FramesToS /\ ReaderOfBlock
  BY DEF IInv, TypeOK, Integrity
<1>3. SzSends
  BY <1>1, SzFits
<1>4. FramesToR' /\ ReaderOfBlock'
  BY <1>1, <1>2, <1>3, SzKeepsLabels
<1>5. toS \in Seq(Frame) /\ toS' \in Seq(Frame)
  BY <1>2, SzConsumes, ConsumedType DEF LineTypeOK
<1>6. FramesToS'
  <2>1. PICK d \in {0, 1} : Thinned(toS, toS', d)
    BY <1>2, <1>5, SzConsumes, ReadingThins
  <2> QED BY <1>1, <1>2, <1>5, <2>1, ThinnedToS
<1>7. Copied'
  BY <1>1 DEF IInv, Integrity, Copied
<1>8. toR' \in Seq(Frame)
  BY <1>2, <1>3, ConcatProperties DEF SzSends, Fitting, LineTypeOK
<1> QED BY <1>4, <1>5, <1>6, <1>7, <1>8 DEF Integrity

\* The invariant holds what the receiver's lemmas need.
LEMMA InvReceives ==
  ASSUME IInv
  PROVE  Receiving /\ HeadIsNext
<1>1. Receiving
  BY DEF IInv, TypeOK, Integrity, Receiving
<1>2. ASSUME toR # <<>> PROVE Head(toR) = toR[1] /\ 1 \in 1 .. Len(toR) /\ Len(toR) # 0
  BY <1>2 DEF IInv, TypeOK, LineTypeOK
<1>3. rpc = "block" /\ toR # <<>> => StartsAt(toR[1], rpos)
  BY <1>2 DEF IInv, Integrity, ReaderOfBlock, Follows
<1>4. HeadIsNext
  BY <1>2, <1>3 DEF HeadIsNext, IInv, Integrity, FramesToR, InPlaceInFile, StartsAt
<1> QED BY <1>1, <1>4

\* The receiver starts to read a block only after the ZDATA of its position.
LEMMA ReceiverReadsBlock ==
  ASSUME IInv, Fits, RNext, toR' \in Seq(Frame),
         \A p \in Nat : NextBlock(p) => NextBlock(p)'
  PROVE  ReaderOfBlock'
<1>1. toR \in Seq(Frame)
  BY DEF IInv, TypeOK, LineTypeOK
<1>2. CASE rpc' # "block"
  BY <1>2 DEF ReaderOfBlock
<1>3. CASE StartsBlock
  <2>1. toR # <<>> /\ Head(toR) = toR[1] /\ toR' = Tail(toR) /\ IsZDATA(toR[1])
    BY <1>1, <1>3 DEF StartsBlock, RReceives, Arrives, IsZDATA
  <2>2. 1 \in 1 .. Len(toR) /\ Len(toR') = Len(toR) - 1
        /\ \A i \in 1 .. Len(toR') : toR'[i] = toR[i + 1]
    BY <1>1, <2>1
  <2>3. rpos \in Nat /\ toR[1].p = rpos /\ rpos' = rpos
    BY <1>3, <2>1, PositionFits
       DEF StartsBlock, rxhdr, IInv, TypeOK, ReceiverTypeOK, Integrity, Copied
  <2>4. Follows(1, rpos)
    BY <2>1, <2>2, <2>3 DEF IInv, Integrity, FramesToR
  <2>5. Head(toR).k # "eof" /\ Thinned(toR, toR', 1)
    BY <2>1, <2>2 DEF Thinned, IsZDATA
  <2>6. 0 + 1 = 1 /\ 0 \in 0 .. Len(toR')
    BY <2>2
  <2>7. Follows(0, rpos)'
    <3>1. ASSUME NEW p \in Nat, p = rpos PROVE Follows(0, p)'
      BY <1>1, <2>4, <2>5, <2>6, <3>1, ThinnedFollows
    <3> QED BY <2>3, <3>1 DEF Follows, NextBlock, StartsAt
  <2> QED BY <2>7 DEF ReaderOfBlock
<1> QED BY <1>2, <1>3, ReceiverStartsBlock

\* Every step of the receiver preserves the invariant.
LEMMA ReceiverPreserves ==
  ASSUME IInv, Fits, RNext, UNCHANGED yvars
  PROVE  Integrity'
<1>1. UNCHANGED <<ypc, ypos>>
  BY DEF yvars
<1>2. LineTypeOK /\ ReceiverTypeOK /\ toR \in Seq(Frame) /\ FramesToR
  BY DEF IInv, TypeOK, LineTypeOK, Integrity
<1>3. toR' \in Seq(Frame) /\ toS' \in Seq(Frame)
  BY <1>2, ReceiverLineType
<1>4. \A p \in Nat : NextBlock(p) => NextBlock(p)'
  BY <1>1, InvReceives, ReceiverAnswers DEF NextBlock
<1>5. PICK d \in {0, 1} : Thinned(toR, toR', d)
  BY <1>2, ReceiverConsumes, ReadingThins
<1>6. FramesToR'
  BY <1>2, <1>3, <1>4, <1>5, ThinnedToR
<1>7. FramesToS'
  BY <1>3, InvReceives, AnswersToS DEF IInv, Integrity
<1>8. ReaderOfBlock'
  BY <1>3, <1>4, ReceiverReadsBlock
<1>9. Copied'
  BY InvReceives, ReceiverCopies
<1> QED BY <1>6, <1>7, <1>8, <1>9 DEF Integrity

\* Damage preserves the invariant.
LEMMA GarblePreserves ==
  ASSUME IInv, Garble, UNCHANGED <<rvars, yvars>>
  PROVE  Integrity' /\ toR' \in Seq(Frame) /\ toS' \in Seq(Frame)
<1>1. UNCHANGED <<ypc, ypos, rpc, rres, rpos, disk>>
  BY DEF yvars, rvars
<1>2. toR \in Seq(Frame) /\ toS \in Seq(Frame) /\ LineTypeOK
  BY DEF IInv, TypeOK, LineTypeOK
<1>3. Spoilt(toR, toR') /\ Spoilt(toS, toS')
  BY <1>2, GarbleSpoils
<1>4. toR' \in Seq(Frame) /\ toS' \in Seq(Frame)
  BY <1>2, <1>3, SpoiltType
<1>5. \A p \in Nat : NextBlock(p) => NextBlock(p)'
  BY <1>1 DEF NextBlock
<1>6. Thinned(toR, toR', 0) /\ Thinned(toS, toS', 0)
  BY <1>2, <1>3, DamageThins
<1>7. FramesToR' /\ FramesToS'
  BY <1>1, <1>2, <1>4, <1>5, <1>6, ThinnedToR, ThinnedToS DEF IInv, Integrity
<1>8. ReaderOfBlock'
  <2>1. rpos \in Nat
    BY DEF IInv, TypeOK, ReceiverTypeOK
  <2>2. 0 \in 0 .. Len(toR') /\ 0 + 0 = 0
    BY <1>4
  <2>3. ASSUME NEW p \in Nat, Follows(0, p) PROVE Follows(0, p)'
    BY <1>2, <1>4, <1>5, <1>6, <2>2, <2>3, ThinnedFollows
  <2>4. rpc = "block" => Follows(0, rpos)
    BY DEF IInv, Integrity, ReaderOfBlock
  <2> QED BY <1>1, <2>1, <2>3, <2>4
          DEF ReaderOfBlock, Follows, NextBlock, StartsAt
<1>9. Copied'
  BY <1>1 DEF IInv, Integrity, Copied
<1> QED BY <1>4, <1>7, <1>8, <1>9 DEF Integrity

-----------------------------------------------------------------------------
\* Types and the theorems.

\* sz's own variables keep their types, as long as it is asked for positions
\* of the file.
LEMMA SzVarsType ==
  ASSUME LineTypeOK, SzTypeOK, Sz,
         Heard("ZRPOS") => Head(toS).p \in Nat /\ Head(toS).p <= Len(File)
  PROVE  SzTypeOK'
<1> USE SzConstants DEF SzTypeOK, SzWaits
<1>1. SzGivesUp /\ UNCHANGED strays => SzTypeOK'
  BY DEF SzGivesUp
<1>2. CASE SzHello
  BY <1>2 DEF SzHello
<1>3. CASE SzRewinds
  <2>1. Heard("ZRPOS")
    BY <1>3 DEF SzRewinds
  <2> QED BY <1>1, <1>3, <2>1 DEF SzRewinds
<1>4. CASE SzBlock
  <2>1. ASSUME NEW n \in 1 .. MaxBlock, ypos + n <= Len(File), ypos' = ypos + n
        PROVE  ypos' \in 0 .. Len(File)
    BY <2>1
  <2>2. ypos' \in 0 .. Len(File)
    <3>1. CASE ypos' = Len(File)
      BY <3>1
    <3>2. CASE \E n \in 1 .. MaxBlock : ypos + n <= Len(File) /\ ypos' = ypos + n
      BY <2>1, <3>2
    <3>3. \/ ypos' = Len(File)
          \/ \E n \in 1 .. MaxBlock : ypos + n <= Len(File) /\ ypos' = ypos + n
      BY <1>4, Zenon DEF SzBlock
    <3> QED BY <3>1, <3>2, <3>3
  <2>3. ypc' \in {"ack", "data", "eof"} /\ UNCHANGED <<ytimes, strays>>
    BY <1>4 DEF SzBlock
  <2> QED BY <2>2, <2>3
<1>5. CASE SzReply
  BY <1>5 DEF SzReply
<1>6. CASE SzSkips
  BY <1>6 DEF SzSkips, yvars
<1>7. CASE SzTimeout
  BY <1>1, <1>7 DEF SzTimeout
<1>8. CASE SzCloses
  BY <1>1, <1>8 DEF SzCloses
<1> QED BY <1>2, <1>3, <1>4, <1>5, <1>6, <1>7, <1>8 DEF Sz

LEMMA StrayVarsType ==
  ASSUME SzTypeOK, Stray
  PROVE  SzTypeOK'
BY SzConstants DEF SzTypeOK, Stray

\* The invariant at the start.
LEMMA InvInit ==
  ASSUME Init
  PROVE  IInv
<1>1. LineTypeOK
  <2>1. <<Hdr("ZRQINIT", 0)>> \in Seq(Frame)
    BY FramesAreTyped, ShortSeqs DEF FrameTypes
  <2> QED BY <2>1, LineAssumption DEF Init, LineTypeOK
<1>2. ReceiverTypeOK
  BY ReceiverConstants DEF Init, ReceiverInit, ReceiverTypeOK, RPcs, RResults
<1>3. SzTypeOK
  BY SzConstants DEF Init, SzTypeOK, SzWaits
<1>4. FramesToR
  BY DEF Init, FramesToR, InPlaceInFile, IsZDATA, Hdr
<1>5. FramesToS /\ ReaderOfBlock
  BY DEF Init, ReceiverInit, FramesToS, ReaderOfBlock
<1>6. Copied
  <2>1. disk = [i \in 1 .. 0 |-> i - 1]
    BY DEF Init, ReceiverInit
  <2> QED BY <2>1, SzConstants DEF Init, ReceiverInit, Copied
<1> QED BY <1>1, <1>2, <1>3, <1>4, <1>5, <1>6 DEF IInv, TypeOK, Integrity

\* Every step preserves it.
LEMMA InvNext ==
  ASSUME IInv, Fits, [Next]_vars
  PROVE  IInv'
<1>1. LineTypeOK /\ ReceiverTypeOK /\ SzTypeOK /\ FramesToS /\ faults \in 0 .. MaxFaults
  BY DEF IInv, TypeOK, LineTypeOK, Integrity
<1>2. CASE Receiver
  <2>1. RNext /\ UNCHANGED yvars /\ UNCHANGED faults
    BY <1>2 DEF Receiver
  <2>2. LineTypeOK'
    BY <1>1, <2>1, ReceiverLineType DEF LineTypeOK
  <2>3. ReceiverTypeOK' /\ Integrity'
    BY <1>1, <2>1, ReceiverVarsType, ReceiverPreserves
  <2>4. SzTypeOK'
    BY <1>1, <2>1 DEF SzTypeOK, yvars
  <2> QED BY <2>2, <2>3, <2>4 DEF IInv, TypeOK
<1>3. CASE Peer \/ (Stray /\ UNCHANGED <<faults, rvars>>)
  <2>1. (Sz \/ Stray) /\ UNCHANGED rvars /\ UNCHANGED faults
    BY <1>3 DEF Peer
  <2>2. Integrity' /\ toR' \in Seq(Frame) /\ toS' \in Seq(Frame)
    BY <2>1, SzPreserves
  <2>3. SzTypeOK'
    BY <1>1, <2>1, AskedInFile, SzVarsType, StrayVarsType
  <2>4. LineTypeOK' /\ ReceiverTypeOK'
    BY <1>1, <2>1, <2>2 DEF LineTypeOK, ReceiverTypeOK, rvars
  <2> QED BY <2>2, <2>3, <2>4 DEF IInv, TypeOK
<1>4. CASE Garble /\ UNCHANGED <<rvars, yvars>>
  <2>1. Integrity' /\ toR' \in Seq(Frame) /\ toS' \in Seq(Frame)
    BY <1>4, GarblePreserves
  <2>2. LineTypeOK'
    BY <1>1, <1>4, <2>1, GarbleSpoils DEF LineTypeOK
  <2>3. ReceiverTypeOK' /\ SzTypeOK'
    BY <1>1, <1>4 DEF ReceiverTypeOK, SzTypeOK, rvars, yvars
  <2> QED BY <2>1, <2>2, <2>3 DEF IInv, TypeOK
<1>5. CASE UNCHANGED vars
  BY <1>5 DEF vars, line, rvars, yvars, IInv, TypeOK, LineTypeOK, ReceiverTypeOK,
     SzTypeOK, Integrity, FramesToR, FramesToS, ReaderOfBlock, Copied,
     InPlaceInFile, Follows, NextBlock, StartsAt, IsZDATA, Closed
<1> QED BY <1>2, <1>3, <1>4, <1>5 DEF Next, Line, Done

\* Requests, answers and blocks of both ends keep in step with the file,
\* however often sz starts over.
LEMMA AlwaysInv == ASSUME Fits PROVE FairSpec => []IInv
<1>1. Init => IInv
  BY InvInit
<1>2. IInv /\ [Next]_vars => IInv'
  BY InvNext
<1> QED BY <1>1, <1>2, PTL DEF FairSpec

\* The variables keep their types: sz is never asked for a position beyond the
\* file, whatever it sent (receiver.go:391-396).
THEOREM TypeCorrect == ASSUME Fits PROVE FairSpec => []TypeOK
<1>1. IInv => TypeOK
  BY DEF IInv
<1> QED BY <1>1, AlwaysInv, PTL

\* What ReceiveFile writes is a prefix of the file that sz sends, in blocks of
\* any size and with any frame end, through damage, old blocks and frames out
\* of place (receiver.go:449-523).
THEOREM WritesPrefix == ASSUME Fits PROVE FairSpec => []WrittenIsPrefix
<1>1. IInv => WrittenIsPrefix
  <2> SUFFICES ASSUME IInv PROVE WrittenIsPrefix
    OBVIOUS
  <2>1. rpos \in Nat /\ disk = [i \in 1 .. rpos |-> i - 1] /\ rpos <= Len(File)
    BY DEF IInv, TypeOK, ReceiverTypeOK, Integrity, Copied
  <2>2. Len(disk) = rpos
    BY <2>1
  <2> QED BY <2>1, <2>2 DEF WrittenIsPrefix
<1> QED BY <1>1, AlwaysInv, PTL

\* ReceiveFile reports success only with the whole file, although it never
\* compares what it wrote with the size sz announced (receiver.go:432-446).
THEOREM SuccessIsComplete == ASSUME Fits PROVE FairSpec => []ReceivedIsComplete
<1>1. IInv => ReceivedIsComplete
  <2> SUFFICES ASSUME IInv, rres = "ok" PROVE Len(disk) = Len(File)
    BY DEF ReceivedIsComplete
  <2>1. rpos \in Nat /\ disk = [i \in 1 .. rpos |-> i - 1] /\ rpos = Len(File)
    BY DEF IInv, TypeOK, ReceiverTypeOK, Integrity, Copied
  <2> QED BY <2>1
<1> QED BY <1>1, AlwaysInv, PTL
=============================================================================
