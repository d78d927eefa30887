-------------------------- MODULE ZTransfer_proofs --------------------------
(***************************************************************************)
(* A transfer keeps its types; the file written is a prefix of the file    *)
(* sent, and all of it when the receiver reports success: the invariant    *)
(* Inductive of ZTransfer is preserved by every step, whatever the limits  *)
(* and the damage.  Requests for a position never go back, and, as long as *)
(* the sender streams, no answer passes for the acknowledgement of ZEOF    *)
(* but the one of a receiver that has the whole file.  On a line that      *)
(* nothing disturbs a call fails only when the other end is gone.          *)
(***************************************************************************)
EXTENDS ZTransfer, ZEnds_proofs

\* TypeOK holds in every state, whatever the file, the limits and the faults:
\* positions never become negative although they are subtracted modulo 2^32.
THEOREM TypeCorrect == Spec => []TypeOK
<1>1. Init => TypeOK
  <2> SUFFICES ASSUME Init PROVE TypeOK
    OBVIOUS
  <2>1. LineTypeOK
    BY LineAssumption DEF Init, LineInit, LineTypeOK
  <2>2. SenderTypeOK
    BY SenderConstants, LineAssumption
    DEF Init, SenderInit, SenderTypeOK, SPcs, Results
  <2>3. ReceiverTypeOK
    BY ReceiverConstants
    DEF Init, ReceiverInit, ReceiverTypeOK, RPcs, RResults
  <2> QED BY <2>1, <2>2, <2>3 DEF TypeOK
<1>2. TypeOK /\ [Next]_vars => TypeOK'
  <2> SUFFICES ASSUME TypeOK, [Next]_vars PROVE TypeOK'
    OBVIOUS
  <2> USE DEF TypeOK
  <2>1. CASE Sender
    <3>1. LineTypeOK'
      BY <2>1, SenderLineType DEF Sender, LineTypeOK
    <3>2. SenderTypeOK'
      BY <2>1, SenderVarsType DEF Sender
    <3>3. ReceiverTypeOK'
      BY <2>1 DEF Sender, ReceiverTypeOK, rvars
    <3> QED BY <3>1, <3>2, <3>3
  <2>2. CASE Receiver
    <3>1. LineTypeOK'
      BY <2>2, ReceiverLineType DEF Receiver, LineTypeOK
    <3>2. ReceiverTypeOK'
      BY <2>2, ReceiverVarsType DEF Receiver
    <3>3. SenderTypeOK'
      BY <2>2 DEF Receiver, SenderTypeOK, svars, negotiated, progress
    <3> QED BY <3>1, <3>2, <3>3
  <2>3. CASE Line
    <3>2. LineTypeOK'
      BY <2>3, SpoiltType, GarbleSpoils DEF Line, LineTypeOK
    <3>3. SenderTypeOK' /\ ReceiverTypeOK'
      BY <2>3 DEF Line, SenderTypeOK, svars, negotiated, progress,
                  ReceiverTypeOK, rvars
    <3> QED BY <3>2, <3>3
  <2>4. CASE UNCHANGED vars
    BY <2>4 DEF vars, line, svars, negotiated, progress, rvars,
                LineTypeOK, SenderTypeOK, ReceiverTypeOK
  <2> QED BY <2>1, <2>2, <2>3, <2>4 DEF Next, Done
<1> QED BY <1>1, <1>2, PTL DEF Spec

-----------------------------------------------------------------------------
\* The two conditions of the theorems below: sendFileData can seek
\* (sender.go:714), and the positions of the file fit a header.
Assumed == Seekable = TRUE /\ Fits

IInv == TypeOK /\ Inductive

-----------------------------------------------------------------------------
\* The sender.

\* What a step of the sender may append to the stream: frames none of which
\* is mislabelled, and that may follow whatever was promised.
Fitting(es) ==
  /\ es \in Seq(Frame) /\ es # <<>>
  /\ \A p \in Nat : NextBlock(p) => StartsAt(es[1], p)
  /\ \A i \in 1 .. Len(es) :
       /\ es[i].k = "data" => es[i].lo + es[i].n <= Len(File)
       /\ es[i].k = "hdr" /\ es[i].t = "ZEOF" => es[i].p = Len(File)
       /\ IsZDATA(es[i]) => i = Len(es) /\ NextBlock(es[i].p)'

\* A step of the sender writes nothing and keeps its promises, or appends
\* fitting frames to a stream whose reader is there.
SenderSends ==
  \/ toR' = toR /\ \A p \in Nat : NextBlock(p) => NextBlock(p)'
  \/ \E es : Fitting(es) /\ toR' = toR \o es

\* Frames that are neither subpackets nor ZDATA nor ZEOF always fit.
PlainFrame(e) ==
  e \in Frame /\ e.k # "data" /\ (e.k = "hdr" => e.t \notin {"ZDATA", "ZEOF"})

LEMMA PlainFramesFit ==
  ASSUME NEW e, PlainFrame(e)
  PROVE  Fitting(<<e>>) /\ \A f : PlainFrame(f) => Fitting(<<e, f>>)
<1>1. <<e>> \in Seq(Frame) /\ \A f \in Frame : <<e, f>> \in Seq(Frame)
  BY DEF PlainFrame
<1>2. Fitting(<<e>>)
  BY <1>1 DEF PlainFrame, Fitting, StartsAt, IsZDATA
<1>3. ASSUME NEW f, PlainFrame(f) PROVE Fitting(<<e, f>>)
  <2>1. /\ <<e, f>> \in Seq(Frame) /\ <<e, f>> # <<>> /\ Len(<<e, f>>) = 2
        /\ <<e, f>>[1] = e /\ <<e, f>>[2] = f
    BY <1>1, <1>3 DEF PlainFrame
  <2>2. \A i \in 1 .. 2 : i = 1 \/ i = 2
    OBVIOUS
  <2> QED BY <1>3, <2>1, <2>2 DEF PlainFrame, Fitting, StartsAt, IsZDATA
<1> QED BY <1>2, <1>3

\* Writing frames that fit, or losing them because the receiver is gone.
LEMMA WritingFits ==
  ASSUME IInv, NEW es, Fitting(es), SWrites(es), UNCHANGED rpc
  PROVE  SenderSends
<1>1. CASE ~Closed(toS) /\ toR' = toR \o es
  BY <1>1 DEF SenderSends
<1>2. CASE Closed(toS) /\ toR' = toR
  <2>1. Len(toS) \in 1 .. Len(toS)
    BY <1>2 DEF Closed, IInv, TypeOK, LineTypeOK
  <2>2. rpc = "end"
    BY <1>2, <2>1 DEF Closed, IInv, Inductive, FramesToS
  <2> QED BY <1>2, <2>2 DEF SenderSends, NextBlock
<1> QED BY <1>1, <1>2 DEF SWrites, Written

\* A step that writes nothing and does not leave a promise.
LEMMA QuietKeeps ==
  ASSUME SQuiet, UNCHANGED rpc, spc' \in {"ret", "end"} \/ spc # "data",
         spc \in {"ret", "end"} => spc' \in {"ret", "end"}
  PROVE  SenderSends
BY DEF SQuiet, SenderSends, NextBlock

\* What the sender can receive.
LEMMA SenderHears ==
  ASSUME IInv, NEW types, SReceives(types)
  PROVE  /\ Head(toS).t \in types
         /\ Head(toS).t \in {"ZRINIT", "ZNAK", "ZACK", "ZRPOS", "ZSKIP", "ZCOMPL"}
         /\ rxpos \in Nat
         /\ Head(toS).t = "ZRPOS" => rxpos <= Len(File)
<1>1. toS \in Seq(Frame) /\ toS # <<>> /\ Head(toS) = toS[1] /\ 1 \in 1 .. Len(toS)
  BY DEF IInv, TypeOK, LineTypeOK, SReceives, Arrives
<1>2. toS[1].k = "hdr" /\ toS[1].t \in types
  BY <1>1 DEF SReceives, Arrives
<1>3. rxpos \in Nat
  BY <1>1, ReceivedPosition DEF SReceives, rxpos
<1> QED BY <1>1, <1>2, <1>3 DEF IInv, Inductive, FramesToS, rxpos

\* A ZDATA header sent after a ZRPOS announces the block that is read next.
LEMMA RestartFits ==
  ASSUME IInv, Assumed, NEW p \in Nat, p <= Len(File), spc # "data",
         spc \notin {"ret", "end"}, UNCHANGED rpc,
         SWrites(<<Hdr("ZDATA", p)>>), spc' = "data", spos' = p
  PROVE  SenderSends
<1>1. <<Hdr("ZDATA", p)>> \in Seq(Frame)
  BY FramesAreTyped, ShortSeqs DEF FrameTypes
<1>2. Hdr("ZDATA", p).p = p
  BY PositionFits DEF Hdr, Assumed
<1>3. Fitting(<<Hdr("ZDATA", p)>>)
  BY <1>1, <1>2 DEF Fitting, StartsAt, IsZDATA, NextBlock, Hdr
<1> QED BY <1>3, WritingFits

\* Every step of the sender sends fitting frames or none.
LEMMA SenderFits ==
  ASSUME IInv, Assumed, SNext, UNCHANGED rpc
  PROVE  SenderSends
<1> USE DEF SGo, SReturn
<1>1. \A t \in FrameTypes \ {"ZDATA", "ZEOF"}, p \in Nat : Fitting(<<Hdr(t, p)>>)
  <2> TAKE t \in FrameTypes \ {"ZDATA", "ZEOF"}, p \in Nat
  <2>1. PlainFrame(Hdr(t, p))
    BY FramesAreTyped DEF PlainFrame, Hdr
  <2> QED BY <2>1, PlainFramesFit
<1>2. CASE SSkipGarbage
  BY <1>2, QuietKeeps DEF SSkipGarbage, SWaits
<1>3. CASE SInitTop
  <2>1. CASE SQuiet
    BY <1>3, <2>1, QuietKeeps DEF SInitTop
  <2>2. CASE SWrites(<<Hdr("ZRQINIT", 0)>>)
    BY <2>2, <1>1, WritingFits DEF FrameTypes
  <2> QED BY <1>3, <2>1, <2>2 DEF SInitTop
<1>4. CASE SInitZRINIT \/ SInitNoHeader
  BY <1>4, QuietKeeps DEF SInitZRINIT, SInitNoHeader, SInitAgain
<1>5. CASE SInitOther
  <2>1. CASE SQuiet
    BY <1>5, <2>1, QuietKeeps DEF SInitOther, SInitAgain
  <2>2. CASE SWrites(<<Hdr("ZNAK", 0)>>)
    BY <2>2, <1>1, WritingFits DEF FrameTypes
  <2>3. CASE SReceives({"ZCHALLENGE"})
    BY <2>3, SenderHears
  <2> QED BY <1>5, <2>1, <2>2, <2>3 DEF SInitOther
<1>6. CASE SZsinitTop
  <2> DEFINE es == <<Hdr("ZSINIT", 0), IF EscapesCtrl THEN Part(0, 0) ELSE Info>>
  <2>1. PlainFrame(Hdr("ZSINIT", 0)) /\ PlainFrame(Info) /\ PlainFrame(Part(0, 0))
    BY FramesAreTyped DEF PlainFrame, Hdr, Part, Info, FrameTypes
  <2>2. Fitting(es)
    BY <2>1, PlainFramesFit
  <2> QED BY <1>6, <2>2, WritingFits DEF SZsinitTop
<1>7. CASE SZsinitReply
  BY <1>7, QuietKeeps DEF SZsinitReply, SRetry
<1>8. CASE SFileTop
  <2>1. PlainFrame(Hdr("ZFILE", 0)) /\ PlainFrame(Info)
    BY FramesAreTyped DEF PlainFrame, Hdr, Info, FrameTypes
  <2>2. Fitting(<<Hdr("ZFILE", 0), Info>>)
    BY <2>1, PlainFramesFit
  <2> QED BY <1>8, <2>2, WritingFits DEF SFileTop
<1>9. CASE SFileReply
  BY <1>9, QuietKeeps DEF SFileReply, SRetry
<1>10. CASE SDiscard
  BY <1>10, QuietKeeps DEF SDiscard
<1>11. CASE SFileCRC
  BY <1>11, SenderHears DEF SFileCRC
<1>12. CASE SFileZRPOS \/ SEofZRPOS
  <2>1. rxpos \in Nat /\ rxpos <= Len(File)
    <3>1. SReceives({"ZRPOS"})
      BY <1>12 DEF SFileZRPOS, SEofZRPOS
    <3> QED BY <3>1, SenderHears
  <2>2. SWrites(<<Hdr("ZDATA", rxpos)>>) /\ spc' = "data" /\ spos' = rxpos
    BY <1>12 DEF SFileZRPOS, SEofZRPOS, StartData
  <2>3. spc \in {"zfileWait", "eofWait"}
    BY <1>12 DEF SFileZRPOS, SEofZRPOS
  <2> QED BY <2>1, <2>2, <2>3, RestartFits
<1>13. CASE SAckWSeek
  <2>1. rxpos \in Nat /\ rxpos <= Len(File)
    BY <1>13, SenderHears DEF SAckWSeek
  <2>2. /\ SWrites(<<Hdr("ZDATA", rxpos)>>) /\ spc' = "data" /\ spos' = rxpos
        /\ spc = "ackW"
    BY <1>13 DEF SAckWSeek
  <2> QED BY <2>1, <2>2, RestartFits
<1>14. CASE SBlock
  <2> DEFINE e == Data(fpos, ReadLen, FrameEnd(ReadLen))
  <2>1. SenderTypeOK /\ fpos = spos /\ fpos <= Len(File) /\ spc = "data"
    BY <1>14 DEF SBlock, IInv, TypeOK, Inductive, ReaderInStep, InData
  <2>2. FrameEnd(ReadLen) \in FrameEnds
    BY DEF FrameEnd, FrameEnds
  <2>3. <<e>> \in Seq(Frame)
    BY <2>1, <2>2, ReadLenType, FramesAreTyped, ShortSeqs DEF SenderTypeOK
  <2>4. e.k = "data" /\ e.lo = fpos /\ e.lo + e.n <= Len(File)
    BY <2>1, ReadLenType DEF Data
  <2>5. CASE Closed(toS) /\ toR' = toR
    <3>1. Len(toS) \in 1 .. Len(toS)
      BY <2>5 DEF Closed, IInv, TypeOK, LineTypeOK
    <3>2. rpc = "end"
      BY <2>5, <3>1 DEF Closed, IInv, Inductive, FramesToS
    <3> QED BY <2>5, <3>2 DEF SenderSends, NextBlock
  <2>6. CASE ~Closed(toS) /\ toR' = toR \o <<e>>
    <3>1. rpc # "end"
      BY <2>6 DEF IInv, Inductive, FramesToS
    <3>2. \A p \in Nat : NextBlock(p) => StartsAt(e, p)
      BY <2>1, <2>4, <3>1 DEF NextBlock, StartsAt
    <3>3. Fitting(<<e>>)
      BY <2>3, <2>4, <3>2 DEF Fitting, IsZDATA
    <3> QED BY <2>6, <3>3 DEF SenderSends
  <2> QED BY <1>14, <2>5, <2>6 DEF SBlock, SWrites, Written
<1>15. CASE SCancelled \/ SWriteFails
  BY <1>15, QuietKeeps DEF SCancelled, SWriteFails
<1>16. CASE SAckW
  <2>1. spc = "ackW" /\ SQuiet
    BY <1>16 DEF SAckW
  <2> QED BY <2>1, QuietKeeps
<1>17. CASE SAckQ
  <2>1. spc = "ackQ" /\ SQuiet
    BY <1>17 DEF SAckQ
  <2> QED BY <2>1, QuietKeeps
<1>18. CASE SWinWait
  <2>1. spc \in {"win", "winEnd"} /\ SQuiet
    BY <1>18 DEF SWinWait
  <2> QED BY <2>1, QuietKeeps
<1>19. CASE SEofTop
  <2>1. spos = Len(File) /\ spos \in Nat
    BY <1>19 DEF SEofTop, IInv, Inductive, ReaderInStep, TypeOK, SenderTypeOK
  <2>2. <<Hdr("ZEOF", spos)>> \in Seq(Frame)
    BY <2>1, FramesAreTyped, ShortSeqs DEF FrameTypes
  <2>3. Hdr("ZEOF", spos).p = Len(File)
    BY <2>1, PositionFits DEF Hdr, Assumed
  <2>4. Fitting(<<Hdr("ZEOF", spos)>>)
    BY <2>2, <2>3 DEF Fitting, StartsAt, IsZDATA, Hdr
  <2> QED BY <1>19, <2>4, WritingFits DEF SEofTop
<1>20. CASE SEofReply
  BY <1>20, QuietKeeps DEF SEofReply
<1>21. CASE SClose
  <2>1. toR' = toR \o <<Eof>>
    BY <1>21 DEF SClose, IInv, TypeOK, LineTypeOK
  <2>2. PlainFrame(Eof)
    BY FramesAreTyped DEF PlainFrame, Eof
  <2>3. Fitting(<<Eof>>)
    BY <2>2, PlainFramesFit
  <2> QED BY <2>1, <2>3 DEF SenderSends
<1> QED
  BY <1>2, <1>3, <1>4, <1>5, <1>6, <1>7, <1>8, <1>9, <1>10, <1>11, <1>12, <1>13,
     <1>14, <1>15, <1>16, <1>17, <1>18, <1>19, <1>20, <1>21
  DEF SNext, SCall

\* Appending fitting frames keeps the labels of the stream right.
LEMMA SenderKeepsLabels ==
  ASSUME IInv, SenderSends, UNCHANGED <<rpc, rpos>>
  PROVE  FramesToR' /\ ReaderOfBlock'
<1>1. toR \in Seq(Frame) /\ Len(toR) \in Nat /\ rpos \in Nat
  BY DEF IInv, TypeOK, LineTypeOK, ReceiverTypeOK
<1>2. \A i \in 1 .. Len(toR) : IsZDATA(toR[i]) => toR[i].p \in Nat
  BY <1>1 DEF IsZDATA, Frame, Info, Nul, BadHdr, Eof
<1>3. CASE toR' = toR /\ \A p \in Nat : NextBlock(p) => NextBlock(p)'
  <2>1. ASSUME NEW i \in 0 .. Len(toR), NEW p \in Nat, Follows(i, p)
        PROVE  Follows(i, p)'
    BY <1>3, <2>1 DEF Follows, StartsAt
  <2> QED BY <1>1, <1>2, <1>3, <2>1
          DEF IInv, Inductive, FramesToR, ReaderOfBlock, IsZDATA
<1>4. ASSUME NEW es, Fitting(es), toR' = toR \o es
      PROVE  FramesToR' /\ ReaderOfBlock'
  <2>1. es \in Seq(Frame) /\ Len(es) \in Nat /\ Len(es) > 0
    BY <1>4 DEF Fitting
  <2>2. /\ Len(toR') = Len(toR) + Len(es)
        /\ \A i \in 1 .. Len(toR) + Len(es) :
              toR'[i] = IF i <= Len(toR) THEN toR[i] ELSE es[i - Len(toR)]
    BY <1>1, <1>4, <2>1, ConcatProperties
  <2>3. ASSUME NEW i \in 0 .. Len(toR), NEW p \in Nat, Follows(i, p)
        PROVE  Follows(i, p)'
    <3>1. CASE i = Len(toR)
      <4>1. toR'[i + 1] = es[1] /\ i # Len(toR')
        BY <1>1, <2>1, <2>2, <3>1
      <4>2. StartsAt(es[1], p)
        BY <1>4, <2>3, <3>1 DEF Fitting, Follows
      <4> QED BY <4>1, <4>2 DEF Follows, StartsAt
    <3>2. CASE i < Len(toR)
      <4>1. toR'[i + 1] = toR[i + 1] /\ i # Len(toR')
        BY <1>1, <2>1, <2>2, <3>2
      <4> QED BY <2>3, <3>2, <4>1 DEF Follows, StartsAt
    <3> QED BY <1>1, <3>1, <3>2
  <2>4. ReaderOfBlock'
    BY <1>1, <2>3 DEF IInv, Inductive, ReaderOfBlock
  <2>5. ASSUME NEW i \in 1 .. Len(toR'), NEW e, e = toR'[i]
        PROVE  /\ e.k = "data" => e.lo + e.n <= Len(File)
               /\ e.k = "hdr" /\ e.t = "ZEOF" => e.p = Len(File)
               /\ IsZDATA(e) => Follows(i, e.p)'
    <3>1. CASE i <= Len(toR)
      <4>1. toR[i] = e /\ i \in 1 .. Len(toR)
        BY <1>1, <2>1, <2>2, <2>5, <3>1
      <4>2. IsZDATA(e) => Follows(i, e.p)'
        BY <1>2, <2>3, <4>1 DEF IInv, Inductive, FramesToR
      <4> QED BY <4>1, <4>2 DEF IInv, Inductive, FramesToR
    <3>2. CASE i > Len(toR)
      <4>1. e = es[i - Len(toR)] /\ i - Len(toR) \in 1 .. Len(es)
        BY <1>1, <2>1, <2>2, <2>5, <3>2
      <4>2. IsZDATA(e) => i - Len(toR) = Len(es) /\ NextBlock(e.p)'
        BY <1>4, <4>1 DEF Fitting
      <4>3. i - Len(toR) = Len(es) => i = Len(toR')
        BY <1>1, <2>1, <2>2
      <4> QED BY <1>4, <4>1, <4>2, <4>3 DEF Fitting, Follows
    <3> QED BY <1>1, <2>1, <2>2, <3>1, <3>2
  <2>6. FramesToR'
    BY <2>5 DEF FramesToR, IsZDATA, Follows, NextBlock, StartsAt
  <2> QED BY <2>4, <2>6
<1> QED BY <1>3, <1>4 DEF SenderSends

-----------------------------------------------------------------------------
\* Reading and damage.

\* What was promised about the frame after the first i + d frames of a stream
\* still holds of the frame after the first i of the thinned one.
LEMMA ThinnedFollows ==
  ASSUME toR \in Seq(Frame), toR' \in Seq(Frame),
         NEW d \in {0, 1}, Thinned(toR, toR', d),
         \A p \in Nat : NextBlock(p) => NextBlock(p)',
         NEW i \in 0 .. Len(toR'), NEW p \in Nat, Follows(i + d, p)
  PROVE  Follows(i, p)'
<1>1. Len(toR) \in Nat /\ Len(toR') \in Nat /\ Len(toR') = Len(toR) - d
  BY DEF Thinned
<1>2. CASE i = Len(toR')
  BY <1>1, <1>2 DEF Follows
<1>3. CASE i < Len(toR')
  <2>1. i + 1 \in 1 .. Len(toR') /\ i + d # Len(toR) /\ i # Len(toR')
    BY <1>1, <1>3
  <2>2. StartsAt(toR[i + d + 1], p)
    BY <2>1 DEF Follows
  <2>3. \/ toR'[i + 1] = toR[i + 1 + d]
        \/ toR'[i + 1].k # "data"
    BY <2>1 DEF Thinned
  <2>4. i + d + 1 = i + 1 + d
    OBVIOUS
  <2>5. StartsAt(toR'[i + 1], p)
    BY <2>2, <2>3, <2>4 DEF StartsAt
  <2> QED BY <2>1, <2>5 DEF Follows, StartsAt
<1> QED BY <1>1, <1>2, <1>3

\* Thinning the stream to the receiver keeps its labels right.
LEMMA ThinnedToR ==
  ASSUME toR \in Seq(Frame), toR' \in Seq(Frame),
         NEW d \in {0, 1}, Thinned(toR, toR', d),
         \A p \in Nat : NextBlock(p) => NextBlock(p)',
         FramesToR
  PROVE  FramesToR'
<1>1. Len(toR) \in Nat /\ Len(toR') \in Nat /\ Len(toR') = Len(toR) - d
  BY DEF Thinned
<1>2. ASSUME NEW i \in 1 .. Len(toR'), NEW e, e = toR'[i]
      PROVE  /\ e.k = "data" => e.lo + e.n <= Len(File)
             /\ e.k = "hdr" /\ e.t = "ZEOF" => e.p = Len(File)
             /\ IsZDATA(e) => Follows(i, e.p)'
  <2>1. CASE e.k \notin {"data", "hdr"}
    BY <2>1 DEF IsZDATA
  <2>2. CASE e = toR[i + d]
    <3>1. i + d \in 1 .. Len(toR) /\ i \in 0 .. Len(toR')
      BY <1>1
    <3>2. IsZDATA(e) => e.p \in Nat
      BY <2>2, <3>1 DEF IsZDATA, Frame, Info, Nul, BadHdr, Eof
    <3>3. IsZDATA(e) => Follows(i + d, e.p)
      BY <2>2, <3>1 DEF FramesToR
    <3>4. IsZDATA(e) => Follows(i, e.p)'
      BY <3>1, <3>2, <3>3, ThinnedFollows
    <3> QED BY <2>2, <3>1, <3>4 DEF FramesToR
  <2> QED BY <1>2, <2>1, <2>2 DEF Thinned
<1> QED BY <1>2 DEF FramesToR, IsZDATA, Follows, NextBlock, StartsAt

\* Every step of the sender preserves the invariant.
LEMMA SenderPreserves ==
  ASSUME IInv, Assumed, Sender
  PROVE  Inductive'
<1>1. SNext /\ UNCHANGED <<rpc, rres, rpos, disk>>
  BY DEF Sender, rvars
<1>2. LineTypeOK /\ SenderTypeOK
  BY DEF IInv, TypeOK
<1>3. ReaderInStep'
  <2>1. SReceives({"ZRPOS"}) => rxpos <= Len(File)
    BY SenderHears
  <2>2. ~SReceives({"ZCRC"})
    BY SenderHears
  <2>3. ReaderInStep /\ Seekable = TRUE
    BY DEF IInv, Inductive, Assumed
  <2> QED BY <1>1, <1>2, <2>1, <2>2, <2>3, SenderInStep
<1>4. FramesToR' /\ ReaderOfBlock'
  BY <1>1, SenderFits, SenderKeepsLabels
<1>5. FramesToS'
  <2>1. toS \in Seq(Frame) /\ toS' \in Seq(Frame)
    BY <1>1, <1>2, SenderLineType DEF LineTypeOK
  <2>2. PICK d \in {0, 1} : Thinned(toS, toS', d)
    BY <1>1, <1>2, <2>1, SenderConsumes, ReadingThins
  <2> QED BY <1>1, <2>1, <2>2, ThinnedToS DEF IInv, Inductive
<1>6. Copied'
  BY <1>1 DEF IInv, Inductive, Copied
<1> QED BY <1>3, <1>4, <1>5, <1>6 DEF Inductive

-----------------------------------------------------------------------------
\* The receiver.

\* The invariant holds what the receiver's lemmas need.
LEMMA InvReceives ==
  ASSUME IInv
  PROVE  Receiving /\ HeadIsNext /\ (Assumed => Fits)
<1>1. Receiving
  BY DEF IInv, TypeOK, Inductive, Receiving
<1>2. ASSUME toR # <<>> PROVE Head(toR) = toR[1] /\ 1 \in 1 .. Len(toR) /\ Len(toR) # 0
  BY <1>2 DEF IInv, TypeOK, LineTypeOK
<1>3. rpc = "block" /\ toR # <<>> => StartsAt(toR[1], rpos)
  BY <1>2 DEF IInv, Inductive, ReaderOfBlock, Follows
<1>4. HeadIsNext
  BY <1>2, <1>3 DEF HeadIsNext, IInv, Inductive, FramesToR, StartsAt
<1> QED BY <1>1, <1>4 DEF Assumed

\* The receiver starts to read a block only after the ZDATA of its position.
LEMMA ReceiverReadsBlock ==
  ASSUME IInv, Assumed, RNext, toR' \in Seq(Frame),
         \A p \in Nat : NextBlock(p) => NextBlock(p)'
  PROVE  ReaderOfBlock'
<1>1. toR \in Seq(Frame)
  BY DEF IInv, TypeOK, LineTypeOK
<1>2. CASE rpc' # "block"
  BY <1>2 DEF ReaderOfBlock
<1>3. CASE StartsBlock
  <2>1. toR # <<>> /\ Head(toR) = toR[1] /\ toR' = Tail(toR) /\ IsZDATA(toR[1])
    BY <1>1, <1>3 DEF StartsBlock, RReceives, Arrives, IsZDATA
  <2>2. 1 \in 1 .. Len(toR) /\ Len(toR') = Len(toR) - 1
        /\ \A i \in 1 .. Len(toR') : toR'[i] = toR[i + 1]
    BY <1>1, <2>1
  <2>3. rpos \in Nat /\ toR[1].p = rpos /\ rpos' = rpos
    BY <1>3, <2>1, PositionFits, InvReceives
       DEF StartsBlock, rxhdr, IInv, TypeOK, ReceiverTypeOK, Inductive, Copied
  <2>4. Follows(1, rpos)
    BY <2>1, <2>2, <2>3 DEF IInv, Inductive, FramesToR
  <2>5. Head(toR).k # "eof" /\ Thinned(toR, toR', 1)
    BY <2>1, <2>2 DEF Thinned, IsZDATA
  <2>6. 0 + 1 = 1 /\ 0 \in 0 .. Len(toR')
    BY <2>2
  <2>7. Follows(0, rpos)'
    <3>1. ASSUME NEW p \in Nat, p = rpos PROVE Follows(0, p)'
      BY <1>1, <2>4, <2>5, <2>6, <3>1, ThinnedFollows
    <3> QED BY <2>3, <3>1 DEF Follows, NextBlock, StartsAt
  <2> QED BY <2>7 DEF ReaderOfBlock
<1> QED BY <1>2, <1>3, ReceiverStartsBlock

\* Every step of the receiver preserves the invariant.
LEMMA ReceiverPreserves ==
  ASSUME IInv, Assumed, Receiver
  PROVE  Inductive'
<1>1. RNext /\ UNCHANGED <<spc, fpos, spos, slen>>
  BY DEF Receiver, svars, progress
<1>2. LineTypeOK /\ ReceiverTypeOK /\ toR \in Seq(Frame)
  BY DEF IInv, TypeOK, LineTypeOK
<1>3. toR' \in Seq(Frame) /\ toS' \in Seq(Frame)
  BY <1>1, <1>2, ReceiverLineType
<1>4. \A p \in Nat : NextBlock(p) => NextBlock(p)'
  BY <1>1, InvReceives, ReceiverAnswers DEF NextBlock
<1>5. PICK d \in {0, 1} : Thinned(toR, toR', d)
  BY <1>1, <1>2, ReceiverConsumes, ReadingThins
<1>6. FramesToR'
  BY <1>2, <1>3, <1>4, <1>5, ThinnedToR DEF IInv, Inductive
<1>7. FramesToS'
  BY <1>1, <1>3, InvReceives, AnswersToS DEF IInv, Inductive
<1>8. ReaderOfBlock'
  BY <1>1, <1>3, <1>4, ReceiverReadsBlock
<1>9. Copied'
  BY <1>1, InvReceives, ReceiverCopies
<1>10. ReaderInStep'
  BY <1>1 DEF IInv, Inductive, ReaderInStep
<1> QED BY <1>6, <1>7, <1>8, <1>9, <1>10 DEF Inductive

\* Damage preserves the invariant.
LEMMA GarblePreserves ==
  ASSUME IInv, Line
  PROVE  Inductive'
<1>1. /\ UNCHANGED <<spc, fpos, spos, slen, rpc, rres, rpos, disk>>
      /\ Spoilt(toR, toR') /\ Spoilt(toS, toS')
  BY GarbleSpoils DEF Line, svars, progress, rvars, IInv, TypeOK
<1>2. toR \in Seq(Frame) /\ toS \in Seq(Frame)
  BY DEF IInv, TypeOK, LineTypeOK
<1>3. toR' \in Seq(Frame) /\ toS' \in Seq(Frame)
  BY <1>1, <1>2, SpoiltType
<1>4. \A p \in Nat : NextBlock(p) => NextBlock(p)'
  BY <1>1 DEF NextBlock
<1>5. Thinned(toR, toR', 0) /\ Thinned(toS, toS', 0)
  BY <1>1, <1>2, DamageThins
<1>6. FramesToR' /\ FramesToS'
  BY <1>1, <1>2, <1>3, <1>4, <1>5, ThinnedToR, ThinnedToS DEF IInv, Inductive
<1>7. ReaderOfBlock'
  <2>1. rpos \in Nat
    BY DEF IInv, TypeOK, ReceiverTypeOK
  <2>2. 0 \in 0 .. Len(toR') /\ 0 + 0 = 0
    BY <1>3
  <2>3. ASSUME NEW p \in Nat, Follows(0, p) PROVE Follows(0, p)'
    BY <1>2, <1>3, <1>4, <1>5, <2>2, <2>3, ThinnedFollows
  <2>4. rpc = "block" => Follows(0, rpos)
    BY DEF IInv, Inductive, ReaderOfBlock
  <2> QED BY <1>1, <2>1, <2>3, <2>4
          DEF ReaderOfBlock, Follows, NextBlock, StartsAt
<1>8. ReaderInStep' /\ Copied'
  BY <1>1 DEF IInv, Inductive, ReaderInStep, Copied
<1> QED BY <1>6, <1>7, <1>8 DEF Inductive

-----------------------------------------------------------------------------
\* Inductive holds in every state, for every file that fits a header and is
\* sent from a seekable source: the labels of the stream and the positions of
\* both ends agree however often sendFileData restarts.
THEOREM StepsPreserve == ASSUME Assumed PROVE Spec => []Inductive
<1>1. Init => Inductive
  <2> SUFFICES ASSUME Init PROVE Inductive
    OBVIOUS
  <2>1. ReaderInStep
    BY DEF Init, SenderInit, ReaderInStep, BeforeData, InData
  <2>2. FramesToR /\ FramesToS /\ ReaderOfBlock
    BY DEF Init, LineInit, ReceiverInit, FramesToR, FramesToS, ReaderOfBlock
  <2>3. Copied
    <3>1. disk = [i \in 1 .. 0 |-> i - 1]
      BY DEF Init, ReceiverInit
    <3>2. Len(File) >= 0
      BY LineAssumption
    <3> QED BY <3>1, <3>2 DEF Init, ReceiverInit, Copied
  <2> QED BY <2>1, <2>2, <2>3 DEF Inductive
<1>2. TypeOK /\ Inductive /\ [Next]_vars => Inductive'
  <2> SUFFICES ASSUME TypeOK, Inductive, [Next]_vars PROVE Inductive'
    OBVIOUS
  <2>1. IInv
    BY DEF IInv
  <2>2. CASE Sender
    BY <2>1, <2>2, SenderPreserves
  <2>3. CASE Receiver
    BY <2>1, <2>3, ReceiverPreserves
  <2>4. CASE Line
    BY <2>1, <2>4, GarblePreserves
  <2>5. CASE UNCHANGED vars
    BY <2>5 DEF vars, line, svars, progress, rvars, Inductive, ReaderInStep,
       FramesToR, FramesToS, ReaderOfBlock, Copied, Follows, NextBlock, StartsAt,
       IsZDATA, Closed
  <2> QED BY <2>2, <2>3, <2>4, <2>5 DEF Next, Done
<1> QED BY <1>1, <1>2, TypeCorrect, PTL DEF Spec

\* Whatever was damaged, repeated or skipped, what ReceiveFile wrote is a
\* prefix of the file sent (receiver.go:484-523).
THEOREM WritesPrefix == ASSUME Assumed PROVE Spec => []WrittenIsPrefix
<1>1. TypeOK /\ Inductive => WrittenIsPrefix
  <2> SUFFICES ASSUME TypeOK, Inductive PROVE WrittenIsPrefix
    OBVIOUS
  <2>1. rpos \in Nat /\ disk = [i \in 1 .. rpos |-> i - 1] /\ rpos <= Len(File)
    BY DEF TypeOK, ReceiverTypeOK, Inductive, Copied
  <2>2. Len(disk) = rpos
    BY <2>1
  <2> QED BY <2>1, <2>2 DEF WrittenIsPrefix
<1> QED BY <1>1, TypeCorrect, StepsPreserve, PTL

\* A receiver that reports success has the whole file (receiver.go:432-446).
THEOREM SuccessIsComplete == ASSUME Assumed PROVE Spec => []ReceivedIsComplete
<1>1. TypeOK /\ Inductive => ReceivedIsComplete
  BY DEF TypeOK, ReceiverTypeOK, Inductive, Copied, ReceivedIsComplete
<1> QED BY <1>1, TypeCorrect, StepsPreserve, PTL

\* A ZDATA header never labels the wrong bytes, through every seek and
\* restart of sendFileData (sender.go:707-720, 812-829, 913-923).
THEOREM LabelsMatch == ASSUME Assumed PROVE Spec => []FramesLabelled
<1>1. TypeOK /\ Inductive => FramesLabelled
  <2> SUFFICES ASSUME TypeOK, Inductive, NEW i \in 1 .. Len(toR) - 1,
                      IsZDATA(toR[i]), toR[i + 1].k = "data"
               PROVE  toR[i].p = toR[i + 1].lo
    BY DEF FramesLabelled, IsZDATA
  <2>1. i \in 1 .. Len(toR) /\ i # Len(toR)
    BY DEF TypeOK, LineTypeOK
  <2> QED BY <2>1 DEF Inductive, FramesToR, Follows, StartsAt
<1> QED BY <1>1, TypeCorrect, StepsPreserve, PTL

-----------------------------------------------------------------------------
\* A file of positions is a prefix in the sense of FileCopy.
LEMMA CopiedIsPrefix ==
  ASSUME TypeOK, Inductive
  PROVE  /\ disk = Copy!Prefix(rpos) /\ Len(disk) = rpos /\ rpos \in Nat
         /\ rpos <= Len(File)
BY DEF TypeOK, ReceiverTypeOK, Inductive, Copied, Copy!Prefix

\* A transfer is a FileCopy: the receiver's file grows as a prefix, and it
\* reports a result once, after which nothing is written any more.
THEOREM Refines == ASSUME Assumed PROVE Spec => CopySpec
<1>1. Init => Copy!CInit
  BY DEF Init, ReceiverInit, Copy!CInit, Copy!Prefix, Report
<1>2. /\ TypeOK /\ Inductive /\ TypeOK' /\ Inductive' /\ [Next]_vars
      => [Copy!CNext]_(Copy!cvars)
  <2> SUFFICES ASSUME TypeOK, Inductive, TypeOK', Inductive', [Next]_vars
               PROVE  [Copy!CNext]_(Copy!cvars)
    OBVIOUS
  <2>1. CASE UNCHANGED <<disk, rres>>
    BY <2>1 DEF Copy!cvars, Report
  <2>2. CASE RNext
    <3>1. disk' = disk \/ (rres' # "ok" /\ rpos' >= rpos)
      <4>1. CASE RBlock
        <5>1. /\ Head(toR).n \in Nat /\ rpos \in Nat
          BY <4>1, InvReceives, BlockIsNext DEF IInv, TypeOK, ReceiverTypeOK
        <5> QED BY <4>1, <5>1 DEF RBlock, RGo, RReturn, Inductive, Copied
      <4>2. CASE ~RBlock
        BY <2>2, <4>2 DEF RNext, RCall, RSkipGarbage, RTry, RTryReply, RInfo, RInfoFails,
           RFinWait, RPrompt, RZrpos, RDataReply, InPlace, RDiscard, RBlockFails,
           RWriteFails, RClose
      <4> QED BY <4>1, <4>2
    <3>2. rres = "none" \/ UNCHANGED <<disk, rres>>
      <4>1. CASE rpc \notin {"ret", "end"}
        BY <4>1 DEF Inductive, Copied
      <4>2. CASE rpc \in {"ret", "end"}
        BY <2>2, <4>2 DEF RNext, RCall, RSkipGarbage, RTry, RTryReply, RInfo, RInfoFails,
           RFinWait, RPrompt, RZrpos, RDataReply, InPlace, RDiscard, RBlock, RBlockFails,
           RWriteFails, RWriting, RClose, RWaits
      <4> QED BY <4>1, <4>2
    <3>3. CASE UNCHANGED <<disk, rres>>
      BY <3>3, <2>1
    <3>7. ASSUME rres' # "ok" PROVE Copy!Grow
      <4>1. /\ disk = Copy!Prefix(rpos) /\ Len(disk) = rpos
            /\ rpos \in Nat /\ rpos' \in Nat /\ rpos <= Len(File)
            /\ disk' = Copy!Prefix(rpos') /\ rpos' <= Len(File)
        BY CopiedIsPrefix DEF TypeOK, ReceiverTypeOK, Inductive, Copied, Copy!Prefix
      <4>2. CASE disk' = disk
        <5>1. rpos \in Len(disk) .. Len(File)
          BY <4>1, LineAssumption
        <5> QED BY <4>1, <4>2, <5>1 DEF Copy!Grow
      <4>3. CASE disk' # disk
        <5>1. rpos' \in Len(disk) .. Len(File)
          BY <3>1, <4>1, <4>3, LineAssumption
        <5> QED BY <4>1, <5>1 DEF Copy!Grow
      <4> QED BY <4>2, <4>3
    <3>4. CASE rres = "none" /\ rres' = "none"
      <4>1. Report = "none" /\ Report' = "none"
        BY <3>4 DEF Report
      <4> QED BY <3>4, <3>7, <4>1 DEF Copy!CNext, Copy!Extend
    <3>5. CASE rres = "none" /\ rres' = "ok"
      <4>1. disk' = disk
        BY <3>1, <3>5
      <4>2. Len(disk') = rpos' /\ rpos' = Len(File)
        BY <3>5 DEF TypeOK, ReceiverTypeOK, Inductive, Copied
      <4>3. Report = "none" /\ Report' = "ok"
        BY <3>5 DEF Report
      <4> QED BY <4>1, <4>2, <4>3 DEF Copy!CNext, Copy!Complete
    <3>6. CASE rres = "none" /\ rres' \notin {"none", "ok"}
      <4>1. Report = "none" /\ Report' = "failed"
        BY <3>6 DEF Report
      <4> QED BY <3>6, <3>7, <4>1 DEF Copy!CNext, Copy!GiveUp
    <3> QED BY <3>2, <3>3, <3>4, <3>5, <3>6
  <2>3. CASE Sender \/ Line \/ UNCHANGED vars
    BY <2>3, <2>1 DEF Sender, Line, vars, rvars
  <2> QED BY <2>2, <2>3 DEF Next, Done, Receiver
<1> QED BY <1>1, <1>2, TypeCorrect, StepsPreserve, PTL
        DEF Spec, CopySpec, Copy!CSpec

-----------------------------------------------------------------------------
\* The answers of a transfer.

\* Where the receiver is before it asked for a position.
RBefore == {"try", "zfileWait", "finWait", "zfileInfo", "zsinitInfo",
            "commandInfo", "prompt"}

\* The first request for a position starts the data.
NoDataYet ==
  /\ rpc \in RBefore =>
       spc \notin InData /\ \A i \in 1 .. Len(toS) : ~Asks(toS[i])
  /\ spc \in {"init", "initWait"} => swin = 0

\* An answer that the sender reads with data under way is the answer of a
\* receiver that is done.
Answered ==
  /\ \A i \in 1 .. Len(toS) : Answers(toS[i]) /\ InFile(i) => rres = "ok"
  /\ sres = "ok" => rres = "ok"

Ordered ==
  /\ RequestsAscend /\ NoDataYet
  /\ swin = 0 => Streaming /\ AsksNothing(toR) /\ Answered

-----------------------------------------------------------------------------
\* Requests that were read or damaged ascend all the more.
LEMMA ThinnedAscends ==
  ASSUME toS \in Seq(Frame), toS' \in Seq(Frame), NEW d \in {0, 1},
         Thinned(toS, toS', d), UNCHANGED disk, RequestsAscend
  PROVE  RequestsAscend'
<1>1. ASSUME NEW i \in 1 .. Len(toS'), Asks(toS'[i])
      PROVE  i + d \in 1 .. Len(toS) /\ toS'[i] = toS[i + d]
  BY <1>1, ThinnedHeaders DEF Asks
<1>2. ASSUME NEW i \in 1 .. Len(toS'), Asks(toS'[i]),
             NEW j \in 1 .. i, Asks(toS'[j])
      PROVE  toS'[j].p <= toS'[i].p
  <2>1. j \in 1 .. Len(toS')
    OBVIOUS
  <2>2. j + d \in 1 .. i + d
    BY <1>1, <1>2
  <2> QED BY <1>1, <1>2, <2>1, <2>2 DEF RequestsAscend
<1>3. ASSUME NEW i \in 1 .. Len(toS'), Asks(toS'[i])
      PROVE  toS'[i].p <= Len(disk')
  BY <1>1, <1>3 DEF RequestsAscend
<1> QED BY <1>2, <1>3 DEF RequestsAscend, Asks

\* Answers that were read or damaged come from a receiver that is done.
LEMMA ThinnedAnswers ==
  ASSUME toS \in Seq(Frame), toS' \in Seq(Frame), NEW d \in {0, 1},
         Thinned(toS, toS', d), UNCHANGED rres,
         spc' \in InData => spc \in InData \/ (d = 1 /\ Asks(toS[1])),
         Answered, sres' = "ok" => rres = "ok"
  PROVE  Answered'
<1>1. ASSUME NEW i \in 1 .. Len(toS'), Answers(toS'[i]), InFile(i)'
      PROVE  rres' = "ok"
  <2>1. i + d \in 1 .. Len(toS) /\ toS'[i] = toS[i + d]
    BY <1>1, ThinnedHeaders DEF Answers
  <2>2. InFile(i + d)
    BY <1>1, ThinnedInFile
  <2> QED BY <1>1, <2>1, <2>2 DEF Answered
<1> QED BY <1>1 DEF Answered, Answers, InFile

-----------------------------------------------------------------------------
\* Every step of the sender preserves the order.
LEMMA SenderKeepsOrder ==
  ASSUME IInv, Assumed, Ordered, Sender
  PROVE  Ordered'
<1>1. SNext /\ UNCHANGED <<rpc, rres, rpos, disk>>
  BY DEF Sender, rvars
<1>2. LineTypeOK /\ SenderTypeOK
  BY DEF IInv, TypeOK
<1>3. toS \in Seq(Frame) /\ toS' \in Seq(Frame)
  BY <1>1, <1>2, SenderLineType DEF LineTypeOK
<1>4. spc' \in InData /\ spc \notin InData =>
        toS # <<>> /\ Asks(Head(toS)) /\ toS' = Tail(toS)
  BY <1>1, SenderEnters
<1>5. PICK d \in {0, 1} :
        /\ Thinned(toS, toS', d)
        /\ spc' \in InData => spc \in InData \/ (d = 1 /\ Asks(toS[1]))
  BY <1>1, <1>2, SenderReads
<1>6. RequestsAscend'
  BY <1>1, <1>3, <1>5, ThinnedAscends DEF Ordered
<1>7. NoDataYet'
  <2>1. ASSUME rpc' \in RBefore
        PROVE  spc' \notin InData /\ \A i \in 1 .. Len(toS') : ~Asks(toS'[i])
    <3>1. spc \notin InData /\ \A i \in 1 .. Len(toS) : ~Asks(toS[i])
      BY <1>1, <2>1 DEF Ordered, NoDataYet
    <3>2. toS # <<>> => ~Asks(Head(toS))
      BY <1>3, <3>1
    <3> QED BY <1>3, <1>4, <1>5, <3>1, <3>2, ThinnedAsksNot
  <2>2. spc' \in {"init", "initWait"} => swin' = 0
    BY <1>1, SenderEnters DEF Ordered, NoDataYet
  <2> QED BY <2>1, <2>2 DEF NoDataYet, Asks
<1>8. ASSUME swin' = 0
      PROVE  Streaming' /\ AsksNothing(toR') /\ Answered'
  <2>1. swin = 0
    BY <1>1, <1>8, SenderEnters DEF Ordered, NoDataYet
  <2>2. Streaming /\ AsksNothing(toR) /\ Answered
    BY <2>1 DEF Ordered
  <2>3. spc = "data" => spos <= fpos
    BY DEF IInv, TypeOK, SenderTypeOK, Inductive, ReaderInStep, InData
  <2>4. Streaming' /\ AsksNothing(toR')
    BY <1>1, <1>2, <2>1, <2>2, <2>3, StaysStreaming DEF Assumed, Fits
  <2>5. ASSUME sres' = "ok" PROVE rres = "ok"
    <3>1. CASE sres = "ok"
      BY <2>2, <3>1 DEF Answered
    <3>2. CASE spc = "eofWait" /\ toS # <<>> /\ Answers(Head(toS))
      <4>1. 1 \in 1 .. Len(toS) /\ Head(toS) = toS[1]
        BY <1>3, <3>2
      <4>2. InFile(1)
        BY <3>2 DEF InFile, InData
      <4> QED BY <2>2, <3>2, <4>1, <4>2 DEF Answered
    <3> QED BY <1>1, <2>5, <3>1, <3>2, SenderSucceeds
  <2>6. Answered'
    BY <1>1, <1>3, <1>5, <2>2, <2>5, ThinnedAnswers
  <2> QED BY <2>4, <2>6
<1>9. (AsksNothing(toR))' <=> AsksNothing(toR')
  BY DEF AsksNothing
<1> QED BY <1>6, <1>7, <1>8, <1>9 DEF Ordered

-----------------------------------------------------------------------------
\* Damage preserves the order.
LEMMA GarbleKeepsOrder ==
  ASSUME IInv, Ordered, Line
  PROVE  Ordered'
<1>1. /\ UNCHANGED <<svars, rvars>>
      /\ Spoilt(toR, toR') /\ Spoilt(toS, toS')
  BY GarbleSpoils DEF Line, IInv, TypeOK
<1>2. UNCHANGED <<spc, sres, swin, spos, slast, sjunk, rpc, rres, disk>>
  BY <1>1 DEF svars, negotiated, progress, rvars
<1>3. toR \in Seq(Frame) /\ toS \in Seq(Frame)
  BY DEF IInv, TypeOK, LineTypeOK
<1>4. toR' \in Seq(Frame) /\ toS' \in Seq(Frame)
  BY <1>1, <1>3, SpoiltType
<1>5. Thinned(toR, toR', 0) /\ Thinned(toS, toS', 0)
  BY <1>1, <1>3, DamageThins
<1>6. RequestsAscend'
  BY <1>2, <1>3, <1>4, <1>5, ThinnedAscends DEF Ordered
<1>7. NoDataYet'
  <2>1. ASSUME rpc' \in RBefore
        PROVE  \A i \in 1 .. Len(toS') : ~Asks(toS'[i])
    BY <1>2, <1>3, <1>4, <1>5, <2>1, ThinnedAsksNot DEF Ordered, NoDataYet
  <2> QED BY <1>2, <2>1 DEF Ordered, NoDataYet, Asks
<1>8. ASSUME swin' = 0
      PROVE  Streaming' /\ AsksNothing(toR') /\ Answered'
  <2>1. Streaming /\ AsksNothing(toR) /\ Answered
    BY <1>2, <1>8 DEF Ordered
  <2>2. Streaming'
    BY <1>2, <2>1 DEF Streaming
  <2>3. AsksNothing(toR')
    <3>1. ASSUME NEW i \in 1 .. Len(toR'), toR'[i].k = "data"
          PROVE  i \in 1 .. Len(toR) /\ toR'[i] = toR[i]
      BY <1>3, <1>4, <1>5, <3>1 DEF Thinned
    <3> QED BY <2>1, <3>1 DEF AsksNothing
  <2>4. Answered'
    BY <1>2, <1>3, <1>4, <1>5, <2>1, ThinnedAnswers DEF Answered
  <2> QED BY <2>2, <2>3, <2>4
<1>9. (AsksNothing(toR))' <=> AsksNothing(toR')
  BY DEF AsksNothing
<1> QED BY <1>6, <1>7, <1>8, <1>9 DEF Ordered

-----------------------------------------------------------------------------
\* What the receiver's step adds to the stream to the sender: nothing, or one
\* frame.  It asks for the position reached, and answers before it asked, for
\* a block that wants an answer, or when it has the whole file.
LEMMA ReceiverTells ==
  ASSUME IInv, Assumed, RNext
  PROVE  \/ toS' = toS
         \/ \E e \in Frame :
              /\ toS' = toS \o <<e>>
              /\ Asks(e) => e.p = rpos /\ rpc = "zrpos" /\ rpc' = "dataWait"
              /\ Answers(e) =>
                   \/ rpc \in RBefore \/ rres' = "ok"
                   \/ rpc = "block" /\ toR # <<>> /\ Head(toR).k = "data"
                      /\ Head(toR).end \in {"ZCRCW", "ZCRCQ"}
<1> USE DEF RGo, RReturn, RAgain, RPass, RQuiet
<1> DEFINE Fine(e) ==
             /\ Asks(e) => e.p = rpos /\ rpc = "zrpos" /\ rpc' = "dataWait"
             /\ Answers(e) =>
                  \/ rpc \in RBefore \/ rres' = "ok"
                  \/ rpc = "block" /\ toR # <<>> /\ Head(toR).k = "data"
                     /\ Head(toR).end \in {"ZCRCW", "ZCRCQ"}
           Tells == toS' = toS \/ \E e \in Frame : toS' = toS \o <<e>> /\ Fine(e)
<1> SUFFICES Tells
  OBVIOUS
<1>1. ASSUME NEW e \in Frame, Fine(e), RWrites(<<e>>) PROVE Tells
  BY <1>1 DEF RWrites, Written
<1>2. \A t \in {"ZNAK", "ZSKIP", "ZCOMPL"}, p \in Nat :
        Hdr(t, p) \in Frame /\ Fine(Hdr(t, p))
  BY FramesAreTyped DEF FrameTypes, Hdr, Asks, Answers
<1>3. \A t \in {"ZACK", "ZRINIT"}, p \in Nat :
        /\ Hdr(t, p) \in Frame
        /\ \/ rpc \in RBefore \/ rres' = "ok"
           \/ rpc = "block" /\ toR # <<>> /\ Head(toR).k = "data"
              /\ Head(toR).end \in {"ZCRCW", "ZCRCQ"}
           => Fine(Hdr(t, p))
  BY FramesAreTyped DEF FrameTypes, Hdr, Asks, Answers
<1>4. RAttention => Tells
  <2>1. Nul \in Frame /\ Fine(Nul)
    BY FramesAreTyped DEF Nul, Asks, Answers
  <2> QED BY <1>1, <2>1 DEF RAttention
<1>5. rpos \in Nat /\ rpos <= Len(File) /\ 0 \in Nat /\ 1 \in Nat
      /\ PosMod - 1 \in Nat
  BY LineAssumption DEF IInv, TypeOK, ReceiverTypeOK, Inductive, Copied
<1> HIDE DEF Fine, Tells
<1>6. ASSUME NEW t \in {"ZNAK", "ZSKIP", "ZCOMPL"}, NEW p \in Nat,
             RWrites(<<Hdr(t, p)>>)
      PROVE  Tells
  BY <1>1, <1>2, <1>6
<1>7. ASSUME NEW t \in {"ZACK", "ZRINIT"}, NEW p \in Nat, RWrites(<<Hdr(t, p)>>),
             \/ rpc \in RBefore \/ rres' = "ok"
             \/ rpc = "block" /\ toR # <<>> /\ Head(toR).k = "data"
                /\ Head(toR).end \in {"ZCRCW", "ZCRCQ"}
      PROVE  Tells
  BY <1>1, <1>3, <1>7
<1>8. toS' = toS => Tells
  BY DEF Tells
<1>9. CASE RSkipGarbage \/ RFinWait \/ RDiscard \/ RWriteFails
  BY <1>8, <1>9 DEF RSkipGarbage, RFinWait, RDiscard, RWriteFails
<1>10. CASE RTry
  BY <1>5, <1>7, <1>8, <1>10 DEF RTry, RBefore
<1>11. CASE RTryReply
  BY <1>5, <1>7, <1>8, <1>11 DEF RTryReply, RBefore
<1>12. CASE RInfo
  BY <1>5, <1>6, <1>7, <1>8, <1>12 DEF RInfo, RBefore
<1>13. CASE RInfoFails \/ RPrompt
  BY <1>5, <1>6, <1>8, <1>13 DEF RInfoFails, RPrompt
<1>14. CASE RZrpos
  <2>1. Hdr("ZRPOS", rpos) \in Frame
    BY <1>5, FramesAreTyped DEF FrameTypes
  <2>2. Fine(Hdr("ZRPOS", rpos))
    BY <1>5, <1>14, PositionFits, InvReceives DEF Fine, Hdr, Answers, RZrpos
  <2> QED BY <1>1, <1>14, <2>1, <2>2 DEF RZrpos
<1>15. CASE RDataReply
  BY <1>4, <1>5, <1>7, <1>8, <1>15 DEF RDataReply, InPlace
<1>16. CASE RBlock
  <2>1. rpos + Head(toR).n \in Nat
    BY <1>5, <1>16, InvReceives, BlockIsNext
  <2>2. rpc = "block" /\ toR # <<>> /\ Head(toR).k = "data"
    BY <1>16 DEF RBlock, Reads
  <2> QED BY <1>7, <1>8, <1>16, <2>1, <2>2 DEF RBlock
<1>17. CASE RBlockFails
  BY <1>4, <1>17 DEF RBlockFails
<1>18. CASE RClose
  <2>1. Eof \in Frame /\ Fine(Eof)
    BY FramesAreTyped DEF Eof, Fine, Asks, Answers
  <2>2. toS' = toS \o <<Eof>>
    BY <1>18 DEF RClose, IInv, TypeOK, LineTypeOK
  <2> QED BY <2>1, <2>2 DEF Tells
<1> QED
  BY <1>9, <1>10, <1>11, <1>12, <1>13, <1>14, <1>15, <1>16, <1>17, <1>18
  DEF RNext, RCall

\* The receiver never goes back to where it has not asked, never loses what it
\* wrote, and keeps its result.
LEMMA ReceiverGoesOn ==
  ASSUME IInv, RNext
  PROVE  /\ rpc' \in RBefore => rpc \in RBefore
         /\ Len(disk') >= Len(disk)
         /\ rres = "ok" => rres' = "ok"
<1> USE DEF RGo, RReturn, RAgain, RPass
<1>1. Len(disk) \in Nat /\ (rres = "ok" => rpc \in {"ret", "end"})
  BY DEF IInv, TypeOK, ReceiverTypeOK, Inductive, Copied
<1>2. CASE RBlock
  <2>1. Head(toR).n \in Nat /\ Head(toR).lo = rpos
    BY <1>2, InvReceives, BlockIsNext
  <2>2. rpc = "block" /\ rpc' \in {"zrpos", "ret"}
    BY <1>2 DEF RBlock
  <2>3. Len(disk') >= Len(disk)
    <3>1. CASE disk' = disk
      BY <1>1, <3>1
    <3>2. CASE disk' = disk \o [i \in 1 .. Head(toR).n |-> Head(toR).lo + i - 1]
      <4>1. disk \in Seq(Nat) /\ Head(toR).lo \in Nat
        BY <2>1 DEF IInv, TypeOK, ReceiverTypeOK
      <4> DEFINE new == [i \in 1 .. Head(toR).n |-> Head(toR).lo + i - 1]
      <4>2. new \in Seq(Nat) /\ Len(new) = Head(toR).n
        BY <2>1, <4>1, WrittenBytes
      <4> HIDE DEF new
      <4>3. Len(disk \o new) = Len(disk) + Len(new)
        BY <4>1, <4>2, ConcatProperties
      <4>4. disk' = disk \o new
        BY <3>2 DEF new
      <4> QED BY <1>1, <2>1, <4>2, <4>3, <4>4
    <3> QED BY <1>2, <3>1, <3>2 DEF RBlock
  <2> QED BY <1>1, <2>2, <2>3 DEF RBefore
<1>3. CASE RSkipGarbage \/ RTry \/ RTryReply \/ RInfo
  BY <1>1, <1>3 DEF RSkipGarbage, RTry, RTryReply, RInfo, RBefore, RWaits
<1>4. CASE RInfoFails \/ RFinWait \/ RPrompt
  BY <1>1, <1>4 DEF RInfoFails, RFinWait, RPrompt, RBefore
<1>5. CASE RZrpos \/ RDataReply \/ RDiscard \/ RBlockFails
  BY <1>1, <1>5 DEF RZrpos, RDataReply, InPlace, RRetry, RDiscard, RBlockFails,
     RBefore
<1>6. CASE RWriteFails \/ RClose
  BY <1>1, <1>6 DEF RWriteFails, RWriting, RClose, RBefore
<1> QED BY <1>2, <1>3, <1>4, <1>5, <1>6 DEF RNext, RCall

\* The position asked for is a number.
LEMMA AskedPosition ==
  ASSUME NEW e \in Frame, Asks(e)
  PROVE  e.p \in Nat
BY DEF Asks, Frame, Info, Nul, BadHdr, Eof

\* Every step of the receiver preserves the order.
LEMMA ReceiverKeepsOrder ==
  ASSUME IInv, Assumed, Ordered, Receiver
  PROVE  Ordered'
<1>1. RNext /\ UNCHANGED <<spc, sres, swin, spos, slast, sjunk>>
  BY DEF Receiver, svars, negotiated, progress
<1>2. LineTypeOK /\ ReceiverTypeOK
  BY DEF IInv, TypeOK
<1>3. /\ toS \in Seq(Frame) /\ toS' \in Seq(Frame)
      /\ toR \in Seq(Frame) /\ toR' \in Seq(Frame)
  BY <1>1, <1>2, ReceiverLineType DEF LineTypeOK
<1>4. /\ rpc' \in RBefore => rpc \in RBefore
      /\ Len(disk') >= Len(disk) /\ Len(disk) = rpos
      /\ rres = "ok" => rres' = "ok"
      /\ Len(disk) \in Nat /\ Len(disk') \in Nat
  <2>1. disk' \in Seq(Nat) /\ disk \in Seq(Nat)
    BY <1>1, <1>2, ReceiverVarsType DEF ReceiverTypeOK
  <2>2. Len(disk) = rpos
    BY DEF IInv, TypeOK, ReceiverTypeOK, Inductive, Copied
  <2> QED BY <1>1, <2>1, <2>2, ReceiverGoesOn
<1>8. ASSUME swin' = 0 PROVE Streaming' /\ AsksNothing(toR')
  <2>1. Streaming /\ AsksNothing(toR)
    BY <1>1, <1>8 DEF Ordered
  <2>2. Streaming'
    BY <1>1, <2>1 DEF Streaming
  <2>3. PICK d \in {0, 1} : Thinned(toR, toR', d)
    BY <1>1, <1>2, <1>3, ReceiverConsumes, ReadingThins
  <2>4. ASSUME NEW i \in 1 .. Len(toR'), toR'[i].k = "data"
        PROVE  toR'[i].end \in {"ZCRCG", "ZCRCE"}
    <3>1. toR'[i] = toR[i + d] /\ i + d \in 1 .. Len(toR)
      BY <1>3, <2>3, <2>4 DEF Thinned
    <3> QED BY <2>1, <2>4, <3>1 DEF AsksNothing
  <2> QED BY <2>2, <2>4 DEF AsksNothing
<1>9. (AsksNothing(toR))' <=> AsksNothing(toR')
  BY DEF AsksNothing
<1>6. ASSUME NEW i \in 1 .. Len(toS), Asks(toS[i])
      PROVE  toS[i].p \in Nat /\ toS[i].p <= rpos /\ toS[i].p <= Len(disk')
  <2>1. toS[i].p \in Nat
    BY <1>3, <1>6, AskedPosition
  <2>2. toS[i].p <= Len(disk)
    BY <1>6 DEF Ordered, RequestsAscend
  <2> QED BY <1>4, <2>1, <2>2
<1>5. CASE toS' = toS
  <2>1. RequestsAscend'
    BY <1>5, <1>6 DEF Ordered, RequestsAscend, Asks
  <2>2. NoDataYet'
    BY <1>1, <1>4, <1>5 DEF Ordered, NoDataYet, Asks
  <2>3. swin = 0 => Answered'
    BY <1>1, <1>4, <1>5 DEF Ordered, Answered, InFile, Asks, Answers
  <2> QED BY <1>1, <1>8, <1>9, <2>1, <2>2, <2>3 DEF Ordered
<1>7. ASSUME NEW e \in Frame, toS' = toS \o <<e>>,
             Asks(e) => e.p = rpos /\ rpc = "zrpos" /\ rpc' = "dataWait",
             Answers(e) =>
               \/ rpc \in RBefore \/ rres' = "ok"
               \/ rpc = "block" /\ toR # <<>> /\ Head(toR).k = "data"
                  /\ Head(toR).end \in {"ZCRCW", "ZCRCQ"}
      PROVE  Ordered'
  <2>1. /\ Len(toS) \in Nat /\ Len(toS') = Len(toS) + 1
        /\ toS'[Len(toS) + 1] = e
        /\ \A i \in 1 .. Len(toS) : toS'[i] = toS[i]
    <3>1. <<e>> \in Seq(Frame) /\ Len(<<e>>) = 1 /\ <<e>>[1] = e
      OBVIOUS
    <3> QED BY <1>3, <1>7, <3>1, ConcatProperties
  <2>2. \A i \in 1 .. Len(toS') : i = Len(toS) + 1 \/ i \in 1 .. Len(toS)
    BY <2>1
  <2>3. RequestsAscend'
    <3>1. ASSUME NEW i \in 1 .. Len(toS'), Asks(toS'[i])
          PROVE  toS'[i].p <= Len(disk')
      BY <1>4, <1>6, <1>7, <2>1, <2>2, <3>1
    <3>2. ASSUME NEW i \in 1 .. Len(toS'), Asks(toS'[i]),
                 NEW j \in 1 .. i, Asks(toS'[j])
          PROVE  toS'[j].p <= toS'[i].p
      <4>1. CASE i \in 1 .. Len(toS)
        <5>1. j \in 1 .. Len(toS)
          BY <2>1, <4>1
        <5> QED BY <2>1, <3>2, <4>1, <5>1 DEF Ordered, RequestsAscend
      <4>2. CASE i = Len(toS) + 1
        <5>1. toS'[i].p = rpos /\ rpos \in Nat
          BY <1>4, <1>7, <2>1, <3>2, <4>2
        <5>2. j \in 1 .. Len(toS')
          OBVIOUS
        <5>3. CASE j = Len(toS) + 1
          BY <2>1, <4>2, <5>1, <5>3
        <5>4. CASE j \in 1 .. Len(toS)
          BY <1>6, <2>1, <3>2, <5>1, <5>4
        <5> QED BY <2>2, <5>2, <5>3, <5>4
      <4> QED BY <2>2, <4>1, <4>2
    <3> QED BY <3>1, <3>2 DEF RequestsAscend, Asks
  <2>4. NoDataYet'
    <3>1. ASSUME rpc' \in RBefore
          PROVE  spc' \notin InData /\ \A i \in 1 .. Len(toS') : ~Asks(toS'[i])
      <4>1. spc \notin InData /\ \A i \in 1 .. Len(toS) : ~Asks(toS[i])
        BY <1>4, <3>1 DEF Ordered, NoDataYet
      <4>2. ~Asks(e)
        BY <1>7, <3>1 DEF RBefore
      <4> QED BY <1>1, <2>1, <2>2, <4>1, <4>2
    <3> QED BY <1>1, <3>1 DEF Ordered, NoDataYet, Asks
  <2>5. ASSUME swin' = 0
        PROVE  Streaming' /\ AsksNothing(toR') /\ Answered'
    <3>1. swin = 0 /\ Streaming /\ AsksNothing(toR) /\ Answered
      BY <1>1, <2>5 DEF Ordered
    <3>2. ASSUME NEW i \in 1 .. Len(toS'), Answers(toS'[i]), InFile(i)'
          PROVE  rres' = "ok"
      <4>1. CASE i \in 1 .. Len(toS)
        <5>1. InFile(i)
          <6>1. CASE spc' \in InData
            BY <1>1, <6>1 DEF InFile
          <6>2. CASE spc' \notin InData
            <7>1. PICK j \in 1 .. i : Asks(toS'[j])
              BY <3>2, <6>2 DEF InFile
            <7>2. j \in 1 .. Len(toS)
              BY <2>1, <4>1
            <7> QED BY <2>1, <7>1, <7>2 DEF InFile
          <6> QED BY <6>1, <6>2
        <5> QED BY <1>4, <2>1, <3>1, <3>2, <4>1, <5>1 DEF Answered
      <4>2. CASE i = Len(toS) + 1
        <5>1. Answers(e) /\ ~Asks(e)
          BY <2>1, <3>2, <4>2 DEF Answers, Asks
        <5>2. CASE rpc \in RBefore
          <6>1. spc' \notin InData /\ \A j \in 1 .. Len(toS) : ~Asks(toS[j])
            BY <1>1, <5>2 DEF Ordered, NoDataYet
          <6>2. PICK j \in 1 .. i : Asks(toS'[j])
            BY <3>2, <6>1 DEF InFile
          <6>3. j = Len(toS) + 1 \/ j \in 1 .. Len(toS)
            BY <2>1, <4>2
          <6> QED BY <2>1, <5>1, <6>1, <6>2, <6>3
        <5>3. ASSUME toR # <<>>, Head(toR).k = "data",
                     Head(toR).end \in {"ZCRCW", "ZCRCQ"}
              PROVE  FALSE
          <6>1. Head(toR) = toR[1] /\ 1 \in 1 .. Len(toR)
            BY <1>3, <5>3
          <6> QED BY <3>1, <5>3, <6>1 DEF AsksNothing
        <5> QED BY <1>7, <5>1, <5>2, <5>3
      <4> QED BY <2>2, <4>1, <4>2
    <3>3. Answered'
      BY <1>1, <1>4, <3>1, <3>2 DEF Answered, Answers, InFile
    <3> QED BY <1>8, <2>5, <3>1, <3>3
  <2> QED BY <1>9, <2>3, <2>4, <2>5 DEF Ordered
<1> QED BY <1>1, <1>5, <1>7, ReceiverTells

-----------------------------------------------------------------------------
\* Ordered holds in every state.
LEMMA StaysOrdered == ASSUME Assumed PROVE Spec => []Ordered
<1>1. Init => Ordered
  <2> SUFFICES ASSUME Init PROVE Ordered
    OBVIOUS
  <2>1. toR = <<>> /\ toS = <<>> /\ spc = "init" /\ sres = "none" /\ swin = 0
    BY DEF Init, LineInit, SenderInit
  <2>2. RequestsAscend /\ AsksNothing(toR)
    BY <2>1 DEF RequestsAscend, AsksNothing
  <2>3. NoDataYet /\ Streaming /\ Answered
    BY <2>1 DEF NoDataYet, Streaming, Answered, InData
  <2> QED BY <2>2, <2>3 DEF Ordered
<1>2. TypeOK /\ Inductive /\ Ordered /\ [Next]_vars => Ordered'
  <2> SUFFICES ASSUME TypeOK, Inductive, Ordered, [Next]_vars PROVE Ordered'
    OBVIOUS
  <2>1. IInv
    BY DEF IInv
  <2>2. CASE Sender
    BY <2>1, <2>2, SenderKeepsOrder
  <2>3. CASE Receiver
    BY <2>1, <2>3, ReceiverKeepsOrder
  <2>4. CASE Line
    BY <2>1, <2>4, GarbleKeepsOrder
  <2>5. CASE UNCHANGED vars
    <3>1. UNCHANGED <<toR, toS, spc, sres, swin, spos, slast, sjunk,
                      rpc, rres, disk>>
      BY <2>5 DEF vars, line, svars, negotiated, progress, rvars
    <3>2. RequestsAscend' /\ NoDataYet'
      BY <3>1 DEF Ordered, RequestsAscend, NoDataYet, Asks
    <3>3. swin' = 0 => Streaming' /\ (AsksNothing(toR))'
      BY <3>1 DEF Ordered, Streaming, AsksNothing
    <3>4. swin' = 0 => Answered'
      BY <3>1 DEF Ordered, Answered, Answers, InFile, Asks
    <3> QED BY <3>2, <3>3, <3>4 DEF Ordered
  <2> QED BY <2>2, <2>3, <2>4, <2>5 DEF Next, Done
<1> QED BY <1>1, <1>2, TypeCorrect, StepsPreserve, PTL DEF Spec

\* ReceiveFile never goes back: the positions it asks for ascend and lie in
\* the part of the file it wrote (receiver.go:391-396), so that an old request
\* makes sendFileData repeat bytes, and never skip any.
THEOREM NeverGoesBack == ASSUME Assumed PROVE Spec => []RequestsAscend
<1>1. Ordered => RequestsAscend
  BY DEF Ordered
<1> QED BY <1>1, StaysOrdered, PTL

\* Without a window SendFile reports success only when the receiver reported
\* it too and has the whole file, whatever ZACK or ZRINIT is still under way
\* and whenever deadlines run out (sender.go:904-925).
THEOREM SuccessIsShared == ASSUME Assumed PROVE Spec => []SentIsDelivered
<1>1. Inductive /\ TypeOK /\ Ordered => SentIsDelivered
  <2> SUFFICES ASSUME Inductive, TypeOK, Ordered, swin = 0, sres = "ok"
               PROVE  rres = "ok" /\ Len(disk) = Len(File)
    BY DEF SentIsDelivered
  <2>1. rres = "ok"
    BY DEF Ordered, Answered
  <2> QED BY <2>1 DEF Inductive, Copied, TypeOK, ReceiverTypeOK
<1> QED BY <1>1, TypeCorrect, StepsPreserve, StaysOrdered, PTL

-----------------------------------------------------------------------------
\* Failure on a line that nothing disturbs.

\* No frame is damaged and no deadline runs out, nobody cancels, the file can
\* be read, neither end has an attention string or needs to send one, and the sender streams.
Clean ==
  /\ MaxFaults = 0 /\ Deadlines = FALSE
  /\ Cancellable = FALSE /\ SourceFaults = FALSE
  /\ RAttn = FALSE /\ CanSkipZSINIT /\ InitTries > 0
  /\ WindowSize = 0 \/ CanFDX = FALSE

\* What the two ends have to say to each other then.
Offers == {"ZFILE", "ZDATA", "ZEOF"}
Replies == {"ZRINIT", "ZRPOS", "ZSKIP", "ZACK"}
IsReply(e) == e.k = "eof" \/ (e.k = "hdr" /\ e.t \in Replies)
IsOffer(t, i) ==
  /\ t \in Offers
  /\ t = "ZFILE" => i < Len(toR) /\ toR[i + 1].k = "info"

SaysLittle ==
  /\ \A i \in 1 .. Len(toS) : IsReply(toS[i])
  /\ \A i \in 1 .. Len(toR) : toR[i].k = "hdr" => IsOffer(toR[i].t, i)

\* The receiver finds the file's name where it looks for it,
Attentive ==
  /\ rpc \notin {"zsinitInfo", "commandInfo", "finWait"} /\ ~rattn
  /\ rpc = "zfileInfo" => toR # <<>> /\ Head(toR).k = "info"

\* the sender is greeted before it speaks,
Greeted ==
  spc \in {"init", "initWait"} =>
    /\ toR = <<>> /\ rpc \in {"try", "zfileWait", "ret", "end"}
    /\ \A i \in 1 .. Len(toS) : toS[i].k = "hdr" => toS[i].t = "ZRINIT"
    /\ stry > 0 => Closed(toS)

\* and nothing is acknowledged before it was sent.
NothingYet ==
  spc \in BeforeData =>
    /\ spc \notin {"zsinit", "zsinitWait"} /\ rpc # "block"
    /\ \A i \in 1 .. Len(toR) : toR[i].k = "hdr" => toR[i].t = "ZFILE"
    /\ \A i \in 1 .. Len(toS) : toS[i].k = "hdr" => toS[i].t # "ZACK"

Undisturbed == swin = 0 /\ SaysLittle /\ Attentive /\ Greeted /\ NothingYet

\* What the sender hears.
LEMMA CleanSenderHears ==
  ASSUME TypeOK, Inductive, Clean, Undisturbed
  PROVE  /\ \A types : SReceives(types) =>
              /\ toS # <<>> /\ Head(toS).k = "hdr" /\ toS' = Tail(toS)
              /\ Head(toS).t \in types \cap Replies
              /\ spc \in BeforeData => Head(toS).t # "ZACK"
              /\ spc \in {"init", "initWait"} => Head(toS).t = "ZRINIT"
         /\ STimeout => Closed(toS) /\ toS' = toS
         /\ ~SError
         /\ \A g : ~Skips(toS, sgarb, toS', g)
<1>1. toS # <<>> => /\ Head(toS) = toS[1] /\ 1 \in 1 .. Len(toS)
                    /\ Head(toS) \in Frame /\ IsReply(Head(toS))
  BY DEF TypeOK, LineTypeOK, Undisturbed, SaysLittle
<1>2. toS # <<>> => ~IsBlock(Head(toS)) /\ Head(toS).k \notin {"info", "nul", "zeros", "badhdr"}
  BY <1>1 DEF IsReply, IsBlock
<1>3. toS # <<>> => ~Unreadable(Head(toS))
  <2> SUFFICES ASSUME toS # <<>>, Unreadable(Head(toS)) PROVE FALSE
    OBVIOUS
  <2>1. Head(toS).k = "hdr" /\ Head(toS).t \in {"ZSINIT", "ZFILE", "ZDATA", "ZEOF", "ZCRC"}
    BY LineAssumption DEF Unreadable
  <2> QED BY <1>1, <2>1 DEF IsReply, Replies
<1>4. ASSUME NEW types, SReceives(types)
      PROVE  /\ toS # <<>> /\ Head(toS).k = "hdr" /\ toS' = Tail(toS)
             /\ Head(toS).t \in types \cap Replies
             /\ spc \in BeforeData => Head(toS).t # "ZACK"
             /\ spc \in {"init", "initWait"} => Head(toS).t = "ZRINIT"
  <2>1. toS # <<>> /\ Head(toS).k = "hdr" /\ toS' = Tail(toS) /\ Head(toS).t \in types
    BY <1>4 DEF SReceives, Arrives
  <2>2. Head(toS).t \in Replies
    BY <1>1, <2>1 DEF IsReply
  <2>3. spc \in BeforeData => Head(toS).t # "ZACK"
    BY <1>1, <2>1 DEF Undisturbed, NothingYet
  <2>4. spc \in {"init", "initWait"} => Head(toS).t = "ZRINIT"
    BY <1>1, <2>1 DEF Undisturbed, Greeted
  <2> QED BY <2>1, <2>2, <2>3, <2>4
<1>5. STimeout => Closed(toS) /\ toS' = toS
  <2> SUFFICES ASSUME STimeout PROVE Closed(toS) /\ toS' = toS
    OBVIOUS
  <2>1. toS # <<>> /\ Head(toS).k = "eof" /\ toS' = toS
    BY <1>2 DEF STimeout, TimesOut
  <2> QED BY <1>1, <2>1 DEF Inductive, FramesToS
<1>6. ~SError
  BY <1>2, <1>3 DEF SError, Fails, Clean
<1>7. \A g : ~Skips(toS, sgarb, toS', g)
  BY <1>2 DEF Skips
<1> QED BY <1>4, <1>5, <1>6, <1>7

\* A call that fails was told that the other end is gone.
LEMMA FailsWhenClosed ==
  ASSUME TypeOK, Inductive, Clean, Undisturbed, Streaming, SNext,
         sres = "none", sres' = "failed"
  PROVE  Closed(toS)
<1> USE DEF SGo, SReturn
<1>1. /\ \A types : SReceives(types) =>
              /\ Head(toS).t \in types \cap Replies
              /\ spc \in BeforeData => Head(toS).t # "ZACK"
              /\ spc \in {"init", "initWait"} => Head(toS).t = "ZRINIT"
      /\ STimeout => Closed(toS)
      /\ ~SError /\ ~SeekFails
  BY CleanSenderHears DEF Clean, SeekFails
<1>2. CASE SInitTop
  <2>1. stry >= InitTries /\ stry \in Nat /\ InitTries \in Nat /\ InitTries > 0
    BY <1>2, SenderConstants DEF SInitTop, TypeOK, SenderTypeOK, Clean
  <2> QED BY <1>2, <2>1 DEF SInitTop, Undisturbed, Greeted
<1>3. CASE SInitNoHeader
  BY <1>1, <1>3 DEF SInitNoHeader
<1>4. CASE SZsinitReply
  BY <1>4 DEF SZsinitReply, Undisturbed, NothingYet, BeforeData
<1>5. CASE SFileReply
  <2>1. spc \in BeforeData
    BY <1>5 DEF SFileReply, BeforeData
  <2> QED BY <1>1, <1>5, <2>1 DEF SFileReply, Replies
<1>6. CASE SAckW \/ SAckQ \/ SWinWait
  BY <1>6 DEF SAckW, SAckQ, SWinWait, Streaming
<1>7. CASE SEofReply
  BY <1>1, <1>7 DEF SEofReply, Replies
<1>8. CASE SWriteFails
  BY <1>8 DEF SWriteFails
<1>9. CASE SCancelled
  BY <1>9 DEF SCancelled, Clean
<1>10. CASE \/ SSkipGarbage \/ SInitZRINIT \/ SInitOther \/ SZsinitTop
            \/ SFileTop \/ SDiscard \/ SFileCRC \/ SClose
  BY <1>10 DEF SSkipGarbage, SInitZRINIT, SInitOther, SInitAgain, SZsinitTop,
     SFileTop, SDiscard, SFileCRC, SClose
<1>11. CASE SBlock \/ SFileZRPOS \/ SAckWSeek \/ SEofTop \/ SEofZRPOS
  BY <1>11 DEF SBlock, SWindow, SFileZRPOS, SAckWSeek, SEofTop, SEofZRPOS, StartData
<1> QED
  BY <1>2, <1>3, <1>4, <1>5, <1>6, <1>7, <1>8, <1>9, <1>10, <1>11 DEF SNext, SCall

\* A step of the sender offers the file, goes on with it, or writes nothing.
Offering ==
  /\ spc' = "zfileWait"
  /\ toR' = toR \o <<Hdr("ZFILE", 0), Info>> \/ toR' = toR
Sending ==
  /\ spc' \notin BeforeData
  /\ \/ toR' = toR
     \/ \E e \in Frame :
          /\ toR' = toR \o <<e>>
          /\ e.k = "hdr" => e.t \in {"ZDATA", "ZEOF"}

\* Every step of the sender is of one of these kinds.
LEMMA CleanSenderActs ==
  ASSUME TypeOK, Inductive, Clean, Undisturbed, Streaming, SNext
  PROVE  /\ \/ Offering \/ Sending
            \/ toR' = toR /\ spc' \in BeforeData
         /\ spc' \in BeforeData => spc \in BeforeData
         /\ spc' \notin {"zsinit", "zsinitWait"}
         /\ spc' \in {"init", "initWait"} =>
              /\ spc \in {"init", "initWait"} /\ toR' = toR
              /\ stry' > 0 => Closed(toS')
<1> USE DEF SGo, SReturn, SQuiet
<1> DEFINE Fine ==
      /\ \/ Offering \/ Sending
         \/ toR' = toR /\ spc' \in BeforeData
      /\ spc' \in BeforeData => spc \in BeforeData
      /\ spc' \notin {"zsinit", "zsinitWait"}
      /\ spc' \in {"init", "initWait"} =>
           /\ spc \in {"init", "initWait"} /\ toR' = toR
           /\ stry' > 0 => Closed(toS')
<1> SUFFICES Fine
  OBVIOUS
<1>1. /\ \A types : SReceives(types) =>
              /\ toS # <<>> /\ toS' = Tail(toS)
              /\ Head(toS).t \in types \cap Replies
              /\ spc \in BeforeData => Head(toS).t # "ZACK"
              /\ spc \in {"init", "initWait"} => Head(toS).t = "ZRINIT"
      /\ STimeout => Closed(toS) /\ toS' = toS
      /\ ~SError
      /\ \A g : ~Skips(toS, sgarb, toS', g)
  BY CleanSenderHears
<1>2. spc' \in SPcs
  BY SenderVarsType DEF TypeOK, SenderTypeOK
<1>3. BeforeData \cap (InData \cup {"ret", "end"}) = {}
  BY DEF BeforeData, InData
<1>4. ASSUME toR' = toR, spc' \in InData \cup {"ret", "end"} PROVE Fine
  BY <1>3, <1>4 DEF Sending, BeforeData
<1>5. ASSUME NEW e \in Frame, SWrites(<<e>>), e.k = "hdr" => e.t \in {"ZDATA", "ZEOF"},
             spc' \in InData \cup {"ret", "end"}
      PROVE  Fine
  <2>1. toR' = toR \/ toR' = toR \o <<e>>
    BY <1>5 DEF SWrites, Written
  <2> QED BY <1>3, <1>5, <2>1 DEF Sending, BeforeData
<1>6. ASSUME NEW t \in {"ZDATA", "ZEOF"}, NEW p \in Nat, SWrites(<<Hdr(t, p)>>),
             spc' \in InData \cup {"ret", "end"}
      PROVE  Fine
  <2>1. Hdr(t, p) \in Frame /\ Hdr(t, p).t = t
    BY FramesAreTyped DEF FrameTypes, Hdr
  <2> QED BY <1>5, <1>6, <2>1
<1>7. CASE SSkipGarbage
  BY <1>1, <1>7 DEF SSkipGarbage
<1>8. CASE SInitTop
  <2>1. spc = "init" /\ UNCHANGED <<toS, stry>>
    BY <1>8 DEF SInitTop
  <2>2. stry > 0 => Closed(toS)
    BY <2>1 DEF Undisturbed, Greeted
  <2>3. CASE spc' = "ret"
    BY <1>4, <1>8, <2>3 DEF SInitTop
  <2>4. CASE spc' = "initWait"
    <3>1. toR' = toR
      BY <1>8, <2>2, <2>4 DEF SInitTop, SWrites, Written
    <3> QED BY <2>1, <2>2, <2>4, <3>1 DEF BeforeData
  <2> QED BY <1>8, <2>3, <2>4 DEF SInitTop
<1>9. CASE SInitZRINIT
  BY <1>9 DEF SInitZRINIT, BeforeData, Clean
<1>10. CASE SInitOther
  BY <1>1, <1>10 DEF SInitOther, SInitAgain, FrameTypes
<1>11. CASE SInitNoHeader
  <2>1. spc = "initWait" /\ STimeout /\ toR' = toR /\ spc' \in {"init", "ret"}
    BY <1>1, <1>11 DEF SInitNoHeader, SInitAgain
  <2>2. Closed(toS')
    BY <1>1, <2>1
  <2> QED BY <1>4, <2>1, <2>2 DEF BeforeData
<1>12. CASE SZsinitTop \/ SZsinitReply
  BY <1>12 DEF SZsinitTop, SZsinitReply, Undisturbed, NothingYet, BeforeData
<1>13. CASE SFileTop
  BY <1>13 DEF SFileTop, SWrites, Written, Offering, BeforeData
<1>14. CASE SFileReply \/ SDiscard
  <2>1. spc \in BeforeData /\ toR' = toR /\ spc' \in {"discard", "zfile", "ret", "zfileWait"} \cup {spc}
        /\ spc \in {"zfileWait", "discard"}
    BY <1>14 DEF SFileReply, SDiscard, SRetry, BeforeData
  <2> QED BY <1>4, <2>1 DEF BeforeData
<1>15. CASE SFileCRC
  BY <1>1, <1>15 DEF SFileCRC, Replies
<1>16. CASE SFileZRPOS \/ SEofZRPOS \/ SAckWSeek
  <2>1. SWrites(<<Hdr("ZDATA", rxpos)>>) /\ spc' = "data" /\ SReceives({"ZRPOS"})
    BY <1>16 DEF SFileZRPOS, SEofZRPOS, SAckWSeek, StartData
  <2>2. rxpos \in Nat
    BY <2>1, ReceivedPosition DEF SReceives, rxpos, TypeOK, LineTypeOK
  <2> QED BY <1>6, <2>1, <2>2 DEF InData
<1>17. CASE SBlock
  <2> DEFINE e == Data(fpos, ReadLen, FrameEnd(ReadLen))
  <2>1. FrameEnd(ReadLen) \in FrameEnds /\ fpos \in Nat
    BY DEF FrameEnd, FrameEnds, TypeOK, SenderTypeOK
  <2>2. e \in Frame /\ e.k = "data"
    BY <2>1, ReadLenType, FramesAreTyped DEF Data, TypeOK
  <2>3. SWrites(<<e>>)
    BY <1>17 DEF SBlock
  <2>4. spc' \in InData
    BY <1>17 DEF SBlock, SWindow, InData
  <2> HIDE DEF e
  <2> QED BY <1>5, <2>2, <2>3, <2>4
<1>18. CASE SCancelled \/ SWriteFails
  BY <1>4, <1>18 DEF SCancelled, SWriteFails
<1>19. CASE SAckW \/ SAckQ \/ SWinWait
  BY <1>19 DEF SAckW, SAckQ, SWinWait, Streaming
<1>20. CASE SEofTop
  <2>1. SWrites(<<Hdr("ZEOF", spos)>>) /\ spc' = "eofWait" /\ spos \in Nat
    BY <1>20 DEF SEofTop, TypeOK, SenderTypeOK
  <2> QED BY <1>6, <2>1 DEF InData
<1>21. CASE SEofReply
  BY <1>4, <1>21 DEF SEofReply
<1>22. CASE SClose
  <2>1. toR' = toR \o <<Eof>> /\ spc' = "end"
    BY <1>22 DEF SClose, TypeOK, LineTypeOK
  <2>2. Eof \in Frame /\ Eof.k = "eof"
    BY FramesAreTyped DEF Eof
  <2> QED BY <1>3, <2>1, <2>2 DEF Sending, BeforeData
<1> QED
  BY <1>7, <1>8, <1>9, <1>10, <1>11, <1>12, <1>13, <1>14, <1>15, <1>16, <1>17,
     <1>18, <1>19, <1>20, <1>21, <1>22
  DEF SNext, SCall

\* The sender reads its stream frame by frame.
LEMMA CleanSenderReads ==
  ASSUME TypeOK, Inductive, Clean, Undisturbed, SNext
  PROVE  toS' = toS \/ (toS # <<>> /\ toS' = Tail(toS))
<1>1. /\ \A types : SReceives(types) => toS # <<>> /\ toS' = Tail(toS)
      /\ STimeout => toS' = toS
      /\ ~SError
      /\ \A g : ~Skips(toS, sgarb, toS', g)
  BY CleanSenderHears
<1>2. CASE \/ SSkipGarbage \/ SInitZRINIT \/ SInitOther \/ SInitNoHeader
           \/ SZsinitReply \/ SFileReply \/ SDiscard \/ SFileCRC \/ SFileZRPOS
  BY <1>1, <1>2 DEF SSkipGarbage, SInitZRINIT, SInitOther, SInitNoHeader, SZsinitReply,
     SFileReply, SDiscard, SFileCRC, SFileZRPOS
<1>3. CASE SAckW \/ SAckWSeek \/ SAckQ \/ SWinWait \/ SEofReply \/ SEofZRPOS
  BY <1>1, <1>3 DEF SAckW, SAckWSeek, SAckQ, SWinWait, SEofReply, SEofZRPOS
<1>4. CASE \/ SInitTop \/ SZsinitTop \/ SFileTop \/ SBlock \/ SCancelled \/ SEofTop
           \/ SWriteFails \/ SClose
  BY <1>4 DEF SInitTop, SZsinitTop, SFileTop, SBlock, SCancelled, SEofTop,
     SWriteFails, SClose
<1> QED BY <1>2, <1>3, <1>4 DEF SNext, SCall

\* Undisturbed in the steps of the sender.
LEMMA CleanBySender ==
  ASSUME TypeOK, Inductive, Clean, Undisturbed, Streaming, Sender
  PROVE  Undisturbed'
<1>1. /\ SNext /\ LineTypeOK /\ SenderTypeOK
      /\ rpc' = rpc /\ rattn' = rattn
      /\ swin = 0 /\ SaysLittle /\ Attentive /\ Greeted /\ NothingYet
  BY DEF Sender, rvars, TypeOK, Undisturbed
<1>2. /\ \/ Offering \/ Sending
         \/ toR' = toR /\ spc' \in BeforeData
      /\ spc' \in BeforeData => spc \in BeforeData
      /\ spc' \notin {"zsinit", "zsinitWait"}
      /\ spc' \in {"init", "initWait"} =>
           /\ spc \in {"init", "initWait"} /\ toR' = toR
           /\ stry' > 0 => Closed(toS')
  BY <1>1, CleanSenderActs
<1>3. toR \in Seq(Frame) /\ toS \in Seq(Frame) /\ toR' \in Seq(Frame) /\ toS' \in Seq(Frame)
  BY <1>1, SenderLineType DEF LineTypeOK
<1>4. toS' = toS \/ (toS # <<>> /\ toS' = Tail(toS))
  BY <1>1, CleanSenderReads
<1>5. \A i \in 1 .. Len(toS') : \E j \in 1 .. Len(toS) : toS'[i] = toS[j]
  <2>1. CASE toS' = toS
    BY <2>1
  <2>2. CASE toS # <<>> /\ toS' = Tail(toS)
    <3>1. Len(toS') = Len(toS) - 1 /\ Len(toS) \in Nat
      BY <1>3, <2>2
    <3>2. ASSUME NEW i \in 1 .. Len(toS') PROVE i + 1 \in 1 .. Len(toS) /\ toS'[i] = toS[i + 1]
      BY <1>3, <2>2, <3>1
    <3> QED BY <3>2
  <2> QED BY <1>4, <2>1, <2>2
<1>6. swin' = 0
  BY <1>1, NoWindow DEF Clean
\* What is appended to toR.
<1>7. ASSUME NEW es \in Seq(Frame), toR' = toR \o es
      PROVE  /\ Len(toR') = Len(toR) + Len(es) /\ Len(toR) \in Nat /\ Len(es) \in Nat
             /\ \A i \in 1 .. Len(toR) : i \in 1 .. Len(toR') /\ toR'[i] = toR[i]
             /\ \A i \in 1 .. Len(toR') : i \notin 1 .. Len(toR) =>
                  i - Len(toR) \in 1 .. Len(es) /\ toR'[i] = es[i - Len(toR)]
  BY <1>3, <1>7
<1>8. ASSUME NEW es \in Seq(Frame), toR' = toR \o es,
             NEW i \in 1 .. Len(toR), toR[i].k = "hdr"
      PROVE  IsOffer(toR[i].t, i)'
  <2>1. toR'[i] = toR[i] /\ IsOffer(toR[i].t, i)
    BY <1>1, <1>7, <1>8 DEF SaysLittle
  <2>2. i < Len(toR) => i < Len(toR') /\ toR'[i + 1] = toR[i + 1]
    BY <1>7, <1>8
  <2> QED BY <2>1, <2>2 DEF IsOffer
<1>9. ASSUME Offering, toR' # toR
      PROVE  /\ \A i \in 1 .. Len(toR') : toR'[i].k = "hdr" => (IsOffer(toR[i].t, i))'
             /\ \A i \in 1 .. Len(toR') : i \notin 1 .. Len(toR) =>
                  (toR'[i].k = "hdr" => toR'[i].t = "ZFILE")
             /\ \A i \in 1 .. Len(toR) : i \in 1 .. Len(toR') /\ toR'[i] = toR[i]
  <2> DEFINE h == Hdr("ZFILE", 0)
             es == <<h, Info>>
  <2>1. h \in Frame /\ h.k = "hdr" /\ h.t = "ZFILE" /\ Info \in Frame /\ Info.k = "info"
    BY FramesAreTyped DEF FrameTypes, Hdr, Info
  <2>2. toR' = toR \o es
    BY <1>9 DEF Offering
  <2> HIDE DEF h
  <2>3. es \in Seq(Frame) /\ Len(es) = 2 /\ es[1] = h /\ es[2] = Info
    BY <2>1
  <2> HIDE DEF es
  <2>4. /\ Len(toR') = Len(toR) + 2 /\ Len(toR) \in Nat
        /\ \A i \in 1 .. Len(toR) : i \in 1 .. Len(toR') /\ toR'[i] = toR[i]
        /\ toR'[Len(toR) + 1] = h /\ toR'[Len(toR) + 2] = Info
    <3>1. /\ Len(toR') = Len(toR) + 2 /\ Len(toR) \in Nat
          /\ \A i \in 1 .. Len(toR) : i \in 1 .. Len(toR') /\ toR'[i] = toR[i]
      BY <1>7, <2>2, <2>3
    <3>2. \A k \in {1, 2} : toR'[Len(toR) + k] = es[k]
      <4> TAKE k \in {1, 2}
      <4>1. /\ Len(toR) + k \in 1 .. Len(toR') /\ Len(toR) + k \notin 1 .. Len(toR)
            /\ (Len(toR) + k) - Len(toR) = k
        BY <3>1
      <4> QED BY <1>7, <2>2, <2>3, <4>1
    <3> QED BY <2>3, <3>1, <3>2
  <2>5. \A i \in 1 .. Len(toR') : i \in 1 .. Len(toR) \/ i = Len(toR) + 1 \/ i = Len(toR) + 2
    BY <2>4
  <2>6. ASSUME NEW i \in 1 .. Len(toR'), toR'[i].k = "hdr" PROVE (IsOffer(toR[i].t, i))'
    <3>1. CASE i \in 1 .. Len(toR)
      <4>1. toR[i].k = "hdr" /\ toR'[i] = toR[i]
        BY <2>4, <2>6, <3>1
      <4> QED BY <1>8, <2>2, <2>3, <3>1, <4>1 DEF IsOffer
    <3>2. CASE i = Len(toR) + 1
      <4>1. i < Len(toR') /\ toR'[i + 1] = Info /\ toR'[i].t = "ZFILE"
        BY <2>1, <2>4, <3>2
      <4> QED BY <2>1, <4>1 DEF IsOffer, Offers
    <3>3. CASE i = Len(toR) + 2
      BY <2>1, <2>4, <2>6, <3>3
    <3> QED BY <2>5, <3>1, <3>2, <3>3
  <2> QED BY <2>1, <2>4, <2>5, <2>6
<1>10. ASSUME Sending, toR' # toR
       PROVE  /\ \A i \in 1 .. Len(toR') : toR'[i].k = "hdr" => (IsOffer(toR[i].t, i))'
              /\ \A i \in 1 .. Len(toR) : i \in 1 .. Len(toR') /\ toR'[i] = toR[i]
  <2>1. PICK e \in Frame : toR' = toR \o <<e>> /\ (e.k = "hdr" => e.t \in {"ZDATA", "ZEOF"})
    BY <1>10 DEF Sending
  <2>2. <<e>> \in Seq(Frame) /\ Len(<<e>>) = 1 /\ <<e>>[1] = e
    BY <2>1
  <2>3. /\ Len(toR') = Len(toR) + 1 /\ Len(toR) \in Nat
        /\ \A i \in 1 .. Len(toR) : i \in 1 .. Len(toR') /\ toR'[i] = toR[i]
        /\ toR'[Len(toR) + 1] = e
    BY <1>3, <2>1, <2>2
  <2>4. ASSUME NEW i \in 1 .. Len(toR'), toR'[i].k = "hdr" PROVE (IsOffer(toR[i].t, i))'
    <3>1. CASE i \in 1 .. Len(toR)
      <4>1. toR[i].k = "hdr" /\ toR'[i] = toR[i]
        BY <2>3, <2>4, <3>1
      <4> QED BY <1>8, <2>1, <2>2, <3>1, <4>1 DEF IsOffer
    <3>2. CASE i = Len(toR) + 1
      BY <2>1, <2>3, <2>4, <3>2 DEF IsOffer, Offers
    <3> QED BY <2>3, <3>1, <3>2
  <2> QED BY <2>3, <2>4
<1>11. SaysLittle'
  <2>1. \A i \in 1 .. Len(toS') : IsReply(toS'[i])
    BY <1>1, <1>5 DEF SaysLittle
  <2>2. \A i \in 1 .. Len(toR') : toR'[i].k = "hdr" => (IsOffer(toR[i].t, i))'
    <3>1. CASE toR' = toR
      BY <1>1, <3>1 DEF SaysLittle, IsOffer
    <3> QED BY <1>2, <1>9, <1>10, <3>1
  <2> QED BY <2>1, <2>2 DEF SaysLittle, IsReply
<1>12. Attentive'
  <2>1. toR # <<>> => toR' # <<>> /\ Head(toR') = Head(toR)
    <3>1. \A i \in 1 .. Len(toR) : i \in 1 .. Len(toR') /\ toR'[i] = toR[i]
      BY <1>2, <1>9, <1>10
    <3> QED BY <1>3, <3>1
  <2> QED BY <1>1, <2>1 DEF Attentive
<1>13. Greeted'
  <2> SUFFICES ASSUME spc' \in {"init", "initWait"} PROVE Greeted'
    BY DEF Greeted
  <2>1. spc \in {"init", "initWait"} /\ toR' = toR /\ (stry' > 0 => Closed(toS'))
    BY <1>2
  <2>2. \A i \in 1 .. Len(toS') : toS'[i].k = "hdr" => toS'[i].t = "ZRINIT"
    BY <1>1, <1>5, <2>1 DEF Greeted
  <2> QED BY <1>1, <2>1, <2>2 DEF Greeted, Closed
<1>14. NothingYet'
  <2> SUFFICES ASSUME spc' \in BeforeData PROVE NothingYet'
    BY DEF NothingYet
  <2>1. spc \in BeforeData /\ ~Sending
    BY <1>2 DEF Sending
  <2>2. \A i \in 1 .. Len(toS') : toS'[i].k = "hdr" => toS'[i].t # "ZACK"
    BY <1>1, <1>5, <2>1 DEF NothingYet
  <2>3. \A i \in 1 .. Len(toR') : toR'[i].k = "hdr" => toR'[i].t = "ZFILE"
    <3>1. CASE toR' = toR
      BY <1>1, <2>1, <3>1 DEF NothingYet
    <3>2. CASE Offering /\ toR' # toR
      BY <1>1, <1>9, <2>1, <3>2 DEF NothingYet
    <3> QED BY <1>2, <2>1, <3>1, <3>2
  <2> QED BY <1>1, <1>2, <2>1, <2>2, <2>3 DEF NothingYet
<1> QED BY <1>6, <1>11, <1>12, <1>13, <1>14 DEF Undisturbed

-----------------------------------------------------------------------------
\* The receiver greets, asks, declines and acknowledges.
LEMMA CleanReceiverTells ==
  ASSUME TypeOK, Undisturbed, RNext
  PROVE  \/ toS' = toS
         \/ \E e \in Frame :
              /\ toS' = toS \o <<e>> /\ IsReply(e)
              /\ e.k = "hdr" /\ e.t # "ZRINIT" =>
                   rpc \notin {"try", "zfileWait", "ret", "end"}
              /\ e.k = "hdr" /\ e.t = "ZACK" =>
                   \/ rpc = "block"
                   \/ toR # <<>> /\ Head(toR).k = "hdr" /\ Head(toR).t = "ZEOF"
<1> USE DEF RGo, RReturn, RAgain, RPass, RQuiet
<1> DEFINE Fine(e) == /\ IsReply(e)
                      /\ e.k = "hdr" /\ e.t # "ZRINIT" =>
                           rpc \notin {"try", "zfileWait", "ret", "end"}
                      /\ e.k = "hdr" /\ e.t = "ZACK" =>
                           \/ rpc = "block"
                           \/ toR # <<>> /\ Head(toR).k = "hdr" /\ Head(toR).t = "ZEOF"
           Tells == toS' = toS \/ \E e \in Frame : toS' = toS \o <<e>> /\ Fine(e)
<1> SUFFICES Tells
  OBVIOUS
<1>1. ASSUME NEW t \in Replies, NEW p \in Nat, RWrites(<<Hdr(t, p)>>),
             t # "ZRINIT" => rpc \notin {"try", "zfileWait", "ret", "end"},
             t = "ZACK" => \/ rpc = "block"
                           \/ toR # <<>> /\ Head(toR).k = "hdr" /\ Head(toR).t = "ZEOF"
      PROVE  Tells
  <2> DEFINE h == Hdr(t, p)
  <2>1. h \in Frame /\ h.k = "hdr" /\ h.t = t
    BY FramesAreTyped DEF FrameTypes, Replies, Hdr
  <2>2. Fine(h)
    BY <1>1, <2>1 DEF IsReply
  <2>3. toS' = toS \/ toS' = toS \o <<h>>
    BY <1>1 DEF RWrites, Written
  <2> QED BY <2>1, <2>2, <2>3
<1>2. toS' = toS => Tells
  OBVIOUS
<1> HIDE DEF Fine, Tells
<1>3. toR # <<>> => Head(toR) = toR[1] /\ 1 \in 1 .. Len(toR)
  BY DEF TypeOK, LineTypeOK
<1>4. \A types : RReceives(types) =>
        /\ toR # <<>> /\ Head(toR).k = "hdr"
        /\ Head(toR).t \in types \cap Offers
  BY <1>3 DEF RReceives, Arrives, Undisturbed, SaysLittle, IsOffer
<1>5. /\ rpc \notin {"zsinitInfo", "commandInfo", "finWait"} /\ ~rattn
      /\ rpc = "zfileInfo" => toR # <<>> /\ Head(toR).k = "info"
      /\ rpos \in Nat /\ 0 \in Nat
  BY DEF Undisturbed, Attentive, TypeOK, ReceiverTypeOK
<1>6. RAttention => toS' = toS
  BY <1>5 DEF RAttention
<1>7. CASE RClose
  <2>1. Eof \in Frame /\ Fine(Eof)
    BY FramesAreTyped DEF Eof, Fine, IsReply
  <2>2. toS' = toS \o <<Eof>>
    BY <1>7 DEF RClose, TypeOK, LineTypeOK
  <2> QED BY <2>1, <2>2 DEF Tells
<1>8. CASE RSkipGarbage \/ RFinWait \/ RDiscard \/ RWriteFails
  BY <1>2, <1>8 DEF RSkipGarbage, RFinWait, RDiscard, RWriteFails
<1>9. CASE RTry
  BY <1>1, <1>2, <1>5, <1>9 DEF RTry, Replies
<1>10. CASE RTryReply
  BY <1>2, <1>4, <1>10 DEF RTryReply, Offers
<1>11. CASE RInfo
  BY <1>2, <1>5, <1>11 DEF RInfo
<1>12. CASE RInfoFails
  BY <1>5, <1>12 DEF RInfoFails, ReadFails
<1>13. CASE RPrompt \/ RZrpos
  BY <1>1, <1>2, <1>5, <1>13 DEF RPrompt, RZrpos, Replies
<1>14. CASE RDataReply
  <2>1. CASE RWrites(<<Hdr("ZACK", rpos)>>) /\ RReceives({"ZEOF"})
    BY <1>1, <1>4, <1>5, <1>14, <2>1 DEF RDataReply, Replies
  <2>2. CASE toS' = toS
    BY <1>2, <2>2
  <2> QED BY <1>6, <1>14, <2>1, <2>2 DEF RDataReply
<1>15. CASE RBlock
  <2>1. rpos + Head(toR).n \in Nat
    <3>1. Head(toR) \in Frame /\ IsBlock(Head(toR))
      BY <1>15 DEF RBlock, Reads, IsBlock, TypeOK, LineTypeOK
    <3> QED BY <1>5, <3>1, BlockRange
  <2>2. CASE RWrites(<<Hdr("ZACK", rpos + Head(toR).n)>>) /\ rpc = "block"
    BY <1>1, <2>1, <2>2 DEF Replies
  <2>3. CASE toS' = toS
    BY <1>2, <2>3
  <2> QED BY <1>15, <2>2, <2>3 DEF RBlock
<1>16. CASE RBlockFails
  BY <1>2, <1>6, <1>16 DEF RBlockFails
<1> QED
  BY <1>7, <1>8, <1>9, <1>10, <1>11, <1>12, <1>13, <1>14, <1>15, <1>16
  DEF RNext, RCall

\* Where it goes.
LEMMA CleanReceiverTurns ==
  ASSUME TypeOK, Clean, Undisturbed, RNext
  PROVE  /\ rpc' \notin {"zsinitInfo", "commandInfo", "finWait"} /\ ~rattn'
         /\ rpc' = "zfileInfo" =>
              toR # <<>> /\ Head(toR).k = "hdr" /\ Head(toR).t = "ZFILE" /\ toR' = Tail(toR)
         /\ rpc' = "block" =>
              toR # <<>> /\ Head(toR).k = "hdr" /\ Head(toR).t = "ZDATA"
         /\ toR = <<>> /\ rpc \in {"try", "zfileWait", "ret", "end"} =>
              toR' = toR /\ rpc' \in {"try", "zfileWait", "ret", "end"}
<1> USE DEF RGo, RReturn, RAgain, RPass, RQuiet
<1>1. toR # <<>> => Head(toR) = toR[1] /\ 1 \in 1 .. Len(toR)
  BY DEF TypeOK, LineTypeOK
<1>2. \A types : RReceives(types) =>
        /\ toR # <<>> /\ Head(toR).k = "hdr" /\ toR' = Tail(toR)
        /\ Head(toR).t \in types \cap Offers
  BY <1>1 DEF RReceives, Arrives, Undisturbed, SaysLittle, IsOffer
<1>3. rpc \notin {"zsinitInfo", "commandInfo", "finWait"} /\ ~rattn
      /\ (rpc = "zfileInfo" => toR # <<>>)
  BY DEF Undisturbed, Attentive
<1>4. CASE RSkipGarbage
  BY <1>3, <1>4 DEF RSkipGarbage, RWaits, Skips
<1>5. CASE RTry
  BY <1>3, <1>5 DEF RTry
<1>6. CASE RTryReply
  <2>1. /\ rpc = "zfileWait" /\ UNCHANGED rattn
        /\ \/ rpc' = "zfileInfo" /\ RReceives({"ZFILE"})
           \/ rpc' \in {"try", "ret"}
    BY <1>2, <1>6 DEF RTryReply, Offers
  <2>2. toR # <<>>
    <3>1. \/ \E types : RReceives(types)
          \/ RTimeout \/ RError
      BY <1>6 DEF RTryReply
    <3> QED BY <1>2, <3>1 DEF RTimeout, TimesOut, RError, Fails, Clean
  <2> QED BY <1>2, <1>3, <2>1, <2>2
<1>7. CASE RInfo \/ RInfoFails
  BY <1>3, <1>7 DEF RInfo, RInfoFails
<1>8. CASE RFinWait
  BY <1>3, <1>8 DEF RFinWait
<1>9. CASE RPrompt \/ RZrpos
  BY <1>3, <1>9 DEF RPrompt, RZrpos
<1>10. CASE RDataReply
  <2>1. /\ rpc = "dataWait" /\ UNCHANGED rattn
        /\ \/ rpc' = "discard"
           \/ rpc' = "block" /\ RReceives({"ZDATA"})
           \/ rpc' \in {"zrpos", "ret"}
    BY <1>10 DEF RDataReply, RRetry
  <2> QED BY <1>2, <1>3, <2>1
<1>11. CASE RDiscard \/ RBlock \/ RBlockFails
  BY <1>3, <1>11 DEF RDiscard, RBlock, RBlockFails, RRetry
<1>12. CASE RWriteFails \/ RClose
  BY <1>3, <1>12 DEF RWriteFails, RClose
<1> QED
  BY <1>4, <1>5, <1>6, <1>7, <1>8, <1>9, <1>10, <1>11, <1>12 DEF RNext, RCall

\* Undisturbed in the steps of the receiver.
LEMMA CleanByReceiver ==
  ASSUME TypeOK, Inductive, Assumed, Clean, Undisturbed, Receiver
  PROVE  Undisturbed'
<1>1. /\ RNext /\ LineTypeOK /\ ReceiverTypeOK
      /\ spc' = spc /\ stry' = stry /\ swin' = swin
      /\ swin = 0 /\ SaysLittle /\ Attentive /\ Greeted /\ NothingYet
  BY DEF Receiver, svars, negotiated, TypeOK, Undisturbed
<1>2. /\ rpc' \notin {"zsinitInfo", "commandInfo", "finWait"} /\ ~rattn'
      /\ rpc' = "zfileInfo" =>
           toR # <<>> /\ Head(toR).k = "hdr" /\ Head(toR).t = "ZFILE" /\ toR' = Tail(toR)
      /\ rpc' = "block" => toR # <<>> /\ Head(toR).k = "hdr" /\ Head(toR).t = "ZDATA"
      /\ toR = <<>> /\ rpc \in {"try", "zfileWait", "ret", "end"} =>
           toR' = toR /\ rpc' \in {"try", "zfileWait", "ret", "end"}
  BY <1>1, CleanReceiverTurns
<1>3. toR \in Seq(Frame) /\ toS \in Seq(Frame) /\ toR' \in Seq(Frame) /\ toS' \in Seq(Frame)
  BY <1>1, ReceiverLineType DEF LineTypeOK
<1>4. toR # <<>> => Head(toR) = toR[1] /\ 1 \in 1 .. Len(toR) /\ Len(toR) \in Nat
  BY <1>3
<1>5. PICK d \in {0, 1} :
        /\ Len(toR') = Len(toR) - d /\ Len(toR) \in Nat
        /\ d = 1 => toR # <<>> /\ toR' = Tail(toR)
        /\ \A i \in 1 .. Len(toR') :
             /\ i + d \in 1 .. Len(toR)
             /\ \/ toR'[i] = toR[i + d]
                \/ i = 1 /\ d = 0 /\ toR'[i].k \in {"part", "zeros"}
  BY <1>1, <1>3, ReceiverConsumes, ConsumedRest
<1>6. ~Closed(toS)
  BY <1>1, ReceiverAnswers, InvReceives DEF IInv, Inductive, FramesToS, Closed, LineTypeOK
<1>7. \/ toS' = toS
      \/ \E e \in Frame :
           /\ toS' = toS \o <<e>> /\ IsReply(e)
           /\ e.k = "hdr" /\ e.t # "ZRINIT" =>
                rpc \notin {"try", "zfileWait", "ret", "end"}
           /\ e.k = "hdr" /\ e.t = "ZACK" =>
                \/ rpc = "block"
                \/ toR # <<>> /\ Head(toR).k = "hdr" /\ Head(toR).t = "ZEOF"
  BY <1>1, CleanReceiverTells
<1>8. \A i \in 1 .. Len(toS') : \/ \E j \in 1 .. Len(toS) : toS'[i] = toS[j]
                                \/ /\ IsReply(toS'[i])
                                   /\ toS'[i].k = "hdr" /\ toS'[i].t # "ZRINIT" =>
                                        rpc \notin {"try", "zfileWait", "ret", "end"}
                                   /\ toS'[i].k = "hdr" /\ toS'[i].t = "ZACK" =>
                                        \/ rpc = "block"
                                        \/ toR # <<>> /\ Head(toR).k = "hdr" /\ Head(toR).t = "ZEOF"
  <2>1. CASE toS' = toS
    BY <2>1
  <2>2. CASE toS' # toS
    <3>1. PICK e \in Frame :
            /\ toS' = toS \o <<e>> /\ IsReply(e)
            /\ e.k = "hdr" /\ e.t # "ZRINIT" =>
                 rpc \notin {"try", "zfileWait", "ret", "end"}
            /\ e.k = "hdr" /\ e.t = "ZACK" =>
                 \/ rpc = "block"
                 \/ toR # <<>> /\ Head(toR).k = "hdr" /\ Head(toR).t = "ZEOF"
      BY <1>7, <2>2
    <3>2. \A i \in 1 .. Len(toS') :
            (i \in 1 .. Len(toS) /\ toS'[i] = toS[i]) \/ toS'[i] = e
      BY <1>3, <3>1
    <3> QED BY <3>1, <3>2
  <2> QED BY <2>1, <2>2
\* What is left of toR.
<1>9. ASSUME NEW i \in 1 .. Len(toR'), toR'[i].k = "hdr"
      PROVE  i + d \in 1 .. Len(toR) /\ toR'[i] = toR[i + d] /\ (IsOffer(toR[i].t, i))'
  <2>1. i + d \in 1 .. Len(toR) /\ toR'[i] = toR[i + d]
    BY <1>5, <1>9
  <2>2. IsOffer(toR[i + d].t, i + d)
    BY <1>1, <1>9, <2>1 DEF SaysLittle
  <2>3. ASSUME i + d < Len(toR), toR[i + d + 1].k = "info"
        PROVE  i < Len(toR') /\ toR'[i + 1].k = "info"
    <3>1. i + 1 \in 1 .. Len(toR') /\ i + 1 # 1 /\ (i + 1) + d = i + d + 1
      BY <1>5, <2>3
    <3>2. toR'[i + 1] = toR[(i + 1) + d]
      BY <1>5, <3>1
    <3> QED BY <1>5, <2>3, <3>1, <3>2
  <2> QED BY <2>1, <2>2, <2>3 DEF IsOffer
<1>10. SaysLittle'
  <2>1. \A i \in 1 .. Len(toS') : IsReply(toS'[i])
    BY <1>1, <1>8 DEF SaysLittle
  <2> QED BY <1>9, <2>1 DEF SaysLittle, IsReply
<1>11. Attentive'
  <2>1. ASSUME rpc' = "zfileInfo" PROVE toR' # <<>> /\ Head(toR').k = "info"
    <3>1. /\ toR # <<>> /\ toR[1].k = "hdr" /\ toR[1].t = "ZFILE" /\ toR' = Tail(toR)
          /\ 1 \in 1 .. Len(toR)
      BY <1>2, <1>4, <2>1
    <3>2. 1 < Len(toR) /\ toR[1 + 1].k = "info"
      BY <1>1, <3>1 DEF SaysLittle, IsOffer
    <3>3. Len(toR') = Len(toR) - 1 /\ 1 \in 1 .. Len(toR') /\ toR'[1] = toR[1 + 1]
      BY <1>3, <3>1, <3>2
    <3> QED BY <1>3, <3>2, <3>3
  <2> QED BY <1>2, <2>1 DEF Attentive
<1>12. Greeted'
  <2> SUFFICES ASSUME spc' \in {"init", "initWait"} PROVE Greeted'
    BY DEF Greeted
  <2>1. /\ toR = <<>> /\ rpc \in {"try", "zfileWait", "ret", "end"} /\ ~(stry > 0)
        /\ \A i \in 1 .. Len(toS) : toS[i].k = "hdr" => toS[i].t = "ZRINIT"
    BY <1>1, <1>6 DEF Greeted
  <2>2. toR' = <<>> /\ rpc' \in {"try", "zfileWait", "ret", "end"}
    BY <1>2, <2>1
  <2>3. \A i \in 1 .. Len(toS') : toS'[i].k = "hdr" => toS'[i].t = "ZRINIT"
    BY <1>8, <2>1
  <2> QED BY <1>1, <2>1, <2>2, <2>3 DEF Greeted
<1>13. NothingYet'
  <2> SUFFICES ASSUME spc' \in BeforeData PROVE NothingYet'
    BY DEF NothingYet
  <2>1. /\ spc \in BeforeData /\ spc' \notin {"zsinit", "zsinitWait"} /\ rpc # "block"
        /\ \A i \in 1 .. Len(toR) : toR[i].k = "hdr" => toR[i].t = "ZFILE"
        /\ \A i \in 1 .. Len(toS) : toS[i].k = "hdr" => toS[i].t # "ZACK"
    BY <1>1 DEF NothingYet
  <2>2. rpc' # "block" /\ ~(toR # <<>> /\ Head(toR).k = "hdr" /\ Head(toR).t = "ZEOF")
    BY <1>2, <1>4, <2>1
  <2>3. \A i \in 1 .. Len(toR') : toR'[i].k = "hdr" => toR'[i].t = "ZFILE"
    BY <1>9, <2>1
  <2>4. \A i \in 1 .. Len(toS') : toS'[i].k = "hdr" => toS'[i].t # "ZACK"
    BY <1>8, <2>1, <2>2
  <2> QED BY <2>1, <2>2, <2>3, <2>4 DEF NothingYet
<1> QED BY <1>1, <1>10, <1>11, <1>12, <1>13 DEF Undisturbed

\* Nothing disturbs a clean line.
LEMMA StaysUndisturbed ==
  ASSUME Assumed, Clean PROVE Spec => []Undisturbed
<1>1. Init => Undisturbed
  <2> SUFFICES ASSUME Init PROVE Undisturbed
    OBVIOUS
  <2>1. /\ toR = <<>> /\ toS = <<>> /\ spc = "init" /\ stry = 0 /\ swin = 0
        /\ rpc = "try" /\ rattn = FALSE
    BY DEF Init, LineInit, SenderInit, ReceiverInit, Clean
  <2>2. SaysLittle /\ Attentive /\ Greeted /\ NothingYet
    BY <2>1 DEF SaysLittle, Attentive, Greeted, NothingYet
  <2> QED BY <2>1, <2>2 DEF Undisturbed
<1>2. TypeOK /\ Inductive /\ Ordered /\ Undisturbed /\ [Next]_vars => Undisturbed'
  <2> SUFFICES ASSUME TypeOK, Inductive, Ordered, Undisturbed, [Next]_vars
               PROVE  Undisturbed'
    OBVIOUS
  <2>1. Streaming
    BY DEF Ordered, Undisturbed
  <2>2. CASE Sender
    BY <2>1, <2>2, CleanBySender
  <2>3. CASE Receiver
    BY <2>3, CleanByReceiver
  <2>4. CASE Line
    BY <2>4 DEF Line, Garble, Clean, TypeOK, LineTypeOK
  <2>5. CASE UNCHANGED vars
    <3>1. UNCHANGED <<toR, toS, spc, stry, swin, rpc, rattn>>
      BY <2>5 DEF vars, line, svars, negotiated, rvars
    <3>2. SaysLittle' /\ Attentive'
      BY <3>1 DEF Undisturbed, SaysLittle, Attentive, IsOffer
    <3>3. Greeted' /\ NothingYet'
      BY <3>1 DEF Undisturbed, Greeted, NothingYet, Closed
    <3> QED BY <3>1, <3>2, <3>3 DEF Undisturbed
  <2> QED BY <2>2, <2>3, <2>4, <2>5 DEF Next, Done
<1> QED BY <1>1, <1>2, TypeCorrect, StepsPreserve, StaysOrdered, PTL DEF Spec

\* On a line that nothing disturbs a call of the sender fails only when the
\* other end has closed its stream (sender.go:389-400), whatever the file, the
\* sizes of blocks and buffers and the error limits are, and whether the other
\* user declines the file or the other disk fails.
THEOREM FailsOnlyAtLoss == ASSUME Assumed, Clean PROVE Spec => FailureIsLoss
<1>1. TypeOK /\ Inductive /\ Ordered /\ Undisturbed /\ [Next]_vars =>
        [sres = "none" /\ sres' = "failed" => Closed(toS)]_vars
  <2> SUFFICES ASSUME TypeOK, Inductive, Ordered, Undisturbed, [Next]_vars,
                      sres = "none", sres' = "failed"
               PROVE  Closed(toS)
    OBVIOUS
  <2>1. Streaming
    BY DEF Ordered, Undisturbed
  <2>2. Sender
    BY DEF Next, Receiver, Line, Done, vars, svars
  <2> QED BY <2>1, <2>2, FailsWhenClosed DEF Sender
<1> QED BY <1>1, TypeCorrect, StepsPreserve, StaysOrdered, StaysUndisturbed, PTL
        DEF Spec, FailureIsLoss
=============================================================================
